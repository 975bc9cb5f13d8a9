-------------------------- MODULE Serialize_proofs --------------------------
(***************************************************************************)
(* The invariants of Serialize, for any sizes and widths.                  *)
(*                                                                         *)
(* A system instruction leaves the dispatch queue only as the head of the  *)
(* ROB (Alone), and IQ0 is empty then, because the queue gives out its     *)
(* instructions in order (InOrder).  The unit therefore holds the head or  *)
(* nothing (Unit), so its report is older than any other (Reasons), and    *)
(* the privileged registers are always those of the reference but for the  *)
(* head, or for a trap on its way (InStep).  A squash must find them       *)
(* equal, since it throws the head away.                                   *)
(*                                                                         *)
(* The two recursions of the model, the registers of the reference and the *)
(* choice of the queues, are functions on a bounded domain: that their     *)
(* equations have a solution, and what holds of it, follows from the least *)
(* index at which it would fail.                                           *)
(***************************************************************************)
EXTENDS Serialize, FiniteSetTheorems, SequenceTheorems, WellFoundedInduction, TLAPS

-----------------------------------------------------------------------------
(* Least elements, and what a recursion defines.                           *)

\* A set of naturals that is not empty has a least element.
LEMMA LeastElement ==
  ASSUME NEW T \in SUBSET Nat, T # {}
  PROVE  \E m \in T : \A k \in T : m <= k
<1> DEFINE R == {ss \in Nat \X Nat : ss[1] < ss[2]}
<1>1. IsWellFoundedOn(R, Nat)
  BY NatLessThanWellFounded DEF OpToRel
<1>2. PICK m \in T : \A k \in T : <<k, m>> \notin R
  BY <1>1, WFMin, Zenon
<1>3. ASSUME NEW k \in T PROVE m <= k
  <2>1. k \in Nat /\ m \in Nat
    OBVIOUS
  <2>2. ~(k < m)
    BY <1>2, <2>1
  <2> QED
    BY <2>1, <2>2
<1> QED
  BY <1>3

\* A set of small naturals that is not empty has a greatest element.
LEMMA GreatestElement ==
  ASSUME NEW n \in Nat, NEW T \in SUBSET (0 .. n), T # {}
  PROVE  Max(T) \in T /\ \A k \in T : k <= Max(T)
<1> DEFINE U == {k \in 0 .. n : n - k \in T}
<1>1. PICK x \in T : TRUE
  OBVIOUS
<1>2. n - x \in U
  <2>1. n - x \in 0 .. n /\ n - (n - x) = x
    BY <1>1
  <2> QED
    BY <2>1
<1>3. PICK m \in U : \A k \in U : m <= k
  <2>1. U \in SUBSET Nat
    OBVIOUS
  <2> QED
    BY <1>2, <2>1, LeastElement
<1>4. n - m \in T
  BY <1>3
<1>5. \A k \in T : n - m >= k
  <2> TAKE k \in T
  <2>1. n - k \in U
    <3>1. n - k \in 0 .. n /\ n - (n - k) = k
      OBVIOUS
    <3> QED
      BY <3>1
  <2>2. m <= n - k
    BY <1>3, <2>1
  <2> QED
    BY <2>2
<1>6. \E y \in T : \A k \in T : y >= k
  BY <1>4, <1>5
<1>7. Max(T) \in T /\ \A k \in T : Max(T) >= k
  BY <1>6 DEF Max
<1>8. \A k \in T : k \in Nat
  OBVIOUS
<1> QED
  BY <1>7, <1>8

\* n steps, each a function of what the one before it gives
StepFunctions(n, S) == [1 .. n -> [S -> S]]
Recursive(f, n, S, x, F) ==
  f \in [0 .. n -> S] /\ f[0] = x /\ \A k \in 1 .. n : f[k] = F[k][f[k - 1]]

\* Steps given one by one can be taken one after the other.
LEMMA StepsAdd ==
  ASSUME NEW n \in Nat, NEW S, NEW x \in S, NEW F \in StepFunctions(n, S)
  PROVE  \E f : Recursive(f, n, S, x, F)
<1> USE DEF StepFunctions
<1> DEFINE Follows(f, m) == f[0] = x /\ \A k \in 1 .. m : f[k] = F[k][f[k - 1]]
           T == {m \in 0 .. n : ~ \E f \in [0 .. n -> S] : Follows(f, m)}
<1> SUFFICES T = {}
  <2>1. n \notin T
    OBVIOUS
  <2>2. PICK f \in [0 .. n -> S] : Follows(f, n)
    BY <2>1
  <2>3. Recursive(f, n, S, x, F)
    BY <2>2 DEF Recursive
  <2> QED
    BY <2>3
<1> SUFFICES ASSUME T # {} PROVE FALSE
  OBVIOUS
<1>1. PICK m \in T : \A k \in T : m <= k
  <2>1. T \in SUBSET Nat
    OBVIOUS
  <2> HIDE DEF T
  <2> QED
    BY <2>1, LeastElement
<1>2. m # 0
  <2> SUFFICES ASSUME m = 0 PROVE FALSE
    OBVIOUS
  <2> DEFINE c == [k \in 0 .. n |-> x]
  <2>1. c \in [0 .. n -> S] /\ c[0] = x
    OBVIOUS
  <2>2. Follows(c, 0)
    BY <2>1
  <2> HIDE DEF c
  <2> QED
    BY <2>1, <2>2
<1>3. m - 1 \in 0 .. n /\ m - 1 \notin T /\ m \in 1 .. n
  <2>1. m \in 0 .. n
    BY <1>1
  <2>2. ~(m <= m - 1)
    BY <2>1
  <2>3. m - 1 \notin T
    BY <1>1, <2>2
  <2> QED
    BY <1>2, <2>1, <2>3
<1>4. PICK f \in [0 .. n -> S] : Follows(f, m - 1)
  BY <1>3
<1> DEFINE g == [f EXCEPT ![m] = F[m][f[m - 1]]]
<1>5. F[m][f[m - 1]] \in S
  <2>1. f[m - 1] \in S /\ F[m] \in [S -> S]
    BY <1>3
  <2> QED
    BY <2>1
<1>6. g \in [0 .. n -> S] /\ g[m] = F[m][f[m - 1]] /\ \A k \in 0 .. m - 1 : g[k] = f[k]
  BY <1>3, <1>5
<1> HIDE DEF g
<1>7. g[0] = x
  BY <1>3, <1>4, <1>6
<1>8. ASSUME NEW k \in 1 .. m PROVE g[k] = F[k][g[k - 1]]
  <2>1. k - 1 \in 0 .. m - 1 /\ g[k - 1] = f[k - 1]
    BY <1>3, <1>6
  <2>2. CASE k = m
    BY <1>6, <2>1, <2>2
  <2>3. CASE k # m
    <3>1. k \in 1 .. m - 1 /\ k \in 0 .. m - 1
      BY <1>3, <2>3
    <3>2. f[k] = F[k][f[k - 1]]
      BY <1>4, <3>1
    <3> QED
      BY <1>6, <2>1, <3>1, <3>2
  <2> QED
    BY <2>2, <2>3
<1>9. Follows(g, m)
  BY <1>7, <1>8
<1> QED
  BY <1>1, <1>6, <1>9

-----------------------------------------------------------------------------
(* The two recursions of the model.                                        *)

\* Entries of the ROB, as TypeOK has them.
Entries == [kind : Kinds, at : {"dq", "iq0", "iq1", "scu", "mem", "fin"}]

\* The reference keeps its registers in their types.
LEMMA RefExecType ==
  ASSUME NEW r \in Registers, NEW kind
  PROVE  RefExec(r, kind) \in Registers
  BY DEF RefExec, Registers, Modes

\* The registers of the reference are those after one instruction less, and then
\* one more.
LEMMA RefAfterDef ==
  ASSUME rob \in Seq(Entries), ref \in Registers
  PROVE  /\ RefAfter \in [0 .. Len(rob) -> Registers]
         /\ RefAfter[0] = ref
         /\ \A n \in 1 .. Len(rob) : RefAfter[n] = RefExec(RefAfter[n - 1], rob[n].kind)
<1> DEFINE F == [n \in 1 .. Len(rob) |-> [r \in Registers |-> RefExec(r, rob[n].kind)]]
           IsAfter(f) == f = [n \in 0 .. Len(rob) |-> IF n = 0 THEN ref
                                                      ELSE RefExec(f[n - 1], rob[n].kind)]
<1>1. Len(rob) \in Nat
  OBVIOUS
<1>2. F \in [1 .. Len(rob) -> [Registers -> Registers]]
  BY RefExecType
<1> HIDE DEF F
<1>3. PICK f : Recursive(f, Len(rob), Registers, ref, F)
  BY <1>1, <1>2, StepsAdd DEF StepFunctions
<1>4. ASSUME NEW n \in 1 .. Len(rob) PROVE f[n] = RefExec(f[n - 1], rob[n].kind)
  <2>1. n - 1 \in 0 .. Len(rob)
    OBVIOUS
  <2>2. f[n - 1] \in Registers
    BY <1>3, <2>1 DEF Recursive
  <2>3. F[n] = [r \in Registers |-> RefExec(r, rob[n].kind)]
    BY Zenon DEF F
  <2>4. F[n][f[n - 1]] = RefExec(f[n - 1], rob[n].kind)
    BY <2>2, <2>3, Zenon
  <2> QED
    BY <1>3, <2>4 DEF Recursive
<1>5. IsAfter(f)
  <2> DEFINE g == [n \in 0 .. Len(rob) |-> IF n = 0 THEN ref ELSE RefExec(f[n - 1], rob[n].kind)]
  <2>1. ASSUME NEW n \in 0 .. Len(rob) PROVE f[n] = g[n]
    <3>1. CASE n = 0
      BY <1>3, <3>1 DEF Recursive
    <3>2. CASE n # 0
      BY <1>4, <3>2
    <3> QED
      BY <3>1, <3>2
  <2>2. f \in [0 .. Len(rob) -> Registers]
    BY <1>3 DEF Recursive
  <2> QED
    BY <2>1, <2>2
<1>6. RefAfter = CHOOSE g : IsAfter(g)
  BY DEF RefAfter
<1> HIDE DEF IsAfter
<1>7. IsAfter(RefAfter)
  BY <1>5, <1>6
<1>8. DOMAIN RefAfter = 0 .. Len(rob)
  BY <1>7 DEF IsAfter
<1>9. \A n \in 0 .. Len(rob) : RefAfter[n] = IF n = 0 THEN ref ELSE RefExec(RefAfter[n - 1], rob[n].kind)
  BY <1>7 DEF IsAfter
<1>10. RefAfter[0] = ref
  BY <1>1, <1>9
<1>11. ASSUME NEW n \in 1 .. Len(rob) PROVE RefAfter[n] = RefExec(RefAfter[n - 1], rob[n].kind)
  <2>1. n \in 0 .. Len(rob) /\ n # 0
    OBVIOUS
  <2> QED
    BY <1>9, <2>1
<1>12. ASSUME NEW n \in 0 .. Len(rob) PROVE RefAfter[n] \in Registers
  <2> DEFINE T == {m \in 0 .. Len(rob) : RefAfter[m] \notin Registers}
  <2> SUFFICES T = {}
    OBVIOUS
  <2> SUFFICES ASSUME T # {} PROVE FALSE
    OBVIOUS
  <2>1. T \in SUBSET Nat
    OBVIOUS
  <2>2. PICK m \in T : \A k \in T : m <= k
    BY <2>1, LeastElement
  <2>3. m \in 1 .. Len(rob) /\ RefAfter[m] \notin Registers
    BY <1>10, <2>2
  <2>4. m - 1 \in 0 .. Len(rob) /\ ~(m <= m - 1)
    BY <2>3
  <2>5. RefAfter[m - 1] \in Registers
    BY <2>2, <2>4
  <2> QED
    BY <1>11, <2>3, <2>5, RefExecType
<1>13. RefAfter = [n \in 0 .. Len(rob) |-> RefAfter[n]]
  BY <1>7, <1>9 DEF IsAfter
<1> QED
  BY <1>10, <1>11, <1>12, <1>13

\* What a port's instruction gets depends on those before it.
LEMMA ChoiceLocal ==
  ASSUME NEW i \in DOMAIN rob, NEW t, NEW u, \A j \in Window : j < i => t[j] = u[j]
  PROVE  Choice(t, i) = Choice(u, i)
<1> DEFINE before == {j \in Window : j < i}
<1>1. (\E j \in before : t[j] = "no") <=> (\E j \in before : u[j] = "no")
  OBVIOUS
<1>2. ASSUME NEW q PROVE {j \in before : t[j] = q} = {j \in before : u[j] = q}
  OBVIOUS
<1>3. {j \in before : t[j] = "iq0"} = {j \in before : u[j] = "iq0"}
  BY <1>2
<1>4. {j \in before : t[j] = "iq1"} = {j \in before : u[j] = "iq1"}
  BY <1>2
<1> QED
  BY <1>1, <1>3, <1>4, Zenon DEF Choice

\* Every instruction gets a queue or none.
LEMMA TakenDef ==
  ASSUME rob \in Seq(Entries)
  PROVE  /\ Taken \in [DOMAIN rob -> {"no", "iq0", "iq1"}]
         /\ \A i \in DOMAIN rob : Taken[i] = Choice(Taken, i)
<1> DEFINE L == Len(rob)
           Q == {"no", "iq0", "iq1"}
           Chosen(t, m) == \A i \in 1 .. m : t[i] = Choice(t, i)
           T == {m \in 0 .. L : ~ \E t \in [1 .. L -> Q] : Chosen(t, m)}
           IsTaken(t) == t = [i \in DOMAIN rob |-> Choice(t, i)]
<1>1. L \in Nat /\ DOMAIN rob = 1 .. L
  OBVIOUS
<1>2. ASSUME NEW t, NEW i PROVE Choice(t, i) \in Q
  BY DEF Choice
<1>3. Window \subseteq 1 .. L
  BY <1>1 DEF Window, Waiting
<1>4. T = {}
  <2> SUFFICES ASSUME T # {} PROVE FALSE
    OBVIOUS
  <2>1. T \in SUBSET Nat
    OBVIOUS
  <2> HIDE DEF T
  <2>2. PICK m \in T : \A k \in T : m <= k
    BY <2>1, LeastElement
  <2> USE DEF T
  <2>3. m \in 0 .. L
    BY <2>2
  <2>4. m # 0
    <3>1. [i \in 1 .. L |-> "no"] \in [1 .. L -> Q]
      OBVIOUS
    <3>2. Chosen([i \in 1 .. L |-> "no"], 0)
      OBVIOUS
    <3>3. 0 \notin T
      BY <3>1, <3>2
    <3> QED
      BY <2>2, <3>3
  <2>5. m - 1 \notin T /\ m - 1 \in 0 .. L
    <3>1. ~(m <= m - 1) /\ m - 1 \in 0 .. L
      BY <2>3, <2>4
    <3> HIDE DEF T
    <3> QED
      BY <2>2, <3>1
  <2>6. PICK t \in [1 .. L -> Q] : Chosen(t, m - 1)
    BY <2>5
  <2> DEFINE u == [t EXCEPT ![m] = Choice(t, m)]
  <2>7. m \in 1 .. L /\ Choice(t, m) \in Q
    BY <1>2, <2>3, <2>4
  <2>8. u \in [1 .. L -> Q] /\ u[m] = Choice(t, m) /\ \A k \in 1 .. L : k # m => u[k] = t[k]
    BY <2>7
  <2> HIDE DEF u
  <2>9. ASSUME NEW i \in 1 .. m PROVE u[i] = Choice(u, i)
    <3>1. \A j \in Window : j < i => t[j] = u[j]
      BY <1>3, <2>7, <2>8
    <3>2. i \in DOMAIN rob
      BY <1>1, <2>3
    <3>3. Choice(t, i) = Choice(u, i)
      BY <3>1, <3>2, ChoiceLocal
    <3>4. CASE i = m
      BY <2>8, <3>3, <3>4
    <3>5. CASE i # m
      <4>1. i \in 1 .. m - 1 /\ i \in 1 .. L
        BY <2>3, <3>5
      <4>2. t[i] = Choice(t, i)
        BY <2>6, <4>1
      <4> QED
        BY <2>8, <3>3, <3>5, <4>1, <4>2
    <3> QED
      BY <3>4, <3>5
  <2>10. Chosen(u, m)
    BY <2>9
  <2> QED
    BY <2>2, <2>8, <2>10
<1>5. PICK t \in [1 .. L -> Q] : Chosen(t, L)
  <2>1. L \in 0 .. L
    BY <1>1
  <2> QED
    BY <1>4, <2>1
<1>6. IsTaken(t)
  <2>1. \A i \in 1 .. L : t[i] = Choice(t, i)
    BY <1>5
  <2> HIDE DEF L
  <2> QED
    BY <1>1, <2>1
<1>7. Taken = CHOOSE u : IsTaken(u)
  BY DEF Taken
<1> HIDE DEF IsTaken
<1>8. IsTaken(Taken)
  BY <1>6, <1>7
<1>9. \A i \in DOMAIN rob : Taken[i] = Choice(Taken, i)
  BY <1>8 DEF IsTaken
<1>10. Taken = [i \in DOMAIN rob |-> Choice(Taken, i)]
  BY <1>8 DEF IsTaken
<1>11. \A i \in DOMAIN rob : Choice(Taken, i) \in Q
  BY <1>2
<1>12. Taken \in [DOMAIN rob -> Q]
  <2> DEFINE Z == [i \in DOMAIN rob |-> Choice(Taken, i)]
  <2>1. Z \in [DOMAIN rob -> Q]
    BY <1>11
  <2> HIDE DEF Z, Q
  <2>2. Taken = Z
    BY <1>10 DEF Z
  <2> QED
    BY <2>1, <2>2
<1> QED
  BY <1>9, <1>12

-----------------------------------------------------------------------------
(* The invariant.                                                          *)

\* the unit that an instruction is in suits it
Placed(e) ==
  /\ e.at \in {"dq", "iq0", "iq1", "scu"} => e.kind # "mem"
  /\ e.at \in {"iq1", "mem"} => e.kind \notin System
  /\ e.at = "scu" => e.kind \in System

\* The dispatch queue gives out its instructions in order.
InOrder ==
  \A i, j \in DOMAIN rob :
    i < j /\ rob[i].at = "dq" => rob[j].at = "dq" \/ rob[j].kind = "mem"

\* A system instruction leaves the dispatch queue as the head, and is waited for.
Alone ==
  /\ \A i \in DOMAIN rob : IsSystem(i) /\ rob[i].at # "dq" => i = 1 /\ status = 3
  /\ status >= 2 => rob # << >> /\ IsSystem(1)

\* What the system unit holds is the head, and was computed from the registers as
\* they are.
Unit ==
  \/ scu = Idle /\ \A i \in DOMAIN rob : rob[i].at # "scu"
  \/ /\ rob # << >> /\ rob[1].at = "scu"
     /\ scu \in {Issue(rob[1].kind), Computed(Issue(rob[1].kind))}

\* The recorded reason is a finished instruction; a squash is sent once its trap
\* is taken, and finds the unit empty.
Reasons ==
  /\ shr.type # "none" => shr.idx \in DOMAIN rob /\ rob[shr.idx].at = "fin"
  /\ squash_vld => ~do_except /\ scu = Idle

\* the head has finished without a fault
Executed == rob # << >> /\ rob[1].at = "fin" /\ ~(shr.type = "except" /\ shr.idx = 1)

\* The privileged registers are the reference's, but for what the head has done,
\* which no squash may throw away, and for a trap, which the reference takes a
\* cycle earlier.  The simulator has them.
InStep ==
  /\ cpu_csrs = Shown(priv)
  /\ squash_vld => priv = ref
  /\ IF do_except THEN ref = Trap(priv, shr.cause)
     ELSE priv = IF Executed THEN RefExec(ref, rob[1].kind) ELSE ref

Inv ==
  /\ TypeOK
  /\ \A i \in DOMAIN rob : Placed(rob[i])
  /\ InOrder /\ Alone /\ Unit /\ Reasons /\ InStep

-----------------------------------------------------------------------------
(* Commit.                                                                 *)

\* What leaves is finished and has no reason to be squashed but a misprediction;
\* what acts is next to leave, or the last to.
LEMMA CommitFacts ==
  ASSUME TypeOK, Reasons
  PROVE  /\ NumCommit \in 0 .. Len(rob)
         /\ \A i \in 1 .. NumCommit : rob[i].at = "fin"
         /\ NumCommit > 0 => ~squash_vld /\ ~do_except /\ ~(shr.type = "except" /\ shr.idx <= NumCommit)
         /\ HasExcept /\ ~squash_vld /\ ~do_except => NumCommit = shr.idx - 1
         /\ HasMispred /\ ~squash_vld /\ ~do_except => NumCommit = shr.idx
         /\ Acts => shr.idx \in DOMAIN rob /\ \A i \in 1 .. shr.idx : rob[i].at = "fin"
<1> DEFINE goes(i) == /\ Finished(i)
                      /\ ~(shr.type = "except" /\ shr.idx <= i)
                      /\ ~(shr.type = "mispred" /\ shr.idx < i)
           S == {i \in 1 .. COMMIT_WIDTH : goes(i)}
           stop == squash_vld \/ do_except
<1>1. NumCommit = IF stop THEN 0 ELSE IF S = {} THEN 0 ELSE Max(S)
  BY DEF NumCommit
<1>2. rob \in Seq(Entries) /\ Len(rob) \in Nat /\ COMMIT_WIDTH \in Nat /\ shr.idx \in Nat
  BY WidthAssumption DEF TypeOK, Entries
<1>3. ASSUME NEW i, Finished(i)
      PROVE  i \in 1 .. Len(rob) /\ \A j \in 1 .. i : rob[j].at = "fin" /\ Finished(j)
  BY <1>2, <1>3 DEF Finished
<1>4. ASSUME S # {} PROVE Max(S) \in S /\ \A k \in S : k <= Max(S)
  <2>1. S \in SUBSET (0 .. COMMIT_WIDTH)
    BY <1>2
  <2> HIDE DEF S
  <2> QED
    BY <1>2, <1>4, <2>1, GreatestElement
<1>5. Acts => shr.idx \in DOMAIN rob /\ \A i \in 1 .. shr.idx : rob[i].at = "fin" /\ Finished(i)
  BY <1>2, <1>3 DEF Acts
<1>6. NumCommit = 0 \/ (~stop /\ NumCommit \in S)
  BY <1>1, <1>4
<1>7. /\ NumCommit \in 0 .. Len(rob)
      /\ \A i \in 1 .. NumCommit : rob[i].at = "fin"
      /\ NumCommit > 0 => ~stop /\ ~(shr.type = "except" /\ shr.idx <= NumCommit)
  BY <1>2, <1>3, <1>6
<1>8. ASSUME HasExcept, ~stop PROVE NumCommit = shr.idx - 1
  <2>1. shr.idx \in 1 .. COMMIT_WIDTH /\ shr.type = "except" /\ Acts
    BY <1>2, <1>5, <1>8 DEF HasExcept, Acts
  <2>2. \A i \in S : i <= shr.idx - 1
    BY <1>2, <2>1
  <2>3. CASE shr.idx = 1
    <3>1. S = {}
      <4>1. \A i \in S : i \in 1 .. COMMIT_WIDTH /\ i <= 0
        BY <2>2, <2>3
      <4> QED
        BY <4>1
    <3> HIDE DEF S
    <3> QED
      BY <1>1, <1>8, <2>3, <3>1
  <2>4. CASE shr.idx # 1
    <3>1. shr.idx - 1 \in 1 .. COMMIT_WIDTH /\ shr.idx - 1 \in 1 .. shr.idx
      BY <1>2, <2>1, <2>4
    <3>2. Finished(shr.idx - 1)
      BY <1>5, <2>1, <3>1
    <3>3. shr.idx - 1 \in S
      BY <1>2, <2>1, <3>1, <3>2
    <3>4. S # {} /\ Max(S) \in S /\ shr.idx - 1 <= Max(S)
      BY <1>4, <3>3
    <3>5. Max(S) <= shr.idx - 1 /\ Max(S) \in Nat
      BY <2>2, <3>4
    <3> HIDE DEF S
    <3>6. Max(S) = shr.idx - 1
      BY <1>2, <3>4, <3>5
    <3> QED
      BY <1>1, <1>8, <3>4, <3>6
  <2> QED
    BY <2>3, <2>4
<1>9. ASSUME HasMispred, ~stop PROVE NumCommit = shr.idx
  <2>1. shr.idx \in 1 .. COMMIT_WIDTH /\ shr.type = "mispred" /\ Acts
    BY <1>2, <1>5, <1>9 DEF HasMispred, Acts
  <2>2. \A i \in S : i <= shr.idx
    BY <1>2, <2>1
  <2>3. Finished(shr.idx)
    BY <1>5, <2>1
  <2>4. shr.idx \in S
    BY <1>2, <2>1, <2>3
  <2>5. S # {} /\ Max(S) \in S /\ shr.idx <= Max(S)
    BY <1>4, <2>4
  <2>6. Max(S) <= shr.idx /\ Max(S) \in Nat
    BY <2>2, <2>5
  <2> HIDE DEF S
  <2>7. Max(S) = shr.idx
    BY <1>2, <2>5, <2>6
  <2> QED
    BY <1>1, <1>9, <2>5, <2>7
<1> QED
  BY <1>5, <1>7, <1>8, <1>9

\* Only a system instruction does anything to the registers.
LEMMA OthersKeep ==
  ASSUME NEW r, NEW kind, kind \notin System
  PROVE  RefExec(r, kind) = r
  BY DEF RefExec, System

\* What commits brings the reference to the registers of the core: the head has
\* done what it does, and nothing behind it is a system instruction.
LEMMA CommittedRef ==
  ASSUME Inv
  PROVE  /\ RefAfter[0] = ref
         /\ \A k \in 1 .. NumCommit : RefAfter[k] = priv
<1>1. rob \in Seq(Entries) /\ Len(rob) \in Nat /\ ref \in Registers
  BY DEF Inv, TypeOK, Entries
<1>2. /\ RefAfter[0] = ref
      /\ \A n \in 1 .. Len(rob) : RefAfter[n] = RefExec(RefAfter[n - 1], rob[n].kind)
  BY <1>1, RefAfterDef
<1>3. /\ NumCommit \in 0 .. Len(rob) /\ \A i \in 1 .. NumCommit : rob[i].at = "fin"
      /\ NumCommit > 0 => ~do_except /\ ~(shr.type = "except" /\ shr.idx <= NumCommit)
  BY CommitFacts DEF Inv
<1> DEFINE T == {k \in 1 .. NumCommit : RefAfter[k] # priv}
<1>4. ASSUME T # {} PROVE FALSE
  <2>1. T \in SUBSET Nat
    BY <1>3
  <2>2. PICK k \in T : \A j \in T : k <= j
    BY <1>4, <2>1, LeastElement
  <2>3. k \in 1 .. NumCommit /\ k \in 1 .. Len(rob) /\ RefAfter[k] # priv /\ NumCommit > 0
    BY <1>3, <2>2
  <2>4. CASE k = 1
    <3>1. 1 \in 1 .. NumCommit /\ rob # << >> /\ rob[1].at = "fin"
      BY <1>1, <1>3, <2>3, <2>4
    <3>2. ~(shr.type = "except" /\ shr.idx = 1)
      BY <1>3, <2>3, <3>1
    <3>3. priv = RefExec(ref, rob[1].kind)
      BY <1>3, <2>3, <3>1, <3>2 DEF Inv, InStep, Executed
    <3>4. RefAfter[k] = RefExec(RefAfter[k - 1], rob[k].kind)
      BY <1>2, <2>3
    <3>5. RefAfter[k - 1] = ref
      BY <1>2, <2>4
    <3> QED
      BY <2>3, <2>4, <3>3, <3>4, <3>5
  <2>5. CASE k # 1
    <3>1. k - 1 \in 1 .. NumCommit /\ ~(k <= k - 1)
      BY <1>3, <2>3, <2>5
    <3>2. RefAfter[k - 1] = priv
      BY <2>2, <3>1
    <3>3. rob[k].at = "fin"
      BY <1>3, <2>3
    <3>4. ~IsSystem(k)
      BY <1>1, <2>3, <2>5, <3>3 DEF Inv, Alone
    <3>5. RefExec(priv, rob[k].kind) = priv
      BY <3>4, OthersKeep DEF IsSystem
    <3> QED
      BY <1>2, <2>3, <3>2, <3>5
  <2> QED
    BY <2>4, <2>5
<1> QED
  BY <1>2, <1>4

-----------------------------------------------------------------------------
(* Reports and the recorded reason.                                        *)

\* a squash reason, as TypeOK has it
Reported == [type : {"none", "except", "mispred"}, idx : 0 .. Len(rob), cause : Causes]

\* The system unit works for the head.
LEMMA UnitFacts ==
  ASSUME Inv
  PROVE  /\ scu.stage # "idle" => rob # << >> /\ rob[1].at = "scu" /\ ScuAt = 1
         /\ scu.stage = "idle" => scu = Idle /\ \A i \in DOMAIN rob : rob[i].at # "scu"
         /\ scu.stage = "saved" => scu = Issue(rob[1].kind)
         /\ scu.stage = "regs" => scu = Computed(Issue(rob[1].kind))
<1>1. rob \in Seq(Entries) /\ Len(rob) \in Nat
  BY DEF Inv, TypeOK, Entries
<1>2. CASE scu = Idle /\ \A i \in DOMAIN rob : rob[i].at # "scu"
  BY <1>2 DEF Idle
<1>3. CASE rob # << >> /\ rob[1].at = "scu" /\ scu \in {Issue(rob[1].kind), Computed(Issue(rob[1].kind))}
  <2>1. scu.stage \in {"saved", "regs"}
    BY <1>3 DEF Issue, Computed
  <2>2. ASSUME NEW i \in DOMAIN rob, rob[i].at = "scu" PROVE i = 1
    <3>1. rob[i].kind \in System
      BY <2>2 DEF Inv, Placed
    <3>2. IsSystem(i) /\ rob[i].at # "dq"
      BY <2>2, <3>1 DEF IsSystem
    <3> QED
      BY <3>2 DEF Inv, Alone
  <2>3. 1 \in DOMAIN rob
    BY <1>1, <1>3
  <2>4. ScuAt = 1
    BY <1>3, <2>2, <2>3 DEF ScuAt
  <2>5. scu.stage = "saved" => scu = Issue(rob[1].kind)
    BY <1>3 DEF Computed
  <2>6. scu.stage = "regs" => scu = Computed(Issue(rob[1].kind))
    BY <1>3 DEF Issue
  <2> QED
    BY <1>3, <2>1, <2>4, <2>5, <2>6
<1> QED
  BY <1>2, <1>3 DEF Inv, Unit

\* A result of the unit raises an exception, writes a register, returns, or does
\* none of these.
LEMMA ResultFacts ==
  ASSUME Inv, scu.stage = "regs"
  PROVE  /\ scu.cause \in Causes
         /\ Raises => ~Writes /\ ~Returns
         /\ Writes => ~Returns /\ WriteCsr(priv, scu.val) = RefExec(priv, rob[1].kind)
         /\ Returns => MRet(priv) = RefExec(priv, rob[1].kind)
         /\ ~Writes /\ ~Returns => Raises
<1>1. scu = Computed(Issue(rob[1].kind))
  BY UnitFacts
<1>2. priv \in Registers /\ rob \in Seq(Entries) /\ rob # << >> /\ rob[1].at = "scu"
  BY UnitFacts DEF Inv, TypeOK, Entries
<1>3. rob[1].kind \in System
  <2>1. 1 \in DOMAIN rob
    BY <1>2
  <2> QED
    BY <1>2, <2>1 DEF Inv, Placed
<1> DEFINE kind == rob[1].kind
<1>4. priv.mode \in Modes
  BY <1>2 DEF Registers
<1>5. /\ scu.kind = kind /\ scu.mret = (kind = "mret") /\ scu.val = NewCsr(Issue(kind))
      /\ scu.write = (IsCsr(kind) /\ ~(IsCsr(kind) /\ priv.mode # "M"))
      /\ scu.cause = IF IsCsr(kind) /\ priv.mode # "M" THEN "illegal"
                     ELSE IF kind = "ecall" THEN priv.mode ELSE "none"
  BY <1>1 DEF Computed, Issue
<1> HIDE DEF kind
<1>6. kind \in System
  BY <1>3 DEF kind
<1>7. priv.mode # "none"
  BY <1>4 DEF Modes
<1>8. scu.cause \in Causes
  BY <1>4, <1>5 DEF Causes
<1>9. CASE kind = "mret"
  <2>1. Returns /\ ~Writes /\ ~Raises
    BY <1>5, <1>9 DEF Returns, Writes, Raises, IsCsr
  <2>2. MRet(priv) = RefExec(priv, kind)
    BY <1>9 DEF MRet, RefExec
  <2> QED
    BY <1>8, <2>1, <2>2 DEF kind
<1>10. CASE kind = "ecall"
  <2>1. ~Returns /\ ~Writes /\ Raises
    BY <1>5, <1>7, <1>10 DEF Returns, Writes, Raises, IsCsr
  <2> QED
    BY <1>8, <2>1
<1>11. CASE IsCsr(kind) /\ priv.mode # "M"
  <2>1. ~Returns /\ ~Writes /\ Raises
    BY <1>5, <1>11 DEF Returns, Writes, Raises, IsCsr
  <2> QED
    BY <1>8, <2>1
<1>12. CASE IsCsr(kind) /\ priv.mode = "M"
  <2>1. ~Returns /\ Writes /\ ~Raises
    BY <1>5, <1>12 DEF Returns, Writes, Raises, IsCsr
  <2>2. WriteCsr(priv, scu.val) = RefExec(priv, kind)
    <3>1. CASE kind = "csrrs"
      <4>1. scu.val = [Shown(priv) EXCEPT !.mie = 1]
        BY <1>5, <3>1 DEF NewCsr, Issue
      <4> QED
        BY <1>2, <3>1, <4>1 DEF WriteCsr, RefExec, Registers, Shown
    <3>2. CASE kind = "csrrw"
      <4>1. scu.val = [Shown(priv) EXCEPT !.mie = 0, !.mpie = 0, !.mpp = "U"]
        BY <1>5, <3>2 DEF NewCsr, Issue
      <4> QED
        BY <1>2, <3>2, <4>1 DEF WriteCsr, RefExec, Registers, Shown
    <3> QED
      BY <1>12, <3>1, <3>2 DEF IsCsr
  <2> QED
    BY <1>8, <2>1, <2>2 DEF kind
<1> QED
  BY <1>6, <1>9, <1>10, <1>11, <1>12 DEF System, IsCsr

\* Of several reports one is the oldest.
LEMMA OldestFacts ==
  ASSUME NEW W, W # {}, \A x \in W : x.idx \in Nat
  PROVE  OldestOf(W) \in W /\ \A x \in W : OldestOf(W).idx <= x.idx
<1> DEFINE T == {x.idx : x \in W}
<1>1. T \in SUBSET Nat /\ T # {}
  OBVIOUS
<1>2. PICK m \in T : \A k \in T : m <= k
  BY <1>1, LeastElement
<1>3. PICK r \in W : r.idx = m
  BY <1>2
<1>4. \A x \in W : r.idx <= x.idx
  BY <1>2, <1>3
<1> QED
  BY <1>3, <1>4 DEF OldestOf

\* What is recorded is what was, or the report of an instruction that finishes in
\* this cycle and is older.
LEMMA RememberedFacts ==
  ASSUME Inv, NEW done, done \subseteq Executing, NEW bad \in BOOLEAN, NEW cause \in {"fault", "reExec"},
         NEW r, r = Remembered(ExceptReports(done, bad, cause), BranchReports(done, bad))
  PROVE  /\ r \in Reported
         /\ r # shr => r.type # "none" /\ (r.idx \in done \/ (r.idx = 1 /\ (Raises \/ Returns)))
         /\ r # shr /\ shr.type # "none" => r.idx < shr.idx
         /\ Raises => r.type = "except" /\ r.idx = 1
         /\ Returns => r.type = "mispred" /\ r.idx = 1
<1> DEFINE E == ExceptReports(done, bad, cause)
           B == BranchReports(done, bad)
           W == E \union B
<1>1. rob \in Seq(Entries) /\ Len(rob) \in Nat /\ shr \in Reported
  BY DEF Inv, TypeOK, Entries, Reported
<1>2. done \subseteq DOMAIN rob /\ \A i \in done : i \in 1 .. Len(rob) /\ rob[i].at \notin {"scu", "fin"}
  BY <1>1 DEF Executing
<1>3. scu.stage = "regs" => 1 \in 1 .. Len(rob) /\ ScuAt = 1 /\ rob[1].at = "scu"
  BY <1>1, UnitFacts
<1>4. shr.type # "none" => shr.idx \in 1 .. Len(rob) /\ rob[shr.idx].at = "fin"
  BY <1>1 DEF Inv, Reasons
<1>5. ASSUME NEW x \in W
      PROVE  /\ x \in Reported /\ x.type # "none"
             /\ x.idx \in done \/ (x.idx = 1 /\ Raises)
             /\ x.idx = 1 /\ scu.stage = "regs" => x.type = "except"
  <2>1. CASE Raises /\ x = Report("except", ScuAt, scu.cause)
    <3>1. scu.stage = "regs"
      BY <2>1 DEF Raises
    <3>2. scu.cause \in Causes
      BY <3>1, ResultFacts
    <3> QED
      BY <1>3, <2>1, <3>1, <3>2 DEF Report, Reported
  <2>2. ASSUME NEW i \in done, x = Report("except", i, cause) \/ x = Report("mispred", i, "none")
        PROVE  x \in Reported /\ x.type # "none" /\ x.idx = i /\ ~(i = 1 /\ scu.stage = "regs")
    <3>1. x.idx = i /\ x.type \in {"except", "mispred"} /\ x \in Reported
      BY <1>2, <2>2 DEF Report, Reported, Causes
    <3>2. ~(i = 1 /\ scu.stage = "regs")
      BY <1>2, <1>3
    <3> QED
      BY <3>1, <3>2
  <2>3. CASE \E i \in done : x = Report("except", i, cause) \/ x = Report("mispred", i, "none")
    BY <2>2, <2>3
  <2> QED
    <3>1. x \in E => \/ Raises /\ x = Report("except", ScuAt, scu.cause)
                     \/ \E i \in done : x = Report("except", i, cause)
      BY DEF ExceptReports
    <3>2. x \in B => \E i \in done : x = Report("mispred", i, "none")
      BY DEF BranchReports
    <3> HIDE DEF E, B
    <3>3. x \in E \/ x \in B
      OBVIOUS
    <3> QED
      BY <2>1, <2>3, <3>1, <3>2, <3>3
<1>6. ASSUME Raises PROVE \E x \in W : x.idx = 1
  <2>1. ScuAt = 1
    BY <1>3, <1>6 DEF Raises
  <2>2. Report("except", ScuAt, scu.cause) \in E
    BY <1>6 DEF ExceptReports
  <2>3. Report("except", ScuAt, scu.cause).idx = 1
    BY <2>1 DEF Report
  <2> QED
    BY <2>2, <2>3
<1>7. ~(Raises /\ Returns)
  BY ResultFacts DEF Raises
<1>8. r = IF Returns THEN Report("mispred", ScuAt, "none")
          ELSE IF W = {} THEN shr
          ELSE IF shr.type = "none" \/ OldestOf(W).idx < shr.idx THEN OldestOf(W) ELSE shr
  BY DEF Remembered
<1>9. W # {} => OldestOf(W) \in W /\ \A x \in W : OldestOf(W).idx <= x.idx
  <2>1. \A x \in W : x.idx \in Nat
    BY <1>5 DEF Reported
  <2> HIDE DEF W
  <2> QED
    BY <2>1, OldestFacts
<1> HIDE DEF W
<1>10. CASE Returns
  <2>1. scu.stage = "regs"
    BY <1>10 DEF Returns
  <2>2. r = Report("mispred", 1, "none")
    BY <1>3, <1>8, <1>10, <2>1
  <2>3. r \in Reported /\ r.type = "mispred" /\ r.idx = 1
    BY <1>3, <2>1, <2>2 DEF Report, Reported, Causes
  <2>4. shr.type # "none" => 1 < shr.idx
    <3>1. shr.type # "none" => shr.idx # 1
      BY <1>3, <1>4, <2>1
    <3> QED
      BY <1>4, <3>1
  <2> QED
    BY <1>7, <1>10, <2>1, <2>3, <2>4
<1>11. CASE ~Returns /\ Raises
  <2>1. scu.stage = "regs"
    BY <1>11 DEF Raises
  <2>2. W # {} /\ OldestOf(W).idx <= 1
    BY <1>6, <1>9, <1>11
  <2>3. OldestOf(W) \in W /\ OldestOf(W).idx \in 1 .. Len(rob)
    BY <1>2, <1>3, <1>5, <1>9, <2>1, <2>2
  <2>4. OldestOf(W).idx = 1 /\ OldestOf(W).type = "except" /\ OldestOf(W) \in Reported
    <3>1. OldestOf(W).idx = 1
      BY <2>2, <2>3
    <3> QED
      BY <1>5, <2>1, <2>3, <3>1
  <2>5. shr.type # "none" => 1 < shr.idx
    <3>1. shr.type # "none" => shr.idx # 1
      BY <1>3, <1>4, <2>1
    <3> QED
      BY <1>4, <3>1
  <2>6. r = OldestOf(W)
    BY <1>8, <1>11, <2>2, <2>4, <2>5
  <2> QED
    BY <1>11, <2>1, <2>4, <2>5, <2>6
<1>12. CASE ~Returns /\ ~Raises
  <2>1. CASE r = shr
    BY <1>1, <1>12, <2>1
  <2>2. CASE r # shr
    <3>1. W # {} /\ (shr.type = "none" \/ OldestOf(W).idx < shr.idx) /\ r = OldestOf(W)
      BY <1>8, <1>12, <2>2
    <3>2. OldestOf(W) \in W
      BY <1>9, <3>1
    <3> QED
      BY <1>5, <1>12, <3>1, <3>2
  <2> QED
    BY <2>1, <2>2
<1> QED
  BY <1>10, <1>11, <1>12

-----------------------------------------------------------------------------
(* Dispatch.                                                               *)

\* What the ports show is the front of the queue.
LEMMA WindowFront ==
  ASSUME rob \in Seq(Entries), NEW i \in Waiting, NEW j \in Window, i < j
  PROVE  i \in Window
<1> DEFINE Ahead(k) == {m \in Waiting : m < k}
<1>1. Waiting \subseteq 1 .. Len(rob) /\ Len(rob) \in Nat
  BY DEF Waiting
<1>2. j \in Waiting /\ Cardinality(Ahead(j)) < INTDQ_DISP_WID
  BY DEF Window
<1>3. i \in 1 .. Len(rob) /\ j \in 1 .. Len(rob)
  BY <1>1, <1>2
<1>4. Ahead(i) \subseteq Ahead(j) /\ Ahead(j) \subseteq 1 .. Len(rob)
  <2>1. \A m \in Waiting : m \in 1 .. Len(rob)
    BY <1>1
  <2>2. \A m \in Waiting : m < i => m < j
    BY <1>3, <2>1
  <2> QED
    BY <2>1, <2>2
<1>5. IsFiniteSet(1 .. Len(rob))
  BY <1>1, FS_Interval
<1>6. IsFiniteSet(Ahead(j))
  BY <1>4, <1>5, FS_Subset
<1> HIDE DEF Ahead
<1>7. Cardinality(Ahead(i)) <= Cardinality(Ahead(j)) /\ IsFiniteSet(Ahead(i))
  BY <1>4, <1>6, FS_Subset
<1>8. Cardinality(Ahead(i)) \in Nat /\ Cardinality(Ahead(j)) \in Nat
  BY <1>6, <1>7, FS_CardinalityType
<1>9. Cardinality(Ahead(i)) < INTDQ_DISP_WID
  BY <1>2, <1>7, <1>8, QueueAssumption
<1> QED
  BY <1>9 DEF Ahead, Window

\* A system instruction that may go is the first, and IQ0 is empty for it.
LEMMA SystemTaken ==
  ASSUME Inv, status = 2
  PROVE  First(1) /\ IsSystem(1) /\ rob[1].at = "dq" /\ Dispatched(1) = "iq0"
<1>1. rob \in Seq(Entries) /\ Len(rob) \in Nat /\ rob # << >> /\ IsSystem(1)
  BY DEF Inv, TypeOK, Entries, Alone
<1>2. 1 \in DOMAIN rob
  BY <1>1
<1>3. rob[1].at = "dq"
  BY <1>1, <1>2 DEF Inv, Alone
<1>4. \A j \in Waiting : j \in 1 .. Len(rob)
  BY <1>1 DEF Waiting
<1>5. {j \in Waiting : j < 1} = {}
  BY <1>4
<1>6. 1 \in Window
  BY <1>2, <1>3, <1>5, FS_EmptySet, QueueAssumption DEF Waiting, Window
<1>7. First(1)
  BY <1>4, <1>6 DEF First, Window
<1>8. {i \in DOMAIN rob : rob[i].at = "iq0"} = {}
  <2> SUFFICES ASSUME NEW i \in DOMAIN rob, rob[i].at = "iq0" PROVE FALSE
    OBVIOUS
  <2>1. i > 1
    BY <1>1, <1>3
  <2>2. rob[i].kind = "mem"
    BY <1>2, <1>3, <2>1 DEF Inv, InOrder
  <2> QED
    BY <2>2 DEF Inv, Placed
<1>9. Ready("iq0")
  BY <1>8, FS_EmptySet, QueueAssumption DEF Ready
<1>10. 1 \in Requested
  BY <1>6, <1>7 DEF Requested
<1>11. {j \in Window : j < 1} = {}
  BY <1>5 DEF Window
<1>12. Choice(Taken, 1) = "iq0"
  <2> DEFINE before == {j \in Window : j < 1}
             room(q) == Ready(q) /\ Cardinality({j \in before : Taken[j] = q}) < 2
  <2>1. before = {}
    BY <1>11
  <2>2. {j \in before : Taken[j] = "iq0"} = {}
    BY <2>1
  <2>3. room("iq0")
    BY <1>9, <2>2, FS_EmptySet
  <2>4. rob[1].kind # "bru"
    BY <1>1 DEF IsSystem, System
  <2>5. ~(1 \notin Requested \/ \E j \in before : Taken[j] = "no")
    BY <1>10, <2>1
  <2> HIDE DEF before, room
  <2>6. Choice(Taken, 1) =
          IF 1 \notin Requested \/ (\E j \in before : Taken[j] = "no") THEN "no"
          ELSE IF ~(rob[1].kind = "bru") /\ room("iq0") THEN "iq0"
          ELSE IF room("iq1") THEN "iq1" ELSE "no"
    BY Zenon DEF Choice, before, room
  <2> QED
    BY <2>3, <2>4, <2>5, <2>6
<1>13. Taken[1] = "iq0"
  BY <1>1, <1>2, <1>12, TakenDef
<1> QED
  BY <1>1, <1>3, <1>6, <1>7, <1>13 DEF Dispatched

\* Dispatch takes what is requested, in order, and a system instruction only as
\* the head.
LEMMA DispatchFacts ==
  ASSUME Inv, NEW i \in DOMAIN rob
  PROVE  /\ rob[i].at # "dq" => Dispatched(i) = rob[i].at
         /\ rob[i].at = "dq" => Dispatched(i) \in {"dq", "iq0", "iq1"}
         /\ IsSystem(i) /\ rob[i].at = "dq" /\ Dispatched(i) # "dq" =>
              i = 1 /\ status = 2 /\ Dispatched(i) = "iq0"
         /\ \A j \in DOMAIN rob :
              i < j /\ rob[i].at = "dq" /\ rob[j].at = "dq" /\ Dispatched(i) = "dq" => Dispatched(j) = "dq"
<1>1. rob \in Seq(Entries) /\ Len(rob) \in Nat
  BY DEF Inv, TypeOK, Entries
<1>2. /\ Taken \in [DOMAIN rob -> {"no", "iq0", "iq1"}]
      /\ \A k \in DOMAIN rob : Taken[k] = Choice(Taken, k)
  BY <1>1, TakenDef
<1>3. rob[i].at # "dq" => Dispatched(i) = rob[i].at
  BY DEF Dispatched, Window, Waiting
<1>4. rob[i].at = "dq" => Dispatched(i) \in {"dq", "iq0", "iq1"}
  BY <1>2 DEF Dispatched
<1>5. ASSUME IsSystem(i), rob[i].at = "dq", Dispatched(i) # "dq"
      PROVE  i = 1 /\ status = 2 /\ Dispatched(i) = "iq0"
  <2>1. i \in Window /\ Taken[i] # "no"
    BY <1>5 DEF Dispatched
  <2>2. i \in Requested
    BY <1>2, <2>1 DEF Choice
  <2>3. status = 2 /\ First(i)
    BY <1>1, <1>5, <2>2 DEF Requested
  <2>4. First(1)
    BY <2>3, SystemTaken
  <2>5. i <= 1 /\ i \in 1 .. Len(rob)
    BY <1>1, <2>3, <2>4 DEF First
  <2>6. i = 1
    BY <1>1, <2>5
  <2> QED
    BY <2>3, <2>6, SystemTaken
<1>6. ASSUME NEW j \in DOMAIN rob, i < j, rob[i].at = "dq", rob[j].at = "dq", Dispatched(i) = "dq"
      PROVE  Dispatched(j) = "dq"
  <2> SUFFICES ASSUME j \in Window PROVE Taken[j] = "no"
    BY <1>6 DEF Dispatched
  <2>1. i \in Waiting
    BY <1>6 DEF Waiting
  <2>2. i \in Window
    BY <1>1, <1>6, <2>1, WindowFront
  <2>3. Taken[i] = "no"
    BY <1>2, <1>6, <2>2 DEF Dispatched
  <2>4. Choice(Taken, j) = "no"
    <3>1. \E m \in {k \in Window : k < j} : Taken[m] = "no"
      BY <1>6, <2>2, <2>3
    <3> QED
      BY <3>1 DEF Choice
  <2> QED
    BY <1>2, <2>4
<1> QED
  BY <1>3, <1>4, <1>5, <1>6

-----------------------------------------------------------------------------
(* The window of the ROB after a cycle.                                    *)

Places == {"dq", "iq0", "iq1", "scu", "mem", "fin"}

\* Where an instruction is after a cycle.
LEMMA MovedFacts ==
  ASSUME Inv, NEW done, done \subseteq Executing, NEW go \in BOOLEAN, go => scu.stage = "idle",
         NEW i \in DOMAIN rob, NEW p, p = Moved(i, done, go)
  PROVE  /\ p \in Places
         /\ rob[i].at = "fin" => p = "fin"
         /\ p = "fin" => rob[i].at = "fin" \/ (i \in done /\ ~IsSystem(i)) \/ (i = 1 /\ scu.stage = "regs")
         /\ i \in done \/ (i = 1 /\ scu.stage = "regs") => p = "fin"
         /\ p = "dq" => rob[i].at = "dq"
         /\ rob[i].at = "dq" => p = Dispatched(i)
         /\ IsSystem(i) /\ p # "dq" /\ rob[i].at = "dq" => i = 1 /\ status = 2
         /\ p = "scu" <=> (rob[i].at = "scu" /\ scu.stage # "regs") \/ (go /\ i \in WaitingScu)
         /\ Placed([kind |-> rob[i].kind, at |-> p])
<1>1. rob \in Seq(Entries) /\ Len(rob) \in Nat /\ i \in 1 .. Len(rob)
  BY DEF Inv, TypeOK, Entries
<1>2. rob[i].at \in Places /\ rob[i].kind \in Kinds /\ Placed(rob[i])
  <2>1. rob[i] \in Entries
    BY <1>1
  <2>2. Placed(rob[i])
    BY DEF Inv
  <2> QED
    BY <2>1, <2>2 DEF Entries, Places
<1>3. rob[i].at = "scu" => i = 1 /\ IsSystem(i) /\ scu.stage # "idle"
  BY <1>2, UnitFacts DEF Placed, IsSystem, Inv, Alone
<1>4. i \in done => rob[i].at \in {"iq0", "iq1", "mem"} /\ ~IsSystem(i)
  BY DEF Executing
<1>5. i \in WaitingScu => rob[i].at \in {"iq0", "iq1"} /\ IsSystem(i)
  BY DEF WaitingScu
<1>6. i = 1 /\ scu.stage = "regs" => rob[i].at = "scu"
  BY UnitFacts
<1>7. CASE i \in done \/ (rob[i].at = "scu" /\ scu.stage = "regs")
  <2>1. p = "fin"
    BY <1>4, <1>5, <1>7 DEF Moved
  <2>2. rob[i].at \notin {"fin", "dq"}
    BY <1>4, <1>7
  <2>3. ~((rob[i].at = "scu" /\ scu.stage # "regs") \/ (go /\ i \in WaitingScu))
    BY <1>3, <1>4, <1>5, <1>7
  <2>4. Placed([kind |-> rob[i].kind, at |-> p])
    BY <2>1 DEF Placed
  <2> QED
    BY <1>3, <1>4, <1>7, <2>1, <2>2, <2>3, <2>4 DEF Places
<1>8. CASE /\ ~(i \in done \/ (rob[i].at = "scu" /\ scu.stage = "regs"))
           /\ go /\ i \in WaitingScu
  <2>1. p = "scu"
    BY <1>8 DEF Moved
  <2>2. Placed([kind |-> rob[i].kind, at |-> p])
    BY <1>5, <1>8, <2>1 DEF Placed, IsSystem, System
  <2> QED
    BY <1>5, <1>8, <1>6, <2>1, <2>2 DEF Places
<1>9. CASE /\ ~(i \in done \/ (rob[i].at = "scu" /\ scu.stage = "regs"))
           /\ ~(go /\ i \in WaitingScu)
  <2>1. p = Dispatched(i)
    BY <1>9 DEF Moved
  <2>2. CASE rob[i].at # "dq"
    <3>1. p = rob[i].at
      BY <2>1, <2>2, DispatchFacts
    <3>2. Placed([kind |-> rob[i].kind, at |-> p])
      BY <1>2, <3>1 DEF Placed
    <3> QED
      BY <1>2, <1>9, <1>6, <2>2, <3>1, <3>2
  <2>3. CASE rob[i].at = "dq"
    <3>1. p \in {"dq", "iq0", "iq1"} /\ (IsSystem(i) /\ p # "dq" => i = 1 /\ status = 2 /\ p = "iq0")
      BY <2>1, <2>3, DispatchFacts
    <3>2. Placed([kind |-> rob[i].kind, at |-> p])
      BY <1>2, <2>3, <3>1 DEF Placed, IsSystem
    <3> QED
      BY <1>2, <1>9, <1>6, <2>1, <2>3, <3>1, <3>2 DEF Places
  <2> QED
    BY <2>2, <2>3
<1> QED
  BY <1>7, <1>8, <1>9

\* An instruction that arrives waits in the dispatch queue or for the memory units.
Fresh(e) == (e.kind = "mem" /\ e.at = "mem") \/ (e.kind # "mem" /\ e.at = "dq")

\* rob after a cycle: the oldest n leave, the others move, and some arrive
RobAfter(n, done, go) ==
  /\ Len(rob) - n <= Len(rob')
  /\ \A i \in 1 .. Len(rob) - n :
       rob'[i].kind = rob[i + n].kind /\ rob'[i].at = Moved(i + n, done, go)
  /\ \A i \in DOMAIN rob' : i > Len(rob) - n => Fresh(rob'[i])

\* A sequence without its first n elements, and others behind it.
LEMMA ShiftedSeq ==
  ASSUME NEW S, NEW a \in Seq(S), NEW b \in Seq(S), NEW n \in 0 .. Len(a),
         NEW c, c = SubSeq(a, n + 1, Len(a)) \o b
  PROVE  /\ c \in Seq(S) /\ Len(c) = Len(a) - n + Len(b)
         /\ \A i \in 1 .. Len(a) - n : c[i] = a[i + n]
         /\ \A i \in Len(a) - n + 1 .. Len(c) : c[i] = b[i - (Len(a) - n)]
<1> DEFINE s == SubSeq(a, n + 1, Len(a))
<1>1. Len(a) \in Nat /\ Len(b) \in Nat /\ n \in Nat
  OBVIOUS
<1>2. s \in Seq(S)
  OBVIOUS
<1>3. Len(s) = Len(a) - n /\ \A i \in 1 .. Len(a) - n : s[i] = a[i + n]
  <2>1. Len(s) = Len(a) - n
    BY <1>1
  <2>2. ASSUME NEW i \in 1 .. Len(a) - n PROVE s[i] = a[i + n]
    <3>1. s[i] = a[n + 1 + i - 1]
      BY <1>1
    <3> QED
      BY <1>1, <3>1
  <2> QED
    BY <2>1, <2>2
<1> HIDE DEF s
<1>4. c = s \o b
  BY DEF s
<1>5. c \in Seq(S) /\ Len(c) = Len(s) + Len(b)
  <2>1. s \o b \in Seq(S)
    BY <1>2, ConcatProperties, Zenon
  <2>2. Len(s \o b) = Len(s) + Len(b)
    BY <1>2, ConcatProperties, Zenon
  <2> QED
    BY <1>4, <2>1, <2>2, Zenon
<1>6. \A i \in 1 .. Len(s) + Len(b) : c[i] = IF i <= Len(s) THEN s[i] ELSE b[i - Len(s)]
  <2>1. \A i \in 1 .. Len(s) + Len(b) : (s \o b)[i] = IF i <= Len(s) THEN s[i] ELSE b[i - Len(s)]
    BY <1>2, ConcatProperties
  <2> QED
    BY <1>4, <2>1
<1>7. \A i \in Len(s) + 1 .. Len(c) : c[i] = b[i - Len(s)]
  BY <1>1, <1>3, <1>5, <1>6
<1>8. \A i \in 1 .. Len(a) - n : c[i] = a[i + n]
  <2> TAKE i \in 1 .. Len(a) - n
  <2>1. i \in 1 .. Len(s) + Len(b) /\ i <= Len(s)
    BY <1>1, <1>3
  <2>2. c[i] = s[i]
    BY <1>6, <2>1
  <2> QED
    BY <1>3, <2>2
<1>9. \A i \in Len(a) - n + 1 .. Len(c) : c[i] = b[i - (Len(a) - n)]
  BY <1>3, <1>7, Zenon
<1> QED
  BY <1>3, <1>5, <1>8, <1>9

\* What the rest of the machine does in a cycle: the same for any group.
Turn(done, go, n, r) ==
  /\ ~squash_vld /\ n = NumCommit
  /\ done \subseteq Executing /\ go \in BOOLEAN /\ (go => scu.stage = "idle" /\ WaitingScu # {})
  /\ rob' \in Seq(Entries) /\ Len(rob') <= ROB_SIZE /\ RobAfter(n, done, go)
  /\ r \in Reported
  /\ r # shr => r.type # "none" /\ (r.idx \in done \/ (r.idx = 1 /\ (Raises \/ Returns)))
  /\ r # shr /\ shr.type # "none" => r.idx < shr.idx
  /\ Raises => r.type = "except" /\ r.idx = 1
  /\ Returns => r.type = "mispred" /\ r.idx = 1
  /\ shr' = IF r.type = "none" \/ r.idx <= n THEN NoReason ELSE [r EXCEPT !.idx = @ - n]
  /\ status' = NextStatus
  /\ scu' = CASE go /\ WaitingScu # {} -> Issue(rob[CHOOSE i \in WaitingScu : TRUE].kind)
              [] ~go /\ scu.stage = "saved" -> Computed(scu)
              [] OTHER -> Idle
  /\ squash_vld' = (do_except \/ HasMispred \/ (HasExcept /\ shr.cause = "reExec"))
  /\ do_except' = (HasExcept /\ ~do_except /\ shr.cause # "reExec")
  /\ priv' = NextPriv /\ Sync
  /\ ref' = NextRef

\* Every clock cycle is such a turn.
LEMMA CycleTurn ==
  ASSUME Inv, NEW group \in Seq(Entries), \A i \in DOMAIN group : Fresh(group[i]),
         Len(rob) + Len(group) <= ROB_SIZE,
         NEW done, done \subseteq Executing, NEW bad \in BOOLEAN, NEW cause \in {"fault", "reExec"},
         NEW go \in BOOLEAN, go => scu.stage = "idle" /\ WaitingScu # {},
         Cycle(group, done, bad, cause, go)
  PROVE  \E n, r : Turn(done, go, n, r)
<1> DEFINE n == NumCommit
           r == Remembered(ExceptReports(done, bad, cause), BranchReports(done, bad))
           moved == [i \in DOMAIN rob |-> [rob[i] EXCEPT !.at = Moved(i, done, go)]]
<1>1. rob \in Seq(Entries) /\ Len(rob) \in Nat /\ n \in 0 .. Len(rob) /\ ROB_SIZE \in Nat
  BY CommitFacts, WidthAssumption DEF Inv, TypeOK, Entries
<1>2. rob' = SubSeq(moved, n + 1, Len(rob)) \o group
  BY DEF Cycle
<1>3. ASSUME NEW i \in DOMAIN rob
      PROVE  /\ moved[i] \in Entries /\ moved[i].kind = rob[i].kind
             /\ moved[i].at = Moved(i, done, go)
  <2>1. rob[i] \in Entries
    BY <1>1
  <2>2. PICK p : p = Moved(i, done, go)
    OBVIOUS
  <2>3. p \in Places
    BY <2>2, MovedFacts
  <2> QED
    BY <2>1, <2>2, <2>3 DEF Entries, Places
<1>4. moved \in Seq(Entries) /\ Len(moved) = Len(rob)
  <2>1. DOMAIN moved = 1 .. Len(rob)
    BY <1>1
  <2>2. \A i \in 1 .. Len(rob) : moved[i] \in Entries
    BY <1>1, <1>3
  <2>3. moved \in [1 .. Len(rob) -> Entries]
    BY <2>1, <2>2
  <2> HIDE DEF moved
  <2> QED
    BY <1>1, <2>3
<1> HIDE DEF moved, n, r
<1>5. /\ rob' \in Seq(Entries) /\ Len(rob') = Len(rob) - n + Len(group)
      /\ \A i \in 1 .. Len(rob) - n : rob'[i] = moved[i + n]
      /\ \A i \in Len(rob) - n + 1 .. Len(rob') : rob'[i] = group[i - (Len(rob) - n)]
  <2> DEFINE L == Len(moved)
  <2>1. n \in 0 .. L /\ rob' = SubSeq(moved, n + 1, L) \o group /\ L = Len(rob)
    BY <1>1, <1>2, <1>4
  <2>2. /\ rob' \in Seq(Entries) /\ Len(rob') = L - n + Len(group)
        /\ \A i \in 1 .. L - n : rob'[i] = moved[i + n]
        /\ \A i \in L - n + 1 .. Len(rob') : rob'[i] = group[i - (L - n)]
    <3> HIDE DEF L
    <3>1. \A i \in 1 .. L - n : rob'[i] = moved[i + n]
      BY <1>4, <2>1, ShiftedSeq DEF L
    <3>2. \A i \in L - n + 1 .. Len(rob') : rob'[i] = group[i - (L - n)]
      BY <1>4, <2>1, ShiftedSeq DEF L
    <3>3. rob' \in Seq(Entries) /\ Len(rob') = L - n + Len(group)
      BY <1>4, <2>1, ShiftedSeq DEF L
    <3> QED
      BY <3>1, <3>2, <3>3
  <2> HIDE DEF L
  <2> QED
    BY <2>1, <2>2
<1>6. RobAfter(n, done, go)
  <2>1. Len(rob) - n <= Len(rob') /\ Len(rob') <= ROB_SIZE
    BY <1>1, <1>5
  <2>2. ASSUME NEW i \in 1 .. Len(rob) - n
        PROVE  rob'[i].kind = rob[i + n].kind /\ rob'[i].at = Moved(i + n, done, go)
    <3>1. i + n \in DOMAIN rob
      BY <1>1
    <3> QED
      BY <1>3, <1>5, <3>1
  <2>3. ASSUME NEW i \in DOMAIN rob', i > Len(rob) - n PROVE Fresh(rob'[i])
    <3>1. i \in Len(rob) - n + 1 .. Len(rob') /\ i - (Len(rob) - n) \in 1 .. Len(group)
      BY <1>1, <1>5, <2>3
    <3>2. rob'[i] = group[i - (Len(rob) - n)] /\ i - (Len(rob) - n) \in DOMAIN group
      BY <1>5, <3>1
    <3> QED
      BY <3>2
  <2> QED
    BY <2>1, <2>2, <2>3 DEF RobAfter
<1>7. Len(rob') <= ROB_SIZE
  BY <1>1, <1>5
<1>8. /\ r \in Reported
      /\ r # shr => r.type # "none" /\ (r.idx \in done \/ (r.idx = 1 /\ (Raises \/ Returns)))
      /\ r # shr /\ shr.type # "none" => r.idx < shr.idx
      /\ Raises => r.type = "except" /\ r.idx = 1
      /\ Returns => r.type = "mispred" /\ r.idx = 1
  BY RememberedFacts DEF r
<1>9. /\ ~squash_vld
      /\ shr' = IF r.type = "none" \/ r.idx <= n THEN NoReason ELSE [r EXCEPT !.idx = @ - n]
      /\ status' = NextStatus
      /\ scu' = CASE go /\ WaitingScu # {} -> Issue(rob[CHOOSE i \in WaitingScu : TRUE].kind)
                  [] ~go /\ scu.stage = "saved" -> Computed(scu)
                  [] OTHER -> Idle
      /\ squash_vld' = (do_except \/ HasMispred \/ (HasExcept /\ shr.cause = "reExec"))
      /\ do_except' = (HasExcept /\ ~do_except /\ shr.cause # "reExec")
      /\ priv' = NextPriv /\ Sync
      /\ ref' = NextRef
  BY Zenon DEF Cycle, n, r
<1>10. Turn(done, go, n, r)
  BY <1>5, <1>6, <1>7, <1>8, <1>9, Zenon DEF Turn, n
<1> QED
  BY <1>10

-----------------------------------------------------------------------------
(* A cycle keeps each part of the invariant.                               *)

\* While the head is a finished instruction the system unit is empty and nothing
\* waits for it.
LEMMA UnitRests ==
  ASSUME Inv, rob # << >>, rob[1].at = "fin"
  PROVE  scu = Idle /\ scu.stage = "idle" /\ WaitingScu = {}
<1>1. scu.stage = "idle" /\ scu = Idle
  <2>1. "fin" # "scu"
    OBVIOUS
  <2>2. scu.stage = "idle"
    BY <2>1, UnitFacts
  <2> QED
    BY <2>2, UnitFacts
<1>2. ASSUME NEW i \in WaitingScu PROVE FALSE
  <2>1. i \in DOMAIN rob /\ rob[i].at \in {"iq0", "iq1"} /\ IsSystem(i)
    BY DEF WaitingScu
  <2>2. i = 1
    BY <2>1 DEF Inv, Alone
  <2> QED
    BY <2>1, <2>2
<1> QED
  BY <1>1, <1>2

\* Only the head waits for the unit.
LEMMA WaitingIsHead ==
  ASSUME Inv, WaitingScu # {}
  PROVE  WaitingScu = {1} /\ rob # << >> /\ rob[1].at \in {"iq0", "iq1"}
<1>1. ASSUME NEW i \in WaitingScu
      PROVE  i = 1 /\ rob[1].at \in {"iq0", "iq1"} /\ i \in DOMAIN rob
  <2>1. i \in DOMAIN rob /\ rob[i].at \in {"iq0", "iq1"} /\ IsSystem(i)
    BY DEF WaitingScu
  <2>2. i = 1
    BY <2>1 DEF Inv, Alone
  <2> QED
    BY <2>1, <2>2
<1> QED
  BY <1>1

\* A trap, a commit and a reason that is acted on need a finished head.
LEMMA HeadFinished ==
  ASSUME Inv, do_except \/ Acts \/ NumCommit > 0
  PROVE  rob # << >> /\ rob[1].at = "fin"
<1>1. rob \in Seq(Entries) /\ Len(rob) \in Nat /\ shr.idx \in Nat /\ NumCommit \in 0 .. Len(rob)
  BY CommitFacts DEF Inv, TypeOK, Entries
<1>2. CASE do_except
  <2>1. shr.type = "except" /\ shr.idx = 1
    BY <1>2 DEF Inv, TypeOK
  <2> QED
    BY <1>1, <2>1 DEF Inv, Reasons
<1>3. CASE Acts
  <2>1. shr.idx \in DOMAIN rob /\ \A i \in 1 .. shr.idx : rob[i].at = "fin"
    BY <1>3, CommitFacts DEF Inv
  <2>2. 1 \in 1 .. shr.idx
    BY <1>1, <2>1
  <2> QED
    BY <1>1, <2>1, <2>2
<1>4. CASE NumCommit > 0
  <2>1. \A i \in 1 .. NumCommit : rob[i].at = "fin"
    BY CommitFacts DEF Inv
  <2>2. 1 \in 1 .. NumCommit
    BY <1>1, <1>4
  <2> QED
    BY <1>1, <2>1, <2>2
<1> QED
  BY <1>2, <1>3, <1>4

\* Each entry after a cycle has moved up, or has arrived.
LEMMA TurnEntry ==
  ASSUME Inv, NEW done, NEW go, NEW n, NEW r, Turn(done, go, n, r), NEW i \in DOMAIN rob'
  PROVE  /\ n = NumCommit /\ n \in 0 .. Len(rob) /\ i \in Nat \ {0}
         /\ i <= Len(rob) - n =>
              /\ i + n \in DOMAIN rob
              /\ rob'[i].kind = rob[i + n].kind /\ rob'[i].at = Moved(i + n, done, go)
         /\ ~(i <= Len(rob) - n) => Fresh(rob'[i])
<1>1. rob \in Seq(Entries) /\ Len(rob) \in Nat /\ n = NumCommit /\ n \in 0 .. Len(rob)
  BY CommitFacts DEF Inv, TypeOK, Entries, Turn
<1>2. RobAfter(n, done, go) /\ rob' \in Seq(Entries)
  BY DEF Turn
<1>3. i \in 1 .. Len(rob')
  BY <1>2
<1>4. i <= Len(rob) - n => i + n \in DOMAIN rob /\ i \in 1 .. Len(rob) - n
  BY <1>1, <1>3
<1> QED
  BY <1>1, <1>2, <1>3, <1>4 DEF RobAfter

\* what MovedFacts says of instruction k, which is at p after the cycle
MovedTo(k, p, done, go) ==
  /\ rob[k].at = "fin" => p = "fin"
  /\ p = "fin" => rob[k].at = "fin" \/ (k \in done /\ ~IsSystem(k)) \/ (k = 1 /\ scu.stage = "regs")
  /\ k \in done \/ (k = 1 /\ scu.stage = "regs") => p = "fin"
  /\ p = "dq" => rob[k].at = "dq"
  /\ rob[k].at = "dq" => p = Dispatched(k)
  /\ IsSystem(k) /\ p # "dq" /\ rob[k].at = "dq" => k = 1 /\ status = 2
  /\ p = "scu" <=> (rob[k].at = "scu" /\ scu.stage # "regs") \/ (go /\ k \in WaitingScu)
  /\ Placed([kind |-> rob[k].kind, at |-> p])

\* An entry that was there before the cycle has been moved.
LEMMA TurnMoved ==
  ASSUME Inv, NEW done, NEW go, NEW n, NEW r, Turn(done, go, n, r), NEW i \in DOMAIN rob',
         i <= Len(rob) - n
  PROVE  \E k \in DOMAIN rob :
           k = i + n /\ rob'[i].kind = rob[k].kind /\ MovedTo(k, rob'[i].at, done, go)
<1>1. PICK k : k = i + n
  OBVIOUS
<1>2. PICK p : p = rob'[i].at
  OBVIOUS
<1>3. k \in DOMAIN rob /\ rob'[i].kind = rob[k].kind /\ p = Moved(k, done, go)
  BY <1>1, <1>2, TurnEntry
<1>4. done \subseteq Executing /\ go \in BOOLEAN /\ (go => scu.stage = "idle")
  BY DEF Turn
<1>5. MovedTo(k, p, done, go)
  BY <1>3, <1>4, MovedFacts DEF MovedTo
<1> QED
  BY <1>1, <1>2, <1>3, <1>5

\* The head stays the head while nothing commits.
LEMMA TurnHead ==
  ASSUME Inv, NEW done, NEW go, NEW n, NEW r, Turn(done, go, n, r), rob # << >>, n = 0
  PROVE  /\ 1 \in DOMAIN rob /\ rob' # << >> /\ 1 \in DOMAIN rob'
         /\ rob'[1].kind = rob[1].kind /\ rob'[1].at = Moved(1, done, go)
<1>1. rob \in Seq(Entries) /\ Len(rob) \in Nat
  BY DEF Inv, TypeOK, Entries
<1>2. RobAfter(n, done, go) /\ rob' \in Seq(Entries)
  BY DEF Turn
<1>3. 1 \in 1 .. Len(rob) - n /\ 1 + n = 1
  BY <1>1
<1>4. rob'[1].kind = rob[1].kind /\ rob'[1].at = Moved(1, done, go)
  BY <1>2, <1>3 DEF RobAfter
<1>5. Len(rob') >= 1
  BY <1>1, <1>2, <1>3 DEF RobAfter
<1> QED
  BY <1>1, <1>2, <1>4, <1>5

\* Every instruction is where it can be.
LEMMA PlacedKept ==
  ASSUME Inv, NEW done, NEW go, NEW n, NEW r, Turn(done, go, n, r), NEW i \in DOMAIN rob'
  PROVE  Placed(rob'[i])
<1>1. CASE i <= Len(rob) - n
  <2>1. PICK k \in DOMAIN rob : k = i + n /\ rob'[i].kind = rob[k].kind /\ MovedTo(k, rob'[i].at, done, go)
    BY <1>1, TurnMoved
  <2>2. Placed([kind |-> rob[k].kind, at |-> rob'[i].at])
    BY <2>1 DEF MovedTo
  <2> QED
    BY <2>1, <2>2 DEF Placed
<1>2. CASE ~(i <= Len(rob) - n)
  BY <1>2, TurnEntry DEF Fresh, Placed, System
<1> QED
  BY <1>1, <1>2

\* The dispatch queue stays in order.
LEMMA InOrderKept ==
  ASSUME Inv, NEW done, NEW go, NEW n, NEW r, Turn(done, go, n, r)
  PROVE  InOrder'
<1>1. done \subseteq Executing /\ go \in BOOLEAN /\ (go => scu.stage = "idle")
  BY DEF Turn
<1>2. ASSUME NEW i \in DOMAIN rob', NEW j \in DOMAIN rob', i < j, rob'[i].at = "dq"
      PROVE  rob'[j].at = "dq" \/ rob'[j].kind = "mem"
  <2>1. CASE ~(j <= Len(rob) - n)
    BY <2>1, TurnEntry DEF Fresh
  <2>2. CASE j <= Len(rob) - n
    <3>1. i \in Nat /\ j \in Nat /\ Len(rob) \in Nat /\ n \in Nat
      BY TurnEntry DEF Inv, TypeOK, Entries
    <3>2. PICK m \in DOMAIN rob : m = j + n /\ rob'[j].kind = rob[m].kind /\ MovedTo(m, rob'[j].at, done, go)
      BY <2>2, TurnMoved
    <3>3. i <= Len(rob) - n
      BY <1>2, <2>2, <3>1
    <3>4. PICK k \in DOMAIN rob : k = i + n /\ MovedTo(k, rob'[i].at, done, go)
      BY <3>3, TurnMoved
    <3>5. rob[k].at = "dq" /\ Dispatched(k) = "dq" /\ k < m
      <4>1. k < m
        BY <1>2, <3>1, <3>2, <3>4
      <4> QED
        BY <1>2, <3>4, <4>1 DEF MovedTo
    <3>6. rob[m].at = "dq" \/ rob[m].kind = "mem"
      BY <3>5 DEF Inv, InOrder
    <3>7. CASE rob[m].at = "dq"
      <4>1. Dispatched(m) = "dq"
        BY <3>5, <3>7, DispatchFacts
      <4> QED
        BY <3>2, <3>7, <4>1 DEF MovedTo
    <3> QED
      BY <3>2, <3>6, <3>7
  <2> QED
    BY <2>1, <2>2
<1> QED
  BY <1>2 DEF InOrder

\* A system instruction stays alone.
LEMMA AloneKept ==
  ASSUME Inv, NEW done, NEW go, NEW n, NEW r, Turn(done, go, n, r)
  PROVE  Alone'
<1>1. /\ status \in 0 .. 3 /\ status' = NextStatus /\ n = NumCommit
      /\ rob \in Seq(Entries) /\ Len(rob) \in Nat /\ n \in 0 .. Len(rob)
  BY CommitFacts DEF Inv, TypeOK, Entries, Turn
<1>2. status = 2 => n = 0
  <2>1. status = 2 => rob[1].at = "dq"
    BY SystemTaken
  <2>2. n > 0 => rob[1].at = "fin"
    BY <1>1, HeadFinished
  <2> QED
    BY <1>1, <2>1, <2>2
<1>3. status = 2 => status' = 3
  BY <1>1 DEF NextStatus
<1>4. status = 3 /\ n = 0 => status' = 3
  BY <1>1 DEF NextStatus, CommitSerialize
<1>5. ASSUME NEW i \in DOMAIN rob', IsSystem(i)', rob'[i].at # "dq" PROVE i = 1 /\ status' = 3
  <2>0. rob'[i].kind \in System
    BY <1>5 DEF IsSystem
  <2>1. i <= Len(rob) - n
    BY <1>5, <2>0, TurnEntry DEF Fresh, System
  <2>2. PICK k \in DOMAIN rob : k = i + n /\ rob'[i].kind = rob[k].kind /\ MovedTo(k, rob'[i].at, done, go)
    BY <2>1, TurnMoved
  <2>3. IsSystem(k) /\ i \in Nat \ {0}
    BY <2>0, <2>2, TurnEntry DEF IsSystem
  <2>4. CASE rob[k].at # "dq"
    <3>1. k = 1 /\ status = 3
      BY <2>3, <2>4 DEF Inv, Alone
    <3> QED
      BY <1>1, <1>4, <2>2, <2>3, <3>1
  <2>5. CASE rob[k].at = "dq"
    <3>1. k = 1 /\ status = 2
      BY <1>5, <2>2, <2>3, <2>5 DEF MovedTo
    <3> QED
      BY <1>1, <1>3, <2>2, <2>3, <3>1
  <2> QED
    BY <2>4, <2>5
<1>6. ASSUME status' >= 2 PROVE rob' # << >> /\ IsSystem(1)'
  <2>1. rob # << >> /\ IsSystem(1) /\ n = 0
    <3>1. CASE status = 2
      BY <1>2, <3>1 DEF Inv, Alone
    <3>2. CASE status = 3
      <4>1. ~CommitSerialize
        BY <1>1, <1>6, <3>2 DEF NextStatus
      <4>2. rob # << >> /\ IsSystem(1)
        BY <3>2 DEF Inv, Alone
      <4> QED
        BY <1>1, <4>1, <4>2 DEF CommitSerialize
    <3>3. CASE status \in {0, 1}
      <4>1. CanDispatchSerialize
        BY <1>1, <1>6, <3>3 DEF NextStatus
      <4> QED
        BY <1>1, <4>1 DEF CanDispatchSerialize
    <3> QED
      BY <1>1, <3>1, <3>2, <3>3
  <2>2. rob' # << >> /\ rob'[1].kind = rob[1].kind
    BY <2>1, TurnHead
  <2> QED
    BY <2>1, <2>2 DEF IsSystem
<1> QED
  BY <1>5, <1>6 DEF Alone

\* While the head has finished, nothing but a trap changes the registers.
LEMMA RegistersRest ==
  ASSUME Inv, rob = << >> \/ rob[1].at = "fin"
  PROVE  /\ ~Writes /\ ~Returns /\ ~Raises
         /\ ~do_except => NextPriv = priv
         /\ do_except => NextPriv = Trap(priv, shr.cause)
<1>1. scu.stage = "idle"
  BY UnitRests, UnitFacts
<1>2. ~Writes /\ ~Returns /\ ~Raises
  BY <1>1 DEF Writes, Returns, Raises
<1> QED
  BY <1>2 DEF NextPriv

\* The unit goes on with the head.
LEMMA UnitKept ==
  ASSUME Inv, NEW done, NEW go, NEW n, NEW r, Turn(done, go, n, r)
  PROVE  Unit'
<1>1. /\ done \subseteq Executing /\ go \in BOOLEAN /\ (go => scu.stage = "idle" /\ WaitingScu # {})
      /\ n = NumCommit /\ priv' = NextPriv
      /\ scu' = CASE go /\ WaitingScu # {} -> Issue(rob[CHOOSE i \in WaitingScu : TRUE].kind)
                  [] ~go /\ scu.stage = "saved" -> Computed(scu)
                  [] OTHER -> Idle
  BY DEF Turn
<1>2. NumCommit \in 0 .. Len(rob) /\ rob \in Seq(Entries) /\ scu.stage \in {"idle", "saved", "regs"}
  BY CommitFacts DEF Inv, TypeOK, Entries
<1>3. ASSUME rob # << >>, rob[1].at # "fin", scu.stage # "regs"
      PROVE  n = 0 /\ priv' = priv
  <2>1. n = 0 /\ ~do_except
    BY <1>1, <1>2, <1>3, HeadFinished
  <2>2. ~Writes /\ ~Returns
    BY <1>3 DEF Writes, Returns
  <2> QED
    BY <1>1, <2>1, <2>2 DEF NextPriv
<1>4. CASE go
  <2>1. WaitingScu = {1} /\ rob # << >> /\ rob[1].at \in {"iq0", "iq1"} /\ scu.stage = "idle"
    BY <1>1, <1>4, WaitingIsHead
  <2>2. n = 0 /\ priv' = priv
    BY <1>3, <2>1
  <2>3. scu' = Issue(rob[1].kind)
    <3>1. (CHOOSE i \in WaitingScu : TRUE) = 1
      BY <2>1
    <3> QED
      BY <1>1, <1>4, <3>1
  <2>4. 1 \in DOMAIN rob /\ rob' # << >> /\ rob'[1].kind = rob[1].kind /\ rob'[1].at = Moved(1, done, go)
    BY <2>1, <2>2, TurnHead
  <2>5. rob'[1].at = "scu"
    <3>1. PICK p : p = Moved(1, done, go)
      OBVIOUS
    <3>2. 1 \in WaitingScu /\ 1 \in DOMAIN rob /\ (go => scu.stage = "idle")
      BY <2>1, <2>4
    <3>3. MovedTo(1, p, done, go)
      BY <1>1, <3>1, <3>2, MovedFacts DEF MovedTo
    <3>4. p = "scu"
      BY <1>4, <3>2, <3>3 DEF MovedTo
    <3> QED
      BY <2>4, <3>1, <3>4
  <2>6. (scu = Issue(rob[1].kind))'
    BY <2>2, <2>3, <2>4 DEF Issue, Shown, IsCsr
  <2> QED
    BY <2>4, <2>5, <2>6 DEF Unit
<1>5. CASE ~go /\ scu.stage = "saved"
  <2>1. rob # << >> /\ rob[1].at = "scu" /\ scu = Issue(rob[1].kind)
    BY <1>5, UnitFacts
  <2>2. n = 0 /\ priv' = priv
    BY <1>3, <1>5, <2>1
  <2>3. scu' = Computed(Issue(rob[1].kind))
    BY <1>1, <1>5, <2>1
  <2>4. 1 \in DOMAIN rob /\ rob' # << >> /\ rob'[1].kind = rob[1].kind /\ rob'[1].at = Moved(1, done, go)
    BY <2>1, <2>2, TurnHead
  <2>5. rob'[1].at = "scu"
    <3>1. PICK p : p = Moved(1, done, go)
      OBVIOUS
    <3>2. scu.stage # "regs" /\ (go => scu.stage = "idle") /\ 1 \in DOMAIN rob
      BY <1>1, <1>5, <2>4
    <3>3. MovedTo(1, p, done, go)
      BY <1>1, <3>1, <3>2, MovedFacts DEF MovedTo
    <3>4. p = "scu"
      BY <2>1, <3>2, <3>3 DEF MovedTo
    <3> QED
      BY <2>4, <3>1, <3>4
  <2>6. (scu = Computed(Issue(rob[1].kind)))'
    BY <2>2, <2>3, <2>4 DEF Computed, NewCsr, Issue, Shown, IsCsr
  <2> QED
    BY <2>4, <2>5, <2>6 DEF Unit
<1>6. CASE ~go /\ scu.stage # "saved"
  <2>1. scu' = Idle
    BY <1>1, <1>6
  <2>2. ASSUME NEW i \in DOMAIN rob', rob'[i].at = "scu" PROVE FALSE
    <3>1. i <= Len(rob) - n
      BY <2>2, TurnEntry DEF Fresh
    <3>2. PICK k \in DOMAIN rob : MovedTo(k, rob'[i].at, done, go)
      BY <3>1, TurnMoved
    <3>3. rob[k].at = "scu" /\ scu.stage = "idle"
      BY <1>2, <1>6, <2>2, <3>2 DEF MovedTo
    <3> QED
      BY <3>3, UnitFacts
  <2> QED
    BY <2>1, <2>2 DEF Unit
<1> QED
  BY <1>1, <1>4, <1>5, <1>6

\* The recorded reason moves up with its instruction, which has finished.
LEMMA ReasonKept ==
  ASSUME Inv, NEW done, NEW go, NEW n, NEW r, Turn(done, go, n, r), shr'.type # "none"
  PROVE  /\ r.type # "none" /\ r.idx > n /\ r.idx \in 1 .. Len(rob)
         /\ shr' = [r EXCEPT !.idx = r.idx - n] /\ shr'.idx = r.idx - n
         /\ shr'.idx \in DOMAIN rob' /\ rob'[shr'.idx].at = "fin"
<1>1. /\ shr' = IF r.type = "none" \/ r.idx <= n THEN NoReason ELSE [r EXCEPT !.idx = @ - n]
      /\ r \in Reported /\ done \subseteq Executing /\ n = NumCommit
      /\ r # shr => r.type # "none" /\ (r.idx \in done \/ (r.idx = 1 /\ (Raises \/ Returns)))
      /\ rob' \in Seq(Entries) /\ RobAfter(n, done, go)
  BY Zenon DEF Turn
<1>2. rob \in Seq(Entries) /\ Len(rob) \in Nat /\ n \in 0 .. Len(rob)
  BY <1>1, CommitFacts DEF Inv, TypeOK, Entries
<1>3. r.type # "none" /\ r.idx > n /\ shr' = [r EXCEPT !.idx = r.idx - n]
  <2>1. r.idx \in Nat
    BY <1>1 DEF Reported
  <2>2. shr' # NoReason
    BY DEF NoReason
  <2> QED
    BY <1>1, <1>2, <2>1, <2>2
<1>4. r.idx \in 1 .. Len(rob) /\ shr'.idx = r.idx - n
  BY <1>1, <1>2, <1>3 DEF Reported
<1>5. rob[r.idx].at = "fin" \/ r.idx \in done \/ (r.idx = 1 /\ scu.stage = "regs")
  BY <1>1, <1>3 DEF Inv, Reasons, Raises, Returns
<1>6. shr'.idx \in DOMAIN rob' /\ shr'.idx <= Len(rob) - n
  <2>1. Len(rob) - n <= Len(rob')
    BY <1>1 DEF RobAfter
  <2>2. r.idx - n \in 1 .. Len(rob')
    BY <1>1, <1>2, <1>3, <1>4, <2>1
  <2> QED
    BY <1>1, <1>2, <1>4, <2>2
<1>7. PICK k \in DOMAIN rob : k = shr'.idx + n /\ MovedTo(k, rob'[shr'.idx].at, done, go)
  BY <1>6, TurnMoved
<1>8. k = r.idx
  BY <1>2, <1>4, <1>7
<1>9. rob'[shr'.idx].at = "fin"
  BY <1>5, <1>7, <1>8 DEF MovedTo
<1> QED
  BY <1>3, <1>4, <1>6, <1>9

\* A trap is taken for the oldest instruction that is left, the new head, and the
\* reason for it stays recorded.
LEMMA TrapKept ==
  ASSUME Inv, NEW done, NEW go, NEW n, NEW r, Turn(done, go, n, r), shr.type = "except",
         HasExcept \/ (do_except /\ n = 0), shr.idx = n + 1
  PROVE  shr' = [shr EXCEPT !.idx = 1]
<1>1. /\ shr' = IF r.type = "none" \/ r.idx <= n THEN NoReason ELSE [r EXCEPT !.idx = @ - n]
      /\ done \subseteq Executing /\ r \in Reported
      /\ r # shr => r.idx \in done \/ (r.idx = 1 /\ (Raises \/ Returns))
      /\ r # shr /\ shr.type # "none" => r.idx < shr.idx
  BY Zenon DEF Turn
<1>2. shr \in Reported /\ shr.idx \in Nat /\ n \in Nat
  BY CommitFacts DEF Inv, TypeOK, Reported, Turn
<1>3. \A i \in 1 .. shr.idx : rob[i].at = "fin"
  <2>1. CASE HasExcept
    BY <2>1, CommitFacts DEF Inv, HasExcept
  <2>2. CASE do_except /\ n = 0
    <3>1. shr.idx = 1 /\ rob[1].at = "fin"
      BY <2>2, HeadFinished
    <3> QED
      BY <3>1
  <2> QED
    BY <2>1, <2>2
<1>4. rob[1].at = "fin"
  BY <1>2, <1>3
<1>5. ~Raises /\ ~Returns
  BY <1>4, RegistersRest
<1>6. ASSUME r # shr PROVE FALSE
  <2>1. r.idx \in done /\ r.idx < shr.idx /\ r.idx \in Nat
    BY <1>1, <1>5, <1>6 DEF Reported
  <2>2. r.idx \in DOMAIN rob /\ rob[r.idx].at # "fin"
    BY <1>1, <2>1 DEF Executing
  <2>3. r.idx \in 1 .. shr.idx
    <3>1. DOMAIN rob = 1 .. Len(rob) /\ Len(rob) \in Nat
      BY DEF Inv, TypeOK, Entries
    <3> QED
      BY <1>2, <2>1, <2>2, <3>1
  <2> QED
    BY <1>3, <2>2, <2>3
<1>7. shr.type # "none" /\ ~(shr.idx <= n) /\ shr.idx - n = 1
  BY <1>2
<1> QED
  BY <1>1, <1>6, <1>7

\* The registers keep their types.
LEMMA PrivType ==
  ASSUME Inv
  PROVE  NextPriv \in Registers
<1>1. priv \in Registers /\ shr.cause \in Causes
  BY DEF Inv, TypeOK
<1>2. Writes => NextPriv = RefExec(priv, rob[1].kind)
  BY ResultFacts DEF NextPriv, Writes
<1>3. ~Writes /\ do_except => NextPriv = Trap(priv, shr.cause)
  BY DEF NextPriv
<1>4. ~Writes /\ ~do_except /\ Returns => NextPriv = RefExec(priv, rob[1].kind)
  BY ResultFacts DEF NextPriv, Returns
<1>5. ~Writes /\ ~do_except /\ ~Returns => NextPriv = priv
  BY DEF NextPriv
<1>6. Trap(priv, shr.cause) \in Registers
  BY <1>1 DEF Trap, Registers, Modes
<1>7. RefExec(priv, rob[1].kind) \in Registers
  BY <1>1, RefExecType
<1> QED
  BY <1>1, <1>2, <1>3, <1>4, <1>5, <1>6, <1>7

\* The reference executes what commits.
LEMMA RefFacts ==
  ASSUME Inv, ~squash_vld
  PROVE  /\ NextRef \in Registers
         /\ HasExcept /\ ~do_except /\ shr.cause # "reExec" =>
              NextRef = Trap(RefAfter[NumCommit], shr.cause)
         /\ ~(HasExcept /\ ~do_except /\ shr.cause # "reExec") => NextRef = RefAfter[NumCommit]
<1>1. shr.cause \in Causes /\ rob \in Seq(Entries) /\ ref \in Registers
  BY DEF Inv, TypeOK, Entries
<1>2. NumCommit \in 0 .. Len(rob)
  BY CommitFacts DEF Inv
<1>3. RefAfter[NumCommit] \in Registers
  BY <1>1, <1>2, RefAfterDef
<1>4. Trap(RefAfter[NumCommit], shr.cause) \in Registers
  BY <1>1, <1>3 DEF Trap, Registers, Modes
<1> QED
  BY <1>3, <1>4 DEF NextRef

\* The state keeps its types.
LEMMA TypesKept ==
  ASSUME Inv, NEW done, NEW go, NEW n, NEW r, Turn(done, go, n, r)
  PROVE  TypeOK'
<1>1. /\ ~squash_vld /\ n = NumCommit
      /\ rob' \in Seq(Entries) /\ Len(rob') <= ROB_SIZE /\ RobAfter(n, done, go)
      /\ r \in Reported
      /\ shr' = IF r.type = "none" \/ r.idx <= n THEN NoReason ELSE [r EXCEPT !.idx = @ - n]
      /\ status' = NextStatus
      /\ squash_vld' = (do_except \/ HasMispred \/ (HasExcept /\ shr.cause = "reExec"))
      /\ do_except' = (HasExcept /\ ~do_except /\ shr.cause # "reExec")
      /\ priv' = NextPriv /\ csr_sync' = Touched
      /\ ref' = NextRef
  BY DEF Turn, Sync
<1>2. status' \in 0 .. 3
  BY <1>1 DEF NextStatus, Inv, TypeOK
<1>3. scu'.stage \in {"idle", "saved", "regs"}
  BY UnitKept DEF Unit, Idle, Issue, Computed
<1>4. priv' \in Registers /\ ref' \in Registers
  BY <1>1, PrivType, RefFacts
<1>5. shr' \in [type : {"none", "except", "mispred"}, idx : 0 .. Len(rob'), cause : Causes]
  <2>1. Len(rob') \in Nat
    BY <1>1
  <2>2. CASE shr'.type = "none"
    <3>1. shr' = NoReason
      <4>1. r.type # "none" => [r EXCEPT !.idx = r.idx - n].type # "none"
        BY <1>1 DEF Reported
      <4> QED
        BY <1>1, <2>2, <4>1
    <3> QED
      BY <2>1, <3>1 DEF NoReason, Causes
  <2>3. CASE shr'.type # "none"
    <3>1. shr' = [r EXCEPT !.idx = r.idx - n] /\ shr'.idx = r.idx - n /\ shr'.idx \in DOMAIN rob'
      BY <2>3, ReasonKept
    <3>2. r.idx - n \in 0 .. Len(rob')
      BY <1>1, <2>1, <3>1
    <3> QED
      BY <1>1, <3>1, <3>2 DEF Reported
  <2> QED
    BY <2>2, <2>3
<1>6. {squash_vld', do_except', csr_sync'} \subseteq BOOLEAN
  <2>1. do_except \in BOOLEAN
    BY DEF Inv, TypeOK
  <2> QED
    BY <1>1, <2>1 DEF Touched, HasMispred, HasExcept, Writes, Returns
<1>7. do_except' => shr'.type = "except" /\ shr'.idx = 1
  <2> SUFFICES ASSUME do_except' PROVE shr'.type = "except" /\ shr'.idx = 1
    OBVIOUS
  <2>1. HasExcept /\ ~do_except /\ shr.type = "except"
    BY <1>1 DEF HasExcept
  <2>2. shr.idx = n + 1 /\ shr \in Reported
    <3>1. n = shr.idx - 1
      BY <1>1, <2>1, CommitFacts DEF Inv
    <3>2. shr \in Reported /\ shr.idx \in Nat
      BY DEF Inv, TypeOK, Reported
    <3> QED
      BY <3>1, <3>2
  <2>3. shr' = [shr EXCEPT !.idx = 1]
    BY <2>1, <2>2, TrapKept
  <2> QED
    BY <2>1, <2>2, <2>3 DEF Reported
<1> QED
  BY <1>1, <1>2, <1>3, <1>4, <1>5, <1>6, <1>7 DEF TypeOK, Entries

\* A squash is sent when the trap has been taken, and finds the unit empty.
LEMMA ReasonsKept ==
  ASSUME Inv, NEW done, NEW go, NEW n, NEW r, Turn(done, go, n, r)
  PROVE  Reasons'
<1>1. /\ squash_vld' = (do_except \/ HasMispred \/ (HasExcept /\ shr.cause = "reExec"))
      /\ do_except' = (HasExcept /\ ~do_except /\ shr.cause # "reExec")
      /\ go \in BOOLEAN /\ (go => WaitingScu # {})
      /\ scu' = CASE go /\ WaitingScu # {} -> Issue(rob[CHOOSE i \in WaitingScu : TRUE].kind)
                  [] ~go /\ scu.stage = "saved" -> Computed(scu)
                  [] OTHER -> Idle
  BY DEF Turn
<1>2. ASSUME squash_vld' PROVE ~do_except' /\ scu' = Idle
  <2>1. do_except \/ Acts
    BY <1>1, <1>2 DEF HasMispred, HasExcept
  <2>2. rob # << >> /\ rob[1].at = "fin"
    BY <2>1, HeadFinished
  <2>3. scu.stage = "idle" /\ WaitingScu = {}
    BY <2>2, UnitRests
  <2>4. scu' = Idle
    BY <1>1, <2>3
  <2>5. ~do_except'
    BY <1>1, <1>2 DEF HasMispred, HasExcept
  <2> QED
    BY <2>4, <2>5
<1>3. shr'.type # "none" => shr'.idx \in DOMAIN rob' /\ rob'[shr'.idx].at = "fin"
  BY ReasonKept
<1> QED
  BY <1>2, <1>3 DEF Reasons

\* The registers after a cycle in which something commits, or the head has not
\* changed: what is behind the head is no system instruction.
LEMMA BehindHead ==
  ASSUME Inv, NEW done, NEW go, NEW n, NEW r, Turn(done, go, n, r), n > 0 \/ rob = << >>, Executed'
  PROVE  rob'[1].kind \notin System
<1>1. rob' # << >> /\ rob'[1].at = "fin" /\ rob' \in Seq(Entries)
  BY DEF Executed, Turn
<1>2. 1 \in DOMAIN rob'
  BY <1>1
<1>3. 1 <= Len(rob) - n
  BY <1>1, <1>2, TurnEntry DEF Fresh
<1>4. rob \in Seq(Entries) /\ Len(rob) \in Nat /\ n \in 0 .. Len(rob)
  BY <1>2, TurnEntry DEF Inv, TypeOK, Entries
<1>5. PICK k \in DOMAIN rob : k = 1 + n /\ rob'[1].kind = rob[k].kind /\ MovedTo(k, rob'[1].at, done, go)
  BY <1>2, <1>3, TurnMoved
<1>6. k # 1
  BY <1>3, <1>4, <1>5
<1> SUFFICES ASSUME IsSystem(k) PROVE FALSE
  BY <1>5 DEF IsSystem
<1>7. CASE rob[k].at # "dq"
  BY <1>6, <1>7 DEF Inv, Alone
<1>8. CASE rob[k].at = "dq"
  BY <1>1, <1>5, <1>6, <1>8 DEF MovedTo
<1> QED
  BY <1>7, <1>8

\* The registers of the core and of the reference agree again after the cycle.
LEMMA InStepKept ==
  ASSUME Inv, NEW done, NEW go, NEW n, NEW r, Turn(done, go, n, r)
  PROVE  InStep'
<1> DEFINE Agree == priv' = IF Executed' THEN RefExec(ref', rob'[1].kind) ELSE ref'
<1>1. /\ ~squash_vld /\ n = NumCommit /\ r \in Reported /\ done \subseteq Executing
      /\ go \in BOOLEAN /\ (go => scu.stage = "idle")
      /\ r # shr => r.type # "none" /\ (r.idx \in done \/ (r.idx = 1 /\ (Raises \/ Returns)))
      /\ r # shr /\ shr.type # "none" => r.idx < shr.idx
      /\ Raises => r.type = "except" /\ r.idx = 1
      /\ Returns => r.type = "mispred" /\ r.idx = 1
      /\ shr' = IF r.type = "none" \/ r.idx <= n THEN NoReason ELSE [r EXCEPT !.idx = @ - n]
      /\ squash_vld' = (do_except \/ HasMispred \/ (HasExcept /\ shr.cause = "reExec"))
      /\ do_except' = (HasExcept /\ ~do_except /\ shr.cause # "reExec")
      /\ priv' = NextPriv /\ csr_sync' = Touched
      /\ cpu_csrs' = IF csr_sync' THEN Shown(priv') ELSE cpu_csrs
      /\ ref' = NextRef
  BY Zenon DEF Turn, Sync
<1>2. /\ rob \in Seq(Entries) /\ Len(rob) \in Nat /\ n \in 0 .. Len(rob)
      /\ shr \in Reported /\ shr.idx \in Nat /\ do_except \in BOOLEAN
      /\ scu.stage \in {"idle", "saved", "regs"}
  BY <1>1, CommitFacts DEF Inv, TypeOK, Entries, Reported
<1>3. cpu_csrs' = Shown(priv')
  <2>1. ~Touched => priv' = priv
    BY <1>1 DEF Touched, NextPriv
  <2> QED
    BY <1>1, <2>1 DEF Inv, InStep, Shown
<1>4. /\ RefAfter[0] = ref /\ \A k \in 1 .. n : RefAfter[k] = priv
  BY <1>1, CommittedRef
<1>5. n > 0 => RefAfter[n] = priv
  BY <1>2, <1>4
<1>6. /\ do_except' => ref' = Trap(RefAfter[n], shr.cause)
      /\ ~do_except' => ref' = RefAfter[n]
  BY <1>1, RefFacts
<1>7. n > 0 \/ do_except \/ Acts => rob # << >> /\ rob[1].at = "fin"
  BY <1>1, HeadFinished
<1>8. do_except => n = 0 /\ shr.type = "except" /\ shr.idx = 1
  BY <1>1, <1>2, CommitFacts DEF Inv, TypeOK
\* a trap is recorded, and reaches the core a cycle later
<1>9. CASE do_except'
  <2>1. HasExcept /\ ~do_except /\ shr.type = "except" /\ Acts
    BY <1>1, <1>9 DEF HasExcept
  <2>2. priv' = priv
    BY <1>1, <1>7, <2>1, RegistersRest
  <2>3. n = shr.idx - 1
    BY <1>1, <2>1, CommitFacts DEF Inv
  <2>4. shr.idx = n + 1
    BY <1>2, <2>3
  <2>5. shr' = [shr EXCEPT !.idx = 1]
    BY <2>1, <2>4, TrapKept
  <2>6. shr'.cause = shr.cause
    BY <1>2, <2>5 DEF Reported
  <2>7. RefAfter[n] = priv
    <3>1. CASE n = 0
      <4>1. shr.idx = 1
        BY <2>4, <3>1
      <4>2. ~Executed
        BY <2>1, <4>1 DEF Executed
      <4>3. priv = ref
        BY <2>1, <4>2 DEF Inv, InStep
      <4> QED
        BY <1>4, <3>1, <4>3
    <3> QED
      BY <1>2, <1>5, <3>1
  <2>8. ref' = Trap(priv', shr'.cause)
    BY <1>6, <1>9, <2>2, <2>6, <2>7
  <2>9. ~squash_vld'
    BY <1>1, <2>1, <1>9 DEF HasMispred
  <2> QED
    BY <1>3, <1>9, <2>8, <2>9 DEF InStep, Trap
\* the core takes the trap
<1>10. CASE do_except
  <2>1. ~do_except' /\ n = 0 /\ shr.type = "except" /\ shr.idx = n + 1
    <3>1. ~do_except'
      BY <1>1, <1>10, Zenon
    <3>2. n = 0 /\ shr.type = "except" /\ shr.idx = 1
      BY <1>8, <1>10
    <3> QED
      BY <3>1, <3>2
  <2>2. ref' = Trap(priv, shr.cause)
    BY <1>4, <1>6, <1>10, <2>1 DEF Inv, InStep
  <2>3. priv' = Trap(priv, shr.cause)
    BY <1>1, <1>7, <1>10, RegistersRest
  <2>4. shr' = [shr EXCEPT !.idx = 1]
    BY <1>10, <2>1, TrapKept
  <2>5. ~Executed'
    BY <1>2, <2>1, <2>4 DEF Executed, Reported
  <2> QED
    BY <1>3, <2>1, <2>2, <2>3, <2>5 DEF InStep
\* what commits was done when it finished
<1>11. CASE ~do_except' /\ ~do_except /\ n > 0
  <2>1. priv' = priv
    BY <1>1, <1>7, <1>11, RegistersRest
  <2>2. ref' = priv
    BY <1>5, <1>6, <1>11
  <2>3. ASSUME Executed' PROVE RefExec(ref', rob'[1].kind) = ref'
    <3>1. rob'[1].kind \notin System
      BY <1>11, <2>3, BehindHead
    <3> QED
      BY <3>1, OthersKeep
  <2>4. Agree
    BY <2>1, <2>2, <2>3
  <2>5. priv' = ref'
    BY <2>1, <2>2
  <2> QED
    BY <1>3, <1>11, <2>4, <2>5 DEF InStep
<1>12. CASE ~do_except' /\ ~do_except /\ n = 0
  <2>1. ref' = ref
    BY <1>4, <1>6, <1>12
  <2>2. priv = IF Executed THEN RefExec(ref, rob[1].kind) ELSE ref
    BY <1>12 DEF Inv, InStep
  <2>3. CASE rob = << >>
    <3>1. priv' = priv
      BY <1>1, <1>12, <2>3, RegistersRest
    <3>2. priv = ref
      BY <2>2, <2>3 DEF Executed
    <3>3. ASSUME Executed' PROVE RefExec(ref', rob'[1].kind) = ref'
      <4>1. rob'[1].kind \notin System
        BY <2>3, <3>3, BehindHead
      <4> QED
        BY <4>1, OthersKeep
    <3> QED
      BY <1>3, <1>12, <2>1, <3>1, <3>2, <3>3 DEF InStep
  <2>4. CASE rob # << >>
    <3>1. PICK p : p = rob'[1].at
      OBVIOUS
    <3>2. 1 \in DOMAIN rob /\ rob' # << >> /\ rob'[1].kind = rob[1].kind /\ p = Moved(1, done, go)
      BY <1>12, <2>4, <3>1, TurnHead
    <3>3. MovedTo(1, p, done, go)
      BY <1>1, <3>2, MovedFacts DEF MovedTo
    <3>4. shr'.type # "none" => r.type = shr'.type /\ r.idx = shr'.idx
      <4>1. shr'.type # "none" => shr' = [r EXCEPT !.idx = r.idx - n] /\ shr'.idx = r.idx - n /\ r.idx \in Nat
        BY ReasonKept
      <4> QED
        BY <1>1, <1>12, <4>1 DEF Reported
    <3>5. r.type # "none" /\ r.idx > 0 => shr'.type = r.type /\ shr'.idx = r.idx
      BY <1>1, <1>12 DEF Reported
    <3>6. (p = "fin" /\ ~(shr'.type = "except" /\ shr'.idx = 1)) <=> Executed'
      BY <3>1, <3>2 DEF Executed
    <3>7. CASE rob[1].at = "fin"
      <4>1. priv' = priv /\ ~Raises /\ ~Returns
        BY <1>1, <1>12, <3>7, RegistersRest
      <4>2. 1 \notin done
        BY <1>1, <3>7 DEF Executing
      <4>3. (shr'.type = "except" /\ shr'.idx = 1) => shr.type = "except" /\ shr.idx = 1
        <5> SUFFICES ASSUME shr'.type = "except", shr'.idx = 1 PROVE r = shr
          BY <3>4
        <5> QED
          BY <1>1, <3>4, <4>1, <4>2
      <4>4. (shr.type = "except" /\ shr.idx = 1) => shr'.type = "except" /\ shr'.idx = 1
        <5> SUFFICES ASSUME shr.type = "except", shr.idx = 1 PROVE r = shr
          BY <3>5
        <5> SUFFICES ASSUME r # shr PROVE FALSE
          OBVIOUS
        <5>1. r.idx < 1 /\ r.idx \in done /\ r.idx \in Nat
          BY <1>1, <4>1 DEF Reported
        <5>2. r.idx \in DOMAIN rob
          BY <1>1, <5>1 DEF Executing
        <5> QED
          BY <1>2, <5>1, <5>2
      <4>5. Executed' = Executed
        BY <2>4, <3>3, <3>6, <3>7, <4>3, <4>4 DEF Executed, MovedTo
      <4>6. squash_vld' => priv = ref
        <5> SUFFICES ASSUME squash_vld' PROVE ~Executed
          BY <2>2
        <5>1. HasExcept \/ HasMispred
          BY <1>1, <1>12
        <5>2. HasMispred => shr.idx = 0 /\ Acts
          BY <1>1, <1>12, CommitFacts DEF Inv, HasMispred
        <5>3. ~HasMispred
          <6>1. Acts => shr.idx \in DOMAIN rob
            BY CommitFacts DEF Inv
          <6> QED
            BY <1>2, <5>2, <6>1
        <5>4. HasExcept => shr.idx - 1 = 0
          BY <1>1, <1>12, CommitFacts DEF Inv
        <5> QED
          BY <1>2, <5>1, <5>3, <5>4 DEF HasExcept, Executed
      <4> QED
        BY <1>3, <1>12, <2>1, <2>2, <3>2, <4>1, <4>5, <4>6 DEF InStep
    <3>8. CASE rob[1].at # "fin"
      <4>1. priv = ref
        BY <2>2, <3>8 DEF Executed
      <4>2. ~squash_vld'
        BY <1>1, <1>7, <1>12, <3>8 DEF HasExcept, HasMispred
      <4>3. shr.type # "none" => shr.idx # 1
        BY <3>8 DEF Inv, Reasons
      <4>4. CASE scu.stage # "regs"
        <5>1. priv' = priv
          BY <1>1, <1>12, <4>4 DEF NextPriv, Writes, Returns
        <5>2. ASSUME p = "fin" PROVE RefExec(ref, rob[1].kind) = ref
          <6>1. ~IsSystem(1)
            BY <3>3, <3>8, <4>4, <5>2 DEF MovedTo
          <6> QED
            BY <6>1, OthersKeep DEF IsSystem
        <5>3. Agree
          BY <2>1, <3>2, <3>6, <4>1, <5>1, <5>2
        <5> QED
          BY <1>3, <1>12, <4>2, <5>3 DEF InStep
      <4>5. CASE scu.stage = "regs"
        <5>1. p = "fin"
          BY <3>3, <4>5 DEF MovedTo
        <5>2. 1 \notin done
          <6>1. rob[1].at = "scu"
            BY <4>5, UnitFacts
          <6> QED
            BY <1>1, <6>1 DEF Executing
        <5>3. CASE Raises
          <6>1. priv' = priv
            BY <1>1, <1>12, <4>5, <5>3, ResultFacts DEF NextPriv
          <6>2. ~Executed'
            BY <1>1, <3>5, <3>6, <5>3
          <6>3. Agree
            BY <2>1, <4>1, <6>1, <6>2
          <6> QED
            BY <1>3, <1>12, <4>2, <6>3 DEF InStep
        <5>4. CASE ~Raises
          <6>1. Writes \/ Returns
            BY <4>5, <5>4, ResultFacts
          <6>2. priv' = RefExec(priv, rob[1].kind)
            BY <1>1, <1>12, <4>5, <6>1, ResultFacts DEF NextPriv
          <6>3. Executed'
            <7>1. CASE Returns
              BY <1>1, <3>4, <3>6, <5>1, <7>1
            <7>2. CASE ~Returns
              <8>1. r # shr => r.idx # 1
                BY <1>1, <5>2, <5>4, <7>2
              <8>2. ~(shr'.type = "except" /\ shr'.idx = 1)
                BY <3>4, <4>3, <8>1
              <8> QED
                BY <3>6, <5>1, <8>2
            <7> QED
              BY <7>1, <7>2
          <6>4. Agree
            BY <2>1, <3>2, <4>1, <6>2, <6>3
          <6> QED
            BY <1>3, <1>12, <4>2, <6>4 DEF InStep
        <5> QED
          BY <5>3, <5>4
      <4> QED
        BY <4>4, <4>5
    <3> QED
      BY <3>7, <3>8
  <2> QED
    BY <2>3, <2>4
<1> QED
  BY <1>2, <1>9, <1>10, <1>11, <1>12

-----------------------------------------------------------------------------
(* Every step keeps the invariant.                                         *)

\* Whatever arrives is fresh.
LEMMA GroupFacts ==
  ASSUME NEW group \in Groups
  PROVE  group \in Seq(Entries) /\ \A i \in DOMAIN group : Fresh(group[i])
<1>1. PICK n \in 0 .. RENAME_WIDTH :
        group \in [1 .. n -> {Arrived(k) : k \in Fetched(priv.mode)}]
  BY DEF Groups
<1>2. ASSUME NEW k \in Fetched(priv.mode) PROVE Arrived(k) \in Entries /\ Fresh(Arrived(k))
  <2>1. k \in Kinds
    BY DEF Fetched
  <2> QED
    BY <2>1 DEF Arrived, Entries, Fresh
<1>3. \A i \in 1 .. n : group[i] \in Entries /\ Fresh(group[i])
  BY <1>1, <1>2
<1>4. n \in Nat /\ group \in [1 .. n -> Entries]
  BY <1>1, <1>3
<1> QED
  BY <1>3, <1>4

\* A clock cycle is a turn of the machine.
LEMMA ClockTurn ==
  ASSUME Inv, Clock
  PROVE  \E done, go, n, r : Turn(done, go, n, r)
<1>1. PICK group \in Groups, done \in {{}} \union {{i} : i \in Executing},
           go \in {g \in BOOLEAN : g => WaitingScu # {} /\ scu.stage = "idle"} :
        Len(rob) + Len(group) <= ROB_SIZE /\ Steps(group, done, go)
  BY DEF Clock
<1>2. PICK bad \in BOOLEAN, cause \in {"fault", "reExec"} : Cycle(group, done, bad, cause, go)
  BY <1>1 DEF Steps
<1>3. group \in Seq(Entries) /\ \A i \in DOMAIN group : Fresh(group[i])
  BY GroupFacts
<1>4. done \subseteq Executing /\ go \in BOOLEAN /\ (go => scu.stage = "idle" /\ WaitingScu # {})
  OBVIOUS
<1>5. \E n, r : Turn(done, go, n, r)
  BY <1>1, <1>2, <1>3, <1>4, CycleTurn
<1> QED
  BY <1>5

\* A cycle keeps the invariant.
LEMMA TurnKeeps ==
  ASSUME Inv, NEW done, NEW go, NEW n, NEW r, Turn(done, go, n, r)
  PROVE  Inv'
<1>1. TypeOK' /\ InOrder' /\ Alone'
  BY TypesKept, InOrderKept, AloneKept
<1>2. Unit' /\ Reasons' /\ InStep'
  BY UnitKept, ReasonsKept, InStepKept
<1>3. \A i \in DOMAIN rob' : Placed(rob'[i])
  BY PlacedKept
<1> QED
  BY <1>1, <1>2, <1>3 DEF Inv, Placed

\* A squash empties the machine, and leaves the registers, which agree.
LEMMA SquashKeeps ==
  ASSUME Inv, Squash
  PROVE  Inv'
<1>1. squash_vld /\ ~do_except /\ scu = Idle /\ priv = ref /\ cpu_csrs = Shown(priv)
  BY DEF Squash, Inv, Reasons, InStep
<1>2. /\ rob' = << >> /\ status' = 0 /\ scu' = Idle /\ shr' = NoReason
      /\ squash_vld' = FALSE /\ do_except' = FALSE /\ ref' = ref
      /\ priv' = NextPriv /\ csr_sync' = Touched
      /\ cpu_csrs' = IF csr_sync' THEN Shown(priv') ELSE cpu_csrs
  BY DEF Squash, Sync
<1>3. ~Writes /\ ~Returns /\ priv' = priv
  BY <1>1, <1>2 DEF Idle, Writes, Returns, NextPriv
<1>4. cpu_csrs' = Shown(priv')
  BY <1>1, <1>2, <1>3 DEF Shown
<1>5. TypeOK'
  <2>1. ref \in Registers /\ ROB_SIZE \in Nat
    BY WidthAssumption DEF Inv, TypeOK
  <2>2. Len(rob') = 0 /\ rob' \in Seq(Entries)
    BY <1>2
  <2>3. shr' \in [type : {"none", "except", "mispred"}, idx : 0 .. Len(rob'), cause : Causes]
    BY <1>2, <2>2 DEF NoReason, Causes
  <2>4. {squash_vld', do_except', csr_sync'} \subseteq BOOLEAN
    BY <1>1, <1>2, <1>3 DEF Touched
  <2> QED
    BY <1>1, <1>2, <1>3, <2>1, <2>2, <2>3, <2>4 DEF TypeOK, Entries, Idle
<1>6. DOMAIN rob' = {} /\ ~Executed'
  BY <1>2 DEF Executed
<1>7. InStep'
  BY <1>1, <1>2, <1>3, <1>4, <1>6 DEF InStep
<1>8. Alone' /\ InOrder' /\ Unit' /\ Reasons'
  BY <1>2, <1>6 DEF Alone, InOrder, Unit, Reasons, NoReason
<1> QED
  BY <1>5, <1>6, <1>7, <1>8 DEF Inv

\* The invariant holds from reset on.
THEOREM Invariance == Spec => []Inv
<1>1. Init => Inv
  <2> SUFFICES ASSUME Init PROVE Inv
    OBVIOUS
  <2>1. DOMAIN rob = {} /\ Len(rob) = 0 /\ rob \in Seq(Entries)
    BY DEF Init
  <2>2. Reset \in Registers
    BY DEF Reset, Registers, Modes, Causes
  <2>3. shr \in [type : {"none", "except", "mispred"}, idx : 0 .. Len(rob), cause : Causes]
    BY <2>1 DEF Init, NoReason, Causes
  <2>4. TypeOK
    <3>1. {squash_vld, do_except, csr_sync} \subseteq BOOLEAN /\ ~do_except
      BY Zenon DEF Init
    <3>2. {priv, ref} \subseteq Registers
      BY <2>2 DEF Init
    <3>3. Len(rob) <= ROB_SIZE
      BY <2>1, WidthAssumption
    <3>4. status \in 0 .. 3 /\ scu.stage \in {"idle", "saved", "regs"}
      BY DEF Init, Idle
    <3> QED
      BY <2>1, <2>3, <3>1, <3>2, <3>3, <3>4 DEF TypeOK, Entries
  <2>5. InStep
    BY DEF Init, InStep, Executed
  <2>6. Alone /\ InOrder /\ Unit /\ Reasons
    BY <2>1 DEF Init, Alone, InOrder, Unit, Reasons, NoReason
  <2> QED
    BY <2>1, <2>4, <2>5, <2>6 DEF Inv
<1>2. Inv /\ [Next]_vars => Inv'
  <2> SUFFICES ASSUME Inv, [Next]_vars PROVE Inv'
    OBVIOUS
  <2>1. CASE Squash
    BY <2>1, SquashKeeps
  <2>2. CASE Clock
    <3>1. PICK done, go, n, r : Turn(done, go, n, r)
      BY <2>2, ClockTurn
    <3> QED
      BY <3>1, TurnKeeps
  <2>3. CASE UNCHANGED vars
    <3>1. TypeOK'
      BY <2>3 DEF Inv, TypeOK, vars
    <3>2. (\A i \in DOMAIN rob : Placed(rob[i]))' /\ InOrder' /\ Alone'
      BY <2>3 DEF Inv, InOrder, Alone, IsSystem, Placed, vars
    <3>3. Unit' /\ Reasons'
      BY <2>3 DEF Inv, Unit, Reasons, Issue, Computed, NewCsr, Shown, vars
    <3>4. InStep'
      BY <2>3 DEF Inv, InStep, Executed, vars
    <3> QED
      BY <3>1, <3>2, <3>3, <3>4 DEF Inv
  <2> QED
    BY <2>1, <2>2, <2>3 DEF Next
<1> QED
  BY <1>1, <1>2, PTL DEF Spec

-----------------------------------------------------------------------------
(* What it implies.                                                        *)

\* SyncedAtCommit: what difftest compares at a commit are the registers of the
\* reference after it (difftest.cpp, priv_ctrl.sv, ROB.sv).
THEOREM SyncInvariance == Spec => []SyncedAtCommit
<1>1. Inv => SyncedAtCommit
  <2> SUFFICES ASSUME Inv, NEW k \in 1 .. NumCommit PROVE cpu_csrs = Shown(RefAfter[k])
    BY DEF SyncedAtCommit
  <2>1. RefAfter[k] = priv
    BY CommittedRef
  <2> QED
    BY <2>1 DEF Inv, InStep
<1> QED
  BY <1>1, Invariance, PTL

\* OneWriter: a write, a trap and a return never meet in priv_ctrl.sv, and none
\* comes in the cycle of a squash.
THEOREM WriterInvariance == Spec => []OneWriter
<1>1. Inv => OneWriter
  <2> SUFFICES ASSUME Inv PROVE OneWriter
    OBVIOUS
  <2>1. do_except => ~Writes /\ ~Returns
    BY HeadFinished, RegistersRest
  <2>2. squash_vld => scu.stage = "idle"
    BY DEF Inv, Reasons, Idle
  <2> QED
    BY <2>1, <2>2 DEF OneWriter
<1> QED
  BY <1>1, Invariance, PTL

\* SerialisedAlone: a dispatched system instruction is alone at port 0 and gets
\* IQ0, and what the unit reports is the head (dispatch.sv, intBlock.sv, alu_scu.sv).
THEOREM SerialInvariance == Spec => []SerialisedAlone
<1>1. Inv => SerialisedAlone
  <2> SUFFICES ASSUME Inv PROVE SerialisedAlone
    OBVIOUS
  <2>1. status = 2 => First(1) /\ IsSystem(1) /\ Dispatched(1) = "iq0"
    BY SystemTaken
  <2>2. scu.stage # "idle" => rob[1].at = "scu"
    BY UnitFacts
  <2> QED
    BY <2>1, <2>2 DEF SerialisedAlone, Inv
<1> QED
  BY <1>1, Invariance, PTL
=============================================================================
