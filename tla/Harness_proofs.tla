--------------------------- MODULE Harness_proofs ---------------------------
(***************************************************************************)
(* The simulator around the core reports what happened: for any command    *)
(* lines, any instructions and errors of the core, and any sizes.          *)
(*                                                                         *)
(* The calls of one cycle come one after the other and some of them stop   *)
(* the run, but the calls after them still come, so that nothing can be    *)
(* said of the globals between two turns of the loop alone.  What holds    *)
(* after k commits of the tick t (Within) has two halves: the trace        *)
(* (TracedTo: what was said in the window, up to the message of an         *)
(* instruction that ended it, is printed, or held in a buffer while the    *)
(* trace is open) and the comparison (Judging: an error stops the run,     *)
(* nothing else fails it, and as long as it goes on the reference has      *)
(* executed what the core has committed).  They meet where an instruction  *)
(* ends the trace: the comparison must then have found it.                 *)
(*                                                                         *)
(* A run goes on with a window in numbers because the parser stores as a   *)
(* number only what reads as one (Sound).  The parser and the commits of a *)
(* cycle are recursive functions on a bounded domain: that their equations *)
(* have a solution, and what holds of it, follows from the least index at  *)
(* which it would fail.                                                    *)
(***************************************************************************)
EXTENDS Harness, SequenceTheorems, WellFoundedInduction, TLAPS

-----------------------------------------------------------------------------
(* Least elements. *)

\* A set of naturals that is not empty has a least element.
LEMMA LeastElement ==
  ASSUME NEW T \in SUBSET Nat, T # {}
  PROVE  \E m \in T : \A k \in T : m <= k
<1> DEFINE R == {ss \in Nat \X Nat : ss[1] < ss[2]}
<1>1. IsWellFoundedOn(R, Nat)
  BY NatLessThanWellFounded DEF OpToRel
<1>2. PICK m \in T : \A k \in T : <<k, m>> \notin R
  BY <1>1, WFMin, Zenon
<1>3. ASSUME NEW k \in T PROVE m <= k
  <2>1. k \in Nat /\ m \in Nat
    OBVIOUS
  <2>2. ~(k < m)
    BY <1>2, <2>1
  <2> QED
    BY <2>1, <2>2
<1> QED
  BY <1>3

-----------------------------------------------------------------------------
(* What the command line makes. *)

Names == {o.name : o \in Options}

\* a state of the parser, whatever the values are
Parser(st) ==
  /\ st \in [set : {st.set}, pending : Options \union {None}, errors : Nat, others : Nat]
  /\ st.set = [n \in Names |-> st.set[n]]

\* an option that main() reads as a number holds one
Numeric(st, name) ==
  st.set[name] = None \/ (st.set[name].form = "word" /\ st.set[name].text \in DOMAIN Number)

Sound(st) == Parser(st) /\ Numeric(st, "debug-start") /\ Numeric(st, "debug-end")

\* The debug window is given in numbers.
LEMMA OptionFacts ==
  /\ "debug-start" \in Names /\ "debug-end" \in Names
  /\ \A o \in Options : o.name \in {"debug-start", "debug-end"} => o.value = "number"
<1>1. ASSUME NEW o \in Options, o.name \in {"debug-start", "debug-end"} PROVE o.value = "number"
  <2>1. \/ o = Option("exec-file", "f", "text", TRUE) \/ o = Option("end", "e", "text", FALSE)
        \/ o = Option("seed", "s", "number", FALSE) \/ o = Option("diff-so", "d", "text", FALSE)
        \/ o = Option("trace-start", "", "number", FALSE)
        \/ o = Option("debug-start", "", "number", FALSE)
        \/ o = Option("debug-end", "", "number", FALSE)
        \/ o = Option("debug-flags", "", "text", FALSE) \/ o = Option("help", "?", "", FALSE)
        \/ o = Option("trace", "", "text", FALSE)
    BY DEF Options
  <2>2. o = Option("exec-file", "f", "text", TRUE) => o.name = "exec-file"
    BY DEF Option
  <2>3. o = Option("end", "e", "text", FALSE) => o.name = "end"
    BY DEF Option
  <2>4. o = Option("seed", "s", "number", FALSE) => o.value = "number"
    BY DEF Option
  <2>5. o = Option("diff-so", "d", "text", FALSE) => o.name = "diff-so"
    BY DEF Option
  <2>6. ASSUME o = Option("trace-start", "", "number", FALSE) PROVE o.value = "number"
    <3>1. Option("trace-start", "", "number", FALSE).value = "number"
      BY DEF Option
    <3> QED
      BY <2>6, <3>1
  <2>7. ASSUME o = Option("debug-start", "", "number", FALSE) PROVE o.value = "number"
    <3>1. Option("debug-start", "", "number", FALSE).value = "number"
      BY DEF Option
    <3> QED
      BY <2>7, <3>1
  <2>8. ASSUME o = Option("debug-end", "", "number", FALSE) PROVE o.value = "number"
    <3>1. Option("debug-end", "", "number", FALSE).value = "number"
      BY DEF Option
    <3> QED
      BY <2>8, <3>1
  <2>9. ASSUME o = Option("debug-flags", "", "text", FALSE) PROVE o.name = "debug-flags"
    <3>1. Option("debug-flags", "", "text", FALSE).name = "debug-flags"
      BY DEF Option
    <3> QED
      BY <2>9, <3>1
  <2>10. ASSUME o = Option("help", "?", "", FALSE) PROVE o.name = "help"
    <3>1. Option("help", "?", "", FALSE).name = "help"
      BY DEF Option
    <3> QED
      BY <2>10, <3>1
  <2>11. ASSUME o = Option("trace", "", "text", FALSE) PROVE o.name = "trace"
    <3>1. Option("trace", "", "text", FALSE).name = "trace"
      BY DEF Option
    <3> QED
      BY <2>11, <3>1
  <2>12. \/ o.name = "exec-file" \/ o.name = "end" \/ o.name = "diff-so" \/ o.name = "debug-flags"
         \/ o.name = "help" \/ o.name = "trace" \/ o.value = "number"
    BY <2>1, <2>2, <2>3, <2>4, <2>5, <2>6, <2>7, <2>8, <2>9, <2>10, <2>11, Zenon
  <2> QED
    BY <1>1, <2>12
<1>2. /\ Option("debug-start", "", "number", FALSE) \in Options
      /\ Option("debug-end", "", "number", FALSE) \in Options
  BY DEF Options
<1>3. /\ Option("debug-start", "", "number", FALSE).name = "debug-start"
      /\ Option("debug-end", "", "number", FALSE).name = "debug-end"
  BY DEF Option
<1> QED
  BY <1>1, <1>2, <1>3 DEF Names

\* The parser starts with nothing set.
LEMMA FreshSound == Sound(Fresh)
  BY OptionFacts DEF Sound, Fresh, Parser, Numeric, Names

\* An error changes nothing else.
LEMMA FailSound ==
  ASSUME NEW st, Sound(st)
  PROVE  Sound(Fail(st))
<1>1. Parser(Fail(st)) /\ Fail(st).set = st.set
  BY DEF Sound, Fail, Parser
<1> QED
  BY <1>1 DEF Sound, Numeric

\* A value is stored where it can be read.
LEMMA AssignSound ==
  ASSUME NEW st, Sound(st), NEW o \in Options, NEW arg
  PROVE  Sound(Assign(st, o, arg))
<1> DEFINE b == [st EXCEPT !.pending = None]
<1>1. Parser(b) /\ b.set = st.set
  BY DEF Sound, Parser
<1>2. Sound(b)
  BY <1>1 DEF Sound, Numeric
<1>3. CASE ~Readable(o, arg)
  BY <1>2, <1>3, FailSound DEF Assign
<1>4. CASE Readable(o, arg)
  <2> DEFINE u == [st EXCEPT !.set[o.name] = arg, !.pending = None]
  <2>1. o.name \in Names
    BY DEF Names
  <2>2. Parser(u) /\ u.set = [st.set EXCEPT ![o.name] = arg]
    BY <2>1 DEF Sound, Parser
  <2>3. st.set = [n \in Names |-> st.set[n]]
    BY DEF Sound, Parser
  <2> HIDE DEF u
  <2>4. ASSUME NEW n \in {"debug-start", "debug-end"}, Numeric(st, n) PROVE Numeric(u, n)
    <3>1. n \in Names
      BY OptionFacts
    <3>2. CASE n # o.name
      <4>1. u.set[n] = st.set[n]
        BY <2>2, <2>3, <3>1, <3>2
      <4> QED
        BY <2>4, <4>1 DEF Numeric
    <3>3. CASE n = o.name
      <4>1. u.set[n] = arg
        BY <2>2, <2>3, <3>1, <3>3
      <4>2. o.value = "number"
        BY <3>3, OptionFacts
      <4>3. arg.form = "word" /\ arg.text \in DOMAIN Number
        BY <1>4, <4>2 DEF Readable
      <4> QED
        BY <4>1, <4>3 DEF Numeric
    <3> QED
      BY <3>2, <3>3
  <2>5. Numeric(u, "debug-start") /\ Numeric(u, "debug-end")
    BY <2>4 DEF Sound
  <2> QED
    BY <1>4, <2>2, <2>5 DEF Assign, Sound, u
<1> QED
  BY <1>3, <1>4

\* A flag is none of the numeric options.
LEMMA RaiseSound ==
  ASSUME NEW st, Sound(st), NEW o \in Options
  PROVE  Sound(Raise(st, o))
<1>1. CASE o.value # ""
  BY <1>1, FailSound DEF Raise
<1>2. CASE o.value = ""
  <2> DEFINE u == [st EXCEPT !.set[o.name] = Word("")]
  <2>1. o.name \in Names /\ o.name # "debug-start" /\ o.name # "debug-end"
    BY <1>2, OptionFacts DEF Names
  <2>3. Parser(u) /\ u.set = [st.set EXCEPT ![o.name] = Word("")]
    BY <2>1 DEF Sound, Parser
  <2>4. st.set = [n \in Names |-> st.set[n]]
    BY DEF Sound, Parser
  <2> HIDE DEF u
  <2>5. u.set["debug-start"] = st.set["debug-start"] /\ u.set["debug-end"] = st.set["debug-end"]
    BY <2>1, <2>3, <2>4, OptionFacts
  <2> QED
    BY <1>2, <2>3, <2>5 DEF Raise, Sound, Numeric, u
<1> QED
  BY <1>1, <1>2

\* An option that is named is raised or waits for its value.
LEMMA NameSound ==
  ASSUME NEW st, Sound(st), NEW o \in Options
  PROVE  Sound(Name(st, o))
<1>1. CASE o.value = ""
  BY <1>1, RaiseSound DEF Name
<1>2. CASE o.value # ""
  <2>1. Parser([st EXCEPT !.pending = o]) /\ [st EXCEPT !.pending = o].set = st.set
    BY DEF Sound, Parser
  <2> QED
    BY <1>2, <2>1 DEF Name, Sound, Numeric
<1> QED
  BY <1>1, <1>2

\* A letter means an option, or nothing.
LEMMA LetterSound ==
  ASSUME NEW st, Sound(st), NEW letter, NEW last \in BOOLEAN
  PROVE  Sound(Letter(st, letter, last))
<1>1. CASE Lettered(letter) = {}
  BY <1>1, FailSound DEF Letter
<1>2. CASE Lettered(letter) # {}
  <2> DEFINE o == CHOOSE o \in Lettered(letter) : TRUE
  <2>1. o \in Lettered(letter)
    BY <1>2
  <2>2. o \in Options
    BY <2>1 DEF Lettered
  <2>3. Letter(st, letter, last) = IF last THEN Name(st, o) ELSE Raise(st, o)
    BY <1>2 DEF Letter
  <2> HIDE DEF o
  <2> QED
    BY <2>2, <2>3, NameSound, RaiseSound
<1> QED
  BY <1>1, <1>2

\* A group of letters is read to its end.
LEMMA LettersSound ==
  ASSUME NEW st, Sound(st), NEW letters, Len(letters) \in Nat
  PROVE  Sound(Letters(st, letters))
<1> DEFINE n == Len(letters)
           Reads(f, m) ==
             /\ f = [k \in 0 .. m |-> f[k]]
             /\ \A k \in 0 .. m : f[k] = IF k = 0 THEN st ELSE Letter(f[k - 1], letters[k], k = n)
           at == CHOOSE at : at = [k \in 0 .. n |-> IF k = 0 THEN st
                                                    ELSE Letter(at[k - 1], letters[k], k = n)]
           T == {m \in Nat : ~ \E f : Reads(f, m)}
           U == {k \in 0 .. n : ~Sound(at[k])}
<1>1. T = {}
  <2> SUFFICES ASSUME T # {} PROVE FALSE
    OBVIOUS
  <2> HIDE DEF T
  <2>1. PICK m \in T : \A k \in T : m <= k
    <3>1. T \in SUBSET Nat
      BY DEF T
    <3> QED
      BY <3>1, LeastElement
  <2>2. m \in Nat /\ ~ \E f : Reads(f, m)
    BY DEF T
  <2>3. CASE m = 0
    <3>1. Reads([k \in 0 .. 0 |-> st], 0)
      OBVIOUS
    <3> QED
      BY <2>2, <2>3, <3>1
  <2>4. CASE m # 0
    <3>1. m - 1 \in Nat /\ ~(m <= m - 1)
      BY <2>2, <2>4
    <3>2. PICK f : Reads(f, m - 1)
      BY <2>1, <3>1 DEF T
    <3> DEFINE g == [k \in 0 .. m |-> IF k = m THEN Letter(f[m - 1], letters[m], m = n) ELSE f[k]]
    <3>3. ASSUME NEW k \in 0 .. m
          PROVE  g[k] = IF k = 0 THEN st ELSE Letter(g[k - 1], letters[k], k = n)
      <4>1. CASE k = m
        <5>1. g[m - 1] = f[m - 1]
          BY <2>2, <2>4
        <5> QED
          BY <2>2, <2>4, <4>1, <5>1
      <4>2. CASE k # m
        <5>1. k \in 0 .. m - 1 /\ g[k] = f[k]
          BY <2>2, <4>2
        <5>2. k # 0 => g[k - 1] = f[k - 1]
          BY <2>2, <4>2
        <5> HIDE DEF g
        <5> QED
          BY <3>2, <5>1, <5>2
      <4> QED
        BY <4>1, <4>2
    <3>4. Reads(g, m)
      BY <3>3
    <3> QED
      BY <2>2, <3>4
  <2> QED
    BY <2>3, <2>4
<1>2. PICK f : Reads(f, n)
  BY <1>1
<1>3. f = [k \in 0 .. n |-> IF k = 0 THEN st ELSE Letter(f[k - 1], letters[k], k = n)]
  BY <1>2
<1>4. at = [k \in 0 .. n |-> IF k = 0 THEN st ELSE Letter(at[k - 1], letters[k], k = n)]
  BY <1>3
<1>5. Letters(st, letters) = at[n]
  BY DEF Letters
<1> HIDE DEF at
<1>6. U = {}
  <2> SUFFICES ASSUME U # {} PROVE FALSE
    OBVIOUS
  <2> HIDE DEF U
  <2>1. PICK k \in U : \A j \in U : k <= j
    <3>1. U \in SUBSET Nat
      BY DEF U
    <3> QED
      BY <3>1, LeastElement
  <2>2. k \in 0 .. n /\ ~Sound(at[k])
    BY DEF U
  <2>3. at[k] = IF k = 0 THEN st ELSE Letter(at[k - 1], letters[k], k = n)
    BY <1>4, <2>2
  <2>4. k # 0
    BY <2>2, <2>3
  <2>5. k - 1 \in 0 .. n /\ ~(k <= k - 1)
    BY <2>2, <2>4
  <2>6. Sound(at[k - 1])
    BY <2>1, <2>5 DEF U
  <2>7. at[k] = Letter(at[k - 1], letters[k], k = n)
    BY <2>3, <2>4
  <2>8. Sound(Letter(at[k - 1], letters[k], k = n))
    BY <2>6, LetterSound
  <2> QED
    BY <2>2, <2>7, <2>8
<1>7. n \in 0 .. n
  OBVIOUS
<1> QED
  BY <1>5, <1>6, <1>7

\* An argument is a value, a word, letters or a name.
LEMMA ReadSound ==
  ASSUME NEW st, Sound(st), NEW arg, Argument(arg)
  PROVE  Sound(Read(st, arg))
<1>1. st.pending \in Options \union {None}
  BY DEF Sound, Parser
<1>2. CASE st.pending # None
  <2>1. Read(st, arg) = Assign(st, st.pending, arg)
    BY <1>2 DEF Read
  <2> QED
    BY <1>1, <1>2, <2>1, AssignSound
<1>3. CASE st.pending = None /\ arg.form = "word"
  <2>1. Read(st, arg) = [st EXCEPT !.others = @ + 1]
    BY <1>3 DEF Read
  <2>2. Parser([st EXCEPT !.others = @ + 1]) /\ [st EXCEPT !.others = @ + 1].set = st.set
    BY DEF Sound, Parser
  <2> QED
    BY <2>1, <2>2 DEF Sound, Numeric
<1>4. CASE st.pending = None /\ arg.form = "short"
  <2>1. Read(st, arg) = Letters(st, arg.letters)
    BY <1>4 DEF Read
  <2> QED
    BY <1>4, <2>1, LettersSound DEF Argument
<1>5. CASE st.pending = None /\ arg.form = "long"
  <2> DEFINE o == CHOOSE o \in Called(arg.name) : TRUE
  <2>1. Read(st, arg) = IF Called(arg.name) = {} THEN Fail(st)
                        ELSE IF arg.val = None THEN Name(st, o) ELSE Assign(st, o, arg.val)
    BY <1>5 DEF Read
  <2>2. Called(arg.name) # {} => o \in Called(arg.name)
    OBVIOUS
  <2>3. Called(arg.name) # {} => o \in Options
    BY <2>2 DEF Called
  <2> HIDE DEF o
  <2> QED
    BY <2>1, <2>3, FailSound, NameSound, AssignSound
<1> QED
  BY <1>1, <1>2, <1>3, <1>4, <1>5 DEF Argument

\* A command line is read to its end.
LEMMA ReadAllSound ==
  ASSUME NEW args, Len(args) \in Nat, \A i \in 1 .. Len(args) : Argument(args[i])
  PROVE  Sound(ReadAll(args))
<1> DEFINE n == Len(args)
           Reads(f, m) ==
             /\ f = [k \in 0 .. m |-> f[k]]
             /\ \A k \in 0 .. m : f[k] = IF k = 0 THEN Fresh ELSE Read(f[k - 1], args[k])
           at == CHOOSE at : at = [k \in 0 .. n |-> IF k = 0 THEN Fresh
                                                    ELSE Read(at[k - 1], args[k])]
           T == {m \in Nat : ~ \E f : Reads(f, m)}
           U == {k \in 0 .. n : ~Sound(at[k])}
<1>1. T = {}
  <2> SUFFICES ASSUME T # {} PROVE FALSE
    OBVIOUS
  <2> HIDE DEF T
  <2>1. PICK m \in T : \A k \in T : m <= k
    <3>1. T \in SUBSET Nat
      BY DEF T
    <3> QED
      BY <3>1, LeastElement
  <2>2. m \in Nat /\ ~ \E f : Reads(f, m)
    BY DEF T
  <2>3. CASE m = 0
    <3>1. Reads([k \in 0 .. 0 |-> Fresh], 0)
      OBVIOUS
    <3> QED
      BY <2>2, <2>3, <3>1
  <2>4. CASE m # 0
    <3>1. m - 1 \in Nat /\ ~(m <= m - 1)
      BY <2>2, <2>4
    <3>2. PICK f : Reads(f, m - 1)
      BY <2>1, <3>1 DEF T
    <3> DEFINE g == [k \in 0 .. m |-> IF k = m THEN Read(f[m - 1], args[m]) ELSE f[k]]
    <3>3. ASSUME NEW k \in 0 .. m
          PROVE  g[k] = IF k = 0 THEN Fresh ELSE Read(g[k - 1], args[k])
      <4>1. CASE k = m
        <5>1. g[m - 1] = f[m - 1]
          BY <2>2, <2>4
        <5> QED
          BY <2>2, <2>4, <4>1, <5>1
      <4>2. CASE k # m
        <5>1. k \in 0 .. m - 1 /\ g[k] = f[k]
          BY <2>2, <4>2
        <5>2. k # 0 => g[k - 1] = f[k - 1]
          BY <2>2, <4>2
        <5> HIDE DEF g
        <5> QED
          BY <3>2, <5>1, <5>2
      <4> QED
        BY <4>1, <4>2
    <3>4. Reads(g, m)
      BY <3>3
    <3> QED
      BY <2>2, <3>4
  <2> QED
    BY <2>3, <2>4
<1>2. PICK f : Reads(f, n)
  BY <1>1
<1>3. f = [k \in 0 .. n |-> IF k = 0 THEN Fresh ELSE Read(f[k - 1], args[k])]
  BY <1>2
<1>4. at = [k \in 0 .. n |-> IF k = 0 THEN Fresh ELSE Read(at[k - 1], args[k])]
  BY <1>3
<1>5. ReadAll(args) = at[n]
  BY DEF ReadAll
<1> HIDE DEF at
<1>6. U = {}
  <2> SUFFICES ASSUME U # {} PROVE FALSE
    OBVIOUS
  <2> HIDE DEF U
  <2>1. PICK k \in U : \A j \in U : k <= j
    <3>1. U \in SUBSET Nat
      BY DEF U
    <3> QED
      BY <3>1, LeastElement
  <2>2. k \in 0 .. n /\ ~Sound(at[k])
    BY DEF U
  <2>3. at[k] = IF k = 0 THEN Fresh ELSE Read(at[k - 1], args[k])
    BY <1>4, <2>2
  <2>4. k # 0
    BY <2>2, <2>3, FreshSound
  <2>5. k - 1 \in 0 .. n /\ ~(k <= k - 1) /\ k \in 1 .. n
    BY <2>2, <2>4
  <2>6. Sound(at[k - 1])
    BY <2>1, <2>5 DEF U
  <2>7. at[k] = Read(at[k - 1], args[k])
    BY <2>3, <2>4
  <2>8. Sound(Read(at[k - 1], args[k]))
    BY <2>5, <2>6, ReadSound
  <2> QED
    BY <2>2, <2>7, <2>8
<1>7. n \in 0 .. n
  OBVIOUS
<1> QED
  BY <1>5, <1>6, <1>7

RunConfigs == [limit : Nat, start : Nat, end : Nat, diff : BOOLEAN, flags : BOOLEAN]
ExitConfigs == [exit : {0, 1, 134}]

\* A numeric option that is not given has its default.
LEMMA NumberType ==
  ASSUME NEW st, NEW name, Numeric(st, name), NEW default \in Nat
  PROVE  NumberOr(st, name, default) \in Nat
  BY ValuesAssumption DEF NumberOr, Exist, Text, Numeric

\* A command line makes a code to exit with, or a configuration.
LEMMA ConfigureType ==
  ASSUME NEW args \in ArgLists, NEW c \in Configure(args)
  PROVE  c \in ExitConfigs \/ c \in RunConfigs
<1> DEFINE st == Parse(args)
           start == NumberOr(st, "debug-start", 0)
           end == NumberOr(st, "debug-end", Forever)
<1>1. Sound(ReadAll(args))
  BY ArgListsAssumption, ReadAllSound
<1>2. Sound(st)
  BY <1>1, FailSound DEF Parse
<1>3. start \in Nat /\ end \in Nat
  <2>1. Forever \in Nat /\ 0 \in Nat
    BY ValuesAssumption
  <2> QED
    BY <1>2, <2>1, NumberType DEF Sound
<1>4. EndAt(st) \subseteq Nat
  BY ValuesAssumption DEF EndAt, IsText
<1>5. \/ c \in {Exit(0), Exit(1), Exit(134)}
      \/ \E t \in EndAt(st) :
           c = [limit |-> t, start |-> start, end |-> end, diff |-> Exist(st, "diff-so"),
                flags |-> Exist(st, "debug-flags")]
  <2> HIDE DEF st, start, end
  <2>1. c \in Configure(args)
    OBVIOUS
  <2> QED
    BY <2>1, Zenon DEF Configure, st, start, end
<1>6. ASSUME c \in {Exit(0), Exit(1), Exit(134)} PROVE c \in ExitConfigs
  BY <1>6 DEF Exit, ExitConfigs
<1>7. ASSUME NEW t \in EndAt(st),
             c = [limit |-> t, start |-> start, end |-> end, diff |-> Exist(st, "diff-so"),
                  flags |-> Exist(st, "debug-flags")]
      PROVE  c \in RunConfigs
  <2>1. Exist(st, "diff-so") \in BOOLEAN /\ Exist(st, "debug-flags") \in BOOLEAN
    BY DEF Exist
  <2>2. t \in Nat
    BY <1>4
  <2> HIDE DEF st, start, end
  <2> QED
    BY <1>3, <1>7, <2>1, <2>2 DEF RunConfigs
<1> QED
  BY <1>5, <1>6, <1>7
-----------------------------------------------------------------------------
(* The invariant. *)

Records == [seq : Nat, pos : Nat, kind : Kinds, err : Errors]

Messages == Nat \X Nat

HarnessStates ==
  [on : BOOLEAN, buf : SUBSET Messages, out : SUBSET Messages, forced : BOOLEAN,
   failed : BOOLEAN, diff : BOOLEAN, ref : Nat, insts : Nat, cycles : Nat,
   said : SUBSET Messages, ending : SUBSET Messages, failAt : Nat, quitAt : Nat]

CoreStates == [flight : Seq(Records), pos : Nat, seq : Nat, pause : 0 .. 2, idle : Nat]

Typed ==
  /\ phase \in {"args", "run", "done"} /\ ret_code \in {0, 1, 134} /\ main_time \in Nat
  /\ h \in HarnessStates
  /\ DOMAIN ring = 0 .. RING - 1
  /\ core \in CoreStates

\* a run has a configuration; without one nothing has happened
Configured ==
  IF phase # "args" /\ cfg \in RunConfigs THEN main_time >= 2
  ELSE /\ h = FreshH /\ core = FreshCore /\ main_time = 0
       /\ phase = "args" \/ (phase = "done" /\ cfg \in ExitConfigs)

\* the instructions in flight have consecutive numbers and positions, the youngest
\* below the next one's, and each its record
Consecutive(c, r) ==
  /\ Len(c.flight) <= CAPACITY
  /\ \A i \in 1 .. Len(c.flight) :
       /\ c.flight[i].seq = c.seq - Len(c.flight) + i - 1
       /\ c.flight[i].pos = c.pos - Len(c.flight) + i - 1
       /\ c.flight[i].err = "npc" => c.flight[i].kind = "branch"
       /\ r[Slot(c.flight[i].seq)] = c.flight[i]

InFlight == Consecutive(core, ring)

\* the messages that are to be printed
Due(s) == {m \in s.said : \A l \in s.ending : ~Later(m, l)}

\* the flags are right for the tick t, all that is due has been printed, and nothing
\* is held back
WindowAt(s, t) ==
  /\ s.on <=> InWindow(t)
  /\ s.buf = {} /\ s.out = Due(s)
  /\ \A m \in s.said : 3 <= m[1] /\ m[1] < t

WindowKept == phase # "args" /\ cfg \in RunConfigs => WindowAt(h, main_time)

\* a run is stopped with its reason noted
Judged(s) ==
  /\ ~s.forced => s.failAt = 0 /\ s.quitAt = 0 /\ s.diff = cfg.diff /\ s.ending = {}
  /\ s.failAt # 0 => s.forced /\ (s.failed \/ s.quitAt = s.failAt)
  /\ s.forced /\ s.failed => s.failAt # 0

JudgedRight ==
  phase # "args" /\ cfg \in RunConfigs =>
    /\ Judged(h)
    /\ phase = "done" => ret_code = IF ForceExit(h) = 1 THEN 1 ELSE 0

\* the reference is where the oldest instruction in flight is
InStep == h.diff => core.pos = h.ref + Len(core.flight)

\* the alarm comes in the cycle after the limit
IdleBounded ==
  /\ core.idle <= STUCK_LIMIT + 2
  /\ ~h.forced => core.idle <= STUCK_LIMIT + 1

Inv ==
  /\ Typed /\ Configured /\ InFlight /\ WindowKept /\ AveragesPerCycle
  /\ JudgedRight /\ InStep /\ IdleBounded

-----------------------------------------------------------------------------
(* What the operations of the harness change. *)

\* the globals that say how the run goes
SameRun(s, u) ==
  /\ u.forced = s.forced /\ u.failed = s.failed /\ u.diff = s.diff /\ u.ref = s.ref
  /\ u.failAt = s.failAt /\ u.quitAt = s.quitAt /\ u.cycles = s.cycles

\* the globals of the debug messages
Shown(s, u) == u.on = s.on /\ u.buf = s.buf /\ u.out = s.out /\ u.said = s.said

SameTrace(s, u) == Shown(s, u) /\ u.ending = s.ending

\* A message is buffered while the flags are set.
LEMMA EmitFacts ==
  ASSUME NEW s \in HarnessStates, NEW m \in Messages
  PROVE  LET u == Emit(s, m) IN
         /\ u \in HarnessStates /\ SameRun(s, u)
         /\ u.on = s.on /\ u.out = s.out /\ u.ending = s.ending
         /\ u.said = IF cfg.flags /\ InWindow(m[1]) THEN s.said \union {m} ELSE s.said
         /\ u.buf = IF cfg.flags /\ s.on THEN s.buf \union {m} ELSE s.buf
<1> DEFINE a == IF InWindow(m[1]) THEN s.said \union {m} ELSE s.said
           b == IF s.on THEN s.buf \union {m} ELSE s.buf
<1>1. a \in SUBSET Messages /\ b \in SUBSET Messages
  BY DEF HarnessStates
<1>2. CASE cfg.flags
  <2>1. Emit(s, m) = [s EXCEPT !.said = a, !.buf = b]
    BY <1>2 DEF Emit
  <2> HIDE DEF a, b
  <2>2. LET u == Emit(s, m) IN
        /\ u \in HarnessStates /\ SameRun(s, u)
        /\ u.on = s.on /\ u.out = s.out /\ u.ending = s.ending
        /\ u.said = a /\ u.buf = b
    BY <1>1, <2>1 DEF HarnessStates, SameRun
  <2> QED
    BY <1>2, <2>2 DEF a, b
<1>3. CASE ~cfg.flags
  BY <1>3 DEF Emit, SameRun
<1> QED
  BY <1>2, <1>3

\* Looking at the buffers opens or closes the window and prints what they hold.
LEMMA PrintAllFacts ==
  ASSUME NEW s \in HarnessStates, NEW t \in Nat, cfg \in RunConfigs
  PROVE  /\ PrintAll(s, t) \in HarnessStates /\ SameRun(s, PrintAll(s, t))
         /\ s.on \/ t >= cfg.start =>
              /\ PrintAll(s, t).on = (t <= cfg.end)
              /\ PrintAll(s, t).out = s.out \union s.buf /\ PrintAll(s, t).buf = {}
         /\ ~s.on /\ ~(t >= cfg.start) => SameTrace(s, PrintAll(s, t))
         /\ PrintAll(s, t).said = s.said /\ PrintAll(s, t).ending = s.ending
<1>1. CASE s.on \/ t >= cfg.start
  <2>1. PrintAll(s, t) = [s EXCEPT !.on = t <= cfg.end, !.out = @ \union s.buf, !.buf = {}]
    BY <1>1 DEF PrintAll
  <2>2. (t <= cfg.end) \in BOOLEAN
    BY DEF RunConfigs
  <2> QED
    BY <1>1, <2>1, <2>2 DEF HarnessStates, SameRun
<1>2. CASE ~s.on /\ ~(t >= cfg.start)
  <2>1. PrintAll(s, t) = s
    BY <1>2 DEF PrintAll
  <2> QED
    BY <1>2, <2>1 DEF SameRun, SameTrace, Shown
<1> QED
  BY <1>1, <1>2

\* The rising edge is counted.
LEMMA CycleFacts ==
  ASSUME NEW s \in HarnessStates
  PROVE  /\ CycleStep(s) \in HarnessStates /\ SameTrace(s, CycleStep(s))
         /\ SameRun([s EXCEPT !.cycles = @ + 1], CycleStep(s))
         /\ CycleStep(s).cycles = s.cycles + 1
         /\ CycleStep(s).forced = s.forced /\ CycleStep(s).failed = s.failed
         /\ CycleStep(s).diff = s.diff /\ CycleStep(s).ref = s.ref
         /\ CycleStep(s).failAt = s.failAt /\ CycleStep(s).quitAt = s.quitAt
  BY DEF CycleStep, HarnessStates, SameRun, SameTrace, Shown

\* A commit is counted.
LEMMA CountedFacts ==
  ASSUME NEW w \in HarnessStates, NEW u, u = [w EXCEPT !.insts = w.insts + 1]
  PROVE  /\ u \in HarnessStates /\ SameTrace(w, u)
         /\ u.forced = w.forced /\ u.failed = w.failed /\ u.diff = w.diff
         /\ u.cycles = w.cycles /\ u.ref = w.ref /\ u.failAt = w.failAt
         /\ u.quitAt = w.quitAt
<1>1. u \in HarnessStates
  BY DEF HarnessStates
<1>2. SameTrace(w, u)
  BY DEF HarnessStates, SameTrace, Shown
<1> QED
  BY <1>1, <1>2 DEF HarnessStates

\* The alarm stops the run.
LEMMA StuckFacts ==
  ASSUME NEW s \in HarnessStates, NEW t \in Nat
  PROVE  LET u == CpuStucked(s, t) IN
         /\ u \in HarnessStates /\ SameTrace(s, u)
         /\ u.forced /\ u.failed /\ u.diff = s.diff /\ u.ref = s.ref /\ u.cycles = s.cycles
         /\ u.failAt = (IF s.failAt = 0 THEN t ELSE s.failAt) /\ u.quitAt = s.quitAt
  BY DEF CpuStucked, MarkExit, HarnessStates, SameTrace, Shown

\* The reference executes with the core.
LEMMA RefExecFacts ==
  ASSUME NEW s \in HarnessStates
  PROVE  LET u == RefExec(s) IN
         /\ u \in HarnessStates /\ SameTrace(s, u)
         /\ u.forced = s.forced /\ u.failed = s.failed /\ u.diff = s.diff /\ u.cycles = s.cycles
         /\ u.failAt = s.failAt /\ u.quitAt = s.quitAt
         /\ u.ref = IF s.diff THEN s.ref + 1 ELSE s.ref
  BY DEF RefExec, HarnessStates, SameTrace, Shown

\* u is s with an instruction in place k of tick t noted: the first error, the first
\* exit, and what ends the trace
Noted(s, u, inst, t, k) ==
  /\ u \in HarnessStates /\ Shown(s, u)
  /\ u.ending = s.ending \union (IF EndsTrace(inst) THEN {<<t, k>>} ELSE {})
  /\ u.forced = s.forced /\ u.failed = s.failed /\ u.diff = s.diff /\ u.cycles = s.cycles
  /\ u.ref = s.ref
  /\ u.failAt = (IF inst.err # "none" /\ s.failAt = 0 /\ s.quitAt = 0 /\ cfg.diff
                 THEN t ELSE s.failAt)
  /\ u.quitAt = (IF inst.kind = "exit" /\ s.quitAt = 0 THEN t ELSE s.quitAt)

\* The history remembers the first error and the first exit, and what ends the trace.
LEMMA WitnessedFacts ==
  ASSUME NEW s \in HarnessStates, NEW t \in Nat, NEW k \in Nat, NEW inst,
         cfg \in RunConfigs
  PROVE  Noted(s, Witnessed(s, inst, t, k), inst, t, k)
<1> DEFINE a == IF inst.err # "none" /\ s.failAt = 0 /\ s.quitAt = 0 /\ cfg.diff
                THEN t ELSE s.failAt
           q == IF inst.kind = "exit" /\ s.quitAt = 0 THEN t ELSE s.quitAt
           e == s.ending \union (IF EndsTrace(inst) THEN {<<t, k>>} ELSE {})
           u == Witnessed(s, inst, t, k)
<1>1. a \in Nat /\ q \in Nat /\ e \in SUBSET Messages
  BY DEF HarnessStates, Messages
<1>2. u = [s EXCEPT !.ending = e, !.failAt = a, !.quitAt = q]
  <2>1. e = IF EndsTrace(inst) THEN s.ending \union {<<t, k>>} ELSE s.ending
    OBVIOUS
  <2> HIDE DEF e
  <2> QED
    BY <2>1 DEF Witnessed
<1> HIDE DEF a, q, e, u
<1>3. /\ u \in HarnessStates /\ Shown(s, u) /\ u.ending = e
      /\ u.forced = s.forced /\ u.failed = s.failed /\ u.diff = s.diff /\ u.cycles = s.cycles
      /\ u.ref = s.ref /\ u.failAt = a /\ u.quitAt = q
  BY <1>1, <1>2 DEF HarnessStates, Shown
<1>4. Noted(s, u, inst, t, k)
  BY <1>3 DEF a, q, e, Noted
<1> QED
  BY <1>4 DEF u

\* u is s after the run was finished in tick t: what was buffered is printed if the
\* window had opened, and the flags are cleared
Finished(s, u, failed, t) ==
  /\ u \in HarnessStates
  /\ u.on = FALSE /\ u.said = s.said /\ u.ending = s.ending
  /\ s.on \/ t >= cfg.start => u.out = s.out \union s.buf /\ u.buf = {}
  /\ ~s.on /\ ~(t >= cfg.start) => u.out = s.out /\ u.buf = s.buf
  /\ u.forced /\ u.failed = failed /\ u.diff = FALSE /\ u.cycles = s.cycles
  /\ u.failAt = s.failAt /\ u.quitAt = s.quitAt /\ u.ref = s.ref

\* Finishing prints what is buffered, closes the window and stops the run.
LEMMA FinishFacts ==
  ASSUME NEW s \in HarnessStates, NEW t \in Nat, NEW failed \in BOOLEAN, cfg \in RunConfigs
  PROVE  Finished(s, Finish(s, failed, t), failed, t)
<1> DEFINE p == PrintAll(s, t)
           u == Finish(s, failed, t)
<1>1. u = MarkExit([ClearFlags(p) EXCEPT !.diff = FALSE], failed)
  BY DEF Finish, Closed
<1>2. /\ p \in HarnessStates /\ SameRun(s, p)
      /\ s.on \/ t >= cfg.start => p.out = s.out \union s.buf /\ p.buf = {}
      /\ ~s.on /\ ~(t >= cfg.start) => SameTrace(s, p)
      /\ p.said = s.said /\ p.ending = s.ending
  BY PrintAllFacts
<1> HIDE DEF p, u
<1>3. /\ u \in HarnessStates /\ u.on = FALSE /\ u.out = p.out /\ u.buf = p.buf
      /\ u.said = p.said /\ u.ending = p.ending
      /\ u.forced /\ u.failed = failed /\ u.diff = FALSE /\ u.cycles = p.cycles
      /\ u.failAt = p.failAt /\ u.quitAt = p.quitAt /\ u.ref = p.ref
  BY <1>1, <1>2 DEF MarkExit, ClearFlags, HarnessStates
<1>4. /\ u.cycles = s.cycles /\ u.failAt = s.failAt /\ u.quitAt = s.quitAt /\ u.ref = s.ref
  BY <1>2, <1>3 DEF SameRun
<1>5. /\ s.on \/ t >= cfg.start => u.out = s.out \union s.buf /\ u.buf = {}
      /\ ~s.on /\ ~(t >= cfg.start) => u.out = s.out /\ u.buf = s.buf
  BY <1>2, <1>3 DEF SameTrace, Shown
<1> QED
  BY <1>2, <1>3, <1>4, <1>5 DEF u, Finished

-----------------------------------------------------------------------------
(* One turn of the loop: the trace. *)

\* in the evaluation at tick t, after its messages up to place p: what is due is
\* printed or held in a buffer, and the flags are set until the trace ends
TracedTo(s, t, p) ==
  /\ \A m \in s.said : 3 <= m[1] /\ (m[1] < t \/ (m[1] = t /\ m[2] <= p))
  /\ \A l \in s.ending : l[1] = t /\ l[2] <= p
  /\ s.out \union s.buf = Due(s)
  /\ s.on <=> InWindow(t) /\ s.ending = {}
  /\ ~s.on => s.buf = {}

\* A turn begins with nothing said in it.
LEMMA TurnTraced ==
  ASSUME NEW s \in HarnessStates, NEW t \in Nat, WindowAt(s, t), s.ending = {}
  PROVE  TracedTo(s, t, -1)
  BY DEF WindowAt, TracedTo

\* The next message of the evaluation is due, and kept, unless the trace has ended.
LEMMA EmitTraced ==
  ASSUME NEW s \in HarnessStates, NEW t \in Nat, NEW p \in Int, NEW q \in Nat, p < q,
         cfg \in RunConfigs, TracedTo(s, t, p)
  PROVE  TracedTo(Emit(s, <<t, q>>), t, q)
<1> DEFINE m == <<t, q>>
<1>1. m \in Messages /\ m[1] = t /\ m[2] = q
  BY DEF Messages
<1> HIDE DEF m
<1>2. PICK u : u = Emit(s, m)
  OBVIOUS
<1>3. /\ u.on = s.on /\ u.out = s.out /\ u.ending = s.ending
      /\ u.said = IF cfg.flags /\ InWindow(t) THEN s.said \union {m} ELSE s.said
      /\ u.buf = IF cfg.flags /\ s.on THEN s.buf \union {m} ELSE s.buf
  BY <1>1, <1>2, EmitFacts
<1>4. InWindow(t) => 3 <= t
  BY DEF InWindow
<1>5. \A n \in s.said : n[1] \in Nat /\ n[2] \in Nat
  BY DEF HarnessStates, Messages
<1>6. \A l \in s.ending : l[1] \in Nat /\ l[2] \in Nat
  BY DEF HarnessStates, Messages
<1>7. \A n \in u.said : 3 <= n[1] /\ (n[1] < t \/ (n[1] = t /\ n[2] <= q))
  BY <1>1, <1>3, <1>4, <1>5 DEF TracedTo
<1>8. \A l \in u.ending : l[1] = t /\ l[2] <= q
  BY <1>3, <1>6 DEF TracedTo
<1>9. u.out \union u.buf = Due(u)
  <2>1. s.out \union s.buf = Due(s)
    BY DEF TracedTo
  <2>2. CASE s.ending = {}
    <3>1. Due(s) = s.said /\ Due(u) = u.said
      BY <1>3, <2>2 DEF Due
    <3>2. s.on <=> InWindow(t)
      BY <2>2 DEF TracedTo
    <3> QED
      BY <1>3, <2>1, <3>1, <3>2
  <2>3. CASE s.ending # {}
    <3>1. PICK l \in s.ending : l[1] = t /\ l[2] <= p
      BY <2>3 DEF TracedTo
    <3>2. Later(m, l)
      BY <1>1, <1>6, <3>1 DEF Later
    <3>3. Due(u) = Due(s)
      BY <1>3, <3>1, <3>2 DEF Due
    <3>4. ~s.on
      BY <2>3 DEF TracedTo
    <3> QED
      BY <1>3, <2>1, <3>3, <3>4
  <2> QED
    BY <2>2, <2>3
<1>10. /\ u.on <=> InWindow(t) /\ u.ending = {}
       /\ ~u.on => u.buf = {}
  BY <1>3 DEF TracedTo
<1> QED
  BY <1>2, <1>7, <1>8, <1>9, <1>10 DEF TracedTo, m

\* an instruction whose message was the last one ends the trace
Ended(s, e, m) == Shown(s, e) /\ e.ending = s.ending \union {m}

\* No message said so far is lost by that.
LEMMA EndedDue ==
  ASSUME NEW s \in HarnessStates, NEW t \in Nat, NEW p \in Nat, TracedTo(s, t, p),
         NEW e, Ended(s, e, <<t, p>>)
  PROVE  /\ Due(e) = Due(s) /\ e.said = s.said
         /\ \A l \in e.ending : l[1] = t /\ l[2] <= p
<1> DEFINE m == <<t, p>>
<1>1. m[1] = t /\ m[2] = p /\ e.said = s.said /\ e.ending = s.ending \union {m}
  BY DEF Ended, Shown
<1> HIDE DEF m
<1>2. ASSUME NEW n \in s.said PROVE ~Later(n, m)
  <2>1. n[1] \in Nat /\ n[2] \in Nat
    BY DEF HarnessStates, Messages
  <2>2. n[1] < t \/ (n[1] = t /\ n[2] <= p)
    BY DEF TracedTo
  <2> QED
    BY <1>1, <2>1, <2>2 DEF Later
<1>3. Due(e) = Due(s)
  BY <1>1, <1>2 DEF Due
<1>4. \A l \in e.ending : l[1] = t /\ l[2] <= p
  BY <1>1 DEF TracedTo
<1> QED
  BY <1>1, <1>3, <1>4

\* Finishing after it prints what is due and holds nothing back.
LEMMA FinishTraced ==
  ASSUME NEW s \in HarnessStates, NEW t \in Nat, NEW p \in Nat, cfg \in RunConfigs,
         TracedTo(s, t, p), NEW e \in HarnessStates, Ended(s, e, <<t, p>>),
         NEW u \in {Finish(e, TRUE, t), Finish(e, FALSE, t)}
  PROVE  TracedTo(u, t, p)
<1>1. /\ u.on = FALSE /\ u.said = e.said /\ u.ending = e.ending
      /\ e.on \/ t >= cfg.start => u.out = e.out \union e.buf /\ u.buf = {}
      /\ ~e.on /\ ~(t >= cfg.start) => u.out = e.out /\ u.buf = e.buf
  <2>1. PICK failed \in BOOLEAN : u = Finish(e, failed, t)
    OBVIOUS
  <2>2. Finished(e, u, failed, t)
    BY <2>1, FinishFacts
  <2> QED
    BY <2>2 DEF Finished
<1>2. e.on = s.on /\ e.buf = s.buf /\ e.out = s.out /\ e.ending # {}
  BY DEF Ended, Shown
<1>3. /\ Due(e) = Due(s) /\ e.said = s.said
      /\ \A l \in e.ending : l[1] = t /\ l[2] <= p
  BY EndedDue
<1>4. Due(u) = Due(s)
  BY <1>1, <1>3 DEF Due
<1>5. u.out \union u.buf = Due(u) /\ u.buf = {}
  BY <1>1, <1>2, <1>4 DEF TracedTo
<1> QED
  BY <1>1, <1>2, <1>3, <1>5 DEF TracedTo

\* A second one of the same evaluation changes nothing.
LEMMA EndedAgain ==
  ASSUME NEW s \in HarnessStates, NEW t \in Nat, NEW p \in Nat, TracedTo(s, t, p),
         s.ending # {}, NEW e, Ended(s, e, <<t, p>>)
  PROVE  TracedTo(e, t, p)
<1>1. e.on = s.on /\ e.buf = s.buf /\ e.out = s.out /\ e.ending # {}
  BY DEF Ended, Shown
<1>2. /\ Due(e) = Due(s) /\ e.said = s.said
      /\ \A l \in e.ending : l[1] = t /\ l[2] <= p
  BY EndedDue
<1> QED
  BY <1>1, <1>2 DEF TracedTo

\* What leaves the trace alone keeps it.
LEMMA TraceKept ==
  ASSUME NEW s, NEW u, NEW t, NEW p, TracedTo(s, t, p), SameTrace(s, u)
  PROVE  TracedTo(u, t, p)
<1>1. Due(u) = Due(s)
  BY DEF SameTrace, Shown, Due
<1> QED
  BY <1>1 DEF TracedTo, SameTrace, Shown

\* The end of the turn prints everything and sets the window for the next tick.
LEMMA PrintLast ==
  ASSUME NEW s \in HarnessStates, NEW t \in Nat, t >= 2, NEW q \in Nat, cfg \in RunConfigs,
         TracedTo(s, t, q)
  PROVE  WindowAt(PrintAll(s, t + 1), t + 1)
<1> DEFINE p == PrintAll(s, t + 1)
<1>1. t + 1 \in Nat /\ t + 1 >= 3 /\ cfg.start \in Nat /\ cfg.end \in Nat
  BY DEF RunConfigs
<1>2. /\ s.on \/ t + 1 >= cfg.start =>
           p.on = (t + 1 <= cfg.end) /\ p.out = s.out \union s.buf /\ p.buf = {}
      /\ ~s.on /\ ~(t + 1 >= cfg.start) => SameTrace(s, p)
      /\ p.said = s.said /\ p.ending = s.ending
  BY <1>1, PrintAllFacts
<1> HIDE DEF p
<1>3. Due(p) = s.out \union s.buf
  BY <1>2 DEF TracedTo, Due
<1>4. \A m \in p.said : 3 <= m[1] /\ m[1] < t + 1
  <2>1. \A m \in s.said : m[1] \in Nat
    BY DEF HarnessStates, Messages
  <2> QED
    BY <1>2, <2>1 DEF TracedTo
<1>5. CASE s.on \/ t + 1 >= cfg.start
  <2>1. t + 1 >= cfg.start
    BY <1>1, <1>5 DEF TracedTo, InWindow
  <2>2. p.on <=> InWindow(t + 1)
    BY <1>1, <1>2, <2>1 DEF InWindow
  <2>3. p.buf = {} /\ p.out = Due(p)
    BY <1>2, <1>3, <1>5
  <2> QED
    BY <1>4, <2>2, <2>3 DEF WindowAt, p
<1>6. CASE ~s.on /\ ~(t + 1 >= cfg.start)
  <2>1. p.on = s.on /\ p.buf = {} /\ p.out = Due(p)
    BY <1>2, <1>3, <1>6 DEF TracedTo, SameTrace, Shown
  <2>2. p.on <=> InWindow(t + 1)
    BY <1>1, <1>6, <2>1 DEF InWindow
  <2> QED
    BY <1>4, <2>1, <2>2 DEF WindowAt, p
<1> QED
  BY <1>5, <1>6

-----------------------------------------------------------------------------
(* One turn of the loop: the comparison. *)

\* the run within the tick t: an error under comparison stops it, and nothing else
\* fails it
Judging(s, t) ==
  /\ s.failAt \in {0, t} /\ s.quitAt \in {0, t}
  /\ s.failAt = 0 /\ s.quitAt = 0 => s.diff = cfg.diff
  /\ s.ending = {} => s.diff = cfg.diff
  /\ ~s.forced => s.failAt = 0 /\ s.quitAt = 0 /\ s.ending = {}
  /\ s.failAt # 0 => s.forced /\ (s.failed \/ s.quitAt = t)
  /\ s.quitAt # 0 => ~s.diff
  /\ s.diff => cfg.diff
  /\ s.forced /\ s.failed => s.failAt # 0

\* the comparison after k commits of the tick t
Compared(s, k, t) ==
  /\ s \in HarnessStates
  /\ Judging(s, t)
  /\ s.diff => core.pos = s.ref + Len(core.flight) - k
  /\ s.cycles = h.cycles + 1
  /\ core.idle > STUCK_LIMIT => s.forced

\* the harness after k commits of the tick t
Within(s, k, t) == Compared(s, k, t) /\ TracedTo(s, t, k)

\* A commit keeps all of this.
LEMMA CommitKeeps ==
  ASSUME NEW s, NEW t \in Nat, t >= 2, NEW k \in 1 .. Len(core.flight), cfg \in RunConfigs,
         core \in CoreStates, InFlight, Within(s, k - 1, t)
  PROVE  Within(ArchCommitInst(s, core.flight[k], t, k), k, t)
<1> DEFINE inst == core.flight[k]
           L == Len(core.flight)
           m == Emit(s, <<t, k>>)
           counted == [Witnessed(m, inst, t, k) EXCEPT !.insts = @ + 1]
           u == ArchCommitInst(s, inst, t, k)
           e == RefExec(counted)
           wrong == inst.err # "none" /\ s.failAt = 0 /\ s.quitAt = 0 /\ cfg.diff
<1>1. inst \in Records /\ L \in Nat /\ k \in 1 .. L /\ core.pos \in Nat /\ k \in Nat
  BY DEF CoreStates
<1>2. ReadInstMeta(inst) = inst
  BY DEF InFlight, Consecutive, ReadInstMeta
<1>3. inst.pos = core.pos - L + k - 1 /\ (inst.err = "npc" => inst.kind = "branch")
  BY DEF InFlight, Consecutive
<1>4. /\ m \in HarnessStates /\ SameRun(s, m) /\ m.ending = s.ending
      /\ TracedTo(m, t, k)
  <2>1. <<t, k>> \in Messages /\ s \in HarnessStates /\ TracedTo(s, t, k - 1)
    BY <1>1 DEF Messages, Within, Compared
  <2>2. k - 1 \in Int /\ k - 1 < k
    BY <1>1
  <2>3. TracedTo(m, t, k)
    BY <1>1, <2>1, <2>2, EmitTraced
  <2> HIDE DEF Messages
  <2>4. m \in HarnessStates /\ SameRun(s, m) /\ m.ending = s.ending
    BY <2>1, EmitFacts
  <2> QED
    BY <2>3, <2>4
<1> HIDE DEF m
<1> DEFINE w == Witnessed(m, inst, t, k)
<1>5. /\ w \in HarnessStates /\ Shown(m, w)
      /\ EndsTrace(inst) => w.ending = m.ending \union {<<t, k>>}
      /\ ~EndsTrace(inst) => w.ending = m.ending
      /\ w.forced = s.forced /\ w.failed = s.failed /\ w.diff = s.diff /\ w.cycles = s.cycles
      /\ w.ref = s.ref
      /\ w.failAt = (IF wrong THEN t ELSE s.failAt)
      /\ w.quitAt = (IF inst.kind = "exit" /\ s.quitAt = 0 THEN t ELSE s.quitAt)
  <2>1. /\ m.forced = s.forced /\ m.failed = s.failed /\ m.diff = s.diff /\ m.ref = s.ref
        /\ m.failAt = s.failAt /\ m.quitAt = s.quitAt /\ m.cycles = s.cycles
    BY <1>4 DEF SameRun
  <2>2. m \in HarnessStates
    BY <1>4
  <2>3. Noted(m, w, inst, t, k)
    <3> HIDE DEF inst
    <3> QED
      BY <1>1, <2>2, WitnessedFacts
  <2> HIDE DEF w, inst
  <2>4. /\ EndsTrace(inst) => w.ending = m.ending \union {<<t, k>>}
        /\ ~EndsTrace(inst) => w.ending = m.ending
    BY <2>3 DEF Noted
  <2>5. /\ w \in HarnessStates /\ Shown(m, w)
        /\ w.forced = s.forced /\ w.failed = s.failed /\ w.diff = s.diff
        /\ w.cycles = s.cycles /\ w.ref = s.ref
        /\ w.failAt = (IF wrong THEN t ELSE s.failAt)
        /\ w.quitAt = (IF inst.kind = "exit" /\ s.quitAt = 0 THEN t ELSE s.quitAt)
    BY <2>1, <2>3 DEF Noted, inst
  <2> QED
    BY <2>4, <2>5
<1> HIDE DEF w
<1>6. /\ counted \in HarnessStates /\ SameTrace(w, counted)
      /\ counted.forced = w.forced /\ counted.failed = w.failed /\ counted.diff = w.diff
      /\ counted.cycles = w.cycles /\ counted.ref = w.ref /\ counted.failAt = w.failAt
      /\ counted.quitAt = w.quitAt
  <2>1. counted = [w EXCEPT !.insts = w.insts + 1]
    BY Zenon DEF w
  <2>2. w \in HarnessStates
    BY <1>5
  <2> HIDE DEF counted
  <2> QED
    BY ONLY <2>1, <2>2, CountedFacts
<1> HIDE DEF counted
<1>7. /\ e \in HarnessStates /\ SameTrace(counted, e)
      /\ e.forced = s.forced /\ e.failed = s.failed /\ e.diff = s.diff /\ e.cycles = s.cycles
      /\ e.failAt = (IF wrong THEN t ELSE s.failAt)
      /\ e.quitAt = (IF inst.kind = "exit" /\ s.quitAt = 0 THEN t ELSE s.quitAt)
      /\ e.ref = IF s.diff THEN s.ref + 1 ELSE s.ref
  BY <1>5, <1>6, RefExecFacts
<1>8. /\ EndsTrace(inst) => Ended(m, e, <<t, k>>)
      /\ ~EndsTrace(inst) => SameTrace(m, e)
  BY <1>5, <1>6, <1>7 DEF Ended, SameTrace, Shown
<1>9. /\ s \in HarnessStates /\ Judging(s, t)
      /\ s.diff => core.pos = s.ref + L - (k - 1)
      /\ s.cycles = h.cycles + 1
      /\ core.idle > STUCK_LIMIT => s.forced
  BY DEF Within, Compared
<1>10. /\ s.ref \in Nat /\ s.failAt \in Nat /\ s.quitAt \in Nat
       /\ s.forced \in BOOLEAN /\ s.failed \in BOOLEAN /\ s.diff \in BOOLEAN
       /\ cfg.diff \in BOOLEAN
  BY <1>9 DEF HarnessStates, RunConfigs
<1>11. u = CASE inst.kind = "exit" -> Finish(e, FALSE, t)
             [] inst.kind # "exit" /\ counted.diff /\ DiffersFromRef(counted, inst, inst) ->
                  Finish(e, TRUE, t)
             [] OTHER -> e
  BY <1>2 DEF ArchCommitInst, counted, m
<1> HIDE DEF u, e
<1>12. CASE inst.kind = "exit"
  <2>1. u = Finish(e, FALSE, t)
    BY <1>11, <1>12
  <2>2. /\ u \in HarnessStates /\ u.ending # {}
        /\ u.forced /\ u.failed = FALSE /\ u.diff = FALSE /\ u.cycles = s.cycles
        /\ u.failAt = e.failAt /\ u.quitAt = e.quitAt
    <3>1. e \in HarnessStates /\ e.cycles = s.cycles
      BY <1>7
    <3>2. /\ u \in HarnessStates /\ u.ending = e.ending
          /\ u.forced /\ u.failed = FALSE /\ u.diff = FALSE /\ u.cycles = e.cycles
          /\ u.failAt = e.failAt /\ u.quitAt = e.quitAt
      BY ONLY <2>1, <3>1, cfg \in RunConfigs, t \in Nat, FinishFacts DEF Finished
    <3>3. e.ending # {}
      BY <1>8, <1>12 DEF EndsTrace, Ended
    <3> QED
      BY <3>1, <3>2, <3>3
  <2>3. TracedTo(u, t, k)
    <3>1. Ended(m, e, <<t, k>>)
      BY <1>8, <1>12 DEF EndsTrace
    <3> QED
      BY <1>1, <1>4, <1>7, <2>1, <3>1, FinishTraced
  <2>4. u.failAt \in {0, t} /\ u.quitAt = t
    BY <1>7, <1>9, <1>12, <2>2 DEF Judging
  <2>5. Judging(u, t)
    BY <2>2, <2>4 DEF Judging
  <2> QED
    BY <1>9, <2>2, <2>3, <2>5 DEF Within, Compared, u
<1>13. CASE inst.kind # "exit" /\ counted.diff /\ DiffersFromRef(counted, inst, inst)
  <2>1. u = Finish(e, TRUE, t)
    BY <1>11, <1>13
  <2>2. s.diff
    BY <1>5, <1>6, <1>13
  <2>3. inst.pos = counted.ref
    <3>1. counted.ref = s.ref
      BY <1>5, <1>6
    <3>2. core.pos = s.ref + L - (k - 1)
      BY <1>9, <2>2
    <3> QED
      BY <1>1, <1>3, <1>10, <3>1, <3>2
  <2>4. inst.err # "none"
    BY <1>13, <2>3 DEF DiffersFromRef
  <2>5. s.quitAt = 0 /\ cfg.diff
    BY <1>9, <2>2 DEF Judging
  <2>6. Ended(m, e, <<t, k>>)
    BY <1>8, <2>4, <2>5 DEF EndsTrace
  <2>7. /\ u \in HarnessStates /\ u.ending # {}
        /\ u.forced /\ u.failed = TRUE /\ u.diff = FALSE /\ u.cycles = s.cycles
        /\ u.failAt = e.failAt /\ u.quitAt = e.quitAt
    <3>1. e \in HarnessStates /\ e.cycles = s.cycles
      BY <1>7
    <3>2. /\ u \in HarnessStates /\ u.ending = e.ending
          /\ u.forced /\ u.failed = TRUE /\ u.diff = FALSE /\ u.cycles = e.cycles
          /\ u.failAt = e.failAt /\ u.quitAt = e.quitAt
      BY ONLY <2>1, <3>1, cfg \in RunConfigs, t \in Nat, FinishFacts DEF Finished
    <3>3. e.ending # {}
      BY <2>6 DEF Ended
    <3> QED
      BY <3>1, <3>2, <3>3
  <2>8. TracedTo(u, t, k)
    BY <1>1, <1>4, <1>7, <2>1, <2>6, FinishTraced
  <2>9. u.failAt = t /\ u.quitAt = 0
    BY <1>7, <1>9, <1>13, <2>4, <2>5, <2>7 DEF Judging
  <2>10. Judging(u, t)
    BY <2>7, <2>9 DEF Judging
  <2> QED
    BY <1>9, <2>7, <2>8, <2>10 DEF Within, Compared, u
<1>14. CASE inst.kind # "exit" /\ ~(counted.diff /\ DiffersFromRef(counted, inst, inst))
  <2>1. u = e
    BY <1>11, <1>14
  <2>2. s.diff => inst.err = "none"
    <3>1. SUFFICES ASSUME s.diff, inst.err # "none" PROVE FALSE
      OBVIOUS
    <3>2. counted.diff
      BY <1>5, <1>6, <3>1
    <3>3. inst.err \in {"pc", "npc", "val"}
      BY <1>1, <3>1 DEF Records, Errors
    <3>4. DiffersFromRef(counted, inst, inst)
      BY <1>3, <3>3 DEF DiffersFromRef
    <3> QED
      BY <1>14, <3>2, <3>4
  <2>3. ~wrong
    BY <1>9, <2>2 DEF Judging
  <2>4. u.failAt = s.failAt /\ u.quitAt = s.quitAt
    BY <1>7, <1>14, <2>1, <2>3
  <2>5. EndsTrace(inst) => s.ending # {}
    BY <1>9, <1>14, <2>2 DEF EndsTrace, Judging
  <2>6. TracedTo(u, t, k) /\ (u.ending = {} <=> s.ending = {})
    <3>1. CASE EndsTrace(inst)
      <4>1. m.ending # {} /\ Ended(m, e, <<t, k>>)
        BY <1>4, <1>8, <2>5, <3>1
      <4>2. TracedTo(e, t, k)
        BY <1>1, <1>4, <4>1, EndedAgain
      <4> QED
        BY <1>4, <2>1, <4>1, <4>2 DEF Ended
    <3>2. CASE ~EndsTrace(inst)
      <4>1. SameTrace(m, e)
        BY <1>8, <3>2
      <4>2. TracedTo(e, t, k)
        BY <1>4, <4>1, TraceKept
      <4> QED
        BY <1>4, <2>1, <4>1, <4>2 DEF SameTrace
    <3> QED
      BY <3>1, <3>2
  <2>7. Judging(u, t)
    BY <1>7, <1>9, <2>1, <2>4, <2>6 DEF Judging
  <2>8. u.diff => core.pos = u.ref + L - k
    <3>1. ASSUME u.diff PROVE core.pos = u.ref + L - k
      <4>1. s.diff /\ u.ref = s.ref + 1
        BY <1>7, <2>1, <3>1
      <4>2. core.pos = s.ref + L - (k - 1)
        BY <1>9, <4>1
      <4>3. PICK r \in Nat : r = s.ref
        BY <1>10
      <4>4. r + L - (k - 1) = (r + 1) + L - k
        <5> HIDE DEF L
        <5>1. r \in Nat /\ L \in Nat /\ k \in Int
          BY <1>1, <4>3
        <5> QED
          BY ONLY <5>1
      <4> QED
        BY <4>1, <4>2, <4>3, <4>4
    <3> QED
      BY <3>1
  <2> QED
    BY <1>7, <1>9, <2>1, <2>6, <2>7, <2>8 DEF Within, Compared, u
<1> QED
  BY <1>12, <1>13, <1>14

\* Any number of commits of one cycle keep it.
LEMMA CommittedKeeps ==
  ASSUME NEW s, NEW t \in Nat, t >= 2, NEW n \in 0 .. Len(core.flight), cfg \in RunConfigs,
         core \in CoreStates, InFlight, Within(s, 0, t)
  PROVE  Within(Committed(s, n, t), n, t)
<1> DEFINE Commits(f, m) ==
             /\ f = [k \in 0 .. m |-> f[k]]
             /\ \A k \in 0 .. m :
                  f[k] = IF k = 0 THEN s ELSE ArchCommitInst(f[k - 1], core.flight[k], t, k)
           at == CHOOSE at : at = [k \in 0 .. n |-> IF k = 0 THEN s
                                     ELSE ArchCommitInst(at[k - 1], core.flight[k], t, k)]
           T == {m \in Nat : ~ \E f : Commits(f, m)}
           U == {k \in 0 .. n : ~Within(at[k], k, t)}
<1>0. n \in Nat /\ Len(core.flight) \in Nat
  BY DEF CoreStates
<1>1. T = {}
  <2> SUFFICES ASSUME T # {} PROVE FALSE
    OBVIOUS
  <2> HIDE DEF T
  <2>1. PICK m \in T : \A k \in T : m <= k
    <3>1. T \in SUBSET Nat
      BY DEF T
    <3> QED
      BY <3>1, LeastElement
  <2>2. m \in Nat /\ ~ \E f : Commits(f, m)
    BY DEF T
  <2>3. CASE m = 0
    <3>1. Commits([k \in 0 .. 0 |-> s], 0)
      OBVIOUS
    <3> QED
      BY <2>2, <2>3, <3>1
  <2>4. CASE m # 0
    <3>1. m - 1 \in Nat /\ ~(m <= m - 1)
      BY <2>2, <2>4
    <3>2. PICK f : Commits(f, m - 1)
      BY <2>1, <3>1 DEF T
    <3> DEFINE g == [k \in 0 .. m |-> IF k = m THEN ArchCommitInst(f[m - 1], core.flight[m], t, m)
                                      ELSE f[k]]
    <3>3. ASSUME NEW k \in 0 .. m
          PROVE  g[k] = IF k = 0 THEN s ELSE ArchCommitInst(g[k - 1], core.flight[k], t, k)
      <4>1. CASE k = m
        <5>1. g[m - 1] = f[m - 1]
          BY <2>2, <2>4
        <5> QED
          BY <2>2, <2>4, <4>1, <5>1
      <4>2. CASE k # m
        <5>1. k \in 0 .. m - 1 /\ g[k] = f[k]
          BY <2>2, <4>2
        <5>2. k # 0 => g[k - 1] = f[k - 1]
          BY <2>2, <4>2
        <5> HIDE DEF g
        <5> QED
          BY <3>2, <5>1, <5>2
      <4> QED
        BY <4>1, <4>2
    <3>4. Commits(g, m)
      BY <3>3
    <3> QED
      BY <2>2, <3>4
  <2> QED
    BY <2>3, <2>4
<1>2. PICK f : Commits(f, n)
  BY <1>0, <1>1
<1>3. f = [k \in 0 .. n |-> IF k = 0 THEN s ELSE ArchCommitInst(f[k - 1], core.flight[k], t, k)]
  BY <1>2
<1>4. at = [k \in 0 .. n |-> IF k = 0 THEN s ELSE ArchCommitInst(at[k - 1], core.flight[k], t, k)]
  BY <1>3
<1>5. Committed(s, n, t) = at[n]
  BY DEF Committed
<1> HIDE DEF at
<1>6. U = {}
  <2> SUFFICES ASSUME U # {} PROVE FALSE
    OBVIOUS
  <2> HIDE DEF U
  <2>1. PICK k \in U : \A j \in U : k <= j
    <3>1. U \in SUBSET Nat
      BY <1>0 DEF U
    <3> QED
      BY <3>1, LeastElement
  <2>2. k \in 0 .. n /\ ~Within(at[k], k, t)
    BY DEF U
  <2>3. at[k] = IF k = 0 THEN s ELSE ArchCommitInst(at[k - 1], core.flight[k], t, k)
    BY <1>4, <2>2
  <2>4. k # 0
    BY <2>2, <2>3
  <2>5. k - 1 \in 0 .. n /\ ~(k <= k - 1) /\ k \in 1 .. Len(core.flight)
    BY <1>0, <2>2, <2>4
  <2>6. Within(at[k - 1], k - 1, t)
    BY <2>1, <2>5 DEF U
  <2>7. at[k] = ArchCommitInst(at[k - 1], core.flight[k], t, k)
    BY <2>3, <2>4
  <2>8. Within(ArchCommitInst(at[k - 1], core.flight[k], t, k), k, t)
    BY <2>5, <2>6, CommitKeeps
  <2> QED
    BY <2>2, <2>7, <2>8
<1>7. n \in 0 .. n
  BY <1>0
<1> QED
  BY <1>5, <1>6, <1>7

\* Going on means that nothing has stopped the run.
LEMMA GoingFacts ==
  ASSUME Inv, Going
  PROVE  /\ phase = "run" /\ cfg \in RunConfigs /\ ~h.forced
         /\ main_time \in Nat /\ main_time >= 2
         /\ h \in HarnessStates /\ core \in CoreStates
         /\ WindowAt(h, main_time) /\ Judged(h)
         /\ h.failAt = 0 /\ h.quitAt = 0 /\ h.diff = cfg.diff /\ h.ending = {}
         /\ core.idle <= STUCK_LIMIT + 1
<1>1. phase = "run" /\ ~h.forced
  BY DEF Going, ForceExit
<1>2. cfg \in RunConfigs /\ main_time >= 2
  BY <1>1 DEF Inv, Configured
<1>3. WindowAt(h, main_time) /\ Judged(h)
  BY <1>1, <1>2 DEF Inv, WindowKept, JudgedRight
<1> QED
  BY <1>1, <1>2, <1>3 DEF Inv, Typed, Judged, IdleBounded

\* What an instruction or a trap adds at the tick that ends a cycle.
Passed(n, ending) == IF ending = "trap" THEN n + 1 ELSE n

\* The calls of one edge.
LEMMA CalledBackKeeps ==
  ASSUME Inv, Going, NEW n \in 0 .. Len(core.flight), NEW ending
  PROVE  LET u == CalledBack(n, ending, main_time)
         IN Compared(u, Passed(n, ending), main_time) /\ TracedTo(u, main_time, n + 2)
<1> DEFINE t == main_time
           checked == IF core.idle > STUCK_LIMIT THEN CpuStucked(h, t) ELSE h
           first == Emit(CycleStep(checked), <<t, 0>>)
           s == Committed(first, n, t)
           passed == IF ending = "trap" THEN ArchCommitExcept(s, <<t, n + 1>>) ELSE s
<1>1. /\ cfg \in RunConfigs /\ ~h.forced /\ t \in Nat /\ t >= 2
      /\ h \in HarnessStates /\ core \in CoreStates /\ WindowAt(h, t)
      /\ h.failAt = 0 /\ h.quitAt = 0 /\ h.diff = cfg.diff /\ h.ending = {}
  BY GoingFacts
<1>2. /\ n \in Nat /\ \A q \in Nat : <<t, q>> \in Messages
  BY <1>1 DEF CoreStates, Messages
<1> HIDE DEF Messages
<1>3. /\ checked \in HarnessStates /\ SameTrace(h, checked)
      /\ checked.diff = h.diff /\ checked.ref = h.ref /\ checked.cycles = h.cycles
      /\ checked.quitAt = 0
      /\ core.idle > STUCK_LIMIT => checked.forced /\ checked.failed /\ checked.failAt = t
      /\ ~(core.idle > STUCK_LIMIT) => ~checked.forced /\ checked.failAt = 0
  <2>1. CASE core.idle > STUCK_LIMIT
    <3>1. checked = CpuStucked(h, t)
      BY <2>1
    <3> HIDE DEF checked
    <3> QED
      BY <1>1, <2>1, <3>1, StuckFacts
  <2>2. CASE ~(core.idle > STUCK_LIMIT)
    <3>1. checked = h
      BY <2>2
    <3> HIDE DEF checked
    <3> QED
      BY <1>1, <2>2, <3>1 DEF SameTrace, Shown
  <2> QED
    BY <2>1, <2>2
<1> HIDE DEF checked
<1> DEFINE c == CycleStep(checked)
<1>4. /\ c \in HarnessStates /\ SameTrace(checked, c)
      /\ c.forced = checked.forced /\ c.failed = checked.failed /\ c.diff = checked.diff
      /\ c.ref = checked.ref /\ c.failAt = checked.failAt /\ c.quitAt = checked.quitAt
      /\ c.cycles = checked.cycles + 1
  BY <1>3, CycleFacts
<1> HIDE DEF c
<1>5. TracedTo(c, t, -1) /\ c.ending = {}
  <2>1. TracedTo(h, t, -1)
    BY <1>1, TurnTraced
  <2>2. SameTrace(h, c) /\ c.ending = {}
    BY <1>1, <1>3, <1>4 DEF SameTrace, Shown
  <2> QED
    BY <2>1, <2>2, TraceKept
<1>6. first \in HarnessStates /\ SameRun(c, first) /\ first.ending = {} /\ TracedTo(first, t, 0)
  <2>1. first = Emit(c, <<t, 0>>)
    BY DEF c
  <2> HIDE DEF first
  <2>2. <<t, 0>> \in Messages
    BY <1>2
  <2>3. first \in HarnessStates /\ SameRun(c, first) /\ first.ending = {}
    BY <1>4, <1>5, <2>1, <2>2, EmitFacts
  <2>4. TracedTo(first, t, 0)
    BY <1>1, <1>4, <1>5, <2>1, EmitTraced
  <2> QED
    BY <2>3, <2>4
<1> HIDE DEF first
<1>7. Within(first, 0, t)
  <2>1. Judging(first, t)
    <3>1. cfg.diff \in BOOLEAN
      BY <1>1 DEF RunConfigs
    <3> QED
      BY <1>1, <1>3, <1>4, <1>6, <3>1 DEF Judging, SameRun
  <2>2. first.diff => core.pos = first.ref + Len(core.flight) - 0
    <3>1. first.diff = h.diff /\ first.ref = h.ref
      BY <1>3, <1>4, <1>6 DEF SameRun
    <3>2. h.diff => core.pos = h.ref + Len(core.flight)
      BY DEF Inv, InStep
    <3>3. h.ref + Len(core.flight) \in Int
      BY <1>1 DEF HarnessStates, CoreStates
    <3>4. PICK x \in Int : x = h.ref + Len(core.flight)
      BY <3>3
    <3>5. x - 0 = x
      BY <3>4
    <3> QED
      BY <3>1, <3>2, <3>4, <3>5
  <2>3. first.cycles = h.cycles + 1 /\ (core.idle > STUCK_LIMIT => first.forced)
    BY <1>3, <1>4, <1>6 DEF SameRun
  <2> QED
    BY <1>6, <2>1, <2>2, <2>3 DEF Within, Compared
<1>8. Within(s, n, t)
  BY <1>1, <1>7, CommittedKeeps DEF Inv
<1> HIDE DEF s
<1>9. \E p \in Nat : /\ Compared(passed, Passed(n, ending), t) /\ TracedTo(passed, t, p)
                     /\ p < n + 2
  <2>1. CASE ending # "trap"
    <3>1. n < n + 2
      BY <1>2
    <3> QED
      BY <1>2, <1>8, <2>1, <3>1 DEF Passed, Within
  <2>2. CASE ending = "trap"
    <3> DEFINE e == Emit(s, <<t, n + 1>>)
               u == RefExec(e)
    <3>1. n + 1 \in Nat /\ n < n + 1 /\ n + 1 < n + 2
      BY <1>2
    <3>2. s \in HarnessStates /\ TracedTo(s, t, n)
      BY <1>8 DEF Within, Compared
    <3>3. e \in HarnessStates /\ SameRun(s, e) /\ e.ending = s.ending
      BY <1>2, <3>1, <3>2, EmitFacts
    <3>4. TracedTo(e, t, n + 1)
      BY <1>1, <1>2, <3>1, <3>2, EmitTraced
    <3> HIDE DEF e
    <3>5. /\ u \in HarnessStates /\ SameTrace(e, u)
          /\ u.forced = s.forced /\ u.failed = s.failed /\ u.diff = s.diff
          /\ u.cycles = s.cycles /\ u.failAt = s.failAt /\ u.quitAt = s.quitAt
          /\ u.ref = IF s.diff THEN s.ref + 1 ELSE s.ref
      BY <3>3, RefExecFacts DEF SameRun
    <3>6. passed = u
      BY <2>2 DEF ArchCommitExcept, e
    <3> HIDE DEF u, passed
    <3>7. TracedTo(u, t, n + 1)
      BY <3>4, <3>5, TraceKept
    <3>8. u.ending = s.ending
      BY <3>3, <3>5 DEF SameTrace
    <3>9. Judging(u, t)
      BY <1>8, <3>5, <3>8 DEF Within, Compared, Judging
    <3>10. ASSUME u.diff PROVE core.pos = u.ref + Len(core.flight) - (n + 1)
      <4>1. core.pos = s.ref + Len(core.flight) - n /\ u.ref = s.ref + 1
        BY <1>8, <3>5, <3>10 DEF Within, Compared
      <4>2. PICK r \in Nat, l \in Nat : r = s.ref /\ l = Len(core.flight)
        BY <1>1, <3>2 DEF HarnessStates, CoreStates
      <4>3. r + l - n = (r + 1) + l - (n + 1)
        BY ONLY r \in Nat, l \in Nat, n \in Nat, <1>2
      <4> QED
        BY <4>1, <4>2, <4>3
    <3>11. Compared(u, n + 1, t)
      BY <1>8, <3>5, <3>9, <3>10 DEF Within, Compared
    <3> QED
      BY <2>2, <3>1, <3>6, <3>7, <3>11 DEF Passed
  <2> QED
    BY <2>1, <2>2
<1>10. CalledBack(n, ending, t) = Emit(passed, <<t, n + 2>>)
  BY DEF CalledBack, s, first, c, checked
<1> HIDE DEF passed
<1> DEFINE k == Passed(n, ending)
           v == Emit(passed, <<t, n + 2>>)
<1> HIDE DEF k
<1>11. PICK p \in Nat : Compared(passed, k, t) /\ TracedTo(passed, t, p) /\ p < n + 2
  BY <1>9 DEF k
<1>12. passed \in HarnessStates /\ n + 2 \in Nat
  BY <1>2, <1>11 DEF Compared
<1>13. TracedTo(v, t, n + 2)
  BY <1>1, <1>11, <1>12, EmitTraced
<1>14. v \in HarnessStates /\ SameRun(passed, v) /\ v.ending = passed.ending
  BY <1>2, <1>12, EmitFacts
<1> HIDE DEF v
<1>15. Compared(v, k, t)
  BY <1>11, <1>14 DEF Compared, Judging, SameRun
<1> QED
  BY <1>10, <1>13, <1>15 DEF k, v

\* The harness after one turn: the window for the next tick, the run judged, the
\* reference where the core is after k instructions.
Turned(s, k, t) ==
  /\ s \in HarnessStates /\ WindowAt(s, t + 1) /\ Judged(s)
  /\ s.diff => core.pos = s.ref + Len(core.flight) - k
  /\ core.idle > STUCK_LIMIT => s.forced

\* The turn of an edge with its calls.
LEMMA ActiveTurned ==
  ASSUME Inv, Going, NEW n \in 0 .. Len(core.flight), NEW ending,
         NEW u, u = PrintAll(CalledBack(n, ending, main_time), main_time + 1)
  PROVE  Turned(u, Passed(n, ending), main_time) /\ u.cycles = h.cycles + 1
<1> DEFINE s == CalledBack(n, ending, main_time)
           k == Passed(n, ending)
<1>1. cfg \in RunConfigs /\ main_time \in Nat /\ main_time >= 2 /\ main_time + 1 \in Nat
  BY GoingFacts
<1>2. Compared(s, k, main_time) /\ TracedTo(s, main_time, n + 2) /\ n + 2 \in Nat
  <2>1. n \in Nat
    BY GoingFacts DEF CoreStates
  <2> QED
    BY <2>1, CalledBackKeeps
<1> HIDE DEF s, k
<1>3. u \in HarnessStates /\ SameRun(s, u) /\ u.ending = s.ending
  BY <1>1, <1>2, PrintAllFacts DEF Compared, s
<1>4. WindowAt(u, main_time + 1)
  BY <1>1, <1>2, PrintLast DEF Compared, s
<1>5. Judged(u)
  <2>1. Judged(s)
    BY <1>2 DEF Compared, Judging, Judged
  <2> QED
    BY <1>3, <2>1 DEF SameRun, Judged
<1>6. /\ u.diff => core.pos = u.ref + Len(core.flight) - k
      /\ core.idle > STUCK_LIMIT => u.forced
      /\ u.cycles = h.cycles + 1
  BY <1>2, <1>3 DEF SameRun, Compared
<1> QED
  BY <1>3, <1>4, <1>5, <1>6 DEF Turned, k

\* A turn without calls.
LEMMA QuietTurned ==
  ASSUME Inv, Going, NEW s \in HarnessStates, SameTrace(h, s),
         s.forced = h.forced, s.failed = h.failed, s.diff = h.diff, s.ref = h.ref,
         s.failAt = h.failAt, s.quitAt = h.quitAt,
         NEW u, u = PrintAll(Emit(s, <<main_time, 0>>), main_time + 1)
  PROVE  /\ u \in HarnessStates /\ WindowAt(u, main_time + 1) /\ Judged(u)
         /\ u.forced = h.forced /\ u.diff = h.diff /\ u.ref = h.ref /\ u.cycles = s.cycles
<1> DEFINE e == Emit(s, <<main_time, 0>>)
<1>1. /\ cfg \in RunConfigs /\ main_time \in Nat /\ main_time >= 2 /\ main_time + 1 \in Nat
      /\ WindowAt(h, main_time) /\ Judged(h) /\ h.ending = {} /\ h \in HarnessStates
  BY GoingFacts
<1>2. TracedTo(s, main_time, -1)
  BY <1>1, TurnTraced, TraceKept
<1>3. e \in HarnessStates /\ SameRun(s, e) /\ e.ending = {} /\ TracedTo(e, main_time, 0)
  <2>1. <<main_time, 0>> \in Messages
    BY <1>1 DEF Messages
  <2>2. TracedTo(e, main_time, 0)
    BY <1>1, <1>2, EmitTraced
  <2> HIDE DEF Messages
  <2>3. e \in HarnessStates /\ SameRun(s, e) /\ e.ending = s.ending
    BY <2>1, EmitFacts
  <2> QED
    BY <1>1, <2>2, <2>3 DEF SameTrace
<1> HIDE DEF e
<1>4. u = PrintAll(e, main_time + 1)
  BY DEF e
<1>5. /\ u \in HarnessStates /\ SameRun(e, u) /\ u.ending = {}
      /\ WindowAt(u, main_time + 1)
  BY <1>1, <1>3, <1>4, PrintAllFacts, PrintLast
<1>6. Judged(u)
  BY <1>1, <1>3, <1>5 DEF Judged, SameRun
<1> QED
  BY <1>3, <1>5, <1>6 DEF SameRun

-----------------------------------------------------------------------------
(* The core and the records of its instructions. *)

\* A slot is one of the ring, and numbers less than a turn apart have different ones.
LEMMA SlotFacts ==
  /\ \A a \in Nat : Slot(a) \in 0 .. RING - 1
  /\ \A a \in Nat, b \in Nat : a < b /\ b - a < RING => Slot(a) # Slot(b)
<1>1. RING \in Nat /\ RING > 0
  BY SizesAssumption
<1>2. ASSUME NEW a \in Nat
      PROVE  /\ Slot(a) \in 0 .. RING - 1 /\ a \div RING \in Int
             /\ a = RING * (a \div RING) + Slot(a)
  BY <1>1 DEF Slot
<1>3. ASSUME NEW a \in Nat, NEW b \in Nat, a < b, b - a < RING, Slot(a) = Slot(b) PROVE FALSE
  <2>1. PICK p \in Int, q \in Int, r \in Int, m \in Int :
          p = a \div RING /\ q = b \div RING /\ r = Slot(a) /\ m = RING
    BY <1>1, <1>2
  <2>2. a = m * p + r /\ b = m * q + r
    BY <1>2, <1>3, <2>1
  <2>3. b - a = m * (q - p) /\ m > 0 /\ b - a < m /\ b - a > 0
    BY <1>1, <1>3, <2>1, <2>2
  <2>4. PICK d \in Int : d = q - p
    BY <2>1
  <2>5. m * d < m /\ m * d > 0
    BY <2>3, <2>4
  <2>6. d <= 0 => m * d <= 0
    BY <2>3, <2>4
  <2>7. d >= 1 => m * d >= m
    BY <2>3, <2>4
  <2> QED
    BY <2>1, <2>4, <2>5, <2>6, <2>7
<1> QED
  BY <1>2, <1>3

\* The rest of what is in flight.
LEMMA RestFacts ==
  ASSUME core \in CoreStates, NEW n \in 0 .. Len(core.flight),
         NEW rest, rest = SubSeq(core.flight, n + 1, Len(core.flight))
  PROVE  /\ rest \in Seq(Records) /\ Len(rest) = Len(core.flight) - n
         /\ \A i \in 1 .. Len(core.flight) - n : rest[i] = core.flight[n + i]
         /\ rest # << >> => n + 1 \in 1 .. Len(core.flight) /\ Head(rest) = core.flight[n + 1]
<1> DEFINE L == Len(core.flight)
<1>1. core.flight \in Seq(Records) /\ L \in Nat /\ n \in Nat /\ n <= L
  BY DEF CoreStates
<1>2. \A i \in n + 1 .. L : core.flight[i] \in Records
  BY <1>1
<1>3. /\ rest \in Seq(Records)
      /\ Len(rest) = (IF n + 1 <= L THEN L - (n + 1) + 1 ELSE 0)
      /\ \A i \in 1 .. L - (n + 1) + 1 : rest[i] = core.flight[(n + 1) + i - 1]
  BY <1>1, <1>2, SubSeqProperties
<1>4. Len(rest) = L - n
  BY <1>1, <1>3
<1>5. ASSUME NEW i \in 1 .. L - n PROVE rest[i] = core.flight[n + i]
  <2>1. i \in 1 .. L - (n + 1) + 1 /\ (n + 1) + i - 1 = n + i
    BY <1>1
  <2> QED
    BY <1>3, <2>1
<1>6. ASSUME rest # << >> PROVE n + 1 \in 1 .. L /\ Head(rest) = core.flight[n + 1]
  <2>1. Len(rest) # 0
    BY <1>3, <1>6, EmptySeq
  <2>2. n + 1 \in 1 .. L /\ 1 \in 1 .. L - n
    BY <1>1, <1>4, <2>1
  <2>3. Head(rest) = rest[1]
    BY <1>3, <1>6
  <2> QED
    BY <1>5, <2>2, <2>3
<1> QED
  BY <1>3, <1>4, <1>5, <1>6

\* Retiring keeps what is in flight consecutive, and moves its head by what passed.
LEMMA RetiredKeeps ==
  ASSUME core \in CoreStates, InFlight, NEW n \in 0 .. Len(core.flight), NEW ending \in Ends(n)
  PROVE  LET c == Retired(n, ending) IN
         /\ c \in CoreStates /\ Consecutive(c, ring) /\ c.seq = core.seq
         /\ c.pos - Len(c.flight) = core.pos - Len(core.flight) + Passed(n, ending)
         /\ c.idle \in {core.idle + 1, 1}
         /\ ending = "none" => c.pos = core.pos /\ Len(c.flight) = Len(core.flight) - n
<1> DEFINE L == Len(core.flight)
           c == Retired(n, ending)
<1>1. PICK rest : rest = SubSeq(core.flight, n + 1, L)
  OBVIOUS
<1>2. /\ rest \in Seq(Records) /\ Len(rest) = L - n
      /\ \A i \in 1 .. L - n : rest[i] = core.flight[n + i]
      /\ rest # << >> => n + 1 \in 1 .. L /\ Head(rest) = core.flight[n + 1]
  BY <1>1, RestFacts
<1>3. L \in Nat /\ n \in Nat /\ n <= L /\ core.pos \in Nat /\ core.seq \in Nat /\ core.idle \in Nat
  BY DEF CoreStates
<1>4. CASE ending = "none"
  <2>1. c = [core EXCEPT !.flight = rest, !.idle = IF n = 0 THEN core.idle + 1 ELSE 1]
    BY <1>1, <1>4 DEF Retired
  <2>2. PICK d \in Nat : d = (IF n = 0 THEN core.idle + 1 ELSE 1)
    BY <1>3
  <2>3. c = [core EXCEPT !.flight = rest, !.idle = d]
    BY <2>1, <2>2
  <2> HIDE DEF c
  <2>4. /\ c \in CoreStates /\ c.flight = rest /\ c.pos = core.pos /\ c.seq = core.seq
        /\ c.idle = d
    BY <1>2, <2>3 DEF CoreStates
  <2>5. c.idle \in {core.idle + 1, 1}
    BY <2>2, <2>4
  <2>6. core.pos - (L - n) = core.pos - L + n
    <3> HIDE DEF L
    <3>1. core.pos \in Int /\ L \in Int /\ n \in Int
      BY <1>3
    <3>2. PICK p \in Int : p = core.pos
      BY <3>1
    <3>3. p - (L - n) = p - L + n
      BY ONLY p \in Int, <3>1
    <3> QED
      BY <3>2, <3>3
  <2>7. Consecutive(c, ring)
    <3>1. Len(c.flight) <= CAPACITY
      <4>1. L <= CAPACITY
        BY DEF InFlight, Consecutive
      <4> HIDE DEF L
      <4> QED
        BY <1>2, <1>3, <2>4, <4>1, SizesAssumption
    <3>2. ASSUME NEW i \in 1 .. Len(c.flight)
          PROVE  /\ c.flight[i].seq = c.seq - Len(c.flight) + i - 1
                 /\ c.flight[i].pos = c.pos - Len(c.flight) + i - 1
                 /\ c.flight[i].err = "npc" => c.flight[i].kind = "branch"
                 /\ ring[Slot(c.flight[i].seq)] = c.flight[i]
      <4>1. i \in 1 .. L - n /\ n + i \in 1 .. L /\ i \in Int
        BY <1>2, <1>3, <2>4
      <4>2. c.flight[i] = core.flight[n + i]
        BY <1>2, <2>4, <4>1
      <4>3. /\ core.flight[n + i].seq = core.seq - L + (n + i) - 1
            /\ core.flight[n + i].pos = core.pos - L + (n + i) - 1
            /\ core.flight[n + i].err = "npc" => core.flight[n + i].kind = "branch"
            /\ ring[Slot(core.flight[n + i].seq)] = core.flight[n + i]
        BY <4>1 DEF InFlight, Consecutive
      <4>4. ASSUME NEW x \in Int PROVE x - L + (n + i) - 1 = x - (L - n) + i - 1
        <5> HIDE DEF L
        <5>1. L \in Int /\ n \in Int
          BY <1>3
        <5> QED
          BY ONLY x \in Int, <5>1, <4>1
      <4>5. core.seq \in Int /\ core.pos \in Int
        BY <1>3
      <4> QED
        BY <1>2, <2>4, <4>2, <4>3, <4>4, <4>5
    <3> QED
      BY <3>1, <3>2 DEF Consecutive
  <2> QED
    BY <1>2, <1>4, <2>4, <2>5, <2>6, <2>7 DEF Passed, c
<1>5. CASE ending # "none"
  <2>1. rest # << >> /\ ending \in {"trap", "reExec"}
    BY <1>1, <1>5 DEF Ends
  <2>2. n + 1 \in 1 .. L /\ Head(rest) = core.flight[n + 1]
    BY <1>2, <2>1
  <2>3. core.flight[n + 1] \in Records /\ core.flight[n + 1].pos = core.pos - L + (n + 1) - 1
    BY <2>2 DEF InFlight, Consecutive, CoreStates
  <2>4. PICK d \in {0, 1} : d = (IF ending = "trap" THEN 1 ELSE 0)
    OBVIOUS
  <2>5. PICK p \in Nat : p = Head(rest).pos
    BY <2>2, <2>3 DEF Records
  <2>6. c = [core EXCEPT !.flight = << >>, !.idle = 1, !.pause = 2, !.pos = p + d]
    BY <1>1, <1>5, <2>4, <2>5 DEF Retired
  <2> HIDE DEF c
  <2>7. p + d \in Nat
    BY <2>4, <2>5
  <2>8. /\ c \in CoreStates /\ Len(c.flight) = 0 /\ c.pos = p + d /\ c.seq = core.seq
        /\ c.idle = 1
    <3>1. PICK e \in Seq(Records) : e = << >> /\ Len(e) = 0
      BY EmptySeq
    <3>2. PICK x \in Nat : x = p + d
      BY <2>7
    <3>3. c = [core EXCEPT !.flight = e, !.idle = 1, !.pause = 2, !.pos = x]
      BY <2>6, <3>1, <3>2
    <3>4. c.flight = e /\ c.pos = x /\ c.seq = core.seq /\ c.idle = 1
      BY <3>3 DEF CoreStates
    <3>5. c = [flight |-> e, pos |-> x, seq |-> core.seq, pause |-> 2, idle |-> 1]
      BY <3>3 DEF CoreStates
    <3>6. c \in CoreStates
      BY <1>3, <3>1, <3>2, <3>5 DEF CoreStates
    <3> QED
      BY <3>1, <3>2, <3>4, <3>6
  <2>9. Len(c.flight) = 0
    BY <2>8
  <2>10. Consecutive(c, ring)
    BY <2>9, SizesAssumption DEF Consecutive
  <2>11. p + d = core.pos - L + Passed(n, ending)
    <3>1. p = core.pos - L + (n + 1) - 1
      BY <2>2, <2>3, <2>5
    <3>2. Passed(n, ending) = n + d
      <4>1. n + 0 = n
        BY <1>3
      <4> QED
        BY <2>1, <2>4, <4>1 DEF Passed
    <3> HIDE DEF L
    <3>3. PICK x \in Int : x = core.pos
      BY <1>3
    <3>4. L \in Int /\ n \in Int /\ d \in Int
      BY <1>3, <2>4
    <3>5. (x - L + (n + 1) - 1) + d = x - L + (n + d)
      BY ONLY x \in Int, <3>4
    <3> QED
      BY <3>1, <3>2, <3>3, <3>5
  <2>12. c.pos - Len(c.flight) = core.pos - L + Passed(n, ending)
    BY <2>7, <2>8, <2>9, <2>11
  <2> QED
    BY <1>5, <2>8, <2>10, <2>12 DEF c
<1> QED
  BY <1>4, <1>5

\* An instruction is fetched into a slot of which nobody in flight has the record.
LEMMA FetchKeeps ==
  ASSUME NEW c \in CoreStates, DOMAIN ring = 0 .. RING - 1, Consecutive(c, ring),
         Len(c.flight) < CAPACITY, NEW i \in Insts,
         NEW inst, inst = [seq |-> c.seq, pos |-> c.pos, kind |-> i.kind, err |-> i.err],
         NEW d, d = [flight |-> Append(c.flight, inst), pos |-> c.pos + 1, seq |-> c.seq + 1,
                     pause |-> c.pause, idle |-> c.idle],
         NEW r, r = BuildInstMeta(ring, inst)
  PROVE  /\ d \in CoreStates /\ DOMAIN r = 0 .. RING - 1 /\ Consecutive(d, r)
         /\ d.pos - Len(d.flight) = c.pos - Len(c.flight) /\ d.idle = c.idle
<1>1. /\ c.flight \in Seq(Records) /\ Len(c.flight) \in Nat /\ c.seq \in Nat /\ c.pos \in Nat
      /\ RING \in Nat /\ CAPACITY \in Nat /\ CAPACITY <= RING
  BY SizesAssumption DEF CoreStates
<1>2. /\ inst \in Records /\ inst.seq = c.seq /\ inst.pos = c.pos
      /\ inst.err = "npc" => inst.kind = "branch"
  BY <1>1, InstsAssumption DEF Records
<1>3. PICK f \in Seq(Records) : f = Append(c.flight, inst)
  BY <1>1, <1>2, AppendProperties
<1>4. PICK l \in Nat : l = Len(c.flight)
  BY <1>1
<1>5. Len(f) = l + 1 /\ f[l + 1] = inst /\ \A k \in 1 .. l : f[k] = c.flight[k]
  BY <1>1, <1>2, <1>3, <1>4, AppendProperties
<1>6. PICK q \in Nat, p \in Nat : q = c.seq /\ p = c.pos
  BY <1>1
<1>7. d = [flight |-> f, pos |-> p + 1, seq |-> q + 1, pause |-> c.pause, idle |-> c.idle]
  BY <1>3, <1>6
<1>8. /\ d \in CoreStates /\ d.flight = f /\ d.seq = q + 1 /\ d.pos = p + 1 /\ d.idle = c.idle
  <2>1. d.flight = f /\ d.seq = q + 1 /\ d.pos = p + 1 /\ d.idle = c.idle
    BY <1>7
  <2>3. c.pause \in 0 .. 2 /\ c.idle \in Nat /\ p + 1 \in Nat /\ q + 1 \in Nat
    BY DEF CoreStates
  <2>4. d \in CoreStates
    <3>1. PICK x \in Nat, y \in Nat, z \in 0 .. 2, w \in Nat :
            x = p + 1 /\ y = q + 1 /\ z = c.pause /\ w = c.idle
      BY <2>3
    <3>2. d = [flight |-> f, pos |-> x, seq |-> y, pause |-> z, idle |-> w]
      BY <1>7, <3>1
    <3> QED
      BY ONLY f \in Seq(Records), <3>1, <3>2 DEF CoreStates
  <2> QED
    BY <2>1, <2>4
<1>9. Slot(q) \in 0 .. RING - 1
  BY <1>1, SlotFacts
<1>10. /\ DOMAIN r = 0 .. RING - 1 /\ r[Slot(q)] = inst
       /\ \A x \in 0 .. RING - 1 : x # Slot(q) => r[x] = ring[x]
  BY <1>2, <1>6, <1>9 DEF BuildInstMeta
<1>11. ASSUME NEW k \in 1 .. l + 1
       PROVE  /\ f[k].seq = (q + 1) - (l + 1) + k - 1
              /\ f[k].pos = (p + 1) - (l + 1) + k - 1
              /\ f[k].err = "npc" => f[k].kind = "branch"
              /\ r[Slot(f[k].seq)] = f[k]
  <2>1. CASE k = l + 1
    <3>1. f[k] = inst
      BY <1>5, <2>1
    <3>2. q = (q + 1) - (l + 1) + k - 1 /\ p = (p + 1) - (l + 1) + k - 1
      BY <2>1
    <3> QED
      <4>1. f[k].seq = q /\ f[k].pos = p /\ (f[k].err = "npc" => f[k].kind = "branch")
        BY <1>2, <1>6, <3>1
      <4>2. r[Slot(f[k].seq)] = f[k]
        BY <1>10, <3>1, <4>1
      <4> QED
        BY <3>2, <4>1, <4>2
  <2>2. CASE k # l + 1
    <3>1. k \in 1 .. l /\ f[k] = c.flight[k]
      <4>1. k \in 1 .. l
        BY ONLY k \in 1 .. l + 1, l \in Nat, <2>2
      <4> QED
        BY <1>5, <4>1, Zenon
    <3>2. /\ f[k].seq = q - l + k - 1 /\ f[k].pos = p - l + k - 1
          /\ f[k].err = "npc" => f[k].kind = "branch"
          /\ ring[Slot(f[k].seq)] = f[k]
      BY <1>4, <1>6, <3>1 DEF Consecutive
    <3>3. q - l + k - 1 = (q + 1) - (l + 1) + k - 1 /\ p - l + k - 1 = (p + 1) - (l + 1) + k - 1
      BY <3>1
    <3>4. f[k].seq \in Nat
      <4>1. k \in 1 .. Len(f)
        BY <1>5
      <4>2. f[k] \in Records
        BY <1>3, <4>1
      <4> QED
        BY <4>2 DEF Records
    <3>5. PICK a \in Nat : a = f[k].seq
      BY <3>4
    <3>6. a < q /\ q - a < RING
      <4>1. l < RING
        BY <1>1, <1>4
      <4>2. a = q - l + k - 1 /\ RING \in Nat /\ k \in 1 .. l
        BY <1>1, <3>1, <3>2, <3>5
      <4> QED
        BY ONLY <4>1, <4>2, q \in Nat, l \in Nat, a \in Nat
    <3>7. Slot(a) # Slot(q) /\ Slot(a) \in 0 .. RING - 1
      BY <3>6, SlotFacts
    <3>8. r[Slot(a)] = ring[Slot(a)]
      BY <1>10, <3>7
    <3> QED
      BY <3>2, <3>3, <3>5, <3>8
  <2> QED
    BY <2>1, <2>2
<1>12. Consecutive(d, r)
  <2>1. l + 1 <= CAPACITY
    BY <1>1, <1>4
  <2>2. d.flight = f /\ Len(d.flight) = l + 1 /\ d.seq = q + 1 /\ d.pos = p + 1
    BY <1>5, <1>8
  <2>3. ASSUME NEW k \in 1 .. Len(d.flight)
        PROVE  /\ d.flight[k].seq = d.seq - Len(d.flight) + k - 1
               /\ d.flight[k].pos = d.pos - Len(d.flight) + k - 1
               /\ d.flight[k].err = "npc" => d.flight[k].kind = "branch"
               /\ r[Slot(d.flight[k].seq)] = d.flight[k]
    BY ONLY <1>11, <2>2, k \in 1 .. Len(d.flight)
  <2>4. Len(d.flight) <= CAPACITY
    BY ONLY <2>1, <2>2
  <2> QED
    BY ONLY <2>3, <2>4 DEF Consecutive
<1>13. (p + 1) - (l + 1) = p - l
  OBVIOUS
<1> QED
  BY <1>4, <1>5, <1>6, <1>8, <1>10, <1>12, <1>13

\* One edge of the core.
LEMMA ActiveCore ==
  ASSUME core \in CoreStates, InFlight, DOMAIN ring = 0 .. RING - 1,
         NEW n \in 0 .. Len(core.flight), NEW ending \in Ends(n), NEW t, Active(n, ending, t)
  PROVE  /\ core' \in CoreStates /\ DOMAIN ring' = 0 .. RING - 1 /\ InFlight'
         /\ core'.pos - Len(core'.flight) = core.pos - Len(core.flight) + Passed(n, ending)
         /\ core'.idle \in {core.idle + 1, 1}
<1> DEFINE c == Retired(n, ending)
<1>1. /\ c \in CoreStates /\ Consecutive(c, ring) /\ c.seq = core.seq
      /\ c.pos - Len(c.flight) = core.pos - Len(core.flight) + Passed(n, ending)
      /\ c.idle \in {core.idle + 1, 1}
      /\ ending = "none" => c.pos = core.pos /\ Len(c.flight) = Len(core.flight) - n
  BY RetiredKeeps
<1>2. \/ core' = c /\ UNCHANGED ring
      \/ /\ ending = "none" /\ Len(core.flight) < CAPACITY
         /\ \E i \in Insts : \E inst :
              /\ inst = [seq |-> core.seq, pos |-> core.pos, kind |-> i.kind, err |-> i.err]
              /\ ring' = BuildInstMeta(ring, inst)
              /\ core' = [c EXCEPT !.flight = Append(@, inst), !.seq = @ + 1, !.pos = @ + 1]
  BY Zenon DEF Active
<1> HIDE DEF c
<1>3. CASE core' = c /\ UNCHANGED ring
  <2>1. Consecutive(core', ring')
    BY <1>1, <1>3
  <2>2. DOMAIN ring' = 0 .. RING - 1
    BY <1>3
  <2>3. InFlight'
    BY <2>1 DEF InFlight, Consecutive, Slot
  <2> QED
    BY <1>1, <1>3, <2>2, <2>3
<1>4. ASSUME ending = "none", Len(core.flight) < CAPACITY, NEW i \in Insts,
             NEW inst, inst = [seq |-> core.seq, pos |-> core.pos, kind |-> i.kind, err |-> i.err],
             ring' = BuildInstMeta(ring, inst),
             core' = [c EXCEPT !.flight = Append(@, inst), !.seq = @ + 1, !.pos = @ + 1]
      PROVE  /\ core' \in CoreStates /\ DOMAIN ring' = 0 .. RING - 1 /\ InFlight'
             /\ core'.pos - Len(core'.flight) = c.pos - Len(c.flight) /\ core'.idle = c.idle
  <2>1. inst = [seq |-> c.seq, pos |-> c.pos, kind |-> i.kind, err |-> i.err]
    BY <1>1, <1>4
  <2>2. Len(c.flight) < CAPACITY
    <3>1. Len(core.flight) \in Nat /\ CAPACITY \in Nat
      BY SizesAssumption DEF CoreStates
    <3>2. Len(c.flight) = Len(core.flight) - n
      BY <1>1, <1>4
    <3> QED
      BY <1>4, <3>1, <3>2
  <2>0. PICK d, r : d = core' /\ r = ring'
    OBVIOUS
  <2>3. /\ core' \in CoreStates /\ DOMAIN ring' = 0 .. RING - 1 /\ Consecutive(core', ring')
        /\ core'.pos - Len(core'.flight) = c.pos - Len(c.flight) /\ core'.idle = c.idle
    <3>1. /\ d \in CoreStates /\ DOMAIN r = 0 .. RING - 1 /\ Consecutive(d, r)
          /\ d.pos - Len(d.flight) = c.pos - Len(c.flight) /\ d.idle = c.idle
      <4>1. d = [flight |-> Append(c.flight, inst), pos |-> c.pos + 1, seq |-> c.seq + 1,
                 pause |-> c.pause, idle |-> c.idle]
        BY <1>1, <1>4, <2>0 DEF CoreStates
      <4>2. r = BuildInstMeta(ring, inst)
        BY <1>4, <2>0
      <4> QED
        BY <1>1, <2>1, <2>2, <4>1, <4>2, FetchKeeps
    <3> QED
      BY <2>0, <3>1
  <2>4. InFlight'
    BY <2>3 DEF InFlight, Consecutive, Slot
  <2> QED
    BY <2>3, <2>4
<1> QED
  BY <1>1, <1>2, <1>3, <1>4

-----------------------------------------------------------------------------
(* The invariant holds. *)

\* It holds before main() has read its arguments.
LEMMA InitInv == Init => Inv
<1> SUFFICES ASSUME Init PROVE Inv
  OBVIOUS
<1>1. h = FreshH /\ core = FreshCore /\ phase = "args" /\ main_time = 0 /\ ret_code = 0
  BY DEF Init
<1>2. core \in CoreStates /\ Len(core.flight) = 0 /\ core.idle = 0
  <2>1. PICK e \in Seq(Records) : e = << >> /\ Len(e) = 0
    BY EmptySeq
  <2>2. core = [flight |-> e, pos |-> 0, seq |-> 0, pause |-> 0, idle |-> 0]
    BY <1>1, <2>1 DEF FreshCore
  <2> QED
    BY <2>1, <2>2 DEF CoreStates
<1>3. /\ h \in HarnessStates /\ ~h.forced /\ ~h.diff /\ h.cycles = 0
  BY <1>1 DEF FreshH, HarnessStates
<1>4. DOMAIN ring = 0 .. RING - 1
  BY DEF Init
<1>5. Typed /\ Configured
  BY <1>1, <1>2, <1>3, <1>4 DEF Typed, Configured
<1>6. InFlight
  BY <1>2, SizesAssumption DEF InFlight, Consecutive
<1>7. WindowKept /\ AveragesPerCycle /\ JudgedRight /\ InStep
  BY <1>1, <1>3 DEF WindowKept, AveragesPerCycle, JudgedRight, InStep
<1>8. IdleBounded
  BY <1>2, SizesAssumption DEF IdleBounded
<1> QED
  BY <1>5, <1>6, <1>7, <1>8 DEF Inv

\* The two kinds of outcome of main()'s checks are told apart.
LEMMA ConfigsApart ==
  ASSUME NEW c
  PROVE  /\ c \in ExitConfigs =>
              "exit" \in DOMAIN c /\ c.exit \in {0, 1, 134} /\ c \notin RunConfigs
         /\ c \in RunConfigs => "exit" \notin DOMAIN c /\ c.diff \in BOOLEAN
<1>1. c \in ExitConfigs => DOMAIN c = {"exit"} /\ c.exit \in {0, 1, 134}
  BY DEF ExitConfigs
<1>2. c \in RunConfigs =>
        DOMAIN c = {"limit", "start", "end", "diff", "flags"} /\ c.diff \in BOOLEAN
  BY DEF RunConfigs
<1> QED
  BY <1>1, <1>2

\* The command line is read.
LEMMA StartInv ==
  ASSUME Inv, Start
  PROVE  Inv'
<1>1. PICK args \in ArgLists : \E c \in Configure(args) :
        /\ cfg' = c
        /\ IF "exit" \in DOMAIN c
           THEN phase' = "done" /\ ret_code' = c.exit /\ UNCHANGED <<main_time, h>>
           ELSE /\ phase' = "run"
                /\ main_time' = 2
                /\ h' = [CycleStep(h) EXCEPT !.diff = c.diff]
                /\ UNCHANGED ret_code
  BY Zenon DEF Start
<1>2. PICK c \in Configure(args) :
        /\ cfg' = c
        /\ IF "exit" \in DOMAIN c
           THEN phase' = "done" /\ ret_code' = c.exit /\ UNCHANGED <<main_time, h>>
           ELSE /\ phase' = "run"
                /\ main_time' = 2
                /\ h' = [CycleStep(h) EXCEPT !.diff = c.diff]
                /\ UNCHANGED ret_code
  BY <1>1, Zenon
<1>3. phase = "args" /\ ring' = ring /\ core' = core
  BY DEF Start
<1>4. /\ h = FreshH /\ core = FreshCore /\ main_time = 0
      /\ h \in HarnessStates /\ core \in CoreStates /\ DOMAIN ring = 0 .. RING - 1
      /\ ret_code \in {0, 1, 134}
  BY <1>3 DEF Inv, Configured, Typed
<1>5. c \in ExitConfigs \/ c \in RunConfigs
  BY ConfigureType
<1>6. InFlight'
  BY <1>3 DEF Inv, InFlight, Consecutive, Slot
<1>7. core.pos = 0 /\ core.idle = 0 /\ Len(core.flight) = 0
  BY <1>4 DEF FreshCore
<1>8. CASE c \in ExitConfigs
  <2>1. /\ phase' = "done" /\ ret_code' \in {0, 1, 134} /\ main_time' = 0 /\ h' = FreshH
        /\ cfg' \in ExitConfigs /\ cfg' \notin RunConfigs /\ core' = FreshCore
    BY <1>2, <1>3, <1>4, <1>8, ConfigsApart
  <2>2. h'.diff = FALSE /\ h'.cycles = 0
    BY <2>1 DEF FreshH
  <2>3. Typed' /\ Configured'
    BY <1>2, <1>3, <1>4, <2>1 DEF Typed, Configured
  <2>4. WindowKept' /\ JudgedRight' /\ InStep'
    BY <2>1, <2>2 DEF WindowKept, JudgedRight, InStep
  <2>5. AveragesPerCycle'
    BY <2>1, <2>2 DEF AveragesPerCycle
  <2>6. IdleBounded'
    BY <1>3, <1>7, SizesAssumption DEF IdleBounded
  <2> QED
    BY <1>6, <2>3, <2>4, <2>5, <2>6 DEF Inv
<1>9. CASE c \in RunConfigs
  <2>1. /\ phase' = "run" /\ ret_code' = ret_code /\ main_time' = 2 /\ cfg' \in RunConfigs
        /\ h' = [CycleStep(h) EXCEPT !.diff = c.diff] /\ c.diff \in BOOLEAN /\ cfg'.diff = c.diff
    BY <1>2, <1>9, ConfigsApart
  <2>2. PICK d \in BOOLEAN : d = c.diff
    BY <2>1
  <2>3. /\ h' \in HarnessStates /\ h'.on = FALSE /\ h'.buf = {} /\ h'.out = {}
        /\ h'.said = {} /\ h'.ending = {}
        /\ h'.forced = FALSE /\ h'.failed = FALSE /\ h'.ref = 0 /\ h'.failAt = 0 /\ h'.quitAt = 0
        /\ h'.cycles = 1 /\ h'.diff = cfg'.diff
    <3>1. h' = [FreshH EXCEPT !.cycles = 1, !.diff = c.diff]
      BY <1>4, <2>1 DEF CycleStep, FreshH
    <3>2. h' = [on |-> FALSE, buf |-> {}, out |-> {}, forced |-> FALSE, failed |-> FALSE,
                diff |-> d, ref |-> 0, insts |-> 0, cycles |-> 1, said |-> {}, ending |-> {},
                failAt |-> 0, quitAt |-> 0]
      BY <2>2, <3>1 DEF FreshH
    <3>3. h' \in HarnessStates
      BY <3>2 DEF HarnessStates
    <3>4. /\ h'.on = FALSE /\ h'.buf = {} /\ h'.out = {} /\ h'.said = {} /\ h'.ending = {}
          /\ h'.forced = FALSE /\ h'.failed = FALSE /\ h'.ref = 0 /\ h'.failAt = 0
          /\ h'.quitAt = 0 /\ h'.cycles = 1 /\ h'.diff = d
      BY <3>2
    <3>5. cfg'.diff = d
      BY <2>1, <2>2
    <3> QED
      BY <3>3, <3>4, <3>5
  <2>4. Typed' /\ Configured'
    BY <1>3, <1>4, <2>1, <2>3 DEF Typed, Configured
  <2>5. WindowKept'
    BY <2>1, <2>3 DEF WindowKept, WindowAt, InWindow, Due
  <2>6. JudgedRight'
    BY <2>1, <2>3 DEF JudgedRight, Judged
  <2>7. InStep'
    BY <1>3, <1>7, <2>3 DEF InStep
  <2>8. AveragesPerCycle'
    BY <2>1, <2>3 DEF AveragesPerCycle
  <2>9. IdleBounded'
    BY <1>3, <1>7, SizesAssumption DEF IdleBounded
  <2> QED
    BY <1>6, <2>4, <2>5, <2>6, <2>7, <2>8, <2>9 DEF Inv
<1> QED
  BY <1>5, <1>8, <1>9

\* The parts of the invariant that a turn of the loop leaves to the harness.
LEMMA TurnInv ==
  ASSUME Inv, Going, UNCHANGED <<phase, cfg, ret_code>>, main_time' = main_time + 1,
         h' \in HarnessStates, WindowAt(h', main_time + 1), Judged(h'),
         core' \in CoreStates, DOMAIN ring' = 0 .. RING - 1, InFlight'
  PROVE  Typed' /\ Configured' /\ InFlight' /\ WindowKept' /\ JudgedRight'
<1>1. phase = "run" /\ cfg \in RunConfigs /\ main_time \in Nat /\ main_time >= 2
  BY GoingFacts
<1>2. Typed'
  BY <1>1 DEF Inv, Typed
<1>3. Configured'
  BY <1>1 DEF Configured
<1>4. WindowKept'
  BY <1>1 DEF WindowKept, WindowAt, InWindow, Due
<1>5. JudgedRight'
  BY <1>1 DEF JudgedRight, Judged
<1> QED
  BY <1>2, <1>3, <1>4, <1>5

\* A falling edge.
LEMMA FallingInv ==
  ASSUME Inv, FallingEdge
  PROVE  Inv'
<1>1. /\ Going /\ main_time % 2 = 0 /\ main_time' = main_time + 1
      /\ h' = PrintAll(Emit(h, <<main_time, 0>>), main_time + 1)
      /\ UNCHANGED <<phase, cfg, ring, core, ret_code>>
  BY DEF FallingEdge
<1>2. /\ h \in HarnessStates /\ SameTrace(h, h) /\ main_time \in Nat /\ phase = "run" /\ ~h.forced
      /\ core \in CoreStates
  BY <1>1, GoingFacts DEF SameTrace, Shown
<1>3. PICK u : u = h'
  OBVIOUS
<1>4. /\ u \in HarnessStates /\ WindowAt(u, main_time + 1) /\ Judged(u)
      /\ u.forced = h.forced /\ u.diff = h.diff /\ u.ref = h.ref /\ u.cycles = h.cycles
  BY <1>1, <1>2, <1>3, QuietTurned
<1>5. InFlight' /\ DOMAIN ring' = 0 .. RING - 1 /\ core' \in CoreStates
  BY <1>1, <1>2 DEF Inv, Typed, InFlight, Consecutive, Slot
<1>6. Typed' /\ Configured' /\ InFlight' /\ WindowKept' /\ JudgedRight'
  BY <1>1, <1>3, <1>4, <1>5, TurnInv
<1>7. AveragesPerCycle'
  <2>1. h.cycles = main_time \div 2
    BY <1>2 DEF Inv, AveragesPerCycle
  <2>2. (main_time + 1) \div 2 = main_time \div 2
    BY <1>1, <1>2
  <2> QED
    BY <1>1, <1>3, <1>4, <2>1, <2>2 DEF AveragesPerCycle
<1>8. InStep' /\ IdleBounded'
  BY <1>1, <1>3, <1>4 DEF Inv, InStep, IdleBounded
<1> QED
  BY <1>6, <1>7, <1>8 DEF Inv

\* A rising edge on which the core runs.
LEMMA ActiveInv ==
  ASSUME Inv, RisingEdge, NEW n \in Committable, NEW ending \in Ends(n),
         Active(n, ending, main_time)
  PROVE  Inv'
<1> DEFINE k == Passed(n, ending)
           L == Len(core.flight)
<1>1. /\ Going /\ main_time % 2 = 1 /\ main_time' = main_time + 1
      /\ UNCHANGED <<phase, cfg, ret_code>>
  BY DEF RisingEdge
<1>2. /\ h \in HarnessStates /\ main_time \in Nat /\ phase = "run"
      /\ core \in CoreStates /\ core.idle <= STUCK_LIMIT + 1
  BY <1>1, GoingFacts
<1>3. n \in 0 .. L
  BY <1>2, SizesAssumption DEF Committable, CoreStates
<1>4. PICK u : u = h'
  OBVIOUS
<1>5. u = PrintAll(CalledBack(n, ending, main_time), main_time + 1)
  BY <1>4 DEF Active
<1>6. Turned(u, k, main_time) /\ u.cycles = h.cycles + 1
  BY <1>1, <1>3, <1>5, ActiveTurned
<1>7. /\ core' \in CoreStates /\ DOMAIN ring' = 0 .. RING - 1 /\ InFlight'
      /\ core'.pos - Len(core'.flight) = core.pos - L + k
      /\ core'.idle \in {core.idle + 1, 1}
  BY <1>2, <1>3, ActiveCore DEF Inv, Typed
<1>8. Typed' /\ Configured' /\ InFlight' /\ WindowKept' /\ JudgedRight'
  <2>1. h' \in HarnessStates /\ WindowAt(h', main_time + 1) /\ Judged(h')
    BY <1>4, <1>6 DEF Turned
  <2> QED
    BY <1>1, <1>7, <2>1, TurnInv
<1>9. AveragesPerCycle'
  <2>1. h.cycles = main_time \div 2
    BY <1>2 DEF Inv, AveragesPerCycle
  <2>2. (main_time + 1) \div 2 = (main_time \div 2) + 1
    BY <1>1, <1>2
  <2> QED
    BY <1>1, <1>4, <1>6, <2>1, <2>2 DEF AveragesPerCycle
<1>10. InStep'
  <2>1. ASSUME u.diff PROVE core'.pos = u.ref + Len(core'.flight)
    <3>1. core.pos = u.ref + L - k
      BY <1>6, <2>1 DEF Turned
    <3>2. n \in Nat
      BY <1>2, <1>3 DEF CoreStates
    <3>3. PICK p \in Nat, r \in Nat, l \in Nat, m \in Nat, q \in Nat, j \in Nat :
            /\ p = core.pos /\ r = u.ref /\ l = L /\ m = Len(core'.flight) /\ q = core'.pos
            /\ j = k
      <4>1. core.pos \in Nat /\ L \in Nat /\ Len(core'.flight) \in Nat /\ core'.pos \in Nat
        BY <1>2, <1>7 DEF CoreStates
      <4>2. u.ref \in Nat
        BY <1>6 DEF Turned, HarnessStates
      <4>3. k \in Nat
        BY <3>2 DEF Passed
      <4> QED
        BY <4>1, <4>2, <4>3
    <3>4. q - m = p - l + j /\ p = r + l - j
      BY <1>7, <3>1, <3>3
    <3>5. q = r + m
      BY ONLY <3>4, p \in Nat, r \in Nat, l \in Nat, m \in Nat, q \in Nat, j \in Nat
    <3> QED
      BY <3>3, <3>5
  <2> QED
    BY <1>4, <2>1 DEF InStep
<1>11. IdleBounded'
  <2>1. core.idle > STUCK_LIMIT => u.forced
    BY <1>6 DEF Turned
  <2>2. PICK a \in Nat, b \in Nat, s \in Nat : a = core.idle /\ b = core'.idle /\ s = STUCK_LIMIT
    BY <1>2, <1>7, SizesAssumption DEF CoreStates
  <2>3. a <= s + 1 /\ (b = a + 1 \/ b = 1) /\ (a > s => u.forced)
    BY <1>2, <1>7, <2>1, <2>2
  <2>4. b <= s + 2 /\ (~u.forced => b <= s + 1)
    BY <2>3
  <2> QED
    BY <1>4, <2>2, <2>4 DEF IdleBounded
<1> QED
  BY <1>8, <1>9, <1>10, <1>11 DEF Inv

\* A rising edge on which the core is held.
LEMMA PausedInv ==
  ASSUME Inv, RisingEdge, Paused(main_time)
  PROVE  Inv'
<1>1. /\ Going /\ main_time % 2 = 1 /\ main_time' = main_time + 1
      /\ UNCHANGED <<phase, cfg, ret_code>>
  BY DEF RisingEdge
<1>2. /\ core.pause > 0 /\ core' = [core EXCEPT !.pause = @ - 1] /\ ring' = ring
      /\ h' = PrintAll(Emit(CycleStep(h), <<main_time, 0>>), main_time + 1)
  BY DEF Paused
<1>3. /\ h \in HarnessStates /\ main_time \in Nat /\ phase = "run" /\ core \in CoreStates
  BY <1>1, GoingFacts
<1>4. PICK u, s : u = h' /\ s = CycleStep(h)
  OBVIOUS
<1>5. /\ s \in HarnessStates /\ SameTrace(h, s) /\ s.cycles = h.cycles + 1
      /\ s.forced = h.forced /\ s.failed = h.failed /\ s.diff = h.diff /\ s.ref = h.ref
      /\ s.failAt = h.failAt /\ s.quitAt = h.quitAt
  BY <1>3, <1>4, CycleFacts
<1>6. /\ u \in HarnessStates /\ WindowAt(u, main_time + 1) /\ Judged(u)
      /\ u.forced = h.forced /\ u.diff = h.diff /\ u.ref = h.ref /\ u.cycles = s.cycles
  BY <1>1, <1>2, <1>4, <1>5, QuietTurned
<1>7. /\ core' \in CoreStates /\ core'.flight = core.flight /\ core'.pos = core.pos
      /\ core'.seq = core.seq /\ core'.idle = core.idle
  <2>1. PICK p \in 0 .. 2 : p = core.pause - 1
    BY <1>2, <1>3 DEF CoreStates
  <2>2. core' = [core EXCEPT !.pause = p]
    BY <1>2, <2>1
  <2> QED
    BY <1>3, <2>2 DEF CoreStates
<1>8. InFlight' /\ DOMAIN ring' = 0 .. RING - 1
  BY <1>2, <1>7 DEF Inv, Typed, InFlight, Consecutive, Slot
<1>9. Typed' /\ Configured' /\ InFlight' /\ WindowKept' /\ JudgedRight'
  BY <1>1, <1>4, <1>6, <1>7, <1>8, TurnInv
<1>10. AveragesPerCycle'
  <2>1. h.cycles = main_time \div 2
    BY <1>3 DEF Inv, AveragesPerCycle
  <2>2. (main_time + 1) \div 2 = (main_time \div 2) + 1
    BY <1>1, <1>3
  <2> QED
    BY <1>1, <1>4, <1>5, <1>6, <2>1, <2>2 DEF AveragesPerCycle
<1>11. InStep' /\ IdleBounded'
  BY <1>4, <1>6, <1>7 DEF Inv, InStep, IdleBounded
<1> QED
  BY <1>9, <1>10, <1>11 DEF Inv

\* The end of main().
LEMMA EndInv ==
  ASSUME Inv, End
  PROVE  Inv'
<1>1. /\ phase = "run" /\ phase' = "done" /\ ret_code' = (IF ForceExit(h) = 1 THEN 1 ELSE 0)
      /\ UNCHANGED <<cfg, main_time, h, ring, core>>
  BY DEF End
<1>2. cfg \in RunConfigs /\ main_time >= 2
  BY <1>1 DEF Inv, Configured
<1>3. Typed' /\ Configured'
  BY <1>1, <1>2 DEF Inv, Typed, Configured
<1>4. InFlight'
  BY <1>1 DEF Inv, InFlight, Consecutive, Slot
<1>5. WindowKept'
  BY <1>1 DEF Inv, WindowKept, WindowAt, InWindow, Due
<1>6. JudgedRight'
  BY <1>1 DEF Inv, JudgedRight, Judged, ForceExit
<1>7. AveragesPerCycle' /\ InStep' /\ IdleBounded'
  BY <1>1 DEF Inv, AveragesPerCycle, InStep, IdleBounded
<1> QED
  BY <1>3, <1>4, <1>5, <1>6, <1>7 DEF Inv

\* Every step keeps the invariant.
LEMMA StepInv == Inv /\ [Next]_vars => Inv'
<1> SUFFICES ASSUME Inv, [Next]_vars PROVE Inv'
  OBVIOUS
<1>1. CASE Start
  BY <1>1, StartInv
<1>2. CASE FallingEdge
  BY <1>2, FallingInv
<1>3. CASE RisingEdge
  <2>1. \/ \E n \in Committable : \E ending \in Ends(n) : Active(n, ending, main_time)
        \/ Paused(main_time)
    BY <1>3 DEF RisingEdge
  <2> QED
    BY <1>3, <2>1, ActiveInv, PausedInv
<1>4. CASE End
  BY <1>4, EndInv
<1>5. CASE UNCHANGED vars
  <2>1. UNCHANGED <<phase, cfg, main_time, h, ring, core, ret_code>>
    BY <1>5 DEF vars
  <2>2. Typed' /\ Configured' /\ WindowKept' /\ AveragesPerCycle'
    BY <2>1 DEF Inv, Typed, Configured, WindowKept, WindowAt, InWindow, Due, AveragesPerCycle
  <2>3. InFlight'
    BY <2>1 DEF Inv, InFlight, Consecutive, Slot
  <2>4. JudgedRight' /\ InStep' /\ IdleBounded'
    BY <2>1 DEF Inv, JudgedRight, Judged, ForceExit, InStep, IdleBounded
  <2> QED
    BY <2>2, <2>3, <2>4 DEF Inv
<1> QED
  BY <1>1, <1>2, <1>3, <1>4, <1>5 DEF Next

\* The invariant holds throughout.
THEOREM Invariance == Spec => []Inv
  BY InitInv, StepInv, PTL DEF Spec

\* A finished run has a configuration and its reason in its return code.
LEMMA DoneFacts ==
  ASSUME Inv, Done
  PROVE  cfg \in RunConfigs /\ Judged(h) /\ (ret_code = 1 <=> h.forced /\ h.failed)
<1>1. phase = "done" /\ cfg \in RunConfigs
  BY ConfigsApart DEF Inv, Configured, Done
<1>2. Judged(h) /\ ret_code = IF ForceExit(h) = 1 THEN 1 ELSE 0
  BY <1>1 DEF Inv, JudgedRight
<1>3. ForceExit(h) = 1 <=> h.forced /\ h.failed
  BY DEF ForceExit
<1> QED
  BY <1>1, <1>2, <1>3

\* FailureEndsRun: a run in which the core went wrong under comparison, or stopped
\* committing, ends in failure unless the exit came in that cycle (difftest.cpp,
\* debugflags.cpp:116, ROB.sv:456).
THEOREM FailureInvariance == Spec => []FailureEndsRun
<1>1. Inv => FailureEndsRun
  BY DoneFacts DEF FailureEndsRun, Judged
<1> QED
  BY <1>1, Invariance, PTL

\* AlarmIsReal: a failed run had a cause (difftest.cpp, ROB.sv:446-480).
THEOREM AlarmInvariance == Spec => []AlarmIsReal
<1>1. Inv => AlarmIsReal
  BY DoneFacts DEF AlarmIsReal, Judged
<1> QED
  BY <1>1, Invariance, PTL

\* TraceIsWindow: what is printed is what was said in the debug window up to the message
\* of the instruction that ended the run; the rest of that evaluation is lost
\* (debugflags.cpp, difftest.cpp:293-309, main.cpp).
THEOREM TraceInvariance == Spec => []TraceIsWindow
<1>1. Inv => TraceIsWindow
  <2> SUFFICES ASSUME Inv, phase # "args", "exit" \notin DOMAIN cfg
               PROVE  /\ h.out = {m \in h.said : \A l \in h.ending : ~Later(m, l)}
                      /\ h.buf = {}
    BY DEF TraceIsWindow
  <2>1. cfg \in RunConfigs
    BY ConfigsApart DEF Inv, Configured
  <2>2. WindowAt(h, main_time)
    BY <2>1 DEF Inv, WindowKept
  <2> QED
    BY <2>2 DEF WindowAt, Due
<1> QED
  BY <1>1, Invariance, PTL

\* BooksAgree: the globals keep their kinds, the cycles are those of the clock, and
\* the record that is read for an instruction is its own (statistics.cpp).
THEOREM BooksInvariance == Spec => []BooksAgree
<1>1. Inv => BooksAgree
  <2> SUFFICES ASSUME Inv PROVE TypeOK /\ AveragesPerCycle /\ MetaIsOwn
    BY DEF BooksAgree
  <2>1. /\ phase \in {"args", "run", "done"} /\ ret_code \in {0, 1, 134}
        /\ h \in HarnessStates /\ core \in CoreStates /\ main_time \in Nat
    BY DEF Inv, Typed
  <2>2. h.buf \union h.out \union h.said \subseteq (2 .. main_time) \X Nat
    <3>1. CASE phase # "args" /\ cfg \in RunConfigs
      <4>1. WindowAt(h, main_time)
        BY <3>1 DEF Inv, WindowKept
      <4>2. h.buf \union h.out \union h.said \subseteq h.said
        BY <4>1 DEF WindowAt, Due
      <4>3. ASSUME NEW m \in h.said PROVE m \in (2 .. main_time) \X Nat
        <5>1. m \in Nat \X Nat /\ 3 <= m[1] /\ m[1] < main_time
          BY <2>1, <4>1 DEF WindowAt, HarnessStates, Messages
        <5> QED
          BY <2>1, <5>1
      <4> QED
        BY <4>2, <4>3
    <3>2. CASE ~(phase # "args" /\ cfg \in RunConfigs)
      <4>1. h = FreshH
        BY <3>2 DEF Inv, Configured
      <4> QED
        BY <4>1 DEF FreshH
    <3> QED
      BY <3>1, <3>2
  <2>3. /\ h.on \in BOOLEAN /\ h.forced \in BOOLEAN /\ h.failed \in BOOLEAN /\ h.diff \in BOOLEAN
    BY <2>1 DEF HarnessStates
  <2>4. core.idle \in 0 .. STUCK_LIMIT + 2 /\ core.pause \in 0 .. 2 /\ Len(core.flight) <= CAPACITY
    BY <2>1, SizesAssumption DEF Inv, IdleBounded, InFlight, Consecutive, CoreStates
  <2>5. TypeOK
    BY <2>1, <2>2, <2>3, <2>4 DEF TypeOK
  <2>6. MetaIsOwn
    <3>1. DOMAIN core.flight = 1 .. Len(core.flight)
      BY <2>1 DEF CoreStates
    <3> QED
      BY <3>1 DEF Inv, InFlight, Consecutive, MetaIsOwn, ReadInstMeta
  <2> QED
    BY <2>5, <2>6 DEF Inv
<1> QED
  BY <1>1, Invariance, PTL
=============================================================================
