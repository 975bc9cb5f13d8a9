---------------------------- MODULE CommandLine ----------------------------
(***************************************************************************)
(* The command line of the simulator: the parser of cmdline.hpp with the   *)
(* options that main.cpp adds, and the checks of main() before the clock   *)
(* starts.                                                                 *)
(*                                                                         *)
(* An argument is a record of its form: "--name", "--name=value", "-xyz"   *)
(* or a word.  A value is the argument it was given by, so that an option  *)
(* can take what looks like another option.                                *)
(***************************************************************************)
EXTENDS Integers, Sequences, SequencesExt

CONSTANTS
  Number,         \* word |-> the number it reads as, for numeric options
  FlagNames,      \* words that parseFlags accepts
  Files,          \* words that name a readable program
  Libraries,      \* words that name a loadable reference
  Limit,          \* word after -e |-> what sscanf makes of it, see EndAt
  UseTrace,       \* built with USE_TRACE
  Forever         \* UINT64_MAX

None == [form |-> "none"]

ASSUME ValuesAssumption ==
  /\ Forever \in Nat
  /\ \A w \in DOMAIN Number : Number[w] \in Nat
  /\ \A w \in DOMAIN Limit : Limit[w] \subseteq Nat

(* Options: main.cpp 58-79, and "help", which parse_check adds. *)
Option(name, short, value, need) ==
  [name |-> name, short |-> short, value |-> value, need |-> need]

Options ==
  {Option("exec-file", "f", "text", TRUE), Option("end", "e", "text", FALSE),
   Option("seed", "s", "number", FALSE), Option("diff-so", "d", "text", FALSE),
   Option("trace-start", "", "number", FALSE), Option("debug-start", "", "number", FALSE),
   Option("debug-end", "", "number", FALSE), Option("debug-flags", "", "text", FALSE),
   Option("help", "?", "", FALSE)}
    \union IF UseTrace THEN {Option("trace", "", "text", FALSE)} ELSE {}

Called(name) == {o \in Options : o.name = name}
Lettered(letter) == {o \in Options : o.short = letter}

Word(text) == [form |-> "word", text |-> text]
Long(name) == [form |-> "long", name |-> name, val |-> None]
LongIs(name, text) == [form |-> "long", name |-> name, val |-> Word(text)]
Short(letters) == [form |-> "short", letters |-> letters]

\* an argument of a form that the parser tells apart
Argument(arg) ==
  /\ arg.form \in {"word", "long", "short"}
  /\ arg.form = "short" => Len(arg.letters) \in Nat

-----------------------------------------------------------------------------
\* set_option: a value of the wrong kind, or a value for a flag, is an error.

Readable(o, arg) ==
  \/ o.value = "text"
  \/ o.value = "number" /\ arg.form = "word" /\ arg.text \in DOMAIN Number

Fail(st) == [st EXCEPT !.errors = @ + 1]

Assign(st, o, arg) ==
  IF Readable(o, arg) THEN [st EXCEPT !.set[o.name] = arg, !.pending = None]
  ELSE Fail([st EXCEPT !.pending = None])

\* set_option without a value
Raise(st, o) == IF o.value = "" THEN [st EXCEPT !.set[o.name] = Word("")] ELSE Fail(st)

\* mutant: any option is raised as a flag
Name_Flag(st, o) == Raise(st, o)

\* an option that asks for a value takes the next argument
Name(st, o) == IF o.value = "" THEN Raise(st, o) ELSE [st EXCEPT !.pending = o]

\* one letter of a group such as -ab: only the last takes a value
Letter(st, letter, last) ==
  IF Lettered(letter) = {} THEN Fail(st)
  ELSE LET o == CHOOSE o \in Lettered(letter) : TRUE
       IN IF last THEN Name(st, o) ELSE Raise(st, o)

Letters(st, letters) ==
  LET n == Len(letters)
      at[k \in 0 .. n] == IF k = 0 THEN st ELSE Letter(at[k - 1], letters[k], k = n)
  IN at[n]

\* one turn of the loop of parse: an argument read as a value, or for itself
Read(st, arg) ==
  CASE st.pending # None -> Assign(st, st.pending, arg)
    [] st.pending = None /\ arg.form = "word" -> [st EXCEPT !.others = @ + 1]
    [] st.pending = None /\ arg.form = "short" -> Letters(st, arg.letters)
    [] st.pending = None /\ arg.form = "long" ->
         IF Called(arg.name) = {} THEN Fail(st)
         ELSE LET o == CHOOSE o \in Called(arg.name) : TRUE
              IN IF arg.val = None THEN Name(st, o) ELSE Assign(st, o, arg.val)

Fresh == [set |-> [n \in {o.name : o \in Options} |-> None],
          pending |-> None, errors |-> 0, others |-> 0]

ReadAll(args) ==
  LET n == Len(args)
      at[k \in 0 .. n] == IF k = 0 THEN Fresh ELSE Read(at[k - 1], args[k])
  IN at[n]

\* a value that never came, and required options that are not set, are errors
Parse(args) ==
  LET st == ReadAll(args)
      missing == {o \in Options : o.need /\ st.set[o.name] = None}
  IN IF missing # {} \/ st.pending # None THEN Fail(st) ELSE st

Exist(st, name) == st.set[name] # None
Text(st, name) == st.set[name].text
NumberOr(st, name, default) == IF Exist(st, name) THEN Number[Text(st, name)] ELSE default

-----------------------------------------------------------------------------
(* What main() makes of it: [exit |-> code] or a configuration.  Codes are  *)
(* 0, 1 and 134 (an uncaught exception aborts).                            *)

Exit(code) == [exit |-> code]

IsText(st, name, words) == st.set[name].form = "word" /\ Text(st, name) \in words

\* sscanf(cmd, "t%lu", &t) is nonzero when it stores a number and also when the
\* text ends too early; then max_simTime is whatever t held.
EndAt(st) ==
  IF ~Exist(st, "end") \/ ~IsText(st, "end", DOMAIN Limit) THEN {Forever}
  ELSE Limit[Text(st, "end")]

Configure(args) ==
  LET st == Parse(args)
      start == NumberOr(st, "debug-start", 0)
      end == NumberOr(st, "debug-end", Forever)
  IN CASE Exist(st, "help") \/ (st.errors > 0 /\ args = << >>) -> {Exit(0)}
       [] ~Exist(st, "help") /\ st.errors > 0 /\ args # << >> -> {Exit(1)}
       [] OTHER ->
            IF Exist(st, "debug-flags") /\ ~IsText(st, "debug-flags", FlagNames) THEN {Exit(1)}
            ELSE IF ~IsText(st, "exec-file", Files) THEN {Exit(134)}
            ELSE IF Exist(st, "diff-so") /\ ~IsText(st, "diff-so", Libraries) THEN {Exit(1)}
            ELSE IF Exist(st, "trace-start") /\ ~UseTrace THEN {Exit(1)}
            ELSE IF end < start THEN {Exit(1)}
            ELSE {[limit |-> t, start |-> start, end |-> end, diff |-> Exist(st, "diff-so"),
                   flags |-> Exist(st, "debug-flags")] : t \in EndAt(st)}

-----------------------------------------------------------------------------
(* A second reading of the same arguments, from the notation that the usage *)
(* text shows: each option is "--name=value", "--name value" or "-n value", *)
(* and the last mention counts.                                            *)

\* the arguments with every short letter and every separate value rewritten
\* into one "--name=value" each
Rewritten(args) ==
  LET takes(i) ==
        \/ args[i].form = "long" /\ args[i].val = None
             /\ \E o \in Called(args[i].name) : o.value # ""
        \/ args[i].form = "short" /\ \E o \in Lettered(Last(args[i].letters)) : o.value # ""
      value[i \in 0 .. Len(args)] == i > 1 /\ ~value[i - 1] /\ takes(i - 1)
      name(i) == IF args[i].form = "long" THEN args[i].name
                 ELSE (CHOOSE o \in Lettered(Last(args[i].letters)) : TRUE).name
      one(i) == IF value[i] THEN << >>
                ELSE IF takes(i) /\ i < Len(args)
                     THEN <<[form |-> "long", name |-> name(i), val |-> args[i + 1]]>>
                ELSE <<args[i]>>
  IN FlattenSeq([i \in DOMAIN args |-> one(i)])
=============================================================================
