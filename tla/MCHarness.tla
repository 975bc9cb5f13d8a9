----------------------------- MODULE MCHarness -----------------------------
(* Harness for TLC: the words that occur on the command lines and a small   *)
(* core with a ring that wraps.  Where a run ends with its usage text the   *)
(* words of the instruction tables come by instead: nothing else in the     *)
(* model depends on them.                                                   *)
EXTENDS Harness, Decoder

MCNumber == [w \in {"0", "4", "6", "9"} |->
               CASE w = "0" -> 0 [] w = "4" -> 4 [] w = "6" -> 6 [] OTHER -> 9]
MCFlagNames == {"FTQ,COMMIT"}
MCFiles == {"prog"}
MCLibraries == {"ref.so"}

\* "t9" stores 9, "i100t9" and "9" store nothing; an empty text ends too
\* early, so that the variable keeps what was on the stack
MCLimit == [w \in {"t9", "i100t9", "9", ""} |->
              CASE w = "t9" -> {9} [] w = "" -> {0, 5, Forever} [] OTHER -> {Forever}]

File == Short(<<"f">>)
Prog == Word("prog")

Runs ==
  {<<File, Prog, Long("end"), Word("")>>,
   <<LongIs("exec-file", "prog"), LongIs("diff-so", "ref.so")>>,
   <<File, Prog, Long("debug-flags"), Word("FTQ,COMMIT"), Long("debug-start"), Word("4"),
     LongIs("debug-end", "9"), Short(<<"d">>), Word("ref.so")>>,
   <<Prog, Short(<<"e">>), Word("t9"), LongIs("debug-flags", "FTQ,COMMIT"), File, Prog>>,
   <<File, Prog, Short(<<"e">>), Word("t9"), Long("debug-flags"), Word("FTQ,COMMIT"),
     LongIs("debug-start", "6")>>}

Mistakes ==
  {<< >>, <<Prog>>, <<Long("help")>>, <<File>>, <<File, Word("none")>>, <<File, File>>,
   <<Short(<<"f", "e">>), Word("t9")>>, <<File, Prog, Long("debug-start"), Prog>>,
   <<File, Prog, LongIs("debug-start", "9"), LongIs("debug-end", "4")>>,
   <<File, Prog, Long("debug-flags"), Prog>>, <<File, Prog, Short(<<"d">>), Prog>>,
   <<File, Prog, LongIs("trace-start", "0")>>, <<File, Prog, Long("nothing")>>,
   <<File, Prog, Short(<<"e">>), Short(<<"e">>)>>, <<LongIs("help", "0"), File, Prog>>}

MCArgLists == Runs \union Mistakes

Inst(kind, err) == [kind |-> kind, err |-> err]
MCInsts == {Inst("plain", "none"), Inst("plain", "val"), Inst("branch", "npc"),
            Inst("exit", "none"), Inst("exit", "pc"), Inst("trap", "none")}

MCInit == Init /\ inst = NoInst

MCNext ==
  \/ Next /\ UNCHANGED inst
  \/ phase = "done" /\ argv = << >> /\ Arrive /\ UNCHANGED vars

MCSpec == MCInit /\ [][MCNext]_<<vars, inst>> /\ WF_vars(Next)
=============================================================================
