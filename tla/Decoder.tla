------------------------------ MODULE Decoder ------------------------------
(***************************************************************************)
(* The instruction decoder (decoder.sv), as a function of the word, next   *)
(* to the disassembler that names the same word in the traces: the two     *)
(* were written from different sources and meet nowhere in the code.       *)
(* Encodings of the decoder that no output depends on are left out.        *)
(***************************************************************************)
EXTENDS Disassembler, FiniteSets

VARIABLE inst     \* the word at the decoder, or NoInst

\* inst_...: opcode; opcode and funct3; with funct7; with the upper six bits
ByOpcode == [lui |-> 55, auipc |-> 23, jal |-> 111]

ByFunct3 ==
  [addi |-> <<19, 0>>, slti |-> <<19, 2>>, sltiu |-> <<19, 3>>, xori |-> <<19, 4>>, ori |-> <<19, 6>>,
   andi |-> <<19, 7>>, addiw |-> <<27, 0>>, jalr |-> <<103, 0>>,
   beq |-> <<99, 0>>, bne |-> <<99, 1>>, blt |-> <<99, 4>>, bge |-> <<99, 5>>, bltu |-> <<99, 6>>, bgeu |-> <<99, 7>>,
   lb |-> <<3, 0>>, lh |-> <<3, 1>>, lw |-> <<3, 2>>, ld |-> <<3, 3>>, lbu |-> <<3, 4>>, lhu |-> <<3, 5>>, lwu |-> <<3, 6>>,
   sb |-> <<35, 0>>, sh |-> <<35, 1>>, sw |-> <<35, 2>>, sd |-> <<35, 3>>,
   csrrw |-> <<115, 1>>, csrrs |-> <<115, 2>>, csrrc |-> <<115, 3>>,
   csrrwi |-> <<115, 5>>, csrrsi |-> <<115, 6>>, csrrci |-> <<115, 7>>]

ByFunct7 ==
  [add |-> <<51, 0, 0>>, sub |-> <<51, 0, 32>>, sll |-> <<51, 1, 0>>, slt |-> <<51, 2, 0>>, sltu |-> <<51, 3, 0>>,
   xor |-> <<51, 4, 0>>, srl |-> <<51, 5, 0>>, sra |-> <<51, 5, 32>>, or |-> <<51, 6, 0>>, and |-> <<51, 7, 0>>,
   addw |-> <<59, 0, 0>>, subw |-> <<59, 0, 32>>, sllw |-> <<59, 1, 0>>, srlw |-> <<59, 5, 0>>, sraw |-> <<59, 5, 32>>,
   slliw |-> <<27, 1, 0>>, srliw |-> <<27, 5, 0>>, sraiw |-> <<27, 5, 32>>,
   mul |-> <<51, 0, 1>>, mulh |-> <<51, 1, 1>>, mulhsu |-> <<51, 2, 1>>, mulhu |-> <<51, 3, 1>>, mulw |-> <<59, 0, 1>>,
   div |-> <<51, 4, 1>>, divu |-> <<51, 5, 1>>, divw |-> <<59, 4, 1>>, divuw |-> <<59, 5, 1>>,
   rem |-> <<51, 6, 1>>, remu |-> <<51, 7, 1>>, remw |-> <<59, 6, 1>>, remuw |-> <<59, 7, 1>>]

\* mutant: the shift amount has five bits, as in RV32
ByUpper6_Rv32 == [slli |-> <<19, 1, 0>>, srli |-> <<19, 5, 0>>, srai |-> <<19, 4, 16>>]

ByUpper6 == [slli |-> <<19, 1, 0>>, srli |-> <<19, 5, 0>>, srai |-> <<19, 5, 16>>]

Whole == [ecall |-> <<\h0, \h73>>, ebreak |-> <<\h10, \h73>>, mret |-> <<\h3020, \h73>>]

\* compressed instructions that isAdd, isSub and isShift take: match and mask
Compressed ==
  [c_add |-> <<\h9002, \hf003>>, c_addi |-> <<\h1, \he003>>, c_addi16sp |-> <<\h6101, \hef83>>,
   c_addi4spn |-> <<\h0, \he003>>, c_addiw |-> <<\h2001, \he003>>, c_addw |-> <<\h9c21, \hfc63>>,
   c_sub |-> <<\h8c01, \hfc63>>, c_subw |-> <<\h9c01, \hfc63>>,
   c_srai |-> <<\h8401, \hec03>>, c_srli |-> <<\h8001, \hec03>>, c_slli |-> <<\h2, \he003>>]

inst_UNIMP(w) == w = Zero

\* the names of the instructions that a word is; isUnknow when there is none
Names(w) ==
  LET op == Bits(w, 0, 7)
      f3 == Bits(w, 12, 3)
      compressed == {n \in DOMAIN Compressed : Under(w[2], Compressed[n][2]) = Compressed[n][1]}
  IN {n \in DOMAIN ByOpcode : ByOpcode[n] = op}
     \union {n \in DOMAIN ByFunct3 : ByFunct3[n] = <<op, f3>>}
     \union {n \in DOMAIN ByFunct7 : ByFunct7[n] = <<op, f3, Bits(w, 25, 7)>>}
     \union {n \in DOMAIN ByUpper6 : ByUpper6[n] = <<op, f3, Bits(w, 26, 6)>>}
     \union {n \in DOMAIN Whole : Whole[n] = w}
     \union (IF inst_UNIMP(w) THEN compressed \ {"c_addi4spn"} ELSE compressed)

isCondBranch == {"beq", "bne", "blt", "bge", "bltu", "bgeu"}
isUncondBranch == {"jal", "jalr"}
isLoad == {"lb", "lbu", "lh", "lhu", "lw", "lwu", "ld"}
isStore == {"sb", "sh", "sw", "sd"}
isMulDiv == {"mul", "mulh", "mulhsu", "mulhu", "mulw",
             "div", "divu", "divuw", "divw", "rem", "remu", "remuw", "remw"}
isCSR == {"csrrw", "csrrs", "csrrc", "csrrwi", "csrrsi", "csrrci"}
isSYS == DOMAIN Whole
isShiftImm == {"slli", "slliw", "srli", "srliw", "srai", "sraiw"}
isImmMath == isShiftImm \union {"addi", "addiw", "andi", "ori", "xori", "slti", "sltiu"}
isIntMath ==
  isImmMath \union {"add", "addw", "sub", "subw", "sll", "sllw", "srl", "srlw", "sra", "sraw",
                    "and", "or", "xor", "slt", "sltu"} \union DOMAIN Compressed

\* mutant: auipc goes to the arithmetic units, as lui does
Queue_AuipcToAlu(n) ==
  CASE n \in isIntMath \union {"lui", "auipc"} -> "ALU"
    [] n \in isCondBranch \union isUncondBranch -> "BRU"
    [] n \in isLoad -> "LDU" [] n \in isStore -> "STU"
    [] n \in isMulDiv -> "MDU" [] n \in isCSR \union isSYS -> "SCU"

\* issueQue_id
Queue(n) ==
  CASE n \in isIntMath \union {"lui"} -> "ALU"
    [] n \in isCondBranch \union isUncondBranch \union {"auipc"} -> "BRU"
    [] n \in isLoad -> "LDU" [] n \in isStore -> "STU"
    [] n \in isMulDiv -> "MDU" [] n \in isCSR \union isSYS -> "SCU"

\* MicOp_t: the operations of each unit, numbered from 8, the unsigned loads
\* from 16
MicOps ==
  [ALU |-> <<"lui", "add", "sub", "addw", "subw", "sll", "srl", "sra", "sllw", "srlw", "sraw",
             "xor", "or", "and", "slt", "sltu">>,
   BRU |-> <<"auipc", "jal", "jalr", "beq", "bne", "blt", "bge", "bltu", "bgeu">>,
   SCU |-> <<"mret", "sret", "ecall", "ebreak", "csrrw", "csrrc", "csrrs", "csrrwi", "csrrci", "csrrsi">>,
   MDU |-> <<"mul", "mulw", "mulh", "mulhu", "mulhsu", "div", "divw", "divu", "rem", "remw", "remu", "remuw">>,
   LDU |-> <<"lb", "lh", "lw", "ld", "", "", "", "", "lbu", "lhu", "lwu">>,
   STU |-> <<"sb", "sh", "sw", "sd">>]

\* instructions that share the operation of another
SameOp ==
  [addi |-> "add", addiw |-> "addw", slli |-> "sll", srli |-> "srl", srai |-> "sra",
   slliw |-> "sllw", srliw |-> "srlw", sraiw |-> "sraw", xori |-> "xor", ori |-> "or", andi |-> "and",
   slti |-> "slt", sltiu |-> "sltu"]

\* micOp_type: the number of the operation in the unit that has it, or 0
micOp(n) ==
  LET op == IF n \in DOMAIN SameOp THEN SameOp[n] ELSE n
      numbers == {7 + k : k \in UNION {{i \in DOMAIN MicOps[u] : MicOps[u][i] = op} : u \in DOMAIN MicOps}}
  IN IF numbers = {} THEN 0 ELSE CHOOSE k \in numbers : TRUE

-----------------------------------------------------------------------------
\* a concatenation of bit fields <<lo, len>>, the highest first
Cat(w, fields) == FoldLeft(LAMBDA v, f : v * 2 ^ f[2] + Bits(w, f[1], f[2]), 0, fields)

sign8 == [k \in 1 .. 8 |-> <<31, 1>>]

\* mutant: bit 7 of a branch is taken as its lowest bit, as in a store
BranchFields_Store == sign8 \o <<<<31, 1>>, <<25, 6>>, <<7, 5>>>>

BranchFields == sign8 \o <<<<7, 1>>, <<25, 6>>, <<8, 4>>>>

\* imm20 without a sign
imm20(n, w) ==
  CASE n \in {"lui", "auipc"} -> Cat(w, <<<<12, 20>>>>)
    [] n \in isCondBranch -> 2 * Cat(w, BranchFields)
    [] n \in isStore -> Cat(w, sign8 \o <<<<25, 7>>, <<7, 5>>>>)
    [] n \in isLoad \union {"jalr"} \union (isImmMath \ isShiftImm) -> Cat(w, sign8 \o <<<<20, 12>>>>)
    [] n \in isShiftImm -> Bits(w, 20, 6)
    [] n = "jal" -> 2 * Cat(w, <<<<12, 8>>, <<20, 1>>, <<21, 10>>>>)
    [] n \in isCSR -> Cat(w, <<<<20, 12>>, <<15, 5>>>>)
    [] OTHER -> 0

\* rd_wen, ilrs1_ren and ilrs2_ren, for registers other than x0
Writes == {"lui", "auipc"} \union isUncondBranch \union isIntMath \union isCSR \union isLoad

ReadsFirst(n) == n \notin {"lui", "auipc", "jal"}
ReadsSecond == isCondBranch \union isStore \union isIntMath

\* the registers that go to the rename stage
Registers(n, w) ==
  {r \in {<<"rd", Bits(w, 7, 5)>>, <<"rs1", Bits(w, 15, 5)>>, <<"rs2", Bits(w, 20, 5)>>} :
     /\ r[2] # 0
     /\ CASE r[1] = "rd" -> n \in Writes [] r[1] = "rs1" -> ReadsFirst(n) [] OTHER -> n \in ReadsSecond}

-----------------------------------------------------------------------------
Supported == UNION {DOMAIN ByOpcode, DOMAIN ByFunct3, DOMAIN ByFunct7, DOMAIN ByUpper6, DOMAIN Whole}
KnownRow == [n \in Supported |-> RowOf(n)]

\* the explicit rows without the aliases
Plain == {r \in ToSet(Explicit) : r[1] \in Supported /\ r[4] = KnownRow[r[1]][4]}

(* Words of every row: its free bits all clear or all set; those of an      *)
(* instruction that the decoder knows, in patterns.                         *)
Extremes == {Zero, <<65535, 65535>>}
Patterns == LET halves == {0, 65535, \h5555, \haaaa, \h8001, \h7ffe} IN halves \X halves

Words ==
  {Encode(r, fill) : r \in ToSet(Explicit \o Unknown), fill \in Extremes}
    \union {Encode(r, fill) : r \in Plain, fill \in Patterns}

NoInst == << >>

Arrive == inst = NoInst /\ inst' \in Words

\* A trace shows an instruction under the first explicit row that it matches,
\* and otherwise under a known encoding: the search goes through three chains of
\* a hash table, and the chain of a row depends on its mask.
ExplicitFirst ==
  inst # NoInst =>
    LET p == Lookup(inst) e == Shapes(inst) IN p # << >> /\ (e # << >> => p[1] = e[1])

\* No row is hidden behind one that is added before it and says less: hints and
\* aliases lie inside the encodings of other rows.
SpecificFirst ==
  inst # NoInst =>
    \A i, j \in DOMAIN Shapes(inst) :
      LET e == Shapes(inst) IN i < j /\ Within(e[i][4], e[j][4]) => e[i][4] = e[j][4]

\* The search finds the row that was meant.
TraceNames == ExplicitFirst /\ SpecificFirst

\* Words that the decoder takes for something else than the trace names.  Prefetches
\* are ori to x0, as the instruction set has it.  But the pattern of c_add covers
\* c.ebreak and c.jalr, which are not in isUnknow for themselves (decoder.sv:55,
\* 248), and a 16-bit zero is nothing only before another one (decoder.sv:23).
TakenFor ==
  [prefetch_r |-> "ori", prefetch_w |-> "ori", prefetch_i |-> "ori",
   c_ebreak |-> "c_add", c_jalr |-> "c_add", none |-> "c_addi4spn"]

\* What the decoder executes is what the trace shows, and a word that the trace
\* shows as an instruction of which the decoder knows nothing is reported illegal,
\* those of other extensions included; TakenFor lists the exceptions, all of them.
PatternsAgree ==
  inst # NoInst =>
    LET code == Traced(inst)
        taken == IF code \in DOMAIN TakenFor THEN TakenFor[code] ELSE code
    IN Names(inst) = IF inst = Zero THEN {} ELSE {taken} \cap (Supported \union DOMAIN Compressed)

\* The number of an operation, which units share, means the instruction in the
\* unit whose queue it is sent to.  For divuw MicOp_t has no number.
UnitUnderstands ==
  inst # NoInst =>
    \A n \in (Names(inst) \cap Supported) \ {"divuw"} :
      micOp(n) # 0 /\ MicOps[Queue(n)][micOp(n) - 7] \in {n} \union {SameOp[m] : m \in {n} \cap DOMAIN SameOp}

\* the plain rows of the word, and what their arguments show
Shown == IF inst = NoInst THEN {} ELSE {r \in Plain : Matches(inst, r)}
Args(r) == ToSet(r[5])

\* arguments whose bits lie where another format has a register
Lookalike == [imm |-> "rs2", shamt |-> "rs2", zimm5 |-> "rs1"]

\* The registers that the trace shows as operands are those that the decoder has
\* renamed.  Beyond them an immediate operation waits for the register that its
\* immediate looks like; multiplications and divisions are not finished.
OperandsAgree ==
  \A r \in {q \in Shown : q[1] \notin isMulDiv} :
    LET named == {g \in UNION {Reg(a, inst) : a \in Args(r)} : g[2] # 0}
        taken == Registers(r[1], inst)
    IN /\ named \subseteq taken
       /\ \A g \in taken \ named : \E a \in Args(r) \cap DOMAIN Lookalike : Lookalike[a] = g[1]

\* what the units make of imm20
Value(arg, imm) ==
  CASE arg = "csr" -> imm \div 32
    [] arg = "zimm5" -> imm % 32
    [] arg \in {"bigimm", "shamt"} -> imm
    [] OTHER -> Signed(imm, 20)

\* the distance of a jump has one bit more than imm20 holds
FarJump(arg) == arg = "jump_target" /\ Imm(arg, inst) \notin -(2 ^ 19) .. 2 ^ 19 - 1

\* The immediate that the units compute with is the one that the trace shows, but
\* for jumps beyond 512 KB, which land 1 MB off (decoder.sv:271).
ImmediatesAgree ==
  \A r \in Shown : \A a \in Args(r) \cap ImmArgs :
    LET off == Value(a, imm20(r[1], inst)) - Imm(a, inst)
    IN off = IF ~FarJump(a) THEN 0 ELSE IF imm_sign(inst) < 0 THEN 2 ^ 20 ELSE -(2 ^ 20)

\* What the core executes is what the trace shows: registers and immediates.
ShownIsExecuted == OperandsAgree /\ ImmediatesAgree
=============================================================================
