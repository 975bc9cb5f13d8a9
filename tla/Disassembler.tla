---------------------------- MODULE Disassembler ----------------------------
(***************************************************************************)
(* The disassembler of the simulator (disasm.cpp, disasm.h), which names   *)
(* every instruction in the traces: rows of encodings in a hash table of   *)
(* chains.  The explicit rows (aliases, hints, base instructions with      *)
(* their arguments) are added first, then every known encoding without     *)
(* arguments.  Only rows that the code compiles in are here; an argument   *)
(* is known by its name in the code.                                       *)
(***************************************************************************)
EXTENDS Integers, Opcodes, SequencesExt

Zero == <<0, 0>>

\* bits and masks of 16-bit halves, four bits at a time
NibbleAnd ==
  [a, b \in 0 .. 15 |->
     LET bit(k) == IF (a \div k) % 2 = 1 /\ (b \div k) % 2 = 1 THEN k ELSE 0
     IN bit(1) + bit(2) + bit(4) + bit(8)]

Under(half, m) ==
  LET part(k) == NibbleAnd[(half \div k) % 16, (m \div k) % 16] * k
  IN part(1) + part(16) + part(256) + part(4096)

\* x(lo, len) and xs(lo, len) of a word
Bits(w, lo, len) ==
  IF lo >= 16 THEN (w[1] \div 2 ^ (lo - 16)) % 2 ^ len
  ELSE IF lo + len <= 16 THEN (w[2] \div 2 ^ lo) % 2 ^ len
  ELSE (w[2] \div 2 ^ lo) + ((w[1] % 2 ^ (lo + len - 16)) * 2 ^ (16 - lo))

Signed(v, len) == IF v >= 2 ^ (len - 1) THEN v - 2 ^ len ELSE v
SBits(w, lo, len) == Signed(Bits(w, lo, len), len)

imm_sign(w) == SBits(w, 31, 1)

Imm(arg, w) ==
  CASE arg \in {"imm", "load_address"} -> SBits(w, 20, 12)
    [] arg = "store_address" -> Bits(w, 7, 5) + SBits(w, 25, 7) * 32
    [] arg = "shamt" -> Bits(w, 20, 6)
    [] arg = "bigimm" -> Bits(w, 12, 20)
    [] arg = "branch_target" ->
         Bits(w, 8, 4) * 2 + Bits(w, 25, 6) * 32 + Bits(w, 7, 1) * 2048 + imm_sign(w) * 4096
    [] arg = "jump_target" ->
         Bits(w, 21, 10) * 2 + Bits(w, 20, 1) * 2048 + Bits(w, 12, 8) * 4096 + imm_sign(w) * 2 ^ 20
    [] arg = "csr" -> Bits(w, 20, 12)
    [] arg = "zimm5" -> Bits(w, 15, 5)

ImmArgs ==
  {"imm", "load_address", "store_address", "shamt", "bigimm", "branch_target", "jump_target", "csr", "zimm5"}

\* registers that an argument names
Reg(arg, w) ==
  CASE arg = "xrd" -> {<<"rd", Bits(w, 7, 5)>>}
    [] arg \in {"xrs1", "load_address", "store_address"} -> {<<"rs1", Bits(w, 15, 5)>>}
    [] arg = "xrs2" -> {<<"rs2", Bits(w, 20, 5)>>}
    [] OTHER -> {}

-----------------------------------------------------------------------------
(* Rows: <<name, high half, low half, mask, arguments>>.                   *)

Matches(w, row) == Under(w[2], row[4][2]) = row[3] /\ Under(w[1], row[4][1]) = row[2]

Plus(a, b) == <<a[1] + b[1], a[2] + b[2]>>

mask_rd == <<0, \hf80>>
mask_rs1 == <<\hf, \h8000>>
mask_rs2 == <<\h1f0, 0>>
mask_imm == <<\hfff0, 0>>
match_rd_ra == <<0, \h80>>
match_rs1_ra == <<0, \h8000>>

RowOf(code) == SelectSeq(DeclareInsn, LAMBDA r : r[1] = code)[1]

\* What is asked for: a row of an encoding with more bits fixed, extra being
\* the additional mask and bits their value.
Alias(name, code, bits, extra, args) == <<name, code, bits, extra, args>>

\* DISASM_INSN, the row that is added
Joined(m, r, a) == <<a[1], m[1], m[2], Plus(r[4], a[4]), a[5]>>
Fixed(r, a) == Joined(Plus(<<r[2], r[3]>>, a[3]), r, a)
Made(a) == IF a[2] = "none" THEN <<a[1], 0, 0, a[4], a[5]>> ELSE Fixed(RowOf(a[2]), a)

\* the add_..._insn helpers: rows of a format, under their own encodings
Rows(codes, args) == [i \in DOMAIN codes |-> Alias(codes[i], codes[i], Zero, Zero, args)]

RType == <<"xrd", "xrs1", "xrs2">>
IType == <<"xrd", "xrs1", "imm">>
ShiftType == <<"xrd", "xrs1", "shamt">>
BType == <<"xrs1", "xrs2", "branch_target">>

Beqz(name, code) == Alias(name, code, Zero, mask_rs2, <<"xrs1", "branch_target">>)

Hints ==
  <<Alias("unimp", "csrrw", <<\hc000, 0>>, <<\hffff, \h8f80>>, << >>), Alias("c.unimp", "none", Zero, mC16, << >>)>>
  \o Rows(<<"prefetch_r", "prefetch_w", "prefetch_i">>, <<"store_address">>) \o Rows(<<"pause">>, << >>)

LoadsStores ==
  Rows(<<"lb", "lbu", "lh", "lhu", "lw", "lwu", "ld">>, <<"xrd", "load_address">>)
  \o Rows(<<"sb", "sh", "sw", "sd">>, <<"xrs2", "store_address">>)

Jumps ==
  <<Alias("j", "jal", Zero, mask_rd, <<"jump_target">>), Alias("jal", "jal", match_rd_ra, mask_rd, <<"jump_target">>)>>
  \o Rows(<<"jal">>, <<"xrd", "jump_target">>)
  \o <<Beqz("beqz", "beq"), Beqz("bnez", "bne"), Beqz("bltz", "blt"), Beqz("bgez", "bge")>>
  \o Rows(<<"beq", "bne", "blt", "bge", "bltu", "bgeu">>, BType)
  \o Rows(<<"lui", "auipc">>, <<"xrd", "bigimm">>)
  \o <<Alias("ret", "jalr", match_rs1_ra, Plus(Plus(mask_rd, mask_rs1), mask_imm), << >>),
       Alias("jr", "jalr", Zero, Plus(mask_rd, mask_imm), <<"xrs1">>),
       Alias("jalr", "jalr", match_rd_ra, Plus(mask_rd, mask_imm), <<"xrs1">>)>>
  \o Rows(<<"jalr">>, IType)

Arithmetic ==
  <<Alias("nop", "addi", Zero, Plus(Plus(mask_rd, mask_rs1), mask_imm), << >>),
    Alias("li", "addi", Zero, mask_rs1, <<"xrd", "imm">>), Alias("mv", "addi", Zero, mask_imm, <<"xrd", "xrs1">>)>>
  \o Rows(<<"addi", "slti">>, IType)
  \o <<Alias("seqz", "sltiu", <<\h10, 0>>, mask_imm, <<"xrd", "xrs1">>)>> \o Rows(<<"sltiu">>, IType)
  \o <<Alias("not", "xori", mask_imm, mask_imm, <<"xrd", "xrs1">>)>> \o Rows(<<"xori">>, IType)
  \o Rows(<<"slli", "srli", "srai">>, ShiftType) \o Rows(<<"ori", "andi">>, IType)
  \o <<Alias("sext.w", "addiw", Zero, mask_imm, <<"xrd", "xrs1">>)>> \o Rows(<<"addiw">>, IType)
  \o Rows(<<"slliw", "srliw", "sraiw">>, ShiftType)
  \o Rows(<<"add", "sub", "sll", "slt">>, RType)
  \o <<Alias("snez", "sltu", Zero, mask_rs1, <<"xrd", "xrs2">>)>>
  \o Rows(<<"sltu", "xor", "srl", "sra", "or", "and", "addw", "subw", "sllw", "srlw", "sraw">>, RType)

Csr(name, code) == Alias(name, code, Zero, mask_rd, <<"csr", "xrs1">>)
Csri(name, code) == Alias(name, code, Zero, mask_rd, <<"csr", "zimm5">>)

System ==
  Rows(<<"ecall", "ebreak", "mret", "dret", "wfi">>, << >>) \o Rows(<<"fence">>, <<"iorw">>) \o Rows(<<"fence_i">>, << >>)
  \o <<Alias("csrr", "csrrs", Zero, mask_rs1, <<"xrd", "csr">>),
       Csr("csrw", "csrrw"), Csr("csrs", "csrrs"), Csr("csrc", "csrrc"),
       Csri("csrwi", "csrrwi"), Csri("csrsi", "csrrsi"), Csri("csrci", "csrrci")>>
  \o Rows(<<"csrrw", "csrrs", "csrrc">>, <<"xrd", "csr", "xrs1">>)
  \o Rows(<<"csrrwi", "csrrsi", "csrrci">>, <<"xrd", "csr", "zimm5">>)
  \o Rows(<<"sret">>, << >>) \o Rows(<<"sfence_vma">>, <<"xrs1", "xrs2">>)
  \o Rows(<<"mul", "mulh", "mulhu", "mulhsu", "mulw", "div", "divu", "rem", "remu", "divw", "divuw", "remw", "remuw">>, RType)

\* add_instructions: in the order in which they are added
Asked == Hints \o LoadsStores \o Jumps \o Arithmetic \o System
Explicit == [i \in DOMAIN Asked |-> Made(Asked[i])]

\* add_unknown_insns: every encoding, without arguments
Unknown == [i \in DOMAIN DeclareInsn |-> Append(DeclareInsn[i], << >>)]

-----------------------------------------------------------------------------
HASH_SIZE == 255

\* hash with MASK1 = 0x7f and with MASK2 = 0xe003, of the low half
Hash1(low) == low % 128
Hash2(low) == ((low \div 8192) * 8192 + (low % 4)) % HASH_SIZE

\* mutant: the chain of an instruction is found without a look at its mask
ChainOf_Unmasked(row) == Hash1(row[3])

\* add_insn
ChainOf(row) ==
  LET m == row[4][2]
  IN IF m % 128 = 127 THEN Hash1(row[3])
     ELSE IF m \div 8192 = 7 /\ m % 4 = 3 THEN Hash2(row[3]) ELSE HASH_SIZE

\* Reversed after construction and searched from the back: in the order added.
chain == LET all == Explicit \o Unknown
         IN [idx \in 0 .. HASH_SIZE |-> SelectSeq(all, LAMBDA r : ChainOf(r) = idx)]

\* << >> or the first row
FirstOf(rows) == IF rows = << >> THEN << >> ELSE <<rows[1]>>

\* probe_once
Probe(w, idx) == FirstOf(SelectSeq(chain[idx], LAMBDA r : Matches(w, r)))

Lookup(w) == FirstOf(Probe(w, Hash1(w[2])) \o Probe(w, Hash2(w[2])) \o Probe(w, HASH_SIZE))

\* the encodings that the explicit rows stand for: an alias for that of another row
CodeOf == [name \in {a[1] : a \in ToSet(Asked)} |->
             CHOOSE code \in {a[2] : a \in ToSet(Asked)} :
               \E a \in ToSet(Asked) : a[1] = name /\ a[2] = code]

\* the encoding that a trace shows a word under
Traced(w) ==
  LET name == Lookup(w)[1][1]
  IN IF name \in DOMAIN CodeOf THEN CodeOf[name] ELSE name

-----------------------------------------------------------------------------
\* a word of a row: bits that its mask leaves free are taken from fill
Encode(row, fill) ==
  <<row[2] + Under(fill[1], 65535 - row[4][1]), row[3] + Under(fill[2], 65535 - row[4][2])>>

\* the explicit rows that a word matches, in their order
Shapes(w) == SelectSeq(Explicit, LAMBDA r : Matches(w, r))

\* every bit of mask m is in mask n
Within(m, n) == Under(m[1], n[1]) = m[1] /\ Under(m[2], n[2]) = m[2]
=============================================================================
