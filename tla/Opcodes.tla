------------------------------ MODULE Opcodes ------------------------------
(***************************************************************************)
(* The instruction encodings that the simulator's disassembler knows       *)
(* (encoding.h): 1365 rows <<name, high and low half of the match, mask>>, *)
(* in the order of the file.  A word belongs to a row when its bits under  *)
(* the mask are the match.  Words are pairs of 16-bit halves: TLC's        *)
(* integers have 32 bits with the sign.                                    *)
(***************************************************************************)
EXTENDS Naturals, Sequences

\* The 43 masks.  The frequent ones have names: mR fixes opcode, funct3 and
\* funct7; mI opcode and funct3; mU all but rd and rs1; mC the quadrant and
\* funct3 of a 16-bit instruction; mAll everything.
mR == <<\hfe00, \h707f>>
mI == <<\h0000, \h707f>>
mU == <<\hfff0, \h707f>>
mAmo == <<\hf800, \h707f>>
mV == <<\hfc00, \h707f>>
mC == <<\h0000, \he003>>
mC16 == <<\h0000, \hffff>>
mAll == <<\hffff, \hffff>>
mF == <<\hfe00, \h007f>>
mFU == <<\hfff0, \h007f>>
mF4 == <<\h0600, \h007f>>
mVV == <<\hfe0f, \hf07f>>
mVU == <<\hfc0f, \hf07f>>
mVL == <<\h1df0, \h707f>>
mVX == <<\h1c00, \h707f>>
m3e00707f == <<\h3e00, \h707f>>
mff00707f == <<\hff00, \h707f>>
m0000007f == <<\h0000, \h007f>>
m0000f003 == <<\h0000, \hf003>>
m0000ef83 == <<\h0000, \hef83>>
m0000fc63 == <<\h0000, \hfc63>>
m0000ec03 == <<\h0000, \hec03>>
m0000f07f == <<\h0000, \hf07f>>
m0000fc03 == <<\h0000, \hfc03>>
m0000fc43 == <<\h0000, \hfc43>>
m0000f8ff == <<\h0000, \hf8ff>>
m0000fc7f == <<\h0000, \hfc7f>>
mfff07fff == <<\hfff0, \h7fff>>
m0000ff03 == <<\h0000, \hff03>>
m0600707f == <<\h0600, \h707f>>
m0400707f == <<\h0400, \h707f>>
mfe007fff == <<\hfe00, \h7fff>>
mff80707f == <<\hff80, \h707f>>
mfdf0707f == <<\hfdf0, \h707f>>
mf9f0707f == <<\hf9f0, \h707f>>
mb3c0707f == <<\hb3c0, \h707f>>
mb200707f == <<\hb200, \h707f>>
m01f07fff == <<\h01f0, \h7fff>>
mfa007fff == <<\hfa00, \h7fff>>
mfffff07f == <<\hffff, \hf07f>>
mfdfff07f == <<\hfdff, \hf07f>>
mc000707f == <<\hc000, \h707f>>
m8000707f == <<\h8000, \h707f>>

\* add to beq
Opcodes01 == <<
  <<"add", \h0, \h33, mR>>, <<"add16", \h4000, \h77, mR>>, <<"add32", \h4000, \h2077, mR>>,
  <<"add64", \hc000, \h1077, mR>>, <<"add8", \h4800, \h77, mR>>, <<"add_uw", \h800, \h3b, mR>>,
  <<"addd", \h0, \h7b, mR>>, <<"addi", \h0, \h13, mI>>, <<"addid", \h0, \h5b, mI>>, <<"addiw", \h0, \h1b, mI>>,
  <<"addw", \h0, \h3b, mR>>, <<"aes32dsi", \h2a00, \h33, m3e00707f>>, <<"aes32dsmi", \h2e00, \h33, m3e00707f>>,
  <<"aes32esi", \h2200, \h33, m3e00707f>>, <<"aes32esmi", \h2600, \h33, m3e00707f>>, <<"aes64ds", \h3a00, \h33, mR>>,
  <<"aes64dsm", \h3e00, \h33, mR>>, <<"aes64es", \h3200, \h33, mR>>, <<"aes64esm", \h3600, \h33, mR>>,
  <<"aes64im", \h3000, \h1013, mU>>, <<"aes64ks1i", \h3100, \h1013, mff00707f>>, <<"aes64ks2", \h7e00, \h33, mR>>,
  <<"amoadd_b", \h0, \h2f, mAmo>>, <<"amoadd_d", \h0, \h302f, mAmo>>, <<"amoadd_h", \h0, \h102f, mAmo>>,
  <<"amoadd_w", \h0, \h202f, mAmo>>, <<"amoand_b", \h6000, \h2f, mAmo>>, <<"amoand_d", \h6000, \h302f, mAmo>>,
  <<"amoand_h", \h6000, \h102f, mAmo>>, <<"amoand_w", \h6000, \h202f, mAmo>>, <<"amocas_b", \h2800, \h2f, mAmo>>,
  <<"amocas_d", \h2800, \h302f, mAmo>>, <<"amocas_h", \h2800, \h102f, mAmo>>, <<"amocas_q", \h2800, \h402f, mAmo>>,
  <<"amocas_w", \h2800, \h202f, mAmo>>, <<"amomax_b", \ha000, \h2f, mAmo>>, <<"amomax_d", \ha000, \h302f, mAmo>>,
  <<"amomax_h", \ha000, \h102f, mAmo>>, <<"amomax_w", \ha000, \h202f, mAmo>>, <<"amomaxu_b", \he000, \h2f, mAmo>>,
  <<"amomaxu_d", \he000, \h302f, mAmo>>, <<"amomaxu_h", \he000, \h102f, mAmo>>,
  <<"amomaxu_w", \he000, \h202f, mAmo>>, <<"amomin_b", \h8000, \h2f, mAmo>>, <<"amomin_d", \h8000, \h302f, mAmo>>,
  <<"amomin_h", \h8000, \h102f, mAmo>>, <<"amomin_w", \h8000, \h202f, mAmo>>, <<"amominu_b", \hc000, \h2f, mAmo>>,
  <<"amominu_d", \hc000, \h302f, mAmo>>, <<"amominu_h", \hc000, \h102f, mAmo>>,
  <<"amominu_w", \hc000, \h202f, mAmo>>, <<"amoor_b", \h4000, \h2f, mAmo>>, <<"amoor_d", \h4000, \h302f, mAmo>>,
  <<"amoor_h", \h4000, \h102f, mAmo>>, <<"amoor_w", \h4000, \h202f, mAmo>>, <<"amoswap_b", \h800, \h2f, mAmo>>,
  <<"amoswap_d", \h800, \h302f, mAmo>>, <<"amoswap_h", \h800, \h102f, mAmo>>, <<"amoswap_w", \h800, \h202f, mAmo>>,
  <<"amoxor_b", \h2000, \h2f, mAmo>>, <<"amoxor_d", \h2000, \h302f, mAmo>>, <<"amoxor_h", \h2000, \h102f, mAmo>>,
  <<"amoxor_w", \h2000, \h202f, mAmo>>, <<"and", \h0, \h7033, mR>>, <<"andi", \h0, \h7013, mI>>,
  <<"andn", \h4000, \h7033, mR>>, <<"auipc", \h0, \h17, m0000007f>>, <<"ave", \he000, \h77, mR>>,
  <<"bclr", \h4800, \h1033, mR>>, <<"bclri", \h4800, \h1013, mV>>, <<"bcompress", \h800, \h6033, mR>>,
  <<"bcompressw", \h800, \h603b, mR>>, <<"bdecompress", \h4800, \h6033, mR>>, <<"bdecompressw", \h4800, \h603b, mR>>,
  <<"beq", \h0, \h63, mI>>>>

\* bext to c_srli
Opcodes02 == <<
  <<"bext", \h4800, \h5033, mR>>, <<"bexti", \h4800, \h5013, mV>>, <<"bfp", \h4800, \h7033, mR>>,
  <<"bfpw", \h4800, \h703b, mR>>, <<"bge", \h0, \h5063, mI>>, <<"bgeu", \h0, \h7063, mI>>,
  <<"binv", \h6800, \h1033, mR>>, <<"binvi", \h6800, \h1013, mV>>, <<"blt", \h0, \h4063, mI>>,
  <<"bltu", \h0, \h6063, mI>>, <<"bmatflip", \h6030, \h1013, mU>>, <<"bmator", \h800, \h3033, mR>>,
  <<"bmatxor", \h4800, \h3033, mR>>, <<"bne", \h0, \h1063, mI>>, <<"bset", \h2800, \h1033, mR>>,
  <<"bseti", \h2800, \h1013, mV>>, <<"c_add", \h0, \h9002, m0000f003>>, <<"c_addi", \h0, \h1, mC>>,
  <<"c_addi16sp", \h0, \h6101, m0000ef83>>, <<"c_addi4spn", \h0, \h0, mC>>, <<"c_addiw", \h0, \h2001, mC>>,
  <<"c_addw", \h0, \h9c21, m0000fc63>>, <<"c_and", \h0, \h8c61, m0000fc63>>, <<"c_andi", \h0, \h8801, m0000ec03>>,
  <<"c_beqz", \h0, \hc001, mC>>, <<"c_bnez", \h0, \he001, mC>>, <<"c_ebreak", \h0, \h9002, mC16>>,
  <<"c_fld", \h0, \h2000, mC>>, <<"c_fldsp", \h0, \h2002, mC>>, <<"c_flw", \h0, \h6000, mC>>,
  <<"c_flwsp", \h0, \h6002, mC>>, <<"c_fsd", \h0, \ha000, mC>>, <<"c_fsdsp", \h0, \ha002, mC>>,
  <<"c_fsw", \h0, \he000, mC>>, <<"c_fswsp", \h0, \he002, mC>>, <<"c_j", \h0, \ha001, mC>>,
  <<"c_jal", \h0, \h2001, mC>>, <<"c_jalr", \h0, \h9002, m0000f07f>>, <<"c_jr", \h0, \h8002, m0000f07f>>,
  <<"c_lbu", \h0, \h8000, m0000fc03>>, <<"c_ld", \h0, \h6000, mC>>, <<"c_ldsp", \h0, \h6002, mC>>,
  <<"c_lh", \h0, \h8440, m0000fc43>>, <<"c_lhu", \h0, \h8400, m0000fc43>>, <<"c_li", \h0, \h4001, mC>>,
  <<"c_lq", \h0, \h2000, mC>>, <<"c_lqsp", \h0, \h2002, mC>>, <<"c_lui", \h0, \h6001, mC>>,
  <<"c_lw", \h0, \h4000, mC>>, <<"c_lwsp", \h0, \h4002, mC>>, <<"c_mop_1", \h0, \h6081, mC16>>,
  <<"c_mop_11", \h0, \h6581, mC16>>, <<"c_mop_13", \h0, \h6681, mC16>>, <<"c_mop_15", \h0, \h6781, mC16>>,
  <<"c_mop_3", \h0, \h6181, mC16>>, <<"c_mop_5", \h0, \h6281, mC16>>, <<"c_mop_7", \h0, \h6381, mC16>>,
  <<"c_mop_9", \h0, \h6481, mC16>>, <<"c_mop_N", \h0, \h6081, m0000f8ff>>, <<"c_mul", \h0, \h9c41, m0000fc63>>,
  <<"c_mv", \h0, \h8002, m0000f003>>, <<"c_nop", \h0, \h1, m0000ef83>>, <<"c_not", \h0, \h9c75, m0000fc7f>>,
  <<"c_or", \h0, \h8c41, m0000fc63>>, <<"c_sb", \h0, \h8800, m0000fc03>>, <<"c_sd", \h0, \he000, mC>>,
  <<"c_sdsp", \h0, \he002, mC>>, <<"c_sext_b", \h0, \h9c65, m0000fc7f>>, <<"c_sext_h", \h0, \h9c6d, m0000fc7f>>,
  <<"c_sh", \h0, \h8c00, m0000fc43>>, <<"c_slli", \h0, \h2, mC>>, <<"c_sq", \h0, \ha000, mC>>,
  <<"c_sqsp", \h0, \ha002, mC>>, <<"c_srai", \h0, \h8401, m0000ec03>>, <<"c_srli", \h0, \h8001, m0000ec03>>>>

\* c_sspopchk_x5 to fclass_s
Opcodes03 == <<
  <<"c_sspopchk_x5", \h0, \h6281, mC16>>, <<"c_sspush_x1", \h0, \h6081, mC16>>, <<"c_sub", \h0, \h8c01, m0000fc63>>,
  <<"c_subw", \h0, \h9c01, m0000fc63>>, <<"c_sw", \h0, \hc000, mC>>, <<"c_swsp", \h0, \hc002, mC>>,
  <<"c_xor", \h0, \h8c21, m0000fc63>>, <<"c_zext_b", \h0, \h9c61, m0000fc7f>>,
  <<"c_zext_h", \h0, \h9c69, m0000fc7f>>, <<"c_zext_w", \h0, \h9c71, m0000fc7f>>,
  <<"cbo_clean", \h10, \h200f, mfff07fff>>, <<"cbo_flush", \h20, \h200f, mfff07fff>>,
  <<"cbo_inval", \h0, \h200f, mfff07fff>>, <<"cbo_zero", \h40, \h200f, mfff07fff>>, <<"clmul", \ha00, \h1033, mR>>,
  <<"clmulh", \ha00, \h3033, mR>>, <<"clmulr", \ha00, \h2033, mR>>, <<"clrs16", \hae80, \h77, mU>>,
  <<"clrs32", \haf80, \h77, mU>>, <<"clrs8", \hae00, \h77, mU>>, <<"clz", \h6000, \h1013, mU>>,
  <<"clz16", \hae90, \h77, mU>>, <<"clz32", \haf90, \h77, mU>>, <<"clz8", \hae10, \h77, mU>>,
  <<"clzw", \h6000, \h101b, mU>>, <<"cm_jalt", \h0, \ha002, m0000fc03>>, <<"cm_mva01s", \h0, \hac62, m0000fc63>>,
  <<"cm_mvsa01", \h0, \hac22, m0000fc63>>, <<"cm_pop", \h0, \hba02, m0000ff03>>,
  <<"cm_popret", \h0, \hbe02, m0000ff03>>, <<"cm_popretz", \h0, \hbc02, m0000ff03>>,
  <<"cm_push", \h0, \hb802, m0000ff03>>, <<"cmix", \h600, \h1033, m0600707f>>, <<"cmov", \h600, \h5033, m0600707f>>,
  <<"cmpeq16", \h4c00, \h77, mR>>, <<"cmpeq8", \h4e00, \h77, mR>>, <<"cpop", \h6020, \h1013, mU>>,
  <<"cpopw", \h6020, \h101b, mU>>, <<"cras16", \h4400, \h77, mR>>, <<"cras32", \h4400, \h2077, mR>>,
  <<"crc32_b", \h6100, \h1013, mU>>, <<"crc32_d", \h6130, \h1013, mU>>, <<"crc32_h", \h6110, \h1013, mU>>,
  <<"crc32_w", \h6120, \h1013, mU>>, <<"crc32c_b", \h6180, \h1013, mU>>, <<"crc32c_d", \h61b0, \h1013, mU>>,
  <<"crc32c_h", \h6190, \h1013, mU>>, <<"crc32c_w", \h61a0, \h1013, mU>>, <<"crsa16", \h4600, \h77, mR>>,
  <<"crsa32", \h4600, \h2077, mR>>, <<"csrrc", \h0, \h3073, mI>>, <<"csrrci", \h0, \h7073, mI>>,
  <<"csrrs", \h0, \h2073, mI>>, <<"csrrsi", \h0, \h6073, mI>>, <<"csrrw", \h0, \h1073, mI>>,
  <<"csrrwi", \h0, \h5073, mI>>, <<"ctz", \h6010, \h1013, mU>>, <<"ctzw", \h6010, \h101b, mU>>,
  <<"czero_eqz", \he00, \h5033, mR>>, <<"czero_nez", \he00, \h7033, mR>>, <<"div", \h200, \h4033, mR>>,
  <<"divu", \h200, \h5033, mR>>, <<"divuw", \h200, \h503b, mR>>, <<"divw", \h200, \h403b, mR>>,
  <<"dret", \h7b20, \h73, mAll>>, <<"ebreak", \h10, \h73, mAll>>, <<"ecall", \h0, \h73, mAll>>,
  <<"fadd_d", \h200, \h53, mF>>, <<"fadd_h", \h400, \h53, mF>>, <<"fadd_q", \h600, \h53, mF>>,
  <<"fadd_s", \h0, \h53, mF>>, <<"fclass_d", \he200, \h1053, mU>>, <<"fclass_h", \he400, \h1053, mU>>,
  <<"fclass_q", \he600, \h1053, mU>>, <<"fclass_s", \he000, \h1053, mU>>>>

\* fcvt_bf16_s to flt_q
Opcodes04 == <<
  <<"fcvt_bf16_s", \h4480, \h53, mFU>>, <<"fcvt_d_h", \h4220, \h53, mFU>>, <<"fcvt_d_l", \hd220, \h53, mFU>>,
  <<"fcvt_d_lu", \hd230, \h53, mFU>>, <<"fcvt_d_q", \h4230, \h53, mFU>>, <<"fcvt_d_s", \h4200, \h53, mFU>>,
  <<"fcvt_d_w", \hd200, \h53, mFU>>, <<"fcvt_d_wu", \hd210, \h53, mFU>>, <<"fcvt_h_d", \h4410, \h53, mFU>>,
  <<"fcvt_h_l", \hd420, \h53, mFU>>, <<"fcvt_h_lu", \hd430, \h53, mFU>>, <<"fcvt_h_q", \h4430, \h53, mFU>>,
  <<"fcvt_h_s", \h4400, \h53, mFU>>, <<"fcvt_h_w", \hd400, \h53, mFU>>, <<"fcvt_h_wu", \hd410, \h53, mFU>>,
  <<"fcvt_l_d", \hc220, \h53, mFU>>, <<"fcvt_l_h", \hc420, \h53, mFU>>, <<"fcvt_l_q", \hc620, \h53, mFU>>,
  <<"fcvt_l_s", \hc020, \h53, mFU>>, <<"fcvt_lu_d", \hc230, \h53, mFU>>, <<"fcvt_lu_h", \hc430, \h53, mFU>>,
  <<"fcvt_lu_q", \hc630, \h53, mFU>>, <<"fcvt_lu_s", \hc030, \h53, mFU>>, <<"fcvt_q_d", \h4610, \h53, mFU>>,
  <<"fcvt_q_h", \h4620, \h53, mFU>>, <<"fcvt_q_l", \hd620, \h53, mFU>>, <<"fcvt_q_lu", \hd630, \h53, mFU>>,
  <<"fcvt_q_s", \h4600, \h53, mFU>>, <<"fcvt_q_w", \hd600, \h53, mFU>>, <<"fcvt_q_wu", \hd610, \h53, mFU>>,
  <<"fcvt_s_bf16", \h4060, \h53, mFU>>, <<"fcvt_s_d", \h4010, \h53, mFU>>, <<"fcvt_s_h", \h4020, \h53, mFU>>,
  <<"fcvt_s_l", \hd020, \h53, mFU>>, <<"fcvt_s_lu", \hd030, \h53, mFU>>, <<"fcvt_s_q", \h4030, \h53, mFU>>,
  <<"fcvt_s_w", \hd000, \h53, mFU>>, <<"fcvt_s_wu", \hd010, \h53, mFU>>, <<"fcvt_w_d", \hc200, \h53, mFU>>,
  <<"fcvt_w_h", \hc400, \h53, mFU>>, <<"fcvt_w_q", \hc600, \h53, mFU>>, <<"fcvt_w_s", \hc000, \h53, mFU>>,
  <<"fcvt_wu_d", \hc210, \h53, mFU>>, <<"fcvt_wu_h", \hc410, \h53, mFU>>, <<"fcvt_wu_q", \hc610, \h53, mFU>>,
  <<"fcvt_wu_s", \hc010, \h53, mFU>>, <<"fcvtmod_w_d", \hc280, \h1053, mU>>, <<"fdiv_d", \h1a00, \h53, mF>>,
  <<"fdiv_h", \h1c00, \h53, mF>>, <<"fdiv_q", \h1e00, \h53, mF>>, <<"fdiv_s", \h1800, \h53, mF>>,
  <<"fence", \h0, \hf, mI>>, <<"fence_i", \h0, \h100f, mI>>, <<"feq_d", \ha200, \h2053, mR>>,
  <<"feq_h", \ha400, \h2053, mR>>, <<"feq_q", \ha600, \h2053, mR>>, <<"feq_s", \ha000, \h2053, mR>>,
  <<"fld", \h0, \h3007, mI>>, <<"fle_d", \ha200, \h53, mR>>, <<"fle_h", \ha400, \h53, mR>>,
  <<"fle_q", \ha600, \h53, mR>>, <<"fle_s", \ha000, \h53, mR>>, <<"fleq_d", \ha200, \h4053, mR>>,
  <<"fleq_h", \ha400, \h4053, mR>>, <<"fleq_q", \ha600, \h4053, mR>>, <<"fleq_s", \ha000, \h4053, mR>>,
  <<"flh", \h0, \h1007, mI>>, <<"fli_d", \hf210, \h53, mU>>, <<"fli_h", \hf410, \h53, mU>>,
  <<"fli_q", \hf610, \h53, mU>>, <<"fli_s", \hf010, \h53, mU>>, <<"flq", \h0, \h4007, mI>>,
  <<"flt_d", \ha200, \h1053, mR>>, <<"flt_h", \ha400, \h1053, mR>>, <<"flt_q", \ha600, \h1053, mR>>>>

\* flt_s to fsl
Opcodes05 == <<
  <<"flt_s", \ha000, \h1053, mR>>, <<"fltq_d", \ha200, \h5053, mR>>, <<"fltq_h", \ha400, \h5053, mR>>,
  <<"fltq_q", \ha600, \h5053, mR>>, <<"fltq_s", \ha000, \h5053, mR>>, <<"flw", \h0, \h2007, mI>>,
  <<"fmadd_d", \h200, \h43, mF4>>, <<"fmadd_h", \h400, \h43, mF4>>, <<"fmadd_q", \h600, \h43, mF4>>,
  <<"fmadd_s", \h0, \h43, mF4>>, <<"fmax_d", \h2a00, \h1053, mR>>, <<"fmax_h", \h2c00, \h1053, mR>>,
  <<"fmax_q", \h2e00, \h1053, mR>>, <<"fmax_s", \h2800, \h1053, mR>>, <<"fmaxm_d", \h2a00, \h3053, mR>>,
  <<"fmaxm_h", \h2c00, \h3053, mR>>, <<"fmaxm_q", \h2e00, \h3053, mR>>, <<"fmaxm_s", \h2800, \h3053, mR>>,
  <<"fmin_d", \h2a00, \h53, mR>>, <<"fmin_h", \h2c00, \h53, mR>>, <<"fmin_q", \h2e00, \h53, mR>>,
  <<"fmin_s", \h2800, \h53, mR>>, <<"fminm_d", \h2a00, \h2053, mR>>, <<"fminm_h", \h2c00, \h2053, mR>>,
  <<"fminm_q", \h2e00, \h2053, mR>>, <<"fminm_s", \h2800, \h2053, mR>>, <<"fmsub_d", \h200, \h47, mF4>>,
  <<"fmsub_h", \h400, \h47, mF4>>, <<"fmsub_q", \h600, \h47, mF4>>, <<"fmsub_s", \h0, \h47, mF4>>,
  <<"fmul_d", \h1200, \h53, mF>>, <<"fmul_h", \h1400, \h53, mF>>, <<"fmul_q", \h1600, \h53, mF>>,
  <<"fmul_s", \h1000, \h53, mF>>, <<"fmv_d_x", \hf200, \h53, mU>>, <<"fmv_h_x", \hf400, \h53, mU>>,
  <<"fmv_w_x", \hf000, \h53, mU>>, <<"fmv_x_d", \he200, \h53, mU>>, <<"fmv_x_h", \he400, \h53, mU>>,
  <<"fmv_x_w", \he000, \h53, mU>>, <<"fmvh_x_d", \he210, \h53, mU>>, <<"fmvh_x_q", \he610, \h53, mU>>,
  <<"fmvp_d_x", \hb200, \h53, mR>>, <<"fmvp_q_x", \hb600, \h53, mR>>, <<"fnmadd_d", \h200, \h4f, mF4>>,
  <<"fnmadd_h", \h400, \h4f, mF4>>, <<"fnmadd_q", \h600, \h4f, mF4>>, <<"fnmadd_s", \h0, \h4f, mF4>>,
  <<"fnmsub_d", \h200, \h4b, mF4>>, <<"fnmsub_h", \h400, \h4b, mF4>>, <<"fnmsub_q", \h600, \h4b, mF4>>,
  <<"fnmsub_s", \h0, \h4b, mF4>>, <<"fround_d", \h4240, \h53, mFU>>, <<"fround_h", \h4440, \h53, mFU>>,
  <<"fround_q", \h4640, \h53, mFU>>, <<"fround_s", \h4040, \h53, mFU>>, <<"froundnx_d", \h4250, \h53, mFU>>,
  <<"froundnx_h", \h4450, \h53, mFU>>, <<"froundnx_q", \h4650, \h53, mFU>>, <<"froundnx_s", \h4050, \h53, mFU>>,
  <<"fsd", \h0, \h3027, mI>>, <<"fsgnj_d", \h2200, \h53, mR>>, <<"fsgnj_h", \h2400, \h53, mR>>,
  <<"fsgnj_q", \h2600, \h53, mR>>, <<"fsgnj_s", \h2000, \h53, mR>>, <<"fsgnjn_d", \h2200, \h1053, mR>>,
  <<"fsgnjn_h", \h2400, \h1053, mR>>, <<"fsgnjn_q", \h2600, \h1053, mR>>, <<"fsgnjn_s", \h2000, \h1053, mR>>,
  <<"fsgnjx_d", \h2200, \h2053, mR>>, <<"fsgnjx_h", \h2400, \h2053, mR>>, <<"fsgnjx_q", \h2600, \h2053, mR>>,
  <<"fsgnjx_s", \h2000, \h2053, mR>>, <<"fsh", \h0, \h1027, mI>>, <<"fsl", \h400, \h1033, m0600707f>>>>

\* fslw to khmbt16
Opcodes06 == <<
  <<"fslw", \h400, \h103b, m0600707f>>, <<"fsq", \h0, \h4027, mI>>, <<"fsqrt_d", \h5a00, \h53, mFU>>,
  <<"fsqrt_h", \h5c00, \h53, mFU>>, <<"fsqrt_q", \h5e00, \h53, mFU>>, <<"fsqrt_s", \h5800, \h53, mFU>>,
  <<"fsr", \h400, \h5033, m0600707f>>, <<"fsri", \h400, \h5013, m0400707f>>, <<"fsriw", \h400, \h501b, m0600707f>>,
  <<"fsrw", \h400, \h503b, m0600707f>>, <<"fsub_d", \ha00, \h53, mF>>, <<"fsub_h", \hc00, \h53, mF>>,
  <<"fsub_q", \he00, \h53, mF>>, <<"fsub_s", \h800, \h53, mF>>, <<"fsw", \h0, \h2027, mI>>,
  <<"gorc", \h2800, \h5033, mR>>, <<"gorci", \h2800, \h5013, mV>>, <<"gorciw", \h2800, \h501b, mR>>,
  <<"gorcw", \h2800, \h503b, mR>>, <<"grev", \h6800, \h5033, mR>>, <<"grevi", \h6800, \h5013, mV>>,
  <<"greviw", \h6800, \h501b, mR>>, <<"grevw", \h6800, \h503b, mR>>, <<"hfence_gvma", \h6200, \h73, mfe007fff>>,
  <<"hfence_vvma", \h2200, \h73, mfe007fff>>, <<"hinval_gvma", \h6600, \h73, mfe007fff>>,
  <<"hinval_vvma", \h2600, \h73, mfe007fff>>, <<"hlv_b", \h6000, \h4073, mU>>, <<"hlv_bu", \h6010, \h4073, mU>>,
  <<"hlv_d", \h6c00, \h4073, mU>>, <<"hlv_h", \h6400, \h4073, mU>>, <<"hlv_hu", \h6410, \h4073, mU>>,
  <<"hlv_w", \h6800, \h4073, mU>>, <<"hlv_wu", \h6810, \h4073, mU>>, <<"hlvx_hu", \h6430, \h4073, mU>>,
  <<"hlvx_wu", \h6830, \h4073, mU>>, <<"hsv_b", \h6200, \h4073, mfe007fff>>, <<"hsv_d", \h6e00, \h4073, mfe007fff>>,
  <<"hsv_h", \h6600, \h4073, mfe007fff>>, <<"hsv_w", \h6a00, \h4073, mfe007fff>>,
  <<"insb", \hac00, \h77, mff80707f>>, <<"jal", \h0, \h6f, m0000007f>>, <<"jalr", \h0, \h67, mI>>,
  <<"kabs16", \had10, \h77, mU>>, <<"kabs32", \had20, \h77, mU>>, <<"kabs8", \had00, \h77, mU>>,
  <<"kabsw", \had40, \h77, mU>>, <<"kadd16", \h1000, \h77, mR>>, <<"kadd32", \h1000, \h2077, mR>>,
  <<"kadd64", \h9000, \h1077, mR>>, <<"kadd8", \h1800, \h77, mR>>, <<"kaddh", \h400, \h1077, mR>>,
  <<"kaddw", \h0, \h1077, mR>>, <<"kcras16", \h1400, \h77, mR>>, <<"kcras32", \h1400, \h2077, mR>>,
  <<"kcrsa16", \h1600, \h77, mR>>, <<"kcrsa32", \h1600, \h2077, mR>>, <<"kdmabb", \hd200, \h1077, mR>>,
  <<"kdmabb16", \hd800, \h1077, mR>>, <<"kdmabt", \he200, \h1077, mR>>, <<"kdmabt16", \he800, \h1077, mR>>,
  <<"kdmatt", \hf200, \h1077, mR>>, <<"kdmatt16", \hf800, \h1077, mR>>, <<"kdmbb", \ha00, \h1077, mR>>,
  <<"kdmbb16", \hda00, \h1077, mR>>, <<"kdmbt", \h1a00, \h1077, mR>>, <<"kdmbt16", \hea00, \h1077, mR>>,
  <<"kdmtt", \h2a00, \h1077, mR>>, <<"kdmtt16", \hfa00, \h1077, mR>>, <<"khm16", \h8600, \h77, mR>>,
  <<"khm8", \h8e00, \h77, mR>>, <<"khmbb", \hc00, \h1077, mR>>, <<"khmbb16", \hdc00, \h1077, mR>>,
  <<"khmbt", \h1c00, \h1077, mR>>, <<"khmbt16", \hec00, \h1077, mR>>>>

\* khmtt to lb_aq
Opcodes07 == <<
  <<"khmtt", \h2c00, \h1077, mR>>, <<"khmtt16", \hfc00, \h1077, mR>>, <<"khmx16", \h9600, \h77, mR>>,
  <<"khmx8", \h9e00, \h77, mR>>, <<"kmabb", \h5a00, \h1077, mR>>, <<"kmabb32", \h5a00, \h2077, mR>>,
  <<"kmabt", \h6a00, \h1077, mR>>, <<"kmabt32", \h6a00, \h2077, mR>>, <<"kmada", \h4800, \h1077, mR>>,
  <<"kmadrs", \h6c00, \h1077, mR>>, <<"kmadrs32", \h6c00, \h2077, mR>>, <<"kmads", \h5c00, \h1077, mR>>,
  <<"kmads32", \h5c00, \h2077, mR>>, <<"kmar64", \h9400, \h1077, mR>>, <<"kmatt", \h7a00, \h1077, mR>>,
  <<"kmatt32", \h7a00, \h2077, mR>>, <<"kmaxda", \h4a00, \h1077, mR>>, <<"kmaxda32", \h4a00, \h2077, mR>>,
  <<"kmaxds", \h7c00, \h1077, mR>>, <<"kmaxds32", \h7c00, \h2077, mR>>, <<"kmda", \h3800, \h1077, mR>>,
  <<"kmda32", \h3800, \h2077, mR>>, <<"kmmac", \h6000, \h1077, mR>>, <<"kmmac_u", \h7000, \h1077, mR>>,
  <<"kmmawb", \h4600, \h1077, mR>>, <<"kmmawb2", \hce00, \h1077, mR>>, <<"kmmawb2_u", \hde00, \h1077, mR>>,
  <<"kmmawb_u", \h5600, \h1077, mR>>, <<"kmmawt", \h6600, \h1077, mR>>, <<"kmmawt2", \hee00, \h1077, mR>>,
  <<"kmmawt2_u", \hfe00, \h1077, mR>>, <<"kmmawt_u", \h7600, \h1077, mR>>, <<"kmmsb", \h4200, \h1077, mR>>,
  <<"kmmsb_u", \h5200, \h1077, mR>>, <<"kmmwb2", \h8e00, \h1077, mR>>, <<"kmmwb2_u", \h9e00, \h1077, mR>>,
  <<"kmmwt2", \hae00, \h1077, mR>>, <<"kmmwt2_u", \hbe00, \h1077, mR>>, <<"kmsda", \h4c00, \h1077, mR>>,
  <<"kmsda32", \h4c00, \h2077, mR>>, <<"kmsr64", \h9600, \h1077, mR>>, <<"kmsxda", \h4e00, \h1077, mR>>,
  <<"kmsxda32", \h4e00, \h2077, mR>>, <<"kmxda", \h3a00, \h1077, mR>>, <<"kmxda32", \h3a00, \h2077, mR>>,
  <<"ksll16", \h6400, \h77, mR>>, <<"ksll32", \h6400, \h2077, mR>>, <<"ksll8", \h6c00, \h77, mR>>,
  <<"kslli16", \h7500, \h77, mff00707f>>, <<"kslli32", \h8400, \h2077, mR>>, <<"kslli8", \h7c80, \h77, mff80707f>>,
  <<"kslliw", \h3600, \h1077, mR>>, <<"ksllw", \h2600, \h1077, mR>>, <<"kslra16", \h5600, \h77, mR>>,
  <<"kslra16_u", \h6600, \h77, mR>>, <<"kslra32", \h5600, \h2077, mR>>, <<"kslra32_u", \h6600, \h2077, mR>>,
  <<"kslra8", \h5e00, \h77, mR>>, <<"kslra8_u", \h6e00, \h77, mR>>, <<"kslraw", \h6e00, \h1077, mR>>,
  <<"kslraw_u", \h7e00, \h1077, mR>>, <<"kstas16", \hc400, \h2077, mR>>, <<"kstas32", \hc000, \h2077, mR>>,
  <<"kstsa16", \hc600, \h2077, mR>>, <<"kstsa32", \hc200, \h2077, mR>>, <<"ksub16", \h1200, \h77, mR>>,
  <<"ksub32", \h1200, \h2077, mR>>, <<"ksub64", \h9200, \h1077, mR>>, <<"ksub8", \h1a00, \h77, mR>>,
  <<"ksubh", \h600, \h1077, mR>>, <<"ksubw", \h200, \h1077, mR>>, <<"kwmmul", \h6200, \h1077, mR>>,
  <<"kwmmul_u", \h7200, \h1077, mR>>, <<"lb", \h0, \h3, mI>>, <<"lb_aq", \h3400, \h2f, mfdf0707f>>>>

\* lbu to pack
Opcodes08 == <<
  <<"lbu", \h0, \h4003, mI>>, <<"ld", \h0, \h3003, mI>>, <<"ld_aq", \h3400, \h302f, mfdf0707f>>,
  <<"ldu", \h0, \h7003, mI>>, <<"lh", \h0, \h1003, mI>>, <<"lh_aq", \h3400, \h102f, mfdf0707f>>,
  <<"lhu", \h0, \h5003, mI>>, <<"lq", \h0, \h300f, mI>>, <<"lr_d", \h1000, \h302f, mf9f0707f>>,
  <<"lr_w", \h1000, \h202f, mf9f0707f>>, <<"lui", \h0, \h37, m0000007f>>, <<"lw", \h0, \h2003, mI>>,
  <<"lw_aq", \h3400, \h202f, mfdf0707f>>, <<"lwu", \h0, \h6003, mI>>, <<"maddr32", \hc400, \h1077, mR>>,
  <<"max", \ha00, \h6033, mR>>, <<"maxu", \ha00, \h7033, mR>>, <<"min", \ha00, \h4033, mR>>,
  <<"minu", \ha00, \h5033, mR>>, <<"mnret", \h7020, \h73, mAll>>, <<"mop_r_0", \h81c0, \h4073, mU>>,
  <<"mop_r_1", \h81d0, \h4073, mU>>, <<"mop_r_10", \h89e0, \h4073, mU>>, <<"mop_r_11", \h89f0, \h4073, mU>>,
  <<"mop_r_12", \h8dc0, \h4073, mU>>, <<"mop_r_13", \h8dd0, \h4073, mU>>, <<"mop_r_14", \h8de0, \h4073, mU>>,
  <<"mop_r_15", \h8df0, \h4073, mU>>, <<"mop_r_16", \hc1c0, \h4073, mU>>, <<"mop_r_17", \hc1d0, \h4073, mU>>,
  <<"mop_r_18", \hc1e0, \h4073, mU>>, <<"mop_r_19", \hc1f0, \h4073, mU>>, <<"mop_r_2", \h81e0, \h4073, mU>>,
  <<"mop_r_20", \hc5c0, \h4073, mU>>, <<"mop_r_21", \hc5d0, \h4073, mU>>, <<"mop_r_22", \hc5e0, \h4073, mU>>,
  <<"mop_r_23", \hc5f0, \h4073, mU>>, <<"mop_r_24", \hc9c0, \h4073, mU>>, <<"mop_r_25", \hc9d0, \h4073, mU>>,
  <<"mop_r_26", \hc9e0, \h4073, mU>>, <<"mop_r_27", \hc9f0, \h4073, mU>>, <<"mop_r_28", \hcdc0, \h4073, mU>>,
  <<"mop_r_29", \hcdd0, \h4073, mU>>, <<"mop_r_3", \h81f0, \h4073, mU>>, <<"mop_r_30", \hcde0, \h4073, mU>>,
  <<"mop_r_31", \hcdf0, \h4073, mU>>, <<"mop_r_4", \h85c0, \h4073, mU>>, <<"mop_r_5", \h85d0, \h4073, mU>>,
  <<"mop_r_6", \h85e0, \h4073, mU>>, <<"mop_r_7", \h85f0, \h4073, mU>>, <<"mop_r_8", \h89c0, \h4073, mU>>,
  <<"mop_r_9", \h89d0, \h4073, mU>>, <<"mop_r_N", \h81c0, \h4073, mb3c0707f>>, <<"mop_rr_0", \h8200, \h4073, mR>>,
  <<"mop_rr_1", \h8600, \h4073, mR>>, <<"mop_rr_2", \h8a00, \h4073, mR>>, <<"mop_rr_3", \h8e00, \h4073, mR>>,
  <<"mop_rr_4", \hc200, \h4073, mR>>, <<"mop_rr_5", \hc600, \h4073, mR>>, <<"mop_rr_6", \hca00, \h4073, mR>>,
  <<"mop_rr_7", \hce00, \h4073, mR>>, <<"mop_rr_N", \h8200, \h4073, mb200707f>>, <<"mret", \h3020, \h73, mAll>>,
  <<"msubr32", \hc600, \h1077, mR>>, <<"mul", \h200, \h33, mR>>, <<"mulh", \h200, \h1033, mR>>,
  <<"mulhsu", \h200, \h2033, mR>>, <<"mulhu", \h200, \h3033, mR>>, <<"mulr64", \hf000, \h1077, mR>>,
  <<"mulsr64", \he000, \h1077, mR>>, <<"mulw", \h200, \h3b, mR>>, <<"or", \h0, \h6033, mR>>,
  <<"ori", \h0, \h6013, mI>>, <<"orn", \h4000, \h6033, mR>>, <<"pack", \h800, \h4033, mR>>>>

\* packh to sha512sig0
Opcodes09 == <<
  <<"packh", \h800, \h7033, mR>>, <<"packu", \h4800, \h4033, mR>>, <<"packuw", \h4800, \h403b, mR>>,
  <<"packw", \h800, \h403b, mR>>, <<"pause", \h100, \hf, mAll>>, <<"pbsad", \hfc00, \h77, mR>>,
  <<"pbsada", \hfe00, \h77, mR>>, <<"pkbb16", \he00, \h1077, mR>>, <<"pkbt16", \h1e00, \h1077, mR>>,
  <<"pkbt32", \h1e00, \h2077, mR>>, <<"pktb16", \h3e00, \h1077, mR>>, <<"pktb32", \h3e00, \h2077, mR>>,
  <<"pktt16", \h2e00, \h1077, mR>>, <<"prefetch_i", \h0, \h6013, m01f07fff>>,
  <<"prefetch_r", \h10, \h6013, m01f07fff>>, <<"prefetch_w", \h30, \h6013, m01f07fff>>, <<"radd16", \h0, \h77, mR>>,
  <<"radd32", \h0, \h2077, mR>>, <<"radd64", \h8000, \h1077, mR>>, <<"radd8", \h800, \h77, mR>>,
  <<"raddw", \h2000, \h1077, mR>>, <<"rcras16", \h400, \h77, mR>>, <<"rcras32", \h400, \h2077, mR>>,
  <<"rcrsa16", \h600, \h77, mR>>, <<"rcrsa32", \h600, \h2077, mR>>, <<"rem", \h200, \h6033, mR>>,
  <<"remu", \h200, \h7033, mR>>, <<"remuw", \h200, \h703b, mR>>, <<"remw", \h200, \h603b, mR>>,
  <<"rol", \h6000, \h1033, mR>>, <<"rolw", \h6000, \h103b, mR>>, <<"ror", \h6000, \h5033, mR>>,
  <<"rori", \h6000, \h5013, mV>>, <<"roriw", \h6000, \h501b, mR>>, <<"rorw", \h6000, \h503b, mR>>,
  <<"rstas16", \hb400, \h2077, mR>>, <<"rstas32", \hb000, \h2077, mR>>, <<"rstsa16", \hb600, \h2077, mR>>,
  <<"rstsa32", \hb200, \h2077, mR>>, <<"rsub16", \h200, \h77, mR>>, <<"rsub32", \h200, \h2077, mR>>,
  <<"rsub64", \h8200, \h1077, mR>>, <<"rsub8", \ha00, \h77, mR>>, <<"rsubw", \h2200, \h1077, mR>>,
  <<"sb", \h0, \h23, mI>>, <<"sb_rl", \h3a00, \h2f, mfa007fff>>, <<"sc_d", \h1800, \h302f, mAmo>>,
  <<"sc_w", \h1800, \h202f, mAmo>>, <<"sclip16", \h8400, \h77, mff00707f>>, <<"sclip32", \he400, \h77, mR>>,
  <<"sclip8", \h8c00, \h77, mff80707f>>, <<"scmple16", \h1c00, \h77, mR>>, <<"scmple8", \h1e00, \h77, mR>>,
  <<"scmplt16", \hc00, \h77, mR>>, <<"scmplt8", \he00, \h77, mR>>, <<"sd", \h0, \h3023, mI>>,
  <<"sd_rl", \h3a00, \h302f, mfa007fff>>, <<"sext_b", \h6040, \h1013, mU>>, <<"sext_h", \h6050, \h1013, mU>>,
  <<"sfence_inval_ir", \h1810, \h73, mAll>>, <<"sfence_vma", \h1200, \h73, mfe007fff>>,
  <<"sfence_w_inval", \h1800, \h73, mAll>>, <<"sh", \h0, \h1023, mI>>, <<"sh1add", \h2000, \h2033, mR>>,
  <<"sh1add_uw", \h2000, \h203b, mR>>, <<"sh2add", \h2000, \h4033, mR>>, <<"sh2add_uw", \h2000, \h403b, mR>>,
  <<"sh3add", \h2000, \h6033, mR>>, <<"sh3add_uw", \h2000, \h603b, mR>>, <<"sh_rl", \h3a00, \h102f, mfa007fff>>,
  <<"sha256sig0", \h1020, \h1013, mU>>, <<"sha256sig1", \h1030, \h1013, mU>>, <<"sha256sum0", \h1000, \h1013, mU>>,
  <<"sha256sum1", \h1010, \h1013, mU>>, <<"sha512sig0", \h1060, \h1013, mU>>>>

\* sha512sig0h to smtt16
Opcodes10 == <<
  <<"sha512sig0h", \h5c00, \h33, mR>>, <<"sha512sig0l", \h5400, \h33, mR>>, <<"sha512sig1", \h1070, \h1013, mU>>,
  <<"sha512sig1h", \h5e00, \h33, mR>>, <<"sha512sig1l", \h5600, \h33, mR>>, <<"sha512sum0", \h1040, \h1013, mU>>,
  <<"sha512sum0r", \h5000, \h33, mR>>, <<"sha512sum1", \h1050, \h1013, mU>>, <<"sha512sum1r", \h5200, \h33, mR>>,
  <<"shfl", \h800, \h1033, mR>>, <<"shfli", \h800, \h1013, mR>>, <<"shflw", \h800, \h103b, mR>>,
  <<"sinval_vma", \h1600, \h73, mfe007fff>>, <<"sll", \h0, \h1033, mR>>, <<"sll16", \h5400, \h77, mR>>,
  <<"sll32", \h5400, \h2077, mR>>, <<"sll8", \h5c00, \h77, mR>>, <<"slld", \h0, \h107b, mR>>,
  <<"slli", \h0, \h1013, mV>>, <<"slli16", \h7400, \h77, mff00707f>>, <<"slli32", \h7400, \h2077, mR>>,
  <<"slli8", \h7c00, \h77, mff80707f>>, <<"slli_rv128", \h0, \h1013, mAmo>>, <<"slli_rv32", \h0, \h1013, mR>>,
  <<"slli_uw", \h800, \h101b, mV>>, <<"sllid", \h0, \h105b, mV>>, <<"slliw", \h0, \h101b, mR>>,
  <<"sllw", \h0, \h103b, mR>>, <<"slo", \h2000, \h1033, mR>>, <<"sloi", \h2000, \h1013, mV>>,
  <<"sloiw", \h2000, \h101b, mR>>, <<"slow", \h2000, \h103b, mR>>, <<"slt", \h0, \h2033, mR>>,
  <<"slti", \h0, \h2013, mI>>, <<"sltiu", \h0, \h3013, mI>>, <<"sltu", \h0, \h3033, mR>>,
  <<"sm3p0", \h1080, \h1013, mU>>, <<"sm3p1", \h1090, \h1013, mU>>, <<"sm4ed", \h3000, \h33, m3e00707f>>,
  <<"sm4ks", \h3400, \h33, m3e00707f>>, <<"smal", \h5e00, \h1077, mR>>, <<"smalbb", \h8800, \h1077, mR>>,
  <<"smalbt", \h9800, \h1077, mR>>, <<"smalda", \h8c00, \h1077, mR>>, <<"smaldrs", \h9a00, \h1077, mR>>,
  <<"smalds", \h8a00, \h1077, mR>>, <<"smaltt", \ha800, \h1077, mR>>, <<"smalxda", \h9c00, \h1077, mR>>,
  <<"smalxds", \haa00, \h1077, mR>>, <<"smaqa", \hc800, \h77, mR>>, <<"smaqa_su", \hca00, \h77, mR>>,
  <<"smar64", \h8400, \h1077, mR>>, <<"smax16", \h8200, \h77, mR>>, <<"smax32", \h9200, \h2077, mR>>,
  <<"smax8", \h8a00, \h77, mR>>, <<"smbb16", \h800, \h1077, mR>>, <<"smbt16", \h1800, \h1077, mR>>,
  <<"smbt32", \h1800, \h2077, mR>>, <<"smdrs", \h6800, \h1077, mR>>, <<"smdrs32", \h6800, \h2077, mR>>,
  <<"smds", \h5800, \h1077, mR>>, <<"smds32", \h5800, \h2077, mR>>, <<"smin16", \h8000, \h77, mR>>,
  <<"smin32", \h9000, \h2077, mR>>, <<"smin8", \h8800, \h77, mR>>, <<"smmul", \h4000, \h1077, mR>>,
  <<"smmul_u", \h5000, \h1077, mR>>, <<"smmwb", \h4400, \h1077, mR>>, <<"smmwb_u", \h5400, \h1077, mR>>,
  <<"smmwt", \h6400, \h1077, mR>>, <<"smmwt_u", \h7400, \h1077, mR>>, <<"smslda", \hac00, \h1077, mR>>,
  <<"smslxda", \hbc00, \h1077, mR>>, <<"smsr64", \h8600, \h1077, mR>>, <<"smtt16", \h2800, \h1077, mR>>>>

\* smtt32 to sunpkd810
Opcodes11 == <<
  <<"smtt32", \h2800, \h2077, mR>>, <<"smul16", \ha000, \h77, mR>>, <<"smul8", \ha800, \h77, mR>>,
  <<"smulx16", \ha200, \h77, mR>>, <<"smulx8", \haa00, \h77, mR>>, <<"smxds", \h7800, \h1077, mR>>,
  <<"smxds32", \h7800, \h2077, mR>>, <<"sq", \h0, \h4023, mI>>, <<"sra", \h4000, \h5033, mR>>,
  <<"sra16", \h5000, \h77, mR>>, <<"sra16_u", \h6000, \h77, mR>>, <<"sra32", \h5000, \h2077, mR>>,
  <<"sra32_u", \h6000, \h2077, mR>>, <<"sra8", \h5800, \h77, mR>>, <<"sra8_u", \h6800, \h77, mR>>,
  <<"sra_u", \h2400, \h1077, mR>>, <<"srad", \h4000, \h507b, mR>>, <<"srai", \h4000, \h5013, mV>>,
  <<"srai16", \h7000, \h77, mff00707f>>, <<"srai16_u", \h7100, \h77, mff00707f>>, <<"srai32", \h7000, \h2077, mR>>,
  <<"srai32_u", \h8000, \h2077, mR>>, <<"srai8", \h7800, \h77, mff80707f>>, <<"srai8_u", \h7880, \h77, mff80707f>>,
  <<"srai_rv128", \h4000, \h5013, mAmo>>, <<"srai_rv32", \h4000, \h5013, mR>>, <<"srai_u", \hd400, \h1077, mV>>,
  <<"sraid", \h4000, \h505b, mV>>, <<"sraiw", \h4000, \h501b, mR>>, <<"sraiw_u", \h3400, \h1077, mR>>,
  <<"sraw", \h4000, \h503b, mR>>, <<"sret", \h1020, \h73, mAll>>, <<"srl", \h0, \h5033, mR>>,
  <<"srl16", \h5200, \h77, mR>>, <<"srl16_u", \h6200, \h77, mR>>, <<"srl32", \h5200, \h2077, mR>>,
  <<"srl32_u", \h6200, \h2077, mR>>, <<"srl8", \h5a00, \h77, mR>>, <<"srl8_u", \h6a00, \h77, mR>>,
  <<"srld", \h0, \h507b, mR>>, <<"srli", \h0, \h5013, mV>>, <<"srli16", \h7200, \h77, mff00707f>>,
  <<"srli16_u", \h7300, \h77, mff00707f>>, <<"srli32", \h7200, \h2077, mR>>, <<"srli32_u", \h8200, \h2077, mR>>,
  <<"srli8", \h7a00, \h77, mff80707f>>, <<"srli8_u", \h7a80, \h77, mff80707f>>, <<"srli_rv128", \h0, \h5013, mAmo>>,
  <<"srli_rv32", \h0, \h5013, mR>>, <<"srlid", \h0, \h505b, mV>>, <<"srliw", \h0, \h501b, mR>>,
  <<"srlw", \h0, \h503b, mR>>, <<"sro", \h2000, \h5033, mR>>, <<"sroi", \h2000, \h5013, mV>>,
  <<"sroiw", \h2000, \h501b, mR>>, <<"srow", \h2000, \h503b, mR>>, <<"ssamoswap_d", \h4800, \h302f, mAmo>>,
  <<"ssamoswap_w", \h4800, \h202f, mAmo>>, <<"sspopchk_x1", \hcdc0, \hc073, mAll>>,
  <<"sspopchk_x5", \hcdc2, \hc073, mAll>>, <<"sspush_x1", \hce10, \h4073, mAll>>,
  <<"sspush_x5", \hce50, \h4073, mAll>>, <<"ssrdp", \hcdc0, \h4073, mfffff07f>>, <<"stas16", \hf400, \h2077, mR>>,
  <<"stas32", \hf000, \h2077, mR>>, <<"stsa16", \hf600, \h2077, mR>>, <<"stsa32", \hf200, \h2077, mR>>,
  <<"sub", \h4000, \h33, mR>>, <<"sub16", \h4200, \h77, mR>>, <<"sub32", \h4200, \h2077, mR>>,
  <<"sub64", \hc200, \h1077, mR>>, <<"sub8", \h4a00, \h77, mR>>, <<"subd", \h4000, \h7b, mR>>,
  <<"subw", \h4000, \h3b, mR>>, <<"sunpkd810", \hac80, \h77, mU>>>>

\* sunpkd820 to vadc_vvm
Opcodes12 == <<
  <<"sunpkd820", \hac90, \h77, mU>>, <<"sunpkd830", \haca0, \h77, mU>>, <<"sunpkd831", \hacb0, \h77, mU>>,
  <<"sunpkd832", \had30, \h77, mU>>, <<"sw", \h0, \h2023, mI>>, <<"sw_rl", \h3a00, \h202f, mfa007fff>>,
  <<"uclip16", \h8500, \h77, mff00707f>>, <<"uclip32", \hf400, \h77, mR>>, <<"uclip8", \h8d00, \h77, mff80707f>>,
  <<"ucmple16", \h3c00, \h77, mR>>, <<"ucmple8", \h3e00, \h77, mR>>, <<"ucmplt16", \h2c00, \h77, mR>>,
  <<"ucmplt8", \h2e00, \h77, mR>>, <<"ukadd16", \h3000, \h77, mR>>, <<"ukadd32", \h3000, \h2077, mR>>,
  <<"ukadd64", \hb000, \h1077, mR>>, <<"ukadd8", \h3800, \h77, mR>>, <<"ukaddh", \h1400, \h1077, mR>>,
  <<"ukaddw", \h1000, \h1077, mR>>, <<"ukcras16", \h3400, \h77, mR>>, <<"ukcras32", \h3400, \h2077, mR>>,
  <<"ukcrsa16", \h3600, \h77, mR>>, <<"ukcrsa32", \h3600, \h2077, mR>>, <<"ukmar64", \hb400, \h1077, mR>>,
  <<"ukmsr64", \hb600, \h1077, mR>>, <<"ukstas16", \he400, \h2077, mR>>, <<"ukstas32", \he000, \h2077, mR>>,
  <<"ukstsa16", \he600, \h2077, mR>>, <<"ukstsa32", \he200, \h2077, mR>>, <<"uksub16", \h3200, \h77, mR>>,
  <<"uksub32", \h3200, \h2077, mR>>, <<"uksub64", \hb200, \h1077, mR>>, <<"uksub8", \h3a00, \h77, mR>>,
  <<"uksubh", \h1600, \h1077, mR>>, <<"uksubw", \h1200, \h1077, mR>>, <<"umaqa", \hcc00, \h77, mR>>,
  <<"umar64", \ha400, \h1077, mR>>, <<"umax16", \h9200, \h77, mR>>, <<"umax32", \ha200, \h2077, mR>>,
  <<"umax8", \h9a00, \h77, mR>>, <<"umin16", \h9000, \h77, mR>>, <<"umin32", \ha000, \h2077, mR>>,
  <<"umin8", \h9800, \h77, mR>>, <<"umsr64", \ha600, \h1077, mR>>, <<"umul16", \hb000, \h77, mR>>,
  <<"umul8", \hb800, \h77, mR>>, <<"umulx16", \hb200, \h77, mR>>, <<"umulx8", \hba00, \h77, mR>>,
  <<"unshfl", \h800, \h5033, mR>>, <<"unshfli", \h800, \h5013, mR>>, <<"unshflw", \h800, \h503b, mR>>,
  <<"uradd16", \h2000, \h77, mR>>, <<"uradd32", \h2000, \h2077, mR>>, <<"uradd64", \ha000, \h1077, mR>>,
  <<"uradd8", \h2800, \h77, mR>>, <<"uraddw", \h3000, \h1077, mR>>, <<"urcras16", \h2400, \h77, mR>>,
  <<"urcras32", \h2400, \h2077, mR>>, <<"urcrsa16", \h2600, \h77, mR>>, <<"urcrsa32", \h2600, \h2077, mR>>,
  <<"urstas16", \hd400, \h2077, mR>>, <<"urstas32", \hd000, \h2077, mR>>, <<"urstsa16", \hd600, \h2077, mR>>,
  <<"urstsa32", \hd200, \h2077, mR>>, <<"ursub16", \h2200, \h77, mR>>, <<"ursub32", \h2200, \h2077, mR>>,
  <<"ursub64", \ha200, \h1077, mR>>, <<"ursub8", \h2a00, \h77, mR>>, <<"ursubw", \h3200, \h1077, mR>>,
  <<"vaadd_vv", \h2400, \h2057, mV>>, <<"vaadd_vx", \h2400, \h6057, mV>>, <<"vaaddu_vv", \h2000, \h2057, mV>>,
  <<"vaaddu_vx", \h2000, \h6057, mV>>, <<"vadc_vim", \h4000, \h3057, mR>>, <<"vadc_vvm", \h4000, \h57, mR>>>>

\* vadc_vxm to vfncvt_rtz_xu_f_w
Opcodes13 == <<
  <<"vadc_vxm", \h4000, \h4057, mR>>, <<"vadd_vi", \h0, \h3057, mV>>, <<"vadd_vv", \h0, \h57, mV>>,
  <<"vadd_vx", \h0, \h4057, mV>>, <<"vaesdf_vs", \ha600, \ha077, mVV>>, <<"vaesdf_vv", \ha200, \ha077, mVV>>,
  <<"vaesdm_vs", \ha600, \h2077, mVV>>, <<"vaesdm_vv", \ha200, \h2077, mVV>>, <<"vaesef_vs", \ha601, \ha077, mVV>>,
  <<"vaesef_vv", \ha201, \ha077, mVV>>, <<"vaesem_vs", \ha601, \h2077, mVV>>, <<"vaesem_vv", \ha201, \h2077, mVV>>,
  <<"vaeskf1_vi", \h8a00, \h2077, mR>>, <<"vaeskf2_vi", \haa00, \h2077, mR>>, <<"vaesz_vs", \ha603, \ha077, mVV>>,
  <<"vand_vi", \h2400, \h3057, mV>>, <<"vand_vv", \h2400, \h57, mV>>, <<"vand_vx", \h2400, \h4057, mV>>,
  <<"vandn_vv", \h400, \h57, mV>>, <<"vandn_vx", \h400, \h4057, mV>>, <<"vasub_vv", \h2c00, \h2057, mV>>,
  <<"vasub_vx", \h2c00, \h6057, mV>>, <<"vasubu_vv", \h2800, \h2057, mV>>, <<"vasubu_vx", \h2800, \h6057, mV>>,
  <<"vbrev8_v", \h4804, \h2057, mVU>>, <<"vbrev_v", \h4805, \h2057, mVU>>, <<"vclmul_vv", \h3000, \h2057, mV>>,
  <<"vclmul_vx", \h3000, \h6057, mV>>, <<"vclmulh_vv", \h3400, \h2057, mV>>, <<"vclmulh_vx", \h3400, \h6057, mV>>,
  <<"vclz_v", \h4806, \h2057, mVU>>, <<"vcompress_vm", \h5e00, \h2057, mR>>, <<"vcpop_m", \h4008, \h2057, mVU>>,
  <<"vcpop_v", \h4807, \h2057, mVU>>, <<"vctz_v", \h4806, \ha057, mVU>>, <<"vdiv_vv", \h8400, \h2057, mV>>,
  <<"vdiv_vx", \h8400, \h6057, mV>>, <<"vdivu_vv", \h8000, \h2057, mV>>, <<"vdivu_vx", \h8000, \h6057, mV>>,
  <<"vfadd_vf", \h0, \h5057, mV>>, <<"vfadd_vv", \h0, \h1057, mV>>, <<"vfclass_v", \h4c08, \h1057, mVU>>,
  <<"vfcvt_f_x_v", \h4801, \h9057, mVU>>, <<"vfcvt_f_xu_v", \h4801, \h1057, mVU>>,
  <<"vfcvt_rtz_x_f_v", \h4803, \h9057, mVU>>, <<"vfcvt_rtz_xu_f_v", \h4803, \h1057, mVU>>,
  <<"vfcvt_x_f_v", \h4800, \h9057, mVU>>, <<"vfcvt_xu_f_v", \h4800, \h1057, mVU>>,
  <<"vfdiv_vf", \h8000, \h5057, mV>>, <<"vfdiv_vv", \h8000, \h1057, mV>>, <<"vfirst_m", \h4008, \ha057, mVU>>,
  <<"vfmacc_vf", \hb000, \h5057, mV>>, <<"vfmacc_vv", \hb000, \h1057, mV>>, <<"vfmadd_vf", \ha000, \h5057, mV>>,
  <<"vfmadd_vv", \ha000, \h1057, mV>>, <<"vfmax_vf", \h1800, \h5057, mV>>, <<"vfmax_vv", \h1800, \h1057, mV>>,
  <<"vfmerge_vfm", \h5c00, \h5057, mR>>, <<"vfmin_vf", \h1000, \h5057, mV>>, <<"vfmin_vv", \h1000, \h1057, mV>>,
  <<"vfmsac_vf", \hb800, \h5057, mV>>, <<"vfmsac_vv", \hb800, \h1057, mV>>, <<"vfmsub_vf", \ha800, \h5057, mV>>,
  <<"vfmsub_vv", \ha800, \h1057, mV>>, <<"vfmul_vf", \h9000, \h5057, mV>>, <<"vfmul_vv", \h9000, \h1057, mV>>,
  <<"vfmv_f_s", \h4200, \h1057, mVV>>, <<"vfmv_s_f", \h4200, \h5057, mU>>, <<"vfmv_v_f", \h5e00, \h5057, mU>>,
  <<"vfncvt_f_f_w", \h480a, \h1057, mVU>>, <<"vfncvt_f_x_w", \h4809, \h9057, mVU>>,
  <<"vfncvt_f_xu_w", \h4809, \h1057, mVU>>, <<"vfncvt_rod_f_f_w", \h480a, \h9057, mVU>>,
  <<"vfncvt_rtz_x_f_w", \h480b, \h9057, mVU>>, <<"vfncvt_rtz_xu_f_w", \h480b, \h1057, mVU>>>>

\* vfncvt_x_f_w to vl4re64_v
Opcodes14 == <<
  <<"vfncvt_x_f_w", \h4808, \h9057, mVU>>, <<"vfncvt_xu_f_w", \h4808, \h1057, mVU>>,
  <<"vfncvtbf16_f_f_w", \h480e, \h9057, mVU>>, <<"vfnmacc_vf", \hb400, \h5057, mV>>,
  <<"vfnmacc_vv", \hb400, \h1057, mV>>, <<"vfnmadd_vf", \ha400, \h5057, mV>>, <<"vfnmadd_vv", \ha400, \h1057, mV>>,
  <<"vfnmsac_vf", \hbc00, \h5057, mV>>, <<"vfnmsac_vv", \hbc00, \h1057, mV>>, <<"vfnmsub_vf", \hac00, \h5057, mV>>,
  <<"vfnmsub_vv", \hac00, \h1057, mV>>, <<"vfrdiv_vf", \h8400, \h5057, mV>>, <<"vfrec7_v", \h4c02, \h9057, mVU>>,
  <<"vfredmax_vs", \h1c00, \h1057, mV>>, <<"vfredmin_vs", \h1400, \h1057, mV>>,
  <<"vfredosum_vs", \hc00, \h1057, mV>>, <<"vfredusum_vs", \h400, \h1057, mV>>,
  <<"vfrsqrt7_v", \h4c02, \h1057, mVU>>, <<"vfrsub_vf", \h9c00, \h5057, mV>>, <<"vfsgnj_vf", \h2000, \h5057, mV>>,
  <<"vfsgnj_vv", \h2000, \h1057, mV>>, <<"vfsgnjn_vf", \h2400, \h5057, mV>>, <<"vfsgnjn_vv", \h2400, \h1057, mV>>,
  <<"vfsgnjx_vf", \h2800, \h5057, mV>>, <<"vfsgnjx_vv", \h2800, \h1057, mV>>,
  <<"vfslide1down_vf", \h3c00, \h5057, mV>>, <<"vfslide1up_vf", \h3800, \h5057, mV>>,
  <<"vfsqrt_v", \h4c00, \h1057, mVU>>, <<"vfsub_vf", \h800, \h5057, mV>>, <<"vfsub_vv", \h800, \h1057, mV>>,
  <<"vfwadd_vf", \hc000, \h5057, mV>>, <<"vfwadd_vv", \hc000, \h1057, mV>>, <<"vfwadd_wf", \hd000, \h5057, mV>>,
  <<"vfwadd_wv", \hd000, \h1057, mV>>, <<"vfwcvt_f_f_v", \h4806, \h1057, mVU>>,
  <<"vfwcvt_f_x_v", \h4805, \h9057, mVU>>, <<"vfwcvt_f_xu_v", \h4805, \h1057, mVU>>,
  <<"vfwcvt_rtz_x_f_v", \h4807, \h9057, mVU>>, <<"vfwcvt_rtz_xu_f_v", \h4807, \h1057, mVU>>,
  <<"vfwcvt_x_f_v", \h4804, \h9057, mVU>>, <<"vfwcvt_xu_f_v", \h4804, \h1057, mVU>>,
  <<"vfwcvtbf16_f_f_v", \h4806, \h9057, mVU>>, <<"vfwmacc_vf", \hf000, \h5057, mV>>,
  <<"vfwmacc_vv", \hf000, \h1057, mV>>, <<"vfwmaccbf16_vf", \hec00, \h5057, mV>>,
  <<"vfwmaccbf16_vv", \hec00, \h1057, mV>>, <<"vfwmsac_vf", \hf800, \h5057, mV>>,
  <<"vfwmsac_vv", \hf800, \h1057, mV>>, <<"vfwmul_vf", \he000, \h5057, mV>>, <<"vfwmul_vv", \he000, \h1057, mV>>,
  <<"vfwnmacc_vf", \hf400, \h5057, mV>>, <<"vfwnmacc_vv", \hf400, \h1057, mV>>,
  <<"vfwnmsac_vf", \hfc00, \h5057, mV>>, <<"vfwnmsac_vv", \hfc00, \h1057, mV>>,
  <<"vfwredosum_vs", \hcc00, \h1057, mV>>, <<"vfwredusum_vs", \hc400, \h1057, mV>>,
  <<"vfwsub_vf", \hc800, \h5057, mV>>, <<"vfwsub_vv", \hc800, \h1057, mV>>, <<"vfwsub_wf", \hd800, \h5057, mV>>,
  <<"vfwsub_wv", \hd800, \h1057, mV>>, <<"vghsh_vv", \hb200, \h2077, mR>>, <<"vgmul_vv", \ha208, \ha077, mVV>>,
  <<"vid_v", \h5008, \ha057, mfdfff07f>>, <<"viota_m", \h5008, \h2057, mVU>>, <<"vl1re16_v", \h280, \h5007, mU>>,
  <<"vl1re32_v", \h280, \h6007, mU>>, <<"vl1re64_v", \h280, \h7007, mU>>, <<"vl1re8_v", \h280, \h7, mU>>,
  <<"vl2re16_v", \h2280, \h5007, mU>>, <<"vl2re32_v", \h2280, \h6007, mU>>, <<"vl2re64_v", \h2280, \h7007, mU>>,
  <<"vl2re8_v", \h2280, \h7, mU>>, <<"vl4re16_v", \h6280, \h5007, mU>>, <<"vl4re32_v", \h6280, \h6007, mU>>,
  <<"vl4re64_v", \h6280, \h7007, mU>>>>

\* vl4re8_v to vmfne_vv
Opcodes15 == <<
  <<"vl4re8_v", \h6280, \h7, mU>>, <<"vl8re16_v", \he280, \h5007, mU>>, <<"vl8re32_v", \he280, \h6007, mU>>,
  <<"vl8re64_v", \he280, \h7007, mU>>, <<"vl8re8_v", \he280, \h7, mU>>, <<"vle1024_v", \h1000, \h7007, mVL>>,
  <<"vle1024ff_v", \h1100, \h7007, mVL>>, <<"vle128_v", \h1000, \h7, mVL>>, <<"vle128ff_v", \h1100, \h7, mVL>>,
  <<"vle16_v", \h0, \h5007, mVL>>, <<"vle16ff_v", \h100, \h5007, mVL>>, <<"vle256_v", \h1000, \h5007, mVL>>,
  <<"vle256ff_v", \h1100, \h5007, mVL>>, <<"vle32_v", \h0, \h6007, mVL>>, <<"vle32ff_v", \h100, \h6007, mVL>>,
  <<"vle512_v", \h1000, \h6007, mVL>>, <<"vle512ff_v", \h1100, \h6007, mVL>>, <<"vle64_v", \h0, \h7007, mVL>>,
  <<"vle64ff_v", \h100, \h7007, mVL>>, <<"vle8_v", \h0, \h7, mVL>>, <<"vle8ff_v", \h100, \h7, mVL>>,
  <<"vlm_v", \h2b0, \h7, mU>>, <<"vloxei1024_v", \h1c00, \h7007, mVX>>, <<"vloxei128_v", \h1c00, \h7, mVX>>,
  <<"vloxei16_v", \hc00, \h5007, mVX>>, <<"vloxei256_v", \h1c00, \h5007, mVX>>, <<"vloxei32_v", \hc00, \h6007, mVX>>,
  <<"vloxei512_v", \h1c00, \h6007, mVX>>, <<"vloxei64_v", \hc00, \h7007, mVX>>, <<"vloxei8_v", \hc00, \h7, mVX>>,
  <<"vlse1024_v", \h1800, \h7007, mVX>>, <<"vlse128_v", \h1800, \h7, mVX>>, <<"vlse16_v", \h800, \h5007, mVX>>,
  <<"vlse256_v", \h1800, \h5007, mVX>>, <<"vlse32_v", \h800, \h6007, mVX>>, <<"vlse512_v", \h1800, \h6007, mVX>>,
  <<"vlse64_v", \h800, \h7007, mVX>>, <<"vlse8_v", \h800, \h7, mVX>>, <<"vluxei1024_v", \h1400, \h7007, mVX>>,
  <<"vluxei128_v", \h1400, \h7, mVX>>, <<"vluxei16_v", \h400, \h5007, mVX>>, <<"vluxei256_v", \h1400, \h5007, mVX>>,
  <<"vluxei32_v", \h400, \h6007, mVX>>, <<"vluxei512_v", \h1400, \h6007, mVX>>, <<"vluxei64_v", \h400, \h7007, mVX>>,
  <<"vluxei8_v", \h400, \h7, mVX>>, <<"vmacc_vv", \hb400, \h2057, mV>>, <<"vmacc_vx", \hb400, \h6057, mV>>,
  <<"vmadc_vi", \h4600, \h3057, mR>>, <<"vmadc_vim", \h4400, \h3057, mR>>, <<"vmadc_vv", \h4600, \h57, mR>>,
  <<"vmadc_vvm", \h4400, \h57, mR>>, <<"vmadc_vx", \h4600, \h4057, mR>>, <<"vmadc_vxm", \h4400, \h4057, mR>>,
  <<"vmadd_vv", \ha400, \h2057, mV>>, <<"vmadd_vx", \ha400, \h6057, mV>>, <<"vmand_mm", \h6600, \h2057, mR>>,
  <<"vmandn_mm", \h6200, \h2057, mR>>, <<"vmax_vv", \h1c00, \h57, mV>>, <<"vmax_vx", \h1c00, \h4057, mV>>,
  <<"vmaxu_vv", \h1800, \h57, mV>>, <<"vmaxu_vx", \h1800, \h4057, mV>>, <<"vmerge_vim", \h5c00, \h3057, mR>>,
  <<"vmerge_vvm", \h5c00, \h57, mR>>, <<"vmerge_vxm", \h5c00, \h4057, mR>>, <<"vmfeq_vf", \h6000, \h5057, mV>>,
  <<"vmfeq_vv", \h6000, \h1057, mV>>, <<"vmfge_vf", \h7c00, \h5057, mV>>, <<"vmfgt_vf", \h7400, \h5057, mV>>,
  <<"vmfle_vf", \h6400, \h5057, mV>>, <<"vmfle_vv", \h6400, \h1057, mV>>, <<"vmflt_vf", \h6c00, \h5057, mV>>,
  <<"vmflt_vv", \h6c00, \h1057, mV>>, <<"vmfne_vf", \h7000, \h5057, mV>>, <<"vmfne_vv", \h7000, \h1057, mV>>>>

\* vmin_vv to vredmax_vs
Opcodes16 == <<
  <<"vmin_vv", \h1400, \h57, mV>>, <<"vmin_vx", \h1400, \h4057, mV>>, <<"vminu_vv", \h1000, \h57, mV>>,
  <<"vminu_vx", \h1000, \h4057, mV>>, <<"vmnand_mm", \h7600, \h2057, mR>>, <<"vmnor_mm", \h7a00, \h2057, mR>>,
  <<"vmor_mm", \h6a00, \h2057, mR>>, <<"vmorn_mm", \h7200, \h2057, mR>>, <<"vmsbc_vv", \h4e00, \h57, mR>>,
  <<"vmsbc_vvm", \h4c00, \h57, mR>>, <<"vmsbc_vx", \h4e00, \h4057, mR>>, <<"vmsbc_vxm", \h4c00, \h4057, mR>>,
  <<"vmsbf_m", \h5000, \ha057, mVU>>, <<"vmseq_vi", \h6000, \h3057, mV>>, <<"vmseq_vv", \h6000, \h57, mV>>,
  <<"vmseq_vx", \h6000, \h4057, mV>>, <<"vmsgt_vi", \h7c00, \h3057, mV>>, <<"vmsgt_vx", \h7c00, \h4057, mV>>,
  <<"vmsgtu_vi", \h7800, \h3057, mV>>, <<"vmsgtu_vx", \h7800, \h4057, mV>>, <<"vmsif_m", \h5001, \ha057, mVU>>,
  <<"vmsle_vi", \h7400, \h3057, mV>>, <<"vmsle_vv", \h7400, \h57, mV>>, <<"vmsle_vx", \h7400, \h4057, mV>>,
  <<"vmsleu_vi", \h7000, \h3057, mV>>, <<"vmsleu_vv", \h7000, \h57, mV>>, <<"vmsleu_vx", \h7000, \h4057, mV>>,
  <<"vmslt_vv", \h6c00, \h57, mV>>, <<"vmslt_vx", \h6c00, \h4057, mV>>, <<"vmsltu_vv", \h6800, \h57, mV>>,
  <<"vmsltu_vx", \h6800, \h4057, mV>>, <<"vmsne_vi", \h6400, \h3057, mV>>, <<"vmsne_vv", \h6400, \h57, mV>>,
  <<"vmsne_vx", \h6400, \h4057, mV>>, <<"vmsof_m", \h5001, \h2057, mVU>>, <<"vmul_vv", \h9400, \h2057, mV>>,
  <<"vmul_vx", \h9400, \h6057, mV>>, <<"vmulh_vv", \h9c00, \h2057, mV>>, <<"vmulh_vx", \h9c00, \h6057, mV>>,
  <<"vmulhsu_vv", \h9800, \h2057, mV>>, <<"vmulhsu_vx", \h9800, \h6057, mV>>, <<"vmulhu_vv", \h9000, \h2057, mV>>,
  <<"vmulhu_vx", \h9000, \h6057, mV>>, <<"vmv1r_v", \h9e00, \h3057, mVV>>, <<"vmv2r_v", \h9e00, \hb057, mVV>>,
  <<"vmv4r_v", \h9e01, \hb057, mVV>>, <<"vmv8r_v", \h9e03, \hb057, mVV>>, <<"vmv_s_x", \h4200, \h6057, mU>>,
  <<"vmv_v_i", \h5e00, \h3057, mU>>, <<"vmv_v_v", \h5e00, \h57, mU>>, <<"vmv_v_x", \h5e00, \h4057, mU>>,
  <<"vmv_x_s", \h4200, \h2057, mVV>>, <<"vmxnor_mm", \h7e00, \h2057, mR>>, <<"vmxor_mm", \h6e00, \h2057, mR>>,
  <<"vnclip_wi", \hbc00, \h3057, mV>>, <<"vnclip_wv", \hbc00, \h57, mV>>, <<"vnclip_wx", \hbc00, \h4057, mV>>,
  <<"vnclipu_wi", \hb800, \h3057, mV>>, <<"vnclipu_wv", \hb800, \h57, mV>>, <<"vnclipu_wx", \hb800, \h4057, mV>>,
  <<"vnmsac_vv", \hbc00, \h2057, mV>>, <<"vnmsac_vx", \hbc00, \h6057, mV>>, <<"vnmsub_vv", \hac00, \h2057, mV>>,
  <<"vnmsub_vx", \hac00, \h6057, mV>>, <<"vnsra_wi", \hb400, \h3057, mV>>, <<"vnsra_wv", \hb400, \h57, mV>>,
  <<"vnsra_wx", \hb400, \h4057, mV>>, <<"vnsrl_wi", \hb000, \h3057, mV>>, <<"vnsrl_wv", \hb000, \h57, mV>>,
  <<"vnsrl_wx", \hb000, \h4057, mV>>, <<"vor_vi", \h2800, \h3057, mV>>, <<"vor_vv", \h2800, \h57, mV>>,
  <<"vor_vx", \h2800, \h4057, mV>>, <<"vredand_vs", \h400, \h2057, mV>>, <<"vredmax_vs", \h1c00, \h2057, mV>>>>

\* vredmaxu_vs to vsoxei64_v
Opcodes17 == <<
  <<"vredmaxu_vs", \h1800, \h2057, mV>>, <<"vredmin_vs", \h1400, \h2057, mV>>, <<"vredminu_vs", \h1000, \h2057, mV>>,
  <<"vredor_vs", \h800, \h2057, mV>>, <<"vredsum_vs", \h0, \h2057, mV>>, <<"vredxor_vs", \hc00, \h2057, mV>>,
  <<"vrem_vv", \h8c00, \h2057, mV>>, <<"vrem_vx", \h8c00, \h6057, mV>>, <<"vremu_vv", \h8800, \h2057, mV>>,
  <<"vremu_vx", \h8800, \h6057, mV>>, <<"vrev8_v", \h4804, \ha057, mVU>>, <<"vrgather_vi", \h3000, \h3057, mV>>,
  <<"vrgather_vv", \h3000, \h57, mV>>, <<"vrgather_vx", \h3000, \h4057, mV>>,
  <<"vrgatherei16_vv", \h3800, \h57, mV>>, <<"vrol_vv", \h5400, \h57, mV>>, <<"vrol_vx", \h5400, \h4057, mV>>,
  <<"vror_vi", \h5000, \h3057, mAmo>>, <<"vror_vv", \h5000, \h57, mV>>, <<"vror_vx", \h5000, \h4057, mV>>,
  <<"vrsub_vi", \hc00, \h3057, mV>>, <<"vrsub_vx", \hc00, \h4057, mV>>, <<"vs1r_v", \h280, \h27, mU>>,
  <<"vs2r_v", \h2280, \h27, mU>>, <<"vs4r_v", \h6280, \h27, mU>>, <<"vs8r_v", \he280, \h27, mU>>,
  <<"vsadd_vi", \h8400, \h3057, mV>>, <<"vsadd_vv", \h8400, \h57, mV>>, <<"vsadd_vx", \h8400, \h4057, mV>>,
  <<"vsaddu_vi", \h8000, \h3057, mV>>, <<"vsaddu_vv", \h8000, \h57, mV>>, <<"vsaddu_vx", \h8000, \h4057, mV>>,
  <<"vsbc_vvm", \h4800, \h57, mR>>, <<"vsbc_vxm", \h4800, \h4057, mR>>, <<"vse1024_v", \h1000, \h7027, mVL>>,
  <<"vse128_v", \h1000, \h27, mVL>>, <<"vse16_v", \h0, \h5027, mVL>>, <<"vse256_v", \h1000, \h5027, mVL>>,
  <<"vse32_v", \h0, \h6027, mVL>>, <<"vse512_v", \h1000, \h6027, mVL>>, <<"vse64_v", \h0, \h7027, mVL>>,
  <<"vse8_v", \h0, \h27, mVL>>, <<"vsetivli", \hc000, \h7057, mc000707f>>, <<"vsetvl", \h8000, \h7057, mR>>,
  <<"vsetvli", \h0, \h7057, m8000707f>>, <<"vsext_vf2", \h4803, \ha057, mVU>>, <<"vsext_vf4", \h4802, \ha057, mVU>>,
  <<"vsext_vf8", \h4801, \ha057, mVU>>, <<"vsha2ch_vv", \hba00, \h2077, mR>>, <<"vsha2cl_vv", \hbe00, \h2077, mR>>,
  <<"vsha2ms_vv", \hb600, \h2077, mR>>, <<"vslide1down_vx", \h3c00, \h6057, mV>>,
  <<"vslide1up_vx", \h3800, \h6057, mV>>, <<"vslidedown_vi", \h3c00, \h3057, mV>>,
  <<"vslidedown_vx", \h3c00, \h4057, mV>>, <<"vslideup_vi", \h3800, \h3057, mV>>,
  <<"vslideup_vx", \h3800, \h4057, mV>>, <<"vsll_vi", \h9400, \h3057, mV>>, <<"vsll_vv", \h9400, \h57, mV>>,
  <<"vsll_vx", \h9400, \h4057, mV>>, <<"vsm3c_vi", \hae00, \h2077, mR>>, <<"vsm3me_vv", \h8200, \h2077, mR>>,
  <<"vsm4k_vi", \h8600, \h2077, mR>>, <<"vsm4r_vs", \ha608, \h2077, mVV>>, <<"vsm4r_vv", \ha208, \h2077, mVV>>,
  <<"vsm_v", \h2b0, \h27, mU>>, <<"vsmul_vv", \h9c00, \h57, mV>>, <<"vsmul_vx", \h9c00, \h4057, mV>>,
  <<"vsoxei1024_v", \h1c00, \h7027, mVX>>, <<"vsoxei128_v", \h1c00, \h27, mVX>>,
  <<"vsoxei16_v", \hc00, \h5027, mVX>>, <<"vsoxei256_v", \h1c00, \h5027, mVX>>, <<"vsoxei32_v", \hc00, \h6027, mVX>>,
  <<"vsoxei512_v", \h1c00, \h6027, mVX>>, <<"vsoxei64_v", \hc00, \h7027, mVX>>>>

\* vsoxei8_v to vzext_vf8
Opcodes18 == <<
  <<"vsoxei8_v", \hc00, \h27, mVX>>, <<"vsra_vi", \ha400, \h3057, mV>>, <<"vsra_vv", \ha400, \h57, mV>>,
  <<"vsra_vx", \ha400, \h4057, mV>>, <<"vsrl_vi", \ha000, \h3057, mV>>, <<"vsrl_vv", \ha000, \h57, mV>>,
  <<"vsrl_vx", \ha000, \h4057, mV>>, <<"vsse1024_v", \h1800, \h7027, mVX>>, <<"vsse128_v", \h1800, \h27, mVX>>,
  <<"vsse16_v", \h800, \h5027, mVX>>, <<"vsse256_v", \h1800, \h5027, mVX>>, <<"vsse32_v", \h800, \h6027, mVX>>,
  <<"vsse512_v", \h1800, \h6027, mVX>>, <<"vsse64_v", \h800, \h7027, mVX>>, <<"vsse8_v", \h800, \h27, mVX>>,
  <<"vssra_vi", \hac00, \h3057, mV>>, <<"vssra_vv", \hac00, \h57, mV>>, <<"vssra_vx", \hac00, \h4057, mV>>,
  <<"vssrl_vi", \ha800, \h3057, mV>>, <<"vssrl_vv", \ha800, \h57, mV>>, <<"vssrl_vx", \ha800, \h4057, mV>>,
  <<"vssub_vv", \h8c00, \h57, mV>>, <<"vssub_vx", \h8c00, \h4057, mV>>, <<"vssubu_vv", \h8800, \h57, mV>>,
  <<"vssubu_vx", \h8800, \h4057, mV>>, <<"vsub_vv", \h800, \h57, mV>>, <<"vsub_vx", \h800, \h4057, mV>>,
  <<"vsuxei1024_v", \h1400, \h7027, mVX>>, <<"vsuxei128_v", \h1400, \h27, mVX>>,
  <<"vsuxei16_v", \h400, \h5027, mVX>>, <<"vsuxei256_v", \h1400, \h5027, mVX>>, <<"vsuxei32_v", \h400, \h6027, mVX>>,
  <<"vsuxei512_v", \h1400, \h6027, mVX>>, <<"vsuxei64_v", \h400, \h7027, mVX>>, <<"vsuxei8_v", \h400, \h27, mVX>>,
  <<"vwadd_vv", \hc400, \h2057, mV>>, <<"vwadd_vx", \hc400, \h6057, mV>>, <<"vwadd_wv", \hd400, \h2057, mV>>,
  <<"vwadd_wx", \hd400, \h6057, mV>>, <<"vwaddu_vv", \hc000, \h2057, mV>>, <<"vwaddu_vx", \hc000, \h6057, mV>>,
  <<"vwaddu_wv", \hd000, \h2057, mV>>, <<"vwaddu_wx", \hd000, \h6057, mV>>, <<"vwmacc_vv", \hf400, \h2057, mV>>,
  <<"vwmacc_vx", \hf400, \h6057, mV>>, <<"vwmaccsu_vv", \hfc00, \h2057, mV>>, <<"vwmaccsu_vx", \hfc00, \h6057, mV>>,
  <<"vwmaccu_vv", \hf000, \h2057, mV>>, <<"vwmaccu_vx", \hf000, \h6057, mV>>, <<"vwmaccus_vx", \hf800, \h6057, mV>>,
  <<"vwmul_vv", \hec00, \h2057, mV>>, <<"vwmul_vx", \hec00, \h6057, mV>>, <<"vwmulsu_vv", \he800, \h2057, mV>>,
  <<"vwmulsu_vx", \he800, \h6057, mV>>, <<"vwmulu_vv", \he000, \h2057, mV>>, <<"vwmulu_vx", \he000, \h6057, mV>>,
  <<"vwredsum_vs", \hc400, \h57, mV>>, <<"vwredsumu_vs", \hc000, \h57, mV>>, <<"vwsll_vi", \hd400, \h3057, mV>>,
  <<"vwsll_vv", \hd400, \h57, mV>>, <<"vwsll_vx", \hd400, \h4057, mV>>, <<"vwsub_vv", \hcc00, \h2057, mV>>,
  <<"vwsub_vx", \hcc00, \h6057, mV>>, <<"vwsub_wv", \hdc00, \h2057, mV>>, <<"vwsub_wx", \hdc00, \h6057, mV>>,
  <<"vwsubu_vv", \hc800, \h2057, mV>>, <<"vwsubu_vx", \hc800, \h6057, mV>>, <<"vwsubu_wv", \hd800, \h2057, mV>>,
  <<"vwsubu_wx", \hd800, \h6057, mV>>, <<"vxor_vi", \h2c00, \h3057, mV>>, <<"vxor_vv", \h2c00, \h57, mV>>,
  <<"vxor_vx", \h2c00, \h4057, mV>>, <<"vzext_vf2", \h4803, \h2057, mVU>>, <<"vzext_vf4", \h4802, \h2057, mVU>>,
  <<"vzext_vf8", \h4801, \h2057, mVU>>>>

\* wfi to zunpkd832
Opcodes19 == <<
  <<"wfi", \h1050, \h73, mAll>>, <<"wrs_nto", \hd0, \h73, mAll>>, <<"wrs_sto", \h1d0, \h73, mAll>>,
  <<"xnor", \h4000, \h4033, mR>>, <<"xor", \h0, \h4033, mR>>, <<"xori", \h0, \h4013, mI>>,
  <<"xperm16", \h2800, \h6033, mR>>, <<"xperm32", \h2800, \h33, mR>>, <<"xperm4", \h2800, \h2033, mR>>,
  <<"xperm8", \h2800, \h4033, mR>>, <<"zunpkd810", \hacc0, \h77, mU>>, <<"zunpkd820", \hacd0, \h77, mU>>,
  <<"zunpkd830", \hace0, \h77, mU>>, <<"zunpkd831", \hacf0, \h77, mU>>, <<"zunpkd832", \had70, \h77, mU>>>>

\* DECLARE_INSN: the rows in the order in which they are declared
DeclareInsn ==
  Opcodes01 \o Opcodes02 \o Opcodes03 \o Opcodes04 \o Opcodes05 \o Opcodes06 \o Opcodes07 \o Opcodes08 \o
  Opcodes09 \o Opcodes10 \o Opcodes11 \o Opcodes12 \o Opcodes13 \o Opcodes14 \o Opcodes15 \o Opcodes16 \o
  Opcodes17 \o Opcodes18 \o Opcodes19
=============================================================================
