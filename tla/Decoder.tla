------------------------------ MODULE Decoder ------------------------------
(***************************************************************************)
(* How fetch and decode read an instruction word: the table lookup and the *)
(* aliases of src/pipe/instr_base.c and instr_Fetch.c, and everything      *)
(* instr_Decode.c takes out of the 32 bits.  The values of registers are   *)
(* left out: an operand is named by where it comes from.                   *)
(***************************************************************************)
EXTENDS Encoding

XZR == 32   \* XZR_NUM

-----------------------------------------------------------------------------
(* Bit fields.                                                             *)

bitfield_u32(w, from, width) ==
  LET below == 21 - from   \* bits of the low part from there on
  IN  IF below <= 0 THEN (w.top \div 2^(from - 21)) % 2^width
      ELSE IF width <= below THEN (w.low \div 2^from) % 2^width
      ELSE w.low \div 2^from + (w.top % 2^(width - below)) * 2^below

bitfield_s64(w, from, width) ==
  LET u == bitfield_u32(w, from, width)
  IN  IF u >= 2^(width - 1) THEN u - 2^width ELSE u

Rd(w) == bitfield_u32(w, 0, 5)
Rn(w) == bitfield_u32(w, 5, 5)
Rm(w) == bitfield_u32(w, 16, 5)

-----------------------------------------------------------------------------
(* The opcode.                                                             *)

TableRange(op, first, last) == [op |-> op, first |-> first, last |-> last]

(* init_itable, entry by entry; the asserts of init_itable_entry and       *)
(* init_itable_range ask that no two overlap.                              *)
init_itable ==
  { TableRange("LDUR", 1986, 1986), TableRange("STUR", 1984, 1984),
    TableRange("MOVK", 1940, 1943), TableRange("MOVZ", 1684, 1687),
    TableRange("ADRP", 1152, 1159), TableRange("ADRP", 1408, 1415),
    TableRange("ADRP", 1664, 1671), TableRange("ADRP", 1920, 1927),
    TableRange("ADD_RI", 1160, 1161), TableRange("ADDS_RR", 1368, 1368),
    TableRange("SUB_RI", 1672, 1673), TableRange("SUBS_RR", 1880, 1880),
    TableRange("MVN", 1361, 1361), TableRange("ORR_RR", 1360, 1360),
    TableRange("EOR_RR", 1616, 1616), TableRange("ANDS_RR", 1872, 1872),
    TableRange("UBFM", 1690, 1691), TableRange("ASR", 1178, 1179),
    TableRange("B", 160, 191), TableRange("B_COND", 672, 679),
    TableRange("BL", 1184, 1215), TableRange("RET", 1714, 1714),
    TableRange("NOP", 1704, 1704), TableRange("HLT", 1698, 1698),
    \* the extra credit: the Makefile defines EC
    TableRange("CSEL", 1236, 1236), TableRange("CSNEG", 1748, 1748),
    TableRange("CBZ", 1440, 1447), TableRange("CBNZ", 1448, 1455),
    TableRange("BR", 1712, 1712), TableRange("BLR", 1713, 1713) }

itable ==
  [i \in 0 .. 2^11 - 1 |->
     LET ranges == {r \in init_itable : r.first <= i /\ i <= r.last}
     IN  IF ranges = {} THEN "ERROR" ELSE (CHOOSE r \in ranges : TRUE).op]

(* A bit-field move that is neither shift fails an assertion.              *)
Abort == "assert(0)"

(* Seeded fault: the alias test of LSL is off by one.                      *)
fix_instr_aliasesShift(w, op) ==
  LET imms == bitfield_u32(w, 10, 6)
      immr == bitfield_u32(w, 16, 6)
  IN  CASE op = "UBFM" -> IF imms = 63 THEN "LSR"
                          ELSE IF imms = immr THEN "LSL" ELSE Abort
        [] op = "SUBS_RR" /\ Rd(w) = 31 -> "CMP_RR"
        [] op = "ADDS_RR" /\ Rd(w) = 31 -> "CMN_RR"
        [] op = "ANDS_RR" /\ Rd(w) = 31 -> "TST_RR"
        [] OTHER -> op

fix_instr_aliases(w, op) ==
  LET imms == bitfield_u32(w, 10, 6)
      immr == bitfield_u32(w, 16, 6)
  IN  CASE op = "UBFM" -> IF imms = 63 THEN "LSR"
                          ELSE IF imms + 1 = immr THEN "LSL" ELSE Abort
        [] op = "SUBS_RR" /\ Rd(w) = 31 -> "CMP_RR"
        [] op = "ADDS_RR" /\ Rd(w) = 31 -> "CMN_RR"
        [] op = "ANDS_RR" /\ Rd(w) = 31 -> "TST_RR"
        [] OTHER -> op

(* The opcode fetch gives a word, and where predict_PC goes on, counted in *)
(* words from the instruction.                                             *)
OpcodeOf(w) == fix_instr_aliases(w, itable[bitfield_u32(w, 21, 11)])

PredictedOffset(w, op) ==
  CASE op \in {"B", "BL"} -> bitfield_s64(w, 0, 26)
    [] op = "B_COND"      -> bitfield_s64(w, 5, 19)
    [] OTHER              -> 1

-----------------------------------------------------------------------------
(* Control signals.                                                        *)

RegisterOps  == {"ADDS_RR", "CMN_RR", "CMP_RR", "SUBS_RR", "ANDS_RR", "TST_RR",
                 "ORR_RR", "EOR_RR", "MVN"}
WriteEnabled == {"ADDS_RR", "SUB_RI", "ANDS_RR", "ADD_RI", "ORR_RR", "EOR_RR",
                 "SUBS_RR", "BL", "MOVZ", "MOVK", "MVN", "ADRP", "LSL", "LSR",
                 "ASR", "LDUR"}
ImmediateOps == {"ADD_RI", "SUB_RI", "MOVZ", "MOVK", "STUR", "LDUR", "ADRP",
                 "LSL", "LSR", "ASR"}
ShiftOps     == {"LSL", "LSR", "ASR"}

(* Seeded fault: a compare is left out.                                    *)
SetsFlagsNoCMN(op) ==
  op \in RegisterOps \ {"ORR_RR", "EOR_RR", "MVN", "CMN_RR"}

SetsFlags(op) == op \in RegisterOps \ {"ORR_RR", "EOR_RR", "MVN"}

generate_DXMW_control(op) ==
  [X |-> [valb_sel |-> op \in RegisterOps, set_flags |-> SetsFlags(op)],
   M |-> [dmem_read |-> op = "LDUR", dmem_write |-> op = "STUR"],
   W |-> [dst_sel |-> op = "BL", w_enable |-> op \in WriteEnabled,
          wval_sel |-> op = "LDUR"]]

decide_alu_op(op) ==
  CASE op \in {"ADDS_RR", "ADD_RI", "CMN_RR", "STUR", "LDUR", "ADRP"} -> "PLUS"
    [] op \in {"NOP", "ERROR", "RET", "HLT", "B_COND", "B", "BL"} -> "PASS_A"
    [] op \in {"MOVZ", "MOVK"} -> "MOV"
    [] op = "MVN" -> "INV"
    [] op \in {"SUBS_RR", "SUB_RI", "CMP_RR"} -> "MINUS"
    [] op \in {"ANDS_RR", "TST_RR"} -> "AND"
    [] op = "ORR_RR" -> "OR"
    [] op = "EOR_RR" -> "EOR"
    [] op \in ShiftOps -> op
    [] OTHER -> "ERROR_OP"

-----------------------------------------------------------------------------
(* Operands.                                                               *)

(* The 21 bits of an ADRP, in pages: the low two are extended with their   *)
(* own sign before they are put under the others.                          *)
AdrpPages(w) ==
  LET higherBits == bitfield_s64(w, 5, 19)
      lowerBits  == bitfield_s64(w, 29, 2)
  IN  IF lowerBits < 0 THEN lowerBits ELSE higherBits * 4 + lowerBits

extract_immval(w, op) ==
  CASE op \in {"ADD_RI", "SUB_RI"} -> bitfield_u32(w, 10, 12)
    [] op \in {"MOVZ", "MOVK"}     -> bitfield_u32(w, 5, 16)
    [] op = "ADRP"                 -> AdrpPages(w)
    [] op = "LSL"                  -> (64 - bitfield_u32(w, 16, 6)) % 64
    [] op = "LSR"                  -> bitfield_u32(w, 16, 6)
    [] op = "ASR"                  -> bitfield_u32(w, 9, 7)

(* Seeded fault: the base and the transferred register change places.      *)
extract_regsSwapped(w, op) ==
  LET zero31(r) == IF r = 31 /\ op \in {"TST_RR", "CMP_RR", "ORR_RR", "EOR_RR"}
                     THEN XZR ELSE r
      noSP(r)   == IF r = 31 THEN XZR ELSE r
      regs(src1, src2, dst) == [src1 |-> src1, src2 |-> src2, dst |-> dst]
  IN  CASE op \in RegisterOps \ {"MVN"} ->
             regs(zero31(Rn(w)), zero31(Rm(w)), zero31(Rd(w)))
        [] op \in {"ADD_RI", "SUB_RI"} \cup ShiftOps -> regs(Rn(w), 0, Rd(w))
        [] op \in {"MOVZ", "MOVK", "ADRP"} -> regs(0, 0, Rd(w))
        [] op = "MVN" -> regs(noSP(Rm(w)), 0, Rd(w))
        [] op \in {"STUR", "LDUR"} ->
             regs(Rd(w), bitfield_s64(w, 12, 9) % 2^8, noSP(Rn(w)))
        [] op = "BL" -> regs(0, 0, 30)
        [] OTHER -> regs(0, 0, 0)

(* The offset of a load or a store travels in src2, a uint8_t.             *)
extract_regs(w, op) ==
  LET zero31(r) == IF r = 31 /\ op \in {"TST_RR", "CMP_RR", "ORR_RR", "EOR_RR"}
                     THEN XZR ELSE r
      noSP(r)   == IF r = 31 THEN XZR ELSE r
      regs(src1, src2, dst) == [src1 |-> src1, src2 |-> src2, dst |-> dst]
  IN  CASE op \in RegisterOps \ {"MVN"} ->
             regs(zero31(Rn(w)), zero31(Rm(w)), zero31(Rd(w)))
        [] op \in {"ADD_RI", "SUB_RI"} \cup ShiftOps -> regs(Rn(w), 0, Rd(w))
        [] op \in {"MOVZ", "MOVK", "ADRP"} -> regs(0, 0, Rd(w))
        [] op = "MVN" -> regs(noSP(Rm(w)), 0, Rd(w))
        [] op \in {"STUR", "LDUR"} ->
             regs(Rn(w), bitfield_s64(w, 12, 9) % 2^8, noSP(Rd(w)))
        [] op = "BL" -> regs(0, 0, 30)
        [] OTHER -> regs(0, 0, 0)

(* regfile: register 32 reads as zero.                                     *)
regfile(r) == IF r = XZR THEN Zero ELSE Reg(r)

(* What decode_instr leaves in the execute register.                       *)
decode_instr(w, op) ==
  LET sigs == generate_DXMW_control(op)
      regs == extract_regs(w, op)
  IN  [op      |-> op,
       ALU_op  |-> decide_alu_op(op),
       X_sigs  |-> sigs.X, M_sigs |-> sigs.M, W_sigs |-> sigs.W,
       dst     |-> regs.dst,
       val_a   |-> CASE op = "MOVK" -> Kept(regs.dst, bitfield_u32(w, 21, 2))
                     [] op \in {"MOVZ", "MVN"} -> Zero
                     [] op = "ADRP" -> PageOfPC
                     [] op = "RET"  -> Reg(Rn(w))
                     [] OTHER       -> regfile(regs.src1),
       val_b   |-> CASE op = "MVN"  -> regfile(regs.src1)
                     [] op = "ADRP" -> Zero
                     [] op \in {"STUR", "LDUR"} -> regfile(regs.dst)
                     [] OTHER       -> regfile(regs.src2),
       val_imm |-> IF op \in {"STUR", "LDUR"} THEN regs.src2
                   ELSE IF op \in ImmediateOps THEN extract_immval(w, op) ELSE 0,
       val_hw  |-> CASE op \in {"MOVZ", "MOVK"} -> bitfield_u32(w, 21, 2) * 16
                     [] op = "MVN" -> bitfield_u32(w, 10, 6)
                     [] OTHER      -> 0,
       cond    |-> IF op = "B_COND" THEN bitfield_u32(w, 0, 4) ELSE 0]

-----------------------------------------------------------------------------
(* What the later stages do with it.                                       *)

(* execute_instr chooses the second operand; a shift uses six bits of it.  *)
valb(x) ==
  CASE x.op \in RegisterOps  -> x.val_b
    [] x.op \in ShiftOps     -> Imm(x.val_imm % 64)
    [] x.op \in ImmediateOps \ ShiftOps -> Imm(x.val_imm)
    [] OTHER                 -> Zero

(* wback_instr writes registers 0 to 30 and SP.                            *)
WrittenRegister(x) ==
  IF x.op = "BL" THEN 30
  ELSE IF x.W_sigs.w_enable THEN x.dst ELSE Discarded

(* The computation counts when something keeps its result.                 *)
Computing(x) ==
  x.op = "RET" \/ x.W_sigs.w_enable \/ x.X_sigs.set_flags \/ x.M_sigs.dmem_write

(* The effect of a word, from its execute register and its prediction.     *)
Performed(x, offset) ==
  LET computed(v, otherwise) == IF Computing(x) THEN v ELSE otherwise
  IN  Effect(computed(x.ALU_op, "none"),
             computed(IF x.op = "BL" THEN Link ELSE x.val_a, Zero),
             computed(valb(x), Zero),
             IF x.ALU_op = "MOV" THEN x.val_hw ELSE 0,
             IF x.X_sigs.set_flags THEN "NZCV" ELSE "none",
             computed(WrittenRegister(x), Discarded),
             IF x.M_sigs.dmem_read THEN "read"
               ELSE IF x.M_sigs.dmem_write THEN "write" ELSE "none",
             IF x.M_sigs.dmem_write THEN x.val_b ELSE Zero,
             offset,
             IF x.op = "B_COND" THEN ConditionNumber[x.cond] ELSE "AL")
=============================================================================
