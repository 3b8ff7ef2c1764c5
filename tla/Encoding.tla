------------------------------ MODULE Encoding ------------------------------
(***************************************************************************)
(* The instructions a guest program is written in, the words the assembler *)
(* makes of them and what the architecture says they do.  None of it is    *)
(* the emulator's: it is what the words in a guest's text memory mean, and *)
(* Datapath compares it with what fetch and decode make of the same words. *)
(*                                                                         *)
(* A word is kept as its bits 31 to 21, the ones itable is indexed with,   *)
(* and the 21 bits below them.                                             *)
(***************************************************************************)
EXTENDS Integers

Registers == 0 .. 31

(* An instruction as written: registers d, n and m, an immediate or a      *)
(* signed offset, the halfword of a move wide or the condition of a B.cond.*)
Written(name, d, n, m, imm, sel) ==
  [name |-> name, d |-> d, n |-> n, m |-> m, imm |-> imm, sel |-> sel]

Word32(top, low) == [top |-> top, low |-> low]

(* The fields an assembler accepts.  An addition, subtraction or AND into  *)
(* the zero register is written as its compare or test, and a bit-field    *)
(* move that is a shift as the shift.                                      *)
Field(width)       == 0 .. 2^width - 1
SignedField(width) == -(2^(width - 1)) .. 2^(width - 1) - 1

Fits(i) ==
  /\ i.name \in {"ADDS", "SUBS", "ANDS"} => i.d # 31
  /\ i.name \in {"ADD", "SUB"} => i.imm \in Field(12)
  /\ i.name \in {"MOVZ", "MOVK"} => i.imm \in Field(16) /\ i.sel \in Field(2)
  /\ i.name \in {"LDUR", "STUR"} => i.imm \in SignedField(9)
  /\ i.name \in {"LSL", "LSR", "ASR"} => i.imm \in Field(6)
  /\ i.name = "UBFX" => i.imm \in 0 .. i.sel /\ i.sel \in 0 .. 62
  /\ i.name = "ADRP" => i.imm \in SignedField(21)
  /\ i.name \in {"B", "BL"} => i.imm \in SignedField(26)
  /\ i.name \in {"BCOND", "CBZ", "CBNZ"} => i.imm \in SignedField(19)
  /\ i.name \in {"BCOND", "CSEL", "CSNEG"} => i.sel \in Field(4)
  /\ i.name \in {"HLT", "UDF"} => i.imm \in Field(16)

Names == {"ADDS", "SUBS", "ANDS", "ORR", "EOR", "CMN", "CMP", "TST", "MVN", "ADD",
          "SUB", "MOVZ", "MOVK", "LDUR", "STUR", "LSL", "LSR", "ASR", "UBFX",
          "ADRP", "B", "BL", "BCOND", "RET", "CSEL", "CSNEG", "CBZ", "CBNZ", "BR",
          "BLR", "NOP", "HLT", "UDF"}

Instructions ==
  {i \in [name : Names, d : Registers, n : Registers, m : Registers, imm : Int,
          sel : 0 .. 63] : Fits(i)}

(* A negative number of the given width, as bits.                          *)
Bits(v, width) == IF v < 0 THEN v + 2^width ELSE v

-----------------------------------------------------------------------------
(* The encodings.                                                          *)

ThreeRegisters(top, d, n, m) == Word32(top, m * 2^16 + n * 32 + d)

TopOf == [ADDS |-> 1368, SUBS |-> 1880, ANDS |-> 1872, ORR |-> 1360, EOR |-> 1616,
          CMN |-> 1368, CMP |-> 1880, TST |-> 1872, MVN |-> 1361,
          ADD |-> 1160, SUB |-> 1672, MOVZ |-> 1684, MOVK |-> 1940,
          LDUR |-> 1986, STUR |-> 1984, CSEL |-> 1236, CSNEG |-> 1748,
          CBZ |-> 1440, CBNZ |-> 1448, BR |-> 1712, BLR |-> 1713]

(* A bit-field move: immr straddles the two parts of the word.             *)
BitField(top, immr, imms, n, d) ==
  Word32(top + immr \div 32, (immr % 32) * 2^16 + imms * 2^10 + n * 32 + d)

Assemble(i) ==
  CASE i.name \in {"ADDS", "SUBS", "ANDS", "ORR", "EOR"} ->
         ThreeRegisters(TopOf[i.name], i.d, i.n, i.m)
    [] i.name \in {"CMN", "CMP", "TST"} ->
         ThreeRegisters(TopOf[i.name], 31, i.n, i.m)
    [] i.name = "MVN" ->
         ThreeRegisters(TopOf["MVN"], i.d, 31, i.m)
    [] i.name \in {"ADD", "SUB"} ->
         Word32(TopOf[i.name] + i.imm \div 2^11,
                (i.imm % 2^11) * 2^10 + i.n * 32 + i.d)
    [] i.name \in {"MOVZ", "MOVK"} ->
         Word32(TopOf[i.name] + i.sel, i.imm * 32 + i.d)
    [] i.name \in {"LDUR", "STUR"} ->
         Word32(TopOf[i.name], Bits(i.imm, 9) * 2^12 + i.n * 32 + i.d)
    [] i.name = "LSL"  -> BitField(1690, (64 - i.imm) % 64, 63 - i.imm, i.n, i.d)
    [] i.name = "LSR"  -> BitField(1690, i.imm, 63, i.n, i.d)
    [] i.name = "ASR"  -> BitField(1178, i.imm, 63, i.n, i.d)
    [] i.name = "UBFX" -> BitField(1690, i.imm, i.sel, i.n, i.d)
    [] i.name = "ADRP" ->
         LET imm == Bits(i.imm, 21)
             hi  == imm \div 4
         IN  Word32(1152 + (imm % 4) * 256 + hi \div 2^16, (hi % 2^16) * 32 + i.d)
    [] i.name \in {"B", "BL"} ->
         LET imm == Bits(i.imm, 26)
         IN  Word32((IF i.name = "B" THEN 160 ELSE 1184) + imm \div 2^21,
                    imm % 2^21)
    [] i.name = "BCOND" ->
         LET imm == Bits(i.imm, 19)
         IN  Word32(672 + imm \div 2^16, (imm % 2^16) * 32 + i.sel)
    [] i.name = "RET" -> Word32(1714, 31 * 2^16 + i.n * 32)
    [] i.name \in {"CSEL", "CSNEG"} ->
         Word32(TopOf[i.name],
                i.m * 2^16 + i.sel * 2^12 + (IF i.name = "CSNEG" THEN 2^10 ELSE 0)
                  + i.n * 32 + i.d)
    [] i.name \in {"CBZ", "CBNZ"} ->
         LET imm == Bits(i.imm, 19)
         IN  Word32(TopOf[i.name] + imm \div 2^16, (imm % 2^16) * 32 + i.d)
    [] i.name \in {"BR", "BLR"} -> Word32(TopOf[i.name], 31 * 2^16 + i.n * 32)
    [] i.name = "NOP" -> Word32(1704, 204831)
    [] i.name = "HLT" -> Word32(1698, i.imm * 32)
    [] i.name = "UDF" -> Word32(0, i.imm)

-----------------------------------------------------------------------------
(* The meanings.  An operand is a register, an immediate, zero, the page   *)
(* of the instruction (counted in pages of 4096 bytes), the return address *)
(* or, for a MOVK, a register but for one halfword.                        *)

Zero     == <<"zero", 0>>
Link     == <<"link", 0>>
PageOfPC == <<"page", 0>>
Imm(v)   == <<"imm", v>>
Reg(r)   == <<"reg", r>>
Kept(r, halfword) == <<"kept", r, halfword>>

Discarded == 32   \* no register: the result goes nowhere

(* Register 31 is the zero register unless the instruction reads or writes *)
(* the stack pointer there.                                                *)
Source(r) == IF r = 31 THEN Zero ELSE Reg(r)
Target(r) == IF r = 31 THEN Discarded ELSE r

(* What an instruction does: compute a value from two operands and leave   *)
(* it in a register, in the flags or as an address of memory; and where a  *)
(* branch goes, counted in words from the instruction.                     *)
Effect(alu, a, b, shift, flags, to, access, data, offset, cond) ==
  [alu |-> alu, a |-> a, b |-> b, shift |-> shift, flags |-> flags, to |-> to,
   access |-> access, data |-> data, offset |-> offset, cond |-> cond]

(* The usual ones: a value for a register, the same with flags, a change   *)
(* of the place where the program goes on.                                 *)
Computes(alu, a, b, to) ==
  Effect(alu, a, b, 0, "none", to, "none", Zero, 1, "AL")

ComputesFlags(alu, a, b, to) ==
  Effect(alu, a, b, 0, "NZCV", to, "none", Zero, 1, "AL")

Goes(offset, cond, data) ==
  Effect("none", Zero, Zero, 0, "none", Discarded, "none", data, offset, cond)

ConditionNumber ==
  [n \in 0 .. 15 |->
     <<"EQ", "NE", "CS", "CC", "MI", "PL", "VS", "VC", "HI", "LS", "GE", "LT",
       "GT", "LE", "AL", "NV">>[n + 1]]

Meaning(i) ==
  CASE i.name = "ADDS" -> ComputesFlags("PLUS", Source(i.n), Source(i.m), Target(i.d))
    [] i.name = "CMN"  -> ComputesFlags("PLUS", Source(i.n), Source(i.m), Discarded)
    [] i.name = "SUBS" -> ComputesFlags("MINUS", Source(i.n), Source(i.m), Target(i.d))
    [] i.name = "CMP"  -> ComputesFlags("MINUS", Source(i.n), Source(i.m), Discarded)
    [] i.name = "ANDS" -> ComputesFlags("AND", Source(i.n), Source(i.m), Target(i.d))
    [] i.name = "TST"  -> ComputesFlags("AND", Source(i.n), Source(i.m), Discarded)
    [] i.name = "ORR"  -> Computes("OR", Source(i.n), Source(i.m), Target(i.d))
    [] i.name = "EOR"  -> Computes("EOR", Source(i.n), Source(i.m), Target(i.d))
    [] i.name = "MVN"  -> Computes("INV", Zero, Source(i.m), Target(i.d))
    [] i.name = "ADD"  -> Computes("PLUS", Reg(i.n), Imm(i.imm), i.d)
    [] i.name = "SUB"  -> Computes("MINUS", Reg(i.n), Imm(i.imm), i.d)
    [] i.name \in {"MOVZ", "MOVK"} ->
         Effect("MOV", IF i.name = "MOVZ" THEN Zero ELSE Kept(i.d, i.sel), Imm(i.imm),
                16 * i.sel, "none", Target(i.d), "none", Zero, 1, "AL")
    [] i.name \in {"LSL", "LSR", "ASR"} ->   \* an LSL by 0 is the word of an LSR by 0
         Computes(IF i.name = "LSL" /\ i.imm = 0 THEN "LSR" ELSE i.name,
                  Source(i.n), Imm(i.imm), Target(i.d))
    [] i.name = "ADRP" -> Computes("PLUS", PageOfPC, Imm(i.imm), Target(i.d))
    [] i.name = "LDUR" -> Effect("PLUS", Reg(i.n), Imm(i.imm), 0, "none", Target(i.d),
                                 "read", Zero, 1, "AL")
    [] i.name = "STUR" -> Effect("PLUS", Reg(i.n), Imm(i.imm), 0, "none", Discarded,
                                 "write", Source(i.d), 1, "AL")
    [] i.name = "B"     -> Goes(i.imm, "AL", Zero)
    [] i.name = "BL"    -> Effect("PASS_A", Link, Zero, 0, "none", 30, "none", Zero,
                                  i.imm, "AL")
    [] i.name = "BCOND" -> Goes(i.imm, ConditionNumber[i.sel], Zero)
    [] i.name \in {"RET", "BR"} -> Computes("PASS_A", Source(i.n), Zero, Discarded)
    [] i.name = "BLR"   -> Computes("PASS_A", Source(i.n), Link, 30)
    [] i.name \in {"CSEL", "CSNEG"} ->
         Effect(i.name, Source(i.n), Source(i.m), 0, "none", Target(i.d), "none", Zero,
                1, ConditionNumber[i.sel])
    [] i.name \in {"CBZ", "CBNZ"} -> Goes(i.imm, i.name, Source(i.d))
    [] i.name \in {"NOP", "HLT", "UDF"} -> Goes(1, "AL", Zero)
=============================================================================
