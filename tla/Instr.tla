------------------------------- MODULE Instr -------------------------------
(***************************************************************************)
(* The instructions the pipeline is modelled for, and what the decoder and *)
(* the ALU make of them.  An instruction is a record of its operand fields *)
(* instead of 32 bits:                                                     *)
(*   rd, rn, rm  the register fields of bits 0-4, 5-9 and 16-20            *)
(*   imm         the immediate, or the offset of a branch in instructions  *)
(*   cond        the condition of a B.cond                                 *)
(* and imem_err, which is set for one that fetch finds outside the text.   *)
(* One opcode stands for each way an instruction can use the pipeline; the *)
(* others differ from their representative in the ALU operation only.      *)
(* Instructions are numbered from 1 in the order of their addresses.       *)
(***************************************************************************)
EXTENDS Flags, Sequences

CONSTANTS
  Low,         \* the first number that has no place in an immediate: 2^16
  Or(_, _),    \* the bitwise or of two words
  Regs,        \* the registers that programs name
  DataAddrs,   \* the word addresses inside data memory
  \* What is no word of data or no instruction of the text, but is accessed and
  \* executed before the program stops: memory after a store of a value at such an
  \* address, the value of a load there, and what fetch finds at an address.
  StoreElsewhere(_, _, _), LoadElsewhere(_, _), Outside

(* The words of a register, as wide as those the flags are for.            *)
Values == 0 .. 2*Half - 1

(* A MOVK replaces the low part of the register and keeps the rest.        *)
KeepHigh(v) == v - (v % Low)

(* The number behind an instruction, as a register holds it.               *)
Link(seq_succ) == seq_succ % (2*Half)

LR  == 30
SP  == 31
XZR == 32   \* the encoding decode gives the zero register

Opcodes == {"NOP", "LDUR", "STUR", "MOVK", "MOVZ", "ADD_RI", "ADDS_RR",
            "CMP_RR", "ORR_RR", "B", "B_COND", "BL", "RET", "HLT", "ERROR"}

(* The instructions a program is made of, and those outside it.            *)
Instructions ==
  {i \in [op : Opcodes, rd : Regs, rn : Regs, rm : Regs, imm : Int,
          cond : Conditions, imem_err : BOOLEAN] :
     /\ i.op \in {"ADD_RI", "LDUR", "STUR", "MOVZ"} => i.imm \in Values
     /\ i.op = "MOVK" => i.imm \in 0 .. Low - 1}

(* Of the bitwise or, only what immediates put together with it; of a      *)
(* store that is no word's, that it may be made twice.                     *)
ASSUME InstrAssumption ==
  /\ Low \in Values \ {0}
  /\ \A a, b \in Values : Or(a, b) \in Values
  /\ \A b \in Values : Or(0, b) = b
  /\ \A a \in Values : \A b \in 0 .. Low - 1 : Or(KeepHigh(a), b) = KeepHigh(a) + b
  /\ {0, LR} \subseteq Regs /\ Regs \subseteq 0 .. 31
  /\ DataAddrs \subseteq Values \ {0}
  /\ \A m \in [DataAddrs -> Values], a, v \in Values :
       LET after == StoreElsewhere(m, a, v)
       IN  /\ after \in [DataAddrs -> Values] /\ StoreElsewhere(after, a, v) = after
           /\ LoadElsewhere(m, a) \in Values
  /\ Outside \in [Values -> Instructions] /\ \A pc \in Values : Outside[pc].imem_err

Insn(op, rd, rn, rm, imm, cond) ==
  [op |-> op, rd |-> rd, rn |-> rn, rm |-> rm, imm |-> imm, cond |-> cond,
   imem_err |-> FALSE]

NOP   == Insn("NOP", 0, 0, 0, 0, "EQ")
HLT   == Insn("HLT", 0, 0, 0, 0, "EQ")
ERROR == Insn("ERROR", 0, 0, 0, 0, "EQ")

LDUR(rt, rn, off)  == Insn("LDUR", rt, rn, 0, off, "EQ")
STUR(rt, rn, off)  == Insn("STUR", rt, rn, 0, off, "EQ")
MOVZ(rd, imm)      == Insn("MOVZ", rd, 0, 0, imm, "EQ")
MOVK(rd, imm)      == Insn("MOVK", rd, 0, 0, imm, "EQ")
ADDI(rd, rn, imm)  == Insn("ADD_RI", rd, rn, 0, imm, "EQ")
ADDS(rd, rn, rm)   == Insn("ADDS_RR", rd, rn, rm, 0, "EQ")
CMP(rn, rm)        == Insn("CMP_RR", 31, rn, rm, 0, "EQ")
ORR(rd, rn, rm)    == Insn("ORR_RR", rd, rn, rm, 0, "EQ")
B(off)             == Insn("B", 0, 0, 0, off, "EQ")
BL(off)            == Insn("BL", 0, 0, 0, off, "EQ")
BCOND(cond, off)   == Insn("B_COND", 0, 0, 0, off, cond)
RET(rn)            == Insn("RET", 0, rn, 0, 0, "EQ")

(* What fetch finds at pc.                                                 *)
At(prog, pc) == IF pc \in DOMAIN prog THEN prog[pc] ELSE Outside[pc % (2*Half)]

(* The status an instruction gets in fetch.  One from outside the text and *)
(* an opcode of no instruction stop the program once they have gone        *)
(* through the pipeline like any other.                                    *)
FetchStatus(i) == IF i.imem_err \/ i.op = "ERROR" THEN "INS"
                  ELSE IF i.op = "HLT" THEN "HLT" ELSE "AOK"

-----------------------------------------------------------------------------
(* Data memory.                                                            *)

(* dmem makes every access: one that is not of a word is only reported.  A *)
(* store to the null address, which is special, is dropped.                *)
Stored(m, a, v) ==
  IF a \in DataAddrs THEN [m EXCEPT ![a] = v]
  ELSE IF a = 0 THEN m ELSE StoreElsewhere(m, a, v)

Loaded(m, a) == IF a \in DataAddrs THEN m[a] ELSE LoadElsewhere(m, a)

-----------------------------------------------------------------------------
(* What each opcode uses.                                                  *)

RegisterOps == {"ADDS_RR", "CMP_RR", "ORR_RR"}
MemoryOps   == {"LDUR", "STUR"}
RegWriters  == {"ADDS_RR", "ADD_RI", "ORR_RR", "BL", "MOVZ", "MOVK", "LDUR"}

(* Register 31 is the zero register for these and SP for the others.       *)
ZeroReg(op, r) ==
  IF r = SP /\ op \in {"CMP_RR", "ORR_RR"} THEN XZR ELSE r

-----------------------------------------------------------------------------
(* The ALU.                                                                *)

(* Seeded fault: a sum keeps its carry.                                    *)
AluUnbounded(op, a, b) ==
  CASE op \in {"ADDS_RR", "ADD_RI", "LDUR", "STUR"} -> a + b
    [] op = "CMP_RR"                               -> Difference(a, b)
    [] op \in {"ORR_RR", "MOVZ", "MOVK"}            -> Or(a, b)
    [] OTHER                                       -> a

Alu(op, a, b) ==
  CASE op \in {"ADDS_RR", "ADD_RI", "LDUR", "STUR"} -> Sum(a, b)
    [] op = "CMP_RR"                               -> Difference(a, b)
    [] op \in {"ORR_RR", "MOVZ", "MOVK"}            -> Or(a, b)
    [] OTHER                                       -> a

(* NZCV after an instruction that left result.                             *)
FlagsAfter(op, a, b, result, old) ==
  CASE op = "ADDS_RR" -> FlagsOf("PLUS", a, b, result)
    [] op = "CMP_RR"  -> FlagsOf("MINUS", a, b, result)
    [] OTHER          -> old
=============================================================================
