-------------------------------- MODULE ISA ---------------------------------
(***************************************************************************)
(* The programmer's machine: one instruction at a time, in program order.  *)
(* This is what the pipeline has to look like from the outside, written    *)
(* without any stage, latch, stall or forwarding.                          *)
(***************************************************************************)
EXTENDS Instr

VARIABLES prog, pc, regs, nzcv, mem, status

vars == <<prog, pc, regs, nzcv, mem, status>>

(* The program, the registers, the flags and memory start as they may.      *)
Init == pc = 1 /\ status = "AOK"

Insn1 == At(prog, pc)
Reg(r) == IF r = XZR THEN 0 ELSE regs[r]

(* Register rd becomes v; writes to the zero register are lost.            *)
SetReg(rd, v) ==
  regs' = IF rd = XZR THEN regs ELSE [regs EXCEPT ![rd] = v]

(* The program goes on at next; but an instruction outside the text is the *)
(* last one.                                                               *)
Goes(next) ==
  IF Insn1.imem_err THEN status' = "INS" /\ UNCHANGED pc
                    ELSE pc' = next /\ UNCHANGED status

Compute ==
  LET i == Insn1
      a == Reg(ZeroReg(i.op, i.rn))
      b == IF i.op = "ADD_RI" THEN i.imm ELSE Reg(ZeroReg(i.op, i.rm))
      v == Alu(i.op, a, b)
  IN
    /\ i.op \in {"ADD_RI", "ADDS_RR", "CMP_RR", "ORR_RR"}
    /\ IF i.op = "CMP_RR" THEN UNCHANGED regs
                          ELSE SetReg(ZeroReg(i.op, i.rd), v)
    /\ nzcv' = FlagsAfter(i.op, a, b, v, nzcv)
    /\ Goes(pc + 1)
    /\ UNCHANGED mem

Move ==
  /\ Insn1.op \in {"MOVZ", "MOVK"}
  /\ SetReg(Insn1.rd,
       Insn1.imm + IF Insn1.op = "MOVK" THEN KeepHigh(regs[Insn1.rd]) ELSE 0)
  /\ Goes(pc + 1)
  /\ UNCHANGED <<nzcv, mem>>

EffectiveAddr == (Reg(Insn1.rn) + Insn1.imm) % (2*Half)
TransferReg == IF Insn1.rd = SP THEN XZR ELSE Insn1.rd

Load ==
  /\ Insn1.op = "LDUR"
  /\ EffectiveAddr \in DataAddrs
  /\ SetReg(TransferReg, Loaded(mem, EffectiveAddr))
  /\ Goes(pc + 1)
  /\ UNCHANGED <<nzcv, mem>>

(* A store to the null address is dropped.                                 *)
Store ==
  /\ Insn1.op = "STUR"
  /\ EffectiveAddr \in DataAddrs \cup {0}
  /\ mem' = Stored(mem, EffectiveAddr, Reg(TransferReg))
  /\ Goes(pc + 1)
  /\ UNCHANGED <<regs, nzcv>>

(* A load or a store that is not of a word of data memory is made, and     *)
(* stops the program.                                                      *)
BadAddress ==
  /\ Insn1.op \in MemoryOps
  /\ EffectiveAddr \notin DataAddrs \cup {0}
  /\ status' = "ADR"
  /\ \/ /\ Insn1.op = "LDUR"
        /\ SetReg(TransferReg, Loaded(mem, EffectiveAddr))
        /\ UNCHANGED mem
     \/ /\ Insn1.op = "STUR"
        /\ mem' = Stored(mem, EffectiveAddr, Reg(TransferReg))
        /\ UNCHANGED regs
  /\ UNCHANGED <<pc, nzcv>>

Jump ==
  LET i == Insn1 IN
    /\ i.op \in {"B", "BL", "B_COND", "RET", "NOP"}
    /\ Goes(CASE i.op \in {"B", "BL"} -> pc + i.imm
              [] i.op = "B_COND" -> IF cond_holds(i.cond, nzcv)
                                      THEN pc + i.imm ELSE pc + 1
              [] i.op = "RET" -> regs[i.rn]
              [] i.op = "NOP" -> pc + 1)
    /\ IF i.op = "BL" THEN SetReg(LR, Link(pc + 1)) ELSE UNCHANGED regs
    /\ UNCHANGED <<nzcv, mem>>

(* HLT, the return from the start function to address 0, and an opcode of  *)
(* no instruction stop the program.                                        *)
Stop ==
  /\ \/ pc = 0 /\ status' = "HLT"
     \/ pc # 0 /\ Insn1.op \in {"HLT", "ERROR"} /\ status' = FetchStatus(Insn1)
  /\ UNCHANGED <<pc, regs, nzcv, mem>>

Next ==
  /\ status = "AOK"
  /\ \/ pc # 0 /\ (Compute \/ Move \/ Load \/ Store \/ BadAddress \/ Jump)
     \/ Stop
  /\ UNCHANGED prog

Spec == Init /\ [][Next]_vars
=============================================================================
