------------------------------ MODULE Pipeline ------------------------------
(***************************************************************************)
(* The five-stage pipeline of the emulator: the main loop of runElf        *)
(* (src/base/proc.c) and the stage, forwarding and hazard functions under  *)
(* src/pipe.  A clock cycle runs the stages from write-back to fetch, one  *)
(* action each, and ends in an action that decides hazards and latches.    *)
(*                                                                         *)
(* A pipeline register is a pair of records, _in written by the stage      *)
(* before it and _out read by its own stage.  The control signals that the *)
(* code carries in the registers are functions of the opcode, so a record  *)
(* carries the instruction instead.  Data memory answers after any number  *)
(* of cycles up to MaxWait: what module MemCache does with hits and misses.*)
(*                                                                         *)
(* The fields pc, next and nzcv of the registers and the variable arch are *)
(* history: they say which program step the instruction in write-back is.  *)
(***************************************************************************)
EXTENDS Instr

CONSTANTS
  Programs,   \* the programs the run starts from
  InitialRegs, InitialFlags, InitialMem,  \* and the states
  MaxWait     \* bound: cycles an access may stay in flight

FlagSettings == [n : BOOLEAN, z : BOOLEAN, c : BOOLEAN, v : BOOLEAN]

(* A program starts at instruction 1 and is the whole text.                *)
ASSUME PipelineAssumption ==
  /\ \A p \in Programs :
       p \in Seq(Instructions) /\ \A k \in DOMAIN p : ~p[k].imem_err
  /\ InitialRegs \subseteq [Regs -> Values]
  /\ InitialFlags \subseteq FlagSettings
  /\ InitialMem \subseteq [DataAddrs -> Values]
  /\ MaxWait \in Nat

VARIABLES
  prog,         \* text memory
  stage,        \* what the main loop does next
  status,       \* guest.proc->status
  PC,           \* guest.proc->PC, the predicted PC
  GPR,          \* guest.proc->GPR and SP
  NZCV,         \* guest.proc->NZCV
  mem,          \* data memory
  dmem_status,  \* READY or IN_FLIGHT
  waited,       \* cycles the current access has been in flight
  W_wval,       \* the global through which write-back passes its value
  F_pred,       \* F_out->pred_PC
  F_status,     \* F_in->status
  D_in, D_out, X_in, X_out, M_in, M_out, W_in, W_out,
  arch          \* history: the program state after the last retirement

regVars == <<D_in, D_out, X_in, X_out, M_in, M_out, W_in, W_out>>
vars == <<prog, stage, status, PC, GPR, NZCV, mem, dmem_status, waited, W_wval,
          F_pred, F_status, D_in, D_out, X_in, X_out, M_in, M_out, W_in, W_out,
          arch>>

-----------------------------------------------------------------------------
(* The registers.  A bubble is all zeroes, which reads as a NOP with       *)
(* destination 0 and status STAT_BUB.                                      *)

DBubble == [insn |-> NOP, status |-> "BUB", seq_succ |-> 0, pc |-> 0]
XBubble == [insn |-> NOP, status |-> "BUB", seq_succ |-> 0, val_a |-> 0,
            val_b |-> 0, val_imm |-> 0, pc |-> 0]
MBubble == [insn |-> NOP, status |-> "BUB", seq_succ |-> 0, val_ex |-> 0,
            val_b |-> 0, cond_holds |-> FALSE, pc |-> 0, next |-> 0,
            nzcv |-> NoFlags]
WBubble == [insn |-> NOP, status |-> "BUB", val_ex |-> 0, val_mem |-> 0,
            stored |-> 0, pc |-> 0, next |-> 0, nzcv |-> NoFlags]

(* runElf up to its loop.  The registers and the flags may hold anything, *)
(* as if a prefix of the program had run and drained.                      *)
Init ==
  /\ prog \in Programs
  /\ stage = "wback" /\ status = "AOK"
  /\ PC = 1 /\ F_pred = 1 /\ F_status = "BUB"
  /\ GPR \in InitialRegs
  /\ NZCV \in InitialFlags
  /\ mem \in InitialMem
  /\ dmem_status = "READY" /\ waited = 0
  /\ W_wval = 0
  /\ D_in = DBubble /\ D_out = DBubble
  /\ X_in = XBubble /\ X_out = XBubble
  /\ M_in = MBubble /\ M_out = MBubble
  /\ W_in = WBubble /\ W_out = WBubble
  /\ arch = [pc |-> 1, regs |-> GPR, nzcv |-> NZCV, mem |-> mem,
             status |-> "AOK"]

-----------------------------------------------------------------------------
(* extract_regs: the registers an instruction names, 0 where none is set.  *)

src1(i) == CASE i.op \in RegisterOps -> ZeroReg(i.op, i.rn)
             [] i.op \in MemoryOps \cup {"ADD_RI"} -> i.rn
             [] OTHER -> 0

src2(i) == CASE i.op \in RegisterOps -> ZeroReg(i.op, i.rm)
             [] OTHER -> 0

dst(i) == CASE i.op \in RegisterOps -> ZeroReg(i.op, i.rd)
            [] i.op \in MemoryOps -> IF i.rd = SP THEN XZR ELSE i.rd
            [] i.op \in {"ADD_RI", "MOVZ", "MOVK"} -> i.rd
            [] i.op = "BL" -> LR
            [] OTHER -> 0

w_enable(i) == i.op \in RegWriters
wval_sel(i) == i.op = "LDUR"

(* The five bits of n from the one that is worth k.                        *)
FiveBits(n, k) == (n \div k) % 32

(* What the main loop hands to hazard control as sources: bits 5 to 9 and  *)
(* 16 to 20 of the word, whatever they mean in the instruction.  For the   *)
(* opcodes that hazard control does not look at, 0 stands for bits 16-20.  *)
D_src1(i) ==
  CASE i.op = "MOVZ" -> 31
    [] i.op \in {"MOVK", "B_COND"} -> FiveBits(i.imm, 1)
    [] i.op \in {"B", "BL"} -> FiveBits(i.imm, 32)
    [] OTHER -> i.rn

D_src2(i) ==
  CASE i.op = "STUR" -> i.rd
    [] i.op \in RegisterOps -> i.rm
    [] i.op = "ADD_RI" -> FiveBits(i.imm, 64)
    [] i.op \in {"MOVZ", "MOVK"} -> FiveBits(i.imm, 2048)
    [] i.op \in {"B", "BL"} -> FiveBits(i.imm, 65536)
    [] OTHER -> 0

ReadReg(r) == IF r = XZR THEN 0 ELSE GPR[r]

(* What a register file update of r by v leaves; XZR is not written.       *)
Updated(regs, r, v) == IF r = XZR THEN regs ELSE [regs EXCEPT ![r] = v]

-----------------------------------------------------------------------------
(* wback_instr.  A real instruction here is retired: arch moves one step.  *)

WValue(w) == IF w.insn.op = "LDUR" THEN w.val_mem ELSE w.val_ex

Retired(w) ==
  IF w.status = "BUB" THEN arch ELSE
    [pc     |-> IF w.status = "AOK" THEN w.next ELSE w.pc,
     regs   |-> IF w_enable(w.insn)
                  THEN Updated(arch.regs, dst(w.insn), WValue(w))
                  ELSE arch.regs,
     nzcv   |-> w.nzcv,
     mem    |-> IF w.insn.op = "STUR" THEN Stored(arch.mem, w.val_ex, w.stored)
                                      ELSE arch.mem,
     status |-> w.status]

WBack ==
  /\ stage = "wback"
  /\ W_wval' = WValue(W_out)
  /\ GPR' = IF w_enable(W_out.insn)
              THEN Updated(GPR, dst(W_out.insn), WValue(W_out)) ELSE GPR
  /\ arch' = Retired(W_out)
  /\ stage' = "memory"
  /\ UNCHANGED <<prog, status, PC, NZCV, mem, dmem_status, waited, F_pred,
                 F_status, regVars>>

-----------------------------------------------------------------------------
(* memory_instr and dmem.  The null address is special: a load from it     *)
(* exits the emulator, a store to it is dropped, and neither touches       *)
(* dmem_status.  An address outside data memory or in the middle of a word *)
(* is an error, but the access is made.                                    *)

MemoryResult(value, err) ==
  W_in' = [insn |-> M_out.insn, status |-> IF err THEN "ADR" ELSE M_out.status,
           val_ex |-> M_out.val_ex, val_mem |-> value, stored |-> M_out.val_b,
           pc |-> M_out.pc, next |-> M_out.next, nzcv |-> M_out.nzcv]

(* Seeded fault: only the upper end of data memory is tested.              *)
BadAddrAbove(a) == \A x \in DataAddrs : a > x

BadAddr(a) == a \notin DataAddrs \cup {0}

(* Seeded fault: a store does not wait for its answer.                     *)
MemoryAfterAtOnce(answered) ==
  IF M_out.insn.op = "STUR" THEN Stored(mem, M_out.val_ex, M_out.val_b) ELSE mem

(* Memory after a call of dmem.  A load or store that has an error stays   *)
(* in M and is made again in the next cycle, the last one.                 *)
MemoryAfter(answered) ==
  IF answered /\ M_out.insn.op = "STUR"
    THEN Stored(mem, M_out.val_ex, M_out.val_b) ELSE mem

MemoryNoAccess ==
  /\ stage = "memory"
  /\ \/ M_out.insn.op \notin MemoryOps
     \/ M_out.insn.op = "STUR" /\ M_out.val_ex = 0
  /\ MemoryResult(0, FALSE)
  /\ stage' = "execute"
  /\ UNCHANGED <<prog, status, PC, GPR, NZCV, mem, dmem_status, waited, W_wval,
                 F_pred, F_status, D_in, D_out, X_in, X_out, M_in, M_out,
                 W_out, arch>>

MemoryAnswer ==
  LET a == M_out.val_ex IN
    /\ stage = "memory"
    /\ M_out.insn.op \in MemoryOps /\ a # 0
    /\ dmem_status' = "READY" /\ waited' = 0
    /\ MemoryResult(IF M_out.insn.op = "LDUR" THEN Loaded(mem, a) ELSE 0, BadAddr(a))
    /\ mem' = MemoryAfter(TRUE)
    /\ stage' = "execute"
    /\ UNCHANGED <<prog, status, PC, GPR, NZCV, W_wval, F_pred, F_status, D_in,
                   D_out, X_in, X_out, M_in, M_out, W_out, arch>>

MemoryInFlight ==
  /\ stage = "memory"
  /\ M_out.insn.op \in MemoryOps /\ M_out.val_ex # 0
  /\ waited < MaxWait
  /\ dmem_status' = "IN_FLIGHT" /\ waited' = waited + 1
  /\ MemoryResult(0, BadAddr(M_out.val_ex))
  /\ mem' = MemoryAfter(FALSE)
  /\ stage' = "execute"
  /\ UNCHANGED <<prog, status, PC, GPR, NZCV, W_wval, F_pred, F_status, D_in,
                 D_out, X_in, X_out, M_in, M_out, W_out, arch>>

MemoryExit ==
  /\ stage = "memory"
  /\ M_out.insn.op = "LDUR" /\ M_out.val_ex = 0
  /\ stage' = "stopped" /\ status' = "EXIT"
  /\ UNCHANGED <<prog, PC, GPR, NZCV, mem, dmem_status, waited, W_wval, F_pred,
                 F_status, regVars, arch>>

Memory == MemoryNoAccess \/ MemoryAnswer \/ MemoryInFlight \/ MemoryExit

-----------------------------------------------------------------------------
(* execute_instr.  cond_holds is only ever read next to a B.cond, so the   *)
(* value other opcodes leave in it is not kept.                            *)

ValB(x) == IF x.insn.op \in RegisterOps THEN x.val_b ELSE x.val_imm

Result(x) == IF x.insn.op = "BL" THEN Link(x.seq_succ)
             ELSE Alu(x.insn.op, x.val_a, ValB(x))

(* NZCV after the instruction.                                             *)
NextFlags(x) == FlagsAfter(x.insn.op, x.val_a, ValB(x), Result(x), NZCV)

(* Where the program goes next, from the operands X works with.            *)
NextPC(x, taken) ==
  IF x.insn.op \in {"B", "BL"} \/ taken THEN x.pc + x.insn.imm
  ELSE IF x.insn.op = "RET" THEN x.val_a
  ELSE x.pc + 1

Execute ==
  LET op == X_out.insn.op
      holds == op = "B_COND" /\ cond_holds(X_out.insn.cond, NZCV)
  IN
    /\ stage = "execute"
    /\ NZCV' = NextFlags(X_out)
    /\ M_in' = [insn |-> X_out.insn, status |-> X_out.status,
                seq_succ |-> X_out.seq_succ, val_b |-> X_out.val_b,
                val_ex |-> IF op \in {"NOP", "HLT"} THEN 0 ELSE Result(X_out),
                cond_holds |-> holds, pc |-> X_out.pc,
                next |-> NextPC(X_out, holds), nzcv |-> NextFlags(X_out)]
    /\ stage' = "decode"
    /\ UNCHANGED <<prog, status, PC, GPR, mem, dmem_status, waited, W_wval,
                   F_pred, F_status, D_in, D_out, X_in, X_out, M_out, W_in,
                   W_out, arch>>

-----------------------------------------------------------------------------
(* decode_instr.                                                           *)

(* Seeded fault: the older of two results wins.                            *)
ForwardOldest(r, fromFile) ==
  IF r = dst(M_out.insn) /\ w_enable(M_out.insn)
    THEN IF wval_sel(M_out.insn) THEN W_in.val_mem ELSE M_out.val_ex
  ELSE IF r = dst(X_out.insn) /\ w_enable(X_out.insn) THEN M_in.val_ex
  ELSE IF r = dst(W_out.insn) /\ w_enable(W_out.insn) THEN WValue(W_out)
  ELSE fromFile

(* forward_reg: the youngest older instruction that writes r wins; a load  *)
(* in execute has only its address to offer.                               *)
Forward(r, fromFile) ==
  IF r = dst(X_out.insn) /\ w_enable(X_out.insn) THEN M_in.val_ex
  ELSE IF r = dst(M_out.insn) /\ w_enable(M_out.insn)
    THEN IF wval_sel(M_out.insn) THEN W_in.val_mem ELSE M_out.val_ex
  ELSE IF r = dst(W_out.insn) /\ w_enable(W_out.insn) THEN WValue(W_out)
  ELSE fromFile

(* The registers val_a and val_b come from.                                *)
ForwardA(i) == CASE i.op = "MOVK" -> dst(i)
                 [] i.op = "RET" -> i.rn
                 [] OTHER -> src1(i)
ForwardB(i) == IF i.op \in MemoryOps THEN dst(i) ELSE src2(i)

(* Seeded fault: every unconditional branch links.                         *)
LinksOnBranch(i) == i.op \in {"B", "BL"}

(* A BL calls regfile in decode with the value write-back last passed.     *)
Links(i) == i.op = "BL"

Decode ==
  LET i == D_out.insn
      a == Forward(ForwardA(i), ReadReg(ForwardA(i)))
      b == Forward(ForwardB(i), ReadReg(ForwardB(i)))
  IN
    /\ stage = "decode"
    /\ X_in' = [insn |-> i, status |-> D_out.status, seq_succ |-> D_out.seq_succ,
                val_a |-> CASE i.op = "MOVZ" -> 0
                            [] i.op = "MOVK" -> KeepHigh(a)
                            [] OTHER -> a,
                val_b |-> b, val_imm |-> i.imm, pc |-> D_out.pc]
    /\ GPR' = IF Links(i) THEN Updated(GPR, LR, W_wval) ELSE GPR
    /\ stage' = "fetch"
    /\ UNCHANGED <<prog, status, PC, NZCV, mem, dmem_status, waited, W_wval,
                   F_pred, F_status, D_in, D_out, X_out, M_in, M_out, W_in,
                   W_out, arch>>

-----------------------------------------------------------------------------
(* fetch_instr.                                                            *)

(* select_PC: 0 asks for a HLT.                                            *)
current_PC ==
  IF X_out.insn.op = "RET" /\ X_out.val_a = 0 THEN 0
  ELSE IF M_out.insn.op = "B_COND" /\ ~M_out.cond_holds THEN M_out.seq_succ
  ELSE IF X_out.insn.op = "RET" THEN X_out.val_a
  ELSE F_pred

(* predict_PC: every branch is predicted taken.                            *)
Predicted(i, pc) ==
  IF i.op \in {"B", "BL", "B_COND"} THEN pc + i.imm ELSE pc + 1

(* F_in->status is only ever raised here: after a HLT every later fetch    *)
(* makes another.                                                          *)
FetchHalt ==
  /\ stage = "fetch"
  /\ current_PC = 0 \/ F_status = "HLT"
  /\ D_in' = [D_in EXCEPT !.insn = HLT, !.status = "HLT", !.pc = current_PC]
  /\ F_status' = "HLT"
  /\ stage' = "latch"
  /\ UNCHANGED <<prog, status, PC, GPR, NZCV, mem, dmem_status, waited, W_wval,
                 F_pred, D_out, X_in, X_out, M_in, M_out, W_in, W_out, arch>>

FetchInsn ==
  LET i == At(prog, current_PC)
      st == FetchStatus(i)
  IN
    /\ stage = "fetch"
    /\ current_PC # 0 /\ F_status # "HLT"
    /\ D_in' = [insn |-> i, status |-> st, seq_succ |-> current_PC + 1,
                pc |-> current_PC]
    /\ F_status' = IF st = "AOK" THEN F_status ELSE st
    /\ PC' = Predicted(i, current_PC)
    /\ stage' = "latch"
    /\ UNCHANGED <<prog, status, GPR, NZCV, mem, dmem_status, waited, W_wval,
                   F_pred, D_out, X_in, X_out, M_in, M_out, W_in, W_out, arch>>

-----------------------------------------------------------------------------
(* handle_hazards and the latch at the end of the cycle.                   *)

retBubble   == D_out.insn.op = "RET"
mispredict  == X_out.insn.op = "B_COND" /\ ~M_in.cond_holds

(* Seeded fault: an addition of an immediate is forgotten.                 *)
LoadUsersNoImmediate == {"ADDS_RR", "CMP_RR", "ORR_RR", "STUR", "BL", "MOVZ", "MOVK"}

(* The opcodes check_load_use_hazard looks at.                             *)
LoadUsers == {"ADDS_RR", "CMP_RR", "ORR_RR", "STUR", "ADD_RI", "BL", "MOVZ",
              "MOVK"}
loadUse ==
  /\ X_out.insn.op = "LDUR"
  /\ D_out.insn.op \in LoadUsers
  /\ dst(X_out.insn) \in {D_src1(D_out.insn), D_src2(D_out.insn)}

error(st) == st \notin {"AOK", "BUB"}

memFlight   == dmem_status = "IN_FLIGHT"
decodeError == error(X_in.status)
execError   == error(M_in.status)
memError    == error(W_in.status)
wbError     == error(W_out.status)

(* An error holds up the stages behind the first one that has it.          *)
fetchHeld  == decodeError \/ execError \/ memError \/ wbError
decodeHeld == decodeError \/ execError \/ memError \/ wbError
execHeld   == \/ execError
              \/ ~decodeError /\ (memError \/ wbError)
memHeld    == \/ memError
              \/ ~decodeError /\ ~execError /\ wbError

(* pipe_control_stage.                                                     *)
Control(bubble, stall) ==
  IF bubble /\ stall THEN "ERROR"
  ELSE IF bubble THEN "BUBBLE"
  ELSE IF stall THEN "STALL"
  ELSE "LOAD"

(* Seeded faults: a squash does not yield to a hold, or in decode to an    *)
(* access in flight; such an access bubbles the memory stage instead of    *)
(* holding it, or does not bubble write-back.                              *)
D_ctlNoFlight == Control((retBubble \/ mispredict) /\ ~decodeHeld,
                         loadUse \/ decodeHeld \/ memFlight)
X_ctlNoYield  == Control(mispredict \/ loadUse, execHeld \/ memFlight)
M_ctlBubble   == Control(memFlight, memHeld)
W_ctlNoBubble == Control(FALSE, wbError)

F_ctl == Control(FALSE, retBubble \/ loadUse \/ fetchHeld \/ memFlight)
D_ctl == Control((retBubble \/ mispredict) /\ ~decodeHeld /\ ~memFlight,
                 loadUse \/ decodeHeld \/ memFlight)
X_ctl == Control((mispredict \/ loadUse) /\ ~execHeld, execHeld \/ memFlight)
M_ctl == Control(FALSE, memHeld \/ memFlight)
W_ctl == Control(memFlight, wbError)

Latched(ctl, in, out, bubble) ==
  CASE ctl = "LOAD" -> in
    [] ctl = "STALL" -> out
    [] OTHER -> bubble

(* Seeded fault: the loop looks at the next write-back.                    *)
CycleStatusEarly == W_in.status

CycleStatus == W_out.status

Latch ==
  LET failed == "ERROR" \in {F_ctl, D_ctl, X_ctl, M_ctl, W_ctl}
  IN
    /\ stage = "latch"
    /\ F_pred' = IF F_ctl = "LOAD" THEN PC ELSE F_pred
    /\ D_out' = Latched(D_ctl, D_in, D_out, DBubble)
    /\ X_out' = Latched(X_ctl, X_in, X_out, XBubble)
    /\ M_out' = Latched(M_ctl, M_in, M_out, MBubble)
    /\ W_out' = Latched(W_ctl, W_in, W_out, WBubble)
    /\ status' = IF failed THEN "HLT" ELSE CycleStatus
    /\ stage' = IF status' \in {"AOK", "BUB"} THEN "wback" ELSE "stopped"
    /\ UNCHANGED <<prog, PC, GPR, NZCV, mem, dmem_status, waited, W_wval,
                   F_status, D_in, X_in, M_in, W_in, arch>>

Next == \/ WBack \/ Memory \/ Execute \/ Decode
        \/ FetchHalt \/ FetchInsn \/ Latch

Spec == Init /\ [][Next]_vars

(* runElf is one loop: it keeps running until the program stops.           *)
FairSpec == Spec /\ WF_vars(Next)

-----------------------------------------------------------------------------
(* Properties.                                                             *)

DRegister == [insn : Instructions, status : {"BUB", "AOK", "HLT", "INS"},
              seq_succ : Int, pc : Int]

(* The shape of the state that the code declares (instr_pipeline.h).       *)
TypeOK ==
  /\ stage \in {"wback", "memory", "execute", "decode", "fetch", "latch",
                "stopped"}
  /\ status \in {"BUB", "AOK", "HLT", "ADR", "INS", "EXIT"}
  /\ F_status \in {"BUB", "HLT", "INS"}
  /\ D_in \in DRegister /\ D_out \in DRegister
  /\ GPR \in [Regs -> Values]
  /\ NZCV \in FlagSettings
  /\ mem \in [DataAddrs -> Values]
  /\ waited \in 0 .. MaxWait
  /\ {X_in.val_a, X_in.val_b, M_in.val_ex, W_in.val_mem, W_wval} \subseteq Values

(* The registers whose contents decode needs for an instruction.           *)
Operands(i) ==
  CASE i.op \in RegisterOps                 -> {src1(i), src2(i)}
    [] i.op \in {"ADD_RI", "LDUR", "RET"}   -> {i.rn}
    [] i.op = "STUR"                        -> {i.rn, dst(i)}
    [] i.op = "MOVK"                        -> {i.rd}
    [] OTHER                                -> {}

(* What the hazard unit and forwarding need of a program to hide the       *)
(* pipeline from it: a use right behind its load is one the check sees...  *)
LoadUseSeen ==
  stage = "latch" /\ X_out.insn.op = "LDUR" /\ ~error(X_out.status)
    /\ dst(X_out.insn) \in Operands(D_out.insn) => loadUse

(* ...what is fetched behind a B.cond or a RET that goes elsewhere is no   *)
(* HLT, and what decode already has of it no BL or error either...         *)
WrongPathQuiet ==
  stage = "latch" =>
    /\ mispredict /\ ~error(X_out.status) =>
         /\ ~error(D_out.status) /\ D_out.insn.op # "BL"
         /\ F_status # "HLT"
    /\ retBubble /\ ~error(D_out.status) => F_status # "HLT"

(* ...and no result for the zero register is in flight when it is read.    *)
(* (What is behind an error in execute never gets further.)                *)
ZeroReadsZero ==
  stage = "decode" /\ ~error(X_out.status) /\ XZR \in Operands(D_out.insn) =>
    \A i \in {X_out.insn, M_out.insn, W_out.insn} :
      ~(w_enable(i) /\ dst(i) = XZR)

(* The three together: no instruction in flight meets what hazard_control.c *)
(* and forward.c leave open.                                               *)
HazardsCovered == LoadUseSeen /\ WrongPathQuiet /\ ZeroReadsZero

(* A text that keeps to what is covered.  What fetch finds at pc:          *)
Fetched(p, pc) == IF pc = 0 THEN HLT ELSE At(p, pc)

(* A load whose result the next instruction needs in decode, by an opcode  *)
(* that the load-use check does not know.                                  *)
MissedLoadUse(i, j) ==
  /\ i.op = "LDUR"
  /\ \/ j.op \in {"LDUR", "RET"} /\ j.rn = i.rd
     \/ j.op = "MOVK" /\ j.rd = i.rd

(* The two instructions fetched behind the B.cond at k before it resolves. *)
Wrong1(p, k) == k + p[k].imm
Wrong2(p, k) == Predicted(Fetched(p, Wrong1(p, k)), Wrong1(p, k))

HazardFree(p) ==
  \A k \in DOMAIN p :
    /\ ~MissedLoadUse(p[k], Fetched(p, k + 1))
    /\ p[k].op = "B_COND" =>
         /\ FetchStatus(Fetched(p, Wrong1(p, k))) = "AOK"
         /\ Fetched(p, Wrong1(p, k)).op # "BL"
         /\ FetchStatus(Fetched(p, Wrong2(p, k))) # "HLT"
    /\ p[k].op = "RET" => FetchStatus(Fetched(p, k + 1)) # "HLT"
    /\ ~(w_enable(p[k]) /\ dst(p[k]) = XZR)

(* No load or store is followed by what bubbles execute: a B.cond, or a    *)
(* load and an instruction that the load-use check takes for its user.     *)
AccessesApart(p) ==
  \A k \in DOMAIN p : p[k].op \in MemoryOps =>
    LET i == Fetched(p, k + 1)
        j == Fetched(p, k + 2)
    IN
      /\ i.op # "B_COND"
      /\ i.op = "LDUR" /\ j.op \in LoadUsers => dst(i) \notin {D_src1(j), D_src2(j)}

Architecture ==
  INSTANCE ISA WITH pc <- arch.pc, regs <- arch.regs, nzcv <- arch.nzcv,
                    mem <- arch.mem, status <- arch.status

(* Forwarding, stalls and squashes are invisible: the instructions that    *)
(* leave write-back are those of the program, in program order, each with  *)
(* the registers, flags, memory and next pc of the one-at-a-time machine   *)
(* (proc.c:127-191).                                                       *)
ImplementsISA == Architecture!Spec

(* When the program halts by its own HLT nothing younger has left a trace: *)
(* the machine state that the checkpoint prints is that of the retired     *)
(* program (machine.c:120-190).                                            *)
HaltedStateIsRetired ==
  stage = "stopped" /\ arch.status = "HLT" =>
    GPR = arch.regs /\ NZCV = arch.nzcv /\ mem = arch.mem

(* No store of a wrong path or behind a fault ever reaches memory: memory  *)
(* is ahead of the retired program by the store in write-back at most.     *)
StoresRetire ==
  stage \in {"memory", "stopped"} /\ status # "EXIT" => mem = arch.mem

(* The run ends because the program did: an error has retired, or the load *)
(* from the null address is next.                                          *)
EndsWithProgram ==
  stage = "stopped" =>
    \/ arch.status # "AOK"
    \/ status = "EXIT" /\ At(prog, arch.pc).op = "LDUR"

(* Every run ends so if memory answers at once; and however long accesses  *)
(* are in flight, every run of a program that keeps them apart from what   *)
(* bubbles execute: no other stall, squash or fault that meets one asks a  *)
(* register to bubble and stall at once (hazard_control.c:45, 158-164).    *)
StopsWithProgram ==
  MaxWait = 0 \/ AccessesApart(prog) => EndsWithProgram

(* "cannot bubble and stall at the same time" (hazard_control.c:45-46).    *)
NeverBubbleAndStall ==
  stage = "latch" => "ERROR" \notin {F_ctl, D_ctl, X_ctl, M_ctl, W_ctl}

(* The pipeline never starves: an instruction keeps reaching write-back    *)
(* until the program stops.                                                *)
KeepsRetiring == []<>(stage = "stopped" \/ W_out.status # "BUB")
=============================================================================
