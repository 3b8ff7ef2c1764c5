--------------------------- MODULE PipelineProofs ---------------------------
(***************************************************************************)
(* The pipeline, for every program, register file, width and memory delay: *)
(* its types, its stores, and that a program whose text is HazardFree      *)
(* cannot tell it from the machine that runs one instruction at a time.    *)
(***************************************************************************)
EXTENDS Pipeline, TLAPS

-----------------------------------------------------------------------------
(* Words.                                                                  *)

LEMMA KeepHighIsWord ==
  ASSUME NEW v \in Values
  PROVE  KeepHigh(v) \in Values
<1>1. Low \in Nat /\ Low > 0 /\ v \in Nat
  BY InstrAssumption, FlagsAssumption DEF Values
<1>2. v = Low * (v \div Low) + (v % Low) /\ v % Low \in 0 .. Low - 1
  BY <1>1
<1>3. v % Low <= v
  BY <1>1
<1> QED
  BY <1>1, <1>2, <1>3, FlagsAssumption DEF KeepHigh, Values

LEMMA SumIsValue ==
  ASSUME NEW a \in Values, NEW b \in Values
  PROVE  Sum(a, b) \in Values /\ Difference(a, b) \in Values
BY FlagsAssumption DEF Values, Sum, Difference

LEMMA SpecialInsns == NOP \in Instructions /\ HLT \in Instructions /\ ERROR \in Instructions
BY InstrAssumption DEF Instructions, NOP, HLT, ERROR, Insn, Opcodes, Conditions

(* The operand ValB of an instruction is a word.                           *)
LEMMA AluIsWord ==
  ASSUME NEW op \in Opcodes, NEW a \in Values, NEW b,
         op \in {"ADDS_RR", "CMP_RR", "ORR_RR", "ADD_RI", "LDUR", "STUR", "MOVZ",
                 "MOVK"} => b \in Values
  PROVE  Alu(op, a, b) \in Values
<1>1. CASE op \in {"ADDS_RR", "ADD_RI", "LDUR", "STUR"}
  BY <1>1, SumIsValue DEF Alu
<1>2. CASE op = "CMP_RR"
  BY <1>2, SumIsValue DEF Alu
<1>3. CASE op \in {"ORR_RR", "MOVZ", "MOVK"}
  BY <1>3, InstrAssumption DEF Alu
<1>4. CASE op \in {"B", "B_COND", "BL", "RET", "NOP", "HLT", "ERROR"}
  BY <1>4 DEF Alu
<1> QED
  BY <1>1, <1>2, <1>3, <1>4 DEF Opcodes

LEMMA FlagsType ==
  ASSUME NEW op, NEW a \in Values, NEW b, NEW r, NEW old \in FlagSettings
  PROVE  FlagsAfter(op, a, b, r, old) \in FlagSettings
<1>1. \A o \in {"PLUS", "MINUS"} : FlagsOf(o, a, b, r) \in FlagSettings
  BY DEF FlagsOf, FlagSettings, carry, overflow
<1> QED
  BY <1>1 DEF FlagsAfter

-----------------------------------------------------------------------------
(* Types.                                                                  *)

XRegister == [insn : Instructions, status : {"BUB", "AOK", "HLT", "INS"},
              seq_succ : Int, val_a : Values, val_b : Values, val_imm : Int,
              pc : Int]
MRegister == [insn : Instructions, status : {"BUB", "AOK", "HLT", "INS"},
              seq_succ : Int, val_ex : Values, val_b : Values,
              cond_holds : BOOLEAN, pc : Int, next : Int, nzcv : FlagSettings]
WRegister == [insn : Instructions, status : {"BUB", "AOK", "HLT", "INS", "ADR"},
              val_ex : Values, val_mem : Values, stored : Values, pc : Int,
              next : Int, nzcv : FlagSettings]
ArchState == [pc : Int, regs : [Regs -> Values], nzcv : FlagSettings,
              mem : [DataAddrs -> Values],
              status : {"AOK", "HLT", "INS", "ADR"}]

(* The immediate goes with its instruction.                                *)
Carried(x) == x.val_imm = x.insn.imm

Types ==
  /\ prog \in Seq(Instructions)
  /\ stage \in {"wback", "memory", "execute", "decode", "fetch", "latch",
                "stopped"}
  /\ status \in {"BUB", "AOK", "HLT", "ADR", "INS", "EXIT"}
  /\ F_status \in {"BUB", "HLT", "INS"}
  /\ PC \in Int /\ F_pred \in Int
  /\ GPR \in [Regs -> Values]
  /\ NZCV \in FlagSettings
  /\ mem \in [DataAddrs -> Values]
  /\ dmem_status \in {"READY", "IN_FLIGHT"}
  /\ waited \in 0 .. MaxWait
  /\ W_wval \in Values
  /\ D_in \in DRegister /\ D_out \in DRegister
  /\ X_in \in XRegister /\ X_out \in XRegister
  /\ Carried(X_in) /\ Carried(X_out)
  /\ M_in \in MRegister /\ M_out \in MRegister
  /\ W_in \in WRegister /\ W_out \in WRegister
  /\ arch \in ArchState

LEMMA BubbleTypes ==
  /\ DBubble \in DRegister
  /\ XBubble \in XRegister /\ Carried(XBubble)
  /\ MBubble \in MRegister
  /\ WBubble \in WRegister
<1>1. 0 \in Values /\ NoFlags \in FlagSettings
  BY FlagsAssumption DEF Values, NoFlags, FlagSettings
<1>2. NOP.op = "NOP" /\ NOP.imm = 0
  BY DEF NOP, Insn
<1> QED
  BY <1>1, <1>2, SpecialInsns
  DEF DBubble, XBubble, MBubble, WBubble, DRegister, XRegister, MRegister,
      WRegister, Carried

LEMMA TypesInit == Init => Types
<1> SUFFICES ASSUME Init PROVE Types
  OBVIOUS
<1>1. prog \in Seq(Instructions)
  BY PipelineAssumption DEF Init
<1>2. /\ GPR \in [Regs -> Values] /\ NZCV \in FlagSettings
      /\ mem \in [DataAddrs -> Values]
  BY PipelineAssumption DEF Init
<1>3. arch \in ArchState
  BY <1>2 DEF Init, ArchState
<1>4. 0 \in Values /\ 0 \in 0 .. MaxWait
  BY FlagsAssumption, PipelineAssumption DEF Values
<1>5. /\ D_in \in DRegister /\ D_out \in DRegister
          /\ X_in \in XRegister /\ X_out \in XRegister
      /\ Carried(X_in) /\ Carried(X_out)
      /\ M_in \in MRegister /\ M_out \in MRegister
      /\ W_in \in WRegister /\ W_out \in WRegister
  BY BubbleTypes DEF Init
<1> QED
  BY <1>1, <1>2, <1>3, <1>4, <1>5 DEF Init, Types

LEMMA InsnParts ==
  ASSUME NEW i \in Instructions
  PROVE  /\ i.op \in Opcodes /\ i.rd \in Regs /\ i.rn \in Regs
         /\ i.rm \in Regs /\ i.imm \in Int /\ i.cond \in Conditions
         /\ i.imem_err \in BOOLEAN
         /\ i.op \in {"ADD_RI", "LDUR", "STUR", "MOVZ"} => i.imm \in Values
         /\ i.op = "MOVK" => i.imm \in 0 .. Low - 1 /\ i.imm \in Values
<1>1. i.op = "MOVK" => i.imm \in 0 .. Low - 1
  BY DEF Instructions
<1>2. 0 .. Low - 1 \subseteq Values
  BY InstrAssumption, FlagsAssumption DEF Values
<1> QED
  BY <1>1, <1>2 DEF Instructions

(* The registers an instruction names are registers or the zero register.  *)
LEMMA NamedRegisters ==
  ASSUME NEW i \in Instructions
  PROVE  {src1(i), src2(i), dst(i), ForwardA(i), ForwardB(i)} \subseteq Regs \cup {XZR}
<1>1. \A r \in Regs : ZeroReg(i.op, r) \in Regs \cup {XZR}
  BY DEF ZeroReg
<1>2. {0, LR} \subseteq Regs
  BY InstrAssumption
<1>3. src1(i) \in Regs \cup {XZR}
  BY <1>1, <1>2, InsnParts DEF src1, RegisterOps, MemoryOps
<1>4. src2(i) \in Regs \cup {XZR}
  BY <1>1, <1>2, InsnParts DEF src2
<1>5. dst(i) \in Regs \cup {XZR}
  BY <1>1, <1>2, InsnParts DEF dst, RegisterOps, MemoryOps
<1> QED
  BY <1>3, <1>4, <1>5, InsnParts DEF ForwardA, ForwardB

LEMMA UpdatedType ==
  ASSUME NEW regs \in [Regs -> Values], NEW r \in Regs \cup {XZR}, NEW v \in Values
  PROVE  Updated(regs, r, v) \in [Regs -> Values]
BY DEF Updated

LEMMA ReadType ==
  ASSUME GPR \in [Regs -> Values], NEW r \in Regs \cup {XZR}
  PROVE  ReadReg(r) \in Values
<1>1. 0 \in Values
  BY FlagsAssumption DEF Values
<1>2. r # XZR => GPR[r] \in Values
  OBVIOUS
<1> QED
  BY <1>1, <1>2 DEF ReadReg

LEMMA ResultType ==
  ASSUME NEW x \in XRegister, Carried(x)
  PROVE  Result(x) \in Values
<1>1. CASE x.insn.op = "BL"
  BY <1>1, FlagsAssumption DEF Result, Link, XRegister, Values
<1>2. CASE x.insn.op # "BL"
  <2>1. x.insn \in Instructions /\ x.val_a \in Values /\ x.val_b \in Values
    BY DEF XRegister
  <2>2. x.insn.op \in {"ADDS_RR", "CMP_RR", "ORR_RR", "ADD_RI", "LDUR", "STUR",
                       "MOVZ", "MOVK"} => ValB(x) \in Values
    BY <2>1, InsnParts DEF ValB, RegisterOps, Carried
  <2> QED
    BY <1>2, <2>1, <2>2, AluIsWord, InsnParts DEF Result
<1> QED
  BY <1>1, <1>2

(* An access of memory, of a word or not, leaves a memory and gets a word. *)
LEMMA AccessType ==
  ASSUME NEW m \in [DataAddrs -> Values], NEW a \in Values, NEW v \in Values
  PROVE  Stored(m, a, v) \in [DataAddrs -> Values] /\ Loaded(m, a) \in Values
BY InstrAssumption DEF Stored, Loaded

LEMMA TypesWBack == Types /\ WBack => Types'
<1> SUFFICES ASSUME Types, WBack PROVE Types'
  OBVIOUS
<1> DEFINE i == W_out.insn
<1>1. W_out \in WRegister /\ i \in Instructions
  BY DEF Types, WRegister
<1>2. WValue(W_out) \in Values
  BY <1>1 DEF WValue, WRegister
<1>3. dst(i) \in Regs \cup {XZR}
  BY <1>1, NamedRegisters
<1>4. GPR' \in [Regs -> Values]
  BY <1>2, <1>3, UpdatedType DEF WBack, Types
<1>5. /\ arch.regs \in [Regs -> Values] /\ arch.mem \in [DataAddrs -> Values]
      /\ arch \in ArchState
  BY DEF Types, ArchState
<1>6. Updated(arch.regs, dst(i), WValue(W_out)) \in [Regs -> Values]
  BY <1>2, <1>3, <1>5, UpdatedType
<1>7. Stored(arch.mem, W_out.val_ex, W_out.stored) \in [DataAddrs -> Values]
  BY <1>1, <1>5, AccessType DEF WRegister
<1>8. Retired(W_out) \in ArchState
  <2>1. CASE W_out.status = "BUB"
    BY <2>1, <1>5 DEF Retired
  <2>2. CASE W_out.status # "BUB"
    BY <2>2, <1>1, <1>5, <1>6, <1>7 DEF Retired, ArchState, WRegister
  <2> QED
    BY <2>1, <2>2
<1>9. arch' \in ArchState
  BY <1>8 DEF WBack
<1> QED
  BY <1>2, <1>4, <1>9 DEF WBack, Types, regVars, Carried

LEMMA MemoryResultType ==
  ASSUME Types, NEW value \in Values, NEW err \in BOOLEAN, MemoryResult(value, err)
  PROVE  W_in' \in WRegister
<1>1. M_out \in MRegister
  BY DEF Types
<1> QED
  BY <1>1 DEF MemoryResult, MRegister, WRegister

LEMMA StoreType ==
  ASSUME Types, NEW b \in BOOLEAN
  PROVE  MemoryAfter(b) \in [DataAddrs -> Values]
<1>1. M_out.val_ex \in Values /\ M_out.val_b \in Values
  BY DEF Types, MRegister
<1> QED
  BY <1>1, AccessType DEF MemoryAfter, Types

LEMMA TypesMemory == Types /\ Memory => Types'
<1> SUFFICES ASSUME Types, Memory PROVE Types'
  OBVIOUS
<1>1. 0 \in Values
  BY FlagsAssumption DEF Values
<1>2. BadAddr(M_out.val_ex) \in BOOLEAN
  BY DEF BadAddr
<1>3. CASE MemoryNoAccess
  <2>1. W_in' \in WRegister
    BY <1>1, <1>3, MemoryResultType DEF MemoryNoAccess
  <2> QED
    BY <2>1, <1>3 DEF MemoryNoAccess, Types, Carried
<1>4. CASE MemoryAnswer
  <2> DEFINE a == M_out.val_ex
             value == IF M_out.insn.op = "LDUR" THEN Loaded(mem, a) ELSE 0
  <2>1. value \in Values
    BY <1>1, AccessType DEF Types, MRegister
  <2>2. MemoryResult(value, BadAddr(a))
    BY <1>4 DEF MemoryAnswer
  <2> HIDE DEF value, a
  <2>3. W_in' \in WRegister
    BY <2>1, <2>2, <1>2, MemoryResultType DEF a
  <2>4. mem' \in [DataAddrs -> Values]
    BY <1>4, StoreType DEF MemoryAnswer
  <2>5. waited' \in 0 .. MaxWait
    BY <1>4, PipelineAssumption DEF MemoryAnswer
  <2> QED
    BY <2>3, <2>4, <2>5, <1>4 DEF MemoryAnswer, Types, Carried
<1>5. CASE MemoryInFlight
  <2>1. W_in' \in WRegister
    BY <1>1, <1>2, <1>5, MemoryResultType DEF MemoryInFlight
  <2>2. mem' \in [DataAddrs -> Values]
    BY <1>5, StoreType DEF MemoryInFlight
  <2>3. waited' \in 0 .. MaxWait
    BY <1>5, PipelineAssumption DEF MemoryInFlight, Types
  <2> QED
    BY <2>1, <2>2, <2>3, <1>5 DEF MemoryInFlight, Types, Carried
<1>6. CASE MemoryExit
  BY <1>6 DEF MemoryExit, Types, regVars, Carried
<1> QED
  BY <1>3, <1>4, <1>5, <1>6 DEF Memory

LEMMA TypesExecute == Types /\ Execute => Types'
<1> SUFFICES ASSUME Types, Execute PROVE Types'
  OBVIOUS
<1>1. X_out \in XRegister /\ Carried(X_out) /\ NZCV \in FlagSettings
  BY DEF Types
<1>2. Result(X_out) \in Values /\ 0 \in Values
  BY <1>1, ResultType, FlagsAssumption DEF Values
<1>3. NextFlags(X_out) \in FlagSettings
  BY <1>1, FlagsType DEF NextFlags, XRegister
<1>4. X_out.insn \in Instructions /\ X_out.insn.imm \in Int /\ X_out.pc \in Int
      /\ X_out.val_a \in Int
  BY <1>1, InsnParts, FlagsAssumption DEF XRegister, Values
<1>5. \A b \in BOOLEAN : NextPC(X_out, b) \in Int
  BY <1>4 DEF NextPC
<1>6. cond_holds(X_out.insn.cond, NZCV) \in BOOLEAN
  <2>1. X_out.insn.cond \in Conditions
    BY <1>4, InsnParts
  <2> QED
    BY <2>1, <1>1 DEF cond_holds, Conditions, FlagSettings
<1> DEFINE holds == X_out.insn.op = "B_COND" /\ cond_holds(X_out.insn.cond, NZCV)
<1>7. holds \in BOOLEAN
  OBVIOUS
<1>8. M_in' = [insn |-> X_out.insn, status |-> X_out.status,
               seq_succ |-> X_out.seq_succ, val_b |-> X_out.val_b,
               val_ex |-> IF X_out.insn.op \in {"NOP", "HLT"} THEN 0 ELSE Result(X_out),
               cond_holds |-> holds, pc |-> X_out.pc,
               next |-> NextPC(X_out, holds), nzcv |-> NextFlags(X_out)]
  BY DEF Execute
<1> HIDE DEF holds
<1>9. M_in' \in MRegister
  BY <1>1, <1>2, <1>3, <1>4, <1>5, <1>7, <1>8 DEF MRegister, XRegister
<1>10. NZCV' \in FlagSettings
  BY <1>3 DEF Execute
<1> QED
  BY <1>9, <1>10 DEF Execute, Types, Carried

LEMMA ForwardType ==
  ASSUME Types, NEW r \in Regs \cup {XZR}
  PROVE  Forward(r, ReadReg(r)) \in Values
<1>1. ReadReg(r) \in Values
  BY ReadType DEF Types
<1>2. /\ M_in.val_ex \in Values /\ W_in.val_mem \in Values
      /\ M_out.val_ex \in Values
  BY DEF Types, MRegister, WRegister
<1>3. WValue(W_out) \in Values
  BY DEF Types, WRegister, WValue
<1> QED
  BY <1>1, <1>2, <1>3 DEF Forward

LEMMA TypesDecode == Types /\ Decode => Types'
<1> SUFFICES ASSUME Types, Decode PROVE Types'
  OBVIOUS
<1> DEFINE i == D_out.insn
           a == Forward(ForwardA(i), ReadReg(ForwardA(i)))
           b == Forward(ForwardB(i), ReadReg(ForwardB(i)))
           va == CASE i.op = "MOVZ" -> 0
                   [] i.op = "MOVK" -> KeepHigh(a)
                   [] OTHER -> a
<1>1. D_out \in DRegister /\ i \in Instructions
  BY DEF Types, DRegister
<1>2. a \in Values /\ b \in Values
  BY <1>1, NamedRegisters, ForwardType
<1>3. KeepHigh(a) \in Values /\ 0 \in Values
  BY <1>2, KeepHighIsWord, FlagsAssumption DEF Values
<1>4. X_in' = [insn |-> i, status |-> D_out.status, seq_succ |-> D_out.seq_succ,
               val_a |-> va, val_b |-> b, val_imm |-> i.imm, pc |-> D_out.pc]
  BY DEF Decode
<1> HIDE DEF a, b
<1>5. va \in Values
  BY <1>2, <1>3
<1> HIDE DEF va
<1>6. X_in' \in XRegister /\ Carried(X_in)'
  BY <1>1, <1>2, <1>4, <1>5, InsnParts DEF XRegister, DRegister, Carried
<1>7. GPR' \in [Regs -> Values]
  <2>1. LR \in Regs /\ W_wval \in Values /\ GPR \in [Regs -> Values]
    BY InstrAssumption DEF Types
  <2> QED
    BY <2>1, UpdatedType DEF Decode
<1> QED
  BY <1>6, <1>7 DEF Decode, Types, Carried

LEMMA FetchedAddress ==
  ASSUME Types
  PROVE  current_PC \in Int
<1>1. 0 \in Int /\ M_out.seq_succ \in Int /\ X_out.val_a \in Int /\ F_pred \in Int
  BY FlagsAssumption DEF Types, MRegister, XRegister, Values
<1> QED
  BY <1>1 DEF current_PC

LEMMA ProgramInsn ==
  ASSUME Types, NEW pc \in Int
  PROVE  /\ At(prog, pc) \in Instructions
         /\ pc \notin DOMAIN prog => At(prog, pc).imem_err
<1>1. pc % (2*Half) \in Values
  BY FlagsAssumption DEF Values
<1>2. Outside[pc % (2*Half)] \in Instructions /\ Outside[pc % (2*Half)].imem_err
  BY <1>1, InstrAssumption
<1>3. pc \in DOMAIN prog => prog[pc] \in Instructions
  BY DEF Types
<1> QED
  BY <1>2, <1>3 DEF At

LEMMA TypesFetchHalt == Types /\ FetchHalt => Types'
<1> SUFFICES ASSUME Types, FetchHalt PROVE Types'
  OBVIOUS
<1>1. D_in \in DRegister /\ current_PC \in Int /\ HLT \in Instructions /\ HLT.op = "HLT"
  BY FetchedAddress, SpecialInsns DEF Types, HLT, Insn
<1>2. D_in' = [D_in EXCEPT !.insn = HLT, !.status = "HLT", !.pc = current_PC]
  BY DEF FetchHalt
<1>3. D_in' \in DRegister
  BY <1>1, <1>2 DEF DRegister
<1> QED
  BY <1>3 DEF FetchHalt, Types, Carried

LEMMA TypesFetchInsn == Types /\ FetchInsn => Types'
<1> SUFFICES ASSUME Types, FetchInsn PROVE Types'
  OBVIOUS
<1> DEFINE i == At(prog, current_PC)
           st == FetchStatus(i)
<1>1. current_PC \in Int /\ i \in Instructions /\ i.imm \in Int
  BY FetchedAddress, ProgramInsn, InsnParts
<1>3. st \in {"INS", "HLT", "AOK"}
  BY DEF FetchStatus
<1>4. D_in' = [insn |-> i, status |-> st, seq_succ |-> current_PC + 1, pc |-> current_PC]
  BY DEF FetchInsn
<1>5. F_status' \in {"BUB", "HLT", "INS"} /\ PC' \in Int
  BY <1>1, <1>3 DEF FetchInsn, Types, Predicted
<1> HIDE DEF i, st
<1>6. D_in' \in DRegister
  BY <1>1, <1>3, <1>4 DEF DRegister
<1> QED
  BY <1>5, <1>6 DEF FetchInsn, Types, Carried

LEMMA TypesLatch == Types /\ Latch => Types'
<1> SUFFICES ASSUME Types, Latch PROVE Types'
  OBVIOUS
<1>1. F_pred' \in Int
  BY DEF Latch, Types
<1>2. D_out' \in DRegister
  BY BubbleTypes DEF Latch, Types, Latched
<1>3. X_out' \in XRegister /\ Carried(X_out)'
  BY BubbleTypes DEF Latch, Types, Latched, Carried
<1>4. M_out' \in MRegister
  BY BubbleTypes DEF Latch, Types, Latched
<1>5. W_out' \in WRegister
  BY BubbleTypes DEF Latch, Types, Latched
<1>6. status' \in {"BUB", "AOK", "HLT", "ADR", "INS", "EXIT"}
  BY DEF Latch, Types, CycleStatus, WRegister
<1>7. stage' \in {"wback", "stopped"}
  BY DEF Latch
<1> QED
  BY <1>1, <1>2, <1>3, <1>4, <1>5, <1>6, <1>7 DEF Latch, Types, Carried

LEMMA TypesStep == Types /\ [Next]_vars => Types'
<1> SUFFICES ASSUME Types, [Next]_vars PROVE Types'
  OBVIOUS
<1>1. CASE UNCHANGED vars
  BY <1>1 DEF vars, Types, Carried
<1> QED
  BY <1>1, TypesWBack, TypesMemory, TypesExecute, TypesDecode, TypesFetchHalt,
     TypesFetchInsn, TypesLatch DEF Next

THEOREM PipelineTypes == Spec => []Types
<1> QED
  BY TypesInit, TypesStep, PTL DEF Spec

(* Every value the stages hand on fits its register, and every register    *)
(* holds what instr_pipeline.h declares.                                   *)
THEOREM PipelineTypeCorrect == Spec => []TypeOK
<1>1. Types => TypeOK
  BY DEF Types, TypeOK, XRegister, MRegister, WRegister
<1> QED
  BY <1>1, PipelineTypes, PTL

-----------------------------------------------------------------------------
(* Stalls, bubbles and errors.  This part holds for every program, those   *)
(* outside HazardsCovered included.                                        *)

(* A record is a bubble's or has the status of its instruction; only the   *)
(* memory stage finds another.                                             *)
Marked(rec)  == IF rec.status = "BUB" THEN rec.insn.op = "NOP"
                                      ELSE rec.status = FetchStatus(rec.insn)
WMarked(w)   == \/ Marked(w)
                \/ w.status = "ADR" /\ w.insn.op \in MemoryOps /\ BadAddr(w.val_ex)

Marks ==
  /\ Marked(D_in) /\ Marked(D_out) /\ Marked(X_in) /\ Marked(X_out)
  /\ Marked(M_in) /\ Marked(M_out) /\ WMarked(W_in) /\ WMarked(W_out)

AfterMemory  == stage \in {"execute", "decode", "fetch", "latch"}
AfterExecute == stage \in {"decode", "fetch", "latch"}
AfterDecode  == stage \in {"fetch", "latch"}

(* A stage that has run has left what it works on in the next register.    *)
Handed ==
  /\ AfterMemory =>
       /\ W_in.insn = M_out.insn /\ W_in.val_ex = M_out.val_ex
       /\ W_in.stored = M_out.val_b
       /\ W_in.status = "BUB" <=> M_out.status = "BUB"
       /\ W_in.status # "ADR" => W_in.status = M_out.status
  /\ AfterExecute => M_in.insn = X_out.insn /\ M_in.status = X_out.status
  /\ AfterDecode => X_in.insn = D_out.insn /\ X_in.status = D_out.status
  /\ stage = "latch" => D_in.status # "BUB"

(* Only an access is ever in flight, and it stays in the memory stage.     *)
Flight ==
  stage # "stopped" /\ memFlight => M_out.insn.op \in MemoryOps /\ M_out.val_ex # 0

Control0 == Marks /\ Handed /\ Flight

LEMMA Control0Init == Init => Control0
BY DEF Init, Control0, Marks, Handed, Flight, Marked, WMarked, DBubble, XBubble,
       MBubble, WBubble, NOP, Insn, AfterMemory, AfterExecute, AfterDecode, memFlight

LEMMA Control0Step == Types /\ Control0 /\ [Next]_vars => Control0'
<1> SUFFICES ASSUME Types, Control0, [Next]_vars PROVE Control0'
  OBVIOUS
<1> USE DEF Control0
<1>1. CASE WBack
  BY <1>1 DEF WBack, regVars, Marks, Handed, Flight, Marked, WMarked, BadAddr,
     AfterMemory, AfterExecute, AfterDecode, memFlight
<1>2. ASSUME NEW value, NEW err, err => M_out.insn.op \in MemoryOps /\ BadAddr(M_out.val_ex),
             MemoryResult(value, err),
             err \in BOOLEAN, stage = "memory", stage' = "execute",
             UNCHANGED <<D_in, D_out, X_in, X_out, M_in, M_out, W_out>>
      PROVE  Marks' /\ Handed'
  <2>1. WMarked(W_in)'
    BY <1>2 DEF MemoryResult, Marks, Marked, WMarked, MemoryOps, FetchStatus
  <2>2. M_out.status # "ADR"
    BY DEF Types, MRegister
  <2>3. err => M_out.status # "BUB"
    BY <1>2 DEF Marks, Marked, MemoryOps
  <2> QED
    BY <1>2, <2>1, <2>2, <2>3 DEF MemoryResult, Marks, Handed, WMarked, Marked, BadAddr,
       AfterMemory, AfterExecute, AfterDecode
<1>3. CASE MemoryNoAccess
  <2>1. Marks' /\ Handed'
    BY <1>2, <1>3 DEF MemoryNoAccess
  <2> QED
    BY <1>3, <2>1 DEF MemoryNoAccess, Flight, memFlight
<1>4. CASE MemoryAnswer
  <2> DEFINE a == M_out.val_ex
             value == IF M_out.insn.op = "LDUR" THEN Loaded(mem, a) ELSE 0
  <2>1. MemoryResult(value, BadAddr(a)) /\ BadAddr(a) \in BOOLEAN
    BY <1>4 DEF MemoryAnswer, BadAddr
  <2> HIDE DEF value
  <2>2. Marks' /\ Handed'
    BY <1>2, <1>4, <2>1 DEF MemoryAnswer
  <2> QED
    BY <1>4, <2>2 DEF MemoryAnswer, Flight, memFlight
<1>5. CASE MemoryInFlight
  <2>1. BadAddr(M_out.val_ex) \in BOOLEAN
    BY DEF BadAddr
  <2>2. Marks' /\ Handed'
    BY <1>2, <1>5, <2>1 DEF MemoryInFlight
  <2> QED
    BY <1>5, <2>2 DEF MemoryInFlight, Flight, memFlight
<1>6. CASE MemoryExit
  BY <1>6 DEF MemoryExit, regVars, Marks, Handed, Flight, Marked, WMarked, BadAddr,
     AfterMemory, AfterExecute, AfterDecode, memFlight
<1>7. CASE Execute
  BY <1>7 DEF Execute, Marks, Handed, Flight, Marked, WMarked, BadAddr,
     AfterMemory, AfterExecute, AfterDecode, memFlight
<1>8. CASE Decode
  BY <1>8 DEF Decode, Marks, Handed, Flight, Marked, WMarked, BadAddr,
     AfterMemory, AfterExecute, AfterDecode, memFlight
<1>9. CASE FetchHalt
  <2>1. D_in'.insn.op = "HLT" /\ ~D_in'.insn.imem_err /\ D_in'.status = "HLT"
    BY <1>9 DEF FetchHalt, Types, DRegister, HLT, Insn
  <2>2. Marked(D_in)' /\ D_in'.status # "BUB"
    BY <2>1 DEF Marked, FetchStatus
  <2> QED
    BY <1>9, <2>2 DEF FetchHalt, Marks, Handed, Flight, Marked, WMarked, BadAddr,
       AfterMemory, AfterExecute, AfterDecode, memFlight
<1>10. CASE FetchInsn
  <2>1. Marked(D_in)' /\ D_in'.status # "BUB"
    BY <1>10 DEF FetchInsn, Marked, FetchStatus
  <2> QED
    BY <1>10, <2>1 DEF FetchInsn, Marks, Handed, Flight, Marked, WMarked, BadAddr,
       AfterMemory, AfterExecute, AfterDecode, memFlight
<1>11. CASE Latch
  <2>1. /\ Marked(DBubble) /\ Marked(XBubble) /\ Marked(MBubble) /\ WMarked(WBubble)
    BY DEF Marked, WMarked, DBubble, XBubble, MBubble, WBubble, NOP, Insn
  <2>2. Marks'
    BY <1>11, <2>1 DEF Latch, Latched, Marks, Marked, WMarked, BadAddr
  <2>3. stage' \in {"wback", "stopped"}
    BY <1>11 DEF Latch
  <2>4. Handed'
    BY <2>3 DEF Handed, AfterMemory, AfterExecute, AfterDecode
  <2>5. memFlight => M_out' = M_out
    BY <1>11 DEF Latch, Latched, M_ctl, Control
  <2>6. Flight'
    BY <1>11, <2>5 DEF Latch, Flight, memFlight
  <2> QED
    BY <2>2, <2>4, <2>6
<1>12. CASE UNCHANGED vars
  BY <1>12 DEF vars, Marks, Handed, Flight, Marked, WMarked, BadAddr,
     AfterMemory, AfterExecute, AfterDecode, memFlight
<1> QED
  BY <1>1, <1>3, <1>4, <1>5, <1>6, <1>7, <1>8, <1>9, <1>10, <1>11, <1>12
  DEF Next, Memory

(* Memory is that of the retired program and of the store on its way       *)
(* through write-back.  A store with an error is made again in the cycle   *)
(* in which it retires, and nothing else stores then.                      *)
StoreIn(w, m) == IF w.insn.op = "STUR" THEN Stored(m, w.val_ex, w.stored) ELSE m
Repeated(m, w) == m.insn = w.insn /\ m.val_ex = w.val_ex /\ m.val_b = w.stored

Stores ==
  /\ stage = "wback" => mem = StoreIn(W_out, arch.mem)
  /\ stage = "memory" => mem = arch.mem
  /\ AfterMemory => mem = IF memFlight THEN arch.mem ELSE StoreIn(W_in, arch.mem)
  /\ stage = "stopped" /\ status # "EXIT" => mem = arch.mem
  /\ stage # "stopped" /\ error(W_out.status) =>
       /\ M_out.insn.op = "STUR" => Repeated(M_out, W_out)
       /\ stage # "wback" => StoreIn(W_out, arch.mem) = arch.mem

LEMMA StoredTwice ==
  ASSUME NEW m \in [DataAddrs -> Values], NEW a \in Values, NEW v \in Values
  PROVE  Stored(Stored(m, a, v), a, v) = Stored(m, a, v)
<1>1. CASE a \in DataAddrs
  BY <1>1 DEF Stored
<1>2. CASE a \notin DataAddrs
  <2>1. StoreElsewhere(StoreElsewhere(m, a, v), a, v) = StoreElsewhere(m, a, v)
    BY InstrAssumption
  <2> QED
    BY <1>2, <2>1 DEF Stored
<1> QED
  BY <1>1, <1>2

LEMMA RetiredMemory ==
  ASSUME NEW w, WMarked(w)
  PROVE  Retired(w).mem = StoreIn(w, arch.mem)
BY DEF Retired, StoreIn, WMarked, Marked

LEMMA StoresInit == Init => Stores
BY DEF Init, Stores, StoreIn, WBubble, NOP, Insn, AfterMemory, error

LEMMA StoresStep == Types /\ Control0 /\ Stores /\ [Next]_vars => Stores'
<1> SUFFICES ASSUME Types, Control0, Stores, [Next]_vars PROVE Stores'
  OBVIOUS
<1>1. CASE WBack
  <2>1. arch'.mem = mem /\ mem' = mem
    BY <1>1, RetiredMemory DEF WBack, Stores, Control0, Marks
  <2>2. StoreIn(W_out, mem) = mem
    BY <1>1, StoredTwice DEF WBack, Stores, StoreIn, Types, WRegister, ArchState
  <2> QED
    BY <1>1, <2>1, <2>2 DEF WBack, regVars, Stores, AfterMemory, Repeated, StoreIn, error
<1>2. CASE MemoryNoAccess
  <2>1. /\ W_in'.insn = M_out.insn /\ W_in'.val_ex = M_out.val_ex
        /\ mem' = mem /\ arch' = arch /\ stage = "memory" /\ stage' = "execute"
    BY <1>2 DEF MemoryNoAccess, MemoryResult
  <2>2. StoreIn(W_in', arch.mem) = arch.mem
    <3>1. 0 \notin DataAddrs
      BY InstrAssumption
    <3> QED
      BY <1>2, <2>1, <3>1 DEF MemoryNoAccess, StoreIn, Stored, MemoryOps
  <2>3. StoreIn(W_in', arch'.mem) = arch'.mem
    BY <2>1, <2>2
  <2> HIDE DEF StoreIn
  <2> QED
    BY <1>2, <2>1, <2>3 DEF MemoryNoAccess, Stores, AfterMemory, Repeated, StoreIn, error, memFlight
<1>3. CASE MemoryAnswer
  <2> DEFINE a == M_out.val_ex
             value == IF M_out.insn.op = "LDUR" THEN Loaded(mem, a) ELSE 0
  <2>1. MemoryResult(value, BadAddr(a)) /\ mem' = MemoryAfter(TRUE) /\ stage = "memory"
    BY <1>3 DEF MemoryAnswer
  <2> HIDE DEF value
  <2>2. /\ W_in'.insn = M_out.insn /\ W_in'.val_ex = M_out.val_ex
        /\ W_in'.stored = M_out.val_b
    BY <2>1 DEF MemoryResult
  <2>3. mem' = StoreIn(W_in', arch.mem)
    BY <2>1, <2>2 DEF MemoryAfter, StoreIn, Stores
  <2> QED
    BY <1>3, <2>3 DEF MemoryAnswer, Stores, AfterMemory, Repeated, StoreIn, error, memFlight
<1>4. CASE MemoryInFlight
  BY <1>4 DEF MemoryInFlight, MemoryAfter, Stores, AfterMemory, Repeated, StoreIn, error, memFlight
<1>5. CASE MemoryExit
  BY <1>5 DEF MemoryExit, regVars, Stores, AfterMemory
<1>6. CASE Execute \/ Decode \/ FetchHalt \/ FetchInsn
  BY <1>6 DEF Execute, Decode, FetchHalt, FetchInsn, Stores, AfterMemory, Repeated, StoreIn,
     error, memFlight
<1>7. CASE Latch
  <2> USE DEF Latch, Latched
  <2>1. stage = "latch" /\ mem' = mem /\ arch' = arch /\ dmem_status' = dmem_status
    BY <1>7
  <2>2. CASE stage' = "wback"
    <3>1. ~error(W_out.status) /\ W_ctl # "ERROR"
      BY <1>7, <2>2 DEF error, CycleStatus
    <3>2. CASE memFlight
      <4>1. W_out' = WBubble
        BY <1>7, <3>1, <3>2 DEF W_ctl, Control, wbError
      <4> QED
        BY <2>1, <2>2, <3>2, <4>1 DEF Stores, AfterMemory, StoreIn, WBubble, NOP, Insn,
           error
    <3>3. CASE ~memFlight
      <4>1. W_out' = W_in
        BY <1>7, <3>1, <3>3 DEF W_ctl, Control, wbError
      <4>2. error(W_in.status) => Repeated(M_out', W_in)
        <5>1. error(W_in.status) => M_out' = M_out
          BY <1>7, <3>3 DEF M_ctl, Control, memHeld, memError
        <5>2. W_in.insn = M_out.insn /\ W_in.val_ex = M_out.val_ex /\ W_in.stored = M_out.val_b
          BY <2>1 DEF Control0, Handed, AfterMemory
        <5> QED
          BY <5>1, <5>2 DEF Repeated
      <4> QED
        BY <2>1, <2>2, <3>3, <4>1, <4>2 DEF Stores, AfterMemory
    <3> QED
      BY <3>2, <3>3
  <2>3. CASE stage' # "wback"
    <3>1. stage' = "stopped"
      BY <1>7, <2>3
    <3>2. memFlight \/ error(W_out.status)
      <4>1. CASE W_out.status \notin {"AOK", "BUB"}
        BY <4>1 DEF error
      <4>2. CASE W_out.status \in {"AOK", "BUB"}
        <5>1. "ERROR" \in {F_ctl, D_ctl, X_ctl, M_ctl, W_ctl}
          BY <1>7, <3>1, <4>2 DEF CycleStatus
        <5>2. ~(mispredict /\ loadUse)
          BY DEF mispredict, loadUse
        <5>3. ~(retBubble /\ loadUse)
          BY DEF retBubble, loadUse, LoadUsers
        <5> QED
          BY <5>1, <5>2, <5>3 DEF F_ctl, D_ctl, X_ctl, M_ctl, W_ctl, Control
      <4> QED
        BY <4>1, <4>2
    <3>3. mem = arch.mem
      <4>1. CASE memFlight
        BY <2>1, <4>1 DEF Stores, AfterMemory
      <4>2. CASE ~memFlight
        <5>1. mem = StoreIn(W_in, arch.mem) /\ error(W_out.status)
          BY <2>1, <3>2, <4>2 DEF Stores, AfterMemory
        <5>2. W_in.insn = M_out.insn /\ W_in.val_ex = M_out.val_ex /\ W_in.stored = M_out.val_b
          BY <2>1 DEF Control0, Handed, AfterMemory
        <5>3. CASE M_out.insn.op = "STUR"
          <6>1. Repeated(M_out, W_out) /\ StoreIn(W_out, arch.mem) = arch.mem
            BY <2>1, <5>1, <5>3 DEF Stores
          <6> QED
            BY <5>1, <5>2, <6>1 DEF StoreIn, Repeated
        <5>4. CASE M_out.insn.op # "STUR"
          BY <5>1, <5>2, <5>4 DEF StoreIn
        <5> QED
          BY <5>3, <5>4
      <4> QED
        BY <4>1, <4>2
    <3> QED
      BY <2>1, <3>1, <3>3 DEF Stores, AfterMemory
  <2> QED
    BY <2>2, <2>3
<1>8. CASE UNCHANGED vars
  BY <1>8 DEF vars, Stores, AfterMemory, Repeated, StoreIn, error, memFlight
<1> QED
  BY <1>1, <1>2, <1>3, <1>4, <1>5, <1>6, <1>7, <1>8 DEF Next, Memory

LEMMA PipelineControl == Spec => [](Types /\ Control0 /\ Stores)
<1>1. Init => Types /\ Control0 /\ Stores
  BY TypesInit, Control0Init, StoresInit
<1>2. Types /\ Control0 /\ Stores /\ [Next]_vars => (Types /\ Control0 /\ Stores)'
  BY TypesStep, Control0Step, StoresStep
<1> QED
  BY <1>1, <1>2, PTL DEF Spec

(* Wrong paths, stalls, faults and delays reach no memory, in any program: *)
(* memory is never ahead of the retired program by more than one store.    *)
THEOREM StoresAreRetired == Spec => []StoresRetire
<1>1. Stores => StoresRetire
  BY DEF Stores, StoresRetire
<1> QED
  BY <1>1, PipelineControl, PTL

(* Behind a HLT there are only bubbles and more HLTs.                      *)
Halts(rec) == rec.status = "HLT"
Quiet(rec) == rec.status \in {"HLT", "BUB"}

HaltTail ==
  /\ Halts(W_out) => Quiet(M_out) /\ Quiet(X_out) /\ Quiet(D_out) /\ F_status = "HLT"
  /\ Halts(M_out) => Quiet(X_out) /\ Quiet(D_out) /\ F_status = "HLT"
  /\ Halts(X_out) => Quiet(D_out) /\ F_status = "HLT"
  /\ Halts(D_out) \/ Halts(D_in) => F_status = "HLT"
  /\ stage = "latch" /\ F_status = "HLT" => Halts(D_in)

LEMMA TailInit == Init => HaltTail
BY DEF Init, HaltTail, Halts, DBubble, XBubble, MBubble, WBubble

LEMMA TailStep == Types /\ Control0 /\ HaltTail /\ [Next]_vars => HaltTail'
<1> SUFFICES ASSUME Types, Control0, HaltTail, [Next]_vars PROVE HaltTail'
  OBVIOUS
<1>1. CASE WBack \/ Memory \/ Execute \/ Decode
  BY <1>1 DEF WBack, Memory, MemoryNoAccess, MemoryAnswer, MemoryInFlight, MemoryExit,
     Execute, Decode, regVars, HaltTail, Halts, Quiet
<1>2. CASE FetchHalt
  <2>1. Halts(D_in)' /\ F_status' = "HLT"
    BY <1>2 DEF FetchHalt, Types, DRegister, Halts
  <2> QED
    BY <1>2, <2>1 DEF FetchHalt, HaltTail, Halts, Quiet
<1>3. CASE FetchInsn
  <2>1. ~Halts(D_out) /\ ~Halts(X_out) /\ ~Halts(M_out) /\ ~Halts(W_out)
    BY <1>3 DEF FetchInsn, HaltTail
  <2>2. F_status' = "HLT" <=> Halts(D_in)'
    BY <1>3 DEF FetchInsn, Halts
  <2> QED
    BY <1>3, <2>1, <2>2 DEF FetchInsn, HaltTail, Halts, Quiet
<1>4. CASE Latch
  <2>1. /\ D_out' \in {D_in, D_out, DBubble} /\ X_out' \in {X_in, X_out, XBubble}
        /\ M_out' \in {M_in, M_out} /\ W_out' \in {W_in, W_out, WBubble}
        /\ F_status' = F_status /\ D_in' = D_in /\ stage' # "latch" /\ stage = "latch"
    BY <1>4 DEF Latch, Latched, M_ctl, Control
  <2>2. /\ M_in.status = X_out.status /\ X_in.status = D_out.status
        /\ Halts(W_in) => Halts(M_out)
    BY <2>1 DEF Control0, Handed, AfterMemory, AfterExecute, AfterDecode, Halts
  <2>3. DBubble.status = "BUB" /\ XBubble.status = "BUB" /\ WBubble.status = "BUB"
    BY DEF DBubble, XBubble, WBubble
  <2>4. Halts(D_out') => F_status = "HLT"
    BY <2>1, <2>3 DEF HaltTail, Halts
  <2>5. F_status = "HLT" => Halts(D_in)
    BY <2>1 DEF HaltTail
  <2>6. Halts(X_out') => Quiet(D_out') /\ F_status = "HLT"
    BY <2>1, <2>2, <2>3, <2>5 DEF HaltTail, Halts, Quiet
  <2>7. Halts(X_out) => Quiet(D_out') /\ Quiet(X_out') /\ F_status = "HLT"
    BY <2>1, <2>2, <2>3, <2>5 DEF HaltTail, Halts, Quiet
  <2>8. Halts(M_out) => Quiet(D_out') /\ Quiet(X_out') /\ Quiet(M_out') /\ F_status = "HLT"
    BY <2>1, <2>2, <2>3, <2>5 DEF HaltTail, Halts, Quiet
  <2>9. Halts(W_out) => Quiet(D_out') /\ Quiet(X_out') /\ Quiet(M_out') /\ F_status = "HLT"
    BY <2>1, <2>2, <2>3, <2>5 DEF HaltTail, Halts, Quiet
  <2>10. Halts(M_out') => Quiet(X_out') /\ Quiet(D_out') /\ F_status = "HLT"
    BY <2>1, <2>2, <2>7, <2>8 DEF Halts
  <2>11. Halts(W_out') => Quiet(M_out') /\ Quiet(X_out') /\ Quiet(D_out') /\ F_status = "HLT"
    BY <2>1, <2>2, <2>3, <2>8, <2>9 DEF Halts
  <2> QED
    BY <2>1, <2>4, <2>6, <2>10, <2>11 DEF HaltTail, Halts
<1>5. CASE UNCHANGED vars
  BY <1>5 DEF vars, HaltTail, Halts, Quiet
<1> QED
  BY <1>1, <1>2, <1>3, <1>4, <1>5 DEF Next

-----------------------------------------------------------------------------
(* The program, one instruction at a time: what an instruction i makes of  *)
(* a state s, with the operands and results that the stages work with.     *)

Live(s)     == s.status = "AOK"
Here(p, s)  == IF s.pc = 0 THEN HLT ELSE At(p, s.pc)
RegOf(s, r) == IF r = XZR THEN 0 ELSE s.regs[r]

OperandA(s, i) == IF i.op = "MOVZ" THEN 0
                  ELSE IF i.op = "MOVK" THEN KeepHigh(RegOf(s, ForwardA(i)))
                  ELSE RegOf(s, ForwardA(i))
OperandB(s, i) == RegOf(s, ForwardB(i))
Second(s, i)   == IF i.op \in RegisterOps THEN OperandB(s, i) ELSE i.imm

Outcome(s, i)  == IF i.op = "BL" THEN Link(s.pc + 1)
                  ELSE Alu(i.op, OperandA(s, i), Second(s, i))
LoadedBy(s, i) == Loaded(s.mem, Outcome(s, i))
FlagsOut(s, i) == FlagsAfter(i.op, OperandA(s, i), Second(s, i), Outcome(s, i), s.nzcv)
NotTaken(s, i) == i.op = "B_COND" /\ ~cond_holds(i.cond, s.nzcv)
Taken(s, i)    == i.op = "B_COND" /\ cond_holds(i.cond, s.nzcv)
Target(s, i)   == IF i.op \in {"B", "BL"} \/ Taken(s, i) THEN s.pc + i.imm
                  ELSE IF i.op = "RET" THEN OperandA(s, i)
                  ELSE s.pc + 1
Ends(s, i)     == IF i.op \in MemoryOps /\ BadAddr(Outcome(s, i)) THEN "ADR"
                                                               ELSE FetchStatus(i)

StepOf(s, i) ==
  [pc     |-> IF Ends(s, i) = "AOK" THEN Target(s, i) ELSE s.pc,
   regs   |-> IF w_enable(i)
                THEN Updated(s.regs, dst(i), IF i.op = "LDUR" THEN LoadedBy(s, i)
                                                              ELSE Outcome(s, i))
                ELSE s.regs,
   nzcv   |-> FlagsOut(s, i),
   mem    |-> IF i.op = "STUR" THEN Stored(s.mem, Outcome(s, i), OperandB(s, i))
                               ELSE s.mem,
   status |-> Ends(s, i)]

(* The state behind a pipeline register of the given status.               *)
After(p, s, st) == IF st = "BUB" \/ ~Live(s) THEN s ELSE StepOf(s, Here(p, s))

(* A record is that of the instruction at s, with what its stage needs.    *)
UsesA(i)   == i.op \in RegisterOps \cup MemoryOps \cup {"ADD_RI", "MOVZ", "MOVK", "RET"}
UsesB(i)   == i.op \in RegisterOps \cup {"STUR"}
Results(i) == i.op \in RegWriters \cup MemoryOps

Same(p, s, rec) ==
  /\ rec.pc = s.pc
  /\ \/ rec.insn = Here(p, s)
     \/ FetchStatus(rec.insn) = "HLT" /\ FetchStatus(Here(p, s)) = "HLT"

DRight(p, s, d) ==
  Same(p, s, d) /\ (d.insn.op \in {"BL", "B_COND"} => d.seq_succ = s.pc + 1)

XRight(p, s, x) ==
  /\ DRight(p, s, x)
  /\ UsesA(x.insn) => x.val_a = OperandA(s, x.insn)
  /\ UsesB(x.insn) => x.val_b = OperandB(s, x.insn)

MRight(p, s, m) ==
  /\ DRight(p, s, m)
  /\ Results(m.insn) => m.val_ex = Outcome(s, m.insn)
  /\ m.insn.op = "STUR" => m.val_b = OperandB(s, m.insn)
  /\ m.insn.op = "B_COND" => m.cond_holds = Taken(s, m.insn)
  /\ m.next = Target(s, m.insn)
  /\ m.nzcv = FlagsOut(s, m.insn)

WRight(p, s, w) ==
  /\ Same(p, s, w)
  /\ Results(w.insn) => w.val_ex = Outcome(s, w.insn)
  /\ w.insn.op = "LDUR" => w.val_mem = LoadedBy(s, w.insn) /\ w.val_ex # 0
  /\ w.insn.op = "STUR" => w.stored = OperandB(s, w.insn)
  /\ w.next = Target(s, w.insn)
  /\ w.nzcv = FlagsOut(s, w.insn)
  /\ w.status = Ends(s, w.insn)

LEMMA StepOfHalt ==
  ASSUME NEW s, NEW i, FetchStatus(i) = "HLT"
  PROVE  StepOf(s, i) = [pc |-> s.pc, regs |-> s.regs, nzcv |-> s.nzcv,
                         mem |-> s.mem, status |-> "HLT"]
BY DEF StepOf, Ends, FetchStatus, MemoryOps, w_enable, RegWriters, FlagsOut, FlagsAfter

(* The step can be told from the record of its instruction.                *)
LEMMA StepOfSame ==
  ASSUME NEW p, NEW s, NEW rec, Same(p, s, rec)
  PROVE  StepOf(s, rec.insn) = StepOf(s, Here(p, s))
BY StepOfHalt DEF Same

LEMMA AfterStep ==
  ASSUME NEW p, NEW s, NEW rec, Live(s), rec.status # "BUB", Same(p, s, rec)
  PROVE  After(p, s, rec.status) = StepOf(s, rec.insn)
BY StepOfSame DEF After

LEMMA RetiresStep ==
  ASSUME NEW w, Live(arch), w.status # "BUB", WRight(prog, arch, w)
  PROVE  Retired(w) = After(prog, arch, w.status)
<1>1. After(prog, arch, w.status) = StepOf(arch, w.insn)
  BY AfterStep DEF WRight
<1>2. w_enable(w.insn) => WValue(w) = IF w.insn.op = "LDUR" THEN LoadedBy(arch, w.insn)
                                                             ELSE Outcome(arch, w.insn)
  BY DEF w_enable, WValue, WRight, Results
<1>3. w.insn.op = "STUR" => w.val_ex = Outcome(arch, w.insn) /\ w.stored = OperandB(arch, w.insn)
  BY DEF WRight, Results, MemoryOps
<1>4. w.pc = arch.pc /\ w.next = Target(arch, w.insn) /\ w.nzcv = FlagsOut(arch, w.insn)
      /\ w.status = Ends(arch, w.insn)
  BY DEF WRight, Same
<1>5. Retired(w) =
        [pc     |-> IF w.status = "AOK" THEN w.next ELSE w.pc,
         regs   |-> IF w_enable(w.insn)
                      THEN Updated(arch.regs, dst(w.insn), WValue(w))
                      ELSE arch.regs,
         nzcv   |-> w.nzcv,
         mem    |-> IF w.insn.op = "STUR" THEN Stored(arch.mem, w.val_ex, w.stored)
                                          ELSE arch.mem,
         status |-> w.status]
  BY DEF Retired
<1>6. (IF w_enable(w.insn) THEN Updated(arch.regs, dst(w.insn), WValue(w)) ELSE arch.regs)
      = (IF w_enable(w.insn)
           THEN Updated(arch.regs, dst(w.insn),
                        IF w.insn.op = "LDUR" THEN LoadedBy(arch, w.insn)
                                              ELSE Outcome(arch, w.insn))
           ELSE arch.regs)
  BY <1>2
<1>7. (IF w.insn.op = "STUR" THEN Stored(arch.mem, w.val_ex, w.stored) ELSE arch.mem)
      = (IF w.insn.op = "STUR"
           THEN Stored(arch.mem, Outcome(arch, w.insn), OperandB(arch, w.insn))
           ELSE arch.mem)
  BY <1>3
<1> QED
  BY <1>1, <1>4, <1>5, <1>6, <1>7 DEF StepOf

LEMMA OnlyComparesSetFlags ==
  ASSUME NEW op, NEW a, NEW b, NEW r, NEW old
  PROVE  /\ op \in {"ADDS_RR", "CMP_RR"} =>
              \A o : FlagsAfter(op, a, b, r, o) = FlagsAfter(op, a, b, r, old)
         /\ op \notin {"ADDS_RR", "CMP_RR"} => FlagsAfter(op, a, b, r, old) = old
BY DEF FlagsAfter

(* An instruction may execute again while it is stalled: its own flags do  *)
(* not change what it does.                                                *)
LEMMA ExecutesRight ==
  ASSUME NEW p, NEW s, NEW x \in XRegister, Carried(x), XRight(p, s, x),
         NZCV \in {s.nzcv, FlagsOut(s, x.insn)}
  PROVE  /\ Results(x.insn) \/ x.insn.op = "CMP_RR" => Result(x) = Outcome(s, x.insn)
         /\ NextFlags(x) = FlagsOut(s, x.insn)
         /\ x.insn.op = "B_COND" => NZCV = s.nzcv
         /\ \A h : h = Taken(s, x.insn) => NextPC(x, h) = Target(s, x.insn)
<1> DEFINE i == x.insn
<1>0. i \in Instructions /\ x.pc = s.pc /\ x.val_imm = i.imm
  BY DEF XRegister, Carried, XRight, DRight, Same
<1>1. UsesA(i) => x.val_a = OperandA(s, i)
  BY DEF XRight
<1>2. UsesA(i) => ValB(x) = Second(s, i)
  BY <1>0 DEF XRight, UsesA, UsesB, ValB, Second
<1> DEFINE op == i.op
<1>10. /\ Results(i) \/ op = "CMP_RR" => UsesA(i) \/ op = "BL"
       /\ op \in {"ADDS_RR", "CMP_RR"} => UsesA(i) /\ op # "BL"
  <2>1. /\ op \in RegWriters \cup MemoryOps \/ op = "CMP_RR" =>
             op \in RegisterOps \cup MemoryOps \cup {"ADD_RI", "MOVZ", "MOVK", "RET"} \/ op = "BL"
        /\ op \in {"ADDS_RR", "CMP_RR"} => op \in RegisterOps
    BY DEF RegWriters, RegisterOps, MemoryOps
  <2> QED
    BY <2>1 DEF Results, UsesA
<1>3. UsesA(i) /\ i.op # "BL" => Result(x) = Outcome(s, i)
  BY <1>1, <1>2 DEF Result, Outcome
<1>4. i.op = "BL" => Result(x) = Outcome(s, i)
  BY DEF Result, Outcome, XRight, DRight
<1>5. Results(i) \/ i.op = "CMP_RR" => Result(x) = Outcome(s, i)
  BY <1>3, <1>4, <1>10
<1>6. i.op \notin {"ADDS_RR", "CMP_RR"} => FlagsOut(s, i) = s.nzcv
  BY OnlyComparesSetFlags DEF FlagsOut
<1>7. i.op \notin {"ADDS_RR", "CMP_RR"} => NextFlags(x) = NZCV
  BY OnlyComparesSetFlags DEF NextFlags
<1>8. i.op \in {"ADDS_RR", "CMP_RR"} => NextFlags(x) = FlagsOut(s, i)
  <2> SUFFICES ASSUME i.op \in {"ADDS_RR", "CMP_RR"} PROVE NextFlags(x) = FlagsOut(s, i)
    OBVIOUS
  <2>1. x.val_a = OperandA(s, i) /\ ValB(x) = Second(s, i) /\ Result(x) = Outcome(s, i)
    BY <1>1, <1>2, <1>3, <1>10
  <2> QED
    BY <2>1, OnlyComparesSetFlags DEF NextFlags, FlagsOut
<1>9. \A h : h = Taken(s, i) => NextPC(x, h) = Target(s, i)
  BY <1>0, <1>1 DEF NextPC, Target, UsesA
<1> QED
  BY <1>5, <1>6, <1>7, <1>8, <1>9

-----------------------------------------------------------------------------
(* The states that the instructions in flight will leave, from the oldest  *)
(* to the youngest.                                                        *)

S1 == IF stage = "wback" THEN After(prog, arch, W_out.status) ELSE arch
S2 == After(prog, S1, M_out.status)
S3 == After(prog, S2, X_out.status)
S4 == After(prog, S3, D_out.status)

Running == stage # "stopped"

(* Fetch knows where the program goes next: nothing in flight has ended    *)
(* it, and no RET in decode and no B.cond that falls through is ahead.     *)
OnPath == /\ Live(S4)
          /\ D_out.insn.op # "RET"
          /\ ~NotTaken(S3, D_out.insn)
          /\ ~NotTaken(S2, X_out.insn)

(* Each pipeline register holds the instruction of its state.              *)
Retiring ==
  /\ stage = "wback" =>
       /\ Live(arch)
       /\ W_out.status # "BUB" => WRight(prog, arch, W_out)
  /\ Running /\ stage # "wback" =>
       /\ W_out.status = "BUB" => Live(arch)
       /\ W_out.status # "BUB" =>
            /\ arch.status = W_out.status
            /\ w_enable(W_out.insn) /\ dst(W_out.insn) # XZR =>
                 arch.regs[dst(W_out.insn)] = WValue(W_out)

InMemory  == Running /\ Live(S1) /\ M_out.status # "BUB" => MRight(prog, S1, M_out)
InExecute == Running /\ Live(S2) /\ X_out.status # "BUB" => XRight(prog, S2, X_out)
InDecode  == Running /\ Live(S3) /\ D_out.status # "BUB" /\ ~NotTaken(S2, X_out.insn) =>
               DRight(prog, S3, D_out)

(* The young instructions are squashed when a B.cond falls through, and    *)
(* nothing is fetched behind a RET before it is executed.                  *)
Squashed ==
  Running =>
    /\ Live(S2) /\ NotTaken(S1, M_out.insn) => X_out.status = "BUB" /\ D_out.status = "BUB"
    /\ Live(S3) /\ X_out.insn.op = "RET" => D_out.status = "BUB"

(* What the stages that have run in this cycle have left.                  *)
MemoryDone ==
  AfterMemory /\ ~memFlight /\ Live(S1) /\ M_out.status # "BUB" => WRight(prog, S1, W_in)
ExecuteDone ==
  AfterExecute /\ Live(S2) /\ X_out.status # "BUB" => MRight(prog, S2, M_in)

UsesLoad == X_out.insn.op = "LDUR" /\ dst(X_out.insn) \in Operands(D_out.insn)
DecodeDone ==
  AfterDecode /\ ~memFlight /\ Live(S3) /\ D_out.status # "BUB"
    /\ ~NotTaken(S2, X_out.insn) /\ ~UsesLoad => XRight(prog, S3, X_in)

Fetching ==
  Running /\ OnPath =>
    /\ current_PC = S4.pc
    /\ stage # "latch" /\ F_status = "HLT" => FetchStatus(Here(prog, S4)) = "HLT"
FetchDone ==
  stage = "latch" /\ OnPath =>
    /\ DRight(prog, S4, D_in)
    /\ D_in.insn.op # "HLT" => PC = Predicted(D_in.insn, S4.pc)

(* The register file and the flags.  A BL in decode has spoilt X30, which  *)
(* it writes again when it retires.                                        *)
Linking == "BL" \in {D_out.insn.op, X_out.insn.op, M_out.insn.op}
             \cup (IF stage = "wback" THEN {W_out.insn.op} ELSE {})
File ==
  Running =>
    /\ \A r \in Regs \ {LR} : GPR[r] = arch.regs[r]
    /\ S2.status \in {"AOK", "HLT"} /\ ~Linking => GPR[LR] = arch.regs[LR]
Condition ==
  Running /\ S2.status \in {"AOK", "HLT"} =>
    /\ NZCV \in {S2.nzcv, S3.nzcv}
    /\ AfterExecute => NZCV = S3.nzcv

Follows == /\ Retiring /\ InMemory /\ InExecute /\ InDecode /\ Squashed
           /\ MemoryDone /\ ExecuteDone /\ DecodeDone /\ Fetching /\ FetchDone
           /\ File /\ Condition

LEMMA FollowsInit == Init => Follows
<1> SUFFICES ASSUME Init PROVE Follows
  OBVIOUS
<1>1. /\ stage = "wback" /\ W_out.status = "BUB" /\ M_out.status = "BUB"
      /\ X_out.status = "BUB" /\ D_out.status = "BUB"
      /\ D_out.insn.op = "NOP" /\ X_out.insn.op = "NOP" /\ M_out.insn.op = "NOP"
      /\ F_pred = 1 /\ F_status = "BUB"
  BY DEF Init, DBubble, XBubble, MBubble, WBubble, NOP, Insn
<1>2. arch.status = "AOK" /\ arch.regs = GPR /\ arch.nzcv = NZCV /\ arch.pc = 1
  BY DEF Init
<1>3. S1 = arch /\ S2 = arch /\ S3 = arch /\ S4 = arch
  BY <1>1 DEF S1, S2, S3, S4, After
<1>4. current_PC = 1
  BY <1>1 DEF current_PC
<1> QED
  BY <1>1, <1>2, <1>3, <1>4
  DEF Follows, Retiring, InMemory, InExecute, InDecode, Squashed, MemoryDone,
      ExecuteDone, DecodeDone, Fetching, FetchDone, File, Condition, Live,
      AfterMemory, AfterExecute, AfterDecode, NotTaken

(* The states of the instructions in flight depend on nothing else.        *)
LEMMA StatesKept ==
  ASSUME UNCHANGED <<prog, arch, D_out, X_out, M_out, W_out>>,
         (stage = "wback") <=> (stage' = "wback")
  PROVE  S1' = S1 /\ S2' = S2 /\ S3' = S3 /\ S4' = S4
<1>1. S1' = S1
  BY DEF S1
<1>2. S2' = S2
  BY <1>1 DEF S2
<1>3. S3' = S3
  BY <1>2 DEF S3
<1> QED
  BY <1>1, <1>2, <1>3 DEF S4

-----------------------------------------------------------------------------
(* One lemma for every stage.                                              *)

LEMMA FollowsWBack == Types /\ Control0 /\ Follows /\ WBack => Follows'
<1> SUFFICES ASSUME Types, Control0, Follows, WBack PROVE Follows'
  OBVIOUS
<1> DEFINE i == W_out.insn
           v == WValue(W_out)
<1>1. /\ stage = "wback" /\ stage' = "memory" /\ arch' = Retired(W_out) /\ prog' = prog
      /\ UNCHANGED <<D_in, D_out, X_in, X_out, M_in, M_out, W_in, W_out, NZCV,
                     F_pred, F_status, PC, dmem_status>>
  BY DEF WBack, regVars
<1>2. Live(arch) /\ (W_out.status # "BUB" => WRight(prog, arch, W_out))
  BY <1>1 DEF Follows, Retiring
<1>3. arch' = After(prog, arch, W_out.status)
  <2>1. CASE W_out.status = "BUB"
    BY <1>1, <2>1 DEF Retired, After
  <2>2. CASE W_out.status # "BUB"
    BY <1>1, <1>2, <2>2, RetiresStep
  <2> QED
    BY <2>1, <2>2
<1>4. S1' = S1 /\ S2' = S2 /\ S3' = S3 /\ S4' = S4
  <2>1. S1' = S1
    BY <1>1, <1>3 DEF S1
  <2>2. S2' = S2
    BY <1>1, <2>1 DEF S2
  <2>3. S3' = S3
    BY <1>1, <2>2 DEF S3
  <2> QED
    BY <1>1, <2>1, <2>2, <2>3 DEF S4
<1>5. W_out.status = "BUB" => i.op = "NOP" /\ arch' = arch
  BY <1>1 DEF Control0, Marks, WMarked, Marked, Retired
<1>6. /\ w_enable(i) => arch'.regs = Updated(arch.regs, dst(i), v)
      /\ ~w_enable(i) => arch'.regs = arch.regs
  BY <1>1, <1>5 DEF Retired, w_enable, RegWriters
<1>7. /\ w_enable(i) => GPR' = Updated(GPR, dst(i), v)
      /\ ~w_enable(i) => GPR' = GPR
  BY DEF WBack
<1>8. GPR \in [Regs -> Values] /\ arch.regs \in [Regs -> Values] /\ LR \in Regs /\ LR # XZR
  BY InstrAssumption DEF Types, ArchState, LR, XZR
<1>9. i \in Instructions /\ dst(i) \in Regs \cup {XZR}
  BY NamedRegisters DEF Types, WRegister
<1>10. /\ \A r \in Regs : GPR[r] = arch.regs[r] => GPR'[r] = arch'.regs[r]
       /\ \A r \in Regs : w_enable(i) /\ dst(i) = r /\ r # XZR =>
            GPR'[r] = v /\ arch'.regs[r] = v
  BY <1>6, <1>7, <1>8, <1>9 DEF Updated
<1>11. Retiring'
  <2>1. W_out.status # "BUB" => arch'.status = W_out.status
    BY <1>1 DEF Retired
  <2>2. XZR \notin Regs
    BY InstrAssumption DEF XZR
  <2>3. w_enable(i) /\ dst(i) # XZR => arch'.regs[dst(i)] = v
    BY <1>9, <1>10
  <2>4. WValue(W_out)' = v
    BY <1>1 DEF WValue
  <2> QED
    BY <1>1, <1>2, <1>5, <2>1, <2>3, <2>4 DEF Retiring, Live
<1>12. File'
  <2>1. i.op = "BL" => w_enable(i) /\ dst(i) = LR
    BY DEF w_enable, RegWriters, dst, RegisterOps, MemoryOps
  <2>2. \A r \in Regs \ {LR} : GPR[r] = arch.regs[r]
    BY <1>1 DEF Follows, File, Running
  <2>3. S2.status \in {"AOK", "HLT"} /\ ~Linking' => GPR'[LR] = arch'.regs[LR]
    <3>1. CASE i.op = "BL"
      BY <2>1, <3>1, <1>8, <1>10
    <3>2. CASE i.op # "BL"
      <4>1. ~Linking' => ~Linking
        BY <1>1, <3>2 DEF Linking
      <4> QED
        BY <4>1, <1>1, <1>8, <1>10 DEF Follows, File, Running
    <3> QED
      BY <3>1, <3>2
  <2> QED
    BY <1>4, <1>10, <2>2, <2>3 DEF File
<1>13. current_PC' = current_PC
  BY <1>1 DEF current_PC
<1> QED
  BY <1>1, <1>4, <1>11, <1>12, <1>13
  DEF Follows, InMemory, InExecute, InDecode, Squashed, MemoryDone, ExecuteDone,
      DecodeDone, Fetching, FetchDone, Condition, Running, OnPath, AfterMemory,
      AfterExecute, AfterDecode

LEMMA MemoryDoneRight ==
  ASSUME Types, Control0, Stores, Follows, stage = "memory",
         Live(S1), M_out.status # "BUB", NEW value, NEW err,
         MemoryResult(value, err),
         err <=> M_out.insn.op \in MemoryOps /\ BadAddr(M_out.val_ex),
         M_out.insn.op = "LDUR" =>
           /\ M_out.val_ex # 0
           /\ value = Loaded(mem, M_out.val_ex)
  PROVE  WRight(prog, S1, W_in')
<1> DEFINE i == M_out.insn
<1>1. MRight(prog, S1, M_out)
  BY DEF Follows, InMemory, Running
<1>2. M_out.status = FetchStatus(i)
  BY DEF Control0, Marks, Marked
<1>3. W_in' = [insn |-> M_out.insn, status |-> IF err THEN "ADR" ELSE M_out.status,
               val_ex |-> M_out.val_ex, val_mem |-> value, stored |-> M_out.val_b,
               pc |-> M_out.pc, next |-> M_out.next, nzcv |-> M_out.nzcv]
  BY DEF MemoryResult
<1>4. S1.mem = mem
  BY DEF S1, Stores
<1>5. Results(i) => M_out.val_ex = Outcome(S1, i)
  BY <1>1 DEF MRight
<1>6. i.op \in MemoryOps => Results(i)
  BY DEF Results
<1>7. (IF err THEN "ADR" ELSE M_out.status) = Ends(S1, i)
  BY <1>2, <1>5, <1>6 DEF Ends
<1>8. i.op = "LDUR" => value = LoadedBy(S1, i)
  BY <1>4, <1>5, <1>6 DEF LoadedBy, MemoryOps
<1>9. Same(prog, S1, W_in')
  BY <1>1, <1>3 DEF MRight, DRight, Same
<1> QED
  BY <1>1, <1>3, <1>5, <1>7, <1>8, <1>9 DEF WRight, MRight

LEMMA FollowsMemory == Types /\ Control0 /\ Stores /\ Follows /\ Memory => Follows'
<1> SUFFICES ASSUME Types, Control0, Stores, Follows, Memory PROVE Follows'
  OBVIOUS
<1>1. CASE MemoryExit
  <2>1. stage' = "stopped"
    BY <1>1 DEF MemoryExit
  <2> QED
    BY <2>1
    DEF Follows, Retiring, InMemory, InExecute, InDecode, Squashed, MemoryDone,
        ExecuteDone, DecodeDone, Fetching, FetchDone, File, Condition, Running,
        AfterMemory, AfterExecute, AfterDecode
<1>2. ASSUME stage = "memory", stage' = "execute",
             UNCHANGED <<prog, PC, GPR, NZCV, F_pred, F_status, D_in, D_out, X_in, X_out,
                         M_in, M_out, W_out, arch>>,
             ~memFlight' /\ Live(S1) /\ M_out.status # "BUB" => WRight(prog, S1, W_in')
      PROVE  Follows'
  <2>1. S1' = S1 /\ S2' = S2 /\ S3' = S3 /\ S4' = S4
    BY <1>2, StatesKept
  <2>2. current_PC' = current_PC
    BY <1>2 DEF current_PC
  <2>3. WValue(W_out)' = WValue(W_out)
    BY <1>2 DEF WValue
  <2> QED
    BY <1>2, <2>1, <2>2, <2>3
    DEF Follows, Retiring, InMemory, InExecute, InDecode, Squashed, MemoryDone,
        ExecuteDone, DecodeDone, Fetching, FetchDone, File, Condition, Running,
        AfterMemory, AfterExecute, AfterDecode, OnPath, Linking
<1>3. CASE MemoryNoAccess
  <2>1. ~BadAddr(0)
    BY DEF BadAddr
  <2>2. stage = "memory" /\ MemoryResult(0, FALSE)
    BY <1>3 DEF MemoryNoAccess
  <2>3. ~(M_out.insn.op \in MemoryOps /\ BadAddr(M_out.val_ex)) /\ M_out.insn.op # "LDUR"
    BY <1>3, <2>1 DEF MemoryNoAccess, MemoryOps
  <2>4. Live(S1) /\ M_out.status # "BUB" => WRight(prog, S1, W_in')
    BY <2>2, <2>3, MemoryDoneRight
  <2> QED
    BY <1>2, <1>3, <2>4 DEF MemoryNoAccess
<1>4. CASE MemoryAnswer
  <2> DEFINE a == M_out.val_ex
             value == IF M_out.insn.op = "LDUR" THEN Loaded(mem, a) ELSE 0
  <2>1. stage = "memory" /\ MemoryResult(value, BadAddr(a)) /\ a # 0 /\ M_out.insn.op \in MemoryOps
    BY <1>4 DEF MemoryAnswer
  <2>2. M_out.insn.op = "LDUR" => value = Loaded(mem, a)
    OBVIOUS
  <2> HIDE DEF value
  <2>3. Live(S1) /\ M_out.status # "BUB" => WRight(prog, S1, W_in')
    BY <2>1, <2>2, MemoryDoneRight
  <2> QED
    BY <1>2, <1>4, <2>3 DEF MemoryAnswer
<1>5. CASE MemoryInFlight
  BY <1>2, <1>5 DEF MemoryInFlight, memFlight
<1> QED
  BY <1>1, <1>3, <1>4, <1>5 DEF Memory

(* When the program has ended in a HLT, what is younger is quiet.          *)
LEMMA HaltedIsQuiet ==
  ASSUME Types, Control0, HaltTail, Follows, Running, S2.status = "HLT"
  PROVE  Quiet(X_out) /\ Quiet(D_out)
<1>1. CASE Live(S1)
  <2>1. M_out.status # "BUB"
    BY <1>1 DEF S2, After, Live
  <2>2. MRight(prog, S1, M_out)
    BY <1>1, <2>1 DEF Follows, InMemory
  <2>3. S2 = StepOf(S1, M_out.insn)
    BY <1>1, <2>1, <2>2, AfterStep DEF S2, MRight, DRight
  <2>4. Ends(S1, M_out.insn) = "HLT"
    BY <2>3 DEF StepOf
  <2>5. Halts(M_out)
    BY <2>1, <2>4 DEF Ends, Control0, Marks, Marked, Halts
  <2> QED
    BY <2>5 DEF HaltTail
<1>2. CASE ~Live(S1)
  <2>1. S1.status = "HLT"
    BY <1>2 DEF S2, After
  <2>2. Halts(W_out)
    <3>1. CASE stage = "wback"
      <4>1. Live(arch)
        BY <3>1 DEF Follows, Retiring
      <4>2. W_out.status # "BUB"
        BY <3>1, <4>1, <1>2 DEF S1, After
      <4>3. WRight(prog, arch, W_out)
        BY <3>1, <4>2 DEF Follows, Retiring
      <4>4. S1 = StepOf(arch, W_out.insn)
        BY <3>1, <4>1, <4>2, <4>3, AfterStep DEF S1, WRight
      <4> QED
        BY <2>1, <4>3, <4>4 DEF StepOf, WRight, Halts
    <3>2. CASE stage # "wback"
      BY <2>1, <3>2 DEF S1, Follows, Retiring, Live, Halts
    <3> QED
      BY <3>1, <3>2
  <2> QED
    BY <2>2 DEF HaltTail
<1> QED
  BY <1>1, <1>2

LEMMA FollowsExecute == Types /\ Control0 /\ HaltTail /\ Follows /\ Execute => Follows'
<1> SUFFICES ASSUME Types, Control0, HaltTail, Follows, Execute PROVE Follows'
  OBVIOUS
<1> DEFINE i == X_out.insn
           holds == i.op = "B_COND" /\ cond_holds(i.cond, NZCV)
<1>1. /\ stage = "execute" /\ stage' = "decode" /\ NZCV' = NextFlags(X_out)
      /\ UNCHANGED <<prog, PC, GPR, F_pred, F_status, D_in, D_out, X_in, X_out,
                     M_out, W_in, W_out, arch, dmem_status>>
      /\ M_in' = [insn |-> i, status |-> X_out.status,
                  seq_succ |-> X_out.seq_succ, val_b |-> X_out.val_b,
                  val_ex |-> IF i.op \in {"NOP", "HLT"} THEN 0 ELSE Result(X_out),
                  cond_holds |-> holds, pc |-> X_out.pc,
                  next |-> NextPC(X_out, holds), nzcv |-> NextFlags(X_out)]
  BY DEF Execute
<1>2. S1' = S1 /\ S2' = S2 /\ S3' = S3 /\ S4' = S4
  BY <1>1, StatesKept
<1>3. current_PC' = current_PC /\ WValue(W_out)' = WValue(W_out)
  BY <1>1 DEF current_PC, WValue
<1>4. S2.status \in {"AOK", "HLT"} => NZCV \in {S2.nzcv, S3.nzcv}
  BY <1>1 DEF Follows, Condition, Running
<1>5. X_out \in XRegister /\ Carried(X_out)
  BY DEF Types
<1>6. ASSUME Live(S2), X_out.status # "BUB"
      PROVE  MRight(prog, S2, M_in') /\ NextFlags(X_out) = S3.nzcv
  <2>1. XRight(prog, S2, X_out)
    BY <1>1, <1>6 DEF Follows, InExecute, Running
  <2>2. S3 = StepOf(S2, i)
    BY <1>6, <2>1, AfterStep DEF S3, XRight, DRight
  <2>3. S3.nzcv = FlagsOut(S2, i)
    BY <2>2 DEF StepOf
  <2>4. NZCV \in {S2.nzcv, FlagsOut(S2, i)}
    BY <1>4, <1>6, <2>3 DEF Live
  <2>5. /\ Results(i) \/ i.op = "CMP_RR" => Result(X_out) = Outcome(S2, i)
        /\ NextFlags(X_out) = FlagsOut(S2, i)
        /\ i.op = "B_COND" => NZCV = S2.nzcv
        /\ \A h : h = Taken(S2, i) => NextPC(X_out, h) = Target(S2, i)
    BY <1>5, <2>1, <2>4, ExecutesRight
  <2>6. holds = Taken(S2, i)
    BY <2>5 DEF Taken
  <2>7. Results(i) => i.op \notin {"NOP", "HLT"}
    BY DEF Results, RegWriters, MemoryOps
  <2>8. DRight(prog, S2, M_in')
    BY <1>1, <2>1 DEF XRight, DRight, Same
  <2>9. i.op = "STUR" => X_out.val_b = OperandB(S2, i)
    BY <2>1 DEF XRight, UsesB
  <2> HIDE DEF holds
  <2> QED
    BY <1>1, <2>3, <2>5, <2>6, <2>7, <2>8, <2>9 DEF MRight
<1>7. S2.status \in {"AOK", "HLT"} => NextFlags(X_out) = S3.nzcv
  <2>1. CASE Live(S2) /\ X_out.status # "BUB"
    BY <1>6, <2>1
  <2>2. CASE S2.status = "HLT" \/ (Live(S2) /\ X_out.status = "BUB")
    <3>1. Quiet(X_out)
      BY <2>2, <1>1, HaltedIsQuiet DEF Quiet, Running
    <3>2. i.op \in {"NOP", "HLT"}
      BY <3>1 DEF Quiet, Control0, Marks, Marked, FetchStatus
    <3>3. NextFlags(X_out) = NZCV
      BY <3>2, OnlyComparesSetFlags DEF NextFlags
    <3>4. S3 = S2
      BY <2>2 DEF S3, After, Live
    <3> QED
      BY <1>4, <2>2, <3>3, <3>4 DEF Live
  <2> QED
    BY <2>1, <2>2 DEF Live
<1>8. ExecuteDone'
  BY <1>1, <1>2, <1>6 DEF ExecuteDone
<1>9. Condition'
  BY <1>1, <1>2, <1>7 DEF Condition
<1> QED
  BY <1>1, <1>2, <1>3, <1>8, <1>9
  DEF Follows, Retiring, InMemory, InExecute, InDecode, Squashed, MemoryDone,
      DecodeDone, Fetching, FetchDone, File, Running, memFlight,
      AfterMemory, AfterExecute, AfterDecode, OnPath, Linking

LEMMA OperandRegisters ==
  ASSUME NEW i \in Instructions
  PROVE  /\ UsesA(i) /\ i.op # "MOVZ" => ForwardA(i) \in Operands(i)
         /\ UsesB(i) => ForwardB(i) \in Operands(i)
         /\ Operands(i) \subseteq Regs \cup {XZR}
         /\ Operands(i) # {} => i.op \notin {"BL", "NOP"}
<1>1. CASE i.op \in RegisterOps
  <2>1. /\ ForwardA(i) = src1(i) /\ ForwardB(i) = src2(i)
        /\ Operands(i) = {src1(i), src2(i)} /\ i.op \notin {"BL", "NOP"}
    BY <1>1 DEF ForwardA, ForwardB, Operands, RegisterOps, MemoryOps
  <2> QED
    BY <2>1, NamedRegisters
<1>2. CASE i.op \in {"ADD_RI", "LDUR"}
  <2>1. /\ ForwardA(i) = src1(i) /\ src1(i) = i.rn
        /\ Operands(i) = {i.rn} /\ i.op \notin {"BL", "NOP"} /\ ~UsesB(i)
    BY <1>2 DEF ForwardA, src1, Operands, RegisterOps, MemoryOps, UsesB
  <2> QED
    BY <2>1, NamedRegisters
<1>3. CASE i.op = "RET"
  <2>1. /\ ForwardA(i) = i.rn
        /\ Operands(i) = {i.rn} /\ i.op \notin {"BL", "NOP"} /\ ~UsesB(i)
    BY <1>3 DEF ForwardA, Operands, RegisterOps, MemoryOps, UsesB
  <2> QED
    BY <2>1, NamedRegisters
<1>4. CASE i.op = "STUR"
  <2>1. /\ ForwardA(i) = src1(i) /\ src1(i) = i.rn /\ ForwardB(i) = dst(i)
        /\ Operands(i) = {i.rn, dst(i)} /\ i.op \notin {"BL", "NOP"}
    BY <1>4 DEF ForwardA, ForwardB, src1, Operands, RegisterOps, MemoryOps
  <2> QED
    BY <2>1, NamedRegisters
<1>5. CASE i.op = "MOVK"
  <2>1. /\ ForwardA(i) = dst(i) /\ dst(i) = i.rd
        /\ Operands(i) = {i.rd} /\ i.op \notin {"BL", "NOP"} /\ ~UsesB(i)
    BY <1>5 DEF ForwardA, dst, Operands, RegisterOps, MemoryOps, UsesB
  <2> QED
    BY <2>1, NamedRegisters
<1>6. CASE i.op \notin RegisterOps \cup {"ADD_RI", "LDUR", "RET", "STUR", "MOVK"}
  BY <1>6 DEF UsesA, UsesB, Operands, RegisterOps, MemoryOps
<1> QED
  BY <1>1, <1>2, <1>3, <1>4, <1>5, <1>6

(* What a step leaves in a register.                                       *)
LEMMA StepRegisters ==
  ASSUME NEW p, NEW s, NEW rec, Live(s), rec.status # "BUB", Same(p, s, rec),
         DOMAIN s.regs = Regs
  PROVE  LET t == After(p, s, rec.status) IN
         /\ DOMAIN t.regs = Regs
         /\ \A r \in Regs : t.regs[r] =
              IF w_enable(rec.insn) /\ dst(rec.insn) = r /\ r # XZR
                THEN IF rec.insn.op = "LDUR" THEN LoadedBy(s, rec.insn) ELSE Outcome(s, rec.insn)
                ELSE s.regs[r]
<1>1. After(p, s, rec.status) = StepOf(s, rec.insn)
  BY AfterStep
<1> DEFINE v == IF rec.insn.op = "LDUR" THEN LoadedBy(s, rec.insn) ELSE Outcome(s, rec.insn)
<1>2. StepOf(s, rec.insn).regs = IF w_enable(rec.insn) THEN Updated(s.regs, dst(rec.insn), v)
                                                      ELSE s.regs
  BY DEF StepOf
<1> HIDE DEF v
<1>3. /\ DOMAIN Updated(s.regs, dst(rec.insn), v) = Regs
      /\ \A r \in Regs : Updated(s.regs, dst(rec.insn), v)[r] =
           IF dst(rec.insn) = r /\ r # XZR THEN v ELSE s.regs[r]
  BY DEF Updated
<1> QED
  BY <1>1, <1>2, <1>3 DEF v

(* An error is that of a program that ends.                                *)
LEMMA ErrorEnds ==
  ASSUME NEW p, NEW s, NEW rec, Marked(rec), error(rec.status), Same(p, s, rec)
  PROVE  ~Live(After(p, s, rec.status))
<1>1. rec.status # "BUB" /\ FetchStatus(rec.insn) \notin {"AOK", "BUB"}
  BY DEF error, Marked
<1>2. CASE Live(s)
  <2>1. After(p, s, rec.status) = StepOf(s, rec.insn)
    BY <1>1, <1>2, AfterStep
  <2>2. StepOf(s, rec.insn).status # "AOK"
    BY <1>1 DEF StepOf, Ends
  <2> QED
    BY <2>1, <2>2 DEF Live
<1>3. CASE ~Live(s)
  BY <1>3 DEF After
<1> QED
  BY <1>2, <1>3

(* Forwarding finds the value of the program for every register that an    *)
(* instruction in decode needs, but for the result of a load in execute.   *)
LEMMA ForwardsRight ==
  ASSUME Types, Control0, HaltTail, Follows, HazardsCovered, stage = "decode",
         ~memFlight, Live(S3), ~UsesLoad, NEW r \in Operands(D_out.insn)
  PROVE  Forward(r, ReadReg(r)) = RegOf(S3, r)
<1> DEFINE X == X_out.insn
           M == M_out.insn
           W == W_out.insn
<1>0. D_out.insn \in Instructions /\ X \in Instructions /\ M \in Instructions /\ W \in Instructions
  BY DEF Types, DRegister, XRegister, MRegister, WRegister
<1>1. r \in Regs \cup {XZR} /\ D_out.insn.op \notin {"BL", "NOP"}
  BY <1>0, OperandRegisters
<1>2. Live(S2) /\ Live(S1) /\ Live(arch) /\ S1 = arch
  BY DEF S1, S2, S3, After, Live
<1>3. CASE r = XZR
  <2>1. ~error(X_out.status)
    <3>1. error(X_out.status) => Same(prog, S2, X_out)
      BY <1>2 DEF error, Follows, InExecute, Running, XRight, DRight
    <3> QED
      BY <3>1, ErrorEnds DEF S3, Control0, Marks
  <2>2. \A i \in {X, M, W} : ~(w_enable(i) /\ dst(i) = XZR)
    BY <1>3, <2>1 DEF HazardsCovered, ZeroReadsZero
  <2> QED
    BY <1>3, <2>2 DEF Forward, ReadReg, RegOf
<1>4. CASE r # XZR
  <2>0. r \in Regs /\ RegOf(S3, r) = S3.regs[r]
    BY <1>1, <1>4 DEF RegOf
  <2>1. DOMAIN S1.regs = Regs
    BY <1>2 DEF Types, ArchState
  <2>2. /\ DOMAIN S2.regs = Regs
        /\ M_out.status # "BUB" =>
             S2.regs[r] = IF w_enable(M) /\ dst(M) = r
                            THEN IF M.op = "LDUR" THEN LoadedBy(S1, M) ELSE Outcome(S1, M)
                            ELSE S1.regs[r]
        /\ M_out.status = "BUB" => S2.regs[r] = S1.regs[r]
    <3>1. CASE M_out.status = "BUB"
      BY <2>1, <3>1 DEF S2, After
    <3>2. CASE M_out.status # "BUB"
      <4>1. Same(prog, S1, M_out)
        BY <1>2, <3>2 DEF Follows, InMemory, Running, MRight, DRight
      <4> QED
        BY <1>2, <1>4, <2>0, <2>1, <3>2, <4>1, StepRegisters DEF S2
    <3> QED
      BY <3>1, <3>2
  <2>3. /\ X_out.status # "BUB" =>
             S3.regs[r] = IF w_enable(X) /\ dst(X) = r
                            THEN IF X.op = "LDUR" THEN LoadedBy(S2, X) ELSE Outcome(S2, X)
                            ELSE S2.regs[r]
        /\ X_out.status = "BUB" => S3.regs[r] = S2.regs[r]
    <3>1. CASE X_out.status = "BUB"
      BY <3>1 DEF S3, After
    <3>2. CASE X_out.status # "BUB"
      <4>1. Same(prog, S2, X_out)
        BY <1>2, <3>2 DEF Follows, InExecute, Running, XRight, DRight
      <4> QED
        BY <1>2, <1>4, <2>0, <2>2, <3>2, <4>1, StepRegisters DEF S3
    <3> QED
      BY <3>1, <3>2
  <2>4. /\ X_out.status = "BUB" => ~w_enable(X)
        /\ M_out.status = "BUB" => ~w_enable(M)
        /\ W_out.status = "BUB" => ~w_enable(W)
    BY DEF Control0, Marks, WMarked, Marked, w_enable, RegWriters
  <2>5. CASE w_enable(X) /\ dst(X) = r
    <3>1. X.op # "LDUR"
      BY <2>5 DEF UsesLoad
    <3>2. MRight(prog, S2, M_in) /\ M_in.insn = X
      BY <1>2, <2>4, <2>5 DEF Follows, ExecuteDone, AfterExecute, Control0, Handed
    <3>3. M_in.val_ex = Outcome(S2, X)
      BY <2>5, <3>2 DEF MRight, Results, w_enable
    <3> QED
      BY <2>0, <2>3, <2>4, <2>5, <3>1, <3>3 DEF Forward
  <2>6. CASE ~(w_enable(X) /\ dst(X) = r) /\ w_enable(M) /\ dst(M) = r
    <3>1. MRight(prog, S1, M_out) /\ WRight(prog, S1, W_in) /\ W_in.insn = M
      BY <1>2, <2>4, <2>6 DEF Follows, InMemory, MemoryDone, AfterMemory, Running,
         Control0, Handed
    <3>2. M_out.val_ex = Outcome(S1, M)
      BY <2>6, <3>1 DEF MRight, Results, w_enable
    <3>3. M.op = "LDUR" => W_in.val_mem = LoadedBy(S1, M)
      BY <3>1 DEF WRight
    <3> QED
      BY <2>0, <2>2, <2>3, <2>4, <2>6, <3>2, <3>3 DEF Forward, wval_sel
  <2>7. CASE ~(w_enable(X) /\ dst(X) = r) /\ ~(w_enable(M) /\ dst(M) = r)
    <3>1. S3.regs[r] = arch.regs[r]
      BY <1>2, <2>2, <2>3, <2>7
    <3>2. CASE w_enable(W) /\ dst(W) = r
      <4>1. arch.regs[r] = WValue(W_out)
        BY <1>4, <2>4, <3>2 DEF Follows, Retiring, Running
      <4> QED
        BY <2>0, <2>7, <3>1, <3>2, <4>1 DEF Forward
    <3>3. CASE ~(w_enable(W) /\ dst(W) = r)
      <4>1. \A i : i.op = "BL" => w_enable(i) /\ dst(i) = LR
        BY DEF w_enable, RegWriters, dst, RegisterOps, MemoryOps
      <4>2. r = LR => ~Linking
        BY <1>1, <2>7, <4>1 DEF Linking
      <4>3. GPR[r] = arch.regs[r]
        BY <1>2, <2>0, <4>2 DEF Follows, File, Running, Live
      <4> QED
        BY <1>4, <2>0, <2>7, <3>1, <3>3, <4>3 DEF Forward, ReadReg
    <3> QED
      BY <3>2, <3>3
  <2> QED
    BY <2>5, <2>6, <2>7
<1> QED
  BY <1>3, <1>4

LEMMA FollowsDecode ==
  Types /\ Control0 /\ HaltTail /\ Follows /\ HazardsCovered /\ Decode => Follows'
<1> SUFFICES ASSUME Types, Control0, HaltTail, Follows, HazardsCovered, Decode
             PROVE  Follows'
  OBVIOUS
<1> DEFINE i == D_out.insn
           a == Forward(ForwardA(i), ReadReg(ForwardA(i)))
           b == Forward(ForwardB(i), ReadReg(ForwardB(i)))
           va == CASE i.op = "MOVZ" -> 0
                   [] i.op = "MOVK" -> KeepHigh(a)
                   [] OTHER -> a
<1>1. /\ stage = "decode" /\ stage' = "fetch"
      /\ UNCHANGED <<prog, PC, NZCV, F_pred, F_status, D_in, D_out, X_out, M_in,
                     M_out, W_in, W_out, arch, dmem_status>>
      /\ X_in' = [insn |-> i, status |-> D_out.status, seq_succ |-> D_out.seq_succ,
                  val_a |-> va, val_b |-> b, val_imm |-> i.imm, pc |-> D_out.pc]
      /\ GPR' = IF Links(i) THEN Updated(GPR, LR, W_wval) ELSE GPR
  BY DEF Decode
<1>2. S1' = S1 /\ S2' = S2 /\ S3' = S3 /\ S4' = S4
  BY <1>1, StatesKept
<1>3. current_PC' = current_PC /\ WValue(W_out)' = WValue(W_out)
  BY <1>1 DEF current_PC, WValue
<1>4. i \in Instructions
  BY DEF Types, DRegister
<1>5. ASSUME ~memFlight, Live(S3), D_out.status # "BUB", ~NotTaken(S2, X_out.insn),
             ~UsesLoad
      PROVE  XRight(prog, S3, X_in')
  <2>1. DRight(prog, S3, D_out)
    BY <1>1, <1>5 DEF Follows, InDecode, Running
  <2>2. UsesA(i) /\ i.op # "MOVZ" => a = RegOf(S3, ForwardA(i))
    BY <1>1, <1>4, <1>5, ForwardsRight, OperandRegisters
  <2>3. UsesB(i) => b = RegOf(S3, ForwardB(i))
    BY <1>1, <1>4, <1>5, ForwardsRight, OperandRegisters
  <2> HIDE DEF a, b
  <2>4. UsesA(i) => va = OperandA(S3, i)
    BY <2>2 DEF OperandA
  <2> HIDE DEF va
  <2>5. DRight(prog, S3, X_in')
    BY <1>1, <2>1 DEF DRight, Same
  <2> QED
    BY <1>1, <2>3, <2>4, <2>5 DEF XRight, OperandB
<1>6. DecodeDone'
  <2>1. UsesLoad' = UsesLoad /\ memFlight' = memFlight
    BY <1>1 DEF UsesLoad, memFlight
  <2> QED
    BY <1>1, <1>2, <1>5, <2>1 DEF DecodeDone
<1>7. File'
  <2>1. \A r \in Regs \ {LR} : GPR'[r] = GPR[r]
    BY <1>1 DEF Updated, Types
  <2>2. ~Linking' => ~Linking /\ GPR' = GPR
    BY <1>1 DEF Linking, Links
  <2> QED
    BY <1>1, <1>2, <2>1, <2>2 DEF Follows, File, Running
<1> QED
  BY <1>1, <1>2, <1>3, <1>6, <1>7
  DEF Follows, Retiring, InMemory, InExecute, InDecode, Squashed, MemoryDone,
      ExecuteDone, Fetching, FetchDone, Condition, Running, memFlight,
      AfterMemory, AfterExecute, AfterDecode, OnPath

LEMMA FollowsFetch == Types /\ Control0 /\ Follows /\ (FetchHalt \/ FetchInsn) => Follows'
<1> SUFFICES ASSUME Types, Control0, Follows, FetchHalt \/ FetchInsn PROVE Follows'
  OBVIOUS
<1>1. /\ stage = "fetch" /\ stage' = "latch"
      /\ UNCHANGED <<prog, GPR, NZCV, F_pred, D_out, X_in, X_out, M_in, M_out,
                     W_in, W_out, arch, dmem_status>>
  BY DEF FetchHalt, FetchInsn
<1>2. S1' = S1 /\ S2' = S2 /\ S3' = S3 /\ S4' = S4
  BY <1>1, StatesKept
<1>3. current_PC' = current_PC /\ WValue(W_out)' = WValue(W_out)
  BY <1>1 DEF current_PC, WValue
<1>4. OnPath' = OnPath
  BY <1>1, <1>2 DEF OnPath
<1>5. ASSUME OnPath
      PROVE  /\ DRight(prog, S4, D_in')
             /\ D_in'.insn.op # "HLT" => PC' = Predicted(D_in'.insn, S4.pc)
  <2>1. /\ current_PC = S4.pc
        /\ F_status = "HLT" => FetchStatus(Here(prog, S4)) = "HLT"
    BY <1>1, <1>5 DEF Follows, Fetching, Running
  <2>2. CASE FetchHalt
    <3>1. D_in'.insn = HLT /\ D_in'.pc = S4.pc
      BY <2>1, <2>2 DEF FetchHalt, Types, DRegister
    <3>2. HLT.op = "HLT" /\ FetchStatus(HLT) = "HLT"
      BY DEF HLT, Insn, FetchStatus
    <3>3. FetchStatus(Here(prog, S4)) = "HLT"
      BY <2>1, <2>2, <3>2 DEF FetchHalt, Here
    <3> QED
      BY <3>1, <3>2, <3>3 DEF DRight, Same
  <2>3. CASE FetchInsn
    <3>1. /\ D_in'.insn = At(prog, S4.pc) /\ D_in'.pc = S4.pc
          /\ D_in'.seq_succ = S4.pc + 1 /\ S4.pc # 0
          /\ PC' = Predicted(At(prog, S4.pc), S4.pc)
      BY <2>1, <2>3 DEF FetchInsn
    <3> QED
      BY <3>1 DEF DRight, Same, Here
  <2> QED
    BY <2>2, <2>3
<1>6. FetchDone'
  BY <1>1, <1>2, <1>4, <1>5 DEF FetchDone
<1>7. Fetching'
  BY <1>1, <1>2, <1>3, <1>4 DEF Follows, Fetching, Running
<1>8. DecodeDone'
  BY <1>1, <1>2 DEF Follows, DecodeDone, AfterDecode, UsesLoad, memFlight
<1> QED
  BY <1>1, <1>2, <1>3, <1>6, <1>7, <1>8
  DEF Follows, Retiring, InMemory, InExecute, InDecode, Squashed, MemoryDone,
      ExecuteDone, File, Condition, Running, memFlight,
      AfterMemory, AfterExecute, Linking

(* The latch at the end of a cycle that another one follows.               *)
Advancing == Types /\ Control0 /\ HaltTail /\ Follows /\ Latch /\ stage' = "wback"

LEMMA LatchFacts ==
  ASSUME Advancing
  PROVE  /\ stage = "latch" /\ Live(arch) /\ S1 = arch /\ ~wbError
         /\ UNCHANGED <<prog, PC, GPR, NZCV, F_status, arch>>
         /\ "ERROR" \notin {F_ctl, D_ctl, X_ctl, M_ctl, W_ctl}
         /\ F_pred' = IF F_ctl = "LOAD" THEN PC ELSE F_pred
         /\ D_out' = Latched(D_ctl, D_in, D_out, DBubble)
         /\ X_out' = Latched(X_ctl, X_in, X_out, XBubble)
         /\ M_out' = Latched(M_ctl, M_in, M_out, MBubble)
         /\ W_out' = Latched(W_ctl, W_in, W_out, WBubble)
<1>1. W_out.status \in {"AOK", "BUB"} /\ "ERROR" \notin {F_ctl, D_ctl, X_ctl, M_ctl, W_ctl}
  BY DEF Advancing, Latch, CycleStatus
<1>2. stage = "latch" /\ S1 = arch
  BY DEF Advancing, Latch, S1
<1>3. Live(arch)
  BY <1>1, <1>2 DEF Advancing, Follows, Retiring, Running, Live
<1> QED
  BY <1>1, <1>2, <1>3 DEF Advancing, Latch, wbError, error

LEMMA AfterAlike ==
  ASSUME NEW p, NEW s, NEW st, NEW t, (st = "BUB") <=> (t = "BUB")
  PROVE  After(p, s, st) = After(p, s, t)
BY DEF After

(* What Follows asks of a new cycle.                                       *)
LEMMA NewCycle ==
  ASSUME stage' = "wback", Retiring', InMemory', InExecute', InDecode', Squashed',
         Fetching', File', Condition'
  PROVE  Follows'
<1>1. MemoryDone' /\ ExecuteDone'
  BY DEF MemoryDone, ExecuteDone, AfterMemory, AfterExecute
<1>2. DecodeDone' /\ FetchDone'
  BY DEF DecodeDone, FetchDone, AfterDecode
<1> QED
  BY <1>1, <1>2 DEF Follows

(* An access is still in flight: only write-back gets a bubble.            *)
LEMMA LatchInFlight ==
  ASSUME Advancing, memFlight
  PROVE  Follows'
<1>1. /\ W_out' = WBubble /\ M_out' = M_out /\ X_out' = X_out /\ D_out' = D_out
      /\ F_pred' = F_pred
  <2>1. /\ W_ctl = "BUBBLE" /\ M_ctl = "STALL" /\ X_ctl = "STALL" /\ D_ctl = "STALL"
        /\ F_ctl = "STALL"
    BY LatchFacts DEF W_ctl, M_ctl, X_ctl, D_ctl, F_ctl, Control
  <2> QED
    BY <2>1, LatchFacts DEF Latched
<1>2. WBubble.status = "BUB" /\ WBubble.insn.op = "NOP"
  BY DEF WBubble, NOP, Insn
<1>7. /\ stage = "latch" /\ stage' = "wback" /\ Live(arch) /\ S1 = arch /\ Running
      /\ arch' = arch /\ prog' = prog /\ GPR' = GPR /\ NZCV' = NZCV /\ F_status' = F_status
  BY LatchFacts DEF Advancing, Running
<1>3. S1' = S1 /\ S2' = S2 /\ S3' = S3 /\ S4' = S4
  <2>1. S1' = S1
    BY <1>1, <1>2, <1>7 DEF S1, After
  <2>2. S2' = S2
    BY <1>1, <1>7, <2>1 DEF S2
  <2>3. S3' = S3
    BY <1>1, <1>7, <2>2 DEF S3
  <2> QED
    BY <1>1, <1>7, <2>1, <2>2, <2>3 DEF S4
<1>4. current_PC' = current_PC
  BY <1>1 DEF current_PC
<1>5. Fetching'
  <2>1. OnPath' = OnPath
    BY <1>1, <1>3 DEF OnPath
  <2>2. ASSUME OnPath
        PROVE  current_PC = S4.pc /\ (F_status = "HLT" => FetchStatus(Here(prog, S4)) = "HLT")
    <3>1. current_PC = S4.pc /\ DRight(prog, S4, D_in)
      BY <2>2, <1>7 DEF Advancing, Follows, Fetching, FetchDone, Running
    <3>2. F_status = "HLT" => FetchStatus(D_in.insn) = "HLT"
      BY <1>7 DEF Advancing, HaltTail, Halts, Control0, Marks, Marked, FetchStatus
    <3> QED
      BY <3>1, <3>2 DEF DRight, Same
  <2> QED
    BY <1>3, <1>4, <1>7, <2>1, <2>2 DEF Fetching
<1>6. Linking' <=> Linking
  BY <1>1, <1>2, <1>7 DEF Linking
<1>8. Follows
  BY DEF Advancing
<1>9. Retiring'
  BY <1>1, <1>2, <1>7 DEF Retiring
<1>10. InMemory' /\ InExecute' /\ InDecode' /\ Squashed'
  BY <1>1, <1>3, <1>7, <1>8 DEF Follows, InMemory, InExecute, InDecode, Squashed
<1>11. File'
  BY <1>3, <1>6, <1>7, <1>8 DEF Follows, File
<1>12. Condition'
  BY <1>3, <1>7, <1>8 DEF Follows, Condition, AfterExecute
<1> QED
  BY <1>5, <1>7, <1>9, <1>10, <1>11, <1>12, NewCycle

(* What fetch has left where the program goes next.                        *)
LEMMA OnPathFacts ==
  ASSUME Advancing, OnPath
  PROVE  /\ current_PC = S4.pc
         /\ DRight(prog, S4, D_in)
         /\ D_in.insn.op # "HLT" => PC = Predicted(D_in.insn, S4.pc)
         /\ F_status = "HLT" =>
              FetchStatus(D_in.insn) = "HLT" /\ FetchStatus(Here(prog, S4)) = "HLT"
<1>1. /\ current_PC = S4.pc /\ DRight(prog, S4, D_in)
      /\ D_in.insn.op # "HLT" => PC = Predicted(D_in.insn, S4.pc)
  BY LatchFacts DEF Advancing, Follows, Fetching, FetchDone, Running
<1>2. F_status = "HLT" => FetchStatus(D_in.insn) = "HLT"
  BY LatchFacts DEF Advancing, HaltTail, Halts, Control0, Marks, Marked, FetchStatus
<1> QED
  BY <1>1, <1>2 DEF DRight, Same

(* The access is over.                                                     *)
LEMMA LatchWriteBack ==
  ASSUME Advancing, ~memFlight
  PROVE  W_out' = W_in /\ S1' = S2 /\ Retiring'
<1>1. W_out' = W_in
  <2>1. W_ctl = "LOAD"
    BY LatchFacts DEF W_ctl, Control
  <2> QED
    BY <2>1, LatchFacts DEF Latched
<1>2. /\ stage = "latch" /\ stage' = "wback" /\ Live(arch) /\ S1 = arch
      /\ arch' = arch /\ prog' = prog
  BY LatchFacts DEF Advancing
<1>3. W_in.status = "BUB" <=> M_out.status = "BUB"
  BY <1>2 DEF Advancing, Control0, Handed, AfterMemory
<1>4. S1' = S2
  <2>1. After(prog, arch, W_in.status) = After(prog, arch, M_out.status)
    BY <1>3, AfterAlike
  <2> QED
    BY <1>1, <1>2, <2>1 DEF S1, S2
<1>5. W_in.status # "BUB" => WRight(prog, arch, W_in)
  BY <1>2, <1>3 DEF Advancing, Follows, MemoryDone, AfterMemory
<1> QED
  BY <1>1, <1>2, <1>4, <1>5 DEF Retiring

(* An error in the memory stage holds up everything behind it.             *)
LEMMA LatchMemoryError ==
  ASSUME Advancing, ~memFlight, memError
  PROVE  Follows'
<1>1. W_out' = W_in /\ S1' = S2 /\ Retiring'
  BY LatchWriteBack
<1>2. /\ stage = "latch" /\ stage' = "wback" /\ Live(arch) /\ S1 = arch /\ Running
      /\ arch' = arch /\ prog' = prog /\ GPR' = GPR /\ NZCV' = NZCV
  BY LatchFacts DEF Advancing, Running
<1>3. M_out' = M_out
  <2>1. M_ctl = "STALL"
    BY DEF M_ctl, memHeld, Control
  <2> QED
    BY <2>1, LatchFacts DEF Latched
<1>4. ~Live(S2)
  <2>1. W_in.status # "BUB" /\ M_out.status # "BUB"
    BY <1>2 DEF memError, error, Advancing, Control0, Handed, AfterMemory
  <2>2. WRight(prog, arch, W_in) /\ Same(prog, arch, W_in)
    BY <1>2, <2>1 DEF Advancing, Follows, MemoryDone, AfterMemory, WRight
  <2>3. S2 = StepOf(arch, W_in.insn)
    <3>1. After(prog, arch, W_in.status) = After(prog, arch, M_out.status)
      BY <2>1, AfterAlike
    <3>2. After(prog, arch, W_in.status) = StepOf(arch, W_in.insn)
      BY <1>2, <2>1, <2>2, AfterStep
    <3> QED
      BY <1>2, <3>1, <3>2 DEF S2
  <2>4. S2.status = W_in.status
    BY <2>2, <2>3 DEF WRight, StepOf
  <2> QED
    BY <2>4 DEF Live, memError, error
<1>5. S2' = S2 /\ S3' = S2 /\ S4' = S2 /\ S3 = S2
  <2>1. \A st : After(prog, S2, st) = S2
    BY <1>4 DEF After
  <2>2. S2' = S2
    BY <1>1, <1>2, <2>1 DEF S2
  <2>3. S3' = S2 /\ S3 = S2
    BY <1>2, <2>1, <2>2 DEF S3
  <2> QED
    BY <1>2, <2>1, <2>2, <2>3 DEF S4
<1>6. InMemory' /\ InExecute' /\ InDecode' /\ Squashed' /\ Fetching'
  BY <1>1, <1>4, <1>5 DEF InMemory, InExecute, InDecode, Squashed, Fetching, OnPath
<1>7. S2.status = "HLT" /\ Linking => Linking'
  <2>1. S2.status = "HLT" => X_out.insn.op # "BL" /\ D_out.insn.op # "BL"
    BY <1>2, HaltedIsQuiet DEF Advancing, Quiet, Control0, Marks, Marked, FetchStatus
  <2>2. W_in.insn = M_out.insn
    BY <1>2 DEF Advancing, Control0, Handed, AfterMemory
  <2> QED
    BY <1>1, <1>2, <2>1, <2>2 DEF Linking
<1>8. File'
  <2>1. S2'.status \in {"AOK", "HLT"} /\ ~Linking' => GPR[LR] = arch.regs[LR]
    BY <1>2, <1>4, <1>5, <1>7 DEF Live, Advancing, Follows, File
  <2>2. \A r \in Regs \ {LR} : GPR[r] = arch.regs[r]
    BY <1>2 DEF Advancing, Follows, File
  <2> QED
    BY <1>2, <1>5, <2>1, <2>2 DEF File
<1>9. Condition'
  BY <1>2, <1>5 DEF Advancing, Follows, Condition, AfterExecute
<1> QED
  BY <1>1, <1>2, <1>6, <1>8, <1>9, NewCycle

(* No error in the memory stage: execute's result goes on.                 *)
Flowing == Advancing /\ HazardsCovered /\ ~memFlight /\ ~memError

LEMMA FlowFacts ==
  ASSUME Flowing
  PROVE  /\ stage = "latch" /\ stage' = "wback" /\ Live(arch) /\ S1 = arch /\ Running
         /\ arch' = arch /\ prog' = prog /\ GPR' = GPR /\ NZCV' = NZCV
         /\ F_status' = F_status
         /\ M_in.insn = X_out.insn /\ M_in.status = X_out.status
         /\ X_in.insn = D_out.insn /\ X_in.status = D_out.status
         /\ W_in.insn = M_out.insn /\ D_in.status # "BUB"
         /\ M_ctl = "LOAD" /\ M_out' = M_in
         /\ S1' = S2 /\ S2' = S3
         /\ decodeHeld = (decodeError \/ execError)
         /\ fetchHeld = (decodeError \/ execError)
         /\ execHeld = execError
<1>1. /\ stage = "latch" /\ stage' = "wback" /\ Live(arch) /\ S1 = arch /\ Running
      /\ arch' = arch /\ prog' = prog /\ GPR' = GPR /\ NZCV' = NZCV
      /\ F_status' = F_status /\ ~wbError
  BY LatchFacts DEF Flowing, Advancing, Running
<1>2. /\ M_in.insn = X_out.insn /\ M_in.status = X_out.status
      /\ X_in.insn = D_out.insn /\ X_in.status = D_out.status
      /\ W_in.insn = M_out.insn /\ D_in.status # "BUB"
  BY <1>1 DEF Flowing, Advancing, Control0, Handed, AfterMemory, AfterExecute, AfterDecode
<1>3. M_ctl = "LOAD"
  BY <1>1 DEF Flowing, M_ctl, memHeld, Control
<1>4. M_out' = M_in
  BY <1>3, LatchFacts DEF Flowing, Latched
<1>5. S1' = S2
  BY LatchWriteBack DEF Flowing
<1>6. S2' = S3
  <2>1. After(prog, S2, M_in.status) = S3
    BY <1>2 DEF S3
  <2> QED
    BY <1>1, <1>4, <1>5, <2>1 DEF S2
<1>7. /\ decodeHeld = (decodeError \/ execError)
      /\ fetchHeld = (decodeError \/ execError)
      /\ execHeld = execError
  BY <1>1 DEF Flowing, decodeHeld, fetchHeld, execHeld, decodeError, execError, error
<1> QED
  BY <1>1, <1>2, <1>3, <1>4, <1>5, <1>6, <1>7

(* The main loop sees the misprediction that the program makes.            *)
LEMMA SeesFallThrough ==
  ASSUME Flowing
  PROVE  /\ Live(S2) /\ NotTaken(S2, X_out.insn) => mispredict
         /\ Live(S2) /\ mispredict =>
              /\ NotTaken(S2, X_out.insn)
              /\ M_in.seq_succ = S2.pc + 1
              /\ Live(S3) => S3.pc = S2.pc + 1
<1>1. X_out.insn.op = "B_COND" => X_out.status # "BUB"
  BY DEF Flowing, Advancing, Control0, Marks, Marked
<1>2. ASSUME Live(S2), X_out.insn.op = "B_COND"
      PROVE  /\ M_in.cond_holds = Taken(S2, X_out.insn)
             /\ M_in.seq_succ = S2.pc + 1
             /\ S3 = StepOf(S2, X_out.insn)
  <2>1. MRight(prog, S2, M_in) /\ M_in.insn = X_out.insn
    BY <1>1, <1>2, FlowFacts DEF Flowing, Advancing, Follows, ExecuteDone, AfterExecute
  <2>2. XRight(prog, S2, X_out)
    BY <1>1, <1>2, FlowFacts DEF Flowing, Advancing, Follows, InExecute
  <2>3. S3 = StepOf(S2, X_out.insn)
    BY <1>1, <1>2, <2>2, AfterStep DEF S3, XRight, DRight
  <2> QED
    BY <1>2, <2>1, <2>3 DEF MRight, DRight
<1>3. ASSUME Live(S2), mispredict
      PROVE  /\ NotTaken(S2, X_out.insn)
             /\ M_in.seq_succ = S2.pc + 1
             /\ Live(S3) => S3.pc = S2.pc + 1
  <2>1. X_out.insn.op = "B_COND" /\ ~M_in.cond_holds
    BY <1>3 DEF mispredict
  <2>2. NotTaken(S2, X_out.insn)
    BY <1>2, <1>3, <2>1 DEF NotTaken, Taken
  <2>3. Target(S2, X_out.insn) = S2.pc + 1
    BY <2>1, <2>2 DEF NotTaken, Target, Taken
  <2>4. Live(S3) => S3.pc = S2.pc + 1
    BY <1>2, <1>3, <2>1, <2>3 DEF StepOf, Live
  <2> QED
    BY <1>2, <1>3, <2>1, <2>2, <2>4
<1>4. Live(S2) /\ NotTaken(S2, X_out.insn) => mispredict
  BY <1>2 DEF NotTaken, Taken, mispredict
<1> QED
  BY <1>3, <1>4

LEMMA LiveBefore ==
  /\ Live(S4) => Live(S3)
  /\ Live(S3) => Live(S2)
  /\ Live(S2) => Live(S1)
BY DEF S2, S3, S4, After

(* What the later stages and the register file get.                        *)
LEMMA FlowOlder ==
  ASSUME Flowing
  PROVE  Retiring' /\ InMemory' /\ Condition'
<1>1. Retiring'
  BY LatchWriteBack DEF Flowing
<1>2. InMemory'
  BY FlowFacts DEF InMemory, Flowing, Advancing, Follows, ExecuteDone, AfterExecute
<1>3. ~Live(S2) => S3 = S2
  BY DEF S3, After
<1>4. S3.status \in {"AOK", "HLT"} => NZCV = S3.nzcv
  BY <1>3, FlowFacts DEF Flowing, Advancing, Follows, Condition, AfterExecute, Live
<1>5. Condition'
  BY <1>4, FlowFacts DEF Condition, AfterExecute
<1> QED
  BY <1>1, <1>2, <1>5

(* What execute, decode and fetch get: one lemma for every decision of     *)
(* hazard control.                                                         *)
BubblesAreQuiet(r) == r.status = "BUB" /\ r.insn.op = "NOP"
LEMMA Bubbles == BubblesAreQuiet(DBubble) /\ BubblesAreQuiet(XBubble)
BY DEF BubblesAreQuiet, DBubble, XBubble, NOP, Insn

LEMMA FlowExecError ==
  ASSUME Flowing, execError
  PROVE  /\ InExecute' /\ InDecode' /\ Squashed' /\ Fetching'
         /\ Linking => Linking'
<1>1. D_out' = D_out
  <2>1. D_ctl = "STALL"
    BY FlowFacts DEF D_ctl, Control
  <2> QED
    BY <2>1, LatchFacts DEF Flowing, Latched
<1>2. X_out.status # "BUB" /\ Marked(X_out) /\ error(X_out.status)
  BY FlowFacts DEF execError, error, Flowing, Advancing, Control0, Marks
<1>3. ~Live(S3)
  <2>1. CASE Live(S2)
    <3>1. Same(prog, S2, X_out)
      BY <1>2, <2>1, FlowFacts DEF Flowing, Advancing, Follows, InExecute, XRight, DRight
    <3> QED
      BY <1>2, <3>1, ErrorEnds DEF S3
  <2>2. CASE ~Live(S2)
    BY <2>2, LiveBefore
  <2> QED
    BY <2>1, <2>2
<1>4. ~Live(S3') /\ ~Live(S4')
  <2>1. \A st : After(prog, S3, st) = S3
    BY <1>3 DEF After
  <2>2. S3' = S3
    BY <2>1, FlowFacts DEF S3
  <2> QED
    BY <1>3, <2>1, <2>2, FlowFacts DEF S4
<1>5. InExecute' /\ InDecode' /\ Fetching' /\ Squashed'
  BY <1>3, <1>4, FlowFacts DEF InExecute, InDecode, Fetching, OnPath, Squashed
<1>6. Linking => Linking'
  BY <1>1, FlowFacts, LatchWriteBack DEF Linking, Flowing
<1> QED
  BY <1>5, <1>6

LEMMA FlowMispredict ==
  ASSUME Flowing, ~execError, mispredict
  PROVE  /\ InExecute' /\ InDecode' /\ Squashed' /\ Fetching'
         /\ Linking => Linking'
<1>1. ~error(D_out.status) /\ D_out.insn.op # "BL" /\ F_status # "HLT"
  BY FlowFacts DEF Flowing, HazardsCovered, WrongPathQuiet, execError
<1>2. ~decodeError
  BY <1>1, FlowFacts DEF decodeError
<1>3. D_out' = DBubble /\ X_out' = XBubble
  <2>1. ~loadUse
    BY DEF loadUse, mispredict
  <2>2. ~decodeHeld /\ ~execHeld /\ ~memFlight
    <3>1. decodeHeld = (decodeError \/ execError) /\ execHeld = execError
      BY FlowFacts
    <3> QED
      BY <1>2, <3>1 DEF Flowing, decodeHeld, execHeld
  <2>3. D_ctl = "BUBBLE"
    BY <2>1, <2>2 DEF D_ctl, Control
  <2>4. X_ctl = "BUBBLE"
    BY <2>1, <2>2 DEF X_ctl, Control
  <2> QED
    BY <2>3, <2>4, LatchFacts DEF Flowing, Latched
<1>4. BubblesAreQuiet(D_out') /\ BubblesAreQuiet(X_out')
  BY <1>3, Bubbles
<1>5. S3' = S3 /\ S4' = S3
  <2>1. S3' = S3
    BY <1>4, FlowFacts DEF S3, After, BubblesAreQuiet
  <2> QED
    BY <1>4, <2>1, FlowFacts DEF S4, After, BubblesAreQuiet
<1>6. InExecute' /\ InDecode' /\ Squashed'
  BY <1>4, FlowFacts DEF InExecute, InDecode, Squashed, BubblesAreQuiet
<1>7. current_PC' = M_in.seq_succ
  BY <1>4, FlowFacts DEF current_PC, mispredict, BubblesAreQuiet
<1>8. Fetching'
  BY <1>1, <1>5, <1>7, FlowFacts, SeesFallThrough, LiveBefore DEF Fetching, OnPath
<1>9. Linking => Linking'
  BY <1>1, FlowFacts, LatchWriteBack DEF Linking, Flowing
<1> QED
  BY <1>6, <1>8, <1>9

LEMMA FlowLoadUse ==
  ASSUME Flowing, ~execError, loadUse
  PROVE  /\ InExecute' /\ InDecode' /\ Squashed' /\ Fetching'
         /\ Linking => Linking'
<1>1. X_out.insn.op = "LDUR" /\ ~mispredict /\ ~retBubble
  BY DEF loadUse, LoadUsers, mispredict, retBubble
<1>3. D_out' = D_out /\ X_out' = XBubble /\ F_pred' = F_pred
  <2>1. D_ctl = "STALL" /\ X_ctl = "BUBBLE" /\ F_ctl = "STALL"
    BY <1>1, FlowFacts DEF D_ctl, X_ctl, F_ctl, Control, Flowing
  <2> QED
    BY <2>1, LatchFacts DEF Flowing, Latched
<1>4. BubblesAreQuiet(X_out')
  BY <1>3, Bubbles
<1>5. S3' = S3 /\ S4' = S4
  <2>1. S3' = S3
    BY <1>4, FlowFacts DEF S3, After, BubblesAreQuiet
  <2> QED
    BY <1>3, <2>1, FlowFacts DEF S4
<1>6. ~NotTaken(S2, X_out.insn) /\ \A s : ~NotTaken(s, X_out'.insn)
  BY <1>1, <1>4 DEF NotTaken, BubblesAreQuiet
<1>7. InExecute'
  BY <1>4 DEF InExecute, BubblesAreQuiet
<1>8. InDecode'
  BY <1>3, <1>5, <1>6, FlowFacts DEF InDecode, Flowing, Advancing, Follows
<1>9. Squashed'
  BY <1>4, <1>6, FlowFacts DEF Squashed, BubblesAreQuiet
<1>10. Fetching'
  <2> SUFFICES ASSUME OnPath'
               PROVE  /\ current_PC' = S4.pc
                      /\ F_status' = "HLT" => FetchStatus(Here(prog, S4)) = "HLT"
    BY <1>5, FlowFacts DEF Fetching
  <2>1. OnPath
    BY <1>3, <1>5, <1>6 DEF OnPath
  <2>2. Live(S1) /\ Live(S2)
    BY <2>1, LiveBefore DEF OnPath
  <2>3. ~(M_out.insn.op = "B_COND" /\ ~M_out.cond_holds)
    <3> SUFFICES ASSUME M_out.insn.op = "B_COND", ~M_out.cond_holds PROVE FALSE
      OBVIOUS
    <3>1. M_out.status # "BUB"
      BY DEF Flowing, Advancing, Control0, Marks, Marked
    <3>2. NotTaken(S1, M_out.insn)
      BY <2>2, <3>1, FlowFacts
      DEF Flowing, Advancing, Follows, InMemory, MRight, NotTaken, Taken
    <3>3. X_out.status = "BUB"
      BY <2>2, <3>2, FlowFacts DEF Flowing, Advancing, Follows, Squashed
    <3> QED
      BY <1>1, <3>3 DEF Flowing, Advancing, Control0, Marks, Marked
  <2>4. current_PC' = F_pred /\ current_PC = F_pred
    BY <1>1, <1>3, <1>4, <2>3, FlowFacts DEF current_PC, BubblesAreQuiet
  <2> QED
    BY <2>1, <2>4, FlowFacts, OnPathFacts DEF Flowing
<1>11. Linking => Linking'
  BY <1>3, FlowFacts, LatchWriteBack DEF Linking, Flowing
<1> QED
  BY <1>7, <1>8, <1>9, <1>10, <1>11

LEMMA FlowDecode ==
  ASSUME Flowing, ~execError, ~mispredict, ~loadUse
  PROVE  /\ InExecute' /\ InDecode' /\ Squashed' /\ Fetching'
         /\ Linking => Linking'
<1>1. decodeHeld = decodeError /\ fetchHeld = decodeError /\ ~execHeld /\ ~memFlight
  <2>1. /\ decodeHeld = (decodeError \/ execError) /\ fetchHeld = (decodeError \/ execError)
        /\ execHeld = execError
    BY FlowFacts
  <2> QED
    BY <2>1 DEF Flowing, decodeError, error
<1>2. X_out' = X_in
  <2>1. X_ctl = "LOAD"
    BY <1>1 DEF X_ctl, Control
  <2> QED
    BY <2>1, LatchFacts DEF Flowing, Latched
<1>3. S3' = S4
  <2>1. After(prog, S3, X_in.status) = S4
    BY FlowFacts DEF S4
  <2> QED
    BY <1>2, <2>1, FlowFacts DEF S3
<1>4. Live(S2) => ~NotTaken(S2, X_out.insn)
  BY SeesFallThrough
<1>5. ~UsesLoad
  BY FlowFacts DEF Flowing, HazardsCovered, LoadUseSeen, UsesLoad, execError
<1>6. InExecute'
  <2>1. Live(S3) /\ X_in.status # "BUB" => XRight(prog, S3, X_in)
    BY <1>1, <1>4, <1>5, FlowFacts, LiveBefore
    DEF Flowing, Advancing, Follows, DecodeDone, AfterDecode
  <2> QED
    BY <1>2, <2>1, FlowFacts DEF InExecute
<1>7. Live(S3) /\ D_out.status # "BUB" => XRight(prog, S3, X_in) /\ S4 = StepOf(S3, D_out.insn)
  <2>1. ASSUME Live(S3), D_out.status # "BUB"
        PROVE  XRight(prog, S3, X_in) /\ S4 = StepOf(S3, D_out.insn)
    <3>1. XRight(prog, S3, X_in)
      BY <1>2, <1>6, <2>1, FlowFacts DEF InExecute, Running
    <3>2. After(prog, S3, X_in.status) = StepOf(S3, X_in.insn)
      BY <2>1, <3>1, FlowFacts, AfterStep DEF XRight, DRight
    <3> QED
      BY <3>1, <3>2, FlowFacts DEF S4
  <2> QED
    BY <2>1
<1>8. ~(M_out'.insn.op = "B_COND" /\ ~M_out'.cond_holds)
  BY FlowFacts DEF mispredict
<1>9. Squashed' <=> (Live(S4) /\ D_out.insn.op = "RET" => D_out'.status = "BUB")
  BY <1>2, <1>3, <1>4, FlowFacts, LiveBefore DEF Squashed, Running
<1>10. Linking => Linking'
  BY <1>2, FlowFacts, LatchWriteBack DEF Linking, Flowing
<1>11. CASE decodeError
  <2>1. D_out.status # "BUB" /\ Marked(D_out) /\ error(D_out.status)
    BY <1>11, FlowFacts DEF decodeError, error, Flowing, Advancing, Control0, Marks
  <2>3. ~Live(S4)
    <3>1. CASE Live(S3)
      <4>1. Same(prog, S3, X_in)
        BY <1>7, <2>1, <3>1 DEF XRight, DRight
      <4>2. Marked(X_in)
        BY DEF Flowing, Advancing, Control0, Marks
      <4>3. ~Live(After(prog, S3, X_in.status))
        BY <2>1, <4>1, <4>2, FlowFacts, ErrorEnds
      <4> QED
        BY <4>3, FlowFacts DEF S4
    <3>2. CASE ~Live(S3)
      BY <3>2, LiveBefore
    <3> QED
      BY <3>1, <3>2
  <2>4. ~Live(S4')
    BY <1>3, <2>3 DEF S4, After
  <2>5. InDecode' /\ Fetching'
    BY <1>3, <2>3, <2>4 DEF InDecode, Fetching, OnPath
  <2> QED
    BY <1>6, <1>9, <1>10, <2>3, <2>5
<1>12. CASE ~decodeError /\ retBubble
  <2>1. D_out.insn.op = "RET" /\ D_out.status = "AOK" /\ F_status # "HLT"
    BY <1>12, FlowFacts DEF retBubble, decodeError, error, Flowing, HazardsCovered,
       WrongPathQuiet, Advancing, Control0, Marks, Marked, Types, DRegister
  <2>2. D_out' = DBubble
    <3>1. D_ctl = "BUBBLE"
      BY <1>1, <1>12 DEF D_ctl, Control
    <3> QED
      BY <3>1, LatchFacts DEF Flowing, Latched
  <2>3. BubblesAreQuiet(D_out')
    BY <2>2, Bubbles
  <2>4. S4' = S4
    BY <1>3, <2>3 DEF S4, After, BubblesAreQuiet
  <2>5. current_PC' = X_in.val_a
    BY <1>2, <1>8, <2>1, FlowFacts DEF current_PC
  <2>6. ASSUME Live(S4) PROVE S4.pc = X_in.val_a
    <3>1. XRight(prog, S3, X_in) /\ S4 = StepOf(S3, D_out.insn)
      BY <1>7, <2>1, <2>6, LiveBefore
    <3>2. X_in.val_a = OperandA(S3, D_out.insn)
      BY <2>1, <3>1, FlowFacts DEF XRight, UsesA
    <3>3. Target(S3, D_out.insn) = OperandA(S3, D_out.insn)
      BY <2>1 DEF Target, Taken
    <3> QED
      BY <2>6, <3>1, <3>2, <3>3 DEF StepOf, Live
  <2>7. Fetching'
    BY <2>1, <2>4, <2>5, <2>6, FlowFacts DEF Fetching, OnPath
  <2>8. InDecode'
    BY <2>3 DEF InDecode, BubblesAreQuiet
  <2> QED
    BY <1>6, <1>9, <1>10, <2>3, <2>7, <2>8 DEF BubblesAreQuiet
<1>13. CASE ~decodeError /\ ~retBubble
  <2>1. D_out' = D_in /\ F_pred' = PC
    <3>1. D_ctl = "LOAD" /\ F_ctl = "LOAD"
      BY <1>1, <1>13 DEF D_ctl, F_ctl, Control
    <3> QED
      BY <3>1, LatchFacts DEF Flowing, Latched
  <2>2. D_out.insn.op # "RET"
    BY <1>13 DEF retBubble
  <2>3. S4' = After(prog, S4, D_in.status)
    BY <1>3, <2>1, FlowFacts DEF S4
  <2>4. ASSUME Live(S4), ~NotTaken(S3, D_out.insn)
        PROVE  OnPath
    BY <1>4, <2>2, <2>4, LiveBefore DEF OnPath
  <2>5. InDecode'
    BY <1>2, <1>3, <2>1, <2>4, FlowFacts, OnPathFacts DEF InDecode, Flowing
  <2>6. Fetching'
    <3> SUFFICES ASSUME OnPath'
                 PROVE  current_PC' = S4'.pc /\ F_status' # "HLT"
      BY DEF Fetching
    <3>1. /\ Live(After(prog, S4, D_in.status)) /\ Live(S4)
          /\ D_in.insn.op # "RET" /\ ~NotTaken(S4, D_in.insn)
          /\ ~NotTaken(S3, D_out.insn)
      BY <1>2, <1>3, <2>1, <2>3, FlowFacts DEF OnPath, After
    <3>2. OnPath /\ DRight(prog, S4, D_in)
      BY <2>4, <3>1, OnPathFacts DEF Flowing
    <3>3. After(prog, S4, D_in.status) = StepOf(S4, D_in.insn)
      BY <3>1, <3>2, FlowFacts, AfterStep DEF DRight
    <3>4. Ends(S4, D_in.insn) = "AOK"
      BY <3>1, <3>3 DEF StepOf, Live
    <3>5. FetchStatus(D_in.insn) = "AOK" /\ D_in.insn.op # "HLT"
      BY <3>4 DEF Ends, FetchStatus
    <3>6. F_status # "HLT" /\ PC = Predicted(D_in.insn, S4.pc)
      BY <3>2, <3>5, OnPathFacts DEF Flowing
    <3>7. Predicted(D_in.insn, S4.pc) = Target(S4, D_in.insn)
      BY <3>1 DEF Predicted, Target, Taken, NotTaken
    <3>8. current_PC' = F_pred'
      BY <1>2, <1>8, <2>2, FlowFacts DEF current_PC
    <3> QED
      BY <2>1, <2>3, <3>3, <3>4, <3>6, <3>7, <3>8, FlowFacts DEF StepOf
  <2> QED
    BY <1>6, <1>9, <1>10, <2>2, <2>5, <2>6
<1> QED
  BY <1>11, <1>12, <1>13

LEMMA FollowsLatch ==
  Types /\ Control0 /\ HaltTail /\ Follows /\ HazardsCovered /\ Latch => Follows'
<1> SUFFICES ASSUME Types, Control0, HaltTail, Follows, HazardsCovered, Latch
             PROVE  Follows'
  OBVIOUS
<1>1. stage' \in {"wback", "stopped"}
  BY DEF Latch
<1>2. CASE stage' = "stopped"
  BY <1>2
  DEF Follows, Retiring, InMemory, InExecute, InDecode, Squashed, MemoryDone,
      ExecuteDone, DecodeDone, Fetching, FetchDone, File, Condition, Running,
      AfterMemory, AfterExecute, AfterDecode
<1>3. ASSUME Flowing PROVE Follows'
  <2>1. InExecute' /\ InDecode' /\ Squashed' /\ Fetching' /\ (Linking => Linking')
    BY <1>3, FlowExecError, FlowMispredict, FlowLoadUse, FlowDecode
  <2>2. ~Live(S2) => S3 = S2
    BY DEF S3, After
  <2>3. File'
    BY <2>1, <2>2, FlowFacts, <1>3 DEF File, Follows, Live
  <2> QED
    BY <1>3, <2>1, <2>3, FlowFacts, FlowOlder, NewCycle
<1>4. CASE stage' = "wback"
  <2>1. Advancing
    BY <1>4 DEF Advancing
  <2> QED
    BY <1>3, <2>1, LatchInFlight, LatchMemoryError DEF Flowing
<1> QED
  BY <1>1, <1>2, <1>4

(* At the start of a cycle the pipeline is where the program is.           *)
LEMMA FollowsStep ==
  /\ Types /\ Control0 /\ Stores /\ HaltTail /\ Follows /\ HazardsCovered
  /\ [Next]_vars
  => Follows'
<1> SUFFICES ASSUME Types, Control0, Stores, HaltTail, Follows, HazardsCovered,
                    [Next]_vars
             PROVE  Follows'
  OBVIOUS
<1>1. CASE UNCHANGED vars
  <2>1. /\ UNCHANGED <<prog, stage, PC, GPR, NZCV, F_pred, F_status, dmem_status,
                       D_in, D_out, X_in, X_out, M_in, M_out, W_in, W_out, arch>>
    BY <1>1 DEF vars
  <2>2. S1' = S1 /\ S2' = S2 /\ S3' = S3 /\ S4' = S4
    BY <2>1, StatesKept
  <2>3. current_PC' = current_PC /\ WValue(W_out)' = WValue(W_out)
    BY <2>1 DEF current_PC, WValue
  <2>4. Fetching' /\ FetchDone'
    BY <2>1, <2>2, <2>3 DEF Follows, Fetching, FetchDone, OnPath, Running
  <2>5. MemoryDone' /\ ExecuteDone' /\ DecodeDone'
    BY <2>1, <2>2 DEF Follows, MemoryDone, ExecuteDone, DecodeDone, AfterMemory,
       AfterExecute, AfterDecode, memFlight, UsesLoad
  <2> QED
    BY <2>1, <2>2, <2>3, <2>4, <2>5
    DEF Follows, Retiring, InMemory, InExecute, InDecode, Squashed, File,
        Condition, Running, AfterExecute, Linking
<1>2. CASE Next
  BY <1>2, FollowsWBack, FollowsMemory, FollowsExecute, FollowsDecode,
     FollowsFetch, FollowsLatch DEF Next
<1> QED
  BY <1>1, <1>2

-----------------------------------------------------------------------------
(* The pipeline implements the machine that runs one instruction at a time.*)

LEMMA SameWords ==
  /\ \A p, n : Architecture!At(p, n) = At(p, n)
  /\ \A op, a, b : Architecture!Alu(op, a, b) = Alu(op, a, b)
  /\ \A op, a, b, r, old : Architecture!FlagsAfter(op, a, b, r, old) = FlagsAfter(op, a, b, r, old)
  /\ \A c, f : Architecture!cond_holds(c, f) = cond_holds(c, f)
  /\ \A op, r : Architecture!ZeroReg(op, r) = ZeroReg(op, r)
  /\ \A v : Architecture!KeepHigh(v) = KeepHigh(v) /\ Architecture!Link(v) = Link(v)
  /\ \A i : Architecture!FetchStatus(i) = FetchStatus(i)
  /\ \A m, a, v : Architecture!Stored(m, a, v) = Stored(m, a, v)
  /\ \A m, a : Architecture!Loaded(m, a) = Loaded(m, a)
  /\ Architecture!MemoryOps = MemoryOps /\ Architecture!Values = Values
  /\ Architecture!XZR = XZR /\ Architecture!SP = SP /\ Architecture!LR = LR
<1>1. \A p, n : Architecture!At(p, n) = At(p, n)
  BY DEF Architecture!At, At
<1>2. \A op, a, b : Architecture!Alu(op, a, b) = Alu(op, a, b)
  BY DEF Architecture!Alu, Alu, Architecture!Sum, Sum, Architecture!Difference, Difference
<1>3. \A op, a, b, r, old : Architecture!FlagsAfter(op, a, b, r, old) = FlagsAfter(op, a, b, r, old)
  <2>1. \A op, a, b, r : Architecture!carry(op, a, b, r) = carry(op, a, b, r)
    BY DEF Architecture!carry, carry
  <2>2. \A op, a, b, r : Architecture!overflow(op, a, b, r) = overflow(op, a, b, r)
    BY DEF Architecture!overflow, overflow, Architecture!additionOverflow,
       additionOverflow, Architecture!subtractionOverflow, subtractionOverflow,
       Architecture!Signed, Signed
  <2>3. \A op, a, b, r : Architecture!FlagsOf(op, a, b, r) = FlagsOf(op, a, b, r)
    BY <2>1, <2>2 DEF Architecture!FlagsOf, FlagsOf
  <2> QED
    BY <2>3 DEF Architecture!FlagsAfter, FlagsAfter
<1>4. \A c, f : Architecture!cond_holds(c, f) = cond_holds(c, f)
  BY DEF Architecture!cond_holds, cond_holds
<1>5. \A op, r : Architecture!ZeroReg(op, r) = ZeroReg(op, r)
  BY DEF Architecture!ZeroReg, ZeroReg, Architecture!SP, SP, Architecture!XZR, XZR
<1>6. /\ \A v : Architecture!KeepHigh(v) = KeepHigh(v) /\ Architecture!Link(v) = Link(v)
      /\ \A i : Architecture!FetchStatus(i) = FetchStatus(i)
      /\ \A m, a, v : Architecture!Stored(m, a, v) = Stored(m, a, v)
      /\ \A m, a : Architecture!Loaded(m, a) = Loaded(m, a)
  BY DEF Architecture!KeepHigh, KeepHigh, Architecture!Link, Link,
     Architecture!FetchStatus, FetchStatus, Architecture!Stored, Stored,
     Architecture!Loaded, Loaded
<1>7. /\ Architecture!MemoryOps = MemoryOps /\ Architecture!Values = Values
      /\ Architecture!XZR = XZR /\ Architecture!SP = SP /\ Architecture!LR = LR
  BY DEF Architecture!MemoryOps, MemoryOps, Architecture!Values, Values,
     Architecture!XZR, XZR, Architecture!SP, SP, Architecture!LR, LR
<1> QED
  BY <1>1, <1>2, <1>3, <1>4, <1>5, <1>6, <1>7

LEMMA ModuloOnce ==
  ASSUME NEW w \in Nat, w > 0, NEW q \in {0, 1}, NEW r \in 0 .. w - 1
  PROVE  (w*q + r) % w = r
<1> DEFINE x == w*q + r
           d == x \div w
           m == x % w
<1>1. x \in Int /\ d \in Int /\ x = w*d + m /\ m \in 0 .. w - 1
  OBVIOUS
<1> HIDE DEF d, m
<1>2. w*(d - q) = r - m
  BY <1>1
<1> DEFINE e == d - q
<1>3. e \in Int /\ w*e \in Int /\ w*e < w /\ w*e > -w
  BY <1>1, <1>2
<1> HIDE DEF e
<1>4. ~(e >= 1)
  <2> SUFFICES ASSUME e >= 1 PROVE FALSE
    OBVIOUS
  <2>1. w*e >= w
    BY <1>3
  <2> QED
    BY <1>3, <2>1
<1>5. ~(e <= -1)
  <2> SUFFICES ASSUME e <= -1 PROVE FALSE
    OBVIOUS
  <2>1. w*e <= -w
    BY <1>3
  <2> QED
    BY <1>3, <2>1
<1>6. d = q
  BY <1>1, <1>3, <1>4, <1>5 DEF e
<1>7. m = r
  BY <1>1, <1>6
<1> QED
  BY <1>7 DEF m

(* The address of a load or a store, in both machines.                     *)
LEMMA SumIsModulo ==
  ASSUME NEW a \in Values, NEW b \in Values
  PROVE  (a + b) % (2*Half) = Sum(a, b)
<1> DEFINE w == 2*Half
<1>1. w \in Nat /\ w > 0 /\ a \in 0 .. w - 1 /\ b \in 0 .. w - 1
  BY FlagsAssumption DEF Values
<1>2. Sum(a, b) = IF a + b >= w THEN a + b - w ELSE a + b
  BY DEF Sum
<1> HIDE DEF w
<1>3. CASE a + b < w
  <2>1. a + b \in 0 .. w - 1 /\ a + b = w*0 + (a + b)
    BY <1>1, <1>3
  <2>2. (w*0 + (a + b)) % w = a + b
    BY <1>1, <2>1, ModuloOnce
  <2> QED
    BY <1>1, <1>2, <1>3, <2>1, <2>2 DEF w
<1>4. CASE a + b >= w
  <2>1. a + b - w \in 0 .. w - 1 /\ a + b = w*1 + (a + b - w)
    BY <1>1, <1>4
  <2>2. (w*1 + (a + b - w)) % w = a + b - w
    BY <1>1, <2>1, ModuloOnce
  <2> QED
    BY <1>1, <1>2, <1>4, <2>1, <2>2 DEF w
<1> QED
  BY <1>1, <1>3, <1>4

(* A retirement is a step of the program.                                  *)
LEMMA RetirementIsStep ==
  ASSUME Types, Live(arch), prog' = prog, W_out.status # "BUB",
         WRight(prog, arch, W_out), arch' = Retired(W_out)
  PROVE  Architecture!Next
<1> DEFINE i == At(prog, arch.pc)
           t == StepOf(arch, Here(prog, arch))
<1>1. arch' = t
  <2>1. After(prog, arch, W_out.status) = t
    BY DEF After
  <2> QED
    BY <2>1, RetiresStep
<1>2. i \in Instructions /\ arch.regs \in [Regs -> Values] /\ Architecture!Insn1 = i
  BY ProgramInsn, SameWords DEF Types, ArchState, Architecture!Insn1
<1>3. /\ i.op \in Opcodes /\ i.rd \in Regs /\ i.rn \in Regs /\ i.rm \in Regs
      /\ XZR \notin Regs /\ LR \in Regs /\ XZR = 32 /\ SP = 31
  <2>1. LR \in Regs /\ Regs \subseteq 0 .. 31
    BY InstrAssumption
  <2> QED
    BY <1>2, <2>1, InsnParts DEF XZR, LR, SP
<1>4. i.op = "LDUR" /\ arch.pc # 0 => Outcome(arch, i) # 0
  BY DEF WRight, Same, Here, FetchStatus, Results, MemoryOps
<1>5. ASSUME arch.pc # 0
      PROVE  /\ arch'.pc = IF Ends(arch, i) = "AOK" THEN Target(arch, i) ELSE arch.pc
             /\ arch'.nzcv = FlagsOut(arch, i)
             /\ arch'.status = Ends(arch, i)
             /\ w_enable(i) => arch'.regs = Updated(arch.regs, dst(i),
                                  IF i.op = "LDUR" THEN LoadedBy(arch, i) ELSE Outcome(arch, i))
             /\ ~w_enable(i) => arch'.regs = arch.regs
             /\ i.op # "STUR" => arch'.mem = arch.mem
             /\ i.op = "STUR" =>
                  arch'.mem = Stored(arch.mem, Outcome(arch, i), OperandB(arch, i))
  <2>1. arch' = StepOf(arch, i)
    BY <1>1, <1>5 DEF Here
  <2> HIDE DEF i
  <2> QED
    BY <2>1 DEF StepOf
<1> HIDE DEF i
<1>6. \A r : Architecture!Reg(r) = RegOf(arch, r)
  BY SameWords DEF Architecture!Reg, RegOf
<1>7. \A r, v : Architecture!SetReg(r, v) <=> arch'.regs = Updated(arch.regs, r, v)
  BY SameWords DEF Architecture!SetReg, Updated
<1>8. CASE arch.pc = 0
  <2>1. FetchStatus(Here(prog, arch)) = "HLT"
    BY <1>8 DEF Here, HLT, Insn, FetchStatus
  <2>2. t = [pc |-> arch.pc, regs |-> arch.regs, nzcv |-> arch.nzcv,
             mem |-> arch.mem, status |-> "HLT"]
    BY <2>1, StepOfHalt
  <2>3. Architecture!Stop
    BY <1>1, <1>8, <2>2 DEF Architecture!Stop
  <2> QED
    BY <2>3 DEF Architecture!Next, Live
<1>9. CASE arch.pc # 0 /\ i.op \in {"HLT", "ERROR"}
  <2>1. /\ Ends(arch, i) = FetchStatus(i) /\ FetchStatus(i) # "AOK"
        /\ FlagsOut(arch, i) = arch.nzcv /\ ~w_enable(i)
    BY <1>9, OnlyComparesSetFlags
    DEF Ends, MemoryOps, FetchStatus, FlagsOut, w_enable, RegWriters
  <2>2. Architecture!Stop
    BY <1>2, <1>5, <1>9, <2>1, SameWords DEF Architecture!Stop
  <2> QED
    BY <2>2 DEF Architecture!Next, Live
<1>10. ASSUME arch.pc # 0, i.op \notin {"HLT", "ERROR"}, Ends(arch, i) = FetchStatus(i)
       PROVE  Architecture!Goes(Target(arch, i))
  BY <1>2, <1>5, <1>10 DEF Architecture!Goes, FetchStatus, Live
<1>11. i.op \notin {"ADDS_RR", "CMP_RR"} => FlagsOut(arch, i) = arch.nzcv
  BY OnlyComparesSetFlags DEF FlagsOut
<1>12. CASE arch.pc # 0 /\ i.op \in {"ADD_RI", "ADDS_RR", "CMP_RR", "ORR_RR"}
  <2> DEFINE a == RegOf(arch, ZeroReg(i.op, i.rn))
             b == IF i.op = "ADD_RI" THEN i.imm ELSE RegOf(arch, ZeroReg(i.op, i.rm))
  <2>1. a = OperandA(arch, i) /\ b = Second(arch, i)
    BY <1>12 DEF OperandA, Second, OperandB, ForwardA, ForwardB, src1, src2,
       RegisterOps, MemoryOps, ZeroReg
  <2>2. Outcome(arch, i) = Alu(i.op, a, b)
    BY <1>12, <2>1 DEF Outcome
  <2>3. dst(i) = ZeroReg(i.op, i.rd) /\ (w_enable(i) <=> i.op # "CMP_RR")
    BY <1>12 DEF dst, RegisterOps, MemoryOps, ZeroReg, w_enable, RegWriters
  <2>4. Target(arch, i) = arch.pc + 1 /\ Ends(arch, i) = FetchStatus(i)
    BY <1>12 DEF Target, Taken, Ends, MemoryOps
  <2>5. FlagsOut(arch, i) = FlagsAfter(i.op, a, b, Alu(i.op, a, b), arch.nzcv)
    BY <2>1, <2>2 DEF FlagsOut
  <2> HIDE DEF a, b
  <2>6. /\ Architecture!Goes(arch.pc + 1) /\ arch'.mem = arch.mem
        /\ arch'.nzcv = FlagsAfter(i.op, a, b, Alu(i.op, a, b), arch.nzcv)
        /\ i.op = "CMP_RR" => arch'.regs = arch.regs
        /\ i.op # "CMP_RR" =>
             Architecture!SetReg(ZeroReg(i.op, i.rd), Alu(i.op, a, b))
    BY <1>5, <1>7, <1>10, <1>12, <2>2, <2>3, <2>4, <2>5 DEF MemoryOps
  <2>7. /\ a = Architecture!Reg(Architecture!ZeroReg(i.op, i.rn))
        /\ b = IF i.op = "ADD_RI" THEN i.imm
               ELSE Architecture!Reg(Architecture!ZeroReg(i.op, i.rm))
    BY <1>6, SameWords DEF a, b
  <2>8. Architecture!Compute
    BY <1>2, <1>12, <2>6, <2>7, SameWords DEF Architecture!Compute
  <2> QED
    BY <1>12, <2>8 DEF Architecture!Next, Live
<1>13. CASE arch.pc # 0 /\ i.op \in {"MOVZ", "MOVK"}
  <2> DEFINE v == i.imm + IF i.op = "MOVK" THEN KeepHigh(arch.regs[i.rd]) ELSE 0
  <2>1. Outcome(arch, i) = v
    <3>1. CASE i.op = "MOVZ"
      <4>1. Outcome(arch, i) = Or(0, i.imm)
        BY <3>1 DEF Outcome, OperandA, Second, Alu, RegisterOps
      <4>2. i.imm \in Values /\ i.imm \in Int
        BY <1>2, <3>1, InsnParts
      <4> QED
        BY <3>1, <4>1, <4>2, InstrAssumption
    <3>2. CASE i.op = "MOVK"
      <4>1. OperandA(arch, i) = KeepHigh(arch.regs[i.rd])
        BY <1>3, <3>2 DEF OperandA, ForwardA, dst, RegOf, RegisterOps, MemoryOps
      <4>2. Outcome(arch, i) = Or(KeepHigh(arch.regs[i.rd]), i.imm)
        BY <3>2, <4>1 DEF Outcome, Second, Alu, RegisterOps
      <4>3. i.imm \in 0 .. Low - 1 /\ arch.regs[i.rd] \in Values
        BY <1>2, <1>3, <3>2, InsnParts
      <4>4. KeepHigh(arch.regs[i.rd]) \in Values
        BY <4>3, KeepHighIsWord
      <4>5. Or(KeepHigh(arch.regs[i.rd]), i.imm) = KeepHigh(arch.regs[i.rd]) + i.imm
        BY <4>3, InstrAssumption
      <4>6. KeepHigh(arch.regs[i.rd]) \in Int /\ i.imm \in Int
        BY <1>2, <4>4, InsnParts, FlagsAssumption DEF Values
      <4>7. v = i.imm + KeepHigh(arch.regs[i.rd])
        BY <3>2
      <4> HIDE DEF v
      <4> QED
        BY <4>2, <4>5, <4>6, <4>7
    <3> QED
      BY <1>13, <3>1, <3>2
  <2>2. dst(i) = i.rd /\ w_enable(i)
    BY <1>13 DEF dst, RegisterOps, MemoryOps, w_enable, RegWriters
  <2>3. Target(arch, i) = arch.pc + 1 /\ Ends(arch, i) = FetchStatus(i)
    BY <1>13 DEF Target, Taken, Ends, MemoryOps
  <2> HIDE DEF v
  <2>4. /\ Architecture!Goes(arch.pc + 1) /\ arch'.mem = arch.mem
        /\ arch'.nzcv = arch.nzcv /\ Architecture!SetReg(i.rd, v)
    BY <1>5, <1>7, <1>10, <1>11, <1>13, <2>1, <2>2, <2>3 DEF MemoryOps
  <2>5. v = i.imm + IF i.op = "MOVK" THEN Architecture!KeepHigh(arch.regs[i.rd]) ELSE 0
    BY SameWords DEF v
  <2>6. Architecture!Move
    BY <1>2, <1>13, <2>4, <2>5 DEF Architecture!Move
  <2> QED
    BY <1>13, <2>6 DEF Architecture!Next, Live
<1>14. CASE arch.pc # 0 /\ i.op \in MemoryOps
  <2> DEFINE ea == Outcome(arch, i)
             tr == IF i.rd = SP THEN XZR ELSE i.rd
  <2>1. RegOf(arch, i.rn) \in Values /\ i.imm \in Values /\ 0 \in Values
    BY <1>2, <1>3, <1>14, InsnParts, FlagsAssumption DEF RegOf, MemoryOps, Values
  <2>2. ea = Sum(RegOf(arch, i.rn), i.imm)
    BY <1>14 DEF Outcome, OperandA, Second, Alu, ForwardA, src1, RegisterOps, MemoryOps
  <2>3. Architecture!EffectiveAddr = ea
    BY <1>2, <1>6, <2>1, <2>2, SumIsModulo DEF Architecture!EffectiveAddr
  <2>4. Architecture!TransferReg = tr /\ dst(i) = tr
    BY <1>2, <1>14, SameWords DEF Architecture!TransferReg, dst, RegisterOps, MemoryOps
  <2>5. OperandB(arch, i) = RegOf(arch, tr)
    BY <1>14, <2>4 DEF OperandB, ForwardB
  <2>6. Target(arch, i) = arch.pc + 1 /\ (w_enable(i) <=> i.op = "LDUR")
    BY <1>14 DEF Target, Taken, w_enable, RegWriters, MemoryOps
  <2>7. Ends(arch, i) = IF ea \in DataAddrs \cup {0} THEN FetchStatus(i) ELSE "ADR"
    BY <1>14 DEF Ends, BadAddr
  <2> HIDE DEF ea, tr
  <2>8. /\ ea \in DataAddrs \cup {0} => Architecture!Goes(arch.pc + 1)
        /\ ea \notin DataAddrs \cup {0} => arch'.pc = arch.pc /\ arch'.status = "ADR"
        /\ arch'.nzcv = arch.nzcv
    BY <1>5, <1>10, <1>11, <1>14, <2>6, <2>7 DEF MemoryOps
  <2>9. CASE i.op = "LDUR"
    <3>1. arch'.mem = arch.mem /\ Architecture!SetReg(tr, Loaded(arch.mem, ea))
      BY <1>5, <1>7, <1>14, <2>4, <2>6, <2>9 DEF LoadedBy, ea
    <3>3. ea # 0
      BY <1>4, <1>14, <2>9 DEF ea
    <3>4. CASE ea \in DataAddrs
      <4>1. Architecture!Load
        BY <1>2, <2>3, <2>4, <2>8, <2>9, <3>1, <3>4, SameWords DEF Architecture!Load
      <4> QED
        BY <1>14, <4>1 DEF Architecture!Next, Live
    <3>5. CASE ea \notin DataAddrs
      <4>2. Architecture!BadAddress
        BY <1>2, <1>14, <2>3, <2>4, <2>8, <2>9, <3>1, <3>3, <3>5, SameWords
        DEF Architecture!BadAddress
      <4> QED
        BY <1>14, <4>2 DEF Architecture!Next, Live
    <3> QED
      BY <3>4, <3>5
  <2>10. CASE i.op = "STUR"
    <3>1. arch'.regs = arch.regs /\ arch'.mem = Stored(arch.mem, ea, RegOf(arch, tr))
      BY <1>5, <1>14, <2>5, <2>6, <2>10 DEF ea
    <3>3. CASE ea \in DataAddrs \cup {0}
      <4>1. Architecture!Store
        BY <1>2, <1>6, <2>3, <2>4, <2>8, <2>10, <3>1, <3>3, SameWords
        DEF Architecture!Store
      <4> QED
        BY <1>14, <4>1 DEF Architecture!Next, Live
    <3>4. CASE ea \notin DataAddrs \cup {0}
      <4>1. Architecture!BadAddress
        BY <1>2, <1>6, <1>14, <2>3, <2>4, <2>8, <2>10, <3>1, <3>4, SameWords
        DEF Architecture!BadAddress
      <4> QED
        BY <1>14, <4>1 DEF Architecture!Next, Live
    <3> QED
      BY <3>3, <3>4
  <2> QED
    BY <1>14, <2>9, <2>10 DEF MemoryOps
<1>15. CASE arch.pc # 0 /\ i.op \in {"B", "BL", "B_COND", "RET", "NOP"}
  <2>1. /\ i.op \in {"B", "BL"} => Target(arch, i) = arch.pc + i.imm
        /\ i.op = "B_COND" => Target(arch, i) = IF cond_holds(i.cond, arch.nzcv)
                                                  THEN arch.pc + i.imm ELSE arch.pc + 1
        /\ i.op = "RET" => Target(arch, i) = arch.regs[i.rn]
        /\ i.op = "NOP" => Target(arch, i) = arch.pc + 1
    BY <1>3, <1>15 DEF Target, Taken, OperandA, ForwardA, RegOf
  <2>2. /\ i.op = "BL" => Architecture!SetReg(LR, Link(arch.pc + 1))
        /\ i.op # "BL" => arch'.regs = arch.regs
    BY <1>5, <1>7, <1>15 DEF w_enable, RegWriters, dst, RegisterOps, MemoryOps, Outcome
  <2>3. /\ Architecture!Goes(Target(arch, i)) /\ arch'.mem = arch.mem
        /\ arch'.nzcv = arch.nzcv
    BY <1>5, <1>10, <1>11, <1>15 DEF Ends, MemoryOps
  <2>4. Architecture!Jump
    BY <1>2, <1>15, <2>1, <2>2, <2>3, SameWords DEF Architecture!Jump
  <2> QED
    BY <1>15, <2>4 DEF Architecture!Next, Live
<1> QED
  BY <1>3, <1>8, <1>9, <1>12, <1>13, <1>14, <1>15 DEF Opcodes, MemoryOps

InOrder == Types /\ Control0 /\ Stores /\ HaltTail /\ Follows

LEMMA InOrderInit == Init => InOrder
BY TypesInit, Control0Init, StoresInit, TailInit, FollowsInit DEF InOrder

LEMMA InOrderStep == InOrder /\ HazardsCovered /\ [Next]_vars => InOrder'
BY TypesStep, Control0Step, StoresStep, TailStep, FollowsStep DEF InOrder

LEMMA PipelineInOrder == Spec /\ []HazardsCovered => []InOrder
BY InOrderInit, InOrderStep, PTL DEF Spec

LEMMA StepIsProgramStep ==
  InOrder /\ [Next]_vars => [Architecture!Next]_(Architecture!vars)
<1> SUFFICES ASSUME InOrder, [Next]_vars
             PROVE  Architecture!Next \/ UNCHANGED Architecture!vars
  OBVIOUS
<1>1. CASE UNCHANGED <<prog, arch>>
  BY <1>1 DEF Architecture!vars
<1>2. CASE WBack
  <2>1. stage = "wback" /\ arch' = Retired(W_out) /\ prog' = prog
    BY <1>2 DEF WBack
  <2>2. CASE W_out.status = "BUB"
    BY <2>1, <2>2 DEF Retired, Architecture!vars
  <2>3. CASE W_out.status # "BUB"
    <3>1. Live(arch) /\ WRight(prog, arch, W_out)
      BY <2>1, <2>3 DEF InOrder, Follows, Retiring
    <3> QED
      BY <2>1, <2>3, <3>1, RetirementIsStep DEF InOrder
  <2> QED
    BY <2>2, <2>3
<1>3. CASE ~WBack
  <2>1. UNCHANGED <<prog, arch>>
    BY <1>3 DEF Next, vars, Memory, MemoryNoAccess, MemoryAnswer, MemoryInFlight,
       MemoryExit, Execute, Decode, FetchHalt, FetchInsn, Latch
  <2> QED
    BY <2>1 DEF Architecture!vars
<1> QED
  BY <1>2, <1>3

(* A run that keeps to what the hazard unit covers is one of the machine   *)
(* that runs one instruction at a time.                                    *)
LEMMA CoveredRunIsISA == Spec /\ []HazardsCovered => ImplementsISA
<1>1. Init => Architecture!Init
  BY DEF Init, Architecture!Init
<1> QED
  BY <1>1, PipelineInOrder, StepIsProgramStep, PTL
  DEF Spec, ImplementsISA, Architecture!Spec

-----------------------------------------------------------------------------
(* How the run ends.                                                       *)

(* When the HLT has retired there is nothing left behind it.               *)
LEMMA HaltDrains ==
  ASSUME InOrder, Running, stage # "wback", arch.status = "HLT"
  PROVE  /\ M_out.insn.op \notin MemoryOps
         /\ stage = "latch" => GPR = arch.regs /\ NZCV = arch.nzcv
<1>1. Halts(W_out)
  BY DEF InOrder, Follows, Retiring, Live, Halts
<1>2. Quiet(M_out) /\ Quiet(X_out) /\ Quiet(D_out)
  BY <1>1 DEF InOrder, HaltTail
<1>3. \A rec \in {M_out, X_out, D_out} : rec.insn.op \in {"NOP", "HLT"}
  BY <1>2 DEF Quiet, InOrder, Control0, Marks, Marked, FetchStatus
<1>4. ~Linking
  BY <1>3 DEF Linking
<1>5. S2 = arch /\ S3 = arch
  BY DEF S1, S2, S3, After, Live
<1>6. \A r \in Regs : GPR[r] = arch.regs[r]
  BY <1>4, <1>5 DEF InOrder, Follows, File
<1>7. GPR = arch.regs
  BY <1>6 DEF InOrder, Types, ArchState
<1>8. stage = "latch" => NZCV = arch.nzcv
  BY <1>5 DEF InOrder, Follows, Condition, AfterExecute
<1> QED
  BY <1>3, <1>7, <1>8 DEF MemoryOps

Drained ==
  stage = "stopped" /\ arch.status = "HLT" =>
    GPR = arch.regs /\ NZCV = arch.nzcv /\ status # "EXIT"

LEMMA DrainedStep == InOrder /\ Drained /\ [Next]_vars => Drained'
<1> SUFFICES ASSUME InOrder, Drained, [Next]_vars, stage' = "stopped", arch'.status = "HLT"
             PROVE  GPR' = arch'.regs /\ NZCV' = arch'.nzcv /\ status' # "EXIT"
  BY DEF Drained
<1>1. CASE UNCHANGED vars
  BY <1>1 DEF vars, Drained
<1>2. CASE MemoryExit
  BY <1>2, HaltDrains DEF MemoryExit, Running, MemoryOps
<1>3. CASE Latch
  <2>1. stage = "latch" /\ arch' = arch /\ GPR' = GPR /\ NZCV' = NZCV /\ Running
    BY <1>3 DEF Latch, Running
  <2>2. status' \in {"HLT", W_out.status}
    BY <1>3 DEF Latch, CycleStatus
  <2>3. W_out.status # "EXIT"
    BY DEF InOrder, Types, WRegister
  <2> QED
    BY <2>1, <2>2, <2>3, HaltDrains
<1>4. CASE WBack \/ MemoryNoAccess \/ MemoryAnswer \/ MemoryInFlight \/ Execute
           \/ Decode \/ FetchHalt \/ FetchInsn
  BY <1>4 DEF WBack, MemoryNoAccess, MemoryAnswer, MemoryInFlight, Execute, Decode,
     FetchHalt, FetchInsn
<1> QED
  BY <1>1, <1>2, <1>3, <1>4 DEF Next, Memory

LEMMA CoveredRunHalts ==
  Spec /\ []HazardsCovered => []HaltedStateIsRetired
<1>1. Init => Drained
  BY DEF Init, Drained
<1>2. Drained /\ InOrder => HaltedStateIsRetired
  BY DEF Drained, HaltedStateIsRetired, InOrder, Stores, StoresRetire
<1> QED
  BY <1>1, <1>2, DrainedStep, PipelineInOrder, PTL DEF Spec


(* An instruction stops the run only when it is the program's: an error    *)
(* that has retired, or the load from the null address that is next.  It   *)
(* is EndsWithProgram that steps keep, as long as execute is not asked to  *)
(* bubble and to stall at once.                                            *)
ExecuteClear == stage = "latch" => X_ctl # "ERROR"

LEMMA OnlyExecuteClashes ==
  ASSUME "ERROR" \in {F_ctl, D_ctl, X_ctl, M_ctl, W_ctl}
  PROVE  X_ctl = "ERROR" \/ wbError
<1>1. ~(loadUse /\ retBubble) /\ ~(loadUse /\ mispredict)
  BY DEF loadUse, retBubble, mispredict, LoadUsers
<1>2. F_ctl # "ERROR" /\ M_ctl # "ERROR" /\ D_ctl # "ERROR"
  BY <1>1 DEF F_ctl, M_ctl, D_ctl, Control
<1>3. W_ctl = "ERROR" => wbError
  BY DEF W_ctl, Control
<1> QED
  BY <1>2, <1>3

LEMMA EndedStep ==
  InOrder /\ EndsWithProgram /\ ExecuteClear /\ [Next]_vars => EndsWithProgram'
<1> SUFFICES ASSUME InOrder, EndsWithProgram, ExecuteClear, [Next]_vars, stage' = "stopped"
             PROVE  \/ arch'.status # "AOK"
                    \/ status' = "EXIT" /\ At(prog', arch'.pc).op = "LDUR"
  BY DEF EndsWithProgram
<1>1. CASE UNCHANGED vars
  BY <1>1 DEF vars, EndsWithProgram
<1>2. CASE MemoryExit
  <2>1. /\ stage = "memory" /\ M_out.insn.op = "LDUR" /\ status' = "EXIT"
        /\ arch' = arch /\ prog' = prog
    BY <1>2 DEF MemoryExit
  <2>2. M_out.status # "BUB"
    BY <2>1 DEF InOrder, Control0, Marks, Marked
  <2>3. ASSUME Live(arch) PROVE Here(prog, arch) = M_out.insn
    BY <2>1, <2>2, <2>3
    DEF InOrder, Follows, InMemory, Running, S1, MRight, DRight, Same, FetchStatus
  <2>4. Live(arch) => At(prog, arch.pc).op = "LDUR"
    BY <2>1, <2>3 DEF Here, HLT, Insn
  <2> QED
    BY <2>1, <2>4 DEF Live
<1>3. CASE Latch
  <2>1. stage = "latch" /\ arch' = arch /\ X_ctl # "ERROR"
    BY <1>3 DEF Latch, ExecuteClear
  <2>2. W_out.status \notin {"AOK", "BUB"}
    BY <1>3, <2>1, OnlyExecuteClashes DEF Latch, CycleStatus, wbError, error
  <2>3. arch.status = W_out.status
    BY <2>1, <2>2 DEF InOrder, Follows, Retiring, Running
  <2> QED
    BY <2>1, <2>2, <2>3
<1>4. CASE WBack \/ MemoryNoAccess \/ MemoryAnswer \/ MemoryInFlight \/ Execute
           \/ Decode \/ FetchHalt \/ FetchInsn
  BY <1>4 DEF WBack, MemoryNoAccess, MemoryAnswer, MemoryInFlight, Execute, Decode,
     FetchHalt, FetchInsn
<1> QED
  BY <1>1, <1>2, <1>3, <1>4 DEF Next, Memory

(* It never is while no access is in flight, for any program: the clash    *)
(* that run pipe_bubble_and_stall shows takes a slow memory.               *)
LEMMA ClashNeedsFlight ==
  ASSUME ~memFlight
  PROVE  ExecuteClear
BY DEF ExecuteClear, X_ctl, Control

(* With a memory that answers at once nothing is ever in flight.           *)
LEMMA AnswersAtOnce ==
  ASSUME MaxWait = 0
  PROVE  Spec => [](Types /\ ~memFlight)
<1>1. Init => ~memFlight
  BY DEF Init, memFlight
<1>2. Types /\ ~memFlight /\ [Next]_vars => ~memFlight'
  <2> SUFFICES ASSUME Types, ~memFlight, [Next]_vars PROVE ~memFlight'
    OBVIOUS
  <2>1. ~MemoryInFlight
    BY DEF MemoryInFlight, Types
  <2>2. dmem_status' \in {dmem_status, "READY"}
    BY <2>1 DEF Next, vars, WBack, Memory, MemoryNoAccess, MemoryAnswer, MemoryExit,
       Execute, Decode, FetchHalt, FetchInsn, Latch
  <2> QED
    BY <2>2 DEF memFlight
<1> QED
  BY <1>1, <1>2, PipelineTypes, PTL DEF Spec

LEMMA CoveredRunStops ==
  Spec /\ []HazardsCovered /\ []ExecuteClear => []EndsWithProgram
<1>1. Init => EndsWithProgram
  BY DEF Init, EndsWithProgram
<1> QED
  BY <1>1, EndedStep, PipelineInOrder, PTL DEF Spec

-----------------------------------------------------------------------------
(* The text.  A HazardFree program is covered in every run: what is in D,  *)
(* X and M are neighbours of a path, whether or not the program takes it.  *)

Reads(i, pc) ==
  \/ i = Fetched(prog, pc)
  \/ FetchStatus(i) = "HLT" /\ FetchStatus(Fetched(prog, pc)) = "HLT"

(* The registers hold what fetch finds at their addresses.                 *)
InText ==
  /\ D_out.status # "BUB" => Reads(D_out.insn, D_out.pc)
  /\ X_out.status # "BUB" => Reads(X_out.insn, X_out.pc)
  /\ M_out.status # "BUB" => Reads(M_out.insn, M_out.pc)
  /\ W_out.status # "BUB" => Reads(W_out.insn, W_out.pc)

PassedOn ==
  /\ AfterMemory => W_in.pc = M_out.pc
  /\ AfterExecute => M_in.pc = X_out.pc
  /\ AfterDecode => X_in.pc = D_out.pc

(* An instruction has the one before it on its path in front of it.        *)
Ordered ==
  /\ X_out.status = "AOK" /\ D_out.status # "BUB" =>
       D_out.pc = Predicted(X_out.insn, X_out.pc)
  /\ M_out.status = "AOK" /\ X_out.status = "AOK" =>
       X_out.pc = Predicted(M_out.insn, M_out.pc)

(* Behind what turns fetch aside there are bubbles, and they are nowhere   *)
(* else but in front of fetch.                                             *)
Turned ==
  /\ X_out.insn.op = "RET" /\ X_out.status = "AOK" => D_out.status = "BUB"
  /\ M_out.insn.op = "B_COND" /\ M_out.status = "AOK" /\ ~M_out.cond_holds =>
       X_out.status = "BUB" /\ D_out.status = "BUB"
  /\ D_out.status = "BUB" => X_out.status = "BUB" \/ X_out.insn.op = "RET"

(* An error of fetch stays in the stages it has been through.              *)
Copied ==
  /\ W_out.status # "BUB" /\ FetchStatus(W_out.insn) # "AOK" => error(M_out.status)
  /\ error(M_out.status) => error(X_out.status)
  /\ error(X_out.status) => error(D_out.status)

(* Until there is an error fetch goes on behind D.                         *)
GoesOn ==
  ~error(D_out.status) =>
    /\ D_out.status # "BUB" => F_pred = Predicted(D_out.insn, D_out.pc)
    /\ F_status = "HLT" => FetchStatus(Fetched(prog, current_PC)) = "HLT"
    /\ stage = "latch" =>
         /\ D_in.pc = current_PC /\ Reads(D_in.insn, current_PC)
         /\ D_in.insn.op # "HLT" => PC = Predicted(D_in.insn, current_PC)

Paths == Running => InText /\ PassedOn /\ Ordered /\ Turned /\ Copied /\ GoesOn

LEMMA PathsInit == Init => Paths
BY DEF Init, Paths, InText, PassedOn, Ordered, Turned, Copied, GoesOn, DBubble, XBubble,
       MBubble, WBubble, NOP, Insn, AfterMemory, AfterExecute, AfterDecode, error

(* Behind an instruction in decode nothing turns fetch aside.              *)
LEMMA FetchBehind ==
  ASSUME Types, Control0, Turned, Copied, D_out.status # "BUB", ~error(D_out.status)
  PROVE  current_PC = F_pred
<1>1. ~error(X_out.status) /\ ~error(M_out.status)
  BY DEF Copied
<1>2. X_out.insn.op = "RET" => X_out.status = "AOK"
  BY <1>1 DEF error, Control0, Marks, Marked
<1>3. M_out.insn.op = "B_COND" => M_out.status = "AOK"
  BY <1>1 DEF error, Control0, Marks, Marked
<1> QED
  BY <1>2, <1>3 DEF current_PC, Turned

(* What has an address in the text and no error is one of its              *)
(* instructions.                                                           *)
LEMMA ReadsFetched ==
  ASSUME NEW i, NEW pc, Reads(i, pc), FetchStatus(i) # "HLT"
  PROVE  i = Fetched(prog, pc)
BY DEF Reads

LEMMA ReadsText ==
  ASSUME Types, NEW i, NEW pc \in Int, Reads(i, pc), FetchStatus(i) = "AOK"
  PROVE  pc \in DOMAIN prog /\ i = prog[pc] /\ i = Fetched(prog, pc)
<1>1. i = Fetched(prog, pc)
  BY ReadsFetched
<1>2. FetchStatus(HLT) = "HLT"
  BY DEF FetchStatus, HLT, Insn
<1>3. pc # 0 /\ i = At(prog, pc)
  BY <1>1, <1>2 DEF Fetched
<1>4. pc \in DOMAIN prog
  BY <1>3, ProgramInsn DEF FetchStatus
<1> QED
  BY <1>1, <1>3, <1>4 DEF At

(* The load-use check sees every use but those of MissedLoadUse.           *)
LEMMA CheckSeesUse ==
  ASSUME NEW i \in Instructions, NEW j \in Instructions,
         i.op = "LDUR", dst(i) # XZR, dst(i) \in Operands(j), ~MissedLoadUse(i, j)
  PROVE  j.op \in LoadUsers /\ dst(i) \in {D_src1(j), D_src2(j)}
<1>1. dst(i) = i.rd /\ i.rd # SP
  BY DEF dst, MemoryOps, RegisterOps
<1>2. CASE j.op \in RegisterOps
  BY <1>1, <1>2 DEF Operands, src1, src2, ZeroReg, D_src1, D_src2, LoadUsers, RegisterOps,
     MemoryOps, SP, XZR
<1>3. CASE j.op = "ADD_RI"
  BY <1>1, <1>3 DEF Operands, D_src1, LoadUsers, RegisterOps
<1>4. CASE j.op \in {"LDUR", "RET"}
  BY <1>1, <1>4 DEF Operands, MissedLoadUse, RegisterOps
<1>5. CASE j.op = "STUR"
  <2>1. dst(j) = IF j.rd = SP THEN XZR ELSE j.rd
    BY <1>5 DEF dst, MemoryOps, RegisterOps
  <2> QED
    BY <1>1, <1>5, <2>1 DEF Operands, D_src1, D_src2, LoadUsers, RegisterOps
<1>6. CASE j.op = "MOVK"
  BY <1>1, <1>6 DEF Operands, MissedLoadUse, RegisterOps
<1>7. CASE j.op \in {"NOP", "MOVZ", "B", "B_COND", "BL", "HLT", "ERROR"}
  BY <1>7 DEF Operands, RegisterOps
<1> QED
  BY <1>2, <1>3, <1>4, <1>5, <1>6, <1>7, InsnParts DEF Opcodes, RegisterOps

LEMMA SeesLoadUse ==
  ASSUME Types, Control0, Running, Paths, HazardFree(prog)
  PROVE  LoadUseSeen
<1> SUFFICES ASSUME stage = "latch", X_out.insn.op = "LDUR", ~error(X_out.status),
                    dst(X_out.insn) \in Operands(D_out.insn)
             PROVE  loadUse
  BY DEF LoadUseSeen
<1>1. X_out.status = "AOK" /\ FetchStatus(X_out.insn) = "AOK"
  BY DEF error, Control0, Marks, Marked
<1>2. D_out.insn.op \notin {"NOP", "HLT", "ERROR"} /\ FetchStatus(D_out.insn) # "HLT"
  BY DEF Operands, RegisterOps, FetchStatus
<1>3. D_out.status # "BUB"
  BY <1>2 DEF Control0, Marks, Marked
<1> DEFINE k == X_out.pc
<1>4. k \in DOMAIN prog /\ X_out.insn = prog[k]
  BY <1>1, ReadsText DEF Paths, InText, Types, XRegister
<1>5. D_out.insn = Fetched(prog, D_out.pc)
  BY <1>2, <1>3, ReadsFetched DEF Paths, InText
<1>6. D_out.pc = k + 1
  BY <1>1, <1>3 DEF Paths, Ordered, Predicted
<1>7. ~MissedLoadUse(X_out.insn, D_out.insn) /\ dst(X_out.insn) # XZR
  BY <1>4, <1>5, <1>6 DEF HazardFree, w_enable, RegWriters
<1>8. X_out.insn \in Instructions /\ D_out.insn \in Instructions
  BY DEF Types, DRegister, XRegister
<1> QED
  BY <1>7, <1>8, CheckSeesUse DEF loadUse

LEMMA WrongPathsAreQuiet ==
  ASSUME Types, Control0, Running, Paths, HazardFree(prog)
  PROVE  WrongPathQuiet
<1> SUFFICES ASSUME stage = "latch" PROVE WrongPathQuiet
  BY DEF WrongPathQuiet
<1>1. ASSUME mispredict, ~error(X_out.status)
      PROVE  ~error(D_out.status) /\ D_out.insn.op # "BL" /\ F_status # "HLT"
  <2>1. X_out.insn.op = "B_COND" /\ X_out.status = "AOK" /\ FetchStatus(X_out.insn) = "AOK"
    BY <1>1 DEF mispredict, error, Control0, Marks, Marked
  <2>2. D_out.status # "BUB"
    BY <2>1 DEF Paths, Turned
  <2> DEFINE k == X_out.pc
             w == Wrong1(prog, k)
  <2>3. k \in DOMAIN prog /\ X_out.insn = prog[k]
    BY <2>1, ReadsText DEF Paths, InText, Types, XRegister
  <2>4. D_out.pc = w
    BY <2>1, <2>2, <2>3 DEF Paths, Ordered, Predicted, Wrong1
  <2>5. /\ FetchStatus(Fetched(prog, w)) = "AOK" /\ Fetched(prog, w).op # "BL"
        /\ FetchStatus(Fetched(prog, Wrong2(prog, k))) # "HLT"
    BY <2>1, <2>3 DEF HazardFree
  <2>6. D_out.insn = Fetched(prog, w)
    BY <2>2, <2>4, <2>5 DEF Paths, InText, Reads
  <2>7. ~error(D_out.status)
    BY <2>2, <2>5, <2>6 DEF error, Control0, Marks, Marked
  <2>8. current_PC = Wrong2(prog, k)
    BY <2>2, <2>4, <2>6, <2>7, FetchBehind DEF Paths, GoesOn, Wrong2
  <2> QED
    BY <2>5, <2>6, <2>7, <2>8 DEF Paths, GoesOn
<1>2. ASSUME retBubble, ~error(D_out.status)
      PROVE  F_status # "HLT"
  <2>1. D_out.insn.op = "RET" /\ D_out.status = "AOK" /\ FetchStatus(D_out.insn) = "AOK"
    BY <1>2 DEF retBubble, error, Control0, Marks, Marked
  <2> DEFINE k == D_out.pc
  <2>2. k \in DOMAIN prog /\ D_out.insn = prog[k]
    BY <2>1, ReadsText DEF Paths, InText, Types, DRegister
  <2>3. current_PC = k + 1
    BY <1>2, <2>1, FetchBehind DEF Paths, GoesOn, Predicted
  <2>4. FetchStatus(Fetched(prog, k + 1)) # "HLT"
    BY <2>1, <2>2 DEF HazardFree
  <2> QED
    BY <1>2, <2>3, <2>4 DEF Paths, GoesOn
<1> QED
  BY <1>1, <1>2 DEF WrongPathQuiet

LEMMA ZeroIsNotWritten ==
  ASSUME Types, Control0, Running, Paths, HazardFree(prog)
  PROVE  ZeroReadsZero
<1>1. ASSUME NEW i, NEW pc \in Int, Reads(i, pc), FetchStatus(i) = "AOK"
      PROVE  ~(w_enable(i) /\ dst(i) = XZR)
  BY <1>1, ReadsText DEF HazardFree
<1>2. ASSUME NEW i, i.op = "NOP"
      PROVE  ~w_enable(i)
  BY <1>2 DEF w_enable, RegWriters
<1> SUFFICES ASSUME ~error(X_out.status)
             PROVE  \A i \in {X_out.insn, M_out.insn, W_out.insn} :
                      ~(w_enable(i) /\ dst(i) = XZR)
  BY DEF ZeroReadsZero
<1>3. /\ ~error(M_out.status) /\ X_out.pc \in Int /\ M_out.pc \in Int /\ W_out.pc \in Int
      /\ W_out.status # "BUB" => FetchStatus(W_out.insn) = "AOK"
  BY DEF Paths, Copied, Types, XRegister, MRegister, WRegister
<1>4. ~(w_enable(X_out.insn) /\ dst(X_out.insn) = XZR)
  BY <1>1, <1>2, <1>3 DEF Paths, InText, error, Control0, Marks, Marked
<1>5. ~(w_enable(M_out.insn) /\ dst(M_out.insn) = XZR)
  BY <1>1, <1>2, <1>3 DEF Paths, InText, error, Control0, Marks, Marked
<1>6. ~(w_enable(W_out.insn) /\ dst(W_out.insn) = XZR)
  BY <1>1, <1>2, <1>3 DEF Paths, InText, Control0, Marks, WMarked, Marked
<1> QED
  BY <1>4, <1>5, <1>6

LEMMA TextIsCovered ==
  Types /\ Control0 /\ Paths /\ HazardFree(prog) => HazardsCovered
<1>1. stage = "stopped" => HazardsCovered
  BY DEF HazardsCovered, LoadUseSeen, WrongPathQuiet, ZeroReadsZero
<1> QED
  BY <1>1, SeesLoadUse, WrongPathsAreQuiet, ZeroIsNotWritten DEF HazardsCovered, Running

(* Within a cycle a stage hands on the address with the instruction.       *)
LEMMA PathsStage ==
  Paths /\ (WBack \/ Memory \/ Execute \/ Decode) => Paths'
<1> SUFFICES ASSUME Paths, WBack \/ Memory \/ Execute \/ Decode, Running' PROVE Paths'
  BY DEF Paths
<1>1. /\ Running /\ stage' # "latch"
      /\ UNCHANGED <<prog, F_pred, F_status, D_out, X_out, M_out, W_out>>
  BY DEF WBack, Memory, MemoryNoAccess, MemoryAnswer, MemoryInFlight, MemoryExit, Execute,
     Decode, regVars, Running
<1>2. current_PC' = current_PC
  BY <1>1 DEF current_PC
<1>3. InText'
  BY <1>1 DEF Paths, InText, Reads
<1>4. Ordered' /\ Turned' /\ Copied'
  BY <1>1 DEF Paths, Ordered, Turned, Copied, error
<1>5. GoesOn'
  BY <1>1, <1>2 DEF Paths, GoesOn, error
<1>6. PassedOn'
  <2>1. CASE WBack
    BY <1>1, <2>1 DEF WBack, regVars, Paths, PassedOn, AfterMemory, AfterExecute, AfterDecode
  <2>2. CASE Memory
    <3>1. stage' = "execute"
      BY <1>1, <2>2 DEF Memory, MemoryNoAccess, MemoryAnswer, MemoryInFlight, MemoryExit,
         Running
    <3>2. \E value, err : MemoryResult(value, err)
      BY <2>2, <3>1 DEF Memory, MemoryNoAccess, MemoryAnswer, MemoryInFlight, MemoryExit
    <3>3. W_in'.pc = M_out.pc
      BY <3>2 DEF MemoryResult
    <3> QED
      BY <1>1, <3>1, <3>3 DEF PassedOn, AfterMemory, AfterExecute, AfterDecode
  <2>3. CASE Execute
    BY <1>1, <2>3 DEF Execute, Paths, PassedOn, AfterMemory, AfterExecute, AfterDecode
  <2>4. CASE Decode
    BY <1>1, <2>4 DEF Decode, Paths, PassedOn, AfterMemory, AfterExecute, AfterDecode
  <2> QED
    BY <2>1, <2>2, <2>3, <2>4
<1> QED
  BY <1>3, <1>4, <1>5, <1>6 DEF Paths

LEMMA PathsFetch ==
  Types /\ Paths /\ (FetchHalt \/ FetchInsn) => Paths'
<1> SUFFICES ASSUME Types, Paths, FetchHalt \/ FetchInsn PROVE Paths'
  OBVIOUS
<1>1. /\ stage = "fetch" /\ stage' = "latch" /\ Running
      /\ UNCHANGED <<prog, F_pred, D_out, X_out, M_out, W_out, X_in, M_in, W_in>>
  BY DEF FetchHalt, FetchInsn, Running
<1>2. current_PC' = current_PC
  BY <1>1 DEF current_PC
<1>3. InText'
  BY <1>1 DEF Paths, InText, Reads
<1>4. Ordered' /\ Turned' /\ Copied'
  BY <1>1 DEF Paths, Ordered, Turned, Copied, error
<1>5. PassedOn'
  BY <1>1 DEF Paths, PassedOn, AfterMemory, AfterExecute, AfterDecode
<1>6. ASSUME ~error(D_out.status)
      PROVE  /\ D_in'.pc = current_PC /\ Reads(D_in'.insn, current_PC)
             /\ D_in'.insn.op # "HLT" => PC' = Predicted(D_in'.insn, current_PC)
             /\ F_status' = "HLT" => FetchStatus(Fetched(prog, current_PC)) = "HLT"
  <2>1. CASE FetchHalt
    <3>1. D_in'.insn = HLT /\ D_in'.pc = current_PC
      BY <2>1 DEF FetchHalt, Types, DRegister
    <3>2. HLT.op = "HLT" /\ FetchStatus(HLT) = "HLT"
      BY DEF FetchStatus, HLT, Insn
    <3>3. FetchStatus(Fetched(prog, current_PC)) = "HLT"
      BY <1>1, <1>6, <2>1, <3>2 DEF FetchHalt, Paths, GoesOn, Fetched
    <3> QED
      BY <3>1, <3>2, <3>3 DEF Reads
  <2>2. CASE FetchInsn
    <3>1. /\ current_PC # 0 /\ F_status # "HLT"
          /\ D_in'.insn = At(prog, current_PC) /\ D_in'.pc = current_PC
          /\ PC' = Predicted(At(prog, current_PC), current_PC)
          /\ F_status' = "HLT" => FetchStatus(At(prog, current_PC)) = "HLT"
      BY <2>2 DEF FetchInsn
    <3> QED
      BY <3>1 DEF Reads, Fetched
  <2> QED
    BY <2>1, <2>2
<1>7. GoesOn'
  <2>1. ~error(D_out.status) => Reads(D_in.insn, current_PC)'
    BY <1>1, <1>2, <1>6 DEF Reads
  <2> QED
    BY <1>1, <1>2, <1>6, <2>1 DEF Paths, GoesOn, error
<1> QED
  BY <1>3, <1>4, <1>5, <1>7 DEF Paths

(* The clock edge, as long as the run goes on.                             *)
Edge == /\ Types /\ Control0 /\ Paths /\ WrongPathQuiet
        /\ Latch /\ stage' = "wback"

LEMMA EdgeFacts ==
  ASSUME Edge
  PROVE  /\ stage = "latch" /\ Running /\ ~wbError
         /\ InText /\ PassedOn /\ Ordered /\ Turned /\ Copied /\ GoesOn
         /\ UNCHANGED <<prog, PC, F_status>>
         /\ "ERROR" \notin {F_ctl, D_ctl, X_ctl, M_ctl, W_ctl}
         /\ F_pred' = IF F_ctl = "LOAD" THEN PC ELSE F_pred
         /\ D_out' = Latched(D_ctl, D_in, D_out, DBubble)
         /\ X_out' = Latched(X_ctl, X_in, X_out, XBubble)
         /\ M_out' = Latched(M_ctl, M_in, M_out, MBubble)
         /\ W_out' = Latched(W_ctl, W_in, W_out, WBubble)
BY DEF Edge, Latch, CycleStatus, wbError, error, Paths, Running

LEMMA EdgeHanded ==
  ASSUME Edge
  PROVE  /\ X_in.insn = D_out.insn /\ X_in.status = D_out.status /\ X_in.pc = D_out.pc
         /\ M_in.insn = X_out.insn /\ M_in.status = X_out.status /\ M_in.pc = X_out.pc
         /\ W_in.insn = M_out.insn /\ W_in.pc = M_out.pc
         /\ W_in.status = "BUB" <=> M_out.status = "BUB"
         /\ D_in.status # "BUB"
         /\ decodeError <=> error(D_out.status)
         /\ execError <=> error(X_out.status)
         /\ error(M_out.status) => memError
<1>1. stage = "latch" /\ PassedOn
  BY EdgeFacts
<1>2. /\ X_in.insn = D_out.insn /\ X_in.status = D_out.status /\ X_in.pc = D_out.pc
      /\ M_in.insn = X_out.insn /\ M_in.status = X_out.status /\ M_in.pc = X_out.pc
      /\ W_in.insn = M_out.insn /\ W_in.pc = M_out.pc
      /\ W_in.status = "BUB" <=> M_out.status = "BUB"
      /\ D_in.status # "BUB"
  BY <1>1 DEF PassedOn, Edge, Control0, Handed, AfterMemory, AfterExecute, AfterDecode
<1>3. W_in.status \in {"ADR", M_out.status}
  BY <1>1 DEF Edge, Control0, Handed, AfterMemory
<1> QED
  BY <1>2, <1>3 DEF decodeError, execError, memError, error

(* The text is in the registers that load as in those that stay.           *)
LEMMA EdgeText ==
  ASSUME Edge, D_ctl = "LOAD" => ~error(D_out.status)
  PROVE  InText'
<1>1. \A i, pc : Reads(i, pc)' <=> Reads(i, pc)
  BY EdgeFacts DEF Reads
<1>2. DBubble.status = "BUB" /\ XBubble.status = "BUB" /\ MBubble.status = "BUB"
      /\ WBubble.status = "BUB"
  BY DEF DBubble, XBubble, MBubble, WBubble
<1>3. D_out'.status # "BUB" => Reads(D_out'.insn, D_out'.pc)
  BY <1>2, EdgeFacts DEF Latched, D_ctl, Control, InText, GoesOn
<1>4. X_out'.status # "BUB" => Reads(X_out'.insn, X_out'.pc)
  BY <1>2, EdgeFacts, EdgeHanded DEF Latched, InText
<1>5. M_out'.status # "BUB" => Reads(M_out'.insn, M_out'.pc)
  BY <1>2, EdgeFacts, EdgeHanded DEF Latched, InText
<1>6. W_out'.status # "BUB" => Reads(W_out'.insn, W_out'.pc)
  BY <1>2, EdgeFacts, EdgeHanded DEF Latched, InText
<1>7. prog' = prog
  BY EdgeFacts
<1> QED
  BY <1>3, <1>4, <1>5, <1>6, <1>7 DEF InText, Reads

(* An error holds what is behind it.                                       *)
LEMMA EdgeCopied ==
  ASSUME Edge
  PROVE  Copied'
<1>1. /\ ~error(XBubble.status) /\ ~error(MBubble.status) /\ WBubble.status = "BUB"
      /\ M_out' \in {M_in, M_out}
  BY EdgeFacts DEF XBubble, MBubble, WBubble, error, Latched, M_ctl, Control
<1>2. error(X_out'.status) => error(D_out'.status)
  <2>1. CASE error(D_out.status)
    <3>1. D_ctl = "STALL"
      BY <2>1, EdgeFacts, EdgeHanded DEF D_ctl, Control, decodeHeld
    <3> QED
      BY <2>1, <3>1, EdgeFacts DEF Latched
  <2>2. CASE ~error(D_out.status)
    BY <1>1, <2>2, EdgeFacts, EdgeHanded DEF Copied, Latched
  <2> QED
    BY <2>1, <2>2
<1>3. error(M_out'.status) => error(X_out'.status)
  <2>1. error(M_out'.status) => error(X_out.status)
    BY <1>1, EdgeFacts, EdgeHanded DEF Copied
  <2>2. error(X_out.status) => X_out' = X_out
    <3>1. error(X_out.status) => X_ctl = "STALL"
      BY EdgeFacts, EdgeHanded DEF X_ctl, Control, execHeld
    <3> QED
      BY <3>1, EdgeFacts DEF Latched
  <2> QED
    BY <2>1, <2>2
<1>4. W_out'.status # "BUB" /\ FetchStatus(W_out'.insn) # "AOK" => error(M_out'.status)
  <2>1. W_out' \in {W_in, WBubble}
    BY EdgeFacts DEF Latched, W_ctl, Control
  <2>2. W_in.status # "BUB" /\ FetchStatus(W_in.insn) # "AOK" => error(M_out.status)
    BY EdgeHanded DEF Edge, Control0, Marks, Marked, error, FetchStatus
  <2>3. error(M_out.status) => M_out' = M_out
    <3>1. error(M_out.status) => M_ctl = "STALL"
      BY EdgeHanded DEF M_ctl, Control, memHeld
    <3> QED
      BY <3>1, EdgeFacts DEF Latched
  <2> QED
    BY <1>1, <2>1, <2>2, <2>3
<1> QED
  BY <1>2, <1>3, <1>4 DEF Copied

LEMMA EdgePassed ==
  ASSUME Edge
  PROVE  PassedOn' /\ stage' # "latch"
BY DEF Edge, PassedOn, AfterMemory, AfterExecute, AfterDecode

(* Everything moves on.                                                    *)
LEMMA EdgeLoad ==
  ASSUME Edge, D_ctl = "LOAD"
  PROVE  Paths'
<1>1. /\ ~mispredict /\ ~loadUse /\ ~retBubble /\ ~decodeError /\ ~execError /\ ~memError
      /\ ~wbError /\ ~memFlight
  BY EdgeFacts DEF D_ctl, Control, decodeHeld
<1>2. X_ctl = "LOAD" /\ F_ctl = "LOAD" /\ M_ctl = "LOAD"
  BY <1>1 DEF X_ctl, F_ctl, M_ctl, Control, execHeld, fetchHeld, memHeld
<1>3. D_out' = D_in /\ X_out' = X_in /\ M_out' = M_in /\ F_pred' = PC
  BY <1>2, EdgeFacts DEF Latched
<1>4. ~error(D_out.status)
  BY <1>1, EdgeHanded
<1>5. D_in.pc = current_PC
      /\ (D_in.insn.op # "HLT" => PC = Predicted(D_in.insn, D_in.pc))
  BY <1>4, EdgeFacts DEF GoesOn
<1>6. Ordered'
  <2>1. X_in.status = "AOK" => D_in.pc = Predicted(X_in.insn, X_in.pc)
    <3>1. ASSUME X_in.status = "AOK" PROVE D_out.status # "BUB"
      BY <3>1, EdgeHanded
    <3>2. ASSUME X_in.status = "AOK" PROVE current_PC = F_pred
      BY <1>4, <3>1, <3>2, EdgeFacts, FetchBehind DEF Edge
    <3> QED
      BY <1>4, <1>5, <3>1, <3>2, EdgeFacts, EdgeHanded DEF GoesOn
  <2>2. M_in.status = "AOK" /\ X_in.status = "AOK" => X_in.pc = Predicted(M_in.insn, M_in.pc)
    BY EdgeFacts, EdgeHanded DEF Ordered
  <2> QED
    BY <1>3, <2>1, <2>2 DEF Ordered
<1>7. Turned'
  BY <1>1, <1>3, EdgeHanded DEF Turned, retBubble, mispredict
<1>8. GoesOn'
  <2> SUFFICES ASSUME ~error(D_in.status) PROVE GoesOn'
    BY <1>3 DEF GoesOn
  <2>1. FetchStatus(D_in.insn) = "AOK" /\ D_in.insn.op # "HLT"
    BY EdgeHanded DEF Edge, Control0, Marks, Marked, error, FetchStatus
  <2>2. Fetched(prog, current_PC) = D_in.insn
    BY <1>4, <2>1, EdgeFacts, ReadsFetched DEF GoesOn
  <2>3. F_status # "HLT"
    BY <1>4, <2>1, <2>2, EdgeFacts DEF GoesOn
  <2> QED
    BY <1>3, <1>5, <2>1, <2>3, EdgeFacts, EdgePassed DEF GoesOn
<1> QED
  BY <1>4, <1>6, <1>7, <1>8, EdgeText, EdgeCopied, EdgePassed DEF Paths

(* Decode is held, and fetch with it.                                      *)
LEMMA EdgeStall ==
  ASSUME Edge, D_ctl = "STALL"
  PROVE  Paths'
<1>1. D_out' = D_out /\ F_pred' = F_pred
  <2>1. F_ctl = "STALL"
    BY DEF F_ctl, D_ctl, Control, fetchHeld, decodeHeld
  <2> QED
    BY <2>1, EdgeFacts DEF Latched
<1>2. InText' /\ PassedOn' /\ Copied' /\ stage' # "latch"
  BY EdgeText, EdgeCopied, EdgePassed
<1>3. XBubble.status = "BUB" /\ XBubble.insn.op = "NOP"
  BY DEF XBubble, NOP, Insn
<1>4. M_out' \in {M_in, M_out}
  BY EdgeFacts DEF Latched, M_ctl, Control
<1>5. CASE error(D_out.status)
  <2>1. X_out' \in {X_out, X_in, XBubble} /\ X_in.status = D_out.status
    BY EdgeFacts, EdgeHanded DEF Latched
  <2>2. D_out.status # "BUB" /\ D_out.status # "AOK"
    BY <1>5 DEF error
  <2>3. Ordered'
    <3>1. X_out'.status = "AOK" => X_out' = X_out
      BY <1>3, <2>1, <2>2
    <3>2. M_out' = M_in /\ X_out' = X_out /\ X_out.status = "AOK" => M_out' = M_out
      <4> SUFFICES ASSUME X_out' = X_out, X_out.status = "AOK", M_out' # M_out PROVE FALSE
        OBVIOUS
      <4>1. X_ctl = "STALL" /\ M_ctl = "LOAD"
        BY <1>3, <2>2, EdgeFacts, EdgeHanded DEF Latched, X_ctl, M_ctl, Control
      <4>2. execError
        BY <4>1 DEF X_ctl, M_ctl, Control, execHeld, memHeld
      <4> QED
        BY <4>2, EdgeHanded DEF error
    <3> QED
      BY <1>1, <1>4, <3>1, <3>2, EdgeFacts DEF Ordered
  <2>4. Turned'
    <3>1. ~(X_out'.insn.op = "RET" /\ X_out'.status = "AOK")
      BY <1>3, <2>1, <2>2, EdgeFacts DEF Turned
    <3>2. ~(M_out'.insn.op = "B_COND" /\ M_out'.status = "AOK" /\ ~M_out'.cond_holds)
      <4>1. CASE M_out' = M_out
        BY <2>2, <4>1, EdgeFacts DEF Turned
      <4>2. CASE M_out' = M_in
        BY <1>5, <4>2, EdgeFacts, EdgeHanded DEF Edge, WrongPathQuiet, mispredict, error
      <4> QED
        BY <1>4, <4>1, <4>2
    <3> QED
      BY <1>1, <2>2, <3>1, <3>2 DEF Turned
  <2>5. GoesOn'
    BY <1>1, <1>5 DEF GoesOn, error
  <2> QED
    BY <1>2, <2>3, <2>4, <2>5 DEF Paths
<1>6. CASE ~error(D_out.status)
  <2>1. ~decodeError /\ ~execError
    BY <1>6, EdgeFacts, EdgeHanded DEF Copied
  <2>2. ASSUME Ordered', Turned', current_PC' = current_PC
        PROVE  Paths'
    BY <1>1, <1>2, <1>6, <2>2, EdgeFacts DEF Paths, GoesOn
  <2>3. CASE X_ctl = "STALL"
    <3>1. M_ctl = "STALL"
      BY <2>1, <2>3 DEF X_ctl, M_ctl, Control, execHeld, memHeld
    <3>2. X_out' = X_out /\ M_out' = M_out
      BY <2>3, <3>1, EdgeFacts DEF Latched
    <3>3. current_PC' = current_PC
      BY <1>1, <3>2 DEF current_PC
    <3> QED
      BY <1>1, <2>2, <3>2, <3>3, EdgeFacts DEF Ordered, Turned
  <2>4. CASE X_ctl = "BUBBLE"
    <3>1. (mispredict \/ loadUse) /\ ~execHeld /\ ~memFlight
      BY <2>4 DEF X_ctl, Control
    <3>2. loadUse
      BY <2>1, <3>1, EdgeFacts DEF D_ctl, Control, decodeHeld, execHeld
    <3>3. X_out.insn.op = "LDUR" /\ D_out.status # "BUB"
      BY <3>2 DEF loadUse, LoadUsers, Edge, Control0, Marks, Marked
    <3>4. M_ctl = "LOAD"
      BY <2>1, <3>1, EdgeFacts DEF M_ctl, Control, memHeld, execHeld
    <3>5. X_out' = XBubble /\ M_out' = M_in
      BY <2>4, <3>4, EdgeFacts DEF Latched
    <3>6. M_in.insn.op = "LDUR"
      BY <3>3, EdgeHanded
    <3>7. current_PC' = current_PC
      <4>1. current_PC = F_pred
        BY <1>6, <3>3, EdgeFacts, FetchBehind DEF Edge
      <4> QED
        BY <1>1, <1>3, <3>5, <3>6, <4>1 DEF current_PC
    <3>8. Ordered' /\ Turned'
      BY <1>1, <1>3, <3>3, <3>5, <3>6 DEF Ordered, Turned
    <3> QED
      BY <2>2, <3>7, <3>8
  <2>5. CASE X_ctl = "LOAD"
    <3>1. ~memFlight /\ ~execHeld /\ ~loadUse
      BY <2>5 DEF X_ctl, Control, execHeld
    <3>2. decodeError
      BY <3>1, EdgeFacts DEF D_ctl, Control, decodeHeld, execHeld
    <3> QED
      BY <2>1, <3>2
  <2> QED
    BY <2>3, <2>4, <2>5, EdgeFacts DEF X_ctl, Control
<1> QED
  BY <1>5, <1>6

(* What decode has is squashed, or fetch waits for a RET.                  *)
LEMMA EdgeBubble ==
  ASSUME Edge, D_ctl = "BUBBLE"
  PROVE  Paths'
<1>1. /\ retBubble \/ mispredict
      /\ ~decodeError /\ ~execError /\ ~memError /\ ~wbError /\ ~memFlight
  BY DEF D_ctl, Control, decodeHeld
<1>2. F_status # "HLT"
  BY <1>1, EdgeFacts, EdgeHanded DEF Edge, WrongPathQuiet
<1>3. M_ctl = "LOAD" /\ X_ctl = IF mispredict \/ loadUse THEN "BUBBLE" ELSE "LOAD"
  BY <1>1 DEF M_ctl, X_ctl, Control, memHeld, execHeld
<1>4. /\ D_out' = DBubble /\ M_out' = M_in
      /\ X_out' = IF mispredict \/ loadUse THEN XBubble ELSE X_in
  BY <1>3, EdgeFacts DEF Latched
<1>5. /\ DBubble.status = "BUB" /\ DBubble.insn.op = "NOP"
      /\ XBubble.status = "BUB" /\ XBubble.insn.op = "NOP"
  BY DEF DBubble, XBubble, NOP, Insn
<1>6. Ordered'
  BY <1>4, <1>5, EdgeFacts, EdgeHanded DEF Ordered
<1>7. Turned'
  BY <1>1, <1>4, <1>5, EdgeHanded DEF Turned, mispredict, retBubble, loadUse, LoadUsers
<1>8. GoesOn'
  BY <1>2, <1>4, <1>5, EdgeFacts, EdgePassed DEF GoesOn
<1> QED
  BY <1>6, <1>7, <1>8, EdgeText, EdgeCopied, EdgePassed DEF Paths

LEMMA PathsStep ==
  /\ Types /\ Control0 /\ Paths /\ HazardFree(prog)
  /\ [Next]_vars
  => Paths'
<1> SUFFICES ASSUME Types, Control0, Paths, HazardFree(prog), [Next]_vars
             PROVE  Paths'
  OBVIOUS
<1>1. CASE Latch
  <2>1. stage' \in {"wback", "stopped"}
    BY <1>1 DEF Latch
  <2>2. CASE stage' = "stopped"
    BY <2>2 DEF Paths, Running
  <2>3. CASE stage' = "wback"
    <3>1. Edge
      BY <1>1, <2>3, TextIsCovered DEF Edge, HazardsCovered
    <3> QED
      BY <3>1, EdgeFacts, EdgeLoad, EdgeStall, EdgeBubble DEF D_ctl, Control
  <2> QED
    BY <2>1, <2>2, <2>3
<1>2. CASE UNCHANGED vars
  BY <1>2 DEF vars, Paths, Running, InText, PassedOn, Ordered, Turned, Copied, GoesOn,
     Reads, error, current_PC, AfterMemory, AfterExecute, AfterDecode
<1> QED
  BY <1>1, <1>2, PathsStage, PathsFetch DEF Next

LEMMA ProgramStays == [Next]_vars => prog' = prog
BY DEF Next, vars, WBack, Memory, MemoryNoAccess, MemoryAnswer, MemoryInFlight, MemoryExit,
   Execute, Decode, FetchHalt, FetchInsn, Latch

LEMMA TextStays == HazardFree(prog) /\ [Next]_vars => HazardFree(prog)'
BY ProgramStays DEF HazardFree, Fetched, Wrong1, Wrong2

LEMMA PipelinePaths ==
  Spec /\ HazardFree(prog) => [](Types /\ Control0 /\ Paths /\ HazardFree(prog))
BY TypesInit, Control0Init, PathsInit, TypesStep, Control0Step, PathsStep, TextStays,
   PTL DEF Spec

(* The hazard unit and forwarding hide the pipeline from every program     *)
(* whose text is HazardFree: no use passes the load-use check, nothing on  *)
(* a wrong path acts, nothing is forwarded for XZR (hazard_control.c,      *)
(* forward.c).                                                             *)
THEOREM HazardFreeIsCovered == Spec /\ HazardFree(prog) => []HazardsCovered
BY PipelinePaths, TextIsCovered, PTL

(* An instruction in execute that asks for a bubble is right behind the    *)
(* access in flight; AccessesApart leaves no such place in the text.       *)
LEMMA ApartIsClear ==
  Types /\ Control0 /\ Paths /\ AccessesApart(prog) => ExecuteClear
<1> SUFFICES ASSUME Types, Control0, Paths, AccessesApart(prog), stage = "latch",
                    mispredict \/ loadUse, ~execHeld, memFlight
             PROVE  FALSE
  BY DEF ExecuteClear, X_ctl, Control
<1>1. Running /\ InText /\ Ordered
  BY DEF Running, Paths
<1>2. ~error(X_out.status) /\ ~error(M_out.status)
  BY <1>1 DEF execHeld, execError, Control0, Handed, AfterExecute, Paths, Copied
<1>3. /\ M_out.insn.op \in MemoryOps /\ M_out.status = "AOK"
      /\ FetchStatus(M_out.insn) = "AOK"
  BY <1>1, <1>2 DEF Control0, Flight, Running, Marks, Marked, error, MemoryOps
<1>13. /\ X_out.insn.op \in {"B_COND", "LDUR"} /\ X_out.status = "AOK"
       /\ FetchStatus(X_out.insn) = "AOK"
  BY <1>2 DEF mispredict, loadUse, Control0, Marks, Marked, error
<1> DEFINE k == M_out.pc
<1>4. k \in DOMAIN prog /\ M_out.insn = prog[k]
  BY <1>1, <1>3, ReadsText DEF InText, Types, MRegister
<1>5. X_out.pc = k + 1
  BY <1>1, <1>3, <1>13 DEF Ordered, Predicted, MemoryOps
<1>6. X_out.insn = Fetched(prog, k + 1)
  BY <1>1, <1>5, <1>13, ReadsFetched DEF InText
<1>7. X_out.insn.op # "B_COND"
  BY <1>3, <1>4, <1>6 DEF AccessesApart
<1>8. X_out.insn.op = "LDUR" /\ loadUse
  BY <1>7, <1>13 DEF mispredict
<1>9. FetchStatus(D_out.insn) # "HLT" /\ D_out.status # "BUB"
  BY <1>8 DEF loadUse, LoadUsers, Control0, Marks, Marked, FetchStatus
<1>10. D_out.pc = X_out.pc + 1
  BY <1>1, <1>8, <1>9, <1>13 DEF Ordered, Predicted
<1>11. k \in Int
  BY DEF Types, MRegister
<1>12. D_out.insn = Fetched(prog, k + 2)
  <2>1. D_out.pc = k + 2
    BY <1>5, <1>10, <1>11
  <2> QED
    BY <1>1, <1>9, <2>1, ReadsFetched DEF InText
<1> QED
  BY <1>3, <1>4, <1>6, <1>8, <1>12 DEF AccessesApart, loadUse

-----------------------------------------------------------------------------
(* Programs whose text is HazardFree.                                      *)

(* Such a program cannot tell the pipeline from the machine that runs one  *)
(* instruction at a time, whatever registers, memory and delays it meets   *)
(* (hazard_control.c, forward.c, and the loop proc.c:127-191).             *)
THEOREM PipelineImplementsISA == Spec /\ HazardFree(prog) => ImplementsISA
BY HazardFreeIsCovered, CoveredRunIsISA, PTL

(* What the checkpoint prints after its HLT is the state of the retired    *)
(* program: no younger instruction has left a trace (machine.c:120-190).   *)
THEOREM HaltedStateIsTheProgram ==
  Spec /\ HazardFree(prog) => []HaltedStateIsRetired
BY HazardFreeIsCovered, CoveredRunHalts, PTL

(* The run ends only when the program does, with a memory that answers at  *)
(* once or a text that keeps its accesses apart from what bubbles execute  *)
(* (pipe_control_stage, the loop's condition).                             *)
THEOREM PipelineStopsWithProgram ==
  Spec /\ HazardFree(prog) => []StopsWithProgram
<1>1. EndsWithProgram => StopsWithProgram
  BY DEF StopsWithProgram
<1>2. [Next]_vars => prog' = prog
  BY ProgramStays
<1>3. CASE MaxWait = 0
  <2>1. ~memFlight => ExecuteClear
    BY ClashNeedsFlight
  <2>2. Spec => [](Types /\ ~memFlight)
    BY <1>3, AnswersAtOnce
  <2> QED
    BY <1>1, <2>1, <2>2, HazardFreeIsCovered, CoveredRunStops, PTL
<1>4. Spec /\ HazardFree(prog) /\ AccessesApart(prog) => []StopsWithProgram
  <2>1. AccessesApart(prog) /\ [Next]_vars => AccessesApart(prog)'
    BY <1>2 DEF AccessesApart, Fetched
  <2>2. Spec /\ AccessesApart(prog) => []AccessesApart(prog)
    BY <2>1, PTL DEF Spec
  <2>3. Spec /\ HazardFree(prog) /\ AccessesApart(prog) => []ExecuteClear
    BY <2>2, PipelinePaths, ApartIsClear, PTL
  <2> QED
    BY <1>1, <2>3, HazardFreeIsCovered, CoveredRunStops, PTL
<1>5. CASE MaxWait # 0
  <2>1. ~AccessesApart(prog) => StopsWithProgram
    BY <1>5 DEF StopsWithProgram
  <2>2. ~AccessesApart(prog) /\ [Next]_vars => ~AccessesApart(prog)'
    BY <1>2 DEF AccessesApart, Fetched
  <2>3. Spec /\ ~AccessesApart(prog) => []StopsWithProgram
    BY <2>1, <2>2, PTL DEF Spec
  <2> QED
    BY <1>4, <2>3, PTL
<1> QED
  BY <1>3, <1>5
=============================================================================
