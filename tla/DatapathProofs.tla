--------------------------- MODULE DatapathProofs ---------------------------
(***************************************************************************)
(* The flags of the data path are those of module FlagRegister, so what    *)
(* FlagProofs says of them holds of every sequence of decoded words; and   *)
(* what fetch and decode make of an instruction is what it says, for every *)
(* register and immediate, but for the five kinds that module Datapath     *)
(* names.                                                                  *)
(***************************************************************************)
EXTENDS Datapath, FlagProofs

(* An instruction in the execute register that sets the flags has an       *)
(* operation FlagRegister knows.                                           *)
DInv ==
  X_out # Nothing /\ X_out.X_sigs.set_flags => X_out.ALU_op \in FlagOps

(* generate_DXMW_control lets only additions, subtractions and ANDs set    *)
(* the flags (instr_Decode.c:42-54, 122-141).                              *)
LEMMA FlagSettersAreKnown ==
  ASSUME NEW w, NEW op
  PROVE  LET x == decode_instr(w, op)
         IN  x.X_sigs.set_flags => x.ALU_op \in FlagOps
<1> DEFINE x == decode_instr(w, op)
<1>1. x.X_sigs.set_flags = SetsFlags(op) /\ x.ALU_op = decide_alu_op(op)
  BY DEF decode_instr, generate_DXMW_control
<1>2. ASSUME SetsFlags(op)
      PROVE  op \in {"ADDS_RR", "CMN_RR", "CMP_RR", "SUBS_RR", "ANDS_RR", "TST_RR"}
  BY <1>2 DEF SetsFlags, RegisterOps
<1>3. ASSUME op \in {"ADDS_RR", "CMN_RR", "CMP_RR", "SUBS_RR", "ANDS_RR", "TST_RR"}
      PROVE  decide_alu_op(op) \in {"PLUS", "MINUS", "AND"}
  BY <1>3 DEF decide_alu_op, ShiftOps
<1>4. QED
  BY <1>1, <1>2, <1>3 DEF FlagOps

(* Whatever words are fetched, whatever their operands are, every step of  *)
(* the data path is a step of the flag register or leaves it alone.        *)
THEOREM ImplementsFlagRegister == Spec => FlagSpec
<1>1. Init => FlagInit /\ DInv
  BY DEF Init, DInv
<1>2. DInv /\ [Next]_vars => DInv' /\ [FlagNext]_flagVars
  <2> SUFFICES ASSUME DInv, [Next]_vars
               PROVE  DInv' /\ [FlagNext]_flagVars
    OBVIOUS
  <2>1. ASSUME NEW i, Fetch(i)
        PROVE  DInv' /\ UNCHANGED flagVars
    BY <2>1 DEF Fetch, DInv, flagVars
  <2>2. CASE Decode
    <3>1. X_out' = decode_instr(D_out.insnbits, D_out.op)
      BY <2>2 DEF Decode
    <3>2. DInv'
      BY <3>1, FlagSettersAreKnown DEF DInv
    <3>3. UNCHANGED flagVars
      BY <2>2 DEF Decode, flagVars
    <3>4. QED
      BY <3>2, <3>3
  <2>3. CASE Execute
    <3>1. DInv'
      BY <2>3 DEF Execute, DInv
    <3>2. CASE X_out.X_sigs.set_flags
      <4>1. X_out.ALU_op \in FlagOps
        BY <2>3, <3>2 DEF Execute, DInv
      <4>2. PICK a \in Word, b \in Word : SetFlags(X_out.ALU_op, a, b)
        BY <2>3, <3>2 DEF Execute
      <4>3. QED
        BY <3>1, <4>1, <4>2 DEF FlagNext
    <3>3. CASE ~X_out.X_sigs.set_flags
      BY <2>3, <3>1, <3>3 DEF Execute
    <3>4. QED
      BY <3>2, <3>3
  <2>4. CASE UNCHANGED vars
    BY <2>4 DEF vars, DInv, flagVars
  <2>5. QED
    BY <2>1, <2>2, <2>3, <2>4 DEF Next
<1>3. QED
  BY <1>1, <1>2, PTL DEF Spec, FlagSpec

(* The flags of a decoded program tell carry and overflow at every width.  *)
THEOREM DatapathFlags == Spec => []FlagsTellResult
  BY ImplementsFlagRegister, FlagsAreRight, PTL

(* The conditions a decoded program meets tell the order of what it        *)
(* compared, at every width.                                               *)
THEOREM DatapathConditions == Spec => []ConditionsTellOrder
  BY ImplementsFlagRegister, ConditionsAreRight, PTL

-----------------------------------------------------------------------------
(* Effects.                                                                *)

(* Effects that agree in all but the operands, the register written and    *)
(* the data stored are equal exactly when these are.                       *)
LEMMA SameEffect ==
  ASSUME NEW alu, NEW shift, NEW flags, NEW access, NEW offset, NEW cond,
         NEW a, NEW b, NEW to, NEW data, NEW a2, NEW b2, NEW to2, NEW data2
  PROVE  Effect(alu, a, b, shift, flags, to, access, data, offset, cond)
           = Effect(alu, a2, b2, shift, flags, to2, access, data2, offset, cond)
         <=> a = a2 /\ b = b2 /\ to = to2 /\ data = data2
  BY SMT DEF Effect

(* The operation and the control signals of the execute register           *)
(* (instr_Decode.c:37-59, 118-160).                                        *)
LEMMA DecodedControl ==
  ASSUME NEW w, NEW op
  PROVE  LET x    == decode_instr(w, op)
         IN  /\ x.op = op
             /\ x.ALU_op = decide_alu_op(op)
             /\ x.X_sigs.set_flags <=> SetsFlags(op)
             /\ x.M_sigs.dmem_read <=> (op = "LDUR")
             /\ x.M_sigs.dmem_write <=> (op = "STUR")
             /\ x.W_sigs.w_enable <=> (op \in WriteEnabled)
<1> DEFINE x == decode_instr(w, op)
           g == generate_DXMW_control(op)
<1>1. /\ x.op = op /\ x.ALU_op = decide_alu_op(op)
      /\ x.X_sigs = g.X /\ x.M_sigs = g.M /\ x.W_sigs = g.W
  BY SMT DEF decode_instr
<1> HIDE DEF x
<1>2. g.X.set_flags <=> SetsFlags(op)
  BY DEF generate_DXMW_control
<1>3. g.M.dmem_read <=> (op = "LDUR")
  BY DEF generate_DXMW_control
<1>4. g.M.dmem_write <=> (op = "STUR")
  BY DEF generate_DXMW_control
<1>5. g.W.w_enable <=> (op \in WriteEnabled)
  BY DEF generate_DXMW_control
<1> HIDE DEF g
<1>6. QED
  BY <1>1, <1>2, <1>3, <1>4, <1>5 DEF x

(* What becomes of an instruction that writes a register                   *)
(* (instr_Execute.c:36-48, hw_elts.c:55-62).                               *)
LEMMA PerformedWriting ==
  ASSUME NEW x, NEW o, x.W_sigs.w_enable, ~x.M_sigs.dmem_write, x.op \notin {"BL", "B_COND"}
  PROVE  Performed(x, o) =
           Effect(x.ALU_op, x.val_a, valb(x), IF x.ALU_op = "MOV" THEN x.val_hw ELSE 0,
                  IF x.X_sigs.set_flags THEN "NZCV" ELSE "none", x.dst,
                  IF x.M_sigs.dmem_read THEN "read" ELSE "none", Zero, o, "AL")
  BY SMT DEF Performed, Computing, WrittenRegister

(* What becomes of one that keeps its result elsewhere: in the flags, in   *)
(* memory or in the PC.                                                    *)
LEMMA PerformedNotWriting ==
  ASSUME NEW x, NEW o, ~x.W_sigs.w_enable, ~x.M_sigs.dmem_read,
   x.op = "RET" \/ x.X_sigs.set_flags \/ x.M_sigs.dmem_write,
   x.op \notin {"BL", "B_COND"}, x.ALU_op # "MOV"
  PROVE  Performed(x, o) =
           Effect(x.ALU_op, x.val_a, valb(x), 0,
                  IF x.X_sigs.set_flags THEN "NZCV" ELSE "none", Discarded,
                  IF x.M_sigs.dmem_write THEN "write" ELSE "none",
                  IF x.M_sigs.dmem_write THEN x.val_b ELSE Zero, o, "AL")
<1>1. Computing(x) /\ WrittenRegister(x) = Discarded
  BY SMT DEF Computing, WrittenRegister
<1>2. QED
  BY <1>1, SMT DEF Performed

(* An instruction of which nothing keeps the result only moves the PC.     *)
LEMMA PerformedIdle ==
  ASSUME NEW x, NEW o, ~x.W_sigs.w_enable, ~x.M_sigs.dmem_read,
   x.op # "RET", ~x.X_sigs.set_flags, ~x.M_sigs.dmem_write, x.ALU_op # "MOV"
  PROVE  Performed(x, o) =
           Goes(o, IF x.op = "B_COND" THEN ConditionNumber[x.cond] ELSE "AL", Zero)
  BY SMT DEF Performed, Computing, Goes

(* A BL leaves the return address in X30 (instr_Decode.c:251-253).         *)
LEMMA PerformedLinking ==
  ASSUME NEW x, NEW o, x.W_sigs.w_enable, ~x.M_sigs.dmem_read,
   x.op = "BL", ~x.X_sigs.set_flags, ~x.M_sigs.dmem_write, x.ALU_op # "MOV"
  PROVE  Performed(x, o) =
           Effect(x.ALU_op, Link, valb(x), 0, "none", 30, "none", Zero, o, "AL")
  BY SMT DEF Performed, Computing, WrittenRegister

-----------------------------------------------------------------------------
(* Bit fields and the opcode table.                                        *)

(* The two ways in which the low 21 bits are put together: registers n and *)
(* d under eleven bits, and register d under sixteen.                      *)
Packed(t, x, n, d)   == Word32(t, x * 1024 + n * 32 + d)
PackedWide(t, y, d)  == Word32(t, y * 32 + d)

(* The fields decode reads in a word with two registers                    *)
(* (instr_base.c:44-46, instr_Decode.c:67-110, 180-254).                   *)
LEMMA PackedRegisters ==
  ASSUME NEW t, NEW x, NEW n, NEW d,
         t \in Nat, x \in Nat, n \in Nat, d \in Nat, x < 2048, n < 32, d < 32
  PROVE  LET w == Packed(t, x, n, d) IN
         /\ Rd(w) = d
         /\ Rn(w) = n
         /\ Rm(w) = x \div 64
         /\ bitfield_u32(w, 9, 7) = (x % 64) * 2 + n \div 16
         /\ bitfield_u32(w, 10, 6) = x % 64
         /\ bitfield_u32(w, 10, 12) = x + (t % 2) * 2048
         /\ bitfield_u32(w, 12, 9) = x \div 4
         /\ bitfield_u32(w, 16, 6) = x \div 64 + (t % 2) * 32
<1> DEFINE w == Packed(t, x, n, d)
           l == x * 1024 + n * 32 + d
<1>1. l \in Nat /\ w = Word32(t, l)
  BY SMT DEF Packed
<1>2. /\ l % 32 = d /\ (l \div 32) % 32 = n /\ (l \div 65536) % 32 = x \div 64
  BY SMT
<1>3. (l \div 512) % 128 = (x % 64) * 2 + n \div 16
  BY SMT
<1>4. l \div 1024 = x /\ (l \div 4096) % 512 = x \div 4 /\ l \div 65536 = x \div 64
  BY SMT
<1> HIDE DEF l, w
<1>5.     /\ Rd(w) = l % 32
          /\ Rn(w) = (l \div 32) % 32
          /\ Rm(w) = (l \div 65536) % 32
          /\ bitfield_u32(w, 9, 7) = (l \div 512) % 128
          /\ bitfield_u32(w, 10, 6) = (l \div 1024) % 64
          /\ bitfield_u32(w, 10, 12) = l \div 1024 + (t % 2) * 2048
          /\ bitfield_u32(w, 12, 9) = (l \div 4096) % 512
          /\ bitfield_u32(w, 16, 6) = l \div 65536 + (t % 2) * 32
  BY <1>1, SMT DEF bitfield_u32, Word32, Rd, Rn, Rm
<1>6. QED
  BY <1>2, <1>3, <1>4, <1>5, SMT DEF l, w

(* The fields it reads in a word with one (instr_base.c:44-46).            *)
LEMMA PackedImmediate ==
  ASSUME NEW t, NEW y, NEW d,
         t \in Nat, y \in Nat, d \in Nat, y < 65536, d < 32
  PROVE  LET w == PackedWide(t, y, d) IN
         /\ Rd(w) = d
         /\ bitfield_u32(w, 0, 4) = d % 16
         /\ bitfield_u32(w, 5, 16) = y
         /\ bitfield_u32(w, 5, 19) = y + (t % 8) * 65536
<1> DEFINE w == PackedWide(t, y, d)
           l == y * 32 + d
<1>0. w = Word32(t, l)
  BY DEF PackedWide
<1>1. l \in Nat /\ l % 32 = d /\ l \div 32 = y /\ l % 16 = d % 16
  BY SMT
<1> HIDE DEF l, w
<1>2.     /\ Rd(w) = l % 32
          /\ bitfield_u32(w, 0, 4) = l % 16
          /\ bitfield_u32(w, 5, 16) = (l \div 32) % 65536
          /\ bitfield_u32(w, 5, 19) = l \div 32 + (t % 8) * 65536
  BY <1>0, <1>1, SMT DEF bitfield_u32, Word32, Rd
<1>3. QED
  BY <1>1, <1>2, SMT DEF l, w

(* No two entries of the opcode table overlap, as the asserts of           *)
(* init_itable_entry and init_itable_range ask (instr_base.c:59-69).       *)
LEMMA RangesAreApart ==
  ASSUME NEW r \in init_itable, NEW s \in init_itable, NEW k \in Nat,
         r.first <= k, k <= r.last, s.first <= k, k <= s.last
  PROVE  s = r
BY SMTT(60) DEF init_itable, TableRange

(* So the table gives the opcode of an entry for every index of its range  *)
(* (instr_base.c:59-117).                                                  *)
LEMMA TableOpcode ==
  ASSUME NEW op, NEW first, NEW last, TableRange(op, first, last) \in init_itable,
         NEW k \in Nat, first <= k, k <= last
  PROVE  itable[k] = op
<1> DEFINE r == TableRange(op, first, last)
           ranges == {s \in init_itable : s.first <= k /\ k <= s.last}
<1>1. r.op = op /\ r.first = first /\ r.last = last
  BY SMT DEF TableRange
<1> HIDE DEF r
<1>2. k \in 0 .. 2^11 - 1
  <2>1. r.last \in Nat /\ r.last < 2048
    BY SMT DEF init_itable, TableRange, r
  <2>2. QED
    BY <1>1, <2>1, SMT
<1>3. ranges = {r}
  BY <1>1, RangesAreApart, SMT DEF r
<1>4. itable[k] = IF ranges = {} THEN "ERROR" ELSE (CHOOSE s \in ranges : TRUE).op
  BY <1>2 DEF itable
<1> HIDE DEF ranges
<1>5. QED
  BY <1>1, <1>3, <1>4

-----------------------------------------------------------------------------
(* What decode and execute make of an opcode.                              *)

(* Register 31 as extract_regs has it (instr_Decode.c:180-254).            *)
zero31(op, r) ==
  IF r = 31 /\ op \in {"TST_RR", "CMP_RR", "ORR_RR", "EOR_RR"} THEN XZR ELSE r
noSP(r) == IF r = 31 THEN XZR ELSE r

(* What becomes of a word taken for an opcode.                             *)
Executed(w, op) == Performed(decode_instr(w, op), PredictedOffset(w, op))

(* The instructions on two registers: MVN is apart                         *)
(* (instr_Decode.c:180-254).                                               *)
LEMMA RegisterForm ==
  ASSUME NEW w, NEW op, op \in RegisterOps, op # "MVN"
  PROVE  Executed(w, op) =
           Effect(decide_alu_op(op), regfile(zero31(op, Rn(w))),
                  regfile(zero31(op, Rm(w))), 0,
                  IF SetsFlags(op) THEN "NZCV" ELSE "none",
                  IF op \in WriteEnabled THEN zero31(op, Rd(w)) ELSE Discarded,
                  "none", Zero, 1, "AL")
<1> DEFINE x == decode_instr(w, op)
<1>1. op \in {"ADDS_RR", "CMN_RR", "CMP_RR", "SUBS_RR", "ANDS_RR", "TST_RR",
              "ORR_RR", "EOR_RR"}
  BY SMT DEF RegisterOps
<1>2. extract_regs(w, op) = [src1 |-> zero31(op, Rn(w)), src2 |-> zero31(op, Rm(w)),
                             dst |-> zero31(op, Rd(w))]
  BY <1>1, SMT DEF extract_regs, zero31, RegisterOps, ShiftOps
<1>3. /\ x.val_a = regfile(zero31(op, Rn(w))) /\ x.val_b = regfile(zero31(op, Rm(w)))
      /\ x.dst = zero31(op, Rd(w))
  BY <1>1, <1>2, SMT DEF decode_instr
<1>4. /\ x.op = op /\ x.ALU_op = decide_alu_op(op)
      /\ x.X_sigs.set_flags <=> SetsFlags(op)
      /\ x.W_sigs.w_enable <=> op \in WriteEnabled
      /\ ~x.M_sigs.dmem_read /\ ~x.M_sigs.dmem_write
  <2>1. op # "LDUR" /\ op # "STUR"
    BY <1>1
  <2>2. QED
    BY <2>1, DecodedControl
<1>5. PredictedOffset(w, op) = 1
  BY <1>1, SMT DEF PredictedOffset
<1>6. decide_alu_op(op) # "MOV"
  BY <1>1, SMT DEF decide_alu_op, ShiftOps
<1>7. op \in WriteEnabled \/ SetsFlags(op)
  BY <1>1, SMT DEF WriteEnabled, SetsFlags, RegisterOps
<1>8. valb(x) = x.val_b
  BY <1>1, <1>4, SMT DEF valb, RegisterOps, ImmediateOps, ShiftOps
<1> HIDE DEF x
<1>9. CASE op \in WriteEnabled
  BY <1>1, <1>3, <1>4, <1>5, <1>6, <1>8, <1>9, PerformedWriting, SMT DEF Executed, x
<1>10. CASE op \notin WriteEnabled
  BY <1>1, <1>3, <1>4, <1>5, <1>6, <1>7, <1>8, <1>10, PerformedNotWriting,
     SMT DEF Executed, x
<1>11. QED
  BY <1>9, <1>10

(* Everything else that writes a register, but BL.                         *)
LEMMA WritingForm ==
  ASSUME NEW w, NEW op, op \in WriteEnabled \ RegisterOps, op # "BL"
  PROVE  LET x == decode_instr(w, op) IN
           Executed(w, op) =
             Effect(decide_alu_op(op), x.val_a,
                    Imm(IF op \in ShiftOps THEN x.val_imm % 64 ELSE x.val_imm),
                    IF op \in {"MOVZ", "MOVK"} THEN x.val_hw ELSE 0, "none", x.dst,
                    IF op = "LDUR" THEN "read" ELSE "none", Zero, 1, "AL")
<1> DEFINE x == decode_instr(w, op)
<1>1. op \in {"ADD_RI", "SUB_RI", "MOVZ", "MOVK", "ADRP", "LSL", "LSR", "ASR", "LDUR"}
  BY SMT DEF WriteEnabled, RegisterOps
<1>2. /\ x.op = op /\ x.ALU_op = decide_alu_op(op)
      /\ ~x.X_sigs.set_flags /\ x.W_sigs.w_enable
      /\ x.M_sigs.dmem_read <=> op = "LDUR"
      /\ ~x.M_sigs.dmem_write
  <2>1. op # "STUR" /\ ~SetsFlags(op)
    BY <1>1, SMT DEF SetsFlags, RegisterOps
  <2>2. QED
    BY <2>1, DecodedControl
<1>3. PredictedOffset(w, op) = 1
  BY <1>1, SMT DEF PredictedOffset
<1>4. decide_alu_op(op) = "MOV" <=> op \in {"MOVZ", "MOVK"}
  BY <1>1, SMT DEF decide_alu_op, ShiftOps
<1> HIDE DEF x
<1>5. valb(x) = Imm(IF op \in ShiftOps THEN x.val_imm % 64 ELSE x.val_imm)
  <2>1. /\ op \notin RegisterOps
        /\ op \in ImmediateOps
    BY <1>1, SMT DEF RegisterOps, ImmediateOps
  <2>2. CASE op \in ShiftOps
    BY <1>2, <2>1, <2>2 DEF valb, ShiftOps, RegisterOps, ImmediateOps
  <2>3. CASE op \notin ShiftOps
    BY <1>2, <2>1, <2>3 DEF valb
  <2>4. QED
    BY <2>2, <2>3
<1>6. Executed(w, op) = Effect(x.ALU_op, x.val_a, valb(x),
                               IF x.ALU_op = "MOV" THEN x.val_hw ELSE 0, "none", x.dst,
                               IF op = "LDUR" THEN "read" ELSE "none", Zero, 1, "AL")
  BY <1>1, <1>2, <1>3, PerformedWriting, SMT DEF Executed, x
<1>7. QED
  BY <1>2, <1>4, <1>5, <1>6 DEF x

(* What is neither written to a register nor to the flags or to memory.    *)
LEMMA IdleForm ==
  ASSUME NEW w, NEW op,
         op \in {"NOP", "HLT", "ERROR", "CSEL", "CSNEG", "CBZ", "CBNZ", "BR", "BLR", "B",
                "B_COND"}
  PROVE  Executed(w, op) =
           Goes(PredictedOffset(w, op),
                IF op = "B_COND" THEN ConditionNumber[bitfield_u32(w, 0, 4)] ELSE "AL",
                Zero)
<1> DEFINE x == decode_instr(w, op)
<1>1. x.op = op /\ x.ALU_op # "MOV" /\ ~x.X_sigs.set_flags /\ ~x.W_sigs.w_enable
      /\ ~x.M_sigs.dmem_read /\ ~x.M_sigs.dmem_write
  <2>1. /\ op # "STUR" /\ op # "LDUR" /\ ~SetsFlags(op) /\ op \notin WriteEnabled
    BY SMT DEF SetsFlags, RegisterOps, WriteEnabled
  <2>2. decide_alu_op(op) # "MOV"
    BY SMT DEF decide_alu_op, ShiftOps
  <2>3. QED
    BY <2>1, <2>2, DecodedControl
<1>2. op = "B_COND" => x.cond = bitfield_u32(w, 0, 4)
  BY SMT DEF decode_instr
<1> HIDE DEF x
<1>3. QED
  BY <1>1, <1>2, PerformedIdle, SMT DEF Executed, x

(* A store computes an address and writes no register.                     *)
LEMMA StoreForm ==
  ASSUME NEW w
  PROVE  LET x == decode_instr(w, "STUR") IN
           Executed(w, "STUR") =
             Effect("PLUS", x.val_a, Imm(x.val_imm), 0, "none", Discarded, "write",
                    x.val_b, 1, "AL")
<1> DEFINE x == decode_instr(w, "STUR")
<1>1. x.op = "STUR" /\ x.ALU_op = "PLUS" /\ ~x.X_sigs.set_flags /\ ~x.W_sigs.w_enable
      /\ ~x.M_sigs.dmem_read /\ x.M_sigs.dmem_write
  <2>1. ~SetsFlags("STUR") /\ "STUR" \notin WriteEnabled
    BY SMT DEF SetsFlags, RegisterOps, WriteEnabled
  <2>2. decide_alu_op("STUR") = "PLUS"
    BY SMT DEF decide_alu_op, ShiftOps
  <2>3. QED
    BY <2>1, <2>2, DecodedControl
<1>2. PredictedOffset(w, "STUR") = 1
  BY SMT DEF PredictedOffset
<1> HIDE DEF x
<1>3. valb(x) = Imm(x.val_imm)
  BY <1>1, SMT DEF valb, RegisterOps, ImmediateOps, ShiftOps
<1>4. QED
  BY <1>1, <1>2, <1>3, PerformedNotWriting, SMT DEF Executed, x

(* A RET passes a register to the PC (instr_Decode.c:331-335).             *)
LEMMA ReturnForm ==
  ASSUME NEW w
  PROVE  Executed(w, "RET") = Computes("PASS_A", Reg(Rn(w)), Zero, Discarded)
<1> DEFINE x == decode_instr(w, "RET")
<1>1. x.op = "RET" /\ x.ALU_op = "PASS_A" /\ ~x.X_sigs.set_flags /\ ~x.W_sigs.w_enable
      /\ ~x.M_sigs.dmem_read /\ ~x.M_sigs.dmem_write
  <2>1. ~SetsFlags("RET") /\ "RET" \notin WriteEnabled
    BY SMT DEF SetsFlags, RegisterOps, WriteEnabled
  <2>2. decide_alu_op("RET") = "PASS_A"
    BY SMT DEF decide_alu_op, ShiftOps
  <2>3. QED
    BY <2>1, <2>2, DecodedControl
<1>2. PredictedOffset(w, "RET") = 1 /\ x.val_a = Reg(Rn(w))
  BY SMT DEF PredictedOffset, decode_instr
<1> HIDE DEF x
<1>3. valb(x) = Zero
  BY <1>1, SMT DEF valb, RegisterOps, ImmediateOps, ShiftOps
<1>4. QED
  BY <1>1, <1>2, <1>3, PerformedNotWriting, SMT DEF Executed, Computes, x

(* A BL passes the return address to X30.                                  *)
LEMMA CallForm ==
  ASSUME NEW w
  PROVE  Executed(w, "BL") = Effect("PASS_A", Link, Zero, 0, "none", 30, "none", Zero,
                                    PredictedOffset(w, "BL"), "AL")
<1> DEFINE x == decode_instr(w, "BL")
<1>1. x.op = "BL" /\ x.ALU_op = "PASS_A" /\ ~x.X_sigs.set_flags /\ x.W_sigs.w_enable
      /\ ~x.M_sigs.dmem_read /\ ~x.M_sigs.dmem_write
  <2>1. ~SetsFlags("BL") /\ "BL" \in WriteEnabled
    BY SMT DEF SetsFlags, RegisterOps, WriteEnabled
  <2>2. decide_alu_op("BL") = "PASS_A"
    BY SMT DEF decide_alu_op, ShiftOps
  <2>3. QED
    BY <2>1, <2>2, DecodedControl
<1> HIDE DEF x
<1>2. valb(x) = Zero
  BY <1>1, SMT DEF valb, RegisterOps, ImmediateOps, ShiftOps
<1>3. QED
  BY <1>1, <1>2, PerformedLinking, SMT DEF Executed, x

-----------------------------------------------------------------------------
(* One kind of instruction after the other.                                *)

(* The five kinds of instruction that are not done as written.             *)
Exceptional(i) ==
  StackForZero(i) \/ WrongShift(i) \/ WrongOffset(i) \/ WrongPage(i) \/ Ignored(i)

(* The opcode fetch finds for an instruction, and whether what becomes of  *)
(* it is what it says.                                                     *)
TakenFor(i, op) == OpcodeOf(Assemble(i)) = op

AsMeant(i, op) == Executed(Assemble(i), op) = Meaning(i) <=> ~Exceptional(i)

(* What an instruction may have in its fields, whatever its name is.       *)
LEMMA FieldTypes ==
  ASSUME NEW i \in Instructions
  PROVE  /\ i.name \in Names
         /\ i.d \in Nat /\ i.n \in Nat /\ i.m \in Nat /\ i.d < 32 /\ i.n < 32 /\ i.m < 32
         /\ i.imm \in Int /\ i.sel \in Nat /\ i.sel < 64 /\ Fits(i)
  BY SMT DEF Instructions, Registers

(* Where no alias is looked for, the opcode is that of the table           *)
(* (instr_Fetch.c:97-136).                                                 *)
LEMMA PlainOpcode ==
  ASSUME NEW w, NEW op, NEW first, NEW last, TableRange(op, first, last) \in init_itable,
         NEW k, k \in Nat, first <= k, k <= last, bitfield_u32(w, 21, 11) = k,
         op \notin {"UBFM", "SUBS_RR", "ADDS_RR", "ANDS_RR"}
  PROVE  OpcodeOf(w) = op
<1>1. itable[k] = op
  BY TableOpcode
<1>2. QED
  BY <1>1, SMT DEF OpcodeOf, fix_instr_aliases

(* The fields of a word made of three registers.                           *)
LEMMA ThreeRegistersFields ==
  ASSUME NEW t, NEW d, NEW n, NEW m, t \in Nat, d \in Nat, n \in Nat, m \in Nat,
         t < 2048, d < 32, n < 32, m < 32
  PROVE  LET w == ThreeRegisters(t, d, n, m)
         IN  bitfield_u32(w, 21, 11) = t /\ Rd(w) = d /\ Rn(w) = n /\ Rm(w) = m
<1> DEFINE x == m * 64
           w == ThreeRegisters(t, d, n, m)
           l == x * 1024 + n * 32 + d
<1>1. w = Word32(t, l) /\ w = Packed(t, x, n, d)
  BY SMT DEF ThreeRegisters, Packed
<1>2. x \in Nat /\ x < 2048 /\ x \div 64 = m /\ l \in Nat
  BY SMT
<1> HIDE DEF x, l, w
<1>3. bitfield_u32(w, 21, 11) = t
  BY <1>1, SMT DEF bitfield_u32, Word32
<1>4. Rd(w) = d /\ Rn(w) = n /\ Rm(w) = x \div 64
  BY <1>1, <1>2, PackedRegisters
<1>5. QED
  BY <1>2, <1>3, <1>4 DEF w

(* An addition, subtraction or AND that sets flags is taken for what it    *)
(* is; SP stands for a zero register among its sources.                    *)
LEMMA ArithmeticTaken ==
  ASSUME NEW i \in Instructions, i.name \in {"ADDS", "SUBS", "ANDS"}
  PROVE  LET op == CASE i.name = "ADDS" -> "ADDS_RR" [] i.name = "SUBS" -> "SUBS_RR"
                     [] i.name = "ANDS" -> "ANDS_RR"
         IN  TakenFor(i, op) /\ AsMeant(i, op)
<1> DEFINE op == CASE i.name = "ADDS" -> "ADDS_RR" [] i.name = "SUBS" -> "SUBS_RR"
                     [] i.name = "ANDS" -> "ANDS_RR"
           t == CASE i.name = "ADDS" -> 1368 [] i.name = "SUBS" -> 1880
                     [] i.name = "ANDS" -> 1872
           w == ThreeRegisters(t, i.d, i.n, i.m)
<1>1. /\ i.d \in Nat /\ i.n \in Nat /\ i.m \in Nat /\ i.d < 31 /\ i.n < 32 /\ i.m < 32
  <2>1. i.d # 31
    BY FieldTypes, Zenon DEF Fits
  <2>2. QED
    BY FieldTypes, <2>1, SMT
<1>2. Assemble(i) = w
  BY SMT DEF Assemble, TopOf
<1>3. t \in Nat /\ t < 2048 /\ TableRange(op, t, t) \in init_itable
  BY SMT DEF init_itable
<1>4. op \in {"ADDS_RR", "SUBS_RR", "ANDS_RR"}
  BY SMT
<1>5. Meaning(i) = Effect(decide_alu_op(op), Source(i.n), Source(i.m), 0, "NZCV",
                          Target(i.d), "none", Zero, 1, "AL")
  BY SMT DEF Meaning, ComputesFlags, decide_alu_op, ShiftOps
<1>6. Exceptional(i) <=> 31 \in {i.n, i.m}
  BY SMT DEF Exceptional, StackForZero, WrongShift, WrongOffset, WrongPage, Ignored
<1> HIDE DEF op, t
<1>7. bitfield_u32(w, 21, 11) = t /\ Rd(w) = i.d /\ Rn(w) = i.n /\ Rm(w) = i.m
  BY <1>1, <1>3, ThreeRegistersFields
<1> HIDE DEF w
<1>8. OpcodeOf(w) = op
  <2>1. itable[t] = op
    BY <1>3, TableOpcode, SMT
  <2>2. QED
    BY <2>1, <1>1, <1>4, <1>7, SMT DEF OpcodeOf, fix_instr_aliases
<1>9. Executed(w, op) = Effect(decide_alu_op(op), Reg(i.n), Reg(i.m), 0, "NZCV", i.d,
                               "none", Zero, 1, "AL")
  <2>1. /\ op \in RegisterOps /\ op # "MVN" /\ SetsFlags(op) /\ op \in WriteEnabled
        /\ zero31(op, Rn(w)) = i.n /\ zero31(op, Rm(w)) = i.m /\ zero31(op, Rd(w)) = i.d
    BY <1>4, <1>7, SMT DEF RegisterOps, SetsFlags, WriteEnabled, zero31
  <2>2. regfile(i.n) = Reg(i.n) /\ regfile(i.m) = Reg(i.m)
    BY <1>1, SMT DEF regfile, XZR
  <2>3. QED
    BY <2>1, <2>2, RegisterForm
<1>10. Executed(w, op) = Meaning(i) <=>
        Reg(i.n) = Source(i.n) /\ Reg(i.m) = Source(i.m) /\ i.d = Target(i.d)
  BY <1>5, <1>9, SameEffect
<1>11. /\ Source(i.n) = Reg(i.n) <=> i.n # 31
       /\ Source(i.m) = Reg(i.m) <=> i.m # 31
       /\ Target(i.d) = i.d
  BY <1>1, SMT DEF Source, Reg, Zero, Target
<1>12. QED
  BY <1>2, <1>6, <1>8, <1>10, <1>11 DEF TakenFor, AsMeant, op

(* A compare or test is told from the subtraction, addition or AND by its  *)
(* destination (instr_Fetch.c:119-135). Only CMN still reads SP for the    *)
(* zero register.                                                          *)
LEMMA CompareTaken ==
  ASSUME NEW i \in Instructions, i.name \in {"CMN", "CMP", "TST"}
  PROVE  LET op == CASE i.name = "CMN" -> "CMN_RR" [] i.name = "CMP" -> "CMP_RR"
                     [] i.name = "TST" -> "TST_RR"
         IN  TakenFor(i, op) /\ AsMeant(i, op)
<1> DEFINE op == CASE i.name = "CMN" -> "CMN_RR" [] i.name = "CMP" -> "CMP_RR"
                     [] i.name = "TST" -> "TST_RR"
           entry == CASE i.name = "CMN" -> "ADDS_RR" [] i.name = "CMP" -> "SUBS_RR"
                     [] i.name = "TST" -> "ANDS_RR"
           t == CASE i.name = "CMN" -> 1368 [] i.name = "CMP" -> 1880
                     [] i.name = "TST" -> 1872
           w == ThreeRegisters(t, 31, i.n, i.m)
<1>1. /\ i.n \in Nat /\ i.m \in Nat /\ i.n < 32 /\ i.m < 32
  BY FieldTypes
<1>2. Assemble(i) = w
  BY SMT DEF Assemble, TopOf
<1>3. t \in Nat /\ t < 2048 /\ TableRange(entry, t, t) \in init_itable
  BY SMT DEF init_itable
<1>4. op \in {"CMN_RR", "CMP_RR", "TST_RR"}
  BY SMT
<1>5. Meaning(i) = Effect(decide_alu_op(op), Source(i.n), Source(i.m), 0, "NZCV",
                          Discarded, "none", Zero, 1, "AL")
  BY SMT DEF Meaning, ComputesFlags, decide_alu_op, ShiftOps
<1>6. Exceptional(i) <=> op = "CMN_RR" /\ 31 \in {i.n, i.m}
  BY SMT DEF Exceptional, StackForZero, WrongShift, WrongOffset, WrongPage, Ignored
<1>7. \/ op = "CMN_RR" /\ entry = "ADDS_RR"
      \/ op = "CMP_RR" /\ entry = "SUBS_RR"
      \/ op = "TST_RR" /\ entry = "ANDS_RR"
  BY SMT
<1> HIDE DEF op, t, entry
<1>8. bitfield_u32(w, 21, 11) = t /\ Rd(w) = 31 /\ Rn(w) = i.n /\ Rm(w) = i.m
  BY <1>1, <1>3, ThreeRegistersFields, SMT
<1> HIDE DEF w
<1>9. OpcodeOf(w) = op
  <2>1. itable[t] = entry
    BY <1>3, TableOpcode, SMT
  <2>2. QED
    BY <2>1, <1>7, <1>8, SMT DEF OpcodeOf, fix_instr_aliases
<1>10. Executed(w, op) = Effect(decide_alu_op(op), regfile(zero31(op, i.n)),
                                regfile(zero31(op, i.m)), 0, "NZCV", Discarded, "none",
                                Zero, 1, "AL")
  <2>1. op \in RegisterOps /\ op # "MVN" /\ SetsFlags(op) /\ op \notin WriteEnabled
    BY <1>4, SMT DEF RegisterOps, SetsFlags, WriteEnabled
  <2>2. QED
    BY <1>8, <2>1, RegisterForm
<1>11. Executed(w, op) = Meaning(i) <=>
        regfile(zero31(op, i.n)) = Source(i.n) /\ regfile(zero31(op, i.m)) = Source(i.m)
  BY <1>5, <1>10, SameEffect
<1>12. \A r \in Nat : r < 32 =>
         (regfile(zero31(op, r)) = Source(r) <=> ~(op = "CMN_RR" /\ r = 31))
  BY <1>4, SMT DEF Source, Reg, Zero, regfile, zero31, XZR
<1>13. QED
  BY <1>1, <1>2, <1>6, <1>9, <1>11, <1>12 DEF TakenFor, AsMeant, op

(* ORR and EOR do what they say, with the zero register everywhere.        *)
LEMMA LogicalTaken ==
  ASSUME NEW i \in Instructions, i.name \in {"ORR", "EOR"}
  PROVE  LET op == IF i.name = "ORR" THEN "ORR_RR" ELSE "EOR_RR"
         IN  TakenFor(i, op) /\ AsMeant(i, op)
<1> DEFINE op == IF i.name = "ORR" THEN "ORR_RR" ELSE "EOR_RR"
           t == IF i.name = "ORR" THEN 1360 ELSE 1616
           w == ThreeRegisters(t, i.d, i.n, i.m)
<1>1. /\ i.d \in Nat /\ i.n \in Nat /\ i.m \in Nat /\ i.d < 32 /\ i.n < 32 /\ i.m < 32
  BY FieldTypes
<1>2. Assemble(i) = w
  BY SMT DEF Assemble, TopOf
<1>3. t \in Nat /\ t < 2048 /\ TableRange(op, t, t) \in init_itable
  BY SMT DEF init_itable
<1>4. op \in {"ORR_RR", "EOR_RR"}
  BY SMT
<1>5. Meaning(i) = Effect(decide_alu_op(op), Source(i.n), Source(i.m), 0, "none",
                          Target(i.d), "none", Zero, 1, "AL")
  BY SMT DEF Meaning, Computes, decide_alu_op, ShiftOps
<1>6. ~Exceptional(i)
  BY SMT DEF Exceptional, StackForZero, WrongShift, WrongOffset, WrongPage, Ignored
<1> HIDE DEF op, t
<1>7. bitfield_u32(w, 21, 11) = t /\ Rd(w) = i.d /\ Rn(w) = i.n /\ Rm(w) = i.m
  BY <1>1, <1>3, ThreeRegistersFields, SMT
<1> HIDE DEF w
<1>8. OpcodeOf(w) = op
  BY <1>3, <1>4, <1>7, PlainOpcode, SMT
<1>9. Executed(w, op) = Effect(decide_alu_op(op), regfile(zero31(op, i.n)),
                               regfile(zero31(op, i.m)), 0, "none", zero31(op, i.d),
                               "none", Zero, 1, "AL")
  <2>1. op \in RegisterOps /\ op # "MVN" /\ ~SetsFlags(op) /\ op \in WriteEnabled
    BY <1>4, SMT DEF RegisterOps, SetsFlags, WriteEnabled
  <2>2. QED
    BY <1>7, <2>1, RegisterForm
<1>10. \A r \in Nat :
         r < 32 => regfile(zero31(op, r)) = Source(r) /\ zero31(op, r) = Target(r)
  BY <1>4, SMT DEF Source, Reg, Zero, regfile, zero31, XZR, Target, Discarded
<1>11. QED
  BY <1>1, <1>2, <1>5, <1>6, <1>8, <1>9, <1>10 DEF TakenFor, AsMeant, op

(* So does MVN, but that it writes SP for the zero register.               *)
LEMMA NotTaken ==
  ASSUME NEW i \in Instructions, i.name = "MVN"
  PROVE  TakenFor(i, "MVN") /\ AsMeant(i, "MVN")
<1> DEFINE w == ThreeRegisters(1361, i.d, 31, i.m)
           x == decode_instr(w, "MVN")
<1>1. i.d \in Nat /\ i.m \in Nat /\ i.d < 32 /\ i.m < 32
  BY FieldTypes
<1>2. Assemble(i) = w
  BY SMT DEF Assemble, TopOf
<1>3. Meaning(i) = Effect("INV", Zero, Source(i.m), 0, "none", Target(i.d), "none", Zero,
                          1, "AL")
  BY SMT DEF Meaning, Computes
<1>4. Exceptional(i) <=> i.d = 31
  BY SMT DEF Exceptional, StackForZero, WrongShift, WrongOffset, WrongPage, Ignored
<1>5. bitfield_u32(w, 21, 11) = 1361 /\ Rd(w) = i.d /\ Rm(w) = i.m
  BY <1>1, ThreeRegistersFields, SMT
<1> HIDE DEF w
<1>6. OpcodeOf(w) = "MVN"
  <2>1. TableRange("MVN", 1361, 1361) \in init_itable
    BY SMT DEF init_itable
  <2>2. QED
    BY <1>5, <2>1, PlainOpcode, SMT
<1>7. extract_regs(w, "MVN") = [src1 |-> noSP(i.m), src2 |-> 0, dst |-> i.d]
  BY <1>5, SMT DEF extract_regs, noSP, RegisterOps, ShiftOps
<1>8. x.val_a = Zero /\ x.val_b = regfile(noSP(i.m)) /\ x.dst = i.d
  BY <1>7, SMT DEF decode_instr
<1>9. /\ x.op = "MVN" /\ x.ALU_op = "INV" /\ ~x.X_sigs.set_flags /\ x.W_sigs.w_enable
      /\ ~x.M_sigs.dmem_read /\ ~x.M_sigs.dmem_write
  <2>1. ~SetsFlags("MVN") /\ "MVN" \in WriteEnabled
    BY SMT DEF SetsFlags, RegisterOps, WriteEnabled
  <2>2. decide_alu_op("MVN") = "INV"
    BY SMT DEF decide_alu_op, ShiftOps
  <2>3. QED
    BY <2>1, <2>2, DecodedControl
<1>10. PredictedOffset(w, "MVN") = 1
  BY SMT DEF PredictedOffset
<1> HIDE DEF x
<1>11. valb(x) = x.val_b
  BY <1>9, SMT DEF valb, RegisterOps, ImmediateOps, ShiftOps
<1>12. Executed(w, "MVN") = Effect("INV", Zero, regfile(noSP(i.m)), 0, "none", i.d, "none",
                                   Zero, 1, "AL")
  BY <1>8, <1>9, <1>10, <1>11, PerformedWriting, SMT DEF Executed, x
<1>13. Executed(w, "MVN") = Meaning(i) <=>
         regfile(noSP(i.m)) = Source(i.m) /\ i.d = Target(i.d)
  BY <1>3, <1>12, SameEffect
<1>14. regfile(noSP(i.m)) = Source(i.m) /\ (i.d = Target(i.d) <=> i.d # 31)
  BY <1>1, SMT DEF Source, Reg, Zero, regfile, noSP, XZR, Target, Discarded
<1>15. QED
  BY <1>2, <1>4, <1>6, <1>13, <1>14 DEF TakenFor, AsMeant

(* Additions and subtractions of an immediate do what they say, with SP.   *)
LEMMA ImmediateTaken ==
  ASSUME NEW i \in Instructions, i.name \in {"ADD", "SUB"}
  PROVE  LET op == IF i.name = "ADD" THEN "ADD_RI" ELSE "SUB_RI"
         IN  TakenFor(i, op) /\ AsMeant(i, op)
<1> DEFINE op == IF i.name = "ADD" THEN "ADD_RI" ELSE "SUB_RI"
           base == IF i.name = "ADD" THEN 1160 ELSE 1672
           last == base + 1
           t == base + i.imm \div 2048
           y == i.imm % 2048
           w == Packed(t, y, i.n, i.d)
           x == decode_instr(w, op)
<1>1. i.d \in Nat /\ i.n \in Nat /\ i.d < 32 /\ i.n < 32 /\ i.imm \in Nat /\ i.imm < 4096
  <2>1. i.imm \in Field(12)
    BY FieldTypes, Zenon DEF Fits
  <2>2. QED
    BY <2>1, FieldTypes, SMT DEF Field
<1>2. Assemble(i) = w
  BY SMT DEF Assemble, TopOf, Packed
<1>3. op \in {"ADD_RI", "SUB_RI"} /\ TableRange(op, base, last) \in init_itable
  BY SMT DEF init_itable
<1>4. /\ base \in Nat /\ t \in Nat /\ t < 2048 /\ base <= t /\ t <= last
      /\ y \in Nat /\ y < 2048
      /\ y + (t % 2) * 2048 = i.imm
  <2> DEFINE q == i.imm \div 2048
  <2>1. base \in Nat /\ base % 2 = 0 /\ base < 2000
    BY SMT
  <2>2. q \in Nat /\ q < 2 /\ i.imm = q * 2048 + y /\ y \in Nat /\ y < 2048
    BY <1>1, SMT
  <2> HIDE DEF base, q, y
  <2>3. (base + q) % 2 = q
    BY <2>1, <2>2, SMT
  <2>4. QED
    BY <1>1, <2>1, <2>2, <2>3, SMT DEF q
<1>5. Meaning(i) = Effect(decide_alu_op(op), Reg(i.n), Imm(i.imm), 0, "none", i.d,
                          "none", Zero, 1, "AL")
  BY SMT DEF Meaning, Computes, decide_alu_op, ShiftOps
<1>6. ~Exceptional(i)
  BY SMT DEF Exceptional, StackForZero, WrongShift, WrongOffset, WrongPage, Ignored
<1> HIDE DEF op, base, last, t, y
<1>7. bitfield_u32(w, 21, 11) = t
  BY <1>4, SMT DEF bitfield_u32, Word32, Packed
<1>8. Rd(w) = i.d /\ Rn(w) = i.n /\ bitfield_u32(w, 10, 12) = i.imm
  BY <1>1, <1>4, PackedRegisters, SMT
<1> HIDE DEF w
<1>9. OpcodeOf(w) = op
  <2>1. op \notin {"UBFM", "SUBS_RR", "ADDS_RR", "ANDS_RR"}
    BY <1>3
  <2>2. QED
    BY <1>3, <1>4, <1>7, <2>1, PlainOpcode, SMT
<1>10. x.val_a = Reg(i.n) /\ x.dst = i.d /\ x.val_imm = i.imm
  <2>1. extract_regs(w, op) = [src1 |-> i.n, src2 |-> 0, dst |-> i.d]
    BY <1>3, <1>8, SMT DEF extract_regs, RegisterOps, ShiftOps
  <2>2. extract_immval(w, op) = i.imm /\ op \in ImmediateOps
    BY <1>3, <1>8, SMT DEF extract_immval, ImmediateOps
  <2>3. regfile(i.n) = Reg(i.n)
    BY <1>1, SMT DEF regfile, XZR
  <2>4. QED
    BY <1>3, <2>1, <2>2, <2>3, SMT DEF decode_instr
<1> HIDE DEF x
<1>11. Executed(w, op) = Effect(decide_alu_op(op), Reg(i.n), Imm(i.imm), 0, "none", i.d,
                                "none", Zero, 1, "AL")
  <2>1. /\ op \in WriteEnabled \ RegisterOps
        /\ op \notin {"BL", "MOVZ", "MOVK", "LDUR"} \cup ShiftOps
    BY <1>3, SMT DEF WriteEnabled, RegisterOps, ShiftOps
  <2>2. QED
    BY <1>10, <2>1, WritingForm, SMT DEF x
<1>12. QED
  BY <1>2, <1>5, <1>6, <1>9, <1>11 DEF TakenFor, AsMeant, op

(* The wide moves do, but that they write SP for the zero register.        *)
LEMMA MoveTaken ==
  ASSUME NEW i \in Instructions, i.name \in {"MOVZ", "MOVK"}
  PROVE  TakenFor(i, i.name) /\ AsMeant(i, i.name)
<1> DEFINE op == i.name
           base == IF i.name = "MOVZ" THEN 1684 ELSE 1940
           last == base + 3
           t == base + i.sel
           a == IF i.name = "MOVZ" THEN Zero ELSE Kept(i.d, i.sel)
           w == PackedWide(t, i.imm, i.d)
           x == decode_instr(w, op)
<1>1. /\ i.d \in Nat /\ i.d < 32 /\ i.imm \in Nat /\ i.imm < 65536
      /\ i.sel \in Nat /\ i.sel < 4
  <2>1. i.imm \in Field(16) /\ i.sel \in Field(2)
    BY FieldTypes, Zenon DEF Fits
  <2>2. QED
    BY <2>1, FieldTypes, SMT DEF Field
<1>2. Assemble(i) = w
  BY SMT DEF Assemble, TopOf, PackedWide
<1>3. op \in {"MOVZ", "MOVK"} /\ TableRange(op, base, last) \in init_itable
  BY SMT DEF init_itable
<1>4. /\ base \in Nat /\ t \in Nat /\ t < 2048 /\ base <= t /\ t <= last
      /\ t % 4 = i.sel
  BY <1>1, SMT
<1>5. Meaning(i) = Effect("MOV", a, Imm(i.imm), 16 * i.sel, "none", Target(i.d),
                          "none", Zero, 1, "AL")
  BY SMT DEF Meaning
<1>6. Exceptional(i) <=> i.d = 31
  BY SMT DEF Exceptional, StackForZero, WrongShift, WrongOffset, WrongPage, Ignored
<1>7. op = "MOVZ" => a = Zero
  OBVIOUS
<1>8. op = "MOVK" => a = Kept(i.d, i.sel)
  BY SMT
<1> HIDE DEF op, base, last, t, a
<1>9. bitfield_u32(w, 21, 11) = t /\ bitfield_u32(w, 21, 2) = i.sel
  BY <1>4, SMT DEF bitfield_u32, Word32, PackedWide
<1>10. Rd(w) = i.d /\ bitfield_u32(w, 5, 16) = i.imm
  BY <1>1, <1>4, PackedImmediate, SMT
<1> HIDE DEF w
<1>11. OpcodeOf(w) = op
  <2>1. op \notin {"UBFM", "SUBS_RR", "ADDS_RR", "ANDS_RR"}
    BY <1>3
  <2>2. itable[t] = op
    BY <1>3, <1>4, TableOpcode
  <2>3. QED
    BY <1>9, <2>1, <2>2 DEF OpcodeOf, fix_instr_aliases
<1>12. x.val_a = a /\ x.dst = i.d /\ x.val_imm = i.imm /\ x.val_hw = 16 * i.sel
  <2>1. extract_regs(w, op) = [src1 |-> 0, src2 |-> 0, dst |-> i.d]
    BY <1>3, <1>10, SMT DEF extract_regs, RegisterOps, ShiftOps
  <2>2. extract_immval(w, op) = i.imm /\ op \in ImmediateOps
    BY <1>3, <1>10, SMT DEF extract_immval, ImmediateOps
  <2>3. QED
    BY <1>1, <1>3, <1>7, <1>8, <1>9, <2>1, <2>2, SMT DEF decode_instr
<1> HIDE DEF x
<1>13. Executed(w, op) = Effect("MOV", a, Imm(i.imm), 16 * i.sel, "none", i.d,
                                "none", Zero, 1, "AL")
  <2>1. op \in WriteEnabled \ RegisterOps /\ op \notin {"BL", "LDUR"} \cup ShiftOps
    BY <1>3, SMT DEF WriteEnabled, RegisterOps, ShiftOps
  <2>2. decide_alu_op(op) = "MOV"
    BY <1>3, SMT DEF decide_alu_op, ShiftOps
  <2>3. QED
    BY <1>3, <1>12, <2>1, <2>2, WritingForm, SMT DEF x
<1>14. Executed(w, op) = Meaning(i) <=> i.d = Target(i.d)
  BY <1>5, <1>13, SameEffect
<1>15. i.d = Target(i.d) <=> i.d # 31
  BY <1>1, SMT DEF Target, Discarded
<1>16. QED
  BY <1>2, <1>6, <1>11, <1>14, <1>15 DEF TakenFor, AsMeant, op

(* The fields of a bit-field move, whose immr straddles the index of the   *)
(* opcode table.                                                           *)
LEMMA BitFieldFields ==
  ASSUME NEW top, NEW immr, NEW imms, NEW n, NEW d,
         top \in Nat, immr \in Nat, imms \in Nat, n \in Nat, d \in Nat,
         top % 2 = 0, top < 2000, immr < 64, imms < 64, n < 32, d < 32
  PROVE  LET w == BitField(top, immr, imms, n, d)
             t == top + immr \div 32
         IN  /\ bitfield_u32(w, 21, 11) = t
             /\ t \in Nat /\ top <= t /\ t <= top + 1
             /\ Rd(w) = d /\ Rn(w) = n
             /\ bitfield_u32(w, 10, 6) = imms
             /\ bitfield_u32(w, 16, 6) = immr
             /\ bitfield_u32(w, 9, 7) = imms * 2 + n \div 16
<1> DEFINE q == immr \div 32
           t == top + q
           r == immr % 32
           x == r * 64 + imms
           w == Packed(t, x, n, d)
<1>1. /\ q \in Nat /\ q < 2 /\ r \in Nat /\ r < 32 /\ immr = q * 32 + r
  BY SMT
<1>2. BitField(top, immr, imms, n, d) = w
  <2>1. BitField(top, immr, imms, n, d) = Word32(t, r * 65536 + imms * 1024 + n * 32 + d)
    BY SMT DEF BitField
  <2> HIDE DEF q, r
  <2>2. r * 65536 + imms * 1024 + n * 32 + d = x * 1024 + n * 32 + d
    BY <1>1, SMT
  <2>3. QED
    BY <2>1, <2>2 DEF Packed
<1> HIDE DEF q, r
<1>3. t \in Nat /\ t < 2048 /\ top <= t /\ t <= top + 1 /\ t % 2 = q
  BY <1>1, SMT
<1>4. x \in Nat /\ x < 2048 /\ x \div 64 = r /\ x % 64 = imms
  BY <1>1, SMT
<1> HIDE DEF t, x
<1>5. bitfield_u32(w, 21, 11) = t
  BY <1>3, SMT DEF bitfield_u32, Word32, Packed
<1>6. /\ Rd(w) = d /\ Rn(w) = n
      /\ bitfield_u32(w, 10, 6) = x % 64
      /\ bitfield_u32(w, 16, 6) = x \div 64 + (t % 2) * 32
      /\ bitfield_u32(w, 9, 7) = (x % 64) * 2 + n \div 16
  BY <1>3, <1>4, PackedRegisters
<1>7. x \div 64 + (t % 2) * 32 = immr
  BY <1>1, <1>3, <1>4, SMT
<1>8. QED
  BY <1>2, <1>3, <1>4, <1>5, <1>6, <1>7 DEF t, q

(* What becomes of a shift: six bits of its immediate are used             *)
(* (instr_Execute.c:43-48).                                                *)
LEMMA ShiftExecuted ==
  ASSUME NEW w, NEW op, op \in ShiftOps, NEW s, extract_immval(w, op) = s,
         NEW n, NEW d, Rn(w) = n, Rd(w) = d, n \in Nat, n < 32
  PROVE  Executed(w, op) = Effect(op, Reg(n), Imm(s % 64), 0, "none", d, "none", Zero, 1,
                                  "AL")
<1> DEFINE x == decode_instr(w, op)
<1>1. op \in {"LSL", "LSR", "ASR"}
  BY DEF ShiftOps
<1>2. x.val_a = Reg(n) /\ x.dst = d /\ x.val_imm = s
  <2>1. extract_regs(w, op) = [src1 |-> n, src2 |-> 0, dst |-> d]
    BY <1>1, SMT DEF extract_regs, RegisterOps, ShiftOps
  <2>2. op \in ImmediateOps
    BY <1>1, SMT DEF ImmediateOps
  <2>3. regfile(n) = Reg(n)
    BY SMT DEF regfile, XZR
  <2>4. QED
    BY <1>1, <2>1, <2>2, <2>3, SMT DEF decode_instr
<1> HIDE DEF x
<1>3. op \in WriteEnabled \ RegisterOps /\ op \notin {"BL", "MOVZ", "MOVK", "LDUR"}
  BY <1>1, SMT DEF WriteEnabled, RegisterOps
<1>4. decide_alu_op(op) = op
  BY <1>1, SMT DEF decide_alu_op, ShiftOps
<1>5. QED
  BY <1>2, <1>3, <1>4, WritingForm, SMT DEF x

(* The alias of an unsigned bit-field move (instr_Fetch.c:105-116).        *)
LEMMA BitFieldOpcode ==
  ASSUME NEW w, bitfield_u32(w, 21, 11) \in {1690, 1691}
  PROVE  OpcodeOf(w) = IF bitfield_u32(w, 10, 6) = 63 THEN "LSR"
                       ELSE IF bitfield_u32(w, 10, 6) + 1 = bitfield_u32(w, 16, 6) THEN "LSL"
                       ELSE Abort
<1>1. TableRange("UBFM", 1690, 1691) \in init_itable
  BY SMT DEF init_itable
<1>2. itable[bitfield_u32(w, 21, 11)] = "UBFM"
  BY <1>1, TableOpcode, SMT
<1>3. QED
  BY <1>2 DEF OpcodeOf, fix_instr_aliases

(* A shift left or a logical shift right is told by its imms and keeps its *)
(* amount; SP stands for the zero register (instr_Decode.c:93-100).        *)
LEMMA ShiftTaken ==
  ASSUME NEW i \in Instructions, i.name \in {"LSL", "LSR"}
  PROVE  LET op == IF i.name = "LSL" /\ i.imm = 0 THEN "LSR" ELSE i.name
         IN  TakenFor(i, op) /\ AsMeant(i, op)
<1> DEFINE op == IF i.name = "LSL" /\ i.imm = 0 THEN "LSR" ELSE i.name
           immr == IF i.name = "LSL" THEN (64 - i.imm) % 64 ELSE i.imm
           imms == IF i.name = "LSL" THEN 63 - i.imm ELSE 63
           w == BitField(1690, immr, imms, i.n, i.d)
<1>1. i.d \in Nat /\ i.n \in Nat /\ i.d < 32 /\ i.n < 32 /\ i.imm \in Nat /\ i.imm < 64
  <2>1. i.imm \in Field(6)
    BY FieldTypes, Zenon DEF Fits
  <2>2. QED
    BY <2>1, FieldTypes, SMT DEF Field
<1>2. Assemble(i) = w
  BY SMT DEF Assemble
<1>3. Meaning(i) = Effect(op, Source(i.n), Imm(i.imm), 0, "none", Target(i.d), "none",
                          Zero, 1, "AL")
  BY SMT DEF Meaning, Computes
<1>4. Exceptional(i) <=> i.d = 31 \/ i.n = 31
  BY SMT DEF Exceptional, StackForZero, WrongShift, WrongOffset, WrongPage, Ignored
<1>5. /\ immr \in Nat /\ imms \in Nat /\ immr < 64 /\ imms < 64
      /\ op = "LSR" => imms = 63 /\ immr = i.imm
      /\ op = "LSL" => imms # 63 /\ imms + 1 = immr /\ (64 - immr) % 64 = i.imm
      /\ op \in {"LSL", "LSR"}
  <2>1. CASE i.name = "LSR"
    BY <1>1, <2>1, SMT
  <2>2. CASE i.name = "LSL" /\ i.imm = 0
    <3>1. op = "LSR" /\ imms = 63 /\ immr = 0
      BY <2>2, SMT
    <3>2. QED
      BY <2>2, <3>1, SMT
  <2>3. CASE i.name = "LSL" /\ i.imm # 0
    <3>1. op = "LSL" /\ imms = 63 - i.imm /\ immr = 64 - i.imm
      BY <1>1, <2>3, SMT
    <3>2. QED
      BY <1>1, <2>3, <3>1, SMT
  <2>4. QED
    BY <2>1, <2>2, <2>3
<1> HIDE DEF op, immr, imms
<1>6. /\ bitfield_u32(w, 21, 11) \in {1690, 1691} /\ Rd(w) = i.d /\ Rn(w) = i.n
      /\ bitfield_u32(w, 10, 6) = imms /\ bitfield_u32(w, 16, 6) = immr
  BY <1>1, <1>5, BitFieldFields, SMT
<1> HIDE DEF w
<1>7. OpcodeOf(w) = op
  BY <1>5, <1>6, BitFieldOpcode
<1>8. extract_immval(w, op) = i.imm
  BY <1>5, <1>6, SMT DEF extract_immval
<1>9. op \in ShiftOps /\ i.imm % 64 = i.imm
  BY <1>1, <1>5, SMT DEF ShiftOps
<1>10. Executed(w, op) = Effect(op, Reg(i.n), Imm(i.imm), 0, "none", i.d, "none", Zero, 1,
                                "AL")
  BY <1>1, <1>6, <1>8, <1>9, ShiftExecuted
<1>11. Executed(w, op) = Meaning(i) <=> Reg(i.n) = Source(i.n) /\ i.d = Target(i.d)
  BY <1>3, <1>10, SameEffect
<1>12. (Reg(i.n) = Source(i.n) <=> i.n # 31) /\ (i.d = Target(i.d) <=> i.d # 31)
  BY <1>1, SMT DEF Source, Reg, Zero, Target, Discarded
<1>13. QED
  BY <1>2, <1>4, <1>7, <1>11, <1>12 DEF TakenFor, AsMeant, op

(* An arithmetic shift right goes by imms and the top bit of Rn, 62 or 63  *)
(* places, whatever amount it names (instr_Decode.c:101-104).              *)
LEMMA ArithmeticShiftTaken ==
  ASSUME NEW i \in Instructions, i.name = "ASR"
  PROVE  TakenFor(i, "ASR") /\ AsMeant(i, "ASR")
<1> DEFINE w == BitField(1178, i.imm, 63, i.n, i.d)
           s == 62 + i.n \div 16
<1>1. i.d \in Nat /\ i.n \in Nat /\ i.d < 32 /\ i.n < 32 /\ i.imm \in Nat /\ i.imm < 64
  <2>1. i.imm \in Field(6)
    BY FieldTypes, Zenon DEF Fits
  <2>2. QED
    BY <2>1, FieldTypes, SMT DEF Field
<1>2. Assemble(i) = w
  BY SMT DEF Assemble
<1>3. Meaning(i) = Effect("ASR", Source(i.n), Imm(i.imm), 0, "none", Target(i.d), "none",
                          Zero, 1, "AL")
  BY SMT DEF Meaning, Computes
<1>4. Exceptional(i) <=> i.d = 31 \/ i.n = 31 \/ i.imm # s
  BY SMT DEF Exceptional, StackForZero, WrongShift, WrongOffset, WrongPage, Ignored
<1>5. /\ bitfield_u32(w, 21, 11) \in {1178, 1179} /\ Rd(w) = i.d /\ Rn(w) = i.n
      /\ bitfield_u32(w, 9, 7) = 126 + i.n \div 16
  BY <1>1, BitFieldFields, SMT
<1> HIDE DEF w
<1>6. OpcodeOf(w) = "ASR"
  <2>1. TableRange("ASR", 1178, 1179) \in init_itable
    BY SMT DEF init_itable
  <2>2. itable[bitfield_u32(w, 21, 11)] = "ASR"
    BY <1>5, <2>1, TableOpcode, SMT
  <2>3. QED
    BY <2>2 DEF OpcodeOf, fix_instr_aliases
<1>7. extract_immval(w, "ASR") = 126 + i.n \div 16
  BY <1>5, SMT DEF extract_immval
<1>8. "ASR" \in ShiftOps /\ (126 + i.n \div 16) % 64 = s
  BY <1>1, SMT DEF ShiftOps
<1> HIDE DEF s
<1>9. Executed(w, "ASR") = Effect("ASR", Reg(i.n), Imm(s), 0, "none", i.d, "none", Zero, 1,
                                  "AL")
  BY <1>1, <1>5, <1>7, <1>8, ShiftExecuted
<1>10. Executed(w, "ASR") = Meaning(i) <=>
         Reg(i.n) = Source(i.n) /\ Imm(s) = Imm(i.imm) /\ i.d = Target(i.d)
  BY <1>3, <1>9, SameEffect
<1>11. (Reg(i.n) = Source(i.n) <=> i.n # 31) /\ (i.d = Target(i.d) <=> i.d # 31)
  BY <1>1, SMT DEF Source, Reg, Zero, Target, Discarded
<1>12. Imm(s) = Imm(i.imm) <=> i.imm = s
  BY DEF Imm
<1>13. QED
  BY <1>2, <1>4, <1>6, <1>10, <1>11, <1>12 DEF TakenFor, AsMeant

(* A bit-field move that is no shift runs into the assertion               *)
(* (instr_Fetch.c:113-116).                                                *)
LEMMA BitFieldAborts ==
  ASSUME NEW i \in Instructions, i.name = "UBFX"
  PROVE  TakenFor(i, Abort)
<1> DEFINE w == BitField(1690, i.imm, i.sel, i.n, i.d)
<1>1. /\ i.d \in Nat /\ i.n \in Nat /\ i.d < 32 /\ i.n < 32 /\ i.imm \in Nat
      /\ i.imm <= i.sel /\ i.sel <= 62 /\ i.sel \in Nat
  <2>1. i.imm \in 0 .. i.sel /\ i.sel \in 0 .. 62
    BY FieldTypes, Zenon DEF Fits
  <2>2. QED
    BY <2>1, FieldTypes, SMT
<1>2. Assemble(i) = w
  BY SMT DEF Assemble
<1>3. i.imm < 64 /\ i.sel < 64 /\ i.sel # 63 /\ i.sel + 1 # i.imm
  BY <1>1, SMT
<1>4. /\ bitfield_u32(w, 21, 11) \in {1690, 1691}
      /\ bitfield_u32(w, 10, 6) = i.sel /\ bitfield_u32(w, 16, 6) = i.imm
  BY <1>1, <1>3, BitFieldFields, SMT
<1> HIDE DEF w
<1>5. QED
  BY <1>2, <1>3, <1>4, BitFieldOpcode DEF TakenFor

(* The fields of a load or store.                                          *)
LEMMA OffsetFields ==
  ASSUME NEW i \in Instructions, i.name \in {"LDUR", "STUR"}
  PROVE  LET w == Assemble(i)
         IN  /\ OpcodeOf(w) = i.name
             /\ Rd(w) = i.d /\ Rn(w) = i.n
             /\ bitfield_s64(w, 12, 9) = i.imm
             /\ i.imm \in Int /\ i.d \in Nat /\ i.n \in Nat /\ i.d < 32 /\ i.n < 32
             /\ -256 <= i.imm /\ i.imm < 256
<1> DEFINE t == IF i.name = "LDUR" THEN 1986 ELSE 1984
           bits == Bits(i.imm, 9)
           x == bits * 4
           w == Packed(t, x, i.n, i.d)
<1>1. /\ i.d \in Nat /\ i.n \in Nat /\ i.d < 32 /\ i.n < 32
      /\ i.imm \in Int /\ -256 <= i.imm /\ i.imm < 256
  <2>1. i.imm \in SignedField(9)
    BY FieldTypes, Zenon DEF Fits
  <2>2. QED
    BY <2>1, FieldTypes, SMT DEF SignedField
<1>2. /\ bits \in Nat /\ bits < 512
      /\ bits = IF i.imm < 0 THEN i.imm + 512 ELSE i.imm
  BY <1>1, SMT DEF Bits
<1> HIDE DEF bits
<1>3. x \in Nat /\ x < 2048 /\ x \div 4 = bits
  BY <1>2, SMT
<1>4. Assemble(i) = w
  <2>1. Assemble(i) = Word32(t, bits * 4096 + i.n * 32 + i.d)
    BY SMT DEF Assemble, TopOf, bits
  <2>2. bits * 4096 + i.n * 32 + i.d = x * 1024 + i.n * 32 + i.d
    BY <1>1, <1>2, SMT
  <2>3. QED
    BY <2>1, <2>2 DEF Packed
<1>5. t \in Nat /\ t < 2048 /\ TableRange(i.name, t, t) \in init_itable
  BY SMT DEF init_itable
<1> HIDE DEF t, x
<1>6. /\ bitfield_u32(w, 21, 11) = t
  BY <1>5, SMT DEF bitfield_u32, Word32, Packed
<1>7. Rd(w) = i.d /\ Rn(w) = i.n /\ bitfield_u32(w, 12, 9) = bits
  BY <1>1, <1>3, <1>5, PackedRegisters
<1> HIDE DEF w
<1>8. OpcodeOf(w) = i.name
  <2>1. itable[t] = i.name
    BY <1>5, TableOpcode, SMT
  <2>2. QED
    BY <1>6, <2>1 DEF OpcodeOf, fix_instr_aliases
<1>9. bitfield_s64(w, 12, 9) = i.imm
  BY <1>1, <1>2, <1>7, SMT DEF bitfield_s64
<1>10. QED
  BY <1>1, <1>4, <1>7, <1>8, <1>9

(* A uint8_t keeps an offset exactly when it is one.                       *)
LEMMA OffsetByte ==
  ASSUME NEW v, v \in Int, -256 <= v, v < 256
  PROVE  Imm(v % 256) = Imm(v) <=> v \in 0 .. 255
<1>1. v % 256 = v <=> v \in 0 .. 255
  BY SMT
<1>2. Imm(v % 256) = Imm(v) <=> v % 256 = v
  BY DEF Imm
<1>3. QED
  BY <1>1, <1>2

(* A load does what it says when a uint8_t holds its offset                *)
(* (instr_Decode.c:239-247).                                               *)
LEMMA LoadTaken ==
  ASSUME NEW i \in Instructions, i.name = "LDUR"
  PROVE  TakenFor(i, "LDUR") /\ AsMeant(i, "LDUR")
<1> DEFINE w == Assemble(i)
           x == decode_instr(w, "LDUR")
<1>1. /\ i.imm \in Int /\ i.d \in Nat /\ i.n \in Nat /\ i.d < 32 /\ i.n < 32
      /\ -256 <= i.imm /\ i.imm < 256
  BY OffsetFields
<1>2. OpcodeOf(w) = "LDUR" /\ Rd(w) = i.d /\ Rn(w) = i.n /\ bitfield_s64(w, 12, 9) = i.imm
  BY OffsetFields
<1>3. Meaning(i) = Effect("PLUS", Reg(i.n), Imm(i.imm), 0, "none", Target(i.d), "read",
                          Zero, 1, "AL")
  BY SMT DEF Meaning
<1>4. Exceptional(i) <=> i.imm \notin 0 .. 255
  BY SMT DEF Exceptional, StackForZero, WrongShift, WrongOffset, WrongPage, Ignored
<1> HIDE DEF w
<1>5. x.val_a = Reg(i.n) /\ x.dst = noSP(i.d) /\ x.val_imm = i.imm % 256
  <2>1. extract_regs(w, "LDUR") = [src1 |-> i.n, src2 |-> i.imm % 256, dst |-> noSP(i.d)]
    BY <1>2, SMT DEF extract_regs, RegisterOps, ShiftOps, noSP
  <2>2. regfile(i.n) = Reg(i.n)
    BY <1>1, SMT DEF regfile, XZR
  <2>3. QED
    BY <2>1, <2>2, SMT DEF decode_instr
<1> HIDE DEF x
<1>6. Executed(w, "LDUR") = Effect("PLUS", Reg(i.n), Imm(i.imm % 256), 0, "none",
                                   noSP(i.d), "read", Zero, 1, "AL")
  <2>1. "LDUR" \in WriteEnabled \ RegisterOps /\ "LDUR" \notin ShiftOps
    BY SMT DEF WriteEnabled, RegisterOps, ShiftOps
  <2>2. decide_alu_op("LDUR") = "PLUS"
    BY SMT DEF decide_alu_op, ShiftOps
  <2>3. QED
    BY <1>5, <2>1, <2>2, WritingForm, SMT DEF x
<1>7. Executed(w, "LDUR") = Meaning(i) <=>
        Imm(i.imm % 256) = Imm(i.imm) /\ noSP(i.d) = Target(i.d)
  BY <1>3, <1>6, SameEffect
<1>8. noSP(i.d) = Target(i.d)
  BY SMT DEF noSP, Target, XZR, Discarded
<1>9. QED
  BY <1>1, <1>2, <1>4, <1>7, <1>8, OffsetByte DEF TakenFor, AsMeant, w

(* So does a store.                                                        *)
LEMMA StoreTaken ==
  ASSUME NEW i \in Instructions, i.name = "STUR"
  PROVE  TakenFor(i, "STUR") /\ AsMeant(i, "STUR")
<1> DEFINE w == Assemble(i)
           x == decode_instr(w, "STUR")
<1>1. /\ i.imm \in Int /\ i.d \in Nat /\ i.n \in Nat /\ i.d < 32 /\ i.n < 32
      /\ -256 <= i.imm /\ i.imm < 256
  BY OffsetFields
<1>2. OpcodeOf(w) = "STUR" /\ Rd(w) = i.d /\ Rn(w) = i.n /\ bitfield_s64(w, 12, 9) = i.imm
  BY OffsetFields
<1>3. Meaning(i) = Effect("PLUS", Reg(i.n), Imm(i.imm), 0, "none", Discarded, "write",
                          Source(i.d), 1, "AL")
  BY SMT DEF Meaning
<1>4. Exceptional(i) <=> i.imm \notin 0 .. 255
  BY SMT DEF Exceptional, StackForZero, WrongShift, WrongOffset, WrongPage, Ignored
<1> HIDE DEF w
<1>5. /\ x.val_a = Reg(i.n) /\ x.val_b = regfile(noSP(i.d)) /\ x.val_imm = i.imm % 256
  <2>1. extract_regs(w, "STUR") = [src1 |-> i.n, src2 |-> i.imm % 256, dst |-> noSP(i.d)]
    BY <1>2, SMT DEF extract_regs, RegisterOps, ShiftOps, noSP
  <2>2. regfile(i.n) = Reg(i.n)
    BY <1>1, SMT DEF regfile, XZR
  <2>3. QED
    BY <2>1, <2>2, SMT DEF decode_instr
<1> HIDE DEF x
<1>6. Executed(w, "STUR") = Effect("PLUS", Reg(i.n), Imm(i.imm % 256), 0, "none",
                                   Discarded, "write", regfile(noSP(i.d)), 1, "AL")
  BY <1>5, StoreForm DEF x
<1>7. Executed(w, "STUR") = Meaning(i) <=>
        Imm(i.imm % 256) = Imm(i.imm) /\ regfile(noSP(i.d)) = Source(i.d)
  BY <1>3, <1>6, SameEffect
<1>8. regfile(noSP(i.d)) = Source(i.d)
  BY <1>1, SMT DEF noSP, Source, XZR, regfile
<1>9. QED
  BY <1>1, <1>2, <1>4, <1>7, <1>8, OffsetByte DEF TakenFor, AsMeant, w

(* An ADRP finds its page but where the low two bits count as negative     *)
(* (instr_Decode.c:83-92).                                                 *)
LEMMA PageTaken ==
  ASSUME NEW i \in Instructions, i.name = "ADRP"
  PROVE  TakenFor(i, "ADRP") /\ AsMeant(i, "ADRP")
<1> DEFINE bits == Bits(i.imm, 21)
           lo == bits % 4
           hi == bits \div 4
           h  == hi \div 65536
           y  == hi % 65536
           t  == 1152 + lo * 256 + h
           w  == PackedWide(t, y, i.d)
           x  == decode_instr(w, "ADRP")
<1>1. /\ i.d \in Nat /\ i.d < 32 /\ i.imm \in Int /\ -1048576 <= i.imm /\ i.imm < 1048576
  <2>1. i.imm \in SignedField(21)
    BY FieldTypes, Zenon DEF Fits
  <2>2. QED
    BY <2>1, FieldTypes, SMT DEF SignedField
<1>2. /\ bits \in Nat /\ bits < 2097152
      /\ bits = IF i.imm < 0 THEN i.imm + 2097152 ELSE i.imm
  BY <1>1, SMT DEF Bits
<1>3. Assemble(i) = w
  BY SMT DEF Assemble, PackedWide
<1> HIDE DEF bits
<1>4. /\ lo \in Nat /\ lo < 4 /\ hi \in Nat /\ hi < 524288 /\ bits = 4 * hi + lo
      /\ lo = i.imm % 4
  BY <1>1, <1>2, SMT
<1> HIDE DEF lo, hi
<1>5. h \in Nat /\ h < 8 /\ y \in Nat /\ y < 65536 /\ hi = h * 65536 + y
  BY <1>4, SMT
<1> HIDE DEF h, y
<1>6. /\ t \in Nat /\ t < 2048 /\ t % 8 = h /\ (t \div 256) % 4 = lo
      /\ \/ 1152 <= t /\ t <= 1159
         \/ 1408 <= t /\ t <= 1415
         \/ 1664 <= t /\ t <= 1671
         \/ 1920 <= t /\ t <= 1927
  <2>1. \/ lo = 0 /\ t = 1152 + h
        \/ lo = 1 /\ t = 1408 + h
        \/ lo = 2 /\ t = 1664 + h
        \/ lo = 3 /\ t = 1920 + h
    BY <1>4, SMT
  <2> HIDE DEF t
  <2>2. QED
    BY <1>5, <2>1, SMT
<1> HIDE DEF t
<1>7. bitfield_u32(w, 21, 11) = t /\ bitfield_u32(w, 29, 2) = lo
  BY <1>6, SMT DEF bitfield_u32, Word32, PackedWide
<1>8. Rd(w) = i.d /\ bitfield_u32(w, 5, 19) = hi
  BY <1>1, <1>5, <1>6, PackedImmediate
<1> HIDE DEF w
<1>9. OpcodeOf(w) = "ADRP"
  <2>1. /\ TableRange("ADRP", 1152, 1159) \in init_itable
        /\ TableRange("ADRP", 1408, 1415) \in init_itable
        /\ TableRange("ADRP", 1664, 1671) \in init_itable
        /\ TableRange("ADRP", 1920, 1927) \in init_itable
    BY SMT DEF init_itable
  <2>2. itable[t] = "ADRP"
    BY <1>6, <2>1, TableOpcode, SMT
  <2>3. QED
    BY <1>7, <2>2 DEF OpcodeOf, fix_instr_aliases
<1>10. /\ AdrpPages(w) \in Int
       /\ AdrpPages(w) = i.imm <=> ~(i.imm % 4 > 1 /\ i.imm \notin {-2, -1})
  BY <1>1, <1>2, <1>4, <1>7, <1>8, SMT DEF AdrpPages, bitfield_s64
<1>11. x.val_a = PageOfPC /\ x.dst = i.d /\ x.val_imm = AdrpPages(w)
  <2>1. extract_regs(w, "ADRP") = [src1 |-> 0, src2 |-> 0, dst |-> i.d]
    BY <1>8, SMT DEF extract_regs, RegisterOps, ShiftOps
  <2>2. extract_immval(w, "ADRP") = AdrpPages(w) /\ "ADRP" \in ImmediateOps
    BY SMT DEF extract_immval, ImmediateOps
  <2>3. QED
    BY <2>1, <2>2, SMT DEF decode_instr
<1> HIDE DEF x
<1>12. Executed(w, "ADRP") = Effect("PLUS", PageOfPC, Imm(AdrpPages(w)), 0, "none", i.d,
                                    "none", Zero, 1, "AL")
  <2>1. "ADRP" \in WriteEnabled \ RegisterOps /\ "ADRP" \notin ShiftOps
    BY SMT DEF WriteEnabled, RegisterOps, ShiftOps
  <2>2. decide_alu_op("ADRP") = "PLUS"
    BY SMT DEF decide_alu_op, ShiftOps
  <2>3. QED
    BY <1>11, <2>1, <2>2, WritingForm, SMT DEF x
<1>13. Meaning(i) = Effect("PLUS", PageOfPC, Imm(i.imm), 0, "none", Target(i.d), "none",
                           Zero, 1, "AL")
  BY SMT DEF Meaning, Computes
<1>14. Exceptional(i) <=> i.d = 31 \/ (i.imm % 4 > 1 /\ i.imm \notin {-2, -1})
  BY SMT DEF Exceptional, StackForZero, WrongShift, WrongOffset, WrongPage, Ignored
<1>15. Executed(w, "ADRP") = Meaning(i) <=>
         Imm(AdrpPages(w)) = Imm(i.imm) /\ i.d = Target(i.d)
  BY <1>12, <1>13, SameEffect
<1>16. Imm(AdrpPages(w)) = Imm(i.imm) <=> AdrpPages(w) = i.imm
  BY DEF Imm
<1>17. i.d = Target(i.d) <=> i.d # 31
  BY <1>1, SMT DEF Target, Discarded
<1>18. QED
  BY <1>3, <1>9, <1>10, <1>14, <1>15, <1>16, <1>17 DEF TakenFor, AsMeant

(* A branch goes where it says (instr_Fetch.c:57-86).                      *)
LEMMA BranchTaken ==
  ASSUME NEW i \in Instructions, i.name \in {"B", "BL"}
  PROVE  TakenFor(i, i.name) /\ AsMeant(i, i.name)
<1> DEFINE base == IF i.name = "B" THEN 160 ELSE 1184
           bits == Bits(i.imm, 26)
           hi   == bits \div 2097152
           lo   == bits % 2097152
           t    == base + hi
           w    == Word32(t, lo)
<1>1. i.imm \in Int /\ -33554432 <= i.imm /\ i.imm < 33554432
  <2>1. i.imm \in SignedField(26)
    BY FieldTypes, Zenon DEF Fits
  <2>2. QED
    BY <2>1, FieldTypes, SMT DEF SignedField
<1>2. /\ bits \in Nat /\ bits < 67108864
      /\ bits = IF i.imm < 0 THEN i.imm + 67108864 ELSE i.imm
  BY <1>1, SMT DEF Bits
<1>3. Assemble(i) = w
  BY SMT DEF Assemble
<1> HIDE DEF bits
<1>4. hi \in Nat /\ hi < 32 /\ lo \in Nat /\ bits = lo + hi * 2097152
  BY <1>2, SMT
<1>5. /\ base \in {160, 1184} /\ TableRange(i.name, base, base + 31) \in init_itable
  BY SMT DEF init_itable
<1> HIDE DEF hi, lo, base
<1>6. t \in Nat /\ t < 2048 /\ base <= t /\ t <= base + 31 /\ t % 32 = hi /\ base \in Nat
  BY <1>4, <1>5, SMT
<1> HIDE DEF t
<1>7. bitfield_u32(w, 21, 11) = t /\ bitfield_u32(w, 0, 26) = bits
  BY <1>4, <1>6, SMT DEF bitfield_u32, Word32
<1> HIDE DEF w
<1>8. OpcodeOf(w) = i.name
  <2>1. itable[t] = i.name
    BY <1>5, <1>6, TableOpcode, SMT
  <2>2. QED
    BY <1>7, <2>1 DEF OpcodeOf, fix_instr_aliases
<1>9. PredictedOffset(w, i.name) = i.imm
  <2>1. bitfield_s64(w, 0, 26) = i.imm
    BY <1>1, <1>2, <1>7, SMT DEF bitfield_s64
  <2>2. QED
    BY <2>1, SMT DEF PredictedOffset
<1>10. ~Exceptional(i)
  BY SMT DEF Exceptional, StackForZero, WrongShift, WrongOffset, WrongPage, Ignored
<1>11. CASE i.name = "B"
  <2>1. Meaning(i) = Goes(i.imm, "AL", Zero)
    BY <1>11, SMT DEF Meaning
  <2>2. Executed(w, "B") = Goes(i.imm, "AL", Zero)
    BY <1>9, <1>11, IdleForm, SMT
  <2>3. QED
    BY <1>3, <1>8, <1>10, <1>11, <2>1, <2>2 DEF TakenFor, AsMeant
<1>12. CASE i.name = "BL"
  <2>1. Meaning(i) = Effect("PASS_A", Link, Zero, 0, "none", 30, "none", Zero, i.imm, "AL")
    BY <1>12, SMT DEF Meaning
  <2>2. QED
    BY <1>3, <1>8, <1>9, <1>10, <1>12, <2>1, CallForm DEF TakenFor, AsMeant
<1>13. QED
  BY <1>11, <1>12

(* So does a conditional one, under the condition in its word              *)
(* (instr_Decode.c:360-362).                                               *)
LEMMA ConditionalTaken ==
  ASSUME NEW i \in Instructions, i.name = "BCOND"
  PROVE  /\ TakenFor(i, "B_COND") /\ AsMeant(i, "B_COND")
         /\ bitfield_u32(Assemble(i), 0, 4) = i.sel /\ i.sel \in 0 .. 15
<1> DEFINE bits == Bits(i.imm, 19)
           hi   == bits \div 65536
           lo   == bits % 65536
           t    == 672 + hi
           w    == PackedWide(t, lo, i.sel)
<1>1. /\ i.imm \in Int /\ -262144 <= i.imm /\ i.imm < 262144
      /\ i.sel \in Nat /\ i.sel < 16
  <2>1. i.imm \in SignedField(19) /\ i.sel \in Field(4)
    BY FieldTypes, Zenon DEF Fits
  <2>2. QED
    BY <2>1, FieldTypes, SMT DEF SignedField, Field
<1>2. /\ bits \in Nat /\ bits < 524288
      /\ bits = IF i.imm < 0 THEN i.imm + 524288 ELSE i.imm
  BY <1>1, SMT DEF Bits
<1>3. Assemble(i) = w
  BY SMT DEF Assemble, PackedWide
<1> HIDE DEF bits
<1>4. hi \in Nat /\ hi < 8 /\ lo \in Nat /\ lo < 65536 /\ bits = lo + hi * 65536
  BY <1>2, SMT
<1> HIDE DEF hi, lo
<1>5. t \in Nat /\ t < 2048 /\ 672 <= t /\ t <= 679 /\ t % 8 = hi
  BY <1>4, SMT
<1> HIDE DEF t
<1>6. bitfield_u32(w, 21, 11) = t
  BY <1>5, SMT DEF bitfield_u32, Word32, PackedWide
<1>7. bitfield_u32(w, 5, 19) = bits /\ bitfield_u32(w, 0, 4) = i.sel
  <2>1. bitfield_u32(w, 5, 19) = lo + (t % 8) * 65536 /\ bitfield_u32(w, 0, 4) = i.sel % 16
    BY <1>1, <1>4, <1>5, PackedImmediate, SMT
  <2>2. QED
    BY <1>1, <1>4, <1>5, <2>1, SMT
<1> HIDE DEF w
<1>8. OpcodeOf(w) = "B_COND"
  <2>1. TableRange("B_COND", 672, 679) \in init_itable
    BY SMT DEF init_itable
  <2>2. itable[t] = "B_COND"
    BY <1>5, <2>1, TableOpcode, SMT
  <2>3. QED
    BY <1>6, <2>2 DEF OpcodeOf, fix_instr_aliases
<1>9. PredictedOffset(w, "B_COND") = i.imm
  <2>1. bitfield_s64(w, 5, 19) = i.imm
    BY <1>1, <1>2, <1>7, SMT DEF bitfield_s64
  <2>2. QED
    BY <2>1, SMT DEF PredictedOffset
<1>10. ~Exceptional(i)
  BY SMT DEF Exceptional, StackForZero, WrongShift, WrongOffset, WrongPage, Ignored
<1>11. Meaning(i) = Goes(i.imm, ConditionNumber[i.sel], Zero)
  BY SMT DEF Meaning
<1>12. Executed(w, "B_COND") = Goes(i.imm, ConditionNumber[i.sel], Zero)
  BY <1>7, <1>9, IdleForm, SMT
<1>13. i.sel \in 0 .. 15
  BY <1>1, SMT
<1>14. QED
  BY <1>3, <1>7, <1>8, <1>10, <1>11, <1>12, <1>13 DEF TakenFor, AsMeant

(* A return goes where its register says, SP standing for the zero         *)
(* register.                                                               *)
LEMMA ReturnTaken ==
  ASSUME NEW i \in Instructions, i.name = "RET"
  PROVE  TakenFor(i, "RET") /\ AsMeant(i, "RET")
<1> DEFINE w == Packed(1714, 1984, i.n, 0)
<1>1. i.n \in Nat /\ i.n < 32
  BY FieldTypes
<1>2. Assemble(i) = w
  BY <1>1, SMT DEF Assemble, Packed
<1>3. bitfield_u32(w, 21, 11) = 1714 /\ Rn(w) = i.n
  <2>1. bitfield_u32(w, 21, 11) = 1714
    BY SMT DEF bitfield_u32, Word32, Packed
  <2>2. Rn(w) = i.n
    BY <1>1, PackedRegisters, SMT
  <2>3. QED
    BY <2>1, <2>2
<1> HIDE DEF w
<1>4. OpcodeOf(w) = "RET"
  <2>1. TableRange("RET", 1714, 1714) \in init_itable
    BY SMT DEF init_itable
  <2>2. itable[bitfield_u32(w, 21, 11)] = "RET"
    BY <1>3, <2>1, TableOpcode, SMT
  <2>3. QED
    BY <2>2 DEF OpcodeOf, fix_instr_aliases
<1>5. Meaning(i) = Computes("PASS_A", Source(i.n), Zero, Discarded)
  BY SMT DEF Meaning
<1>6. Executed(w, "RET") = Computes("PASS_A", Reg(i.n), Zero, Discarded)
  BY <1>3, ReturnForm
<1>7. Executed(w, "RET") = Meaning(i) <=> Reg(i.n) = Source(i.n)
  BY <1>5, <1>6, SameEffect DEF Computes
<1>8. Exceptional(i) <=> i.n = 31
  BY SMT DEF Exceptional, StackForZero, WrongShift, WrongOffset, WrongPage, Ignored
<1>9. Reg(i.n) = Source(i.n) <=> i.n # 31
  BY <1>1, SMT DEF Source, Reg, Zero
<1>10. QED
  BY <1>2, <1>4, <1>7, <1>8, <1>9 DEF TakenFor, AsMeant

(* The opcode table is indexed with the top of a word.                     *)
LEMMA WordTop ==
  ASSUME NEW t, NEW l, t \in Nat, t < 2048
  PROVE  bitfield_u32(Word32(t, l), 21, 11) = t
  BY SMT DEF bitfield_u32, Word32

(* An undefined word is no entry of the table.                             *)
LEMMA NoInstruction ==
  itable[0] = "ERROR"
<1> DEFINE ranges == {r \in init_itable : r.first <= 0 /\ 0 <= r.last}
<1>1. ranges = {}
  BY SMT DEF init_itable, TableRange
<1>2. itable[0] = IF ranges = {} THEN "ERROR" ELSE (CHOOSE s \in ranges : TRUE).op
  BY SMT DEF itable
<1>3. QED
  BY <1>1, <1>2

(* NOP, HLT and an undefined word do nothing.                              *)
LEMMA NothingTaken ==
  ASSUME NEW i \in Instructions, i.name \in {"NOP", "HLT", "UDF"}
  PROVE  LET op == IF i.name = "UDF" THEN "ERROR" ELSE i.name
         IN  TakenFor(i, op) /\ AsMeant(i, op)
<1> DEFINE op == IF i.name = "UDF" THEN "ERROR" ELSE i.name
           t  == CASE i.name = "NOP" -> 1704 [] i.name = "HLT" -> 1698
                   [] i.name = "UDF" -> 0
           l  == CASE i.name = "NOP" -> 204831 [] i.name = "HLT" -> i.imm * 32
                   [] i.name = "UDF" -> i.imm
           w  == Word32(t, l)
<1>1. Assemble(i) = w
  BY SMT DEF Assemble
<1>2. op \in {"NOP", "HLT", "ERROR"}
  BY SMT
<1>3. t \in Nat /\ t < 2048
  BY SMT
<1>4. itable[t] = op
  <2>1. /\ TableRange("NOP", 1704, 1704) \in init_itable
        /\ TableRange("HLT", 1698, 1698) \in init_itable
    BY SMT DEF init_itable
  <2>2. itable[1704] = "NOP" /\ itable[1698] = "HLT" /\ itable[0] = "ERROR"
    BY <2>1, TableOpcode, NoInstruction, SMT
  <2>3. QED
    BY <2>2, SMT
<1>5. Meaning(i) = Goes(1, "AL", Zero)
  BY SMT DEF Meaning
<1>6. ~Exceptional(i)
  BY SMT DEF Exceptional, StackForZero, WrongShift, WrongOffset, WrongPage, Ignored
<1> HIDE DEF op, t, l
<1>7. bitfield_u32(w, 21, 11) = t
  BY <1>3, WordTop
<1> HIDE DEF w
<1>8. OpcodeOf(w) = op
  BY <1>2, <1>4, <1>7 DEF OpcodeOf, fix_instr_aliases
<1>9. PredictedOffset(w, op) = 1
  BY <1>2, SMT DEF PredictedOffset
<1>10. Executed(w, op) = Goes(1, "AL", Zero)
  BY <1>2, <1>9, IdleForm, SMT
<1>11. QED
  BY <1>1, <1>5, <1>6, <1>8, <1>10 DEF TakenFor, AsMeant, op

(* The extra credit is in the opcode table and does nothing of what it     *)
(* says.                                                                   *)
LEMMA ExtraCreditIgnored ==
  ASSUME NEW i \in Instructions,
         i.name \in {"CSEL", "CSNEG", "CBZ", "CBNZ", "BR", "BLR"}
  PROVE  TakenFor(i, i.name) /\ AsMeant(i, i.name)
<1> DEFINE first == TopOf[i.name]
           last  == IF i.name \in {"CBZ", "CBNZ"} THEN first + 7 ELSE first
           bits  == Bits(i.imm, 19)
           t     == IF i.name \in {"CBZ", "CBNZ"} THEN first + bits \div 65536 ELSE first
           w     == Assemble(i)
<1>1. /\ first \in Nat /\ first < 2000 /\ last < 2048
      /\ TableRange(i.name, first, last) \in init_itable
  BY SMT DEF init_itable, TopOf
<1>2. PICK l : w = Word32(t, l)
  <2>1. CASE i.name \in {"CSEL", "CSNEG"}
    BY <2>1, SMT DEF Assemble
  <2>2. CASE i.name \in {"CBZ", "CBNZ"}
    BY <2>2, SMT DEF Assemble
  <2>3. CASE i.name \in {"BR", "BLR"}
    BY <2>3, SMT DEF Assemble
  <2>4. QED
    BY <2>1, <2>2, <2>3
<1>3. t \in Nat /\ t < 2048 /\ first <= t /\ t <= last
  <2>1. CASE i.name \in {"CBZ", "CBNZ"}
    <3>1. i.imm \in SignedField(19)
      BY <2>1, FieldTypes, Zenon DEF Fits
    <3>2. bits \in Nat /\ bits < 524288
      BY <3>1, SMT DEF SignedField, Bits
    <3>3. bits \div 65536 \in 0 .. 7
      BY <3>2, SMT
    <3>4. t = first + bits \div 65536 /\ last = first + 7
      BY <2>1
    <3> HIDE DEF first, t, last, bits
    <3>5. QED
      BY <1>1, <3>3, <3>4, SMT
  <2>2. CASE i.name \notin {"CBZ", "CBNZ"}
    <3>1. t = first /\ last = first
      BY <2>2
    <3> HIDE DEF first, t, last
    <3>2. QED
      BY <1>1, <3>1, SMT
  <2>3. QED
    BY <2>1, <2>2
<1> HIDE DEF first, last, t, w
<1>4. OpcodeOf(w) = i.name
  <2>1. bitfield_u32(w, 21, 11) = t
    BY <1>2, <1>3, WordTop
  <2>2. itable[t] = i.name
    BY <1>1, <1>3, TableOpcode, SMT
  <2>3. QED
    BY <2>1, <2>2 DEF OpcodeOf, fix_instr_aliases
<1>5. PredictedOffset(w, i.name) = 1
  BY SMT DEF PredictedOffset
<1>6. Executed(w, i.name) = Goes(1, "AL", Zero)
  BY <1>5, IdleForm, SMT
<1>7. Executed(w, i.name).alu = "none" /\ Executed(w, i.name).cond = "AL"
  BY <1>6, SMT DEF Goes, Effect
<1>8. Meaning(i).alu # "none" \/ Meaning(i).cond # "AL"
  <2>1. CASE i.name \in {"CSEL", "CSNEG"}
    BY <2>1, SMT DEF Meaning, Effect
  <2>2. CASE i.name \in {"CBZ", "CBNZ"}
    BY <2>2, SMT DEF Meaning, Goes, Effect
  <2>3. CASE i.name = "BR"
    BY <2>3, SMT DEF Meaning, Computes, Effect
  <2>4. CASE i.name = "BLR"
    BY <2>4, SMT DEF Meaning, Computes, Effect
  <2>5. QED
    BY <2>1, <2>2, <2>3, <2>4
<1>9. Exceptional(i)
  BY DEF Exceptional, Ignored
<1>10. QED
  BY <1>4, <1>7, <1>8, <1>9 DEF TakenFor, AsMeant, w

(* All together: the assertion fails for a bit-field move that is no shift *)
(* and for nothing else, every other instruction does what it says but for *)
(* the five kinds, and a conditional branch is the only one taken for one. *)
LEMMA EveryInstruction ==
  ASSUME NEW i \in Instructions
  PROVE  /\ OpcodeOf(Assemble(i)) = Abort <=> i.name = "UBFX"
         /\ i.name # "UBFX" => AsMeant(i, OpcodeOf(Assemble(i)))
         /\ OpcodeOf(Assemble(i)) = "B_COND" <=> i.name = "BCOND"
<1>1. CASE i.name = "UBFX"
  BY <1>1, BitFieldAborts DEF TakenFor, Abort
<1>2. CASE i.name # "UBFX"
  <2> DEFINE op == OpcodeOf(Assemble(i))
  <2>0. i.name \in Names
    BY FieldTypes
  <2>1. AsMeant(i, op) /\ op # Abort /\ (op = "B_COND" <=> i.name = "BCOND")
    <3>1. CASE i.name \in {"ADDS", "SUBS", "ANDS"}
      BY <3>1, ArithmeticTaken DEF TakenFor, Abort
    <3>2. CASE i.name \in {"CMN", "CMP", "TST"}
      BY <3>2, CompareTaken DEF TakenFor, Abort
    <3>3. CASE i.name \in {"ORR", "EOR"}
      BY <3>3, LogicalTaken DEF TakenFor, Abort
    <3>4. CASE i.name = "MVN"
      BY <3>4, NotTaken DEF TakenFor, Abort
    <3>5. CASE i.name \in {"ADD", "SUB"}
      BY <3>5, ImmediateTaken DEF TakenFor, Abort
    <3>6. CASE i.name \in {"MOVZ", "MOVK"}
      BY <3>6, MoveTaken DEF TakenFor, Abort
    <3>7. CASE i.name \in {"LSL", "LSR"}
      BY <3>7, ShiftTaken DEF TakenFor, Abort
    <3>8. CASE i.name = "ASR"
      BY <3>8, ArithmeticShiftTaken DEF TakenFor, Abort
    <3>9. CASE i.name = "LDUR"
      BY <3>9, LoadTaken DEF TakenFor, Abort
    <3>10. CASE i.name = "STUR"
      BY <3>10, StoreTaken DEF TakenFor, Abort
    <3>11. CASE i.name = "ADRP"
      BY <3>11, PageTaken DEF TakenFor, Abort
    <3>12. CASE i.name \in {"B", "BL"}
      BY <3>12, BranchTaken DEF TakenFor, Abort
    <3>13. CASE i.name = "BCOND"
      BY <3>13, ConditionalTaken DEF TakenFor, Abort
    <3>14. CASE i.name = "RET"
      BY <3>14, ReturnTaken DEF TakenFor, Abort
    <3>15. CASE i.name \in {"NOP", "HLT", "UDF"}
      BY <3>15, NothingTaken DEF TakenFor, Abort
    <3>16. CASE i.name \in {"CSEL", "CSNEG", "CBZ", "CBNZ", "BR", "BLR"}
      BY <3>16, ExtraCreditIgnored DEF TakenFor, Abort
    <3>17. QED
      BY <1>2, <2>0, <3>1, <3>2, <3>3, <3>4, <3>5, <3>6, <3>7, <3>8, <3>9, <3>10,
         <3>11, <3>12, <3>13, <3>14, <3>15, <3>16 DEF Names
  <2>2. QED
    BY <1>2, <2>1
<1>3. QED
  BY <1>1, <1>2

-----------------------------------------------------------------------------
(* The state.                                                              *)

(* The registers between the stages hold the word of the instruction under *)
(* way and what fetch and decode make of it; an assertion has stopped the  *)
(* program exactly at a bit-field move.                                    *)
Carried ==
  /\ D_out # Nothing =>
       /\ written \in Instructions /\ written.name # "UBFX" /\ aborted = FALSE
       /\ D_out.insnbits = Assemble(written)
       /\ D_out.op = OpcodeOf(Assemble(written))
  /\ X_out # Nothing =>
       D_out # Nothing /\ X_out = decode_instr(D_out.insnbits, D_out.op)
  /\ aborted => written \in Instructions /\ written.name = "UBFX" /\ D_out = Nothing
  /\ written # Nothing /\ written.name = "UBFX" => aborted
  /\ aborted \in BOOLEAN

(* The last B.cond was tested on the flags that still stand.               *)
Branched ==
  tested # Nothing =>
    /\ tested.sel \in 0 .. 15
    /\ tested.taken <=> cond_holds(ConditionNumber[tested.sel], NZCV)

(* Fetch and decode hand the word and its opcode on as they are, and the   *)
(* branch tested last was tested on the flags that still stand             *)
(* (instr_Fetch.c:173-189, instr_Decode.c:271-391, instr_Execute.c:73-86). *)
THEOREM DatapathInvariance == Spec => [](Carried /\ Branched)
<1>1. Init => Carried /\ Branched
  BY DEF Init, Carried, Branched
<1>2. Carried /\ Branched /\ [Next]_vars => Carried' /\ Branched'
  <2> SUFFICES ASSUME Carried, Branched, [Next]_vars
               PROVE  Carried' /\ Branched'
    OBVIOUS
  <2>1. ASSUME NEW i \in Instructions, Fetch(i)
        PROVE  Carried' /\ Branched'
    <3> DEFINE op == OpcodeOf(Assemble(i))
    <3>1. aborted' = (op = Abort) /\ written' = i /\ tested' = Nothing
      BY <2>1 DEF Fetch
    <3>2. op = Abort <=> i.name = "UBFX"
      BY EveryInstruction
    <3>3. X_out' = Nothing
      BY <2>1 DEF Fetch, Carried
    <3>4. CASE op = Abort
      <4>1. D_out' = Nothing
        BY <2>1, <3>4 DEF Fetch
      <4>2. QED
        BY <3>1, <3>2, <3>3, <3>4, <4>1 DEF Carried, Branched
    <3>5. CASE op # Abort
      <4>1. D_out' = [insnbits |-> Assemble(i), op |-> op]
        BY <2>1, <3>5 DEF Fetch
      <4>2. D_out'.insnbits = Assemble(i) /\ D_out'.op = op
        BY <4>1
      <4>3. QED
        BY <3>1, <3>2, <3>3, <3>5, <4>2 DEF Carried, Branched
    <3>6. QED
      BY <3>4, <3>5
  <2>2. CASE Decode
    BY <2>2 DEF Decode, Carried, Branched
  <2>3. CASE Execute
    <3>1. Carried'
      BY <2>3 DEF Execute, Carried
    <3>2. CASE X_out.op = "B_COND"
      <4> DEFINE w == Assemble(written)
      <4>1. /\ written \in Instructions /\ D_out.op = OpcodeOf(w)
            /\ X_out = decode_instr(w, D_out.op)
        BY <2>3 DEF Execute, Carried
      <4>2. D_out.op = "B_COND"
        BY <3>2, <4>1, DecodedControl
      <4>3. written.name = "BCOND"
        BY <4>1, <4>2, EveryInstruction
      <4>4. X_out.cond = written.sel /\ written.sel \in 0 .. 15
        <5>1. X_out.cond = bitfield_u32(w, 0, 4)
          BY <4>1, <4>2, SMT DEF decode_instr
        <5>2. QED
          BY <4>1, <4>3, <5>1, ConditionalTaken
      <4>5. ~X_out.X_sigs.set_flags
        <5>1. ~SetsFlags("B_COND")
          BY SMT DEF SetsFlags, RegisterOps
        <5>2. QED
          BY <4>1, <4>2, <5>1, DecodedControl
      <4>6. NZCV' = NZCV
        BY <2>3, <4>5 DEF Execute, flagVars
      <4>7. tested' = [sel |-> written.sel,
                       taken |-> cond_holds(ConditionNumber[X_out.cond], NZCV)]
        BY <2>3, <3>2 DEF Execute
      <4>8. /\ tested'.sel = written.sel
            /\ tested'.taken <=> cond_holds(ConditionNumber[written.sel], NZCV')
        BY <4>4, <4>6, <4>7, Zenon
      <4>9. QED
        BY <3>1, <4>4, <4>8 DEF Branched
    <3>3. CASE X_out.op # "B_COND"
      <4>1. tested' = Nothing
        BY <2>3, <3>3 DEF Execute
      <4>2. QED
        BY <3>1, <4>1 DEF Branched
    <3>4. QED
      BY <3>2, <3>3
  <2>4. CASE UNCHANGED vars
    BY <2>4 DEF vars, Carried, Branched
  <2>5. QED
    BY <2>1, <2>2, <2>3, <2>4, DatapathAssumption DEF Next
<1>3. QED
  BY <1>1, <1>2, PTL DEF Spec

(* Every instruction, whatever its registers and its immediate are, does   *)
(* what it says, from its word to its effect, but for exactly the five     *)
(* kinds of DecodedAsWritten (instr_base.c:80-117, instr_Fetch.c:57-136,   *)
(* instr_Decode.c:37-391).                                                 *)
THEOREM DecodingIsAsWritten == Spec => []DecodedAsWritten
<1>1. Carried => DecodedAsWritten
  <2> SUFFICES ASSUME Carried, Decoded
               PROVE  Performed(X_out, PredictedOffset(D_out.insnbits, D_out.op))
                        = Meaning(written) <=> ~Exceptional(written)
    BY DEF DecodedAsWritten, Exceptional
  <2>1. /\ written \in Instructions /\ written.name # "UBFX"
        /\ D_out.insnbits = Assemble(written) /\ D_out.op = OpcodeOf(Assemble(written))
        /\ X_out = decode_instr(D_out.insnbits, D_out.op)
    BY DEF Carried, Decoded
  <2>2. AsMeant(written, D_out.op)
    BY <2>1, EveryInstruction
  <2>3. QED
    BY <2>1, <2>2 DEF AsMeant, Executed
<1>2. QED
  BY <1>1, DatapathInvariance, PTL

(* Of all instructions only a bit-field move that is no shift stops the    *)
(* emulator in an assertion (instr_Fetch.c:108-116).                       *)
THEOREM OnlyBitFieldsAbort == Spec => []AbortsOnlyAtBitFields
<1>1. Carried => AbortsOnlyAtBitFields
  BY DatapathAssumption DEF Carried, AbortsOnlyAtBitFields
<1>2. QED
  BY <1>1, DatapathInvariance, PTL

(* At every width of a word a B.cond behind a compare or subtraction goes  *)
(* where the order of the operands says (instr_Decode.c:360-362,           *)
(* hw_elts.c:65-119).                                                      *)
THEOREM BranchesFollowOrder == Spec => []BranchFollowsOrder
<1>1. Branched /\ ConditionsTellOrder => BranchFollowsOrder
  <2> SUFFICES ASSUME Branched, ConditionsTellOrder,
                      tested # Nothing, setter # Nothing,
                      setter.op = "MINUS", ~(setter.b = Half /\ setter.a >= Half)
               PROVE  BranchFollowsOrder
    BY DEF BranchFollowsOrder
  <2>1. /\ ConditionNumber[0] = "EQ" /\ ConditionNumber[1] = "NE"
        /\ ConditionNumber[2] = "CS" /\ ConditionNumber[3] = "CC"
        /\ ConditionNumber[8] = "HI" /\ ConditionNumber[9] = "LS"
        /\ ConditionNumber[10] = "GE" /\ ConditionNumber[11] = "LT"
        /\ ConditionNumber[12] = "GT" /\ ConditionNumber[13] = "LE"
    BY SMT DEF ConditionNumber
  <2>2. tested.taken <=> cond_holds(ConditionNumber[tested.sel], NZCV)
    BY DEF Branched
  <2>3. QED
    BY <2>1, <2>2, SMT DEF ConditionsTellOrder, BranchFollowsOrder
<1>2. QED
  BY <1>1, DatapathInvariance, DatapathConditions, PTL
=============================================================================
