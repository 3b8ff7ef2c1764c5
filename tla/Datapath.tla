------------------------------ MODULE Datapath ------------------------------
(***************************************************************************)
(* The way of one instruction word after another through fetch, decode and *)
(* execute, without the overlap that module Pipeline is about: what the    *)
(* word is taken for, and what becomes of the flags and of a conditional   *)
(* branch on them.  The operands of an instruction that sets flags are any *)
(* two words; module Encoding says what the program meant.                 *)
(***************************************************************************)
EXTENDS FlagRegister, Decoder

CONSTANTS
  Fresh,   \* instructions that may come while no flags have been set
  Later    \* those that may come after that

ASSUME DatapathAssumption ==
  /\ Fresh \subseteq Instructions /\ Later \subseteq Instructions
  /\ Nothing \notin Instructions

VARIABLES
  written,  \* the instruction as the program has it
  D_out,    \* its word and opcode, or Nothing
  X_out,    \* what decode made of it, or Nothing
  tested,   \* history: the last B.cond and what it made of the flags
  aborted   \* an assertion of fetch has failed

vars == <<NZCV, setter, written, D_out, X_out, tested, aborted>>

Init ==
  /\ FlagInit
  /\ written = Nothing /\ D_out = Nothing /\ X_out = Nothing /\ tested = Nothing
  /\ aborted = FALSE

(* fetch_instr with imem, on the word the assembler made of an instruction.*)
Fetch(i) ==
  /\ ~aborted /\ D_out = Nothing
  /\ LET w  == Assemble(i)
         op == OpcodeOf(w)
     IN  /\ aborted' = (op = Abort)
         /\ D_out' = IF aborted' THEN Nothing ELSE [insnbits |-> w, op |-> op]
  /\ written' = i /\ tested' = Nothing
  /\ UNCHANGED <<NZCV, setter, X_out>>

Decode ==
  /\ D_out # Nothing /\ X_out = Nothing
  /\ X_out' = decode_instr(D_out.insnbits, D_out.op)
  /\ UNCHANGED <<NZCV, setter, written, D_out, tested, aborted>>

(* execute_instr: alu sets the flags, or tests the condition of a branch.  *)
Execute ==
  /\ D_out # Nothing /\ X_out # Nothing
  /\ IF X_out.X_sigs.set_flags
       THEN \E a, b \in Word : SetFlags(X_out.ALU_op, a, b)
       ELSE UNCHANGED flagVars
  /\ tested' = IF X_out.op = "B_COND"
                 THEN [sel |-> written.sel,
                       taken |-> cond_holds(ConditionNumber[X_out.cond], NZCV)]
                 ELSE Nothing
  /\ D_out' = Nothing /\ X_out' = Nothing /\ written' = Nothing
  /\ UNCHANGED aborted

Next ==
  \/ \E i \in IF setter = Nothing THEN Fresh ELSE Later : Fetch(i)
  \/ Decode
  \/ Execute

Spec == Init /\ [][Next]_vars

-----------------------------------------------------------------------------
(* Properties.                                                             *)

Decoded == D_out # Nothing /\ X_out # Nothing

(* The instructions decode takes for something else.                       *)

(* Register 31 is read and written as SP where it is the zero register:    *)
(* extract_regs makes it XZR for TST, CMP, ORR, EOR, the source of MVN and *)
(* the transferred register of a load or store only.                       *)
StackForZero(i) ==
  \/ i.name \in {"ADDS", "SUBS", "ANDS", "CMN"} /\ 31 \in {i.n, i.m}
  \/ i.name \in {"MVN", "MOVZ", "MOVK", "ADRP", "LSL", "LSR", "ASR"} /\ i.d = 31
  \/ i.name \in {"LSL", "LSR", "ASR", "RET"} /\ i.n = 31

(* The shift of an ASR comes from bits 9 to 15: imms, which is 63 in every *)
(* ASR, and the top bit of Rn.                                             *)
WrongShift(i) == i.name = "ASR" /\ i.imm # 62 + i.n \div 16

(* A uint8_t holds the offset of a load or store.                          *)
WrongOffset(i) == i.name \in {"LDUR", "STUR"} /\ i.imm \notin 0 .. 255

(* The low two bits of an ADRP are a number from -2 to 1.                  *)
WrongPage(i) == i.name = "ADRP" /\ i.imm % 4 > 1 /\ i.imm \notin {-2, -1}

(* The extra credit is in the opcode table and nowhere else: it is taken   *)
(* for an instruction that does nothing, not for an undefined one.         *)
Ignored(i) == i.name \in {"CSEL", "CSNEG", "CBZ", "CBNZ", "BR", "BLR"}

(* Every instruction does what it says, from its word to its effect on     *)
(* registers, memory, flags and the next PC, but for exactly the five      *)
(* kinds above (instr_base.c:80-117, instr_Fetch.c:57-136,                 *)
(* instr_Decode.c:37-391).                                                 *)
DecodedAsWritten ==
  Decoded =>
    (Performed(X_out, PredictedOffset(D_out.insnbits, D_out.op)) = Meaning(written)
       <=> ~ \/ StackForZero(written) \/ WrongShift(written)
             \/ WrongOffset(written)  \/ WrongPage(written) \/ Ignored(written))

(* Only a bit-field move that is no shift stops the emulator in an         *)
(* assertion (instr_Fetch.c:108-116).                                      *)
AbortsOnlyAtBitFields ==
  aborted <=> written # Nothing /\ written.name = "UBFX"

(* A B.cond behind a compare or a subtraction goes where the order of the  *)
(* operands says, from the condition number in its word to the NZCV of the *)
(* instruction before; for the subtrahend left out see                     *)
(* ConditionsTellOrder (instr_Decode.c:360-362, hw_elts.c:65-119).         *)
BranchFollowsOrder ==
  /\ tested # Nothing /\ setter # Nothing
  /\ setter.op = "MINUS" /\ ~(setter.b = Half /\ setter.a >= Half)
  =>
    LET a == setter.a
        b == setter.b
        taken == tested.taken
    IN  CASE tested.sel = 0  -> taken <=> a = b
          [] tested.sel = 1  -> taken <=> a # b
          [] tested.sel = 2  -> taken <=> a >= b
          [] tested.sel = 3  -> taken <=> a < b
          [] tested.sel = 8  -> taken <=> a > b
          [] tested.sel = 9  -> taken <=> a <= b
          [] tested.sel = 10 -> taken <=> Signed(a) >= Signed(b)
          [] tested.sel = 11 -> taken <=> Signed(a) < Signed(b)
          [] tested.sel = 12 -> taken <=> Signed(a) > Signed(b)
          [] tested.sel = 13 -> taken <=> Signed(a) <= Signed(b)
          [] OTHER            -> TRUE

(* What a program means by a shift: the register by the number of places   *)
(* it names (src/applications/hard/bin_search.s:29 halves with asr #1).    *)
ShiftsAsWritten ==
  Decoded /\ written.name \in {"LSL", "LSR", "ASR"} =>
    valb(X_out) = Imm(written.imm)
=============================================================================
