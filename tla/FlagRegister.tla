---------------------------- MODULE FlagRegister ----------------------------
(***************************************************************************)
(* guest.proc->NZCV under any sequence of instructions, and what a branch  *)
(* that reads it later finds.  execute_instr writes the register exactly   *)
(* for the instructions with set_flags, so every other one stutters here.  *)
(***************************************************************************)
EXTENDS Flags

CONSTANT Nothing   \* no instruction has set the flags

VARIABLES
  NZCV,     \* guest.proc->NZCV
  setter    \* history: the operation and operands that set it last

flagVars == <<NZCV, setter>>

(* runElf starts with Z set.                                               *)
FlagInit == NZCV = [NoFlags EXCEPT !.z = TRUE] /\ setter = Nothing

(* What val_e holds.  An AND may leave any word: it is taken to be that of *)
(* a with itself.                                                          *)
ResultOf(op, a, b) == CASE op = "PLUS"  -> Sum(a, b)
                        [] op = "MINUS" -> Difference(a, b)
                        [] op = "AND"   -> a

(* execute_instr with set_flags.                                           *)
SetFlags(op, a, b) ==
  /\ NZCV' = FlagsOf(op, a, b, ResultOf(op, a, b))
  /\ setter' = [op |-> op, a |-> a, b |-> b]

FlagNext == \E op \in FlagOps, a, b \in Word : SetFlags(op, a, b)

FlagSpec == FlagInit /\ [][FlagNext]_flagVars

-----------------------------------------------------------------------------
(* Properties.                                                             *)

(* The exact signed result of the operation that set the flags.            *)
Exact == IF setter.op = "PLUS" THEN Signed(setter.a) + Signed(setter.b)
                               ELSE Signed(setter.a) - Signed(setter.b)

(* C is the carry of a sum and the absence of a borrow in a difference.  V *)
(* says that the exact result does not fit a signed word; for a difference *)
(* it is set as well whenever the subtrahend is the most negative word,    *)
(* also where the result fits (instr.h:38-43, hw_elts.c:190-204).          *)
FlagsTellResult ==
  setter # Nothing /\ setter.op \in {"PLUS", "MINUS"} =>
    /\ NZCV.c <=> IF setter.op = "PLUS" THEN setter.a + setter.b >= 2*Half
                                        ELSE setter.a >= setter.b
    /\ NZCV.v <=> \/ Exact < -Half \/ Exact >= Half
                  \/ setter.op = "MINUS" /\ setter.b = Half
    /\ NZCV.z <=> Exact \in {0, 2*Half, -2*Half}
    /\ ~NZCV.v => (NZCV.n <=> Exact < 0)

(* After a compare or a subtraction every condition tells the order of the *)
(* operands it is named for, unsigned or signed.  The signed four need the *)
(* V of the architecture, so the most negative subtrahend is left out      *)
(* under a negative minuend (hw_elts.c:65-118).                            *)
ConditionsTellOrder ==
  setter # Nothing /\ setter.op = "MINUS" =>
    LET a == setter.a
        b == setter.b
        holds(cond) == cond_holds(cond, NZCV)
    IN  /\ holds("EQ") <=> a = b
        /\ holds("NE") <=> a # b
        /\ holds("CS") <=> a >= b
        /\ holds("CC") <=> a < b
        /\ holds("HI") <=> a > b
        /\ holds("LS") <=> a <= b
        /\ ~(b = Half /\ a >= Half) =>
             /\ holds("GE") <=> Signed(a) >= Signed(b)
             /\ holds("LT") <=> Signed(a) < Signed(b)
             /\ holds("GT") <=> Signed(a) > Signed(b)
             /\ holds("LE") <=> Signed(a) <= Signed(b)
=============================================================================
