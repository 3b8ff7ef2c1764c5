----------------------------- MODULE FlagProofs -----------------------------
(***************************************************************************)
(* What the flags and the conditions mean, for words of every width.       *)
(***************************************************************************)
EXTENDS FlagRegister, TLAPS

Setters == [op : FlagOps, a : Word, b : Word]

(* The register holds the flags of the operation that set it last.         *)
IInv ==
  setter # Nothing =>
    /\ setter \in Setters
    /\ NZCV = FlagsOf(setter.op, setter.a, setter.b,
                      ResultOf(setter.op, setter.a, setter.b))

(* The register is only written together with its history                  *)
(* (instr_Execute.c:63-65).                                                *)
THEOREM FlagsHaveSetter == FlagSpec => []IInv
<1>1. FlagInit => IInv
  BY DEF FlagInit, IInv
<1>2. IInv /\ [FlagNext]_flagVars => IInv'
  <2>1. ASSUME NEW op \in FlagOps, NEW a \in Word, NEW b \in Word,
               SetFlags(op, a, b)
        PROVE  IInv'
    BY <2>1 DEF SetFlags, IInv, Setters
  <2>2. CASE UNCHANGED flagVars
    BY <2>2 DEF flagVars, IInv
  <2>3. QED
    BY <2>1, <2>2 DEF FlagNext
<1>3. QED
  BY <1>1, <1>2, PTL DEF FlagSpec

(* The sum of two words, exactly and as a word (hw_elts.c:133-134).        *)
LEMMA SumIsWord ==
  ASSUME NEW a \in Word, NEW b \in Word
  PROVE  /\ Sum(a, b) \in Word
         /\ Signed(a) \in Int /\ Signed(b) \in Int /\ Signed(Sum(a, b)) \in Int
  BY FlagsAssumption DEF Sum, Word, Signed

(* Their difference likewise (hw_elts.c:136-137).                          *)
LEMMA DifferenceIsWord ==
  ASSUME NEW a \in Word, NEW b \in Word
  PROVE  /\ Difference(a, b) \in Word
         /\ Signed(Difference(a, b)) \in Int
  BY FlagsAssumption DEF Difference, Word, Signed

(* Carry and overflow of an addition (hw_elts.c:189-204).                  *)
LEMMA AdditionFlags ==
  ASSUME NEW a \in Word, NEW b \in Word
  PROVE  LET f == FlagsOf("PLUS", a, b, Sum(a, b))
             e == Signed(a) + Signed(b)
         IN  /\ f.c <=> a + b >= 2*Half
             /\ f.v <=> e < -Half \/ e >= Half
             /\ f.z <=> e \in {0, 2*Half, -2*Half}
             /\ ~f.v => (f.n <=> e < 0)
<1>1. a \in Int /\ b \in Int /\ 0 <= a /\ a < 2*Half /\ 0 <= b /\ b < 2*Half
  BY FlagsAssumption DEF Word
<1>2. carry("PLUS", a, b, Sum(a, b)) <=> a + b >= 2*Half
  BY <1>1, FlagsAssumption DEF carry, Sum
<1>3. LET e == Signed(a) + Signed(b) IN
        overflow("PLUS", a, b, Sum(a, b)) <=> e < -Half \/ e >= Half
  BY <1>1, FlagsAssumption DEF overflow, additionOverflow, Sum, Signed
<1>4. LET e == Signed(a) + Signed(b) IN
        Sum(a, b) = 0 <=> e \in {0, 2*Half, -2*Half}
  BY <1>1, FlagsAssumption DEF Sum, Signed
<1>5. LET e == Signed(a) + Signed(b) IN
        ~(e < -Half \/ e >= Half) => (Sum(a, b) >= Half <=> e < 0)
  BY <1>1, FlagsAssumption DEF Sum, Signed
<1>6. QED
  BY <1>2, <1>3, <1>4, <1>5 DEF FlagsOf

(* Carry and overflow of a subtraction, and the one subtrahend for which V *)
(* is more than overflow (hw_elts.c:189-204).                              *)
LEMMA SubtractionFlags ==
  ASSUME NEW a \in Word, NEW b \in Word
  PROVE  LET f == FlagsOf("MINUS", a, b, Difference(a, b))
             e == Signed(a) - Signed(b)
         IN  /\ f.c <=> a >= b
             /\ f.v <=> e < -Half \/ e >= Half \/ b = Half
             /\ f.z <=> e \in {0, 2*Half, -2*Half}
             /\ f.n <=> Difference(a, b) >= Half
             /\ ~f.v => (f.n <=> e < 0)
<1>1. a \in Int /\ b \in Int /\ 0 <= a /\ a < 2*Half /\ 0 <= b /\ b < 2*Half
  BY FlagsAssumption DEF Word
<1>2. carry("MINUS", a, b, Difference(a, b)) <=> a >= b
  BY DEF carry
<1>3. LET e == Signed(a) - Signed(b) IN
        overflow("MINUS", a, b, Difference(a, b))
          <=> e < -Half \/ e >= Half \/ b = Half
  BY <1>1, FlagsAssumption DEF overflow, subtractionOverflow, Difference, Signed
<1>4. LET e == Signed(a) - Signed(b) IN
        Difference(a, b) = 0 <=> e \in {0, 2*Half, -2*Half}
  BY <1>1, FlagsAssumption DEF Difference, Signed
<1>5. LET e == Signed(a) - Signed(b) IN
        ~(e < -Half \/ e >= Half) => (Difference(a, b) >= Half <=> e < 0)
  BY <1>1, FlagsAssumption DEF Difference, Signed
<1>6. QED
  BY <1>2, <1>3, <1>4, <1>5 DEF FlagsOf

(* The flags mean what instr.h says of them at every width, but for the V  *)
(* of the most negative subtrahend.                                        *)
THEOREM FlagsAreRight == FlagSpec => []FlagsTellResult
<1>1. IInv => FlagsTellResult
  <2> SUFFICES ASSUME IInv, setter # Nothing, setter.op \in {"PLUS", "MINUS"}
               PROVE  /\ NZCV.c <=> IF setter.op = "PLUS"
                                      THEN setter.a + setter.b >= 2*Half
                                      ELSE setter.a >= setter.b
                      /\ NZCV.v <=> \/ Exact < -Half \/ Exact >= Half
                                    \/ setter.op = "MINUS" /\ setter.b = Half
                      /\ NZCV.z <=> Exact \in {0, 2*Half, -2*Half}
                      /\ ~NZCV.v => (NZCV.n <=> Exact < 0)
    BY DEF FlagsTellResult
  <2> DEFINE a == setter.a
             b == setter.b
  <2>1. a \in Word /\ b \in Word
    BY DEF IInv, Setters
  <2>2. CASE setter.op = "PLUS"
    <3>1. NZCV = FlagsOf("PLUS", a, b, Sum(a, b))
      BY <2>2 DEF IInv, ResultOf
    <3>2. Exact = Signed(a) + Signed(b)
      BY <2>2 DEF Exact
    <3> HIDE DEF a, b
    <3>3. QED
      BY <2>1, <2>2, <3>1, <3>2, AdditionFlags DEF a, b
  <2>3. CASE setter.op = "MINUS"
    <3>1. NZCV = FlagsOf("MINUS", a, b, Difference(a, b))
      BY <2>3 DEF IInv, ResultOf
    <3>2. Exact = Signed(a) - Signed(b)
      BY <2>3 DEF Exact
    <3> HIDE DEF a, b
    <3>3. QED
      BY <2>1, <2>3, <3>1, <3>2, SubtractionFlags DEF a, b
  <2>4. QED
    BY <2>2, <2>3
<1>2. QED
  BY FlagsHaveSetter, <1>1, PTL

(* After a compare every conditional branch goes where the order of the    *)
(* operands says, at every width, with the exception named in the          *)
(* property.                                                               *)
THEOREM ConditionsAreRight == FlagSpec => []ConditionsTellOrder
<1>1. IInv => ConditionsTellOrder
  <2> SUFFICES ASSUME IInv, setter # Nothing, setter.op = "MINUS"
               PROVE  ConditionsTellOrder
    BY DEF ConditionsTellOrder
  <2> DEFINE a == setter.a
             b == setter.b
             e == Signed(a) - Signed(b)
  <2>1. a \in Word /\ b \in Word
    BY DEF IInv, Setters
  <2>2. NZCV = FlagsOf("MINUS", a, b, Difference(a, b))
    BY DEF IInv, ResultOf
  <2>3. /\ NZCV.c <=> a >= b
        /\ NZCV.v <=> e < -Half \/ e >= Half \/ b = Half
        /\ NZCV.z <=> e \in {0, 2*Half, -2*Half}
        /\ NZCV.n <=> Difference(a, b) >= Half
    BY <2>1, <2>2, SubtractionFlags
  <2>4. NZCV.z \in BOOLEAN /\ NZCV.n \in BOOLEAN /\ NZCV.v \in BOOLEAN
    BY <2>2 DEF FlagsOf, overflow, subtractionOverflow, additionOverflow
  <2>5. a \in Int /\ b \in Int /\ 0 <= a /\ a < 2*Half /\ 0 <= b /\ b < 2*Half
    BY <2>1, FlagsAssumption DEF Word
  <2>6. NZCV.z <=> a = b
    BY <2>3, <2>5, FlagsAssumption DEF Signed
  <2>7. ~(b = Half /\ a >= Half) =>
          /\ (NZCV.n <=> NZCV.v) <=> Signed(a) >= Signed(b)
          /\ a = b <=> Signed(a) = Signed(b)
    BY <2>3, <2>5, FlagsAssumption DEF Signed, Difference
  <2>8. Signed(a) \in Int /\ Signed(b) \in Int
    BY <2>1, SumIsWord
  <2> HIDE DEF a, b
  <2>9. QED
    BY <2>3, <2>4, <2>5, <2>6, <2>7, <2>8 DEF ConditionsTellOrder, cond_holds, a, b
<1>2. QED
  BY FlagsHaveSetter, <1>1, PTL
=============================================================================
