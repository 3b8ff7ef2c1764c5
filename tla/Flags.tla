------------------------------- MODULE Flags --------------------------------
(***************************************************************************)
(* The condition flags: how alu of src/base/hw_elts.c sets them and how    *)
(* cond_holds reads them, for words of any width.  The width is given by   *)
(* Half, the first word whose sign bit is set: 2^63 in the code.           *)
(***************************************************************************)
EXTENDS Integers

CONSTANT Half

ASSUME FlagsAssumption == Half \in Nat \ {0}

Word == 0 .. 2*Half - 1

(* A word read as an int64_t.                                              *)
Signed(w) == IF w >= Half THEN w - 2*Half ELSE w

FlagOps == {"PLUS", "MINUS", "AND"}   \* ALU operations that set flags

(* What the addition or the subtraction leaves in val_e; the other ALU     *)
(* operations are in module Instr.                                         *)
Sum(a, b)        == IF a + b >= 2*Half THEN a + b - 2*Half ELSE a + b
Difference(a, b) == IF a >= b THEN a - b ELSE a - b + 2*Half

(* Seeded fault: < for <=, turned round.                                   *)
carryAtEqual(op, a, b, result) ==
  \/ op = "PLUS" /\ result <= a /\ result <= b
  \/ op = "MINUS" /\ a >= b

carry(op, a, b, result) ==
  \/ op = "PLUS" /\ result < a /\ result < b
  \/ op = "MINUS" /\ a >= b

additionOverflow(a, b, c) ==
  \/ a > 0 /\ b > 0 /\ c <= 0
  \/ a < 0 /\ b < 0 /\ c >= 0

subtractionOverflow(a, b, c) ==
  \/ a > 0 /\ b < 0 /\ c <= 0
  \/ a < 0 /\ b > 0 /\ c >= 0
  \/ b = -Half

overflow(op, a, b, result) ==
  \/ op = "PLUS" /\ additionOverflow(Signed(a), Signed(b), Signed(result))
  \/ op = "MINUS" /\ subtractionOverflow(Signed(a), Signed(b), Signed(result))

FlagsOf(op, a, b, result) ==
  [n |-> result >= Half, z |-> result = 0,
   c |-> carry(op, a, b, result), v |-> overflow(op, a, b, result)]

NoFlags == [n |-> FALSE, z |-> FALSE, c |-> FALSE, v |-> FALSE]

Conditions == {"EQ", "NE", "CS", "CC", "MI", "PL", "VS", "VC", "HI", "LS",
               "GE", "LT", "GT", "LE", "AL", "NV"}

(* Seeded fault: the zero flag is forgotten.                               *)
cond_holdsNoZero(cond, f) ==
  CASE cond \in {"HI", "CS"} -> f.c
    [] cond \in {"LS", "CC"} -> ~f.c
    [] cond \in {"GT", "GE"} -> f.n = f.v
    [] cond \in {"LE", "LT"} -> f.n # f.v
    [] cond = "EQ" -> f.z
    [] cond = "NE" -> ~f.z
    [] OTHER -> TRUE

cond_holds(cond, f) ==
  CASE cond = "EQ" -> f.z
    [] cond = "NE" -> ~f.z
    [] cond = "CS" -> f.c
    [] cond = "CC" -> ~f.c
    [] cond = "MI" -> f.n
    [] cond = "PL" -> ~f.n
    [] cond = "VS" -> f.v
    [] cond = "VC" -> ~f.v
    [] cond = "HI" -> f.c /\ ~f.z
    [] cond = "LS" -> ~(f.c /\ ~f.z)
    [] cond = "GE" -> f.n = f.v
    [] cond = "LT" -> f.n # f.v
    [] cond = "GT" -> ~f.z /\ f.n = f.v
    [] cond = "LE" -> ~(~f.z /\ f.n = f.v)
    [] cond \in {"AL", "NV"} -> TRUE
=============================================================================
