----------------------------- MODULE MCDatapath -----------------------------
(***************************************************************************)
(* The instructions of the datapath runs: every name, with registers below *)
(* and above 16, SP and the zero register, and the limits of every field.  *)
(***************************************************************************)
EXTENDS Datapath

Ends  == {3, 31}
Bases == {0, 17, 31}

OffsetLimits(width) == {-(2^(width-1)), -5, -4, -3, -2, -1, 0, 1, 2, 3, 4,
                        2^(width-1) - 1}

Shifts == [name : {"LSL", "LSR", "ASR"}, d : Ends, n : Bases, m : {0},
           imm : 0 .. 63, sel : {0}]

AllInstructions ==
  [name : {"ADDS", "SUBS", "ANDS", "ORR", "EOR", "CMN", "CMP", "TST", "MVN"},
   d : {3}, n : Bases, m : {5, 30, 31}, imm : {0}, sel : {0}]
  \cup [name : {"ORR", "EOR", "MVN"}, d : {31}, n : Bases, m : {5, 31},
        imm : {0}, sel : {0}]
  \cup [name : {"ADD", "SUB"}, d : Ends, n : Bases, m : {0},
        imm : {0, 1, 2047, 2048, 4095}, sel : {0}]
  \cup [name : {"MOVZ", "MOVK"}, d : Ends, n : {0}, m : {0},
        imm : {0, 1, 65535}, sel : 0 .. 3]
  \cup Shifts
  \cup [name : {"LDUR", "STUR"}, d : Ends, n : Bases, m : {0},
        imm : {-256, -129, -128, -8, -1, 0, 8, 127, 128, 255}, sel : {0}]
  \cup [name : {"ADRP"}, d : Ends, n : {0}, m : {0}, imm : OffsetLimits(21),
        sel : {0}]
  \cup [name : {"B", "BL"}, d : {0}, n : {0}, m : {0}, imm : OffsetLimits(26),
        sel : {0}]
  \cup [name : {"BCOND"}, d : {0}, n : {0}, m : {0}, imm : OffsetLimits(19),
        sel : 0 .. 15]
  \cup [name : {"RET"}, d : {0}, n : {0, 30, 31}, m : {0}, imm : {0}, sel : {0}]
  \cup [name : {"CSEL", "CSNEG"}, d : Ends, n : Bases, m : {5, 31}, imm : {0},
        sel : {0, 15}]
  \cup [name : {"CBZ", "CBNZ"}, d : Ends, n : {0}, m : {0}, imm : OffsetLimits(19),
        sel : {0}]
  \cup [name : {"BR", "BLR"}, d : {0}, n : Bases, m : {0}, imm : {0}, sel : {0}]
  \cup [name : {"UBFX"}, d : {3}, n : {0}, m : {0}, imm : {0, 8}, sel : {8, 31}]
  \cup [name : {"NOP", "HLT", "UDF"}, d : {0}, n : {0}, m : {0}, imm : {0}, sel : {0}]

(* Behind the instruction that has set the flags: every condition, and     *)
(* instructions that set them again.                                       *)
Branches ==
  [name : {"BCOND"}, d : {0}, n : {0}, m : {0}, imm : {2}, sel : 0 .. 15]

SecondInstructions ==
  Branches \cup { Written(name, 3, 0, 5, 0, 0) : name \in {"ADDS", "CMP", "TST"} }
=============================================================================
