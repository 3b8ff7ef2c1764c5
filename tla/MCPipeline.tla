----------------------------- MODULE MCPipeline -----------------------------
(* Programs, registers and memories for TLC: every program of a given      *)
(* length over a small alphabet, kept where a predicate holds.             *)
EXTENDS Pipeline, FiniteSets, TLC

(* Words of three bits.                                                     *)
Bit(v, k) == (v \div (2^k)) % 2
BitOr(a, b) ==
  CHOOSE v \in Values : \A k \in 0 .. 2 :
    Bit(v, k) = 1 <=> Bit(a, k) = 1 \/ Bit(b, k) = 1

(* Addresses 1 to 5 are in the middle of the first data word: the word at  *)
(* one is the upper two bits of it and the lowest of the second.           *)
Across == 1 .. 5
StoreAcross(m, a, v) ==
  IF a \in Across THEN 6 :> (m[6] % 2) + 2 * (v % 4) @@ 7 :> 2 * (m[7] \div 2) + v \div 4
                  ELSE m
LoadAcross(m, a) == IF a \in Across THEN m[6] \div 2 + 4 * (m[7] % 2) ELSE 0

RegNames == {0, 1, 30, 31}

(* X0 and SP point into data memory, X1 is a small number; the first data  *)
(* word points at the second.                                              *)
Regs1 == {0 :> 6 @@ 1 :> 1 @@ 30 :> 0 @@ 31 :> 7}
Mem1  == {6 :> 7 @@ 7 :> 3}
Data  == {6, 7}
\* As after the compare of two equal words, and of a negative with a positive.
Flags2 == {[n |-> FALSE, z |-> TRUE, c |-> TRUE, v |-> FALSE],
           [n |-> TRUE, z |-> FALSE, c |-> TRUE, v |-> FALSE]}

(* Behind the text.                                                        *)
Junk == <<NOP, ADDS(1, 0, 1), STUR(1, 0, 0), BL(1), BCOND("NE", 1), LDUR(1, 0, 0), RET(1)>>
Behind ==
  [pc \in Values |->
     [(IF pc \in DOMAIN Junk THEN Junk[pc] ELSE ERROR) EXCEPT !.imem_err = TRUE]]

Body(alphabet, n) == [1 .. n -> alphabet]
WithEnd(bodies) == {b \o <<HLT, HLT>> : b \in bodies}

DataAlphabet ==
  {LDUR(0, 0, 0), LDUR(1, 0, 0), STUR(1, 0, 0), ADDI(0, 0, 1),
   ADDS(1, 0, 1), MOVK(1, 1), MOVZ(0, 6), ORR(1, 31, 0)}
DataPrograms ==
  {p \in WithEnd(Body(DataAlphabet, 4)) : HazardFree(p)}

ControlAlphabet ==
  {BCOND("GT", 2), BCOND("NE", -1), B(2), BL(2), RET(30), RET(1), CMP(0, 1),
   ADDI(1, 1, 1), STUR(1, 0, 0), NOP}
ControlPrograms == {p \in WithEnd(Body(ControlAlphabet, 4)) : HazardFree(p)}

(* Loads, stores and branches next to each other, for accesses that wait.  *)
WaitAlphabet ==
  {LDUR(1, 0, 0), LDUR(0, 31, 0), STUR(1, 0, 0), STUR(31, 0, 0), ADDS(1, 0, 1), CMP(0, 1),
   BCOND("EQ", 2), BL(1), RET(30)}
WaitPrograms ==
  {p \in WithEnd(Body(WaitAlphabet, 3) \cup {b \o <<RET(30), NOP>> : b \in Body(WaitAlphabet, 2)}) :
     HazardFree(p)}

(* X1 is no data address and X1 + 7 is the null address.                   *)
FaultAlphabet ==
  {LDUR(0, 1, 0), STUR(0, 1, 0), LDUR(0, 1, 7), STUR(0, 1, 7), ERROR,
   STUR(1, 0, 0), MOVZ(1, 2), BCOND("NE", 3), NOP}
FaultPrograms == {p \in WithEnd(Body(FaultAlphabet, 4)) : HazardFree(p)}

(* Texts that the program leaves at their end.                             *)
OpenPrograms ==
  {p \in UNION {Body(FaultAlphabet, n) : n \in 1 .. 3} : HazardFree(p)}

AllPrograms == DataPrograms \cup ControlPrograms \cup FaultPrograms \cup OpenPrograms

(* One program for each thing the code gets wrong: the first four are not  *)
(* HazardFree, and in the last one accesses are not apart.                 *)
SquashedHalt == {<<BCOND("NE", 2), NOP, HLT>>, <<BCOND("NE", 3), HLT, NOP, NOP, HLT>>}
SquashedLink ==
  {<<ADDI(1, 1, 1), CMP(0, 1), BCOND("EQ", 2), HLT, BL(1), NOP>>}
ChasedPointer == {<<LDUR(0, 0, 0), LDUR(1, 0, 0), HLT, HLT>>}
ZeroTarget == {<<ADDI(1, 1, 1), ORR(31, 1, 1), ORR(0, 31, 31), HLT, HLT>>}
LoadsThenUse == {<<STUR(1, 0, 0), LDUR(1, 0, 0), ADDS(1, 1, 1), HLT, HLT>>}
=============================================================================
