------------------------------- MODULE MCCsim -------------------------------
(* Instances of csim for TLC. *)
EXTENDS Csim
\* With S = 2: three blocks of one set and one of the other.
ThreeAndOne == {0, 1, 2, 4}
FourBlocks == 0 .. 3
=============================================================================
