----------------------------- MODULE MCMemCache -----------------------------
(* Instances of the cached data memory for TLC. *)
EXTENDS MemCache
ThreeBlocks == 0 .. 2
OneWord == {0}
TwoWords == {0, 1}
Bits == {0, 1}
Zeroes == [w \in Words |-> 0]
(* No two blocks agree in every word. *)
Distinct == {[b \in Blocks |-> [w \in Words |-> (b \div (w + 1)) % 2]]}
=============================================================================
