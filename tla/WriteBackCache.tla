--------------------------- MODULE WriteBackCache ---------------------------
(***************************************************************************)
(* What the statistics of a write-back, write-allocate cache mean, with no *)
(* lines, stamps or ways: which blocks are resident, which of those hold   *)
(* stores that memory has not seen, and what the four counters count.  The *)
(* choice of the victim is left open.  The variable call is the last       *)
(* access asked for: an implementation does not choose it.  Module Csim is *)
(* shown to implement this.                                                *)
(***************************************************************************)
EXTENDS Naturals, FiniteSets

CONSTANTS
  Blocks, Operations, WRITE,
  Capacity,   \* blocks that fit in one set
  SetOf(_)    \* the set of a block

VARIABLES call, resident, unwritten, hits, misses, dirtyEvictions,
          cleanEvictions

vars == <<call, resident, unwritten, hits, misses, dirtyEvictions,
          cleanEvictions>>

Init ==
  /\ resident = {} /\ unwritten = {}
  /\ hits = 0 /\ misses = 0 /\ dirtyEvictions = 0 /\ cleanEvictions = 0

Neighbours(b) == {r \in resident : SetOf(r) = SetOf(b)}

(* The blocks stored to since they came in, once b has been accessed.      *)
Stored(b, op, kept) == kept \cup IF op = WRITE THEN {b} ELSE {}

HitAccess(b, op) ==
  /\ b \in resident
  /\ hits' = hits + 1
  /\ unwritten' = Stored(b, op, unwritten)
  /\ UNCHANGED <<resident, misses, dirtyEvictions, cleanEvictions>>

(* A miss in a set with room left evicts nothing.                          *)
FillAccess(b, op) ==
  /\ b \notin resident
  /\ Cardinality(Neighbours(b)) < Capacity
  /\ misses' = misses + 1
  /\ resident' = resident \cup {b}
  /\ unwritten' = Stored(b, op, unwritten)
  /\ UNCHANGED <<hits, dirtyEvictions, cleanEvictions>>

(* A miss in a full set evicts one block of that set, and counts it as     *)
(* dirty exactly when it holds a store.                                    *)
EvictAccess(b, op) ==
  /\ b \notin resident
  /\ Cardinality(Neighbours(b)) = Capacity
  /\ \E v \in Neighbours(b) :
       /\ resident' = (resident \ {v}) \cup {b}
       /\ unwritten' = Stored(b, op, unwritten \ {v})
       /\ IF v \in unwritten
            THEN /\ dirtyEvictions' = dirtyEvictions + 1
                 /\ UNCHANGED cleanEvictions
            ELSE /\ cleanEvictions' = cleanEvictions + 1
                 /\ UNCHANGED dirtyEvictions
  /\ misses' = misses + 1
  /\ UNCHANGED hits

Access(b, op) ==
  /\ call' = [block |-> b, op |-> op]
  /\ HitAccess(b, op) \/ FillAccess(b, op) \/ EvictAccess(b, op)

Next == \E b \in Blocks, op \in Operations : Access(b, op)

Spec == Init /\ [][Next]_vars
=============================================================================
