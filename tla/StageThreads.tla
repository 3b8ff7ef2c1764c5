---------------------------- MODULE StageThreads ----------------------------
(***************************************************************************)
(* The PARALLEL build of the emulator: one thread per stage and the main   *)
(* thread, kept in step by pthread barriers (src/base/proc.c).             *)
(***************************************************************************)
EXTENDS Naturals, FiniteSets

CONSTANT MaxCycles   \* the -l flag, cycle_max

StageThreads == {"fetch", "decode", "execute", "memory", "writeback"}
Threads == StageThreads \cup {"main"}
Barriers == {"cycle_start", "cycle_end", "latch_end"}

(* The counts pthread_barrier_init is given.                               *)
Count == [b \in Barriers |-> IF b = "latch_end" THEN 2 ELSE 6]

VARIABLES
  at,       \* per thread: the barrier it comes to next, or what it does
  waiting,  \* per barrier: the threads blocked in pthread_barrier_wait
  cycle     \* num_instr

vars == <<at, waiting, cycle>>

Init ==
  /\ at = [t \in Threads |-> "cycle_start"]
  /\ waiting = [b \in Barriers |-> {}]
  /\ cycle = 0

(* Where a thread goes on from a barrier.                                  *)
Beyond(t, b) ==
  CASE t = "main" /\ b = "cycle_start" -> "cycle_end"
    [] t = "main" /\ b = "cycle_end"   -> "latch_end"
    [] t = "main" /\ b = "latch_end"   -> "latch"
    [] t # "main" /\ b = "cycle_start" -> "stage"
    [] t # "main" /\ b = "cycle_end"   -> "cycle_start"

(* pthread_barrier_wait: the last of Count[b] threads releases the others. *)
Arrive(t, b) ==
  /\ at[t] = b /\ t \notin waiting[b]
  /\ IF Cardinality(waiting[b]) + 1 < Count[b]
       THEN /\ waiting' = [waiting EXCEPT ![b] = @ \cup {t}]
            /\ UNCHANGED at
       ELSE /\ waiting' = [waiting EXCEPT ![b] = {}]
            /\ at' = [u \in Threads |->
                        IF u = t \/ u \in waiting[b] THEN Beyond(u, b) ELSE at[u]]
  /\ UNCHANGED cycle

(* A stage function runs.  The decode thread does not come to cycle_end:   *)
(* its call is commented out and decode_instr makes none.                  *)
RunStage(t) ==
  /\ at[t] = "stage"
  /\ at' = [at EXCEPT ![t] = IF t = "decode" THEN "cycle_start" ELSE "cycle_end"]
  /\ UNCHANGED <<waiting, cycle>>

(* The main thread decides hazards, latches and goes round.                *)
Latch ==
  /\ at["main"] = "latch"
  /\ cycle' = cycle + 1
  /\ at' = [at EXCEPT !["main"] = IF cycle + 1 < MaxCycles THEN "cycle_start"
                                                           ELSE "done"]
  /\ UNCHANGED waiting

Step(t) == (\E b \in Barriers : Arrive(t, b)) \/ RunStage(t)

Next == (\E t \in Threads : Step(t)) \/ Latch

(* The operating system runs every thread that can run.                    *)
Spec == /\ Init /\ [][Next]_vars
        /\ \A t \in Threads : WF_vars(Step(t))
        /\ WF_vars(Latch)

(* "Cycle end called from within": every stage reaches the end of the      *)
(* cycle, so the cycle the main thread opens is latched (proc.c:48).       *)
CycleIsLatched == (at["main"] = "cycle_end") ~> (at["main"] = "latch")
=============================================================================
