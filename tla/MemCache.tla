------------------------------ MODULE MemCache ------------------------------
(***************************************************************************)
(* Data memory of the emulator behind its cache (the cached paths of       *)
(* src/base/mem.c, called by the memory stage through dmem).  A miss is    *)
(* spread over d calls: the first d - 1 return with dmem_status IN_FLIGHT  *)
(* and the pipeline repeats the call in the next cycle with the same       *)
(* operands; the last one fills the line, writes the victim back and       *)
(* answers.                                                                *)
(*                                                                         *)
(* An access is to an aligned word, so the bytes it probes one by one lie  *)
(* in one block.  The page table under memory is module-external here: the *)
(* array memory is what _mem_read_LE and _mem_write_LE make of it.         *)
(***************************************************************************)
EXTENDS Cache, FiniteSets

CONSTANTS
  Words,      \* offsets of the words of a block
  Values,     \* what a word may hold
  d,          \* miss penalty, the -d flag
  Width,      \* bytes of a word: lookups per access
  WRAP,       \* 2^64 for the uint64_t inflight_cycles, made small
  MaxRequests,\* bound: memory instructions the run issues
  NoRequest,  \* the memory stage holds no load and no store
  InitialMemories   \* the memories the run starts from

ASSUME MemCacheAssumption ==
  /\ d \in Nat
  /\ Width \in Nat \ {0, 1}
  /\ WRAP \in Nat /\ d < WRAP
  /\ MaxRequests \in Nat
  /\ InitialMemories \subseteq [Blocks -> [Words -> Values]]
  /\ ZeroBlock \in [Words -> Values]
  /\ NoData \notin [Words -> Values]

Requests ==
  [op : {READ}, block : Blocks, word : Words] \cup
  [op : {WRITE}, block : Blocks, word : Words, val : Values]

ASSUME RequestAssumption == NoRequest \notin Requests

VARIABLES
  cache,           \* the cache_t and the counters of cache.c
  memory,          \* the guest's memory, block by block
  inflight,        \* a miss is being waited for
  inflight_addr,   \* its block
  inflight_cycles, \* cycles left
  dmem_status,     \* what hazard control sees
  request,         \* the access of the instruction in the memory stage
  reply,           \* W_in->val_mem: the last value loaded
  crashed,         \* handle_miss has dereferenced a NULL victim
  issued,          \* history: requests so far
  misses,          \* history: accesses that had to fill a line
  stalls,          \* history: cycles the current request has been held up
  lastUse          \* history: per line, the request that touched it last

vars == <<cache, memory, inflight, inflight_addr, inflight_cycles,
          dmem_status, request, reply, crashed, issued, misses, stalls,
          lastUse>>

(* init_machine, with a cache configured.                                  *)
Init ==
  /\ cache = create_cache
  /\ memory \in InitialMemories   \* as the ELF loader left it
  /\ inflight = FALSE
  /\ inflight_addr = 0
  /\ inflight_cycles = d
  /\ dmem_status = "READY"
  /\ request = NoRequest
  /\ reply \in Values
  /\ crashed = FALSE
  /\ issued = 0 /\ misses = 0 /\ stalls = 0
  /\ lastUse = [s \in Sets |-> [w \in Ways |-> 0]]

(* The latch moves a load or a store into the memory stage.                *)
Issue(r) ==
  /\ request = NoRequest
  /\ issued < MaxRequests
  /\ request' = r
  /\ issued' = issued + 1
  /\ stalls' = 0
  /\ UNCHANGED <<cache, memory, inflight, inflight_addr, inflight_cycles,
                 dmem_status, reply, crashed, misses, lastUse>>

(* The word a load finds once its block is in.                             *)
Loaded(c) == LineOf(c, request.block).data[request.word]

(* The end of _mem_read_cache or _mem_write_cache, once the remaining      *)
(* lookups have all hit and left the cache in state c: get or set the word *)
(* and answer.                                                             *)
Answer(c) ==
  LET b == request.block IN
    /\ IF request.op = READ
         THEN /\ cache' = get_word_cache(c, b)
              /\ reply' = Loaded(c)
         ELSE /\ cache' = set_word_cache(c, b, request.word, request.val)
              /\ UNCHANGED reply
    /\ dmem_status' = "READY"
    /\ request' = NoRequest
    /\ lastUse' = [lastUse EXCEPT
                     ![SetIndex(b)][LineFor(cache, b)] = issued]
    /\ UNCHANGED <<issued, stalls>>

AccessHit ==
  /\ request # NoRequest /\ ~crashed
  /\ Hit(cache, request.block)
  /\ \E c \in {CountHits(cache, request.block, request.op, Width)} : Answer(c)
  /\ UNCHANGED <<memory, inflight, inflight_addr, inflight_cycles, crashed,
                 misses>>

(* Seeded faults: the wait starts over in every cycle, counts up instead   *)
(* of down, or does not count the first call.                              *)
CyclesLeftUp ==
  IF inflight /\ inflight_addr = request.block THEN inflight_cycles + 1
                                                ELSE d + 1
CyclesLeftRestarted == (d + WRAP - 1) % WRAP
CyclesLeftLate ==
  IF inflight /\ inflight_addr = request.block
    THEN (inflight_cycles + WRAP - 1) % WRAP ELSE d

(* inflight_cycles after this call's decrement: a wait starts over unless  *)
(* it is for the block of this access.                                     *)
CyclesLeft ==
  LET start == IF inflight /\ inflight_addr = request.block
                 THEN inflight_cycles ELSE d
  IN (start + WRAP - 1) % WRAP

(* Seeded fault: the call is not repeated while its miss is in flight.     *)
MissingNoRetry == /\ request # NoRequest /\ ~crashed /\ ~inflight
                  /\ ~Hit(cache, request.block)

Missing == /\ request # NoRequest /\ ~crashed
           /\ ~Hit(cache, request.block)

AccessWait ==
  /\ Missing /\ CyclesLeft > 0
  /\ cache' = check_hit(cache, request.block, request.op)
  /\ inflight' = TRUE
  /\ inflight_addr' = request.block
  /\ inflight_cycles' = CyclesLeft
  /\ dmem_status' = "IN_FLIGHT"
  /\ stalls' = stalls + 1
  /\ UNCHANGED <<memory, request, reply, crashed, issued, misses, lastUse>>

(* Seeded fault: nothing is written back.                                  *)
WriteBackNothing(e) == memory' = memory

(* The victim's bytes go back to memory.                                   *)
WriteBack(e) ==
  memory' = IF e.valid /\ e.dirty THEN [memory EXCEPT ![e.block] = e.data]
                                  ELSE memory

(* The call that fills the line: the probe of the first byte misses, the   *)
(* probes of the others hit.                                               *)
AccessFill ==
  LET b == request.block IN
    /\ Missing /\ CyclesLeft = 0
    /\ select_line(cache, b) # NoLine
    /\ inflight' = FALSE
    /\ inflight_addr' = b
    /\ inflight_cycles' = 0
    /\ WriteBack(Evicted(cache, b))
    /\ \E missed \in {check_hit(cache, b, request.op)} :
         \E filled \in {handle_miss(missed, b, request.op, memory[b])} :
           \E c \in {CountHits(filled, b, request.op, Width - 1)} : Answer(c)
    /\ misses' = misses + 1
    /\ UNCHANGED crashed

AccessCrash ==
  /\ Missing /\ CyclesLeft = 0
  /\ select_line(cache, request.block) = NoLine
  /\ crashed' = TRUE
  /\ UNCHANGED <<cache, memory, inflight, inflight_addr, inflight_cycles,
                 dmem_status, request, reply, issued, misses, stalls, lastUse>>

(* One clock cycle of the memory stage with a load or store in it.         *)
MemoryCycle == AccessHit \/ AccessWait \/ AccessFill \/ AccessCrash

Next == (\E r \in Requests : Issue(r)) \/ MemoryCycle

Spec == Init /\ [][Next]_vars

(* The main loop keeps clocking the memory stage as long as it holds an    *)
(* instruction (proc.c:118-190).                                           *)
FairSpec == Spec /\ WF_vars(MemoryCycle)

-----------------------------------------------------------------------------
(* Properties.                                                             *)

Contents == [Words -> Values]

(* The shape of the state.                                                 *)
TypeOK ==
  /\ cache \in CacheState(Contents)
  /\ memory \in [Blocks -> Contents]
  /\ inflight \in BOOLEAN
  /\ inflight_addr \in Nat
  /\ inflight_cycles \in 0 .. WRAP-1
  /\ dmem_status \in {"READY", "IN_FLIGHT"}
  /\ request \in Requests \cup {NoRequest}
  /\ reply \in Values
  /\ crashed \in BOOLEAN
  /\ issued \in Nat /\ misses \in Nat /\ stalls \in Nat
  /\ lastUse \in [Sets -> [Ways -> Nat]]

(* What the program would read: the line when there is one.                *)
Visible == [b \in Blocks |-> IF Hit(cache, b) THEN LineOf(cache, b).data
                                             ELSE memory[b]]

Flat == INSTANCE FlatMemory WITH store <- Visible

(* The cache, the wait and the write-backs are invisible to the program:   *)
(* every load returns the last value stored to its word, and a refill or   *)
(* an eviction changes no word (mem.c:151-275 over cache.c).               *)
ImplementsFlatMemory == Flat!Spec

(* A line that is not dirty equals memory, so that evicting it without a   *)
(* write-back loses nothing (mem.c:186, 248).                              *)
CleanLinesMatchMemory ==
  \A b \in Blocks :
    Hit(cache, b) /\ ~LineOf(cache, b).dirty
      => LineOf(cache, b).data = memory[b]

(* Cycles from the issue of an access that misses to its answer: with a    *)
(* penalty of 0 the countdown passes through all of uint64_t.              *)
MissCycles == IF d = 0 THEN WRAP ELSE d

(* A wait is only ever for the block of the load or store that sits in the *)
(* memory stage, it is what hazard control is told, and it has counted     *)
(* exactly the stalls so far (mem.c:161-172).                              *)
WaitBelongsToRequest ==
  /\ inflight <=> dmem_status = "IN_FLIGHT"
  /\ inflight => /\ request # NoRequest
                 /\ inflight_addr = request.block
                 /\ ~Hit(cache, request.block)
                 /\ inflight_cycles = MissCycles - stalls

Answers == request # NoRequest /\ request' = NoRequest

(* A hit answers in its first cycle and a miss of penalty d in its d-th;   *)
(* with no penalty the wait wraps around before it ends (mem.c:168-172).   *)
AccessCost ==
  [][Answers =>
       stalls = IF Hit(cache, request.block) THEN 0 ELSE MissCycles - 1]_vars

(* Each miss is counted once per cycle it took and each answered word as   *)
(* Width hits less the probe that missed, which is what the checkpoint     *)
(* undoes when it divides by d (machine.c:192-194).                        *)
CountersAtRest ==
  request = NoRequest =>
    /\ cache.miss_count = MissCycles * misses
    /\ cache.hit_count = Width * issued - misses

(* The line of set s that held a block the step evicts is the one used     *)
(* longest ago: the word access that ends every request restamps its line, *)
(* so the ties csim sees cannot form here (cache.c:6, mem.c:199, 260).     *)
EvictsLeastRecentlyUsed ==
  [][\A s \in Sets, w \in Ways :
       /\ cache.sets[s][w].valid
       /\ cache'.sets[s][w].tag # cache.sets[s][w].tag
       => \A v \in Ways : lastUse[s][w] <= lastUse[s][v]]_vars

(* NULL is only dereferenced when the stamps have outgrown an int          *)
(* (cache.c:206-219).                                                      *)
CrashNeedsStampOverflow == crashed => cache.next_lru > INT_MAX

(* "memory accesses that miss the cache will stall for the designated      *)
(* number of delay cycles", and no longer (README.md:30).                  *)
StallsAtMostPenalty == stalls <= d

(* Every load and store is answered at last, whatever was being waited for *)
(* when it was issued, unless the cache crashes (mem.c:161-175).           *)
EveryAccessAnswered == (request # NoRequest) ~> (request = NoRequest \/ crashed)

(* "Number of cache hits, misses" as the checkpoint prints them            *)
(* (machine.c:191-195).                                                    *)
ReportedMisses == cache.miss_count \div d
ReportedHits == cache.hit_count - ReportedMisses
CheckpointReportsAccesses ==
  request = NoRequest => /\ ReportedMisses = misses
                         /\ ReportedHits = issued - misses

(* "the entire state of the machine can be logged as a checkpoint": the    *)
(* memory it prints is the pages, read past the cache (README.md:34,       *)
(* machine.c:131-187).                                                     *)
CheckpointShowsStores == request = NoRequest => memory = Visible
=============================================================================
