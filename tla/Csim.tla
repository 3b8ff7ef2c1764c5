-------------------------------- MODULE Csim --------------------------------
(***************************************************************************)
(* csim (src/cache/csim.c): replays a trace of loads, stores and modifies  *)
(* against the cache of cache.c and reports the four counters.  The trace  *)
(* is arbitrary: every next line of it is a choice.                        *)
(***************************************************************************)
EXTENDS Cache, FiniteSets

CONSTANTS MaxAccesses, \* bound: calls of access_data the trace makes
          NoBlock      \* no block

VARIABLES
  cache,    \* the cache_t and the counters of cache.c
  modify,   \* replayTrace: block whose 'M' has read and not yet written
  crashed,  \* access_data has dereferenced the NULL of select_line
  call,     \* history: the last call of access_data
  now,      \* history: calls of access_data so far
  lastUse   \* history: per line, the call that touched it last

vars == <<cache, modify, crashed, call, now, lastUse>>

Init ==
  /\ cache = create_cache
  /\ modify = NoBlock
  /\ crashed = FALSE
  /\ call = [block |-> NoBlock, op |-> READ]
  /\ now = 0
  /\ lastUse = [s \in Sets |-> [w \in Ways |-> 0]]

(* One call of access_data.                                                *)
Access(b, op) ==
  /\ ~crashed
  /\ now < MaxAccesses
  /\ IF AccessCrashes(cache, b)
       THEN crashed' = TRUE /\ UNCHANGED <<cache, call, now, lastUse>>
       ELSE /\ cache' = access_data(cache, b, op)
            /\ call' = [block |-> b, op |-> op]
            /\ now' = now + 1
            /\ lastUse' = [lastUse EXCEPT
                             ![SetIndex(b)][LineFor(cache, b)] = now + 1]
            /\ UNCHANGED crashed

(* The three trace operations of replayTrace; 'M' makes two calls.         *)
Load(b)  == modify = NoBlock /\ Access(b, READ)  /\ UNCHANGED modify
Store(b) == modify = NoBlock /\ Access(b, WRITE) /\ UNCHANGED modify
Modify(b) == modify = NoBlock /\ Access(b, READ) /\ modify' = b
ModifyWrite(b) == modify = b /\ Access(b, WRITE) /\ modify' = NoBlock

Next == \E b \in Blocks : Load(b) \/ Store(b) \/ Modify(b) \/ ModifyWrite(b)

Spec == Init /\ [][Next]_vars

-----------------------------------------------------------------------------
(* Properties.                                                             *)

(* The shape of the state.                                                 *)
TypeOK ==
  /\ cache \in CacheState({ZeroBlock})
  /\ modify \in Blocks \cup {NoBlock}
  /\ crashed \in BOOLEAN
  /\ call \in [block : Blocks \cup {NoBlock}, op : Operations]
  /\ now \in Nat
  /\ lastUse \in [Sets -> [Ways -> Nat]]

ValidLines(s) == {w \in Ways : cache.sets[s][w].valid}

(* A block is in at most one line: two valid lines of a set never carry    *)
(* the same tag.  get_line stops at the first match, so a second copy      *)
(* would silently go stale (cache.c:162-170, 287-297).                     *)
OneLinePerBlock ==
  \A s \in Sets : \A v, w \in ValidLines(s) :
    cache.sets[s][v].tag = cache.sets[s][w].tag => v = w

(* The stamps order the lines of a set by recency, except that a hit and   *)
(* the fill right after it share a stamp, because a hit stamps with the    *)
(* incremented next_lru and a fill with the old one (cache.c:167, 237,     *)
(* 299).                                                                   *)
StampsFollowRecency ==
  \A s \in Sets : \A v, w \in ValidLines(s) :
    lastUse[s][v] < lastUse[s][w] =>
      \/ cache.sets[s][v].lru < cache.sets[s][w].lru
      \/ /\ cache.sets[s][v].lru = cache.sets[s][w].lru
         /\ lastUse[s][w] = lastUse[s][v] + 1

(* Why: every call of access_data moves next_lru by exactly one, whichever *)
(* of the two places increments it (cache.c:167, 299), so a stamp is the   *)
(* number of the call that set it or, for a fill, of the call before.      *)
StampsAreUseTimes ==
  /\ cache.next_lru = now
  /\ \A s \in Sets : \A v, w \in ValidLines(s) :
       /\ 0 < lastUse[s][w] /\ lastUse[s][w] <= now
       /\ \/ cache.sets[s][w].lru = lastUse[s][w]
          \/ cache.sets[s][w].lru + 1 = lastUse[s][w]
       /\ lastUse[s][v] = lastUse[s][w] => v = w

(* Line w of set s holds another block after the step.                     *)
Replaced(s, w) ==
  /\ cache.sets[s][w].valid
  /\ cache'.sets[s][w].tag # cache.sets[s][w].tag

(* The lines of set s used longer ago than line w.                         *)
OlderLines(s, w) == {v \in Ways : lastUse[s][v] < lastUse[s][w]}

(* "The replacement policy is LRU" (cache.c:6): the line a miss replaces   *)
(* is the least recently used one of its set.                              *)
EvictsLeastRecentlyUsed ==
  [][\A s \in Sets, w \in Ways : Replaced(s, w) => OlderLines(s, w) = {}]_vars

(* What the tie leaves of LRU: at most one line of the set was used longer *)
(* ago than the victim, and then by the very next call before the victim's *)
(* last use.                                                               *)
EvictsOldestOrSuccessor ==
  [][\A s \in Sets, w \in Ways : Replaced(s, w) =>
       \A v \in OlderLines(s, w) :
          /\ OlderLines(s, w) = {v}
          /\ lastUse[s][w] = lastUse[s][v] + 1]_vars

(* The write half of an 'M' always finds the block its read half brought   *)
(* in: nothing comes between the two calls (csim.c:81-84).                 *)
ModifyWriteHits == modify # NoBlock /\ ~crashed => Hit(cache, modify)

(* The trace player can always replay the next line: select_line, "Return  *)
(* the cache line selected to filled in by addr", returns a line           *)
(* (cache.c:176-179).                                                      *)
NeverCrashes == ~crashed

(* What holds of it: NULL comes back only once next_lru has passed         *)
(* INT_MAX, the value the running minimum starts at (cache.c:206-219).     *)
CrashNeedsStampOverflow == crashed => cache.next_lru > INT_MAX

-----------------------------------------------------------------------------
(* The counters mean what the abstract cache says they mean.               *)

residentBlocks == {b \in Blocks : Hit(cache, b)}
unwrittenBlocks == {b \in residentBlocks : LineOf(cache, b).dirty}

WB == INSTANCE WriteBackCache WITH
        Capacity <- A, SetOf <- SetIndex,
        resident <- residentBlocks, unwritten <- unwrittenBlocks,
        hits <- cache.hit_count, misses <- cache.miss_count,
        dirtyEvictions <- cache.dirty_eviction_count,
        cleanEvictions <- cache.clean_eviction_count

(* Every call of access_data is one access of the abstract write-back      *)
(* cache, to the same block with the same operation: a block leaves only a *)
(* full set, one at a time, and is counted dirty exactly when a store      *)
(* reached it after it came in (cache.c:250-303).                          *)
ImplementsWriteBack == WB!Spec
=============================================================================
