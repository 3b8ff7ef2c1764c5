------------------------------- MODULE Cache -------------------------------
(***************************************************************************)
(* The set-associative, write-back, write-allocate cache of                *)
(* src/cache/cache.c.  The file is a library: its state is one cache_t and *)
(* six file-scope counters, and its functions run to completion inside     *)
(* their caller.  The state is the record c below, and every function of   *)
(* the file is an operator from a state of the cache to the next one; the  *)
(* two programs that link the file, csim (module Csim) and the memory of   *)
(* the pipeline emulator (module MemCache), own the variable.              *)
(*                                                                         *)
(* An address is abstracted to the number of the block that holds it: its  *)
(* offset bits never reach a decision of this file.  The number of a block *)
(* splits into set index and tag as bitfield_u64 splits the address.       *)
(***************************************************************************)
EXTENDS Naturals

CONSTANTS
  A,          \* associativity: lines per set
  S,          \* number of sets, C / (A * B)
  Blocks,     \* the block numbers the run may touch
  INT_MAX,    \* largest value of an int (limits.h)
  ZeroBlock,  \* the contents of a block fresh from calloc
  NoData      \* the NULL incoming_data of access_data

ASSUME CacheAssumption ==
  /\ A \in Nat \ {0}
  /\ S \in Nat \ {0}
  /\ Blocks \subseteq Nat
  /\ INT_MAX \in Nat

READ  == "READ"
WRITE == "WRITE"
Operations == {READ, WRITE}

Ways == 0 .. A-1
Sets == 0 .. S-1

NoLine == A   \* the NULL of get_line and of select_line

SetIndex(b) == b % S
Tag(b)      == b \div S
Address(s, t) == t * S + s   \* the block whose set index is s and tag is t

Line(Data) == [valid : BOOLEAN, tag : Nat, dirty : BOOLEAN, lru : Nat,
               data : Data]

CacheState(Data) ==
  [sets : [Sets -> [Ways -> Line(Data)]], next_lru : Nat,
   hit_count : Nat, miss_count : Nat,
   dirty_eviction_count : Nat, clean_eviction_count : Nat]

create_cache ==
  [sets |-> [s \in Sets |-> [w \in Ways |->
     [valid |-> FALSE, tag |-> 0, dirty |-> FALSE, lru |-> 0,
      data |-> ZeroBlock]]],
   next_lru |-> 0, hit_count |-> 0, miss_count |-> 0,
   dirty_eviction_count |-> 0, clean_eviction_count |-> 0]

-----------------------------------------------------------------------------
(* Looking a block up.                                                     *)

(* The way a loop over the lines of a set meets first.                     *)
First(W) == CHOOSE w \in W : \A v \in W : w <= v

(* Seeded fault: the loop of get_line stops one way short.                 *)
MatchingOneShort(c, b) ==
  {w \in 0 .. A-2 : /\ c.sets[SetIndex(b)][w].tag = Tag(b)
                    /\ c.sets[SetIndex(b)][w].valid}

Matching(c, b) ==
  {w \in Ways : /\ c.sets[SetIndex(b)][w].tag = Tag(b)
                /\ c.sets[SetIndex(b)][w].valid}

Hit(c, b) == Matching(c, b) # {}

(* get_line: the line of b, or NULL.  On a hit it also increments next_lru;*)
(* every caller then stamps the line, so the two are one step in Touch.    *)
get_line(c, b) == IF Hit(c, b) THEN First(Matching(c, b)) ELSE NoLine

LineOf(c, b) == c.sets[SetIndex(b)][get_line(c, b)]

(* The sets once the line that holds b is replaced by line.                *)
WithLine(c, b, line) ==
  [c.sets EXCEPT ![SetIndex(b)][get_line(c, b)] = line]

(* Seeded fault: a store that hits does not mark its line.                 *)
CountHitsUnmarked(c, b, op, k) ==
  [c EXCEPT
     !.next_lru = @ + k,
     !.hit_count = @ + k,
     !.sets = WithLine(c, b, [LineOf(c, b) EXCEPT !.lru = c.next_lru + k])]

(* What k calls of check_hit in a row on block b leave behind when b is    *)
(* resident: each stamps the line with the incremented next_lru.  The      *)
(* function returns Hit(c, b).                                             *)
CountHits(c, b, op, k) ==
  [c EXCEPT
     !.next_lru = @ + k,
     !.hit_count = @ + k,
     !.sets = WithLine(c, b, [LineOf(c, b) EXCEPT
                                !.lru = c.next_lru + k,
                                !.dirty = IF op = WRITE THEN TRUE ELSE @])]

(* Seeded fault: the early return of a miss is lost.                       *)
check_hitNoReturn(c, b, op) ==
  IF Hit(c, b) THEN CountHits(c, b, op, 1)
               ELSE [c EXCEPT !.miss_count = @ + 1, !.hit_count = @ + 1]

check_hit(c, b, op) ==
  IF Hit(c, b) THEN CountHits(c, b, op, 1)
               ELSE [c EXCEPT !.miss_count = @ + 1]

-----------------------------------------------------------------------------
(* Replacing a line.                                                       *)

Empty(c, s) == {w \in Ways : ~c.sets[s][w].valid}

(* Seeded faults: the comparison turned round, and made strict.            *)
Newest(c, s) ==
  {w \in Ways : \A v \in Ways : c.sets[s][w].lru >= c.sets[s][v].lru}
OldestStrict(c, s) ==
  {w \in Ways : /\ c.sets[s][w].lru <= INT_MAX
                /\ \A v \in Ways : c.sets[s][w].lru < c.sets[s][v].lru}

(* The lines select_line may settle on in a full set: the running minimum  *)
(* is an int that starts at INT_MAX, so a stamp above INT_MAX never wins.  *)
Oldest(c, s) ==
  {w \in Ways : /\ c.sets[s][w].lru <= INT_MAX
                /\ \A v \in Ways : c.sets[s][w].lru <= c.sets[s][v].lru}

select_line(c, b) ==
  LET s == SetIndex(b) IN
    IF Empty(c, s) # {} THEN First(Empty(c, s))
    ELSE IF Oldest(c, s) # {} THEN First(Oldest(c, s))
    ELSE NoLine

(* The evicted_line_t that handle_miss fills out.                          *)
Evicted(c, b) ==
  LET line == c.sets[SetIndex(b)][select_line(c, b)] IN
    [block |-> Address(SetIndex(b), line.tag), valid |-> line.valid,
     dirty |-> line.dirty, data |-> line.data]

(* The sets once the victim holds b.                                       *)
Filled(c, b, op, data) ==
  [c.sets EXCEPT ![SetIndex(b)][select_line(c, b)] =
     [valid |-> TRUE, tag |-> Tag(b), dirty |-> op = WRITE,
      lru |-> c.next_lru, data |-> data]]

(* Seeded faults of handle_miss: next_lru is not moved on, or is moved     *)
(* back, or the incoming block is not copied into the line.                *)
handle_missNoTick(c, b, op, incoming) ==
  [c EXCEPT !.sets = Filled(c, b, op, Evicted(c, b).data)]
handle_missTickBack(c, b, op, incoming) ==
  [c EXCEPT !.sets = Filled(c, b, op, Evicted(c, b).data),
            !.next_lru = @ - 1]
handle_missNoCopy(c, b, op, incoming) ==
  [c EXCEPT !.sets = Filled(c, b, op, Evicted(c, b).data),
            !.next_lru = @ + 1]

(* handle_miss dereferences what select_line returned: its callers below   *)
(* are only defined where that is a line.                                  *)
handle_miss(c, b, op, incoming) ==
  LET e == Evicted(c, b) IN
    [c EXCEPT
       !.sets = Filled(c, b, op,
                       IF incoming = NoData THEN e.data ELSE incoming),
       !.next_lru = @ + 1,
       !.dirty_eviction_count = IF e.valid /\ e.dirty THEN @ + 1 ELSE @,
       !.clean_eviction_count = IF e.valid /\ ~e.dirty THEN @ + 1 ELSE @]

-----------------------------------------------------------------------------
(* The word accesses of the emulator and the access of the trace player.   *)

get_word_cache(c, b) ==
  [c EXCEPT !.next_lru = @ + 1,
            !.sets = WithLine(c, b, [LineOf(c, b) EXCEPT !.lru = c.next_lru + 1])]

(* Seeded fault: the offset of the word in its block is lost.              *)
set_word_cacheNoOffset(c, b, off, val) ==
  [c EXCEPT !.next_lru = @ + 1,
            !.sets = WithLine(c, b, [LineOf(c, b) EXCEPT
                                       !.lru = c.next_lru + 1,
                                       !.data[0] = val,
                                       !.dirty = TRUE])]

set_word_cache(c, b, off, val) ==
  [c EXCEPT !.next_lru = @ + 1,
            !.sets = WithLine(c, b, [LineOf(c, b) EXCEPT
                                       !.lru = c.next_lru + 1,
                                       !.data[off] = val,
                                       !.dirty = TRUE])]

access_data(c, b, op) ==
  IF Hit(c, b) THEN check_hit(c, b, op)
               ELSE handle_miss(check_hit(c, b, op), b, op, NoData)

(* The line an access to b ends on: the one that holds it, or the victim.  *)
LineFor(c, b) == IF Hit(c, b) THEN get_line(c, b) ELSE select_line(c, b)

(* access_data dereferences NULL.                                          *)
AccessCrashes(c, b) == ~Hit(c, b) /\ select_line(c, b) = NoLine
=============================================================================
