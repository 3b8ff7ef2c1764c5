--------------------------- MODULE MemCacheProofs ---------------------------
(***************************************************************************)
(* What is true of data memory behind the cache, for every geometry, size  *)
(* of block, memory, penalty and sequence of loads and stores: it answers  *)
(* as a flat array of words does, at the cost the penalty sets, and evicts *)
(* in true LRU order.                                                      *)
(***************************************************************************)
EXTENDS MemCache, CacheProofs

-----------------------------------------------------------------------------
(* The two word accesses of the library.                                   *)

(* n is c once the word access to b has stamped its line.                  *)
WordOutcome(c, n, b, data, dirty) ==
  LET s == SetIndex(b)
      w == get_line(c, b)
      new == n.sets[s][w]
  IN  /\ n \in CacheState(Contents)
      /\ n.next_lru = c.next_lru + 1
      /\ \A t \in Sets, v \in Ways :
           ~(t = s /\ v = w) => n.sets[t][v] = c.sets[t][v]
      /\ new.valid /\ new.tag = Tag(b)
      /\ new.lru = c.next_lru + 1
      /\ new.dirty = dirty
      /\ new.data = data
      /\ n.hit_count = c.hit_count
      /\ n.miss_count = c.miss_count

(* Stamping the line of b and putting data into it does no more than that. *)
LEMMA WordEffect ==
  ASSUME NEW c \in CacheState(Contents), NEW b \in Nat, Hit(c, b),
         NEW data \in Contents, NEW dirty \in BOOLEAN, NEW line,
         line = [valid |-> LineOf(c, b).valid, tag |-> LineOf(c, b).tag,
                 dirty |-> dirty, lru |-> c.next_lru + 1, data |-> data],
         NEW n,
         n = [c EXCEPT !.next_lru = @ + 1, !.sets = WithLine(c, b, line)]
  PROVE  WordOutcome(c, n, b, data, dirty)
<1> DEFINE s == SetIndex(b)
           w == get_line(c, b)
<1>1. /\ s \in Sets /\ w \in Ways
      /\ c.sets[s][w].valid /\ c.sets[s][w].tag = Tag(b)
      /\ c.sets[s][w] \in Line(Contents)
      /\ c.next_lru + 1 \in Nat
  BY IndexType, GetLineMatches DEF CacheState
<1>2. /\ line \in Line(Contents)
      /\ line.valid /\ line.tag = Tag(b) /\ line.lru = c.next_lru + 1
      /\ line.dirty = dirty /\ line.data = data
  BY <1>1 DEF Line, LineOf
<1>3. n = [c EXCEPT !.next_lru = c.next_lru + 1,
                    !.sets = [c.sets EXCEPT ![s][w] = line]]
  BY DEF WithLine
<1> HIDE DEF s, w
<1>4. [c.sets EXCEPT ![s][w] = line] \in [Sets -> [Ways -> Line(Contents)]]
  BY <1>1, <1>2 DEF CacheState
<1>5. n \in CacheState(Contents)
  BY <1>1, <1>3, <1>4 DEF CacheState
<1>6. /\ n.sets = [c.sets EXCEPT ![s][w] = line]
      /\ n.next_lru = c.next_lru + 1
      /\ n.hit_count = c.hit_count /\ n.miss_count = c.miss_count
  BY <1>3 DEF CacheState
<1>7. n.sets[s][w] = line
  BY <1>1, <1>6 DEF CacheState
<1>8. \A t \in Sets, v \in Ways : ~(t = s /\ v = w) => n.sets[t][v] = c.sets[t][v]
  BY <1>1, <1>6 DEF CacheState
<1>9. QED
  BY <1>2, <1>5, <1>6, <1>7, <1>8 DEF s, w, WordOutcome

(* A load leaves the line's data and its dirty bit (cache.c:309-324).      *)
LEMMA GetWordEffect ==
  ASSUME NEW c \in CacheState(Contents), NEW b \in Nat, Hit(c, b)
  PROVE  WordOutcome(c, get_word_cache(c, b), b, LineOf(c, b).data, LineOf(c, b).dirty)
<1>1. LineOf(c, b) \in Line(Contents)
  BY IndexType, GetLineMatches DEF CacheState, LineOf
<1>2. LineOf(c, b).data \in Contents /\ LineOf(c, b).dirty \in BOOLEAN
  BY <1>1 DEF Line
<1>3. [LineOf(c, b) EXCEPT !.lru = c.next_lru + 1] =
      [valid |-> LineOf(c, b).valid, tag |-> LineOf(c, b).tag,
       dirty |-> LineOf(c, b).dirty, lru |-> c.next_lru + 1,
       data |-> LineOf(c, b).data]
  BY <1>1 DEF Line
<1>4. QED
  BY <1>2, <1>3, WordEffect DEF get_word_cache

(* A store changes its word and sets the dirty bit (cache.c:327-346).      *)
LEMMA SetWordEffect ==
  ASSUME NEW c \in CacheState(Contents), NEW b \in Nat, Hit(c, b),
         NEW off \in Words, NEW val \in Values
  PROVE  WordOutcome(c, set_word_cache(c, b, off, val), b,
                     [LineOf(c, b).data EXCEPT ![off] = val], TRUE)
<1>1. LineOf(c, b) \in Line(Contents)
  BY IndexType, GetLineMatches DEF CacheState, LineOf
<1>2. [LineOf(c, b).data EXCEPT ![off] = val] \in Contents
  BY <1>1 DEF Line, Contents
<1>3. [LineOf(c, b) EXCEPT !.lru = c.next_lru + 1, !.data[off] = val, !.dirty = TRUE] =
      [valid |-> LineOf(c, b).valid, tag |-> LineOf(c, b).tag,
       dirty |-> TRUE, lru |-> c.next_lru + 1,
       data |-> [LineOf(c, b).data EXCEPT ![off] = val]]
  <2> DEFINE x == LineOf(c, b)
             y == [x EXCEPT !.lru = c.next_lru + 1, !.data[off] = val, !.dirty = TRUE]
  <2>1. x \in [valid : BOOLEAN, tag : Nat, dirty : BOOLEAN, lru : Nat, data : Contents]
    BY <1>1 DEF Line
  <2> HIDE DEF x
  <2>2. y = [x EXCEPT !.lru = c.next_lru + 1,
                      !.data = [x.data EXCEPT ![off] = val], !.dirty = TRUE]
    BY <2>1
  <2> HIDE DEF y
  <2>3. y = [valid |-> x.valid, tag |-> x.tag, dirty |-> TRUE, lru |-> c.next_lru + 1,
             data |-> [x.data EXCEPT ![off] = val]]
    BY <2>1, <2>2
  <2>4. QED
    BY <2>3 DEF x, y
<1>4. QED
  BY <1>2, <1>3, WordEffect DEF set_word_cache

-----------------------------------------------------------------------------
(* The inductive invariant.                                                *)

(* The wait: only an access that misses waits, it has counted its stalls,  *)
(* and it ends in its last cycle.  WaitBelongsToRequest is what follows    *)
(* without the bound that ends it.                                         *)
WaitInv ==
  /\ inflight <=> dmem_status = "IN_FLIGHT"
  /\ request = NoRequest => ~inflight
  /\ request # NoRequest => /\ stalls < MissCycles
                            /\ inflight <=> stalls > 0
  /\ inflight => /\ inflight_addr = request.block
                 /\ ~Hit(cache, request.block)
                 /\ inflight_cycles = MissCycles - stalls

(* The counters at any time: CountersAtRest is the case of no request.     *)
CountInv ==
  /\ request = NoRequest =>
       /\ cache.miss_count = MissCycles * misses
       /\ cache.hit_count + misses = Width * issued
  /\ request # NoRequest =>
       /\ issued > 0
       /\ cache.miss_count = MissCycles * misses + stalls
       /\ cache.hit_count + misses + Width = Width * issued

(* Stamps are at most the counter, last uses at most the requests issued,  *)
(* and both order the lines of a set alike.                                *)
StampInv ==
  /\ \A s \in Sets, w \in Ways : /\ cache.sets[s][w].lru <= cache.next_lru
                                 /\ lastUse[s][w] <= issued
  /\ \A s \in Sets : \A v, w \in Ways :
       /\ cache.sets[s][v].valid /\ cache.sets[s][w].valid
       /\ lastUse[s][v] < lastUse[s][w]
       => cache.sets[s][v].lru < cache.sets[s][w].lru

MInv == /\ TypeOK
        /\ OneLine(cache)
        /\ CleanLinesMatchMemory
        /\ WaitInv
        /\ CountInv
        /\ StampInv
        /\ CrashNeedsStampOverflow

-----------------------------------------------------------------------------
(* What an answered request does, whether it hits or fills.                *)

(* The parts of a request and of the state that the proofs work with.      *)
LEMMA RequestFacts ==
  ASSUME TypeOK, request # NoRequest
  PROVE  /\ request \in Requests
         /\ request.block \in Blocks /\ request.block \in Nat
         /\ request.word \in Words
         /\ SetIndex(request.block) \in Sets
         /\ request.op \in Operations
         /\ request.op # READ => request.op = WRITE /\ request.val \in Values
         /\ cache \in CacheState(Contents)
         /\ memory[request.block] \in Contents
<1>1. request \in Requests /\ cache \in CacheState(Contents)
  BY DEF TypeOK
<1>2. request.block \in Blocks /\ request.block \in Nat
  BY <1>1, CacheAssumption DEF Requests
<1>3. QED
  BY <1>1, <1>2, IndexType DEF Requests, Operations, READ, WRITE, TypeOK

(* The data the line has after the request: what the program saw of the    *)
(* block, and the stored word.                                             *)
DataAfter ==
  IF request.op = READ THEN Visible[request.block]
  ELSE [Visible[request.block] EXCEPT ![request.word] = request.val]

(* The block holds a store that memory has not seen.                       *)
DirtyBefore == Hit(cache, request.block) /\ LineOf(cache, request.block).dirty

(* Line w holds the block of the request with the newest stamp, that data  *)
(* and a dirty bit that tells of every store to it; the other lines are    *)
(* untouched.                                                              *)
Answered(w) ==
  LET b   == request.block
      new == cache'.sets[SetIndex(b)][w]
  IN  /\ cache' \in CacheState(Contents)
      /\ Placed(cache, cache', b, w)
      /\ cache'.next_lru > cache.next_lru
      /\ new.lru = cache'.next_lru
      /\ new.data = DataAfter
      /\ new.dirty = (request.op = WRITE \/ DirtyBefore)
      /\ reply' = IF request.op = READ THEN Visible[b][request.word] ELSE reply
      /\ request' = NoRequest
      /\ dmem_status' = "READY"
      /\ lastUse' = [lastUse EXCEPT ![SetIndex(b)][w] = issued]
      /\ UNCHANGED <<issued, stalls, crashed>>

(* A line that stays where it was placed stays placed.                     *)
LEMMA PlacedAgain ==
  ASSUME NEW c, NEW m, NEW n, NEW b \in Nat, NEW w,
         Placed(c, m, b, w), Holds(n, b, w),
         \A t \in Sets, v \in Ways :
           ~(t = SetIndex(b) /\ v = w) => n.sets[t][v] = m.sets[t][v]
  PROVE  Placed(c, n, b, w)
  BY DEF Placed

(* The end of an access whose remaining k lookups hit line w of c, a cache *)
(* that differs from the present one by that line only.                    *)
LEMMA AnswerEffect ==
  ASSUME TypeOK, OneLine(cache), request # NoRequest,
         NEW c \in CacheState(Contents), NEW k \in Nat, NEW w,
         Placed(cache, c, request.block, w),
         c.next_lru >= cache.next_lru,
         c.sets[SetIndex(request.block)][w].data = Visible[request.block],
         request.op = READ =>
           c.sets[SetIndex(request.block)][w].dirty = DirtyBefore,
         w = LineFor(cache, request.block),
         Answer(CountHits(c, request.block, request.op, k)),
         UNCHANGED crashed
  PROVE  /\ Answered(w)
         /\ cache'.hit_count = c.hit_count + k
         /\ cache'.miss_count = c.miss_count
<1> DEFINE b == request.block
           s == SetIndex(b)
           n == CountHits(c, b, request.op, k)
<1>1. /\ b \in Nat /\ s \in Sets /\ b \in Blocks /\ request.word \in Words
      /\ request.op # READ => request.op = WRITE /\ request.val \in Values
      /\ READ # WRITE
  BY RequestFacts DEF READ, WRITE
<1>2. Hit(c, b) /\ get_line(c, b) = w /\ OneLine(c) /\ w \in Ways
  BY <1>1, PlacedFinds DEF Placed
<1>3. HitOutcome(Contents, c, b, request.op, k)
  BY <1>1, <1>2, HitEffect
<1>4. Placed(cache, n, b, w) /\ n \in CacheState(Contents)
  <2>1. Holds(n, b, w)
    BY <1>2, <1>3 DEF HitOutcome, Holds
  <2>2. QED
    BY <1>1, <1>2, <1>3, <2>1, PlacedAgain DEF HitOutcome
<1>5. /\ Hit(n, b) /\ get_line(n, b) = w
      /\ LineOf(n, b).data = Visible[b]
      /\ request.op = READ => LineOf(n, b).dirty = DirtyBefore
  <2>1. Hit(n, b) /\ get_line(n, b) = w
    BY <1>1, <1>4, PlacedFinds
  <2>2. QED
    BY <1>1, <1>2, <1>3, <2>1 DEF HitOutcome, LineOf
<1> HIDE DEF n
<1>6. \E dirty \in BOOLEAN :
        /\ WordOutcome(n, cache', b, DataAfter, dirty)
        /\ dirty = (request.op = WRITE \/ DirtyBefore)
  <2>1. CASE request.op = READ
    <3>1. cache' = get_word_cache(n, b)
      BY <2>1 DEF Answer, n
    <3>2. WordOutcome(n, cache', b, LineOf(n, b).data, LineOf(n, b).dirty)
      BY <1>1, <1>4, <1>5, <3>1, GetWordEffect
    <3>3. LineOf(n, b).data = DataAfter
      BY <1>5, <2>1 DEF DataAfter
    <3>4. LineOf(n, b).dirty \in BOOLEAN
      BY <1>1, <1>4, <1>5 DEF LineOf, CacheState, Line, Placed
    <3>5. QED
      BY <1>1, <1>5, <2>1, <3>2, <3>3, <3>4
  <2>2. CASE request.op # READ
    <3>1. cache' = set_word_cache(n, b, request.word, request.val)
      BY <2>2 DEF Answer, n
    <3>2. WordOutcome(n, cache', b,
                      [LineOf(n, b).data EXCEPT ![request.word] = request.val], TRUE)
      BY <1>1, <1>4, <1>5, <2>2, <3>1, SetWordEffect
    <3>3. [LineOf(n, b).data EXCEPT ![request.word] = request.val] = DataAfter
      BY <1>5, <2>2 DEF DataAfter
    <3>4. QED
      BY <1>1, <2>2, <3>2, <3>3
  <2>3. QED
    BY <2>1, <2>2
<1>7. PICK dirty \in BOOLEAN :
        /\ WordOutcome(n, cache', b, DataAfter, dirty)
        /\ dirty = (request.op = WRITE \/ DirtyBefore)
  BY <1>6
<1>8. Placed(cache, cache', b, w)
  <2>1. Holds(cache', b, w)
    BY <1>5, <1>7 DEF WordOutcome, Holds
  <2>2. QED
    BY <1>1, <1>4, <1>5, <1>7, <2>1, PlacedAgain DEF WordOutcome
<1>9. /\ cache'.next_lru > cache.next_lru
      /\ cache'.hit_count = c.hit_count + k /\ cache'.miss_count = c.miss_count
  <2>1. n.next_lru = c.next_lru + k /\ n.hit_count = c.hit_count + k
        /\ n.miss_count = c.miss_count
    BY <1>3 DEF HitOutcome, n
  <2>2. cache'.next_lru = n.next_lru + 1 /\ cache'.hit_count = n.hit_count
        /\ cache'.miss_count = n.miss_count
    BY <1>7 DEF WordOutcome
  <2>3. cache.next_lru \in Nat /\ c.next_lru \in Nat
    BY RequestFacts DEF CacheState
  <2>4. QED
    BY <2>1, <2>2, <2>3
<1>10. reply' = IF request.op = READ THEN Visible[b][request.word] ELSE reply
  <2>1. reply' = IF request.op = READ THEN LineOf(n, b).data[request.word] ELSE reply
    BY DEF Answer, Loaded, n
  <2>2. QED
    BY <1>5, <2>1
<1>11. /\ request' = NoRequest /\ dmem_status' = "READY"
       /\ lastUse' = [lastUse EXCEPT ![s][w] = issued]
       /\ UNCHANGED <<issued, stalls>>
  BY DEF Answer
<1>12. /\ cache' \in CacheState(Contents)
       /\ cache'.sets[s][w].lru = cache'.next_lru
       /\ cache'.sets[s][w].data = DataAfter
       /\ cache'.sets[s][w].dirty =
            (request.op = WRITE \/ DirtyBefore)
  BY <1>5, <1>7 DEF WordOutcome
<1>13. QED
  BY <1>8, <1>9, <1>10, <1>11, <1>12 DEF Answered

(* An access that hits, its Width lookups included.                        *)
LEMMA HitAnswer ==
  ASSUME TypeOK, OneLine(cache), AccessHit
  PROVE  /\ Answered(get_line(cache, request.block))
         /\ cache'.hit_count = cache.hit_count + Width
         /\ cache'.miss_count = cache.miss_count
<1> DEFINE b == request.block
           w == get_line(cache, b)
<1>1. /\ request # NoRequest /\ Hit(cache, b) /\ UNCHANGED crashed
      /\ Answer(CountHits(cache, b, request.op, Width))
  BY DEF AccessHit
<1>2. b \in Nat /\ b \in Blocks /\ cache \in CacheState(Contents) /\ Width \in Nat
  BY <1>1, RequestFacts, MemCacheAssumption
<1>3. w \in Ways /\ Holds(cache, b, w)
  BY <1>1, GetLineMatches DEF Holds
<1>4. \A v \in Ways \ {w} : ~Holds(cache, b, v)
  BY <1>2, LineIsFound
<1>5. Placed(cache, cache, b, w)
  BY <1>3, <1>4 DEF Placed
<1>6. cache.sets[SetIndex(b)][w] = LineOf(cache, b) /\ w = LineFor(cache, b)
  BY <1>1 DEF LineOf, LineFor
<1>7. /\ cache.sets[SetIndex(b)][w].data = Visible[b]
      /\ cache.sets[SetIndex(b)][w].dirty = DirtyBefore
  <2>1. LineOf(cache, b).dirty \in BOOLEAN
    BY <1>2, <1>3, <1>6, IndexType DEF CacheState, Line
  <2>2. QED
    BY <1>1, <1>2, <1>6, <2>1 DEF Visible, DirtyBefore
<1>8. cache.next_lru \in Nat
  BY <1>2 DEF CacheState
<1>9. QED
  BY <1>1, <1>2, <1>5, <1>6, <1>7, <1>8, AnswerEffect

(* An access whose wait is over: one lookup misses, the line is filled     *)
(* from memory, and the other lookups hit it.                              *)
LEMMA FillAnswer ==
  ASSUME TypeOK, OneLine(cache), AccessFill
  PROVE  /\ Answered(select_line(cache, request.block))
         /\ cache'.hit_count + 1 = cache.hit_count + Width
         /\ cache'.miss_count = cache.miss_count + 1
<1> DEFINE b == request.block
           w == select_line(cache, b)
           filled == handle_miss(check_hit(cache, b, request.op), b, request.op, memory[b])
<1>1. /\ request # NoRequest /\ ~Hit(cache, b) /\ UNCHANGED crashed
      /\ w # NoLine
      /\ Answer(CountHits(filled, b, request.op, Width - 1))
  BY DEF AccessFill, Missing
<1>2. /\ b \in Nat /\ b \in Blocks /\ cache \in CacheState(Contents)
      /\ Width \in Nat /\ Width - 1 \in Nat
      /\ memory[b] \in Contents /\ memory[b] # NoData
      /\ SetIndex(b) \in Sets
  BY <1>1, RequestFacts, MemCacheAssumption DEF Contents
<1>3. MissOutcome(Contents, cache, b, request.op, memory[b])
  BY <1>1, <1>2, MissEffect
<1>4. w \in Ways
  BY <1>1, SelectLineChoice DEF Victim
<1> HIDE DEF filled
<1>5. /\ filled \in CacheState(Contents)
      /\ filled.next_lru = cache.next_lru + 1
      /\ filled.hit_count = cache.hit_count
      /\ filled.miss_count = cache.miss_count + 1
      /\ filled.sets[SetIndex(b)][w].data = memory[b]
      /\ filled.sets[SetIndex(b)][w].dirty = (request.op = WRITE)
  BY <1>2, <1>3 DEF MissOutcome, filled
<1>6. Placed(cache, filled, b, w)
  <2>1. \A v \in Ways : ~Holds(cache, b, v)
    BY <1>1 DEF Hit, Matching, Holds
  <2>2. QED
    BY <1>3, <1>4, <2>1 DEF MissOutcome, Placed, Holds, filled
<1>7. /\ filled.sets[SetIndex(b)][w].data = Visible[b]
      /\ request.op = READ => filled.sets[SetIndex(b)][w].dirty = DirtyBefore
      /\ w = LineFor(cache, b)
  BY <1>1, <1>2, <1>5 DEF Visible, DirtyBefore, LineFor, READ, WRITE
<1>8. filled.next_lru >= cache.next_lru /\ cache.next_lru \in Nat /\ cache.hit_count \in Nat
  BY <1>2, <1>5 DEF CacheState
<1>9. /\ Answered(w)
      /\ cache'.hit_count = filled.hit_count + (Width - 1)
      /\ cache'.miss_count = filled.miss_count
  BY <1>1, <1>2, <1>5, <1>6, <1>7, <1>8, AnswerEffect
<1>10. QED
  BY <1>2, <1>5, <1>8, <1>9

(* Where the evicted block is among the blocks, and what becomes of it.    *)
LEMMA EvictedBlock ==
  ASSUME TypeOK, OneLine(cache), AccessFill, NEW x \in Blocks
  PROVE  LET b == request.block
             w == select_line(cache, b)
             old == cache.sets[SetIndex(b)][w]
             gone == SetIndex(x) = SetIndex(b) /\ Holds(cache, x, w)
         IN  /\ gone => /\ Hit(cache, x) /\ LineOf(cache, x) = old
                        /\ memory'[x] = IF old.dirty THEN old.data ELSE memory[x]
             /\ ~gone => memory'[x] = memory[x]
<1> DEFINE b == request.block
           s == SetIndex(b)
           w == select_line(cache, b)
           old == cache.sets[s][w]
           e == Address(s, old.tag)
           gone == SetIndex(x) = s /\ Holds(cache, x, w)
<1>1. /\ b \in Nat /\ s \in Sets /\ x \in Nat /\ cache \in CacheState(Contents)
      /\ w \in Ways /\ memory \in [Blocks -> Contents]
  BY RequestFacts, SelectLineChoice, CacheAssumption
  DEF AccessFill, Missing, Victim, TypeOK
<1>2. old.tag \in Nat /\ SetIndex(e) = s /\ Tag(e) = old.tag /\ e \in Nat
  BY <1>1, AddressParts DEF CacheState, Line
<1>3. memory' = IF old.valid /\ old.dirty THEN [memory EXCEPT ![e] = old.data]
                                          ELSE memory
  BY DEF AccessFill, WriteBack, Evicted
<1>4. gone => x = e /\ old.valid
  BY <1>1, <1>2, BlockParts DEF Holds
<1>5. old.valid /\ x = e => gone
  BY <1>2 DEF Holds
<1>6. gone => Hit(cache, x) /\ LineOf(cache, x) = old
  BY <1>1, LineIsFound DEF LineOf
<1> HIDE DEF e, old, gone
<1>7. gone => memory'[x] = IF old.dirty THEN old.data ELSE memory[x]
  BY <1>1, <1>3, <1>4
<1>8. ~gone => memory'[x] = memory[x]
  BY <1>1, <1>3, <1>5
<1>9. QED
  BY <1>6, <1>7, <1>8 DEF e, old, gone
-----------------------------------------------------------------------------
(* What the program sees afterwards.                                       *)

(* Block x gives its line to the block of the request.                     *)
GivesWay(x) ==
  /\ x # request.block
  /\ SetIndex(x) = SetIndex(request.block)
  /\ Holds(cache, x, LineFor(cache, request.block))

(* The access leaves memory alone but for the block that loses its line,   *)
(* which memory then has as the program saw it.                            *)
MemoryAfter ==
  /\ memory' \in [Blocks -> Contents]
  /\ \A x \in Blocks : memory'[x] = IF GivesWay(x) THEN Visible[x] ELSE memory[x]

(* A hit takes no line from another block and writes nothing back.         *)
LEMMA HitMemory ==
  ASSUME MInv, AccessHit
  PROVE  MemoryAfter
<1>1. /\ request # NoRequest /\ Hit(cache, request.block) /\ memory' = memory
      /\ TypeOK /\ OneLine(cache)
  BY DEF AccessHit, MInv
<1>2. Holds(cache, request.block, get_line(cache, request.block))
  BY <1>1, GetLineMatches DEF Holds
<1>3. ASSUME NEW x \in Blocks
      PROVE  ~GivesWay(x)
  <2>1. request.block \in Nat /\ x \in Nat
    BY <1>1, RequestFacts, CacheAssumption
  <2>2. QED
    BY <1>1, <1>2, <2>1, BlockParts DEF GivesWay, Holds, LineFor
<1>4. QED
  BY <1>1, <1>3 DEF MemoryAfter, TypeOK

(* The fill writes a dirty victim back; one that is clean memory has.      *)
LEMMA FillMemory ==
  ASSUME MInv, AccessFill
  PROVE  MemoryAfter
<1> DEFINE b == request.block
           w == select_line(cache, b)
           old == cache.sets[SetIndex(b)][w]
<1>1. /\ request # NoRequest /\ ~Hit(cache, b) /\ TypeOK /\ OneLine(cache)
      /\ CleanLinesMatchMemory /\ LineFor(cache, b) = w
  BY DEF AccessFill, Missing, MInv, LineFor
<1>2. /\ b \in Blocks /\ SetIndex(b) \in Sets /\ cache \in CacheState(Contents)
      /\ w \in Ways
  BY <1>1, RequestFacts, SelectLineChoice DEF AccessFill, Victim
<1>3. old \in Line(Contents) /\ old.data \in Contents
  BY <1>2 DEF CacheState, Line
<1>4. ~(SetIndex(b) = SetIndex(b) /\ Holds(cache, b, w))
  BY <1>1, <1>2 DEF Hit, Matching, Holds
<1>5. ASSUME NEW x \in Blocks
      PROVE  memory'[x] = IF GivesWay(x) THEN Visible[x] ELSE memory[x]
  <2>1. GivesWay(x) <=> SetIndex(x) = SetIndex(b) /\ Holds(cache, x, w)
    BY <1>1, <1>4 DEF GivesWay
  <2>2. /\ GivesWay(x) => /\ Hit(cache, x) /\ LineOf(cache, x) = old
                         /\ memory'[x] = IF old.dirty THEN old.data ELSE memory[x]
        /\ ~GivesWay(x) => memory'[x] = memory[x]
    BY <1>1, <2>1, EvictedBlock
  <2>3. GivesWay(x) => Visible[x] = old.data
    BY <2>2 DEF Visible
  <2>4. GivesWay(x) /\ ~old.dirty => memory[x] = old.data
    BY <1>1, <2>2 DEF CleanLinesMatchMemory
  <2>5. QED
    BY <2>2, <2>3, <2>4
<1>6. memory' \in [Blocks -> Contents]
  <2>1. memory' = memory \/ memory' = [memory EXCEPT ![Evicted(cache, b).block] =
                                                    Evicted(cache, b).data]
    BY DEF AccessFill, WriteBack
  <2>2. Evicted(cache, b).data = old.data
    BY DEF Evicted
  <2>3. QED
    BY <1>1, <1>3, <2>1, <2>2 DEF TypeOK
<1>7. QED
  BY <1>5, <1>6 DEF MemoryAfter

(* So an answered request changes what the program sees by its own store,  *)
(* whatever it moved between the cache and memory.                         *)
LEMMA AnswerVisible ==
  ASSUME MInv, request # NoRequest, NEW w, w = LineFor(cache, request.block),
         Answered(w), MemoryAfter
  PROVE  /\ OneLine(cache)' /\ CleanLinesMatchMemory'
         /\ Visible' = [Visible EXCEPT ![request.block] = DataAfter]
<1> DEFINE b == request.block
           new == cache'.sets[SetIndex(b)][w]
<1>1. /\ TypeOK /\ OneLine(cache) /\ CleanLinesMatchMemory
      /\ b \in Nat /\ b \in Blocks /\ Blocks \subseteq Nat
  BY RequestFacts, CacheAssumption DEF MInv
<1>2. /\ Placed(cache, cache', b, w)
      /\ new.data = DataAfter
      /\ new.dirty = (request.op = WRITE \/ DirtyBefore)
  BY DEF Answered
<1>3. /\ OneLine(cache')
      /\ Hit(cache', b) /\ LineOf(cache', b) = new
  BY <1>1, <1>2, PlacedFinds DEF LineOf
<1>4. ASSUME NEW x \in Blocks, x # b
      PROVE  /\ Hit(cache', x) <=> Hit(cache, x) /\ ~GivesWay(x)
             /\ Hit(cache', x) => LineOf(cache', x) = LineOf(cache, x)
  <2>1. GivesWay(x) <=> SetIndex(x) = SetIndex(b) /\ Holds(cache, x, w)
    BY <1>4 DEF GivesWay
  <2>2. x \in Nat \ {b}
    BY <1>1, <1>4
  <2>3. QED
    BY <1>1, <1>2, <2>1, <2>2, PlacedFinds
<1>5. Visible' = [x \in Blocks |-> IF Hit(cache', x) THEN LineOf(cache', x).data
                                                   ELSE memory'[x]]
  BY DEF Visible, Hit, Matching, LineOf, get_line
<1>6. CleanLinesMatchMemory' <=>
        \A x \in Blocks : Hit(cache', x) /\ ~LineOf(cache', x).dirty
                            => LineOf(cache', x).data = memory'[x]
  BY DEF CleanLinesMatchMemory, Hit, Matching, LineOf, get_line
<1> HIDE DEF new
<1>7. ASSUME NEW x \in Blocks, Hit(cache', x), ~LineOf(cache', x).dirty
      PROVE  LineOf(cache', x).data = memory'[x]
  <2>1. CASE x = b
    <3>1. DataAfter = Visible[b] /\ ~DirtyBefore
      <4>1. request.op = READ
        BY <1>1, <1>2, <1>3, <1>7, <2>1, RequestFacts
      <4>2. QED
        BY <1>2, <1>3, <1>7, <2>1, <4>1 DEF DataAfter
    <3>2. Visible[b] = memory[b]
      BY <1>1, <3>1 DEF Visible, DirtyBefore, CleanLinesMatchMemory
    <3>3. memory'[b] = memory[b]
      BY <1>1 DEF MemoryAfter, GivesWay
    <3>4. QED
      BY <1>2, <1>3, <2>1, <3>1, <3>2, <3>3
  <2>2. CASE x # b
    BY <1>1, <1>4, <1>7, <2>2 DEF MemoryAfter, CleanLinesMatchMemory
  <2>3. QED
    BY <2>1, <2>2
<1>8. ASSUME NEW x \in Blocks
      PROVE  Visible'[x] = IF x = b THEN DataAfter ELSE Visible[x]
  <2>1. CASE x = b
    BY <1>2, <1>3, <1>5, <2>1
  <2>2. CASE x # b
    BY <1>4, <1>5, <2>2 DEF MemoryAfter, Visible
  <2>3. QED
    BY <2>1, <2>2
<1>9. Visible' = [Visible EXCEPT ![b] = DataAfter]
  BY <1>5, <1>8 DEF Visible
<1>10. OneLine(cache)'
  BY <1>3 DEF OneLine
<1>11. QED
  BY <1>6, <1>7, <1>9, <1>10

-----------------------------------------------------------------------------
(* The invariant, action by action.                                        *)

(* The countdown of a call that misses, the wrap at zero included: it is   *)
(* at zero in the last of MissCycles calls (mem.c:161-169).                *)
LEMMA Countdown ==
  ASSUME MInv, Missing
  PROVE  /\ stalls \in 0 .. MissCycles - 1
         /\ CyclesLeft = MissCycles - 1 - stalls
         /\ CyclesLeft \in 0 .. WRAP - 1
<1>1. /\ d \in Nat /\ WRAP \in Nat /\ d < WRAP
      /\ stalls \in Nat /\ inflight_cycles \in 0 .. WRAP - 1
      /\ inflight \in BOOLEAN
  BY MemCacheAssumption DEF MInv, TypeOK
<1>2. /\ stalls < MissCycles
      /\ inflight <=> stalls > 0
      /\ inflight => /\ inflight_addr = request.block
                     /\ inflight_cycles = MissCycles - stalls
  BY DEF MInv, WaitInv, Missing
<1>3. MissCycles \in 1 .. WRAP /\ (MissCycles = WRAP <=> d = 0) /\ (d > 0 => MissCycles = d)
  BY <1>1 DEF MissCycles
<1>4. ASSUME NEW x \in 1 .. WRAP - 1
      PROVE  (x + WRAP - 1) % WRAP = x - 1
  BY <1>1, SMT
<1>5. CASE inflight
  <2>1. inflight_cycles \in 1 .. WRAP - 1 /\ CyclesLeft = (inflight_cycles + WRAP - 1) % WRAP
    BY <1>1, <1>2, <1>3, <1>5 DEF CyclesLeft
  <2>2. CyclesLeft = inflight_cycles - 1
    BY <1>4, <2>1
  <2>3. QED
    BY <1>1, <1>2, <1>3, <1>5, <2>1, <2>2
<1>6. CASE ~inflight
  <2>1. stalls = 0 /\ CyclesLeft = (d + WRAP - 1) % WRAP
    BY <1>1, <1>2, <1>6 DEF CyclesLeft
  <2>2. CASE d = 0
    <3>1. (d + WRAP - 1) % WRAP = WRAP - 1
      BY <1>1, <2>2, SMT
    <3>2. QED
      BY <1>1, <1>3, <2>1, <2>2, <3>1
  <2>3. CASE d > 0
    <3>1. (d + WRAP - 1) % WRAP = d - 1
      BY <1>1, <1>4, <2>3
    <3>2. QED
      BY <1>1, <1>3, <2>1, <2>3, <3>1
  <2>4. QED
    BY <1>1, <2>2, <2>3
<1>7. QED
  BY <1>1, <1>5, <1>6

(* init_machine builds an empty cache that waits for nothing.              *)
LEMMA InitMInv == Init => MInv
<1> SUFFICES ASSUME Init
             PROVE  MInv
  OBVIOUS
<1>1. /\ A \in Nat \ {0} /\ S \in Nat \ {0} /\ d \in 0 .. WRAP - 1 /\ WRAP \in Nat
      /\ Width \in Nat
  BY CacheAssumption, MemCacheAssumption
<1>2. /\ \A s \in Sets, w \in Ways :
           /\ ~cache.sets[s][w].valid /\ cache.sets[s][w].lru = 0
           /\ lastUse[s][w] = 0
      /\ cache.next_lru = 0 /\ cache.miss_count = 0 /\ cache.hit_count = 0
  BY DEF Init, create_cache
<1>3. cache \in CacheState(Contents)
  BY MemCacheAssumption DEF Init, create_cache, CacheState, Line, Contents
<1>4. TypeOK
  BY <1>1, <1>3, MemCacheAssumption DEF Init, TypeOK, Contents
<1>5. OneLine(cache)
  BY <1>2 DEF OneLine
<1>6. CleanLinesMatchMemory
  <2>1. \A b \in Blocks : ~Hit(cache, b)
    BY <1>2, IndexType, CacheAssumption DEF Hit, Matching
  <2>2. QED
    BY <2>1 DEF CleanLinesMatchMemory
<1>7. WaitInv
  BY DEF Init, WaitInv
<1>8. CountInv
  <2>1. MissCycles \in Nat
    BY <1>1 DEF MissCycles
  <2>2. request = NoRequest /\ issued = 0 /\ misses = 0
    BY DEF Init
  <2>3. MissCycles * 0 = 0 /\ Width * 0 = 0
    BY <1>1, <2>1
  <2>4. QED
    BY <1>2, <2>2, <2>3 DEF CountInv
<1>9. StampInv
  BY <1>2 DEF Init, StampInv
<1>10. CrashNeedsStampOverflow
  BY DEF Init, CrashNeedsStampOverflow
<1>11. QED
  BY <1>4, <1>5, <1>6, <1>7, <1>8, <1>9, <1>10 DEF MInv

(* A request is in the memory stage and has not been looked up yet.        *)
LEMMA IssueMInv ==
  ASSUME MInv, NEW r \in Requests, Issue(r)
  PROVE  MInv'
<1>1. /\ request = NoRequest /\ request' = r /\ issued' = issued + 1 /\ stalls' = 0
      /\ UNCHANGED <<cache, memory, inflight, inflight_addr, inflight_cycles,
                     dmem_status, reply, crashed, misses, lastUse>>
  BY DEF Issue
<1>2. r # NoRequest
  BY RequestAssumption
<1>3. TypeOK'
  BY <1>1 DEF MInv, TypeOK
<1>4. OneLine(cache)' /\ CleanLinesMatchMemory' /\ CrashNeedsStampOverflow'
  BY <1>1 DEF MInv, OneLine, CleanLinesMatchMemory, CrashNeedsStampOverflow,
              Hit, Matching, LineOf, get_line
<1>5. WaitInv'
  <2>1. 0 < MissCycles
    BY MemCacheAssumption DEF MissCycles
  <2>2. ~inflight /\ dmem_status # "IN_FLIGHT"
    BY <1>1 DEF MInv, WaitInv
  <2>3. MissCycles' = MissCycles
    BY DEF MissCycles
  <2>4. QED
    BY <1>1, <1>2, <2>1, <2>2, <2>3 DEF WaitInv
<1>6. CountInv'
  <2>1. /\ issued \in Nat /\ misses \in Nat /\ Width \in Nat /\ MissCycles \in Nat
        /\ cache.hit_count \in Nat /\ cache.miss_count \in Nat
    BY MemCacheAssumption DEF MInv, TypeOK, MissCycles, CacheState
  <2>2. /\ cache.miss_count = MissCycles * misses
        /\ cache.hit_count + misses = Width * issued
    BY <1>1 DEF MInv, CountInv
  <2>3. Width * (issued + 1) = Width * issued + Width
    BY <2>1
  <2>4. MissCycles * misses \in Nat /\ Width * issued \in Nat
    BY <2>1
  <2>5. cache.miss_count = MissCycles * misses + 0
    BY <2>2, <2>4
  <2>6. cache.hit_count + misses + Width = Width * (issued + 1) /\ issued + 1 > 0
    BY <2>1, <2>2, <2>3, <2>4
  <2>7. MissCycles' = MissCycles
    BY DEF MissCycles
  <2>8. QED
    BY <1>1, <1>2, <2>5, <2>6, <2>7 DEF CountInv
<1>7. StampInv'
  <2>1. ASSUME NEW s \in Sets, NEW w \in Ways
        PROVE  /\ cache'.sets[s][w].lru <= cache'.next_lru
               /\ lastUse'[s][w] <= issued'
    BY <1>1 DEF MInv, StampInv, TypeOK
  <2>2. QED
    BY <1>1, <2>1 DEF MInv, StampInv
<1>8. QED
  BY <1>3, <1>4, <1>5, <1>6, <1>7 DEF MInv

(* An answer, whatever it took, leaves the wait ended, the newest stamp    *)
(* and the newest use on the line of the request.                          *)
LEMMA AnswerMInv ==
  ASSUME MInv, request # NoRequest, NEW w, w = LineFor(cache, request.block),
         Answered(w), MemoryAfter, CountInv',
         inflight' = FALSE, inflight_addr' \in Nat,
         inflight_cycles' \in 0 .. WRAP - 1, misses' \in Nat, ~crashed
  PROVE  MInv'
<1> DEFINE s == SetIndex(request.block)
<1>1. /\ request' = NoRequest /\ dmem_status' = "READY"
      /\ cache' \in CacheState(Contents)
      /\ Placed(cache, cache', request.block, w)
      /\ cache'.next_lru > cache.next_lru
      /\ cache'.sets[s][w].lru = cache'.next_lru
      /\ reply' = IF request.op = READ THEN Visible[request.block][request.word]
                                       ELSE reply
      /\ lastUse' = [lastUse EXCEPT ![s][w] = issued]
      /\ UNCHANGED <<issued, stalls, crashed>>
  BY DEF Answered
<1>2. /\ s \in Sets /\ w \in Ways /\ issued \in Nat
      /\ lastUse \in [Sets -> [Ways -> Nat]]
      /\ cache \in CacheState(Contents)
  BY <1>1, RequestFacts DEF MInv, TypeOK, Placed
<1>3. OneLine(cache)' /\ CleanLinesMatchMemory'
  BY AnswerVisible
<1>4. TypeOK'
  <2>1. reply' \in Values
    <3>1. Visible[request.block] \in Contents /\ request.word \in Words
      <4>1. ASSUME Hit(cache, request.block)
            PROVE  LineOf(cache, request.block).data \in Contents
        BY <1>2, <4>1, GetLineMatches DEF LineOf, CacheState, Line
      <4>2. memory[request.block] \in Contents /\ request.block \in Blocks
            /\ request.word \in Words
        BY RequestFacts DEF MInv
      <4>3. QED
        BY <4>1, <4>2 DEF Visible
    <3>2. QED
      BY <1>1, <3>1 DEF MInv, TypeOK, Contents
  <2>2. lastUse' \in [Sets -> [Ways -> Nat]]
    BY <1>1, <1>2
  <2>3. QED
    BY <1>1, <2>1, <2>2 DEF MInv, TypeOK, MemoryAfter
<1>5. WaitInv'
  BY <1>1 DEF WaitInv
<1>6. StampInv'
  <2>1. /\ cache.next_lru \in Nat /\ cache'.next_lru \in Nat
        /\ lastUse'[s][w] = issued
        /\ \A t \in Sets, v \in Ways : ~(t = s /\ v = w) =>
             /\ cache'.sets[t][v] = cache.sets[t][v]
             /\ lastUse'[t][v] = lastUse[t][v]
    BY <1>1, <1>2 DEF Placed, CacheState
  <2>2. \A t \in Sets, v \in Ways : /\ cache.sets[t][v].lru \in Nat
                                    /\ lastUse[t][v] \in Nat
                                    /\ cache.sets[t][v].lru <= cache.next_lru
                                    /\ lastUse[t][v] <= issued
    BY <1>2 DEF MInv, StampInv, CacheState, Line
  <2>3. ASSUME NEW t \in Sets, NEW v \in Ways
        PROVE  cache'.sets[t][v].lru <= cache'.next_lru /\ lastUse'[t][v] <= issued'
    BY <1>1, <1>2, <2>1, <2>2
  <2>4. ASSUME NEW t \in Sets, NEW u \in Ways, NEW v \in Ways,
               cache'.sets[t][u].valid, cache'.sets[t][v].valid,
               lastUse'[t][u] < lastUse'[t][v]
        PROVE  cache'.sets[t][u].lru < cache'.sets[t][v].lru
    <3>1. CASE t = s /\ v = w
      <4>1. ~(t = s /\ u = w)
        BY <1>2, <2>1, <2>4, <3>1
      <4>2. QED
        BY <1>1, <1>2, <2>1, <2>2, <3>1, <4>1
    <3>2. CASE t = s /\ u = w /\ v # w
      BY <1>2, <2>1, <2>2, <2>4, <3>2
    <3>3. CASE ~(t = s /\ v = w) /\ ~(t = s /\ u = w)
      BY <2>1, <2>4, <3>3 DEF MInv, StampInv
    <3>4. QED
      BY <3>1, <3>2, <3>3
  <2>5. QED
    BY <2>3, <2>4 DEF StampInv
<1>7. CrashNeedsStampOverflow'
  BY <1>1 DEF CrashNeedsStampOverflow
<1>8. QED
  BY <1>3, <1>4, <1>5, <1>6, <1>7 DEF MInv

(* The parts of the counters that the arithmetic below needs.              *)
LEMMA CountFacts ==
  ASSUME MInv
  PROVE  /\ issued \in Nat /\ misses \in Nat /\ stalls \in Nat
         /\ cache.hit_count \in Nat /\ cache.miss_count \in Nat
         /\ Width \in Nat /\ Width * issued \in Nat
         /\ MissCycles \in Nat /\ MissCycles * misses \in Nat
         /\ MissCycles * (misses + 1) = MissCycles * misses + MissCycles
         /\ MissCycles' = MissCycles
<1>1. /\ issued \in Nat /\ misses \in Nat /\ stalls \in Nat
      /\ cache.hit_count \in Nat /\ cache.miss_count \in Nat
      /\ Width \in Nat /\ MissCycles \in Nat
  BY MemCacheAssumption DEF MInv, TypeOK, MissCycles, CacheState
<1>2. MissCycles' = MissCycles
  BY DEF MissCycles
<1>3. QED
  BY <1>1, <1>2

(* A hit counts Width hits and ends the request.                           *)
LEMMA HitMInv ==
  ASSUME MInv, AccessHit
  PROVE  MInv'
<1>1. /\ request # NoRequest /\ ~crashed /\ Hit(cache, request.block)
      /\ UNCHANGED <<inflight, inflight_addr, inflight_cycles, misses>>
      /\ TypeOK /\ OneLine(cache)
  BY DEF AccessHit, MInv
<1>2. ~inflight /\ stalls = 0
  BY <1>1 DEF MInv, WaitInv, TypeOK
<1>3. /\ Answered(LineFor(cache, request.block))
      /\ cache'.hit_count = cache.hit_count + Width
      /\ cache'.miss_count = cache.miss_count
  BY <1>1, HitAnswer DEF LineFor
<1>4. CountInv'
  <2>1. /\ cache.miss_count = MissCycles * misses + stalls
        /\ cache.hit_count + misses + Width = Width * issued
    BY <1>1 DEF MInv, CountInv
  <2>2. /\ cache'.miss_count = MissCycles * misses
        /\ cache'.hit_count + misses = Width * issued
    BY <1>2, <1>3, <2>1, CountFacts
  <2>3. request' = NoRequest /\ issued' = issued
    BY <1>3 DEF Answered
  <2>4. QED
    BY <1>1, <2>2, <2>3, CountFacts DEF CountInv
<1>5. /\ inflight' = FALSE /\ inflight_addr' \in Nat
      /\ inflight_cycles' \in 0 .. WRAP - 1 /\ misses' \in Nat
  BY <1>1, <1>2 DEF TypeOK
<1>6. MemoryAfter
  BY HitMemory
<1> QED
  BY <1>1, <1>3, <1>4, <1>5, <1>6, AnswerMInv

(* A fill ends the wait: the miss has been counted once per cycle.         *)
LEMMA FillMInv ==
  ASSUME MInv, AccessFill
  PROVE  MInv'
<1>1. /\ request # NoRequest /\ ~crashed /\ ~Hit(cache, request.block)
      /\ Missing /\ CyclesLeft = 0
      /\ inflight' = FALSE /\ inflight_addr' = request.block
      /\ inflight_cycles' = 0 /\ misses' = misses + 1
      /\ TypeOK /\ OneLine(cache)
  BY DEF AccessFill, Missing, MInv
<1>2. stalls = MissCycles - 1
  BY <1>1, Countdown, CountFacts
<1>3. /\ Answered(LineFor(cache, request.block))
      /\ cache'.hit_count + 1 = cache.hit_count + Width
      /\ cache'.miss_count = cache.miss_count + 1
  BY <1>1, FillAnswer DEF LineFor
<1>4. CountInv'
  <2>1. /\ cache.miss_count = MissCycles * misses + stalls
        /\ cache.hit_count + misses + Width = Width * issued
    BY <1>1 DEF MInv, CountInv
  <2>2. cache'.hit_count \in Nat
    BY <1>3 DEF Answered, CacheState
  <2>3. /\ cache'.miss_count = MissCycles * (misses + 1)
        /\ cache'.hit_count + (misses + 1) = Width * issued
    BY <1>2, <1>3, <2>1, <2>2, CountFacts
  <2>4. request' = NoRequest /\ issued' = issued
    BY <1>3 DEF Answered
  <2>5. QED
    BY <1>1, <2>3, <2>4, CountFacts DEF CountInv
<1>5. inflight_addr' \in Nat /\ inflight_cycles' \in 0 .. WRAP - 1 /\ misses' \in Nat
  BY <1>1, RequestFacts, MemCacheAssumption DEF TypeOK
<1>6. MemoryAfter
  BY FillMemory
<1> QED
  BY <1>1, <1>3, <1>4, <1>5, <1>6, AnswerMInv

(* What a lookup finds depends on the lines alone.                         *)
LEMMA SameLines ==
  ASSUME cache'.sets = cache.sets
  PROVE  /\ \A b : Hit(cache, b)' <=> Hit(cache, b)
         /\ \A b : LineOf(cache, b)' = LineOf(cache, b)
         /\ OneLine(cache) => OneLine(cache)'
<1>1. ASSUME NEW b
      PROVE  /\ Hit(cache, b)' <=> Hit(cache, b)
             /\ LineOf(cache, b)' = LineOf(cache, b)
  <2>1. Matching(cache, b)' = Matching(cache, b)
    BY DEF Matching
  <2>2. Hit(cache, b)' <=> Hit(cache, b)
    BY <2>1 DEF Hit
  <2>3. get_line(cache, b)' = get_line(cache, b)
    BY <2>1, <2>2 DEF get_line
  <2>4. QED
    BY <2>2, <2>3 DEF LineOf
<1>2. OneLine(cache) => OneLine(cache)'
  BY DEF OneLine
<1>3. QED
  BY <1>1, <1>2

(* A cycle of waiting counts one miss and one stall.                       *)
LEMMA WaitMInv ==
  ASSUME MInv, AccessWait
  PROVE  MInv' /\ Visible' = Visible
<1>1. /\ request # NoRequest /\ ~Hit(cache, request.block) /\ Missing
      /\ CyclesLeft > 0
      /\ cache' = check_hit(cache, request.block, request.op)
      /\ inflight' = TRUE /\ inflight_addr' = request.block
      /\ inflight_cycles' = CyclesLeft /\ dmem_status' = "IN_FLIGHT"
      /\ stalls' = stalls + 1
      /\ UNCHANGED <<memory, request, reply, crashed, issued, misses, lastUse>>
      /\ TypeOK
  BY DEF AccessWait, Missing, MInv
<1>2. /\ stalls \in 0 .. MissCycles - 1
      /\ CyclesLeft = MissCycles - 1 - stalls
      /\ CyclesLeft \in 0 .. WRAP - 1
  BY <1>1, Countdown
<1>3. /\ cache' \in CacheState(Contents)
      /\ cache'.sets = cache.sets /\ cache'.next_lru = cache.next_lru
      /\ cache'.hit_count = cache.hit_count
      /\ cache'.miss_count = cache.miss_count + 1
  BY <1>1 DEF check_hit, CacheState, TypeOK
<1>4. TypeOK'
  BY <1>1, <1>2, <1>3, RequestFacts DEF TypeOK
<1>5. OneLine(cache)' /\ CleanLinesMatchMemory' /\ CrashNeedsStampOverflow'
      /\ ~Hit(cache, request.block)'
  BY <1>1, <1>3, SameLines DEF MInv, CleanLinesMatchMemory, CrashNeedsStampOverflow
<1>6. WaitInv'
  <2>1. /\ stalls + 1 < MissCycles /\ stalls + 1 > 0
        /\ CyclesLeft = MissCycles - (stalls + 1)
    BY <1>1, <1>2, CountFacts
  <2>2. QED
    BY <1>1, <1>5, <2>1, CountFacts DEF WaitInv
<1>7. CountInv'
  <2>1. /\ issued > 0
        /\ cache.miss_count = MissCycles * misses + stalls
        /\ cache.hit_count + misses + Width = Width * issued
    BY <1>1 DEF MInv, CountInv
  <2>2. cache.miss_count + 1 = MissCycles * misses + (stalls + 1)
    BY <2>1, CountFacts
  <2>3. QED
    BY <1>1, <1>3, <2>1, <2>2, CountFacts DEF CountInv
<1>8. StampInv'
  BY <1>1, <1>3 DEF MInv, StampInv
<1>9. Visible' = Visible
  BY <1>1, <1>3, SameLines DEF Visible
<1>10. QED
  BY <1>4, <1>5, <1>6, <1>7, <1>8, <1>9 DEF MInv

(* The access that finds no victim changes nothing but what it shows: the  *)
(* stamps have outgrown an int.                                            *)
LEMMA CrashMInv ==
  ASSUME MInv, AccessCrash
  PROVE  MInv' /\ Visible' = Visible
<1>1. /\ request # NoRequest /\ select_line(cache, request.block) = NoLine
      /\ crashed' = TRUE
      /\ UNCHANGED <<cache, memory, inflight, inflight_addr, inflight_cycles,
                     dmem_status, request, reply, issued, misses, stalls, lastUse>>
      /\ TypeOK
  BY DEF AccessCrash, Missing, MInv
<1>2. cache.next_lru > INT_MAX
  <2>1. /\ cache \in CacheState(Contents) /\ request.block \in Nat
        /\ SetIndex(request.block) \in Sets
    BY <1>1, RequestFacts
  <2>2. PICK w \in Ways : cache.sets[SetIndex(request.block)][w].lru > INT_MAX
    BY <1>1, <2>1, NoVictimMeansOldStamps
  <2>3. cache.sets[SetIndex(request.block)][w].lru <= cache.next_lru
    BY <2>1 DEF MInv, StampInv
  <2>4. /\ cache.next_lru \in Nat /\ INT_MAX \in Nat
        /\ cache.sets[SetIndex(request.block)][w].lru \in Nat
    BY <2>1, CacheAssumption DEF CacheState, Line
  <2>5. QED
    BY <2>2, <2>3, <2>4
<1>3. TypeOK'
  BY <1>1 DEF TypeOK
<1>4. OneLine(cache)' /\ CleanLinesMatchMemory' /\ CrashNeedsStampOverflow'
      /\ StampInv' /\ Visible' = Visible
  BY <1>1, <1>2, SameLines
  DEF MInv, CleanLinesMatchMemory, CrashNeedsStampOverflow, StampInv, Visible
<1>5. WaitInv' /\ CountInv'
  BY <1>1, SameLines, CountFacts DEF MInv, WaitInv, CountInv
<1>6. QED
  BY <1>3, <1>4, <1>5 DEF MInv

(* A step of the memory stage, or of the rest of the machine.              *)
LEMMA NextMInv == MInv /\ [Next]_vars => MInv'
<1> SUFFICES ASSUME MInv, [Next]_vars
             PROVE  MInv'
  OBVIOUS
<1>1. ASSUME NEW r \in Requests, Issue(r)
      PROVE  MInv'
  BY <1>1, IssueMInv
<1>2. CASE AccessHit
  BY <1>2, HitMInv
<1>3. CASE AccessWait
  BY <1>3, WaitMInv
<1>4. CASE AccessFill
  BY <1>4, FillMInv
<1>5. CASE AccessCrash
  BY <1>5, CrashMInv
<1>6. CASE UNCHANGED vars
  <2>1. TypeOK' /\ OneLine(cache)' /\ CleanLinesMatchMemory' /\ CrashNeedsStampOverflow'
    BY <1>6, SameLines DEF vars, MInv, TypeOK, CleanLinesMatchMemory,
                           CrashNeedsStampOverflow
  <2>2. WaitInv' /\ CountInv' /\ StampInv'
    BY <1>6, SameLines, CountFacts DEF vars, MInv, WaitInv, CountInv, StampInv
  <2>3. QED
    BY <2>1, <2>2 DEF MInv
<1>7. QED
  BY <1>1, <1>2, <1>3, <1>4, <1>5, <1>6 DEF Next, MemoryCycle

(* The invariant holds for every program's loads and stores.               *)
THEOREM MemInvariance == Spec => []MInv
  BY InitMInv, NextMInv, PTL DEF Spec

(* The state keeps its shape.                                              *)
THEOREM MemTypeCorrect == Spec => []TypeOK
<1>1. MInv => TypeOK
  BY DEF MInv
<1>2. QED
  BY MemInvariance, <1>1, PTL

(* A line may be dropped without a write-back exactly when it is clean.    *)
THEOREM CleanMatches == Spec => []CleanLinesMatchMemory
<1>1. MInv => CleanLinesMatchMemory
  BY DEF MInv
<1>2. QED
  BY MemInvariance, <1>1, PTL

(* No wait outlives its request or is charged to another one, and the      *)
(* countdown has moved once per stalled cycle, a penalty of 0 included.    *)
THEOREM WaitsForItsRequest == Spec => []WaitBelongsToRequest
<1>1. MInv => WaitBelongsToRequest
  BY DEF MInv, WaitInv, WaitBelongsToRequest
<1>2. QED
  BY MemInvariance, <1>1, PTL

(* Between two accesses the counters are those the checkpoint divides: one *)
(* miss per cycle of penalty, Width hits per access less its missing one.  *)
THEOREM CountersKept == Spec => []CountersAtRest
<1>1. MInv => CountersAtRest
  <2> SUFFICES ASSUME MInv, request = NoRequest
               PROVE  /\ cache.miss_count = MissCycles * misses
                      /\ cache.hit_count = Width * issued - misses
    BY DEF CountersAtRest
  <2>1. /\ cache.miss_count = MissCycles * misses
        /\ cache.hit_count + misses = Width * issued
    BY DEF MInv, CountInv
  <2>2. QED
    BY <2>1, CountFacts
<1>2. QED
  BY MemInvariance, <1>1, PTL

(* A NULL victim takes a counter above INT_MAX, whatever the program.      *)
THEOREM MemCrashOnlyByOverflow == Spec => []CrashNeedsStampOverflow
<1>1. MInv => CrashNeedsStampOverflow
  BY DEF MInv
<1>2. QED
  BY MemInvariance, <1>1, PTL

-----------------------------------------------------------------------------
(* The refinement and the action properties.                               *)

(* An answer of the cached memory is one of the flat memory.               *)
LEMMA AnswerRefines ==
  ASSUME MInv, request # NoRequest, NEW w, w = LineFor(cache, request.block),
         Answered(w), MemoryAfter
  PROVE  Flat!Read \/ Flat!Write
<1>1. Visible' = [Visible EXCEPT ![request.block] = DataAfter]
  BY AnswerVisible
<1>2. /\ request' = NoRequest
      /\ reply' = IF request.op = READ THEN Visible[request.block][request.word]
                                       ELSE reply
  BY DEF Answered
<1>3. request.block \in Blocks
  BY RequestFacts DEF MInv
<1>4. CASE request.op = READ
  <2>1. Visible' = Visible
    BY <1>1, <1>3, <1>4 DEF DataAfter, Visible
  <2>2. QED
    BY <1>2, <1>4, <2>1 DEF Flat!Read
<1>5. CASE request.op # READ
  <2>1. Visible' = [Visible EXCEPT ![request.block][request.word] = request.val]
    BY <1>1, <1>3, <1>5 DEF DataAfter
  <2>2. QED
    BY <1>2, <1>5, <2>1 DEF Flat!Write
<1>6. QED
  BY <1>4, <1>5

(* Every load of every program returns the last value stored to its word,  *)
(* for every geometry of the cache, block size and penalty: misses, waits, *)
(* fills and evictions are steps the program cannot see.                   *)
THEOREM CachedMemoryIsFlat == Spec => ImplementsFlatMemory
<1>1. Init => Flat!Init
  <2> SUFFICES ASSUME Init
               PROVE  Flat!Init
    OBVIOUS
  <2>1. \A b \in Blocks : ~Hit(cache, b)
    BY IndexType, CacheAssumption DEF Init, create_cache, Hit, Matching
  <2>2. memory \in [Blocks -> [Words -> Values]]
    BY MemCacheAssumption DEF Init
  <2>3. Visible = memory
    BY <2>1, <2>2 DEF Visible
  <2>4. QED
    BY <2>2, <2>3 DEF Init, Flat!Init
<1>2. MInv /\ [Next]_vars => [Flat!Next]_Flat!vars
  <2> SUFFICES ASSUME MInv, [Next]_vars
               PROVE  [Flat!Next]_Flat!vars
    OBVIOUS
  <2>1. ASSUME NEW r \in Requests, Issue(r)
        PROVE  Flat!Issue(r)
    <3>1. UNCHANGED <<cache, memory>>
      BY <2>1 DEF Issue
    <3>2. Visible' = Visible
      BY <3>1, SameLines DEF Visible
    <3>3. QED
      BY <2>1, <3>2 DEF Issue, Flat!Issue
  <2>2. CASE AccessHit
    <3>1. request # NoRequest /\ Hit(cache, request.block)
      BY <2>2 DEF AccessHit
    <3>2. Answered(LineFor(cache, request.block)) /\ MemoryAfter
      BY <2>2, <3>1, HitAnswer, HitMemory DEF LineFor, MInv
    <3>3. QED
      BY <3>1, <3>2, AnswerRefines DEF Flat!Next
  <2>3. CASE AccessFill
    <3>1. request # NoRequest /\ ~Hit(cache, request.block)
      BY <2>3 DEF AccessFill, Missing
    <3>2. Answered(LineFor(cache, request.block)) /\ MemoryAfter
      BY <2>3, <3>1, FillAnswer, FillMemory DEF LineFor, MInv
    <3>3. QED
      BY <3>1, <3>2, AnswerRefines DEF Flat!Next
  <2>4. CASE AccessWait
    BY <2>4, WaitMInv DEF AccessWait, Flat!vars
  <2>5. CASE AccessCrash
    BY <2>5, CrashMInv DEF AccessCrash, Flat!vars
  <2>6. CASE UNCHANGED vars
    BY <2>6, SameLines DEF vars, Visible, Flat!vars
  <2>7. QED
    BY <2>1, <2>2, <2>3, <2>4, <2>5, <2>6 DEF Next, MemoryCycle, Flat!Next
<1>3. QED
  BY MemInvariance, <1>1, <1>2, PTL DEF Spec, Flat!Spec, ImplementsFlatMemory

(* A hit costs no stall, a miss its penalty less one, and with a penalty   *)
(* of 0 a miss costs a whole turn of the counter.                          *)
THEOREM CostOfAccess == Spec => AccessCost
<1> DEFINE Cost == IF Hit(cache, request.block) THEN 0 ELSE MissCycles - 1
<1>1. MInv /\ [Next]_vars => [Answers => stalls = Cost]_vars
  <2> SUFFICES ASSUME MInv, Next, Answers
               PROVE  stalls = Cost
    OBVIOUS
  <2>1. request # NoRequest /\ request' = NoRequest
    BY DEF Answers
  <2>2. ASSUME NEW r \in Requests, Issue(r)
        PROVE  FALSE
    BY <2>1, <2>2 DEF Issue
  <2>3. CASE AccessHit
    BY <2>1, <2>3 DEF AccessHit, MInv, WaitInv, TypeOK
  <2>4. CASE AccessFill
    <3>1. Missing /\ CyclesLeft = 0 /\ ~Hit(cache, request.block)
      BY <2>4 DEF AccessFill, Missing
    <3>2. QED
      BY <3>1, Countdown, CountFacts
  <2>5. ~AccessWait /\ ~AccessCrash
    BY <2>1 DEF AccessWait, AccessCrash
  <2>6. QED
    BY <2>2, <2>3, <2>4, <2>5 DEF Next, MemoryCycle
<1>2. QED
  BY MemInvariance, <1>1, PTL DEF Spec, AccessCost

(* A line that takes another tag is the victim of a fill.                  *)
LEMMA RetaggedIsVictim ==
  ASSUME MInv, Next, NEW s \in Sets, NEW w \in Ways,
         cache.sets[s][w].valid, cache'.sets[s][w].tag # cache.sets[s][w].tag
  PROVE  /\ request # NoRequest /\ s = SetIndex(request.block)
         /\ w = select_line(cache, request.block)
         /\ select_line(cache, request.block) # NoLine
<1>1. \A r \in Requests : ~Issue(r)
  BY DEF Issue
<1>2. CASE AccessHit
  <2>1. /\ Placed(cache, cache', request.block, get_line(cache, request.block))
        /\ Hit(cache, request.block)
    BY <1>2, HitAnswer DEF MInv, Answered, AccessHit
  <2>2. Holds(cache, request.block, get_line(cache, request.block))
    BY <2>1, GetLineMatches DEF Holds
  <2>3. QED
    BY <2>1, <2>2 DEF Placed, Holds
<1>3. CASE AccessFill
  <2>1. /\ Placed(cache, cache', request.block, select_line(cache, request.block))
        /\ select_line(cache, request.block) # NoLine /\ request # NoRequest
    BY <1>3, FillAnswer DEF MInv, Answered, AccessFill, Missing
  <2>2. QED
    BY <2>1 DEF Placed
<1>4. ~AccessWait
  BY DEF AccessWait, Missing, check_hit, MInv, TypeOK, CacheState
<1>5. ~AccessCrash
  BY DEF AccessCrash
<1>6. QED
  BY <1>1, <1>2, <1>3, <1>4, <1>5 DEF Next, MemoryCycle

(* The victim is the least recently used line of its set, always: behind   *)
(* the memory stage the ties of csim cannot arise.                         *)
THEOREM MemoryEvictsLRU == Spec => EvictsLeastRecentlyUsed
<1> DEFINE P == \A s \in Sets, w \in Ways :
                  /\ cache.sets[s][w].valid
                  /\ cache'.sets[s][w].tag # cache.sets[s][w].tag
                  => \A v \in Ways : lastUse[s][w] <= lastUse[s][v]
<1>1. MInv /\ [Next]_vars => [P]_vars
  <2> SUFFICES ASSUME MInv, Next, NEW s \in Sets, NEW w \in Ways,
                      cache.sets[s][w].valid,
                      cache'.sets[s][w].tag # cache.sets[s][w].tag,
                      NEW v \in Ways
               PROVE  lastUse[s][w] <= lastUse[s][v]
    OBVIOUS
  <2>1. Victim(cache, request.block) /\ s = SetIndex(request.block)
        /\ w = select_line(cache, request.block)
    BY RetaggedIsVictim, SelectLineChoice
  <2>2. cache.sets[s][v].valid /\ cache.sets[s][w].lru <= cache.sets[s][v].lru
    BY <2>1 DEF Victim
  <2>3. /\ lastUse[s][w] \in Nat /\ lastUse[s][v] \in Nat
        /\ cache.sets[s][w].lru \in Nat /\ cache.sets[s][v].lru \in Nat
    BY DEF MInv, TypeOK, CacheState, Line
  <2>4. lastUse[s][v] < lastUse[s][w] => cache.sets[s][v].lru < cache.sets[s][w].lru
    BY <2>2 DEF MInv, StampInv
  <2>5. QED
    BY <2>2, <2>3, <2>4
<1>2. QED
  BY MemInvariance, <1>1, PTL DEF Spec, EvictsLeastRecentlyUsed
=============================================================================
