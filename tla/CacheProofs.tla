---------------------------- MODULE CacheProofs ----------------------------
(***************************************************************************)
(* What the functions of cache.c do to a cache, for every associativity,   *)
(* number of sets and contents.  The proofs about the two clients of the   *)
(* library cite these lemmas instead of the definitions.                   *)
(***************************************************************************)
EXTENDS Cache, TLAPS, WellFoundedInduction

(* A loop over the lines of a set stops at the first way that qualifies:   *)
(* a nonempty set of ways has a least member, and First is it.             *)
THEOREM FirstIsLeast ==
  ASSUME NEW W, W \subseteq Nat, W # {}
  PROVE  First(W) \in W /\ \A v \in W : First(W) <= v
<1>1. PICK m \in W : \A v \in W : ~ (<<v, m>> \in OpToRel(<, Nat))
  BY NatLessThanWellFounded, WFMin
<1>2. ASSUME NEW v \in W
      PROVE  m <= v
  <2>1. m \in Nat /\ v \in Nat
    OBVIOUS
  <2>2. v < m => <<v, m>> \in OpToRel(<, Nat)
    BY <2>1, Zenon DEF OpToRel
  <2>3. ~(v < m)
    BY <1>1, <2>2
  <2>4. QED
    BY <2>1, <2>3
<1>3. QED
  BY <1>2 DEF First

(* The NULL of the model is no way of a set.                               *)
LEMMA WaysAreNatural == Ways \subseteq Nat /\ NoLine \notin Ways
  BY CacheAssumption DEF Ways, NoLine

(* Every block number has a set and a tag.                                 *)
LEMMA IndexType ==
  ASSUME NEW b \in Nat
  PROVE  SetIndex(b) \in Sets /\ Tag(b) \in Nat
  BY CacheAssumption DEF SetIndex, Tag, Sets

(* get_line returns a valid line with the tag of the block (cache.c:162).  *)
LEMMA GetLineMatches ==
  ASSUME NEW c, NEW b, Hit(c, b)
  PROVE  /\ get_line(c, b) \in Ways
         /\ c.sets[SetIndex(b)][get_line(c, b)].valid
         /\ c.sets[SetIndex(b)][get_line(c, b)].tag = Tag(b)
<1>1. Matching(c, b) \subseteq Nat /\ Matching(c, b) # {}
  BY WaysAreNatural DEF Matching, Hit
<1>2. First(Matching(c, b)) \in Matching(c, b)
  BY <1>1, FirstIsLeast
<1>3. QED
  BY <1>2 DEF get_line, Matching

(* select_line returns an invalid line while there is one and otherwise a  *)
(* line no other line of the set has a smaller stamp than                  *)
(* (cache.c:195-219).                                                      *)
Victim(c, b) ==
  LET s == SetIndex(b)
      w == select_line(c, b)
  IN  /\ w \in Ways
      /\ c.sets[s][w].valid =>
           /\ \A v \in Ways : c.sets[s][v].valid
           /\ \A v \in Ways : c.sets[s][w].lru <= c.sets[s][v].lru

(* Every line that select_line returns is such a victim.                   *)
LEMMA SelectLineChoice ==
  ASSUME NEW c, NEW b, select_line(c, b) # NoLine
  PROVE  Victim(c, b)
<1> DEFINE s == SetIndex(b)
<1>1. CASE Empty(c, s) # {}
  <2>1. First(Empty(c, s)) \in Empty(c, s)
    BY <1>1, FirstIsLeast, WaysAreNatural DEF Empty
  <2>2. QED
    BY <1>1, <2>1 DEF select_line, Empty, Victim
<1>2. CASE Empty(c, s) = {} /\ Oldest(c, s) # {}
  <2>1. First(Oldest(c, s)) \in Oldest(c, s)
    BY <1>2, FirstIsLeast, WaysAreNatural DEF Oldest
  <2>2. select_line(c, b) = First(Oldest(c, s))
    BY <1>2 DEF select_line
  <2>3. \A v \in Ways : c.sets[s][v].valid
    BY <1>2 DEF Empty
  <2>4. QED
    BY <2>1, <2>2, <2>3 DEF Oldest, Victim
<1>3. QED
  BY <1>1, <1>2 DEF select_line

(* In a full set some line has the least stamp: if select_line settles on  *)
(* none, that stamp is above INT_MAX (cache.c:206-219).                    *)
LEMMA NoVictimMeansOldStamps ==
  ASSUME NEW D, NEW c \in CacheState(D), NEW b \in Nat,
         select_line(c, b) = NoLine
  PROVE  \E w \in Ways : /\ c.sets[SetIndex(b)][w].valid
                         /\ c.sets[SetIndex(b)][w].lru > INT_MAX
<1> DEFINE s == SetIndex(b)
           L == {c.sets[s][w].lru : w \in Ways}
<1>1. s \in Sets
  BY IndexType
<1>2. Empty(c, s) = {}
  <2>1. ASSUME Empty(c, s) # {}
        PROVE  FALSE
    <3>1. First(Empty(c, s)) \in Ways
      BY <2>1, FirstIsLeast, WaysAreNatural DEF Empty
    <3>2. QED
      BY <2>1, <3>1, WaysAreNatural DEF select_line
  <2>2. QED
    BY <2>1
<1>3. Oldest(c, s) = {}
  <2>1. ASSUME Oldest(c, s) # {}
        PROVE  FALSE
    <3>1. First(Oldest(c, s)) \in Ways
      BY <2>1, FirstIsLeast, WaysAreNatural DEF Oldest
    <3>2. QED
      BY <1>2, <2>1, <3>1, WaysAreNatural DEF select_line
  <2>2. QED
    BY <2>1
<1>4. \A w \in Ways : c.sets[s][w].valid /\ c.sets[s][w].lru \in Nat
  BY <1>1, <1>2 DEF Empty, CacheState, Line
<1>5. L \subseteq Nat /\ L # {}
  <2>1. 0 \in Ways
    BY CacheAssumption DEF Ways
  <2>2. QED
    BY <1>4, <2>1
<1>6. First(L) \in L /\ \A l \in L : First(L) <= l
  BY <1>5, FirstIsLeast
<1>7. PICK w \in Ways : c.sets[s][w].lru = First(L)
  BY <1>6
<1>8. ~(c.sets[s][w].lru <= INT_MAX)
  BY <1>3, <1>6, <1>7 DEF Oldest
<1>9. QED
  BY <1>4, <1>8, CacheAssumption

(* What k hits in a row leave behind: the line of the block is stamped     *)
(* with the counter, moved on by k, and nothing else but next_lru,         *)
(* hit_count and its dirty bit changes (cache.c:226-244).                  *)
HitOutcome(D, c, b, op, k) ==
  LET s == SetIndex(b)
      w == get_line(c, b)
      n == CountHits(c, b, op, k)
      new == n.sets[s][w]
  IN  /\ n \in CacheState(D)
      /\ n.next_lru = c.next_lru + k
      /\ \A t \in Sets, v \in Ways :
           ~(t = s /\ v = w) => n.sets[t][v] = c.sets[t][v]
      /\ new.valid /\ new.tag = Tag(b)
      /\ new.lru = c.next_lru + k
      /\ new.dirty = IF op = WRITE THEN TRUE ELSE c.sets[s][w].dirty
      /\ new.data = c.sets[s][w].data
      /\ n.hit_count = c.hit_count + k
      /\ n.miss_count = c.miss_count
      /\ n.dirty_eviction_count = c.dirty_eviction_count
      /\ n.clean_eviction_count = c.clean_eviction_count

(* Every hit has that outcome (cache.c:226-244).                           *)
LEMMA HitEffect ==
  ASSUME NEW D, NEW c \in CacheState(D), NEW b \in Nat, NEW op,
         NEW k \in Nat, Hit(c, b)
  PROVE  HitOutcome(D, c, b, op, k)
<1> DEFINE s == SetIndex(b)
           w == get_line(c, b)
           dirty == IF op = WRITE THEN TRUE ELSE c.sets[s][w].dirty
           line == [c.sets[s][w] EXCEPT !.lru = c.next_lru + k, !.dirty = dirty]
           n == CountHits(c, b, op, k)
<1>1. s \in Sets /\ w \in Ways /\ c.sets[s][w].valid /\ c.sets[s][w].tag = Tag(b)
  BY IndexType, GetLineMatches
<1>2. n = [c EXCEPT !.next_lru = @ + k, !.hit_count = @ + k,
                    !.sets = [c.sets EXCEPT ![s][w] = line]]
  BY DEF CountHits, LineOf, WithLine
<1>3. c.sets[s][w] \in Line(D) /\ c.next_lru + k \in Nat
  BY <1>1 DEF CacheState
<1>4. dirty \in BOOLEAN
  BY <1>3 DEF Line
<1> HIDE DEF dirty
<1>5. /\ line \in Line(D)
      /\ line.valid = c.sets[s][w].valid /\ line.tag = c.sets[s][w].tag
      /\ line.data = c.sets[s][w].data
      /\ line.lru = c.next_lru + k /\ line.dirty = dirty
  BY <1>3, <1>4 DEF Line
<1> HIDE DEF line, s, w, n
<1>6. n \in CacheState(D)
  <2>1. [c.sets EXCEPT ![s][w] = line] \in [Sets -> [Ways -> Line(D)]]
    BY <1>1, <1>5 DEF CacheState
  <2>2. c.next_lru + k \in Nat /\ c.hit_count + k \in Nat
    BY DEF CacheState
  <2>3. n = [c EXCEPT !.next_lru = c.next_lru + k, !.hit_count = c.hit_count + k,
                      !.sets = [c.sets EXCEPT ![s][w] = line]]
    BY <1>2
  <2>4. QED
    BY <2>1, <2>2, <2>3 DEF CacheState
<1>7. n.sets = [c.sets EXCEPT ![s][w] = line]
  BY <1>2 DEF CacheState
<1>8. n.sets[s][w] = line
  BY <1>1, <1>7 DEF CacheState
<1>9. \A t \in Sets, v \in Ways : ~(t = s /\ v = w) => n.sets[t][v] = c.sets[t][v]
  BY <1>1, <1>7 DEF CacheState
<1>10. /\ n.next_lru = c.next_lru + k
       /\ n.hit_count = c.hit_count + k
       /\ n.miss_count = c.miss_count
       /\ n.dirty_eviction_count = c.dirty_eviction_count
       /\ n.clean_eviction_count = c.clean_eviction_count
  BY <1>2 DEF CacheState
<1>11. QED
  BY <1>1, <1>5, <1>6, <1>8, <1>9, <1>10 DEF dirty, s, w, n, HitOutcome

(* One miss: the line select_line returns takes the tag of the block, the  *)
(* stamp of the counter before it is incremented and the data handed in,   *)
(* if any is; an evicted block is counted by its dirty bit                 *)
(* (cache.c:250-303).                                                      *)
MissOutcome(D, c, b, op, incoming) ==
  LET s == SetIndex(b)
      w == select_line(c, b)
      n == handle_miss(check_hit(c, b, op), b, op, incoming)
      old == c.sets[s][w]
      new == n.sets[s][w]
  IN  /\ n \in CacheState(D)
      /\ n.next_lru = c.next_lru + 1
      /\ \A t \in Sets, v \in Ways :
           ~(t = s /\ v = w) => n.sets[t][v] = c.sets[t][v]
      /\ new.valid /\ new.tag = Tag(b)
      /\ new.lru = c.next_lru
      /\ new.dirty = (op = WRITE)
      /\ new.data = IF incoming = NoData THEN old.data ELSE incoming
      /\ n.hit_count = c.hit_count
      /\ n.miss_count = c.miss_count + 1
      /\ n.dirty_eviction_count =
           c.dirty_eviction_count + IF old.valid /\ old.dirty THEN 1 ELSE 0
      /\ n.clean_eviction_count =
           c.clean_eviction_count + IF old.valid /\ ~old.dirty THEN 1 ELSE 0

(* Every miss has that outcome (cache.c:250-303).                          *)
LEMMA MissEffect ==
  ASSUME NEW D, NEW c \in CacheState(D), NEW b \in Nat, NEW op,
         NEW incoming \in D \cup {NoData},
         ~Hit(c, b), select_line(c, b) # NoLine
  PROVE  MissOutcome(D, c, b, op, incoming)
<1> DEFINE s == SetIndex(b)
           w == select_line(c, b)
           old == c.sets[s][w]
           data == IF incoming = NoData THEN old.data ELSE incoming
           line == [valid |-> TRUE, tag |-> Tag(b), dirty |-> op = WRITE,
                    lru |-> c.next_lru, data |-> data]
           m == [c EXCEPT !.miss_count = @ + 1]
           n == handle_miss(check_hit(c, b, op), b, op, incoming)
           de == IF old.valid /\ old.dirty THEN c.dirty_eviction_count + 1
                                           ELSE c.dirty_eviction_count
           ce == IF old.valid /\ ~old.dirty THEN c.clean_eviction_count + 1
                                            ELSE c.clean_eviction_count
<1>1. s \in Sets /\ Tag(b) \in Nat /\ w \in Ways
  BY IndexType, SelectLineChoice DEF Victim
<1>2. /\ m.sets = c.sets /\ m.next_lru = c.next_lru
      /\ m.miss_count = c.miss_count + 1 /\ m.hit_count = c.hit_count
      /\ m.dirty_eviction_count = c.dirty_eviction_count
      /\ m.clean_eviction_count = c.clean_eviction_count
      /\ m \in CacheState(D)
  BY DEF CacheState
<1>3. n = handle_miss(m, b, op, incoming)
  BY DEF check_hit
<1>4. select_line(m, b) = w
  BY <1>2 DEF select_line, Empty, Oldest
<1>5. Evicted(m, b).valid = old.valid /\ Evicted(m, b).dirty = old.dirty
      /\ Evicted(m, b).data = old.data
  BY <1>2, <1>4 DEF Evicted
<1>6. n = [m EXCEPT
            !.sets = [c.sets EXCEPT ![s][w] = line],
            !.next_lru = c.next_lru + 1,
            !.dirty_eviction_count = de,
            !.clean_eviction_count = ce]
  BY <1>2, <1>3, <1>4, <1>5 DEF handle_miss, Filled
<1>7. old \in Line(D)
  BY <1>1 DEF CacheState
<1>8. (op = WRITE) \in BOOLEAN /\ data \in D
  BY <1>7 DEF Line
<1> HIDE DEF data
<1>9. /\ line \in Line(D)
      /\ line.valid /\ line.tag = Tag(b) /\ line.lru = c.next_lru
      /\ line.dirty = (op = WRITE) /\ line.data = data
  BY <1>1, <1>7, <1>8 DEF Line, CacheState
<1>10. de \in Nat /\ ce \in Nat /\ c.next_lru + 1 \in Nat
  BY <1>7 DEF CacheState, Line
<1> HIDE DEF line, s, w, n, m
<1>11. [c.sets EXCEPT ![s][w] = line] \in [Sets -> [Ways -> Line(D)]]
  BY <1>1, <1>9 DEF CacheState
<1> HIDE DEF de, ce
<1>12. n \in CacheState(D)
  BY <1>2, <1>6, <1>10, <1>11 DEF CacheState
<1>13. /\ n.sets = [c.sets EXCEPT ![s][w] = line]
       /\ n.next_lru = c.next_lru + 1
       /\ n.hit_count = c.hit_count
       /\ n.miss_count = c.miss_count + 1
       /\ n.dirty_eviction_count = de
       /\ n.clean_eviction_count = ce
  BY <1>2, <1>6 DEF CacheState
<1>14. n.sets[s][w] = line
  BY <1>1, <1>13 DEF CacheState
<1>15. \A t \in Sets, v \in Ways : ~(t = s /\ v = w) => n.sets[t][v] = c.sets[t][v]
  BY <1>1, <1>13 DEF CacheState
<1>16. /\ de = c.dirty_eviction_count + IF old.valid /\ old.dirty THEN 1 ELSE 0
       /\ ce = c.clean_eviction_count + IF old.valid /\ ~old.dirty THEN 1 ELSE 0
  BY <1>7 DEF de, ce, CacheState, Line
<1>17. QED
  BY <1>9, <1>12, <1>13, <1>14, <1>15, <1>16 DEF s, w, n, data, MissOutcome

-----------------------------------------------------------------------------
(* Finding blocks.                                                         *)

(* A set index and a tag are those of one block.                           *)
LEMMA BlockParts ==
  ASSUME NEW b \in Nat
  PROVE  /\ Address(SetIndex(b), Tag(b)) = b
         /\ \A x \in Nat : SetIndex(x) = SetIndex(b) /\ Tag(x) = Tag(b) => x = b
  BY CacheAssumption, SMT DEF Address, SetIndex, Tag

LEMMA AddressParts ==
  ASSUME NEW s \in Sets, NEW t \in Nat
  PROVE  /\ Address(s, t) \in Nat
         /\ SetIndex(Address(s, t)) = s /\ Tag(Address(s, t)) = t
  BY CacheAssumption, SMT DEF Address, SetIndex, Tag, Sets

(* No two valid lines of a set have the same tag.                          *)
OneLine(c) ==
  \A s \in Sets : \A v, w \in Ways :
    /\ c.sets[s][v].valid /\ c.sets[s][w].valid
    /\ c.sets[s][v].tag = c.sets[s][w].tag
    => v = w

Holds(c, b, w) == /\ c.sets[SetIndex(b)][w].valid
                  /\ c.sets[SetIndex(b)][w].tag = Tag(b)

(* Then the line that holds a block is the one get_line returns.           *)
LEMMA LineIsFound ==
  ASSUME NEW c, OneLine(c), NEW b \in Nat, NEW w \in Ways, Holds(c, b, w)
  PROVE  Hit(c, b) /\ get_line(c, b) = w
<1>1. Hit(c, b)
  BY DEF Holds, Hit, Matching
<1>2. Holds(c, b, get_line(c, b)) /\ get_line(c, b) \in Ways
  BY <1>1, GetLineMatches DEF Holds
<1>3. QED
  BY <1>1, <1>2, IndexType DEF OneLine, Holds

(* n is c but for line w of the set of b, which has come to hold b, and no *)
(* other line of c does.                                                   *)
Placed(c, n, b, w) ==
  /\ w \in Ways /\ Holds(n, b, w)
  /\ \A t \in Sets, v \in Ways :
       ~(t = SetIndex(b) /\ v = w) => n.sets[t][v] = c.sets[t][v]
  /\ \A v \in Ways \ {w} : ~Holds(c, b, v)

(* After an access every block but the evicted one is where it was.        *)
LEMMA PlacedFinds ==
  ASSUME NEW c, NEW n, NEW b \in Nat, NEW w, OneLine(c), Placed(c, n, b, w)
  PROVE  /\ OneLine(n)
         /\ Hit(n, b) /\ get_line(n, b) = w
         /\ \A x \in Nat \ {b} :
              /\ Hit(n, x) <=> Hit(c, x) /\ ~(SetIndex(x) = SetIndex(b) /\ Holds(c, x, w))
              /\ Hit(n, x) => LineOf(n, x) = LineOf(c, x)
<1>1. SetIndex(b) \in Sets /\ w \in Ways
  BY IndexType DEF Placed
<1>2. OneLine(n)
  BY <1>1 DEF OneLine, Placed, Holds
<1>3. Hit(n, b) /\ get_line(n, b) = w
  BY <1>2, LineIsFound DEF Placed
<1>4. ASSUME NEW x \in Nat \ {b}
      PROVE  /\ Hit(n, x) <=> Hit(c, x) /\ ~(SetIndex(x) = SetIndex(b) /\ Holds(c, x, w))
             /\ Hit(n, x) => LineOf(n, x) = LineOf(c, x)
  <2>1. SetIndex(x) \in Sets /\ ~(SetIndex(x) = SetIndex(b) /\ Tag(x) = Tag(b))
    BY BlockParts, IndexType
  <2>2. ASSUME NEW v \in Ways
        PROVE  Holds(n, x, v) <=> /\ Holds(c, x, v)
                                  /\ ~(SetIndex(x) = SetIndex(b) /\ v = w)
    BY <1>1, <2>1 DEF Placed, Holds
  <2>3. ASSUME Hit(n, x)
        PROVE  /\ Hit(c, x) /\ ~(SetIndex(x) = SetIndex(b) /\ Holds(c, x, w))
               /\ LineOf(n, x) = LineOf(c, x)
    <3>1. get_line(n, x) \in Ways /\ Holds(n, x, get_line(n, x))
      BY <2>3, GetLineMatches DEF Holds
    <3>2. Holds(c, x, get_line(n, x)) /\ ~(SetIndex(x) = SetIndex(b) /\ get_line(n, x) = w)
      BY <2>2, <3>1
    <3>3. Hit(c, x) /\ get_line(c, x) = get_line(n, x)
      BY <3>1, <3>2, LineIsFound
    <3>4. SetIndex(x) = SetIndex(b) => ~Holds(c, x, w)
      BY <1>1, <3>2, <3>3, LineIsFound
    <3>5. n.sets[SetIndex(x)][get_line(n, x)] = c.sets[SetIndex(x)][get_line(n, x)]
      BY <2>1, <3>1, <3>2 DEF Placed
    <3>6. QED
      BY <3>3, <3>4, <3>5 DEF LineOf
  <2>4. ASSUME Hit(c, x), ~(SetIndex(x) = SetIndex(b) /\ Holds(c, x, w))
        PROVE  Hit(n, x)
    <3>1. get_line(c, x) \in Ways /\ Holds(c, x, get_line(c, x))
      BY <2>4, GetLineMatches DEF Holds
    <3>2. Holds(n, x, get_line(c, x))
      BY <2>2, <2>4, <3>1
    <3>3. QED
      BY <1>2, <3>1, <3>2, LineIsFound
  <2>5. QED
    BY <2>3, <2>4
<1>5. QED
  BY <1>2, <1>3, <1>4
=============================================================================
