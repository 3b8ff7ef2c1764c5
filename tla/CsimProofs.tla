----------------------------- MODULE CsimProofs -----------------------------
(***************************************************************************)
(* What is true of csim on every trace and for every cache geometry.       *)
(***************************************************************************)
EXTENDS Csim, CacheProofs, FiniteSetTheorems

(* The inductive invariant: no conjunct of it but the first two is         *)
(* inductive alone, because the order of the stamps comes from the call    *)
(* numbers they are made of.                                               *)
IInv == TypeOK /\ OneLinePerBlock /\ StampsAreUseTimes

(* The stamps of two lines in the order of their last uses: the second     *)
(* half of StampsAreUseTimes is StampsFollowRecency and more.              *)
LEMMA UseTimesGiveRecency ==
  ASSUME TypeOK, StampsAreUseTimes
  PROVE  StampsFollowRecency
<1>1. ASSUME NEW s \in Sets, NEW v \in ValidLines(s), NEW w \in ValidLines(s),
             lastUse[s][v] < lastUse[s][w]
      PROVE  \/ cache.sets[s][v].lru < cache.sets[s][w].lru
             \/ /\ cache.sets[s][v].lru = cache.sets[s][w].lru
                /\ lastUse[s][w] = lastUse[s][v] + 1
  <2>1. v \in Ways /\ w \in Ways
    BY DEF ValidLines
  <2>2. /\ lastUse[s][v] \in Nat /\ lastUse[s][w] \in Nat
        /\ cache.sets[s][v].lru \in Nat /\ cache.sets[s][w].lru \in Nat
    BY <2>1 DEF TypeOK, CacheState, Line
  <2>3. /\ \/ cache.sets[s][v].lru = lastUse[s][v]
           \/ cache.sets[s][v].lru + 1 = lastUse[s][v]
        /\ \/ cache.sets[s][w].lru = lastUse[s][w]
           \/ cache.sets[s][w].lru + 1 = lastUse[s][w]
    BY DEF StampsAreUseTimes
  <2>4. QED
    BY <1>1, <2>2, <2>3
<1>2. QED
  BY <1>1 DEF StampsFollowRecency

(* What one call of access_data that does not crash does to the line it    *)
(* ends on and to the others, whether it hits or misses.                   *)
AccessOutcome(b, op) ==
  LET s == SetIndex(b)
      w == LineFor(cache, b)
      n == access_data(cache, b, op)
  IN  /\ s \in Sets /\ w \in Ways
      /\ n \in CacheState({ZeroBlock})
      /\ n.next_lru = cache.next_lru + 1
      /\ \A t \in Sets, v \in Ways :
           ~(t = s /\ v = w) => n.sets[t][v] = cache.sets[t][v]
      /\ n.sets[s][w].valid /\ n.sets[s][w].tag = Tag(b)
      /\ \/ n.sets[s][w].lru = cache.next_lru + 1
         \/ n.sets[s][w].lru = cache.next_lru
      /\ IF Hit(cache, b)
           THEN cache.sets[s][w].valid /\ cache.sets[s][w].tag = Tag(b)
           ELSE /\ \A v \in Ways : cache.sets[s][v].valid =>
                                     cache.sets[s][v].tag # Tag(b)
                /\ cache.sets[s][w].valid =>
                     \A v \in Ways :
                       /\ cache.sets[s][v].valid
                       /\ cache.sets[s][w].lru <= cache.sets[s][v].lru

(* Every call that does not crash has that outcome.                        *)
LEMMA AccessEffect ==
  ASSUME TypeOK, NEW b \in Blocks, NEW op, ~AccessCrashes(cache, b)
  PROVE  AccessOutcome(b, op)
<1>1. cache \in CacheState({ZeroBlock}) /\ b \in Nat
  BY CacheAssumption DEF TypeOK
<1>2. SetIndex(b) \in Sets
  BY <1>1, IndexType
<1>3. CASE Hit(cache, b)
  <2>1. LineFor(cache, b) = get_line(cache, b)
        /\ access_data(cache, b, op) = CountHits(cache, b, op, 1)
    BY <1>3 DEF LineFor, access_data, check_hit
  <2>2. HitOutcome({ZeroBlock}, cache, b, op, 1)
    BY <1>1, <1>3, HitEffect
  <2>3. /\ get_line(cache, b) \in Ways
        /\ cache.sets[SetIndex(b)][get_line(cache, b)].valid
        /\ cache.sets[SetIndex(b)][get_line(cache, b)].tag = Tag(b)
    BY <1>3, GetLineMatches
  <2>4. QED
    BY <1>2, <1>3, <2>1, <2>2, <2>3 DEF HitOutcome, AccessOutcome
<1>4. CASE ~Hit(cache, b)
  <2>1. LineFor(cache, b) = select_line(cache, b)
        /\ select_line(cache, b) # NoLine
        /\ access_data(cache, b, op) = handle_miss(check_hit(cache, b, op), b, op, NoData)
    BY <1>4 DEF LineFor, AccessCrashes, access_data
  <2>2. MissOutcome({ZeroBlock}, cache, b, op, NoData)
    BY <1>1, <1>4, <2>1, MissEffect
  <2>3. Victim(cache, b)
    BY <2>1, SelectLineChoice
  <2>4. \A v \in Ways : cache.sets[SetIndex(b)][v].valid =>
                          cache.sets[SetIndex(b)][v].tag # Tag(b)
    BY <1>4 DEF Hit, Matching
  <2>5. QED
    BY <1>2, <1>4, <2>1, <2>2, <2>3, <2>4 DEF MissOutcome, AccessOutcome, Victim
<1>5. QED
  BY <1>3, <1>4

-----------------------------------------------------------------------------
(* The invariant.                                                          *)

(* It holds of the cache fresh from create_cache (cache.c:63-87).          *)
LEMMA InitIInv == Init => IInv
<1> SUFFICES ASSUME Init
             PROVE  IInv
  OBVIOUS
<1>1. \A s \in Sets, w \in Ways : ~cache.sets[s][w].valid
  BY DEF Init, create_cache
<1>2. TypeOK
  BY DEF Init, TypeOK, create_cache, CacheState, Line, Operations
<1>3. OneLinePerBlock
  BY <1>1 DEF OneLinePerBlock, ValidLines
<1>4. StampsAreUseTimes
  <2>1. cache.next_lru = now
    BY DEF Init, create_cache
  <2>2. QED
    BY <1>1, <2>1 DEF StampsAreUseTimes, ValidLines
<1>5. QED
  BY <1>2, <1>3, <1>4 DEF IInv

(* A call that crashes leaves the cache and the history as they were; the  *)
(* others preserve each part of the invariant.                             *)
LEMMA AccessIInv ==
  ASSUME IInv, NEW b \in Blocks, NEW op \in Operations, Access(b, op),
         modify' \in Blocks \cup {NoBlock}
  PROVE  IInv'
<1>1. CASE AccessCrashes(cache, b)
  <2>1. crashed' = TRUE /\ UNCHANGED <<cache, call, now, lastUse>>
    BY <1>1 DEF Access
  <2>2. TypeOK'
    BY <2>1 DEF IInv, TypeOK
  <2>3. OneLinePerBlock' /\ StampsAreUseTimes'
    BY <2>1 DEF IInv, OneLinePerBlock, StampsAreUseTimes, ValidLines
  <2>4. QED
    BY <2>2, <2>3 DEF IInv
<1>2. CASE ~AccessCrashes(cache, b)
  <2> DEFINE s == SetIndex(b)
             w == LineFor(cache, b)
  <2>1. AccessOutcome(b, op)
    BY <1>2, AccessEffect DEF IInv
  <2>2. /\ cache' = access_data(cache, b, op)
        /\ call' = [block |-> b, op |-> op]
        /\ now' = now + 1
        /\ lastUse' = [lastUse EXCEPT ![s][w] = now + 1]
        /\ crashed' = crashed
    BY <1>2 DEF Access
  <2>3. s \in Sets /\ w \in Ways
    BY <2>1 DEF AccessOutcome
  <2>4. now \in Nat /\ lastUse \in [Sets -> [Ways -> Nat]]
    BY DEF IInv, TypeOK
  <2>5. /\ lastUse' \in [Sets -> [Ways -> Nat]]
        /\ lastUse'[s][w] = now + 1
        /\ \A t \in Sets, v \in Ways :
             ~(t = s /\ v = w) => lastUse'[t][v] = lastUse[t][v]
    BY <2>2, <2>3, <2>4
  <2>6. /\ cache' \in CacheState({ZeroBlock})
        /\ cache'.next_lru = cache.next_lru + 1
        /\ \A t \in Sets, v \in Ways :
             ~(t = s /\ v = w) => cache'.sets[t][v] = cache.sets[t][v]
        /\ cache'.sets[s][w].valid /\ cache'.sets[s][w].tag = Tag(b)
        /\ \/ cache'.sets[s][w].lru = cache.next_lru + 1
           \/ cache'.sets[s][w].lru = cache.next_lru
    BY <2>1, <2>2 DEF AccessOutcome
  <2>7. \A v \in Ways : v # w /\ cache.sets[s][v].valid =>
                          cache.sets[s][v].tag # Tag(b)
    BY <2>1, <2>3 DEF AccessOutcome, IInv, OneLinePerBlock, ValidLines
  <2> HIDE DEF s, w
  <2>8. TypeOK'
    BY <2>2, <2>4, <2>5, <2>6 DEF IInv, TypeOK
  <2>9. OneLinePerBlock'
    <3>1. ASSUME NEW t \in Sets, NEW v \in Ways, NEW u \in Ways,
                 cache'.sets[t][v].valid, cache'.sets[t][u].valid,
                 cache'.sets[t][v].tag = cache'.sets[t][u].tag
          PROVE  v = u
      BY <2>3, <2>6, <2>7, <3>1 DEF IInv, OneLinePerBlock, ValidLines
    <3>2. QED
      BY <3>1 DEF OneLinePerBlock, ValidLines
  <2>10. StampsAreUseTimes'
    <3>1. cache.next_lru = now
      BY DEF IInv, StampsAreUseTimes
    <3>2. cache'.next_lru = now'
      BY <2>2, <2>6, <3>1
    <3>3. ASSUME NEW t \in Sets, NEW v \in Ways, NEW u \in Ways,
                 cache'.sets[t][v].valid, cache'.sets[t][u].valid
          PROVE  /\ 0 < lastUse'[t][u] /\ lastUse'[t][u] <= now'
                 /\ \/ cache'.sets[t][u].lru = lastUse'[t][u]
                    \/ cache'.sets[t][u].lru + 1 = lastUse'[t][u]
                 /\ lastUse'[t][v] = lastUse'[t][u] => v = u
      <4>1. ASSUME NEW x \in Ways, NEW y \in Ways,
                   cache.sets[t][x].valid, cache.sets[t][y].valid
            PROVE  /\ 0 < lastUse[t][y] /\ lastUse[t][y] <= now
                   /\ \/ cache.sets[t][y].lru = lastUse[t][y]
                      \/ cache.sets[t][y].lru + 1 = lastUse[t][y]
                   /\ lastUse[t][x] = lastUse[t][y] => x = y
        BY <4>1 DEF IInv, StampsAreUseTimes, ValidLines
      <4>2. lastUse[t][v] \in Nat /\ lastUse[t][u] \in Nat
        BY <2>4
      <4>3. CASE t = s /\ u = w
        BY <2>2, <2>4, <2>5, <2>6, <3>1, <3>3, <4>1, <4>2, <4>3
      <4>4. CASE ~(t = s /\ u = w)
        BY <2>2, <2>4, <2>5, <2>6, <3>1, <3>3, <4>1, <4>2, <4>4
      <4>5. QED
        BY <4>3, <4>4
    <3>4. QED
      BY <3>2, <3>3 DEF StampsAreUseTimes, ValidLines
  <2>11. QED
    BY <2>8, <2>9, <2>10 DEF IInv
<1>3. QED
  BY <1>1, <1>2

(* Every trace operation of replayTrace preserves it (csim.c:55-96).       *)
LEMMA NextIInv == IInv /\ [Next]_vars => IInv'
<1> SUFFICES ASSUME IInv, [Next]_vars
             PROVE  IInv'
  OBVIOUS
<1>1. modify \in Blocks \cup {NoBlock}
  BY DEF IInv, TypeOK
<1>2. ASSUME NEW b \in Blocks, Load(b)
      PROVE  IInv'
  BY <1>1, <1>2, AccessIInv DEF Load, Operations
<1>3. ASSUME NEW b \in Blocks, Store(b)
      PROVE  IInv'
  BY <1>1, <1>3, AccessIInv DEF Store, Operations
<1>4. ASSUME NEW b \in Blocks, Modify(b)
      PROVE  IInv'
  BY <1>4, AccessIInv DEF Modify, Operations
<1>5. ASSUME NEW b \in Blocks, ModifyWrite(b)
      PROVE  IInv'
  BY <1>5, AccessIInv DEF ModifyWrite, Operations
<1>6. CASE UNCHANGED vars
  BY <1>6 DEF vars, IInv, TypeOK, OneLinePerBlock, StampsAreUseTimes, ValidLines
<1>7. QED
  BY <1>2, <1>3, <1>4, <1>5, <1>6 DEF Next

(* It holds throughout the replay of every trace.                          *)
THEOREM Invariance == Spec => []IInv
  BY InitIInv, NextIInv, PTL DEF Spec

(* The state of the trace player keeps its shape on every trace.           *)
THEOREM TypeCorrect == Spec => []TypeOK
<1>1. IInv => TypeOK
  BY DEF IInv
<1>2. QED
  BY Invariance, <1>1, PTL

(* No block ever has two lines, whatever the trace and the geometry.       *)
THEOREM NoSecondCopy == Spec => []OneLinePerBlock
<1>1. IInv => OneLinePerBlock
  BY DEF IInv
<1>2. QED
  BY Invariance, <1>1, PTL

(* The stamps order the lines of every set by their last use, up to the    *)
(* tie of a hit with the fill after it.                                    *)
THEOREM RecencyOrder == Spec => []StampsFollowRecency
<1>1. IInv => StampsFollowRecency
  BY UseTimesGiveRecency DEF IInv
<1>2. QED
  BY Invariance, <1>1, PTL

-----------------------------------------------------------------------------
(* The victim.                                                             *)

(* Among the lines of a full set the one with the least stamp was used     *)
(* last or second to last, because a stamp is at most one call off.        *)
LEMMA LeastStampIsOldestOrSuccessor ==
  ASSUME IInv, NEW s \in Sets, NEW w \in Ways,
         \A v \in Ways : /\ cache.sets[s][v].valid
                         /\ cache.sets[s][w].lru <= cache.sets[s][v].lru,
         NEW v \in OlderLines(s, w)
  PROVE  OlderLines(s, w) = {v} /\ lastUse[s][w] = lastUse[s][v] + 1
<1>1. ASSUME NEW u \in OlderLines(s, w)
      PROVE  u \in Ways /\ lastUse[s][w] = lastUse[s][u] + 1
  <2>1. u \in Ways /\ lastUse[s][u] < lastUse[s][w]
    BY DEF OlderLines
  <2>2. /\ lastUse[s][u] \in Nat /\ lastUse[s][w] \in Nat
        /\ cache.sets[s][u].lru \in Nat /\ cache.sets[s][w].lru \in Nat
    BY <2>1 DEF IInv, TypeOK, CacheState, Line
  <2>3. /\ \/ cache.sets[s][u].lru = lastUse[s][u]
           \/ cache.sets[s][u].lru + 1 = lastUse[s][u]
        /\ \/ cache.sets[s][w].lru = lastUse[s][w]
           \/ cache.sets[s][w].lru + 1 = lastUse[s][w]
    BY <2>1 DEF IInv, StampsAreUseTimes, ValidLines
  <2>4. cache.sets[s][w].lru <= cache.sets[s][u].lru
    BY <2>1
  <2>5. QED
    BY <2>1, <2>2, <2>3, <2>4
<1>2. ASSUME NEW u \in OlderLines(s, w)
      PROVE  u = v
  <2>1. /\ u \in ValidLines(s) /\ v \in ValidLines(s)
        /\ lastUse[s][u] \in Nat /\ lastUse[s][v] \in Nat
    BY <1>1 DEF IInv, TypeOK, ValidLines
  <2>2. lastUse[s][u] = lastUse[s][v]
    BY <1>1, <2>1
  <2>3. QED
    BY <2>1, <2>2 DEF IInv, StampsAreUseTimes
<1>3. QED
  BY <1>1, <1>2

(* A line only takes another block on a miss that chose it for victim.     *)
LEMMA ReplacedIsVictim ==
  ASSUME IInv, NEW b \in Blocks, NEW op, Access(b, op),
         NEW s \in Sets, NEW w \in Ways, Replaced(s, w)
  PROVE  \A v \in Ways : /\ cache.sets[s][v].valid
                         /\ cache.sets[s][w].lru <= cache.sets[s][v].lru
<1>1. ~AccessCrashes(cache, b)
  BY DEF Access, Replaced
<1>2. AccessOutcome(b, op) /\ cache' = access_data(cache, b, op)
  BY <1>1, AccessEffect DEF IInv, Access
<1>3. s = SetIndex(b) /\ w = LineFor(cache, b)
  BY <1>2 DEF AccessOutcome, Replaced
<1>4. ~Hit(cache, b)
  BY <1>2, <1>3 DEF AccessOutcome, Replaced
<1>5. QED
  BY <1>2, <1>3, <1>4 DEF AccessOutcome, Replaced

(* For every geometry and trace the victim is the least recently used line *)
(* of its set or, at worst, the one used by the very next call.            *)
THEOREM NearlyLRU == Spec => EvictsOldestOrSuccessor
<1> DEFINE P == \A s \in Sets, w \in Ways : Replaced(s, w) =>
                  \A v \in OlderLines(s, w) :
                    /\ OlderLines(s, w) = {v}
                    /\ lastUse[s][w] = lastUse[s][v] + 1
<1>1. IInv /\ [Next]_vars => [P]_vars
  <2> SUFFICES ASSUME IInv, Next, NEW s \in Sets, NEW w \in Ways,
                      Replaced(s, w), NEW v \in OlderLines(s, w)
               PROVE  /\ OlderLines(s, w) = {v}
                      /\ lastUse[s][w] = lastUse[s][v] + 1
    OBVIOUS
  <2>1. PICK b \in Blocks : \E op \in Operations : Access(b, op)
    BY DEF Next, Load, Store, Modify, ModifyWrite, Operations
  <2>2. PICK op \in Operations : Access(b, op)
    BY <2>1
  <2>3. \A u \in Ways : /\ cache.sets[s][u].valid
                        /\ cache.sets[s][w].lru <= cache.sets[s][u].lru
    BY <2>2, ReplacedIsVictim
  <2>4. QED
    BY <2>3, LeastStampIsOldestOrSuccessor
<1>2. QED
  BY Invariance, <1>1, PTL DEF Spec, EvictsOldestOrSuccessor

-----------------------------------------------------------------------------
(* The crash, and the write half of a modify.                              *)

(* A line of the full set has a stamp above INT_MAX, and no stamp is above *)
(* the counter.                                                            *)
LEMMA NoVictimMeansOverflow ==
  ASSUME IInv, NEW b \in Blocks, AccessCrashes(cache, b)
  PROVE  cache.next_lru > INT_MAX
<1> DEFINE s == SetIndex(b)
<1>1. s \in Sets /\ b \in Nat /\ cache \in CacheState({ZeroBlock})
  BY CacheAssumption, IndexType DEF IInv, TypeOK
<1>2. PICK w \in Ways : cache.sets[s][w].valid /\ cache.sets[s][w].lru > INT_MAX
  BY <1>1, NoVictimMeansOldStamps DEF AccessCrashes
<1>3. /\ lastUse[s][w] <= now /\ cache.next_lru = now
      /\ \/ cache.sets[s][w].lru = lastUse[s][w]
         \/ cache.sets[s][w].lru + 1 = lastUse[s][w]
  BY <1>1, <1>2 DEF IInv, StampsAreUseTimes, ValidLines
<1>4. /\ now \in Nat /\ lastUse[s][w] \in Nat /\ cache.sets[s][w].lru \in Nat
      /\ INT_MAX \in Nat
  BY <1>1, CacheAssumption DEF IInv, TypeOK, CacheState, Line
<1>5. QED
  BY <1>2, <1>3, <1>4

(* What the two remaining invariants ask of one call.                      *)
LEMMA AccessAfterwards ==
  ASSUME IInv, NEW b \in Blocks, NEW op, Access(b, op)
  PROVE  /\ crashed' => cache'.next_lru > INT_MAX
         /\ ~crashed' => Hit(cache, b)'
<1>1. CASE AccessCrashes(cache, b)
  BY <1>1, NoVictimMeansOverflow DEF Access
<1>2. CASE ~AccessCrashes(cache, b)
  <2> DEFINE s == SetIndex(b)
             w == LineFor(cache, b)
  <2>1. ~crashed' /\ cache' = access_data(cache, b, op)
    BY <1>2 DEF Access
  <2>2. AccessOutcome(b, op)
    BY <1>2, AccessEffect DEF IInv
  <2>3. w \in Ways /\ cache'.sets[s][w].valid /\ cache'.sets[s][w].tag = Tag(b)
    BY <2>1, <2>2 DEF AccessOutcome
  <2>4. w \in Matching(cache, b)'
    BY <2>3 DEF Matching
  <2>5. QED
    BY <2>1, <2>4 DEF Hit
<1>3. QED
  BY <1>1, <1>2

(* csim only ever fails to replay a line of its trace once the counter of  *)
(* accesses no longer fits an int.                                         *)
THEOREM CrashIsOverflow == Spec => []CrashNeedsStampOverflow
<1>1. Init => CrashNeedsStampOverflow
  BY DEF Init, CrashNeedsStampOverflow
<1>2. IInv /\ CrashNeedsStampOverflow /\ [Next]_vars => CrashNeedsStampOverflow'
  <2>1. CASE UNCHANGED vars
    BY <2>1 DEF vars, CrashNeedsStampOverflow
  <2>2. ASSUME IInv, Next
        PROVE  CrashNeedsStampOverflow'
    <3>1. PICK b \in Blocks : \E op \in Operations : Access(b, op)
      BY <2>2 DEF Next, Load, Store, Modify, ModifyWrite, Operations
    <3>2. QED
      BY <2>2, <3>1, AccessAfterwards DEF CrashNeedsStampOverflow
  <2>3. QED
    BY <2>1, <2>2
<1>3. QED
  BY Invariance, <1>1, <1>2, PTL DEF Spec

(* A trace that makes no more than INT_MAX accesses is replayed to its     *)
(* end, whatever the geometry of the cache.                                *)
THEOREM ShortTracesReplay ==
  ASSUME MaxAccesses \in Nat, MaxAccesses <= INT_MAX
  PROVE  Spec => []NeverCrashes
<1> DEFINE InBound == now <= MaxAccesses
<1>1. Init => InBound
  BY DEF Init
<1>2. IInv /\ InBound /\ [Next]_vars => InBound'
  <2> SUFFICES ASSUME IInv, InBound, [Next]_vars
               PROVE  InBound'
    OBVIOUS
  <2>1. now \in Nat
    BY DEF IInv, TypeOK
  <2>2. CASE UNCHANGED vars
    BY <2>2 DEF vars
  <2>3. CASE Next
    <3>1. PICK b \in Blocks : \E op \in Operations : Access(b, op)
      BY <2>3 DEF Next, Load, Store, Modify, ModifyWrite, Operations
    <3>2. now < MaxAccesses /\ (now' = now \/ now' = now + 1)
      BY <3>1 DEF Access
    <3>3. QED
      BY <2>1, <3>2
  <2>4. QED
    BY <2>2, <2>3
<1>3. IInv /\ InBound /\ CrashNeedsStampOverflow => NeverCrashes
  <2> SUFFICES ASSUME IInv, InBound, CrashNeedsStampOverflow
               PROVE  NeverCrashes
    OBVIOUS
  <2>1. cache.next_lru = now /\ now \in Nat
    BY DEF IInv, TypeOK, StampsAreUseTimes
  <2>2. QED
    BY <2>1, CacheAssumption DEF CrashNeedsStampOverflow, NeverCrashes
<1>4. QED
  BY Invariance, CrashIsOverflow, <1>1, <1>2, <1>3, PTL DEF Spec

(* The second call of an 'M' hits, for every geometry: the block its first *)
(* call touched is resident whether that call hit or filled.               *)
THEOREM ModifyIsMissThenHit == Spec => []ModifyWriteHits
<1>1. Init => ModifyWriteHits
  BY DEF Init, ModifyWriteHits
<1>2. IInv /\ ModifyWriteHits /\ [Next]_vars => ModifyWriteHits'
  <2> SUFFICES ASSUME IInv, ModifyWriteHits, [Next]_vars
               PROVE  ModifyWriteHits'
    OBVIOUS
  <2>1. ASSUME NEW b \in Blocks, Load(b) \/ Store(b)
        PROVE  ModifyWriteHits'
    BY <2>1 DEF Load, Store, ModifyWriteHits
  <2>2. ASSUME NEW b \in Blocks, Modify(b)
        PROVE  ModifyWriteHits'
    <3>1. Access(b, READ) /\ modify' = b
      BY <2>2 DEF Modify
    <3>2. ~crashed' => Hit(cache, b)'
      BY <3>1, AccessAfterwards
    <3>3. QED
      BY <3>1, <3>2 DEF ModifyWriteHits, Hit, Matching
  <2>3. ASSUME NEW b \in Blocks, ModifyWrite(b)
        PROVE  ModifyWriteHits'
    BY <2>3 DEF ModifyWrite, ModifyWriteHits
  <2>4. CASE UNCHANGED vars
    BY <2>4 DEF vars, ModifyWriteHits, Hit, Matching
  <2>5. QED
    BY <2>1, <2>2, <2>3, <2>4 DEF Next
<1>3. QED
  BY Invariance, <1>1, <1>2, PTL DEF Spec

(* Every stamp is the number of the call that set it or one less.          *)
THEOREM UseTimes == Spec => []StampsAreUseTimes
<1>1. IInv => StampsAreUseTimes
  BY DEF IInv
<1>2. QED
  BY Invariance, <1>1, PTL

-----------------------------------------------------------------------------
(* The refinement of the abstract write-back cache.                        *)

(* Every valid line holds a block of the trace.                            *)
LinesHoldBlocks ==
  \A s \in Sets : \A w \in ValidLines(s) :
    Address(s, cache.sets[s][w].tag) \in Blocks

RInv == IInv /\ LinesHoldBlocks

(* The invariant of csim as CacheProofs states it.                         *)
LEMMA RInvFacts ==
  ASSUME RInv
  PROVE  /\ cache \in CacheState({ZeroBlock})
         /\ OneLine(cache)
         /\ \A b \in Blocks : b \in Nat
         /\ \A b \in Blocks, w \in Ways :
              Holds(cache, b, w) => Hit(cache, b) /\ get_line(cache, b) = w
<1>1. cache \in CacheState({ZeroBlock}) /\ Blocks \subseteq Nat
  BY CacheAssumption DEF RInv, IInv, TypeOK
<1>2. OneLine(cache)
  BY DEF RInv, IInv, OneLinePerBlock, ValidLines, OneLine
<1>3. QED
  BY <1>1, <1>2, LineIsFound

(* A set has as many resident blocks as valid lines.                       *)
LEMMA ResidentsCount ==
  ASSUME RInv, NEW s \in Sets
  PROVE  LET N == {r \in residentBlocks : SetIndex(r) = s}
         IN  /\ (\A w \in Ways : cache.sets[s][w].valid) => Cardinality(N) = A
             /\ (\E w \in Ways : ~cache.sets[s][w].valid) => Cardinality(N) < A
<1> DEFINE N == {r \in residentBlocks : SetIndex(r) = s}
           V == ValidLines(s)
           f == [w \in V |-> Address(s, cache.sets[s][w].tag)]
<1>1. ASSUME NEW w \in V
      PROVE  /\ w \in Ways /\ f[w] \in Blocks
             /\ SetIndex(f[w]) = s /\ Tag(f[w]) = cache.sets[s][w].tag
             /\ Holds(cache, f[w], w)
  <2>1. w \in Ways /\ cache.sets[s][w].valid /\ f[w] \in Blocks
    BY DEF ValidLines, RInv, LinesHoldBlocks
  <2>2. cache.sets[s][w].tag \in Nat
    BY <2>1, RInvFacts DEF CacheState, Line
  <2>3. QED
    BY <2>1, <2>2, AddressParts DEF Holds
<1>2. f \in [V -> N]
  BY <1>1, RInvFacts DEF residentBlocks
<1>3. \A v, w \in V : f[v] = f[w] => v = w
  BY <1>1, RInvFacts
<1>4. ASSUME NEW r \in N
      PROVE  \E w \in V : f[w] = r
  <2>1. r \in Blocks /\ Hit(cache, r) /\ SetIndex(r) = s /\ r \in Nat
    BY RInvFacts DEF residentBlocks
  <2>2. get_line(cache, r) \in V /\ cache.sets[s][get_line(cache, r)].tag = Tag(r)
    BY <2>1, GetLineMatches DEF ValidLines
  <2>3. f[get_line(cache, r)] = r
    BY <2>1, <2>2, BlockParts
  <2>4. QED
    BY <2>2, <2>3
<1> HIDE DEF f, N, V
<1>5. f \in Bijection(V, N)
  BY <1>2, <1>3, <1>4 DEF Bijection, Injection, Surjection, IsInjective
<1>6. IsFiniteSet(Ways) /\ Cardinality(Ways) = A
  BY FS_Interval, CacheAssumption DEF Ways
<1>7. V \in SUBSET Ways
  BY DEF V, ValidLines
<1>8. /\ IsFiniteSet(V) /\ Cardinality(V) <= A
      /\ Cardinality(V) = A => V = Ways
  BY <1>6, <1>7, FS_Subset
<1>9. Cardinality(N) = Cardinality(V) /\ Cardinality(V) \in Nat
  BY <1>5, <1>8, FS_Bijection, FS_CardinalityType DEF ExistsBijection
<1>10. (\A w \in Ways : cache.sets[s][w].valid) => V = Ways
  BY DEF V, ValidLines
<1>11. V = Ways => \A w \in Ways : cache.sets[s][w].valid
  BY DEF V, ValidLines
<1>12. QED
  BY <1>6, <1>8, <1>9, <1>10, <1>11, CacheAssumption DEF N

(* The instance counts as this module does.                                *)
LEMMA SameCardinality == \A X : WB!Cardinality(X) = Cardinality(X)
  BY DEF WB!Cardinality, Cardinality

(* A hit is a hit of the abstract cache, and dirties what it stores to.    *)
LEMMA HitRefines ==
  ASSUME RInv, NEW b \in Blocks, NEW op \in Operations, Hit(cache, b),
         cache' = access_data(cache, b, op)
  PROVE  WB!HitAccess(b, op)
<1> DEFINE w == get_line(cache, b)
<1>1. /\ cache \in CacheState({ZeroBlock}) /\ OneLine(cache) /\ b \in Nat
      /\ Blocks \subseteq Nat
  BY RInvFacts
<1>2. cache' = CountHits(cache, b, op, 1)
  BY DEF access_data, check_hit
<1>3. HitOutcome({ZeroBlock}, cache, b, op, 1)
  BY <1>1, HitEffect
<1>4. w \in Ways /\ Holds(cache, b, w)
  BY GetLineMatches DEF Holds
<1>5. Placed(cache, cache', b, w)
  <2>1. \A v \in Ways \ {w} : ~Holds(cache, b, v)
    BY RInvFacts
  <2>2. QED
    BY <1>2, <1>3, <1>4, <2>1 DEF HitOutcome, Placed, Holds
<1>6. /\ Hit(cache, b)' /\ get_line(cache, b)' = w
      /\ LineOf(cache, b)'.dirty =
           IF op = WRITE THEN TRUE ELSE LineOf(cache, b).dirty
  <2>1. Hit(cache', b) /\ get_line(cache', b) = w
    BY <1>1, <1>5, PlacedFinds
  <2>2. QED
    BY <1>2, <1>3, <2>1 DEF HitOutcome, LineOf, Hit, get_line, Matching
<1>7. \A x \in Blocks \ {b} :
        /\ Hit(cache', x) <=> Hit(cache, x)
        /\ Hit(cache', x) => LineOf(cache', x) = LineOf(cache, x)
  <2>1. ASSUME NEW x \in Blocks \ {b}
        PROVE  ~(SetIndex(x) = SetIndex(b) /\ Holds(cache, x, w))
    BY <1>1, <1>4, BlockParts DEF Holds
  <2>2. \A x \in Nat \ {b} :
          /\ Hit(cache', x) <=> /\ Hit(cache, x)
                                /\ ~(SetIndex(x) = SetIndex(b) /\ Holds(cache, x, w))
          /\ Hit(cache', x) => LineOf(cache', x) = LineOf(cache, x)
    BY <1>1, <1>5, PlacedFinds
  <2>3. QED
    BY <1>1, <2>1, <2>2
<1>8. residentBlocks' = residentBlocks
  <2>1. residentBlocks' = {x \in Blocks : Hit(cache', x)}
    BY DEF residentBlocks, Hit, Matching
  <2>2. Hit(cache', b)
    BY <1>6 DEF Hit, Matching
  <2>3. QED
    BY <1>7, <2>1, <2>2 DEF residentBlocks
<1>9. unwrittenBlocks' = WB!Stored(b, op, unwrittenBlocks)
  <2>1. ASSUME NEW x \in Blocks
        PROVE  x \in unwrittenBlocks' <=> x \in WB!Stored(b, op, unwrittenBlocks)
    <3>1. x \in unwrittenBlocks' <=> x \in residentBlocks /\ LineOf(cache', x).dirty
      BY <1>8 DEF unwrittenBlocks, LineOf, get_line, Hit, Matching
    <3>2. CASE x = b
      BY <1>6, <3>1, <3>2 DEF WB!Stored, unwrittenBlocks, residentBlocks
    <3>3. CASE x # b
      BY <1>7, <3>1, <3>3 DEF WB!Stored, unwrittenBlocks, residentBlocks
    <3>4. QED
      BY <3>2, <3>3
  <2>2. unwrittenBlocks' \subseteq Blocks
    BY <1>8 DEF unwrittenBlocks, residentBlocks
  <2>3. WB!Stored(b, op, unwrittenBlocks) \subseteq Blocks
    BY DEF WB!Stored, unwrittenBlocks, residentBlocks
  <2>4. QED
    BY <2>1, <2>2, <2>3
<1>10. QED
  BY <1>2, <1>3, <1>8, <1>9 DEF WB!HitAccess, HitOutcome, residentBlocks

(* A miss fills a line that holds no block, in a set with room left, or    *)
(* evicts the block of a line of a full set and counts it by its dirty bit *)
(* (cache.c:250-303).                                                      *)
LEMMA MissRefines ==
  ASSUME RInv, NEW b \in Blocks, NEW op \in Operations, ~Hit(cache, b),
         select_line(cache, b) # NoLine,
         cache' = access_data(cache, b, op)
  PROVE  WB!FillAccess(b, op) \/ WB!EvictAccess(b, op)
<1> DEFINE s == SetIndex(b)
           w == select_line(cache, b)
           old == cache.sets[s][w]
           e == Address(s, old.tag)
<1>1. /\ cache \in CacheState({ZeroBlock}) /\ OneLine(cache) /\ b \in Nat
      /\ Blocks \subseteq Nat /\ s \in Sets
  BY RInvFacts, IndexType
<1>2. cache' = handle_miss(check_hit(cache, b, op), b, op, NoData)
  BY DEF access_data
<1>3. MissOutcome({ZeroBlock}, cache, b, op, NoData)
  BY <1>1, MissEffect
<1>4. /\ w \in Ways
      /\ old.valid => \A v \in Ways : cache.sets[s][v].valid
  BY SelectLineChoice DEF Victim
<1>5. Placed(cache, cache', b, w)
  <2>1. \A v \in Ways : ~Holds(cache, b, v)
    BY DEF Hit, Matching, Holds
  <2>2. QED
    BY <1>2, <1>3, <1>4, <2>1 DEF MissOutcome, Placed, Holds
<1>6. Hit(cache', b) /\ LineOf(cache', b).dirty = (op = WRITE)
  <2>1. Hit(cache', b) /\ get_line(cache', b) = w
    BY <1>1, <1>5, PlacedFinds
  <2>2. QED
    BY <1>2, <1>3, <2>1 DEF MissOutcome, LineOf
<1>7. \A x \in Blocks \ {b} :
        /\ Hit(cache', x) <=> Hit(cache, x) /\ ~(s = SetIndex(x) /\ Holds(cache, x, w))
        /\ Hit(cache', x) => LineOf(cache', x) = LineOf(cache, x)
  <2>1. \A x \in Nat \ {b} :
          /\ Hit(cache', x) <=> /\ Hit(cache, x)
                                /\ ~(SetIndex(x) = SetIndex(b) /\ Holds(cache, x, w))
          /\ Hit(cache', x) => LineOf(cache', x) = LineOf(cache, x)
    BY <1>1, <1>5, PlacedFinds
  <2>2. QED
    BY <1>1, <2>1
<1>8. /\ residentBlocks' = {x \in Blocks : Hit(cache', x)}
      /\ unwrittenBlocks' = {x \in Blocks : Hit(cache', x) /\ LineOf(cache', x).dirty}
  BY DEF residentBlocks, unwrittenBlocks, LineOf, get_line, Hit, Matching
<1>9. /\ b \notin residentBlocks
      /\ WB!Neighbours(b) = {r \in residentBlocks : SetIndex(r) = s}
  BY DEF residentBlocks, WB!Neighbours
<1>10. CASE ~old.valid
  <2>1. Cardinality(WB!Neighbours(b)) < A
    BY <1>1, <1>4, <1>9, <1>10, ResidentsCount
  <2>2. \A x \in Blocks \ {b} : Hit(cache', x) <=> Hit(cache, x)
    BY <1>7, <1>10 DEF Holds
  <2>3. residentBlocks' = residentBlocks \cup {b}
    BY <1>6, <1>8, <2>2 DEF residentBlocks
  <2>4. unwrittenBlocks' = WB!Stored(b, op, unwrittenBlocks)
    BY <1>6, <1>7, <1>8, <1>9, <2>2 DEF unwrittenBlocks, residentBlocks, WB!Stored
  <2>5. /\ cache'.hit_count = cache.hit_count
        /\ cache'.miss_count = cache.miss_count + 1
        /\ cache'.dirty_eviction_count = cache.dirty_eviction_count
        /\ cache'.clean_eviction_count = cache.clean_eviction_count
    BY <1>1, <1>2, <1>3, <1>10 DEF MissOutcome, CacheState
  <2>6. QED
    BY <1>9, <2>1, <2>3, <2>4, <2>5, SameCardinality DEF WB!FillAccess
<1>11. CASE old.valid
  <2>1. Cardinality(WB!Neighbours(b)) = A
    BY <1>1, <1>4, <1>9, <1>11, ResidentsCount
  <2>2. e \in Blocks /\ SetIndex(e) = s /\ Holds(cache, e, w)
    <3>1. e \in Blocks /\ old.tag \in Nat
      BY <1>1, <1>4, <1>11 DEF RInv, LinesHoldBlocks, ValidLines, CacheState, Line
    <3>2. QED
      BY <1>1, <1>11, <3>1, AddressParts DEF Holds
  <2>3. Hit(cache, e) /\ LineOf(cache, e) = old
    BY <1>4, <2>2, RInvFacts DEF LineOf
  <2>4. e \in WB!Neighbours(b)
    BY <1>9, <2>2, <2>3 DEF residentBlocks
  <2>5. ASSUME NEW x \in Blocks
        PROVE  s = SetIndex(x) /\ Holds(cache, x, w) <=> x = e
    BY <1>1, <1>11, <2>2, BlockParts DEF Holds
  <2>6. \A x \in Blocks \ {b} : Hit(cache', x) <=> Hit(cache, x) /\ x # e
    BY <1>7, <2>5
  <2>7. residentBlocks' = (residentBlocks \ {e}) \cup {b}
    BY <1>6, <1>8, <1>9, <2>6 DEF residentBlocks
  <2>8. unwrittenBlocks' = WB!Stored(b, op, unwrittenBlocks \ {e})
    BY <1>6, <1>7, <1>8, <1>9, <2>6 DEF unwrittenBlocks, residentBlocks, WB!Stored
  <2>9. e \in unwrittenBlocks <=> old.dirty
    BY <2>2, <2>3 DEF unwrittenBlocks, residentBlocks
  <2>10. /\ cache'.hit_count = cache.hit_count
         /\ cache'.miss_count = cache.miss_count + 1
         /\ IF e \in unwrittenBlocks
              THEN /\ cache'.dirty_eviction_count = cache.dirty_eviction_count + 1
                   /\ cache'.clean_eviction_count = cache.clean_eviction_count
              ELSE /\ cache'.clean_eviction_count = cache.clean_eviction_count + 1
                   /\ cache'.dirty_eviction_count = cache.dirty_eviction_count
    BY <1>1, <1>2, <1>3, <1>11, <2>9 DEF MissOutcome, CacheState
  <2> HIDE DEF e
  <2>11. QED
    BY <1>9, <2>1, <2>4, <2>7, <2>8, <2>10, SameCardinality DEF WB!EvictAccess
<1>12. QED
  BY <1>10, <1>11

(* A call only ever brings in a block of the trace.                        *)
LEMMA LinesHoldBlocksKept ==
  ASSUME RInv, NEW b \in Blocks, NEW op, Access(b, op)
  PROVE  LinesHoldBlocks'
<1>1. CASE AccessCrashes(cache, b)
  BY <1>1 DEF Access, RInv, LinesHoldBlocks, ValidLines
<1>2. CASE ~AccessCrashes(cache, b)
  <2>1. AccessOutcome(b, op) /\ cache' = access_data(cache, b, op)
    BY <1>2, AccessEffect DEF RInv, IInv, Access
  <2>2. Address(SetIndex(b), Tag(b)) = b
    BY BlockParts, RInvFacts
  <2>3. ASSUME NEW t \in Sets, NEW v \in ValidLines(t)'
        PROVE  Address(t, cache'.sets[t][v].tag) \in Blocks
    <3>1. v \in Ways /\ cache'.sets[t][v].valid
      BY DEF ValidLines
    <3>2. CASE t = SetIndex(b) /\ v = LineFor(cache, b)
      BY <2>1, <2>2, <3>2 DEF AccessOutcome
    <3>3. CASE ~(t = SetIndex(b) /\ v = LineFor(cache, b))
      BY <2>1, <3>1, <3>3 DEF AccessOutcome, RInv, LinesHoldBlocks, ValidLines
    <3>4. QED
      BY <3>2, <3>3
  <2>4. QED
    BY <2>3 DEF LinesHoldBlocks
<1>3. QED
  BY <1>1, <1>2

(* A call is an access of the abstract cache to the same block with the    *)
(* same operation, or crashes and changes nothing the abstract cache has.  *)
LEMMA AccessRefines ==
  ASSUME RInv, NEW b \in Blocks, NEW op \in Operations, Access(b, op)
  PROVE  [WB!Next]_WB!vars
<1>1. CASE AccessCrashes(cache, b)
  <2>1. UNCHANGED <<cache, call>>
    BY <1>1 DEF Access
  <2>2. UNCHANGED <<call, residentBlocks, unwrittenBlocks>>
    BY <2>1 DEF residentBlocks, unwrittenBlocks, LineOf, get_line, Hit, Matching
  <2>3. QED
    BY <2>1, <2>2 DEF WB!vars
<1>2. CASE ~AccessCrashes(cache, b)
  <2>1. /\ cache' = access_data(cache, b, op)
        /\ call' = [block |-> b, op |-> op]
    BY <1>2 DEF Access
  <2>2. WB!HitAccess(b, op) \/ WB!FillAccess(b, op) \/ WB!EvictAccess(b, op)
    <3>1. CASE Hit(cache, b)
      BY <2>1, <3>1, HitRefines
    <3>2. CASE ~Hit(cache, b)
      <4>1. select_line(cache, b) # NoLine
        BY <1>2, <3>2 DEF AccessCrashes
      <4>2. QED
        BY <2>1, <3>2, <4>1, MissRefines
    <3>3. QED
      BY <3>1, <3>2
  <2>3. QED
    BY <2>1, <2>2 DEF WB!Next, WB!Access
<1>3. QED
  BY <1>1, <1>2

(* Whatever the geometry and the trace, csim counts hits, misses and clean *)
(* and dirty evictions as a write-back, write-allocate cache does that has *)
(* no lines, no stamps and no ways: a block only leaves a full set, and is *)
(* counted dirty exactly when it was stored to since it came in.           *)
THEOREM CsimIsWriteBackCache == Spec => ImplementsWriteBack
<1>1. Init => LinesHoldBlocks /\ WB!Init
  <2> SUFFICES ASSUME Init
               PROVE  LinesHoldBlocks /\ WB!Init
    OBVIOUS
  <2>1. \A s \in Sets, w \in Ways : ~cache.sets[s][w].valid
    BY DEF Init, create_cache
  <2>2. LinesHoldBlocks
    BY <2>1 DEF LinesHoldBlocks, ValidLines
  <2>3. \A b \in Blocks : ~Hit(cache, b)
    BY <2>1, IndexType, CacheAssumption DEF Hit, Matching
  <2>4. residentBlocks = {} /\ unwrittenBlocks = {}
    BY <2>3 DEF residentBlocks, unwrittenBlocks
  <2>5. QED
    BY <2>2, <2>4 DEF WB!Init, Init, create_cache
<1>2. IInv /\ LinesHoldBlocks /\ [Next]_vars => LinesHoldBlocks' /\ [WB!Next]_WB!vars
  <2> SUFFICES ASSUME RInv, [Next]_vars
               PROVE  LinesHoldBlocks' /\ [WB!Next]_WB!vars
    BY DEF RInv
  <2>1. CASE Next
    <3>1. PICK b \in Blocks : \E op \in Operations : Access(b, op)
      BY <2>1 DEF Next, Load, Store, Modify, ModifyWrite, Operations
    <3>2. PICK op \in Operations : Access(b, op)
      BY <3>1
    <3>3. QED
      BY <3>2, LinesHoldBlocksKept, AccessRefines
  <2>2. CASE UNCHANGED vars
    BY <2>2 DEF vars, RInv, LinesHoldBlocks, ValidLines, WB!vars, residentBlocks,
                unwrittenBlocks, LineOf, get_line, Hit, Matching
  <2>3. QED
    BY <2>1, <2>2
<1>3. QED
  BY Invariance, <1>1, <1>2, PTL DEF Spec, WB!Spec, ImplementsWriteBack
=============================================================================
