----------------------- MODULE TranslationCacheProofs -----------------------
(***************************************************************************)
(* Proofs about the translation cache, for every capacity, pool size,      *)
(* threshold and set of addresses.                                         *)
(***************************************************************************)
EXTENDS TranslationCache, FiniteSetTheorems, WellFoundedInduction, TLAPS

\* The inductive invariant.  Type correctness, disjointness of code and
\* distinctness of stamps need one another: a new block is disjoint from the
\* old ones because the buffer it came in was, and that one because all code
\* lies below the bump pointer.
CacheInv ==
    /\ CacheTypeOK
    /\ BlocksDisjoint
    /\ PendingDisjoint
    /\ StampsDistinct
    /\ HotMatchesHits

-----------------------------------------------------------------------------
(* Maps                                                                    *)

\* What the map invariants of the cache say of a map m, a bump pointer and a
\* counter.
GoodMap(m, used, counter) ==
    /\ DOMAIN m \subseteq PCs
    /\ m \in [DOMAIN m -> BlockInfo]
    /\ \A p \in DOMAIN m : /\ m[p].host_code + m[p].host_code_size <= used
                           /\ m[p].last_access <= counter
                           /\ m[p].is_hot <=> m[p].hit_count >= HOT_THRESHOLD
    /\ \A p, q \in DOMAIN m :
          p # q => /\ Apart(m[p].host_code, m[p].host_code_size,
                            m[q].host_code, m[q].host_code_size)
                   /\ m[p].last_access # m[q].last_access

\* CacheInv splits into the scalars' types, GoodMap of the map and the
\* pending buffer's part.
LEMMA InvSplit ==
    CacheInv <=> /\ GoodMap(block_map, code_pool_used, access_counter)
                 /\ code_pool_used \in 0..PoolSize
                 /\ access_counter \in 0..MaxAccess
                 /\ pending \in Buffer \cup {NoBuffer}
                 /\ PendingDisjoint
BY DEF CacheInv, GoodMap, CacheTypeOK, BlocksDisjoint, StampsDistinct, HotMatchesHits

\* A touched block has the same code, the next stamp, and is hot exactly when
\* its hits say so.
LEMMA TouchedBlock ==
    ASSUME NEW b \in BlockInfo, b.is_hot <=> b.hit_count >= HOT_THRESHOLD,
           access_counter \in Nat
    PROVE  /\ Touched(b) \in BlockInfo
           /\ Touched(b).host_code = b.host_code
           /\ Touched(b).host_code_size = b.host_code_size
           /\ Touched(b).last_access = access_counter + 1
           /\ Touched(b).is_hot <=> Touched(b).hit_count >= HOT_THRESHOLD
<1> USE CacheConstants
<1>1. /\ b.hit_count \in Nat /\ b.hit_count + 1 \in Nat
      /\ access_counter + 1 \in Nat /\ b.is_hot \in BOOLEAN
  BY DEF BlockInfo
<1>2. CASE b.hit_count + 1 >= HOT_THRESHOLD
  <2>1. Touched(b) = [b EXCEPT !.hit_count = b.hit_count + 1,
                               !.last_access = access_counter + 1, !.is_hot = TRUE]
    BY <1>2 DEF Touched
  <2> QED
    BY <1>1, <1>2, <2>1 DEF BlockInfo
<1>3. CASE ~(b.hit_count + 1 >= HOT_THRESHOLD)
  <2>1. Touched(b) = [b EXCEPT !.hit_count = b.hit_count + 1,
                               !.last_access = access_counter + 1, !.is_hot = b.is_hot]
    BY <1>3 DEF Touched
  <2>2. b.is_hot = FALSE
    BY <1>1, <1>3, HOT_THRESHOLD \in Nat DEF CacheConstants
  <2>3. Touched(b) = [b EXCEPT !.hit_count = b.hit_count + 1,
                               !.last_access = access_counter + 1, !.is_hot = FALSE]
    BY <2>1, <2>2
  <2> QED
    BY <1>1, <1>3, <2>3 DEF BlockInfo
<1> QED
  BY <1>2, <1>3

\* evict_cold leaves a part of the map: it erases at most one block and
\* changes none.
LEMMA EvictShrinks ==
    ASSUME NEW m, NEW m2 \in EvictCold(m), m = [p \in DOMAIN m |-> m[p]]
    PROVE  /\ DOMAIN m2 \subseteq DOMAIN m
           /\ m2 = [p \in DOMAIN m2 |-> m[p]]
<1>1. CASE m2 = m
  BY <1>1
<1>2. CASE \E pc \in Coldest(m) : m2 = Restrict(m, DOMAIN m \ {pc})
  BY <1>2 DEF Restrict
<1> QED
  BY <1>1, <1>2 DEF EvictCold

\* Every property GoodMap collects is inherited by a part of the map.
LEMMA EvictKeepsGood ==
    ASSUME NEW m, NEW used, NEW counter, GoodMap(m, used, counter),
           NEW m2 \in EvictCold(m)
    PROVE  GoodMap(m2, used, counter)
<1>1. m = [p \in DOMAIN m |-> m[p]]
  BY DEF GoodMap
<1>2. /\ DOMAIN m2 \subseteq DOMAIN m
      /\ m2 = [p \in DOMAIN m2 |-> m[p]]
  BY <1>1, EvictShrinks
<1>3. \A p \in DOMAIN m2 : m2[p] = m[p]
  BY <1>2
<1> QED
  BY <1>2, <1>3 DEF GoodMap

\* The same for the eviction insert makes.
LEMMA MakeRoomKeepsGood ==
    ASSUME NEW m, NEW used, NEW counter, GoodMap(m, used, counter),
           NEW m2 \in MakeRoom(m)
    PROVE  /\ GoodMap(m2, used, counter)
           /\ DOMAIN m2 \subseteq DOMAIN m
           /\ \A p \in DOMAIN m2 : m2[p] = m[p]
<1>1. m = [p \in DOMAIN m |-> m[p]]
  BY DEF GoodMap
<1>2. CASE m2 \in EvictCold(m)
  BY <1>1, <1>2, EvictKeepsGood, EvictShrinks
<1>3. CASE m2 = m
  BY <1>3
<1> QED
  BY <1>2, <1>3 DEF MakeRoom

-----------------------------------------------------------------------------

\* The empty cache satisfies the invariant.
LEMMA InitInv == CacheInit => CacheInv
BY CacheConstants DEF CacheInit, CacheInv, CacheTypeOK, BlocksDisjoint,
   PendingDisjoint, StampsDistinct, HotMatchesHits, NoBuffer, Buffer

\* A lookup that hits keeps the invariant.
LEMMA LookupInv == ASSUME CacheInv, NEW pc \in PCs, Lookup(pc) PROVE CacheInv'
<1> USE CacheConstants
<1>1. GoodMap(block_map, code_pool_used, access_counter)
  BY InvSplit
<1>2. /\ pc \in DOMAIN block_map
      /\ block_map' = [block_map EXCEPT ![pc] = Touched(block_map[pc])]
      /\ access_counter' = access_counter + 1
      /\ code_pool_used' = code_pool_used
      /\ pending' = pending
      /\ access_counter \in 0..MaxAccess /\ access_counter < MaxAccess
  BY InvSplit DEF Lookup, Hits
<1>3. /\ Touched(block_map[pc]) \in BlockInfo
      /\ Touched(block_map[pc]).host_code = block_map[pc].host_code
      /\ Touched(block_map[pc]).host_code_size = block_map[pc].host_code_size
      /\ Touched(block_map[pc]).last_access = access_counter + 1
      /\ Touched(block_map[pc]).is_hot
            <=> Touched(block_map[pc]).hit_count >= HOT_THRESHOLD
  <2>1. /\ block_map[pc] \in BlockInfo
        /\ block_map[pc].is_hot <=> block_map[pc].hit_count >= HOT_THRESHOLD
        /\ access_counter \in Nat
    BY <1>1, <1>2 DEF GoodMap
  <2> QED
    BY <2>1, TouchedBlock
<1>4. DOMAIN block_map' = DOMAIN block_map
  BY <1>2
<1>5. \A p \in DOMAIN block_map' : block_map'[p] = IF p = pc THEN Touched(block_map[pc]) ELSE block_map[p]
  BY <1>2, <1>1 DEF GoodMap
<1>6. block_map' \in [DOMAIN block_map' -> BlockInfo]
  BY <1>1, <1>2, <1>3 DEF GoodMap
<1>7. \A p \in DOMAIN block_map' :
         /\ block_map'[p].host_code = block_map[p].host_code
         /\ block_map'[p].host_code_size = block_map[p].host_code_size
  BY <1>3, <1>4, <1>5
<1>8. \A p \in DOMAIN block_map : /\ block_map[p].last_access \in Nat
                                  /\ block_map[p].last_access <= access_counter
  BY <1>1 DEF GoodMap, BlockInfo
<1>9. GoodMap(block_map', code_pool_used', access_counter')
  <2>1. \A p \in DOMAIN block_map' :
           /\ block_map'[p].host_code + block_map'[p].host_code_size <= code_pool_used'
           /\ block_map'[p].last_access <= access_counter'
           /\ block_map'[p].is_hot <=> block_map'[p].hit_count >= HOT_THRESHOLD
    BY <1>1, <1>2, <1>3, <1>4, <1>5, <1>7, <1>8 DEF GoodMap
  <2>2. \A p, q \in DOMAIN block_map' :
           p # q => block_map'[p].last_access # block_map'[q].last_access
    BY <1>1, <1>2, <1>3, <1>4, <1>5, <1>8 DEF GoodMap
  <2>3. \A p, q \in DOMAIN block_map' :
           p # q => Apart(block_map'[p].host_code, block_map'[p].host_code_size,
                          block_map'[q].host_code, block_map'[q].host_code_size)
    BY <1>1, <1>4, <1>7 DEF GoodMap
  <2> QED
    BY <1>1, <1>4, <1>6, <2>1, <2>2, <2>3 DEF GoodMap
<1>10. PendingDisjoint'
  BY <1>2, <1>4, <1>7, InvSplit DEF PendingDisjoint
<1> QED
  <2>1. /\ code_pool_used' \in 0..PoolSize
        /\ access_counter' \in 0..MaxAccess
        /\ pending' \in Buffer \cup {NoBuffer}
    BY <1>2, InvSplit
  <2> QED
    BY <1>9, <1>10, <2>1 DEF GoodMap, CacheInv, CacheTypeOK, BlocksDisjoint, StampsDistinct, HotMatchesHits

\* A change of validity, hits and hotness that keeps code and stamp of every
\* block keeps the map good and its code away from the pending buffer.
LEMMA RelabelKeepsGood ==
    ASSUME NEW m, NEW used, NEW counter, GoodMap(m, used, counter),
           NEW m2, DOMAIN m2 = DOMAIN m, m2 \in [DOMAIN m2 -> BlockInfo],
           \A p \in DOMAIN m : /\ m2[p].host_code = m[p].host_code
                               /\ m2[p].host_code_size = m[p].host_code_size
                               /\ m2[p].last_access = m[p].last_access
                               /\ m2[p].is_hot <=> m2[p].hit_count >= HOT_THRESHOLD
    PROVE  GoodMap(m2, used, counter)
BY DEF GoodMap

\* invalidate, invalidate_range and promote_hot relabel blocks.
LEMMA RelabelInv ==
    ASSUME CacheInv,
           DOMAIN block_map' = DOMAIN block_map,
           block_map' \in [DOMAIN block_map' -> BlockInfo],
           \A p \in DOMAIN block_map :
              /\ block_map'[p].host_code = block_map[p].host_code
              /\ block_map'[p].host_code_size = block_map[p].host_code_size
              /\ block_map'[p].last_access = block_map[p].last_access
              /\ block_map'[p].is_hot <=> block_map'[p].hit_count >= HOT_THRESHOLD,
           UNCHANGED <<code_pool_used, access_counter, pending>>
    PROVE  CacheInv'
<1>1. GoodMap(block_map', code_pool_used', access_counter')
  <2>1. GoodMap(block_map, code_pool_used, access_counter)
    BY InvSplit
  <2>2. GoodMap(block_map', code_pool_used, access_counter)
    BY <2>1, RelabelKeepsGood
  <2> QED
    BY <2>2
<1>2. PendingDisjoint'
  BY InvSplit DEF PendingDisjoint
<1>3. /\ code_pool_used' \in 0..PoolSize
      /\ access_counter' \in 0..MaxAccess
      /\ pending' \in Buffer \cup {NoBuffer}
  BY InvSplit
<1> QED
  BY <1>1, <1>2, <1>3 DEF GoodMap, CacheInv, CacheTypeOK, BlocksDisjoint,
     StampsDistinct, HotMatchesHits

\* Marking a block invalid changes nothing else of it.
LEMMA InvalidatedBlock ==
    ASSUME NEW b \in BlockInfo
    PROVE  /\ Invalidated(b) \in BlockInfo
           /\ Invalidated(b).host_code = b.host_code
           /\ Invalidated(b).host_code_size = b.host_code_size
           /\ Invalidated(b).last_access = b.last_access
           /\ Invalidated(b).is_hot = b.is_hot
           /\ Invalidated(b).hit_count = b.hit_count
BY DEF BlockInfo, Invalidated

\* Promotion makes a block hot and gives it the hits of a hot block.
LEMMA PromotedBlock ==
    ASSUME NEW b \in BlockInfo
    PROVE  /\ Promoted(b) \in BlockInfo
           /\ Promoted(b).host_code = b.host_code
           /\ Promoted(b).host_code_size = b.host_code_size
           /\ Promoted(b).last_access = b.last_access
           /\ Promoted(b).is_hot = TRUE
           /\ Promoted(b).hit_count = HOT_THRESHOLD
BY CacheConstants DEF BlockInfo, Promoted

\* invalidate keeps the invariant.
LEMMA InvalidateInv == ASSUME CacheInv, NEW pc \in PCs, Invalidate(pc) PROVE CacheInv'
<1>1. /\ \A p \in DOMAIN block_map : block_map[p] \in BlockInfo
      /\ \A p \in DOMAIN block_map :
            block_map[p].is_hot <=> block_map[p].hit_count >= HOT_THRESHOLD
  BY DEF CacheInv, CacheTypeOK, HotMatchesHits
<1>2. /\ block_map' = [block_map EXCEPT ![pc] = Invalidated(block_map[pc])]
      /\ pc \in DOMAIN block_map
      /\ UNCHANGED <<code_pool_used, access_counter, pending>>
  BY DEF Invalidate
<1>3. block_map \in [DOMAIN block_map -> BlockInfo]
  BY DEF CacheInv, CacheTypeOK
<1>4. \A p \in DOMAIN block_map :
         block_map'[p] = IF p = pc THEN Invalidated(block_map[pc]) ELSE block_map[p]
  BY <1>2, <1>3
<1>5. DOMAIN block_map' = DOMAIN block_map
  BY <1>2
<1>6. block_map' \in [DOMAIN block_map' -> BlockInfo]
  BY <1>1, <1>2, <1>3, InvalidatedBlock
<1>7. \A p \in DOMAIN block_map :
         /\ block_map'[p].host_code = block_map[p].host_code
         /\ block_map'[p].host_code_size = block_map[p].host_code_size
         /\ block_map'[p].last_access = block_map[p].last_access
         /\ block_map'[p].is_hot <=> block_map'[p].hit_count >= HOT_THRESHOLD
  BY <1>1, <1>4, InvalidatedBlock
<1> QED
  BY <1>2, <1>5, <1>6, <1>7, RelabelInv

\* invalidate_range keeps the invariant.
LEMMA InvalidateRangeInv ==
    ASSUME CacheInv, NEW start \in PCs, NEW end \in PCs, InvalidateRange(start, end)
    PROVE  CacheInv'
<1>1. /\ \A p \in DOMAIN block_map : block_map[p] \in BlockInfo
      /\ \A p \in DOMAIN block_map :
            block_map[p].is_hot <=> block_map[p].hit_count >= HOT_THRESHOLD
  BY DEF CacheInv, CacheTypeOK, HotMatchesHits
<1>2. /\ block_map' = [p \in DOMAIN block_map |->
                          IF p >= start /\ p < end THEN Invalidated(block_map[p])
                          ELSE block_map[p]]
      /\ UNCHANGED <<code_pool_used, access_counter, pending>>
  BY DEF InvalidateRange
<1>3. DOMAIN block_map' = DOMAIN block_map
  BY <1>2
<1>4. \A p \in DOMAIN block_map :
         \/ block_map'[p] = Invalidated(block_map[p])
         \/ block_map'[p] = block_map[p]
  BY <1>2
<1>5. \A p \in DOMAIN block_map :
         /\ block_map'[p] \in BlockInfo
         /\ block_map'[p].host_code = block_map[p].host_code
         /\ block_map'[p].host_code_size = block_map[p].host_code_size
         /\ block_map'[p].last_access = block_map[p].last_access
         /\ block_map'[p].is_hot <=> block_map'[p].hit_count >= HOT_THRESHOLD
  BY <1>1, <1>4, InvalidatedBlock
<1>6. block_map' \in [DOMAIN block_map' -> BlockInfo]
  BY <1>2, <1>3, <1>5
<1> QED
  BY <1>2, <1>3, <1>5, <1>6, RelabelInv

\* promote_hot keeps the invariant.
LEMMA PromoteHotInv == ASSUME CacheInv, NEW pc \in PCs, PromoteHot(pc) PROVE CacheInv'
<1>1. /\ \A p \in DOMAIN block_map : block_map[p] \in BlockInfo
      /\ \A p \in DOMAIN block_map :
            block_map[p].is_hot <=> block_map[p].hit_count >= HOT_THRESHOLD
  BY DEF CacheInv, CacheTypeOK, HotMatchesHits
<1>2. /\ block_map' = [block_map EXCEPT ![pc] = Promoted(block_map[pc])]
      /\ pc \in DOMAIN block_map
      /\ UNCHANGED <<code_pool_used, access_counter, pending>>
  BY DEF PromoteHot
<1>3. block_map \in [DOMAIN block_map -> BlockInfo]
  BY DEF CacheInv, CacheTypeOK
<1>4. \A p \in DOMAIN block_map :
         block_map'[p] = IF p = pc THEN Promoted(block_map[pc]) ELSE block_map[p]
  BY <1>2, <1>3
<1>5. DOMAIN block_map' = DOMAIN block_map
  BY <1>2
<1>6. block_map' \in [DOMAIN block_map' -> BlockInfo]
  BY <1>1, <1>2, <1>3, PromotedBlock
<1>7. \A p \in DOMAIN block_map :
         /\ block_map'[p].host_code = block_map[p].host_code
         /\ block_map'[p].host_code_size = block_map[p].host_code_size
         /\ block_map'[p].last_access = block_map[p].last_access
         /\ block_map'[p].is_hot <=> block_map'[p].hit_count >= HOT_THRESHOLD
  <2>1. Promoted(block_map[pc]).is_hot
           <=> Promoted(block_map[pc]).hit_count >= HOT_THRESHOLD
    <3>1. block_map[pc] \in BlockInfo
      BY <1>1, <1>2
    <3>2. /\ Promoted(block_map[pc]).is_hot = TRUE
          /\ Promoted(block_map[pc]).hit_count = HOT_THRESHOLD
      BY <3>1, PromotedBlock
    <3>3. HOT_THRESHOLD >= HOT_THRESHOLD
      BY CacheConstants
    <3> QED
      BY <3>2, <3>3
  <2> QED
    BY <1>1, <1>2, <1>4, <2>1, PromotedBlock, ZenonT(60)
<1> QED
  BY <1>2, <1>5, <1>6, <1>7, RelabelInv


\* alloc_host_code with room: the buffer starts where all code so far ends.
LEMMA AllocInv ==
    ASSUME CacheInv, NEW pc \in PCs, NEW size \in Nat \ {0}, AllocHostCode(pc, size)
    PROVE  CacheInv'
<1> USE CacheConstants
<1>1. /\ GoodMap(block_map, code_pool_used, access_counter)
      /\ code_pool_used \in 0..PoolSize
      /\ access_counter \in 0..MaxAccess
  BY InvSplit
<1>2. /\ code_pool_used + size <= PoolSize
      /\ pending' = [arm_pc |-> pc, host_code |-> code_pool_used, size |-> size]
      /\ code_pool_used' = code_pool_used + size
      /\ block_map' = block_map
      /\ access_counter' = access_counter
  BY DEF AllocHostCode, Fits
<1>3. size \in Nat \ {0} /\ code_pool_used' \in 0..PoolSize
  BY <1>1, <1>2
<1>4. \A p \in DOMAIN block_map :
         /\ block_map[p].host_code \in Nat
         /\ block_map[p].host_code_size \in Nat
         /\ block_map[p].host_code + block_map[p].host_code_size <= code_pool_used
  BY <1>1 DEF GoodMap, BlockInfo
<1>5. GoodMap(block_map', code_pool_used', access_counter')
  <2>1. \A p \in DOMAIN block_map :
           block_map[p].host_code + block_map[p].host_code_size <= code_pool_used'
    BY <1>1, <1>2, <1>3, <1>4
  <2> QED
    BY <1>1, <1>2, <2>1 DEF GoodMap
<1>6. /\ pending'.host_code = code_pool_used
      /\ pending'.size = size
      /\ pending' \in Buffer
  BY <1>1, <1>2, <1>3 DEF Buffer
<1>7. PendingDisjoint'
  BY <1>1, <1>2, <1>3, <1>4, <1>6 DEF PendingDisjoint, Apart
<1> QED
  BY <1>1, <1>2, <1>3, <1>5, <1>6, <1>7 DEF GoodMap, CacheInv, CacheTypeOK,
     BlocksDisjoint, StampsDistinct, HotMatchesHits

\* Eviction, on its own or in an allocation that fails, keeps the invariant.
LEMMA EvictInv ==
    ASSUME CacheInv, block_map' \in EvictCold(block_map),
           UNCHANGED <<code_pool_used, access_counter, pending>>
    PROVE  CacheInv'
<1>1. /\ GoodMap(block_map, code_pool_used, access_counter)
      /\ PendingDisjoint
      /\ code_pool_used' \in 0..PoolSize
      /\ access_counter' \in 0..MaxAccess
      /\ pending' \in Buffer \cup {NoBuffer}
  BY InvSplit
<1>2. GoodMap(block_map', code_pool_used', access_counter')
  BY <1>1, EvictKeepsGood
<1>3. /\ DOMAIN block_map' \subseteq DOMAIN block_map
      /\ \A p \in DOMAIN block_map' : block_map'[p] = block_map[p]
  <2>1. block_map = [p \in DOMAIN block_map |-> block_map[p]]
    BY <1>1 DEF GoodMap
  <2> QED
    BY <2>1, EvictShrinks
<1>4. PendingDisjoint'
  BY <1>1, <1>3 DEF PendingDisjoint
<1> QED
  BY <1>1, <1>2, <1>4 DEF GoodMap, CacheInv, CacheTypeOK, BlocksDisjoint,
     StampsDistinct, HotMatchesHits

\* insert: the new block takes over the pending buffer, which is apart from all
\* code, and a stamp later than all stamps.
LEMMA InsertInv == ASSUME CacheInv, NEW size, Insert(size) PROVE CacheInv'
<1> USE CacheConstants
<1>1. /\ GoodMap(block_map, code_pool_used, access_counter)
      /\ PendingDisjoint
      /\ code_pool_used \in 0..PoolSize
      /\ access_counter \in 0..MaxAccess
      /\ pending \in Buffer
      /\ pending # NoBuffer
  BY InvSplit DEF Insert
<1>2. PICK m \in MakeRoom(block_map) :
         block_map' = Put(m, pending.arm_pc, Fresh(pending.host_code, size))
  BY DEF Insert
<1>3. /\ size \in 1..pending.size
      /\ access_counter < MaxAccess
      /\ access_counter' = access_counter + 1
      /\ code_pool_used' = code_pool_used
      /\ pending' = NoBuffer
  BY DEF Insert
<1>4. /\ GoodMap(m, code_pool_used, access_counter)
      /\ DOMAIN m \subseteq DOMAIN block_map
      /\ \A p \in DOMAIN m : m[p] = block_map[p]
  BY <1>1, MakeRoomKeepsGood
<1> DEFINE new == Fresh(pending.host_code, size)
           key == pending.arm_pc
<1>5. /\ key \in PCs
      /\ pending.host_code \in Nat /\ pending.size \in Nat /\ size \in Nat \ {0}
      /\ size <= pending.size
  BY <1>1, <1>3 DEF Buffer
<1>6. /\ new \in BlockInfo
      /\ new.host_code = pending.host_code
      /\ new.host_code_size = size
      /\ new.last_access = access_counter + 1
      /\ new.is_hot = FALSE
      /\ new.hit_count = 0
  BY <1>1, <1>5 DEF Fresh, BlockInfo
<1>7. ~(0 >= HOT_THRESHOLD)
  OBVIOUS
<1> HIDE DEF new, key
<1>8. /\ DOMAIN block_map' = DOMAIN m \cup {key}
      /\ \A p \in DOMAIN block_map' : block_map'[p] = IF p = key THEN new ELSE m[p]
      /\ block_map' = [p \in DOMAIN m \cup {key} |-> IF p = key THEN new ELSE m[p]]
  BY <1>2 DEF Put, new, key
<1>9. \A p \in DOMAIN m :
         /\ m[p] \in BlockInfo
         /\ m[p].host_code \in Nat
         /\ m[p].host_code_size \in Nat
         /\ m[p].last_access \in Nat
         /\ m[p].host_code + m[p].host_code_size <= code_pool_used
         /\ m[p].last_access <= access_counter
         /\ m[p].is_hot <=> m[p].hit_count >= HOT_THRESHOLD
         /\ Apart(pending.host_code, pending.size, m[p].host_code, m[p].host_code_size)
  BY <1>1, <1>4 DEF GoodMap, BlockInfo, PendingDisjoint
<1>10. pending.host_code + size <= code_pool_used
  BY <1>1, <1>5 DEF PendingDisjoint
<1>11. \A p \in DOMAIN m :
          Apart(new.host_code, new.host_code_size, m[p].host_code, m[p].host_code_size)
  BY <1>5, <1>6, <1>9 DEF Apart
<1>12. /\ DOMAIN block_map' \subseteq PCs
       /\ block_map' \in [DOMAIN block_map' -> BlockInfo]
  BY <1>4, <1>5, <1>6, <1>8, <1>9 DEF GoodMap, key
<1>13. \A p \in DOMAIN block_map' :
          /\ block_map'[p].host_code + block_map'[p].host_code_size <= code_pool_used'
          /\ block_map'[p].last_access <= access_counter'
  BY <1>1, <1>3, <1>5, <1>6, <1>8, <1>9, <1>10
<1>14. \A p \in DOMAIN block_map' :
          block_map'[p].is_hot <=> block_map'[p].hit_count >= HOT_THRESHOLD
  BY <1>6, <1>7, <1>8, <1>9
<1>15. \A p, q \in DOMAIN block_map' :
          p # q => Apart(block_map'[p].host_code, block_map'[p].host_code_size,
                         block_map'[q].host_code, block_map'[q].host_code_size)
  <2>1. \A p, q \in DOMAIN m :
           p # q => Apart(m[p].host_code, m[p].host_code_size,
                          m[q].host_code, m[q].host_code_size)
    BY <1>4 DEF GoodMap
  <2>2. \A p \in DOMAIN m :
           Apart(m[p].host_code, m[p].host_code_size, new.host_code, new.host_code_size)
    BY <1>11 DEF Apart
  <2> QED
    BY <1>8, <1>11, <2>1, <2>2
<1>16. \A p, q \in DOMAIN block_map' :
          p # q => block_map'[p].last_access # block_map'[q].last_access
  BY <1>1, <1>4, <1>6, <1>8, <1>9 DEF GoodMap
<1> QED
  BY <1>1, <1>3, <1>12, <1>13, <1>14, <1>15, <1>16 DEF CacheInv, CacheTypeOK,
     BlocksDisjoint, PendingDisjoint, StampsDistinct, HotMatchesHits

-----------------------------------------------------------------------------

\* Every step of the cache keeps the invariant.
LEMMA NextInv == CacheInv /\ [CacheNext]_cacheVars => CacheInv'
<1> SUFFICES ASSUME CacheInv, [CacheNext]_cacheVars PROVE CacheInv'
  OBVIOUS
<1>1. ASSUME NEW pc \in PCs, Lookup(pc) PROVE CacheInv'
  BY <1>1, LookupInv
<1>2. ASSUME NEW pc \in PCs, NEW size \in AllocSizes, AllocHostCode(pc, size) PROVE CacheInv'
  BY <1>2, AllocInv, CacheConstants
<1>3. ASSUME NEW size \in AllocSizes, AllocHostCodeFails(size) PROVE CacheInv'
  BY <1>3, EvictInv DEF AllocHostCodeFails
<1>4. ASSUME NEW size \in 1..pending.size, Insert(size) PROVE CacheInv'
  BY <1>4, InsertInv
<1>5. ASSUME NEW pc \in PCs, Invalidate(pc) PROVE CacheInv'
  BY <1>5, InvalidateInv
<1>6. ASSUME NEW start \in PCs, NEW end \in PCs, InvalidateRange(start, end) PROVE CacheInv'
  BY <1>6, InvalidateRangeInv
<1>7. ASSUME NEW pc \in PCs, PromoteHot(pc) PROVE CacheInv'
  BY <1>7, PromoteHotInv
<1>8. CASE EvictColdBlock
  BY <1>8, EvictInv DEF EvictColdBlock
<1>9. CASE UNCHANGED cacheVars
  BY <1>9 DEF cacheVars, CacheInv, CacheTypeOK, BlocksDisjoint, PendingDisjoint,
     StampsDistinct, HotMatchesHits
<1> QED
  BY <1>1, <1>2, <1>3, <1>4, <1>5, <1>6, <1>7, <1>8, <1>9 DEF CacheNext

\* The inductive invariant holds in every reachable state.
THEOREM CacheInvariant == CacheSpec => []CacheInv
BY InitInv, NextInv, PTL DEF CacheSpec

\* Type correctness of the cache's state, for every set of parameters.
THEOREM CacheTypeCorrect == CacheSpec => []CacheTypeOK
BY CacheInvariant, PTL DEF CacheInv

\* Code of different blocks never overlaps and stays below the bump pointer of
\* alloc_host_code, through eviction, invalidation and re-insertion.
THEOREM CodeNeverOverlaps == CacheSpec => []BlocksDisjoint
BY CacheInvariant, PTL DEF CacheInv

\* The buffer being emitted into is apart from all code that can be looked up.
THEOREM EmissionIsSafe == CacheSpec => []PendingDisjoint
BY CacheInvariant, PTL DEF CacheInv

\* LRU stamps are pairwise distinct, so evict_cold has one possible victim.
THEOREM StampsAreDistinct == CacheSpec => []StampsDistinct
BY CacheInvariant, PTL DEF CacheInv

\* Hotness and hit count agree in every reachable state.
THEOREM HotnessIsConsistent == CacheSpec => []HotMatchesHits
BY CacheInvariant, PTL DEF CacheInv

-----------------------------------------------------------------------------
(* Eviction                                                                *)

\* What evict_cold may take out of a good map: its coldest block, which is the
\* only one because stamps are distinct.
LEMMA EvictedIsColdest ==
    ASSUME NEW m, NEW used, NEW counter, GoodMap(m, used, counter),
           NEW m2 \in EvictCold(m), NEW p \in DOMAIN m \ DOMAIN m2
    PROVE  /\ p \in Cold(m)
           /\ \A q \in Cold(m) \ {p} : m[p].last_access < m[q].last_access
<1>1. PICK e \in Coldest(m) : m2 = Restrict(m, DOMAIN m \ {e})
  BY DEF EvictCold
<1>2. p = e
  BY <1>1 DEF Restrict
<1>3. p \in Cold(m) /\ \A q \in Cold(m) : m[p].last_access <= m[q].last_access
  BY <1>1, <1>2 DEF Coldest
<1>4. \A q \in Cold(m) : q \in DOMAIN m
  BY DEF Cold
<1>5. \A q \in DOMAIN m : m[q].last_access \in Nat
  BY DEF GoodMap, BlockInfo
<1>6. \A q \in Cold(m) \ {p} : m[p].last_access # m[q].last_access
  BY <1>3, <1>4 DEF GoodMap
<1> QED
  BY <1>3, <1>4, <1>5, <1>6

\* One step of the cache loses at most the least recently used cold block.
LEMMA StepEvictsLeastRecent ==
    ASSUME CacheInv, [CacheNext]_cacheVars, NEW p \in DOMAIN block_map \ DOMAIN block_map'
    PROVE  /\ p \in Cold(block_map)
           /\ \A q \in Cold(block_map) \ {p} :
                 block_map[p].last_access < block_map[q].last_access
<1>1. GoodMap(block_map, code_pool_used, access_counter)
  BY InvSplit
<1>2. CASE block_map' \in EvictCold(block_map)
  BY <1>1, <1>2, EvictedIsColdest
<1>3. CASE \E size \in 1..pending.size : Insert(size)
  <2>1. PICK m \in MakeRoom(block_map), size \in 1..pending.size :
           block_map' = Put(m, pending.arm_pc, Fresh(pending.host_code, size))
    BY <1>3 DEF Insert
  <2>2. p \in DOMAIN block_map \ DOMAIN m
    BY <2>1 DEF Put
  <2>3. m \in EvictCold(block_map)
    BY <2>1, <2>2 DEF MakeRoom
  <2> QED
    BY <1>1, <2>2, <2>3, EvictedIsColdest
<1>4. CASE DOMAIN block_map' = DOMAIN block_map
  BY <1>4
<1>5. \/ block_map' \in EvictCold(block_map)
      \/ \E size \in 1..pending.size : Insert(size)
      \/ DOMAIN block_map' = DOMAIN block_map
  BY DEF CacheNext, cacheVars, Lookup, AllocHostCode, AllocHostCodeFails, Invalidate,
     InvalidateRange, PromoteHot, EvictColdBlock
<1> QED
  BY <1>2, <1>3, <1>4, <1>5

\* A block leaves the cache only as the unique least recently used one among
\* the valid, cold blocks: hot and invalidated blocks are never erased.
THEOREM EvictionIsLRU == CacheSpec => EvictsLeastRecent
<1>1. CacheInv /\ [CacheNext]_cacheVars =>
        [\A p \in DOMAIN block_map \ DOMAIN block_map' :
            /\ p \in Cold(block_map)
            /\ \A q \in Cold(block_map) \ {p} :
                  block_map[p].last_access < block_map[q].last_access]_cacheVars
  BY StepEvictsLeastRecent
<1> QED
  BY <1>1, CacheInvariant, PTL DEF CacheSpec, EvictsLeastRecent

-----------------------------------------------------------------------------
(* Growth                                                                  *)

\* A good map with a cold valid block has a coldest one: evict_cold finds a
\* victim whenever there is one to find.
LEMMA ColdestExists ==
    ASSUME NEW m, NEW used, NEW counter, GoodMap(m, used, counter), Cold(m) # {}
    PROVE  Coldest(m) # {}
<1> DEFINE T == {m[p].last_access : p \in Cold(m)}
<1>1. T \subseteq Nat /\ T # {}
  BY DEF GoodMap, BlockInfo, Cold
<1> HIDE DEF T
<1>2. PICK t \in T : \A u \in T : ~(<<u, t>> \in OpToRel(<, Nat))
  BY <1>1, WFMin, NatLessThanWellFounded
<1>3. \A u \in T : t <= u
  <2> SUFFICES ASSUME NEW u \in T, u < t PROVE FALSE
    BY <1>1
  <2>1. <<u, t>> \in Nat \X Nat /\ <<u, t>>[1] < <<u, t>>[2]
    BY <1>1
  <2>2. <<u, t>> \in {ss \in Nat \X Nat : ss[1] < ss[2]}
    BY <2>1
  <2>3. <<u, t>> \in OpToRel(<, Nat)
    BY <2>2, Zenon DEF OpToRel
  <2> QED
    BY <1>2, <2>3
<1>4. PICK p \in Cold(m) : t = m[p].last_access
  BY DEF T
<1>5. \A q \in Cold(m) : m[q].last_access \in T
  BY DEF T
<1> QED
  BY <1>3, <1>4, <1>5 DEF Coldest

\* The cold valid blocks of m are at most one.
AtMostOneCold(m) == \A p, q \in Cold(m) : p = q

\* Growth stated without counting the cold blocks.
GrowthInv == Cardinality(DOMAIN block_map) > Capacity => AtMostOneCold(block_map)

\* A part of a map has no more blocks, and no new cold ones.
LEMMA PartGrowth ==
    ASSUME NEW m, NEW m2, DOMAIN m \subseteq PCs, DOMAIN m2 \subseteq DOMAIN m,
           Cold(m2) \subseteq Cold(m),
           Cardinality(DOMAIN m) > Capacity => AtMostOneCold(m)
    PROVE  Cardinality(DOMAIN m2) > Capacity => AtMostOneCold(m2)
<1>1. IsFiniteSet(DOMAIN m)
  BY CacheConstants, FS_Subset
<1>2. /\ Cardinality(DOMAIN m2) <= Cardinality(DOMAIN m)
      /\ Cardinality(DOMAIN m) \in Nat
      /\ Cardinality(DOMAIN m2) \in Nat
  BY <1>1, FS_Subset, FS_CardinalityType
<1> QED
  BY <1>2, CacheConstants DEF AtMostOneCold

\* No operation but insert makes a block cold and valid that was not, and none
\* but insert adds one.
LEMMA NoNewCold ==
    ASSUME CacheInv, [CacheNext]_cacheVars, ~(\E size \in 1..pending.size : Insert(size))
    PROVE  /\ DOMAIN block_map' \subseteq DOMAIN block_map
           /\ Cold(block_map') \subseteq Cold(block_map)
<1>1. /\ block_map \in [DOMAIN block_map -> BlockInfo]
      /\ block_map = [p \in DOMAIN block_map |-> block_map[p]]
  BY DEF CacheInv, CacheTypeOK
<1>2. ASSUME NEW pc \in PCs, Lookup(pc)
      PROVE  /\ DOMAIN block_map' = DOMAIN block_map
             /\ Cold(block_map') \subseteq Cold(block_map)
  <2>1. /\ pc \in DOMAIN block_map
        /\ block_map[pc].is_valid
        /\ block_map' = [block_map EXCEPT ![pc] = Touched(block_map[pc])]
    BY <1>2 DEF Lookup, Hits
  <2>2. /\ DOMAIN block_map' = DOMAIN block_map
        /\ \A p \in DOMAIN block_map :
              block_map'[p] = IF p = pc THEN Touched(block_map[pc]) ELSE block_map[p]
    BY <1>1, <2>1
  <2>3. block_map[pc].is_hot => Touched(block_map[pc]).is_hot
    <3>1. block_map[pc] \in BlockInfo
      BY <1>1, <2>1
    <3> QED
      BY <3>1 DEF Touched, BlockInfo
  <2> QED
    BY <2>1, <2>2, <2>3 DEF Cold
<1>3. ASSUME NEW pc \in PCs, Invalidate(pc)
      PROVE  /\ DOMAIN block_map' = DOMAIN block_map
             /\ Cold(block_map') \subseteq Cold(block_map)
  <2>1. /\ DOMAIN block_map' = DOMAIN block_map
        /\ \A p \in DOMAIN block_map :
              block_map'[p] = IF p = pc THEN Invalidated(block_map[pc]) ELSE block_map[p]
    BY <1>1, <1>3 DEF Invalidate
  <2>2. \A p \in DOMAIN block_map : block_map[p] \in BlockInfo
    BY <1>1
  <2>3. \A p \in DOMAIN block_map : Invalidated(block_map[p]).is_valid = FALSE
    BY <2>2 DEF Invalidated, BlockInfo
  <2> QED
    BY <2>1, <2>3 DEF Cold
<1>4. ASSUME NEW start \in PCs, NEW end \in PCs, InvalidateRange(start, end)
      PROVE  /\ DOMAIN block_map' = DOMAIN block_map
             /\ Cold(block_map') \subseteq Cold(block_map)
  <2>1. /\ DOMAIN block_map' = DOMAIN block_map
        /\ \A p \in DOMAIN block_map : \/ block_map'[p] = Invalidated(block_map[p])
                                        \/ block_map'[p] = block_map[p]
    BY <1>1, <1>4 DEF InvalidateRange
  <2>2. \A p \in DOMAIN block_map : block_map[p] \in BlockInfo
    BY <1>1
  <2>3. \A p \in DOMAIN block_map : Invalidated(block_map[p]).is_valid = FALSE
    BY <2>2 DEF Invalidated, BlockInfo
  <2> QED
    BY <2>1, <2>3 DEF Cold
<1>5. ASSUME NEW pc \in PCs, PromoteHot(pc)
      PROVE  /\ DOMAIN block_map' = DOMAIN block_map
             /\ Cold(block_map') \subseteq Cold(block_map)
  <2>1. /\ pc \in DOMAIN block_map
        /\ DOMAIN block_map' = DOMAIN block_map
        /\ \A p \in DOMAIN block_map :
              block_map'[p] = IF p = pc THEN Promoted(block_map[pc]) ELSE block_map[p]
    BY <1>1, <1>5 DEF PromoteHot
  <2>2. Promoted(block_map[pc]).is_hot = TRUE
    BY <1>1, <2>1, PromotedBlock
  <2> QED
    BY <2>1, <2>2 DEF Cold
<1>6. ASSUME block_map' \in EvictCold(block_map)
      PROVE  /\ DOMAIN block_map' \subseteq DOMAIN block_map
             /\ Cold(block_map') \subseteq Cold(block_map)
  <2>1. /\ DOMAIN block_map' \subseteq DOMAIN block_map
        /\ \A p \in DOMAIN block_map' : block_map'[p] = block_map[p]
    BY <1>1, <1>6, EvictShrinks
  <2> QED
    BY <2>1 DEF Cold
<1>7. CASE block_map' = block_map
  BY <1>7
<1> QED
  BY <1>2, <1>3, <1>4, <1>5, <1>6, <1>7 DEF CacheNext, cacheVars, AllocHostCode,
     AllocHostCodeFails, EvictColdBlock

\* insert at or over capacity erases a cold block if there is one, so that the
\* new block is the only cold one above the capacity.
LEMMA InsertGrowth ==
    ASSUME CacheInv, GrowthInv, NEW size \in 1..pending.size, Insert(size)
    PROVE  GrowthInv'
<1> USE CacheConstants
<1>1. GoodMap(block_map, code_pool_used, access_counter)
  BY InvSplit
<1>2. PICK m \in MakeRoom(block_map) :
         block_map' = Put(m, pending.arm_pc, Fresh(pending.host_code, size))
  BY DEF Insert
<1> DEFINE key == pending.arm_pc
           new == Fresh(pending.host_code, size)
<1> HIDE DEF key, new
<1>3. /\ DOMAIN block_map' = DOMAIN m \cup {key}
      /\ \A p \in DOMAIN m \ {key} : block_map'[p] = m[p]
  BY <1>2 DEF Put, key, new
<1>4. Cold(block_map') \subseteq Cold(m) \cup {key}
  BY <1>3 DEF Cold
<1>5. DOMAIN m \subseteq DOMAIN block_map /\ DOMAIN block_map \subseteq PCs
  BY <1>1, <1>2, MakeRoomKeepsGood DEF GoodMap
<1>6. /\ IsFiniteSet(DOMAIN block_map) /\ IsFiniteSet(DOMAIN m)
      /\ Cardinality(DOMAIN block_map) \in Nat /\ Cardinality(DOMAIN m) \in Nat
      /\ Cardinality(DOMAIN m \cup {key}) \in Nat
      /\ Cardinality(DOMAIN m \cup {key}) <= Cardinality(DOMAIN m) + 1
  BY <1>5, FS_Subset, FS_CardinalityType, FS_AddElement
<1>7. CASE ~(Cardinality(DOMAIN block_map) >= Capacity)
  <2>1. m = block_map
    BY <1>2, <1>7 DEF MakeRoom
  <2>2. Cardinality(DOMAIN block_map') <= Capacity
    BY <1>3, <1>6, <1>7, <2>1
  <2> QED
    BY <1>3, <1>6, <2>2 DEF GrowthInv
<1>8. CASE Cardinality(DOMAIN block_map) >= Capacity /\ Cold(block_map) = {}
  <2>1. Coldest(block_map) = {}
    BY <1>8 DEF Coldest
  <2>2. m = block_map
    BY <1>2, <2>1 DEF MakeRoom, EvictCold
  <2> QED
    BY <1>4, <1>8, <2>2 DEF GrowthInv, AtMostOneCold
<1>9. CASE Cardinality(DOMAIN block_map) >= Capacity /\ Cold(block_map) # {}
  <2>1. Coldest(block_map) # {}
    BY <1>1, <1>9, ColdestExists
  <2>2. PICK e \in Coldest(block_map) : m = Restrict(block_map, DOMAIN block_map \ {e})
    BY <1>2, <1>9, <2>1 DEF MakeRoom, EvictCold
  <2>3. e \in DOMAIN block_map /\ e \in Cold(block_map)
    BY DEF Coldest, Cold
  <2>4. /\ DOMAIN m = DOMAIN block_map \ {e}
        /\ \A p \in DOMAIN m : m[p] = block_map[p]
    BY <2>2 DEF Restrict
  <2>5. Cardinality(DOMAIN m) = Cardinality(DOMAIN block_map) - 1
    BY <1>6, <2>3, <2>4, FS_RemoveElement
  <2>6. Cold(m) \subseteq Cold(block_map) \ {e}
    BY <2>4 DEF Cold
  <2>7. CASE Cardinality(DOMAIN block_map) = Capacity
    <3>1. Cardinality(DOMAIN block_map') <= Capacity
      BY <1>3, <1>6, <2>5, <2>7
    <3> QED
      BY <1>3, <1>6, <3>1 DEF GrowthInv
  <2>8. CASE Cardinality(DOMAIN block_map) > Capacity
    <3>1. AtMostOneCold(block_map)
      BY <2>8 DEF GrowthInv
    <3>2. Cold(m) = {}
      BY <2>3, <2>6, <3>1 DEF AtMostOneCold
    <3> QED
      BY <1>4, <3>2 DEF GrowthInv, AtMostOneCold
  <2> QED
    BY <1>6, <1>9, <2>7, <2>8
<1> QED
  BY <1>7, <1>8, <1>9

\* Blocks beyond the capacity are hot or invalidated, all but at most one: the
\* single eviction per insert is enough to bound the cold part of the map.
THEOREM GrowthIsBounded == CacheSpec => []OvergrowthIsPinned
<1>1. CacheInit => GrowthInv
  BY FS_EmptySet, CacheConstants DEF CacheInit, GrowthInv, AtMostOneCold, Cold
<1>2. CacheInv /\ GrowthInv /\ [CacheNext]_cacheVars => GrowthInv'
  <2> SUFFICES ASSUME CacheInv, GrowthInv, [CacheNext]_cacheVars PROVE GrowthInv'
    OBVIOUS
  <2>1. CASE \E size \in 1..pending.size : Insert(size)
    BY <2>1, InsertGrowth
  <2>2. CASE ~(\E size \in 1..pending.size : Insert(size))
    <3>1. /\ DOMAIN block_map' \subseteq DOMAIN block_map
          /\ Cold(block_map') \subseteq Cold(block_map)
      BY <2>2, NoNewCold
    <3>2. DOMAIN block_map \subseteq PCs
      BY DEF CacheInv, CacheTypeOK
    <3> QED
      BY <3>1, <3>2, PartGrowth DEF GrowthInv
  <2> QED
    BY <2>1, <2>2
<1>3. CacheInv /\ GrowthInv => OvergrowthIsPinned
  <2> SUFFICES ASSUME CacheInv, AtMostOneCold(block_map)
               PROVE  Cardinality(Cold(block_map)) <= 1
    BY DEF GrowthInv, OvergrowthIsPinned
  <2>1. CASE Cold(block_map) = {}
    BY <2>1, FS_EmptySet
  <2>2. CASE Cold(block_map) # {}
    <3>1. PICK p \in Cold(block_map) : TRUE
      BY <2>2
    <3>2. Cold(block_map) = {p}
      BY <3>1 DEF AtMostOneCold
    <3>3. Cardinality({p}) = 1
      BY FS_Singleton, Zenon
    <3> QED
      BY <3>2, <3>3
  <2> QED
    BY <2>1, <2>2
<1> QED
  BY <1>1, <1>2, <1>3, CacheInvariant, PTL DEF CacheSpec

=============================================================================
