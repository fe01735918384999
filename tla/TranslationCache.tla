-------------------------- MODULE TranslationCache --------------------------
(***************************************************************************)
(* The FAE-Cache of bbarm64 (src/src/cache/translation_cache.{hpp,cpp}): a *)
(* map from guest PC to the metadata of a translated block, a pool of      *)
(* executable memory that is only ever bumped, and an access counter that  *)
(* orders blocks for LRU eviction.                                         *)
(*                                                                         *)
(* Host addresses are offsets from code_pool_.  `pending' is the buffer a  *)
(* client has taken with alloc_host_code and not yet handed to insert: it  *)
(* is the local `host_code' of ExecEngine::translate_block.  The 64-bit    *)
(* counters cannot wrap in a run of the emulator, so they are naturals;    *)
(* MaxAccess bounds the counter for TLC.                                   *)
(***************************************************************************)
EXTENDS Integers, FiniteSets, Functions

CONSTANTS PCs,            \* guest addresses a block may start at
          Capacity,       \* capacity_
          PoolSize,       \* code_pool_size_, in units of code memory
          AllocSizes,     \* sizes asked of alloc_host_code
          HOT_THRESHOLD,  \* hits that make a block hot
          MaxAccess       \* bound on access_counter_

ASSUME CacheConstants ==
    /\ PCs \subseteq Nat
    /\ IsFiniteSet(PCs)
    /\ Capacity \in Nat
    /\ PoolSize \in Nat
    /\ AllocSizes \subseteq Nat \ {0}
    /\ HOT_THRESHOLD \in Nat \ {0}
    /\ MaxAccess \in Nat

VARIABLES block_map, code_pool_used, access_counter, pending

cacheVars == <<block_map, code_pool_used, access_counter, pending>>

BlockInfo == [host_code      : Nat,
              host_code_size : Nat \ {0},
              hit_count      : Nat,
              last_access    : Nat,
              is_valid       : BOOLEAN,
              is_hot         : BOOLEAN]

Buffer == [arm_pc : PCs, host_code : Nat, size : Nat \ {0}]

NoBuffer == [arm_pc |-> -1, host_code |-> 0, size |-> 0]

-----------------------------------------------------------------------------

Put(m, pc, info) == [p \in DOMAIN m \cup {pc} |-> IF p = pc THEN info ELSE m[p]]

Hits(pc) == pc \in DOMAIN block_map /\ block_map[pc].is_valid

\* Mutant: the stamp is taken before the counter is incremented.
TouchedPostIncrement(info) ==
    [info EXCEPT !.hit_count   = @ + 1,
                 !.last_access = access_counter,
                 !.is_hot      = IF info.hit_count + 1 >= HOT_THRESHOLD THEN TRUE ELSE @]

Touched(info) ==
    [info EXCEPT !.hit_count   = @ + 1,
                 !.last_access = access_counter + 1,
                 !.is_hot      = IF info.hit_count + 1 >= HOT_THRESHOLD THEN TRUE ELSE @]

Invalidated(info) == [info EXCEPT !.is_valid = FALSE]

\* Mutant: promote_hot forgets the hit count.
PromotedFlagOnly(info) == [info EXCEPT !.is_hot = TRUE]

Promoted(info) == [info EXCEPT !.is_hot = TRUE, !.hit_count = HOT_THRESHOLD]

Fresh(host_code, size) ==
    [host_code |-> host_code, host_code_size |-> size, hit_count |-> 0,
     last_access |-> access_counter + 1, is_valid |-> TRUE, is_hot |-> FALSE]

Cold(m) == {pc \in DOMAIN m : m[pc].is_valid /\ ~m[pc].is_hot}

\* Mutant: the scan keeps the most recently used block.
ColdestReversed(m) == {pc \in Cold(m) : \A q \in Cold(m) : m[pc].last_access >= m[q].last_access}

\* The blocks the scan of evict_cold may end with: unordered_map fixes no
\* order of iteration, so every minimum of last_access is possible.
Coldest(m) == {pc \in Cold(m) : \A q \in Cold(m) : m[pc].last_access <= m[q].last_access}

\* The maps evict_cold may leave: at most one block is erased.
EvictCold(m) ==
    IF Coldest(m) = {} THEN {m}
    ELSE {Restrict(m, DOMAIN m \ {pc}) : pc \in Coldest(m)}

\* Mutant: insert makes room only once the capacity is exceeded.
MakeRoomLate(m) == IF Cardinality(DOMAIN m) > Capacity THEN EvictCold(m) ELSE {m}

MakeRoom(m) == IF Cardinality(DOMAIN m) >= Capacity THEN EvictCold(m) ELSE {m}

\* Mutant: the size of the request is not counted.
FitsIgnoringSize(size) == code_pool_used <= PoolSize

Fits(size) == code_pool_used + size <= PoolSize

-----------------------------------------------------------------------------

CacheInit ==
    /\ block_map = [p \in {} |-> NoBuffer]
    /\ code_pool_used = 0
    /\ access_counter = 0
    /\ pending = NoBuffer

Lookup(pc) ==
    /\ access_counter < MaxAccess
    /\ Hits(pc)
    /\ block_map' = [block_map EXCEPT ![pc] = Touched(@)]
    /\ access_counter' = access_counter + 1
    /\ UNCHANGED <<code_pool_used, pending>>

\* Mutant: the pool is bumped by one unit less than was handed out.
AllocHostCodeShortBump(pc, size) ==
    /\ pending = NoBuffer
    /\ Fits(size)
    /\ pending' = [arm_pc |-> pc, host_code |-> code_pool_used, size |-> size]
    /\ code_pool_used' = code_pool_used + size - 1
    /\ UNCHANGED <<block_map, access_counter>>

AllocHostCode(pc, size) ==
    /\ pending = NoBuffer
    /\ Fits(size)
    /\ pending' = [arm_pc |-> pc, host_code |-> code_pool_used, size |-> size]
    /\ code_pool_used' = code_pool_used + size
    /\ UNCHANGED <<block_map, access_counter>>

\* Mutant: the failing allocation "compacts" by lowering the bump pointer by
\* the size of the request, wherever the evicted block's code was.
AllocHostCodeFailsRewind(size) ==
    /\ pending = NoBuffer
    /\ ~Fits(size)
    /\ block_map' \in EvictCold(block_map)
    /\ code_pool_used' = IF code_pool_used >= size THEN code_pool_used - size ELSE 0
    /\ UNCHANGED <<access_counter, pending>>

\* A full pool evicts one block, finds the pool as full as before (eviction
\* gives no code memory back) and returns nullptr.
AllocHostCodeFails(size) ==
    /\ pending = NoBuffer
    /\ ~Fits(size)
    /\ block_map' \in EvictCold(block_map)
    /\ UNCHANGED <<code_pool_used, access_counter, pending>>

Insert(size) ==
    /\ access_counter < MaxAccess
    /\ pending # NoBuffer
    /\ size \in 1..pending.size
    /\ \E m \in MakeRoom(block_map) :
          block_map' = Put(m, pending.arm_pc, Fresh(pending.host_code, size))
    /\ access_counter' = access_counter + 1
    /\ pending' = NoBuffer
    /\ UNCHANGED code_pool_used

Invalidate(pc) ==
    /\ pc \in DOMAIN block_map
    /\ block_map' = [block_map EXCEPT ![pc] = Invalidated(@)]
    /\ UNCHANGED <<code_pool_used, access_counter, pending>>

InvalidateRange(start, end) ==
    /\ block_map' = [pc \in DOMAIN block_map |->
                        IF pc >= start /\ pc < end THEN Invalidated(block_map[pc])
                        ELSE block_map[pc]]
    /\ UNCHANGED <<code_pool_used, access_counter, pending>>

PromoteHot(pc) ==
    /\ pc \in DOMAIN block_map
    /\ block_map' = [block_map EXCEPT ![pc] = Promoted(@)]
    /\ UNCHANGED <<code_pool_used, access_counter, pending>>

EvictColdBlock ==
    /\ block_map' \in EvictCold(block_map)
    /\ UNCHANGED <<code_pool_used, access_counter, pending>>

CacheNext ==
    \/ \E pc \in PCs : Lookup(pc)
    \/ \E pc \in PCs, size \in AllocSizes : ~Hits(pc) /\ AllocHostCode(pc, size)
    \/ \E size \in AllocSizes : AllocHostCodeFails(size)
    \/ \E size \in 1..pending.size : Insert(size)
    \/ \E pc \in PCs : Invalidate(pc)
    \/ \E start, end \in PCs : InvalidateRange(start, end)
    \/ \E pc \in PCs : PromoteHot(pc)
    \/ EvictColdBlock

CacheSpec == CacheInit /\ [][CacheNext]_cacheVars

-----------------------------------------------------------------------------
(* Properties                                                              *)

\* Type invariant of the cache's state.
CacheTypeOK ==
    /\ DOMAIN block_map \subseteq PCs
    /\ block_map \in [DOMAIN block_map -> BlockInfo]
    /\ code_pool_used \in 0..PoolSize
    /\ access_counter \in 0..MaxAccess
    /\ pending \in Buffer \cup {NoBuffer}

Apart(lo1, n1, lo2, n2) == lo1 + n1 <= lo2 \/ lo2 + n2 <= lo1

\* Two blocks never share a byte of code memory, whatever was evicted,
\* invalidated or retranslated in between, and all of it lies in the used part
\* of the pool: running one block can never run into another one's code.
BlocksDisjoint ==
    /\ \A p \in DOMAIN block_map :
          block_map[p].host_code + block_map[p].host_code_size <= code_pool_used
    /\ \A p, q \in DOMAIN block_map :
          p # q => Apart(block_map[p].host_code, block_map[p].host_code_size,
                         block_map[q].host_code, block_map[q].host_code_size)

\* The buffer that translate_block is emitting into overlaps no block of the
\* map, so code emission cannot corrupt code that can still be looked up.
PendingDisjoint ==
    pending # NoBuffer =>
      /\ pending.host_code + pending.size <= code_pool_used
      /\ \A p \in DOMAIN block_map :
            Apart(pending.host_code, pending.size,
                  block_map[p].host_code, block_map[p].host_code_size)

\* No two blocks carry the same LRU stamp and none is from the future: the
\* scan of evict_cold has exactly one answer although the hash map it walks
\* has no order.
StampsDistinct ==
    /\ \A p \in DOMAIN block_map : block_map[p].last_access <= access_counter
    /\ \A p, q \in DOMAIN block_map :
          p # q => block_map[p].last_access # block_map[q].last_access

\* is_hot and hit_count tell the same story, across promotion by lookup,
\* promotion by promote_hot and re-insertion of an invalidated block.
HotMatchesHits ==
    \A p \in DOMAIN block_map :
        block_map[p].is_hot <=> block_map[p].hit_count >= HOT_THRESHOLD

\* The map outgrows its capacity only by blocks eviction may not touch (hot or
\* invalidated ones): insert evicts a single block, yet cold valid blocks
\* never accumulate past the capacity.
OvergrowthIsPinned ==
    Cardinality(DOMAIN block_map) > Capacity => Cardinality(Cold(block_map)) <= 1

\* A block leaves the map only as the least recently used among the valid,
\* cold ones; a hot block or an invalidated one never does.
EvictsLeastRecent ==
    [][\A p \in DOMAIN block_map \ DOMAIN block_map' :
          /\ p \in Cold(block_map)
          /\ \A q \in Cold(block_map) \ {p} :
                block_map[p].last_access < block_map[q].last_access]_cacheVars
=============================================================================
