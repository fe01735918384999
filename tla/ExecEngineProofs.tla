-------------------------- MODULE ExecEngineProofs --------------------------
(***************************************************************************)
(* Proofs about the execution engine, for every program, capacity, pool    *)
(* size, block length and page size.                                       *)
(***************************************************************************)
EXTENDS ExecEngine, TranslationCacheProofs

-----------------------------------------------------------------------------
(* What translate_block collects                                           *)

\* A number that is cut at limit or ends a straight-line run exists, so that
\* StraightRun is well defined: it is the length of the run.
LEMMA StraightRunFact ==
    ASSUME NEW m, NEW a \in Int, NEW limit \in Nat
    PROVE  /\ StraightRun(m, a, limit) \in 0..limit
           /\ StraightFor(m, a, StraightRun(m, a, limit))
           /\ \/ StraightRun(m, a, limit) = limit
              \/ ~StraightFor(m, a, StraightRun(m, a, limit) + 1)
<1> DEFINE T == {n \in 0..limit : n = limit \/ ~StraightFor(m, a, n + 1)}
<1>1. T \subseteq Nat /\ limit \in T
  OBVIOUS
<1>2. PICK n \in T : \A k \in T : ~(<<k, n>> \in OpToRel(<, Nat))
  <2> HIDE DEF T
  <2> QED
    BY <1>1, WFMin, NatLessThanWellFounded
<1>3. \A k \in T : ~(k < n)
  <2> SUFFICES ASSUME NEW k \in T, k < n PROVE FALSE
    OBVIOUS
  <2>1. k \in Nat /\ n \in Nat
    BY <1>1
  <2>2. <<k, n>> \in {ss \in Nat \X Nat : ss[1] < ss[2]}
    BY <2>1
  <2>3. <<k, n>> \in OpToRel(<, Nat)
    BY <2>2, Zenon DEF OpToRel
  <2> QED
    BY <1>2, <2>3
<1>4. StraightFor(m, a, n)
  <2>1. CASE n = 0
    BY <2>1 DEF StraightFor
  <2>2. CASE n # 0
    <3>1. n - 1 \in 0..limit /\ n - 1 < n /\ n - 1 # limit /\ (n - 1) + 1 = n
      BY <2>2
    <3> QED
      BY <1>3, <3>1
  <2> QED
    BY <2>1, <2>2
<1>5. \E k \in 0..limit : StraightFor(m, a, k) /\ (k = limit \/ ~StraightFor(m, a, k + 1))
  BY <1>4
<1> QED
  BY <1>5 DEF StraightRun

HostCode == [arm_pc : Int, instrs : Seq(Instruction)]

\* translate_block's fetch is a run of mapped instructions as memory holds
\* them, in which only the last may be a branch.
LEMMA FetchedCode ==
    ASSUME NEW m, CodeMemory(m, PCs), NEW a \in Int
    PROVE  /\ FetchLen(m, a) \in 0..MaxBlock
           /\ Fetched(m, a) \in HostCode
           /\ Fetched(m, a).arm_pc = a
           /\ Len(Fetched(m, a).instrs) = FetchLen(m, a)
           /\ \A k \in 1..FetchLen(m, a) :
                 /\ a + INSTR_SIZE * (k - 1) \in DOMAIN m
                 /\ Fetched(m, a).instrs[k] = m[a + INSTR_SIZE * (k - 1)]
                 /\ IsBranch(Fetched(m, a).instrs[k]) => k = FetchLen(m, a)
<1> DEFINE n == StraightRun(m, a, MaxBlock)
           len == FetchLen(m, a)
<1>1. /\ n \in 0..MaxBlock
      /\ \A k \in 0..n-1 : a + INSTR_SIZE * k \in DOMAIN m /\ IsStraight(m[a + INSTR_SIZE * k])
  BY StraightRunFact, EngineConstants DEF StraightFor
<1>2. \/ len = n
      \/ len = n + 1 /\ n < MaxBlock /\ a + INSTR_SIZE * n \in DOMAIN m
  BY DEF FetchLen
<1> HIDE DEF n, len
<1>3. len \in 0..MaxBlock /\ n \in Nat /\ len \in Nat
  BY <1>1, <1>2, EngineConstants
<1>4. \A k \in 1..len : a + INSTR_SIZE * (k - 1) \in DOMAIN m
  <2> SUFFICES ASSUME NEW k \in 1..len PROVE a + INSTR_SIZE * (k - 1) \in DOMAIN m
    OBVIOUS
  <2>1. k - 1 \in 0..n-1 \/ (k - 1 = n /\ len = n + 1)
    BY <1>2, <1>3
  <2> QED
    BY <1>1, <1>2, <2>1
<1>5. \A k \in 1..len : IsBranch(m[a + INSTR_SIZE * (k - 1)]) => k = len
  <2> SUFFICES ASSUME NEW k \in 1..len, k # len PROVE ~IsBranch(m[a + INSTR_SIZE * (k - 1)])
    OBVIOUS
  <2>1. k - 1 \in 0..n-1
    BY <1>2, <1>3
  <2> QED
    BY <1>1, <2>1 DEF IsStraight
<1> DEFINE is == [k \in 1..len |-> m[a + INSTR_SIZE * (k - 1)]]
<1>6. Fetched(m, a) = [arm_pc |-> a, instrs |-> is]
  BY DEF Fetched, len
<1>7. is \in Seq(Instruction) /\ Len(is) = len
  <2>1. \A k \in 1..len : m[a + INSTR_SIZE * (k - 1)] \in Instruction
    BY <1>4 DEF CodeMemory
  <2> QED
    BY <1>3, <2>1
<1>8. \A k \in 1..len : is[k] = m[a + INSTR_SIZE * (k - 1)]
  OBVIOUS
<1> HIDE DEF is
<1>9. /\ Fetched(m, a).arm_pc = a /\ Fetched(m, a).instrs = is
      /\ Fetched(m, a) \in HostCode
  BY <1>6, <1>7 DEF HostCode
<1> QED
  BY <1>3, <1>4, <1>5, <1>7, <1>8, <1>9 DEF len

-----------------------------------------------------------------------------
(* The inductive invariant                                                 *)

\* What the places of the loop's thread say of the rest of the state: guest
\* code is entered only while nothing has crashed or exited and an iteration is
\* left; a buffer is pending exactly from alloc_host_code to insert, for the
\* block at pc, which has an instruction at least; host code runs inside the used
\* part of the pool.
Control ==
    /\ pool \in [0..PoolSize-1 -> HostCode]
    /\ exec \in [host_code : Nat, at : Nat]
    /\ phase \in {"translate", "emit", "interp", "exec"} => flags = {} /\ iter < MaxIter
    /\ phase \in {"translate", "emit", "interp"} => pc \in DOMAIN mem
    /\ pending # NoBuffer <=> phase = "emit"
    /\ phase = "emit" => pending.arm_pc = pc /\ FetchLen(mem, pc) > 0
    /\ phase = "exec" => /\ exec.host_code < code_pool_used
                         /\ exec.at \in 1..Len(Code.instrs) + 1

\* The inductive invariant of the engine: that of the cache it drives, types,
\* control, and the shape of the cached blocks.
EngineInv == CacheInv /\ EngineTypeOK /\ Control /\ BlocksWellFormed

\* The invariant of the cache depends on the cache alone.
LEMMA CacheUnchanged == ASSUME CacheInv, UNCHANGED cacheVars PROVE CacheInv'
BY DEF cacheVars, CacheInv, CacheTypeOK, BlocksDisjoint, PendingDisjoint,
   StampsDistinct, HotMatchesHits

\* The engine starts in the invariant.
LEMMA EngineInitInv == Init => EngineInv
<1> SUFFICES ASSUME Init PROVE EngineInv
  OBVIOUS
<1> USE CacheConstants, EngineConstants
<1>1. CacheInv
  BY InitInv DEF Init
<1>2. EngineTypeOK
  BY DEF Init, EngineTypeOK, Idle, CacheInit
<1>3. NoCode \in HostCode
  BY DEF NoCode, HostCode
<1>4. Control
  BY <1>3 DEF Init, Control, Idle, CacheInit
<1>5. BlocksWellFormed
  BY DEF Init, CacheInit, BlocksWellFormed
<1> QED
  BY <1>1, <1>2, <1>4, <1>5 DEF EngineInv

\* The code being executed lies in the pool, and so does the instruction.
LEMMA CodeTyped ==
    ASSUME EngineInv, phase = "exec"
    PROVE  /\ exec.host_code \in 0..PoolSize-1
           /\ Code \in HostCode
           /\ Len(Code.instrs) \in Nat
           /\ exec.at <= Len(Code.instrs) => Cur \in Instruction
           /\ GuestAt \in Int
           /\ Fallthrough \in Int
<1> USE CacheConstants
<1>1. exec.host_code \in 0..PoolSize-1 /\ exec.at \in Nat
  BY DEF EngineInv, Control, CacheInv, CacheTypeOK
<1>2. Code \in HostCode
  BY <1>1 DEF EngineInv, Control, Code
<1>3. Code.arm_pc \in Int /\ Code.instrs \in Seq(Instruction) /\ Len(Code.instrs) \in Nat
  BY <1>2 DEF HostCode
<1>4. exec.at <= Len(Code.instrs) => Cur \in Instruction
  BY <1>1, <1>3 DEF Cur, EngineInv, Control
<1> QED
  BY <1>1, <1>2, <1>3, <1>4, SMTT(60) DEF GuestAt, Fallthrough, INSTR_SIZE

\* The map may lose blocks, and update what is not their code.
LEMMA WellFormedKept ==
    ASSUME BlocksWellFormed, pool' = pool,
           \A p \in DOMAIN block_map' :
              p \in DOMAIN block_map /\ block_map'[p].host_code = block_map[p].host_code
    PROVE  BlocksWellFormed'
BY DEF BlocksWellFormed

\* A lookup leaves every block its code.
LEMMA LookedUp ==
    ASSUME CacheInv, Lookup(pc)
    PROVE  \A p \in DOMAIN block_map' :
              p \in DOMAIN block_map /\ block_map'[p].host_code = block_map[p].host_code
<1>1. pc \in DOMAIN block_map /\ block_map' = [block_map EXCEPT ![pc] = Touched(block_map[pc])]
  BY DEF Lookup, Hits
<1>2. /\ block_map[pc] \in BlockInfo
      /\ block_map \in [DOMAIN block_map -> BlockInfo]
  BY <1>1 DEF CacheInv, CacheTypeOK
<1>3. Touched(block_map[pc]).host_code = block_map[pc].host_code
  BY <1>2 DEF Touched, BlockInfo
<1> QED
  BY <1>1, <1>2, <1>3

\* Whatever a system call leaves is a code memory, the same as before where the
\* call does not reach.
LEMMA AfterCallFact ==
    ASSUME NEW m, CodeMemory(m, PCs), NEW a \in DOMAIN m, NEW new \in AfterCall(m, a, PCs, PageSize)
    PROVE  /\ CodeMemory(new, PCs)
           /\ \A b \in DOMAIN m \ CallReaches(m[a], a, PCs, PageSize) : b \in DOMAIN new /\ new[b] = m[b]
<1>1. PICK hit : hit = CallReaches(m[a], a, PCs, PageSize) /\ hit \subseteq PCs
  BY DEF CallReaches
<1>2. Plain \in Instruction /\ Zero \in Instruction
  BY DEF Plain, Zero, Instruction, Ops
<1>3. \/ new = m
      \/ new = [b \in DOMAIN m |-> IF b \in hit THEN Plain ELSE m[b]]
      \/ new = [b \in DOMAIN m \ hit |-> m[b]]
      \/ new = [b \in DOMAIN m \cup hit |-> IF b \in hit THEN Zero ELSE m[b]]
  BY <1>1 DEF AfterCall
<1> QED
  BY <1>1, <1>2, <1>3 DEF CodeMemory

\* Steps of the run loop.
LEMMA RunLoopInv == ASSUME EngineInv, RunLoop PROVE EngineInv'
<1> USE CacheConstants, EngineConstants
<1>1. CASE Stop
  BY <1>1, CacheUnchanged DEF Stop, EngineInv, EngineTypeOK, Control, BlocksWellFormed, cacheVars,
     cpuVars
<1>2. CASE LookupHit
  <2>1. /\ pc \in DOMAIN block_map
        /\ Lookup(pc)
        /\ exec' = [host_code |-> block_map[pc].host_code, at |-> 1]
        /\ phase' = "exec" /\ flags = {} /\ iter < MaxIter
    BY <1>2 DEF LookupHit, Lookup, Hits, Running
  <2>2. CacheInv'
    BY <2>1, LookupInv DEF EngineInv, CacheInv, CacheTypeOK
  <2>3. block_map[pc] \in BlockInfo
    BY <2>1 DEF EngineInv, CacheInv, CacheTypeOK
  <2>4. block_map[pc].host_code \in Nat /\ block_map[pc].host_code < code_pool_used
    <3>1. /\ block_map[pc].host_code + block_map[pc].host_code_size <= code_pool_used
          /\ code_pool_used \in Nat
      BY <2>1 DEF EngineInv, CacheInv, CacheTypeOK, BlocksDisjoint
    <3> QED
      BY <2>3, <3>1 DEF BlockInfo
  <2>5. code_pool_used' = code_pool_used /\ pending' = pending /\ pool' = pool
    BY <1>2 DEF LookupHit, Lookup
  <2>6. exec'.at \in 1..Len(Code'.instrs) + 1
    <3>1. Code' \in HostCode
      BY <2>1, <2>4, <2>5, SMTT(60) DEF Code, EngineInv, Control, CacheInv, CacheTypeOK
    <3>2. Len(Code'.instrs) \in Nat
      BY <3>1 DEF HostCode
    <3> QED
      BY <2>1, <3>2
  <2>7. Control'
    BY <1>2, <2>1, <2>4, <2>5, <2>6 DEF LookupHit, Running, EngineInv, Control, cpuVars
  <2>8. EngineTypeOK'
    BY <1>2, <2>1, <2>4 DEF LookupHit, EngineInv, EngineTypeOK, cpuVars
  <2>9. /\ \A p \in DOMAIN block_map' :
             p \in DOMAIN block_map /\ block_map'[p].host_code = block_map[p].host_code
        /\ pool' = pool
    BY <1>2, LookedUp DEF LookupHit, EngineInv
  <2> QED
    BY <2>2, <2>7, <2>8, <2>9, WellFormedKept DEF EngineInv
<1>3. CASE FetchFault
  BY <1>3, CacheUnchanged DEF FetchFault, HostFault, Running, EngineInv, EngineTypeOK, Control,
     BlocksWellFormed, cacheVars, cpuVars
<1>4. CASE Syscall
  <2>1. pc \in DOMAIN mem /\ CodeMemory(mem, PCs) /\ mem' \in AfterCall(mem, pc, PCs, PageSize)
    BY <1>4 DEF Syscall, Calling, Mapped, EngineInv, EngineTypeOK
  <2>2. CodeMemory(mem', PCs)
    BY <2>1, AfterCallFact
  <2> QED
    BY <1>4, <2>2, CacheUnchanged, SMTT(60) DEF Syscall, Calling, Running, EngineInv, EngineTypeOK, Control,
       BlocksWellFormed, cacheVars, cpuVars, INSTR_SIZE
<1>5. CASE Miss
  BY <1>5, CacheUnchanged DEF Miss, Running, Mapped, EngineInv, EngineTypeOK, Control,
     BlocksWellFormed, cacheVars, cpuVars
<1> QED
  BY <1>1, <1>2, <1>3, <1>4, <1>5 DEF RunLoop

\* A new map of insert holds the old addresses, at most, and the new one.
LEMMA InsertedDomain ==
    ASSUME CacheInv, NEW size, Insert(size)
    PROVE  /\ DOMAIN block_map' \subseteq DOMAIN block_map \cup {pending.arm_pc}
           /\ \A p \in DOMAIN block_map' \ {pending.arm_pc} :
                 p \in DOMAIN block_map /\ block_map'[p] = block_map[p]
           /\ block_map'[pending.arm_pc] = Fresh(pending.host_code, size)
<1>1. PICK m \in MakeRoom(block_map) :
         block_map' = Put(m, pending.arm_pc, Fresh(pending.host_code, size))
  BY DEF Insert
<1>2. /\ DOMAIN m \subseteq DOMAIN block_map
      /\ \A p \in DOMAIN m : m[p] = block_map[p]
  BY InvSplit, MakeRoomKeepsGood
<1> QED
  BY <1>1, <1>2 DEF Put

\* A block's code is in the used part of the pool.
LEMMA BlockCodeTyped ==
    ASSUME EngineInv, NEW p \in DOMAIN block_map
    PROVE  /\ block_map[p].host_code \in 0..PoolSize-1
           /\ pool[block_map[p].host_code] \in HostCode
<1> USE CacheConstants
<1>1. /\ block_map[p] \in BlockInfo /\ p \in PCs
      /\ block_map[p].host_code + block_map[p].host_code_size <= code_pool_used
      /\ code_pool_used \in 0..PoolSize
  BY DEF EngineInv, CacheInv, CacheTypeOK, BlocksDisjoint
<1>2. block_map[p].host_code \in 0..PoolSize-1
  BY <1>1 DEF BlockInfo
<1> QED
  BY <1>2 DEF EngineInv, Control

\* Emitting a block writes into a part of the pool that no block of the map uses.
LEMMA EmittedCode ==
    ASSUME EngineInv, TranslateEmit
    PROVE  /\ Code' = Fetched(mem, pc)
           /\ \A p \in DOMAIN block_map' :
                 \/ p = pc /\ pool'[block_map'[p].host_code] = Fetched(mem, pc)
                 \/ p \in DOMAIN block_map /\ pool'[block_map'[p].host_code] = pool[block_map[p].host_code]
<1> USE CacheConstants
<1>1. /\ pending # NoBuffer /\ pending \in Buffer /\ pending.arm_pc = pc
      /\ PendingDisjoint /\ CacheInv /\ code_pool_used \in 0..PoolSize
      /\ pool \in [0..PoolSize-1 -> HostCode]
  BY DEF TranslateEmit, EngineInv, EngineTypeOK, Control, CacheInv, CacheTypeOK
<1>2. pending.host_code \in 0..PoolSize-1
  BY <1>1 DEF PendingDisjoint, Buffer
<1>3. /\ pool' = [pool EXCEPT ![pending.host_code] = Fetched(mem, pc)]
      /\ Insert(ALLOC)
      /\ exec' = [host_code |-> pending.host_code, at |-> 1]
  BY DEF TranslateEmit
<1>4. /\ pool'[pending.host_code] = Fetched(mem, pc)
      /\ \A h \in 0..PoolSize-1 : h # pending.host_code => pool'[h] = pool[h]
  BY <1>1, <1>2, <1>3
<1>5. ASSUME NEW p \in DOMAIN block_map
      PROVE  block_map[p].host_code # pending.host_code
  <2>1. /\ block_map[p] \in BlockInfo
        /\ Apart(pending.host_code, pending.size,
                 block_map[p].host_code, block_map[p].host_code_size)
    BY <1>1 DEF PendingDisjoint, CacheInv, CacheTypeOK
  <2> QED
    BY <1>1, <2>1 DEF Apart, BlockInfo, Buffer
<1>6. ASSUME NEW p \in DOMAIN block_map'
      PROVE  \/ p = pc /\ pool'[block_map'[p].host_code] = Fetched(mem, pc)
             \/ p \in DOMAIN block_map /\ pool'[block_map'[p].host_code] = pool[block_map[p].host_code]
  <2>1. CASE p = pc
    <3>1. block_map'[p].host_code = pending.host_code
      BY <1>1, <1>3, <2>1, InsertedDomain DEF Fresh
    <3> QED
      BY <1>4, <2>1, <3>1
  <2>2. CASE p # pc
    <3>1. p \in DOMAIN block_map /\ block_map'[p] = block_map[p]
      BY <1>1, <1>3, <1>6, <2>2, InsertedDomain
    <3> QED
      BY <1>4, <1>5, <3>1, BlockCodeTyped
  <2> QED
    BY <2>1, <2>2
<1> QED
  BY <1>3, <1>4, <1>6 DEF Code

\* The new block has the shape of a block, and the others stay.
LEMMA EmitWellFormed == ASSUME EngineInv, TranslateEmit PROVE BlocksWellFormed'
<1>1. /\ CodeMemory(mem, PCs) /\ pc \in Int /\ FetchLen(mem, pc) > 0 /\ MaxBlock \in Nat
  BY EngineConstants DEF TranslateEmit, EngineInv, EngineTypeOK, Control
<1>2. PICK new : new = Fetched(mem, pc) /\ new \in HostCode
  BY <1>1, FetchedCode
<1>3. /\ new.arm_pc = pc /\ Len(new.instrs) \in 1..MaxBlock
      /\ \A k \in DOMAIN new.instrs : IsBranch(new.instrs[k]) => k = Len(new.instrs)
  <2>1. PICK n \in 0..MaxBlock : n = FetchLen(mem, pc) /\ n = Len(new.instrs) /\ n > 0
    BY <1>1, <1>2, FetchedCode
  <2>2. DOMAIN new.instrs = 1..n
    BY <1>2, <2>1 DEF HostCode
  <2>3. new.arm_pc = pc /\ \A k \in 1..n : IsBranch(new.instrs[k]) => k = n
    BY <1>1, <1>2, <2>1, FetchedCode
  <2> QED
    BY <1>1, <2>1, <2>2, <2>3
<1> SUFFICES ASSUME NEW p \in DOMAIN block_map',
                    NEW code, code = pool'[block_map'[p].host_code]
             PROVE  /\ code.arm_pc = p /\ Len(code.instrs) \in 1..MaxBlock
                    /\ \A k \in DOMAIN code.instrs : IsBranch(code.instrs[k]) => k = Len(code.instrs)
  BY DEF BlocksWellFormed
<1>4. \/ p = pc /\ code = new
      \/ p \in DOMAIN block_map /\ code = pool[block_map[p].host_code]
  BY <1>2, EmittedCode
<1> QED
  BY <1>3, <1>4 DEF EngineInv, BlocksWellFormed

\* Steps of translate_block.
LEMMA TranslateInv == ASSUME EngineInv, Translate PROVE EngineInv'
<1> USE CacheConstants, EngineConstants
<1>1. CASE TranslateFault
  BY <1>1, CacheUnchanged DEF TranslateFault, HostFault, EngineInv, EngineTypeOK, Control,
     BlocksWellFormed, cacheVars
<1>2. CASE TranslateNothing
  BY <1>2, CacheUnchanged DEF TranslateNothing, EngineInv, EngineTypeOK, Control,
     BlocksWellFormed, cacheVars, cpuVars
<1>3. CASE TranslateAlloc /\ AllocHostCode(pc, ALLOC) /\ phase' = "emit"
  <2>1. phase = "translate" /\ pc \in PCs
    BY <1>3 DEF TranslateAlloc, EngineInv, EngineTypeOK, CodeMemory, Control
  <2>2. CacheInv'
    BY <1>3, <2>1, AllocInv DEF ALLOC, EngineInv
  <2>3. /\ block_map' = block_map
        /\ pending' = [arm_pc |-> pc, host_code |-> code_pool_used, size |-> ALLOC]
    BY <1>3 DEF AllocHostCode
  <2>4. pending' # NoBuffer /\ pending'.arm_pc = pc
    BY <2>1, <2>3 DEF NoBuffer
  <2> QED
    BY <1>3, <2>1, <2>2, <2>3, <2>4 DEF TranslateAlloc, EngineInv, EngineTypeOK, Control,
       BlocksWellFormed, cpuVars
<1>4. CASE TranslateAlloc /\ AllocHostCodeFails(ALLOC) /\ phase' = "interp"
  <2>1. CacheInv'
    BY <1>4, EvictInv DEF AllocHostCodeFails, EngineInv
  <2>2. \A p \in DOMAIN block_map' : p \in DOMAIN block_map /\ block_map'[p].host_code = block_map[p].host_code
    BY <1>4, EvictShrinks DEF AllocHostCodeFails, EngineInv, CacheInv, CacheTypeOK
  <2>3. pending' = NoBuffer
    BY <1>4 DEF AllocHostCodeFails
  <2>4. BlocksWellFormed'
    BY <1>4, <2>2, WellFormedKept DEF TranslateAlloc, EngineInv
  <2> QED
    BY <1>4, <2>1, <2>3, <2>4 DEF TranslateAlloc, EngineInv, EngineTypeOK, Control, cpuVars
<1>5. CASE TranslateEmit
  <2>1. /\ phase = "emit" /\ pc \in PCs /\ pc \in Int
        /\ pending # NoBuffer /\ pending.arm_pc = pc
        /\ flags = {} /\ iter < MaxIter
    BY <1>5 DEF TranslateEmit, EngineInv, EngineTypeOK, CodeMemory, Control
  <2>2. CacheInv'
    BY <1>5, InsertInv DEF TranslateEmit, EngineInv
  <2>3. /\ pending.host_code \in 0..PoolSize-1
        /\ pending.host_code < code_pool_used
    <3>1. /\ pending \in Buffer
          /\ pending.host_code + pending.size <= code_pool_used
          /\ code_pool_used \in 0..PoolSize
      BY <2>1 DEF EngineInv, CacheInv, CacheTypeOK, PendingDisjoint
    <3> QED
      BY <3>1 DEF Buffer
  <2>4. Fetched(mem, pc) \in HostCode /\ Len(Fetched(mem, pc).instrs) \in Nat
    BY <2>1, EngineConstants, FetchedCode DEF EngineInv, EngineTypeOK
  <2>5. /\ pool' \in [0..PoolSize-1 -> HostCode]
        /\ pool'[pending.host_code] = Fetched(mem, pc)
    BY <1>5, <2>3, <2>4 DEF TranslateEmit, EngineInv, Control
  <2>6. /\ exec' = [host_code |-> pending.host_code, at |-> 1]
        /\ Code' = Fetched(mem, pc)
        /\ code_pool_used' = code_pool_used /\ pending' = NoBuffer
    BY <1>5, <2>5 DEF TranslateEmit, Code, Insert
  <2>7. exec'.at \in 1..Len(Code'.instrs) + 1 /\ exec'.host_code < code_pool_used'
    BY <2>3, <2>4, <2>6
  <2>8. Control'
    BY <1>5, <2>1, <2>3, <2>5, <2>6, <2>7 DEF TranslateEmit, Control, cpuVars
  <2>9. EngineTypeOK'
    BY <1>5, <2>1, <2>3, <2>6 DEF TranslateEmit, EngineInv, EngineTypeOK, cpuVars
  <2>10. BlocksWellFormed'
    BY <1>5, EmitWellFormed
  <2> QED
    BY <2>2, <2>8, <2>9, <2>10 DEF EngineInv
<1> QED
  BY <1>1, <1>2, <1>3, <1>4, <1>5 DEF Translate, TranslateAlloc

\* A store changes the instruction it hits and no other.
LEMMA OverwrittenFact ==
    ASSUME NEW m, CodeMemory(m, PCs), NEW a \in DOMAIN m
    PROVE  /\ CodeMemory(Overwritten(m, a), PCs)
           /\ DOMAIN Overwritten(m, a) = DOMAIN m
           /\ \A b \in DOMAIN m : b # a => Overwritten(m, a)[b] = m[b]
<1>1. Plain \in Instruction
  BY DEF Plain, Instruction, Ops
<1> QED
  BY <1>1 DEF Overwritten, CodeMemory

\* Returning from host code to an address.
LEMMA ReturnInv ==
    ASSUME EngineInv, phase = "exec", NEW target \in Int, ReturnTo(target),
           UNCHANGED <<cacheVars, mem, lr, flags, pool, translated_pages>>, x30' \in Int
    PROVE  EngineInv'
BY EngineConstants, CacheUnchanged, SMTT(60) DEF ReturnTo, EngineInv, EngineTypeOK, Control, BlocksWellFormed,
   cacheVars, Idle

\* Steps of host code.
LEMMA ExecuteInv == ASSUME EngineInv, Execute PROVE EngineInv'
<1> USE CacheConstants, EngineConstants
<1>1. phase = "exec"
  BY DEF Execute, RunNext, RunStore, RunB, RunBL, RunRet, RunBcond, RunEnd, RunFault, RunOff, MayBeCut, InBlock
<1>2. /\ Code \in HostCode
      /\ Len(Code.instrs) \in Nat
      /\ exec.at <= Len(Code.instrs) => Cur.op \in Ops /\ Cur.off \in Int
      /\ GuestAt \in Int
      /\ Fallthrough \in Int
      /\ OffsetWrap \in Nat
      /\ x30 \in Int /\ lr \in Int
  BY <1>1, CodeTyped DEF Instruction, EngineInv, EngineTypeOK
<1>3. ASSUME exec' = [exec EXCEPT !.at = exec.at + 1], exec.at <= Len(Code.instrs),
             UNCHANGED <<cacheVars, cpuVars, iter, phase, pool, translated_pages>>,
             CodeMemory(mem', PCs)
      PROVE  EngineInv'
  <2>1. exec' \in [host_code : Nat, at : Nat]
        /\ exec'.host_code = exec.host_code /\ exec'.at = exec.at + 1
    BY <1>3, SMTT(60) DEF EngineInv, Control
  <2>2. Code' = Code
    BY <1>3, <2>1 DEF Code
  <2>3. exec'.at \in 1..Len(Code'.instrs) + 1
    <3>1. exec.at \in 1..Len(Code.instrs) + 1
      BY <1>1 DEF EngineInv, Control
    <3>2. Len(Code'.instrs) = Len(Code.instrs)
      BY <2>2
    <3>3. \A n \in Nat : \A at \in 1..n + 1 : at <= n => at + 1 \in 1..n + 1
      OBVIOUS
    <3>4. exec.at + 1 \in 1..Len(Code.instrs) + 1
      BY <1>2, <1>3, <3>1, <3>3
    <3> QED
      BY <2>1, <3>2, <3>4
  <2>4. Control'
    BY <1>1, <1>3, <2>1, <2>3 DEF EngineInv, Control, cpuVars, cacheVars
  <2>5. EngineTypeOK'
    BY <1>3, <2>1 DEF EngineInv, EngineTypeOK, cpuVars
  <2> QED
    BY <1>3, <2>4, <2>5, CacheUnchanged DEF EngineInv, BlocksWellFormed, cacheVars
<1>4. CASE RunNext
  BY <1>3, <1>4 DEF RunNext, InBlock, EngineInv, EngineTypeOK
<1>5. CASE RunStore
  <2>1. CodeMemory(mem', PCs)
    BY <1>5, OverwrittenFact DEF RunStore, Mapped, EngineInv, EngineTypeOK
  <2> QED
    BY <1>3, <1>5, <2>1 DEF RunStore, InBlock
<1>6. CASE RunB
  BY <1>1, <1>2, <1>6, ReturnInv DEF RunB, SignExtended, InBlock
<1>7. CASE RunBL
  BY <1>1, <1>2, <1>7, ReturnInv DEF RunBL, SignExtended, InBlock, INSTR_SIZE
<1>8. CASE RunRet
  BY <1>1, <1>2, <1>8, ReturnInv DEF RunRet
<1>9. CASE RunBcond
  <2>1. ZeroExtended(GuestAt, Cur.off) \in Int
    BY <1>2, <1>9 DEF RunBcond, InBlock, ZeroExtended
  <2> QED
    BY <1>1, <1>2, <1>9, <2>1, ReturnInv DEF RunBcond
<1>10. CASE RunEnd
  BY <1>1, <1>2, <1>10, ReturnInv DEF RunEnd
<1>11. ASSUME BlockCrash PROVE EngineInv'
  BY <1>1, <1>11, CacheUnchanged, SMTT(60) DEF BlockCrash, EngineInv, EngineTypeOK, Control,
     BlocksWellFormed, cacheVars, Idle
<1>12. CASE RunOff /\ ~BlockCrash
  <2>1. /\ exec.host_code + ALLOC < code_pool_used
        /\ exec' = [host_code |-> exec.host_code + ALLOC, at |-> 1]
        /\ UNCHANGED <<cacheVars, mem, cpuVars, iter, phase, pool, translated_pages>>
    BY <1>12 DEF RunOff
  <2>2. exec'.host_code \in Nat /\ exec'.host_code < code_pool_used /\ code_pool_used \in 0..PoolSize
    BY <2>1, SMTT(60) DEF ALLOC, EngineInv, Control, CacheInv, CacheTypeOK
  <2>3. Code' \in HostCode
    BY <2>1, <2>2 DEF Code, EngineInv, Control
  <2>4. exec'.at \in 1..Len(Code'.instrs) + 1
    <3>1. Len(Code'.instrs) \in Nat
      BY <2>3 DEF HostCode
    <3> QED
      BY <2>1, <3>1
  <2>5. Control'
    BY <1>1, <2>1, <2>2, <2>4 DEF EngineInv, Control, cpuVars, cacheVars
  <2>6. EngineTypeOK'
    BY <2>1, <2>2 DEF EngineInv, EngineTypeOK, cpuVars
  <2> QED
    BY <2>1, <2>5, <2>6, CacheUnchanged DEF EngineInv, BlocksWellFormed, cacheVars
<1> QED
  BY <1>4, <1>5, <1>6, <1>7, <1>8, <1>9, <1>10, <1>11, <1>12 DEF Execute, RunFault

\* Steps of the interpreter.
LEMMA InterpretInv == ASSUME EngineInv, Interpret PROVE EngineInv'
<1> USE CacheConstants, EngineConstants
<1>1. phase = "interp"
  BY DEF Interpret, InterpUndefined, InterpNext, InterpStore, InterpCrash, InterpBranch,
     InterpRegister, Interpreting
<1>2. /\ pc \in DOMAIN mem /\ pc \in Int /\ iter < MaxIter /\ flags = {}
      /\ mem[pc].off \in Int
      /\ x30 \in Int /\ OffsetWrap \in Int
  BY <1>1, SMTT(60) DEF EngineInv, EngineTypeOK, CodeMemory, Control, Instruction
<1>3. ASSUME NEW target \in Int, Interpreted(target), CodeMemory(mem', PCs),
             x30' \in Int, flags' \subseteq {"CRASHED"},
             UNCHANGED <<cacheVars, lr, exec, pool, translated_pages>>
      PROVE  EngineInv'
  BY <1>1, <1>2, <1>3, CacheUnchanged, SMTT(60) DEF Interpreted, EngineInv, EngineTypeOK, Control,
     BlocksWellFormed, cacheVars
<1>4. pc + INSTR_SIZE \in Int /\ CodeMemory(mem, PCs)
  BY <1>2 DEF INSTR_SIZE, EngineInv, EngineTypeOK
<1>5. CASE InterpUndefined
  BY <1>1, <1>2, <1>5, CacheUnchanged DEF InterpUndefined, EngineInv, EngineTypeOK, Control,
     BlocksWellFormed, cacheVars
<1>6. CASE InterpNext
  BY <1>2, <1>3, <1>4, <1>6 DEF InterpNext
<1>7. CASE InterpStore
  <2>1. CodeMemory(mem', PCs)
    BY <1>4, <1>7, OverwrittenFact DEF InterpStore, Mapped
  <2> QED
    BY <1>2, <1>3, <1>4, <1>7, <2>1 DEF InterpStore
<1>8. CASE InterpCrash
  BY <1>2, <1>3, <1>4, <1>8 DEF InterpCrash
<1>9. CASE InterpBranch
  <2>1. ZeroExtended(pc, mem[pc].off) \in Int
    BY <1>2 DEF ZeroExtended
  <2>2. x30' \in Int /\ mem' = mem /\ flags' = flags
        /\ UNCHANGED <<cacheVars, lr, exec, pool, translated_pages>>
    BY <1>2, <1>4, <1>9 DEF InterpBranch
  <2>3. \E target \in Int : Interpreted(target)
    BY <1>4, <1>9, <2>1 DEF InterpBranch
  <2> QED
    BY <1>2, <1>3, <1>4, <2>2, <2>3
<1>10. CASE InterpRegister
  BY <1>2, <1>3, <1>4, <1>10 DEF InterpRegister
<1> QED
  BY <1>5, <1>6, <1>7, <1>8, <1>9, <1>10 DEF Interpret

\* Every step of the engine, and every stutter, keeps the invariant.
LEMMA EngineNextInv == EngineInv /\ [Next]_engineVars => EngineInv'
<1> SUFFICES ASSUME EngineInv, [Next]_engineVars PROVE EngineInv'
  OBVIOUS
<1>1. CASE UNCHANGED engineVars
  BY <1>1, CacheUnchanged DEF engineVars, cpuVars, EngineInv, EngineTypeOK, Control, Code,
     BlocksWellFormed, cacheVars
<1> QED
  BY <1>1, RunLoopInv, TranslateInv, ExecuteInv, InterpretInv DEF Next, Finished

\* The inductive invariant holds in every reachable state of the engine.
THEOREM EngineInvariant == Spec => []EngineInv
BY EngineInitInv, EngineNextInv, PTL DEF Spec

\* Type correctness of the engine, for every program and every bound: among
\* other things the iteration count never passes max_iter.
THEOREM EngineTypeCorrect == Spec => []EngineTypeOK
BY EngineInvariant, PTL DEF EngineInv

\* Whatever the guest does to its code, a cached block is one translated at its
\* address, of 1 to max_instr instructions with a branch only at the end.
THEOREM BlocksKeepShape == Spec => []BlocksWellFormed
BY EngineInvariant, PTL DEF EngineInv

-----------------------------------------------------------------------------
(* A used-up pool                                                          *)

\* One step from a state whose pool has no room: no bump, no buffer, no block.
LEMMA ExhaustedStep ==
    ASSUME EngineInv, [Next]_engineVars, ~Fits(ALLOC), pending = NoBuffer
    PROVE  /\ code_pool_used' = code_pool_used
           /\ pending' = NoBuffer
           /\ DOMAIN block_map' \subseteq DOMAIN block_map
<1>1. CASE UNCHANGED cacheVars
  BY <1>1 DEF cacheVars
<1>2. CASE LookupHit
  BY <1>2 DEF LookupHit, Lookup
<1>3. CASE TranslateAlloc
  <2>1. AllocHostCodeFails(ALLOC)
    BY <1>3 DEF TranslateAlloc, AllocHostCode
  <2>2. DOMAIN block_map' \subseteq DOMAIN block_map
    BY <2>1, EvictShrinks DEF AllocHostCodeFails, EngineInv, CacheInv, CacheTypeOK
  <2> QED
    BY <2>1, <2>2 DEF AllocHostCodeFails
<1>4. ~TranslateEmit
  BY DEF TranslateEmit, EngineInv, Control
<1>5. UNCHANGED cacheVars \/ LookupHit \/ TranslateAlloc
  BY <1>4 DEF Next, engineVars, RunLoop, Translate, Execute, Interpret, Finished, Stop,
     FetchFault, HostFault, Syscall, Miss, TranslateFault, TranslateNothing, RunNext, RunStore,
     RunB, RunBL, RunRet, RunBcond, RunEnd, RunFault, RunOff, BlockCrash, InterpUndefined, InterpNext, InterpStore,
     InterpCrash, InterpBranch, InterpRegister
<1> QED
  BY <1>1, <1>2, <1>3, <1>5

\* Eviction gives no code memory back: once alloc_host_code fails the map
\* never gains a block again, for every pool size and capacity.
THEOREM PoolNeverRecovers == Spec => ExhaustionIsPermanent
<1>1. EngineInv /\ [Next]_engineVars =>
        [~Fits(ALLOC) /\ pending = NoBuffer
           => /\ ~Fits(ALLOC)' /\ pending' = NoBuffer
              /\ DOMAIN block_map' \subseteq DOMAIN block_map]_engineVars
  <2> SUFFICES ASSUME EngineInv, [Next]_engineVars, ~Fits(ALLOC), pending = NoBuffer
               PROVE  /\ ~Fits(ALLOC)' /\ pending' = NoBuffer
                      /\ DOMAIN block_map' \subseteq DOMAIN block_map
    OBVIOUS
  <2> QED
    BY ExhaustedStep DEF Fits
<1> QED
  BY <1>1, EngineInvariant, PTL DEF Spec, ExhaustionIsPermanent

-----------------------------------------------------------------------------
(* Coherence of code and memory                                            *)

SupportedNext == IF Diverges THEN UNCHANGED engineVars ELSE Next

\* Host code that does what memory m holds at its address: a run of mapped
\* instructions of which only the last may be a branch.
Matches(code, m) ==
    \A k \in 1..Len(code.instrs) :
        /\ code.arm_pc + INSTR_SIZE * (k - 1) \in DOMAIN m
        /\ code.instrs[k] = m[code.arm_pc + INSTR_SIZE * (k - 1)]
        /\ IsBranch(code.instrs[k]) => k = Len(code.instrs)

\* The blocks of the map match, and so does the code that runs: with what a
\* store may not overwrite these are the blocks IsTranslated looks at.
BlocksMatch ==
    \A p \in DOMAIN block_map :
        /\ pool[block_map[p].host_code].arm_pc = p
        /\ Matches(pool[block_map[p].host_code], mem)

RunningMatches == phase = "exec" => Matches(Code, mem)

CoherentInv == EngineInv /\ BlocksMatch /\ RunningMatches

\* A store that hits no translated instruction leaves all code matching.
LEMMA StoreMatches ==
    ASSUME NEW code \in HostCode, NEW m, CodeMemory(m, PCs), NEW a \in DOMAIN m,
           Matches(code, m),
           \A k \in DOMAIN code.instrs : a # code.arm_pc + INSTR_SIZE * (k - 1)
    PROVE  Matches(code, Overwritten(m, a))
<1>1. DOMAIN code.instrs = 1..Len(code.instrs)
  BY DEF HostCode
<1>2. DOMAIN Overwritten(m, a) = DOMAIN m /\ \A b \in DOMAIN m : b # a => Overwritten(m, a)[b] = m[b]
  BY OverwrittenFact
<1> HIDE DEF INSTR_SIZE
<1> QED
  BY <1>1, <1>2 DEF Matches

\* The same for the whole state.
LEMMA StoreCoherent ==
    ASSUME CoherentInv, NEW a \in DOMAIN mem, ~IsTranslated(a), mem' = Overwritten(mem, a),
           UNCHANGED <<block_map, pool>>, phase' = phase \/ phase' # "exec",
           phase = "exec" => exec'.host_code = exec.host_code
    PROVE  BlocksMatch' /\ RunningMatches'
<1>1. CodeMemory(mem, PCs)
  BY DEF CoherentInv, EngineInv, EngineTypeOK
<1>2. ASSUME NEW p \in DOMAIN block_map
      PROVE  Matches(pool[block_map[p].host_code], mem')
  <2>1. \A k \in DOMAIN pool[block_map[p].host_code].instrs :
           a # pool[block_map[p].host_code].arm_pc + INSTR_SIZE * (k - 1)
    BY DEF IsTranslated
  <2>2. Matches(pool[block_map[p].host_code], mem)
    BY DEF CoherentInv, BlocksMatch
  <2>3. pool[block_map[p].host_code] \in HostCode
    BY BlockCodeTyped DEF CoherentInv
  <2> QED
    BY <1>1, <2>1, <2>2, <2>3, StoreMatches
<1>3. ASSUME phase = "exec"
      PROVE  Matches(Code, mem')
  <2>1. \A k \in DOMAIN Code.instrs : a # Code.arm_pc + INSTR_SIZE * (k - 1)
    BY DEF IsTranslated, Code
  <2>2. Matches(Code, mem)
    BY <1>3 DEF CoherentInv, RunningMatches
  <2>3. Code \in HostCode
    BY <1>3, CodeTyped DEF CoherentInv
  <2> QED
    BY <1>1, <2>1, <2>2, <2>3, StoreMatches
<1>4. BlocksMatch'
  BY <1>2 DEF CoherentInv, BlocksMatch
<1>5. RunningMatches'
  <2> SUFFICES ASSUME phase' = "exec" PROVE Matches(Code', mem')
    BY DEF RunningMatches
  <2>1. phase = "exec" /\ Code' = Code
    BY DEF Code
  <2> QED
    BY <1>3, <2>1
<1> QED
  BY <1>4, <1>5

\* A step that writes neither memory nor code keeps coherence: the code it
\* leaves in the map, or runs, is code that matched before.
LEMMA SameCodeCoherent ==
    ASSUME CoherentInv, UNCHANGED <<mem, pool>>,
           \A p \in DOMAIN block_map' :
              p \in DOMAIN block_map /\ block_map'[p].host_code = block_map[p].host_code,
           phase' = "exec" =>
              \/ phase = "exec" /\ exec'.host_code = exec.host_code
              \/ \E p \in DOMAIN block_map : exec'.host_code = block_map[p].host_code
    PROVE  BlocksMatch' /\ RunningMatches'
<1>1. BlocksMatch'
  BY DEF CoherentInv, BlocksMatch
<1>2. RunningMatches'
  <2> SUFFICES ASSUME phase' = "exec" PROVE Matches(Code', mem)
    BY DEF RunningMatches
  <2>1. CASE phase = "exec" /\ exec'.host_code = exec.host_code
    BY <2>1 DEF CoherentInv, RunningMatches, Code
  <2>2. CASE \E p \in DOMAIN block_map : exec'.host_code = block_map[p].host_code
    BY <2>2 DEF CoherentInv, BlocksMatch, Code
  <2> QED
    BY <2>1, <2>2
<1> QED
  BY <1>1, <1>2

\* What translate_block fetches matches the memory it is fetched from.
LEMMA FetchedMatches ==
    ASSUME NEW m, CodeMemory(m, PCs), NEW a \in Int
    PROVE  Fetched(m, a).arm_pc = a /\ Matches(Fetched(m, a), m)
<1>1. /\ Fetched(m, a).arm_pc = a
      /\ Len(Fetched(m, a).instrs) = FetchLen(m, a)
      /\ \A k \in 1..FetchLen(m, a) :
            /\ a + INSTR_SIZE * (k - 1) \in DOMAIN m
            /\ Fetched(m, a).instrs[k] = m[a + INSTR_SIZE * (k - 1)]
            /\ IsBranch(Fetched(m, a).instrs[k]) => k = FetchLen(m, a)
  BY FetchedCode, Zenon
<1> QED
  BY <1>1 DEF Matches

\* Emitting a block writes code that matches.
LEMMA EmitCoherent ==
    ASSUME CoherentInv, TranslateEmit PROVE BlocksMatch' /\ RunningMatches'
<1>1. /\ CodeMemory(mem, PCs) /\ pc \in Int /\ mem' = mem /\ EngineInv
  BY DEF TranslateEmit, CoherentInv, EngineInv, EngineTypeOK
<1>2. Fetched(mem, pc).arm_pc = pc /\ Matches(Fetched(mem, pc), mem)
  BY <1>1, FetchedMatches
<1>3. ASSUME NEW p \in DOMAIN block_map'
      PROVE  /\ pool'[block_map'[p].host_code].arm_pc = p
             /\ Matches(pool'[block_map'[p].host_code], mem')
  BY <1>1, <1>2, EmittedCode DEF CoherentInv, BlocksMatch
<1>4. Matches(Code', mem')
  BY <1>1, <1>2, EmittedCode
<1> QED
  BY <1>3, <1>4 DEF BlocksMatch, RunningMatches

\* A system call that reaches no translated instruction leaves all code matching.
LEMMA CallCoherent ==
    ASSUME CoherentInv, Syscall, ~Diverges PROVE BlocksMatch' /\ RunningMatches'
<1>1. PICK hit : hit = CallReaches(mem[pc], pc, PCs, PageSize)
  OBVIOUS
<1>2. /\ pc \in DOMAIN mem /\ CodeMemory(mem, PCs) /\ mem' \in AfterCall(mem, pc, PCs, PageSize)
      /\ UNCHANGED <<block_map, pool>> /\ phase' = "loop"
      /\ \A a \in hit : ~IsTranslated(a)
  BY <1>1 DEF Syscall, Calling, Running, Mapped, Diverges, CoherentInv, EngineInv, EngineTypeOK, cacheVars
<1>3. \A b \in DOMAIN mem \ hit : b \in DOMAIN mem' /\ mem'[b] = mem[b]
  BY <1>1, <1>2, AfterCallFact
<1>4. ASSUME NEW p \in DOMAIN block_map
      PROVE  Matches(pool[block_map[p].host_code], mem')
  <2>1. PICK code : code = pool[block_map[p].host_code] /\ code \in HostCode /\ Matches(code, mem)
    BY BlockCodeTyped DEF CoherentInv, BlocksMatch
  <2>2. DOMAIN code.instrs = 1..Len(code.instrs)
    BY <2>1 DEF HostCode
  <2>3. \A k \in 1..Len(code.instrs) : code.arm_pc + INSTR_SIZE * (k - 1) \notin hit
    BY <1>2, <2>1, <2>2 DEF IsTranslated
  <2> HIDE DEF INSTR_SIZE
  <2>4. Matches(code, mem')
    BY <1>3, <2>1, <2>3 DEF Matches
  <2> QED
    BY <2>1, <2>4
<1> QED
  BY <1>2, <1>4 DEF BlocksMatch, RunningMatches, CoherentInv

\* Coherence is kept by every step of a behaviour in which neither a store nor a
\* system call changes translated code and every block fits its buffer.
LEMMA CoherentNextInv == CoherentInv /\ [SupportedNext]_engineVars => CoherentInv'
<1> SUFFICES ASSUME CoherentInv, [SupportedNext]_engineVars PROVE CoherentInv'
  OBVIOUS
<1>1. UNCHANGED engineVars \/ (Next /\ ~Diverges)
  BY DEF SupportedNext
<1>2. EngineInv'
  BY <1>1, EngineNextInv DEF CoherentInv
<1>3. CASE UNCHANGED engineVars
  BY <1>2, <1>3, SameCodeCoherent DEF engineVars, cacheVars, CoherentInv
<1>4. CASE TranslateEmit
  BY <1>2, <1>4, EmitCoherent DEF CoherentInv
<1>5. CASE RunStore /\ ~Diverges
  <2>1. /\ GuestAt + Cur.off \in DOMAIN mem /\ ~IsTranslated(GuestAt + Cur.off)
        /\ exec' = [exec EXCEPT !.at = exec.at + 1]
    BY <1>5 DEF RunStore, Diverges, Mapped, StoreTarget, InBlock
  <2>2. exec'.host_code = exec.host_code
    BY <2>1 DEF CoherentInv, EngineInv, Control
  <2> QED
    BY <1>2, <1>5, <2>1, <2>2, StoreCoherent DEF RunStore, CoherentInv, cacheVars
<1>6. CASE InterpStore /\ ~Diverges
  <2>1. /\ pc + mem[pc].off \in DOMAIN mem /\ ~IsTranslated(pc + mem[pc].off)
        /\ phase = "interp" /\ phase' = "loop"
    BY <1>6 DEF InterpStore, Diverges, Mapped, StoreTarget, Interpreting, Interpreted
  <2> QED
    BY <1>2, <1>6, <2>1, StoreCoherent DEF InterpStore, CoherentInv, cacheVars
<1>7. CASE LookupHit
  <2>1. /\ pc \in DOMAIN block_map /\ Lookup(pc)
        /\ exec' = [host_code |-> block_map[pc].host_code, at |-> 1]
        /\ UNCHANGED <<mem, pool>>
    BY <1>7 DEF LookupHit, Lookup, Hits
  <2>2. \A p \in DOMAIN block_map' :
           p \in DOMAIN block_map /\ block_map'[p].host_code = block_map[p].host_code
    BY <2>1, LookedUp DEF CoherentInv, EngineInv
  <2> QED
    BY <1>2, <2>1, <2>2, SameCodeCoherent DEF CoherentInv
<1>8. CASE TranslateAlloc
  <2>1. \A p \in DOMAIN block_map' : p \in DOMAIN block_map /\ block_map'[p] = block_map[p]
    <3>1. block_map' = block_map \/ block_map' \in EvictCold(block_map)
      BY <1>8 DEF TranslateAlloc, AllocHostCode, AllocHostCodeFails
    <3> QED
      BY <3>1, EvictShrinks DEF CoherentInv, EngineInv, CacheInv, CacheTypeOK
  <2> QED
    BY <1>2, <1>8, <2>1, SameCodeCoherent DEF TranslateAlloc, CoherentInv
<1>9. CASE RunNext
  <2>1. exec'.host_code = exec.host_code
    BY <1>9 DEF RunNext, CoherentInv, EngineInv, Control
  <2> QED
    BY <1>2, <1>9, <2>1, SameCodeCoherent DEF RunNext, cacheVars, CoherentInv, InBlock
<1>10. CASE UNCHANGED <<block_map, mem, pool>> /\ phase' # "exec"
  BY <1>2, <1>10, SameCodeCoherent DEF CoherentInv
<1>11. CASE Syscall /\ ~Diverges
  BY <1>2, <1>11, CallCoherent DEF CoherentInv
<1>12. ~Diverges => ~RunOff
  BY DEF RunOff, Diverges
<1>13. Next => \/ TranslateEmit \/ Syscall \/ RunOff \/ RunStore \/ InterpStore \/ LookupHit \/ TranslateAlloc
               \/ RunNext \/ UNCHANGED engineVars
               \/ UNCHANGED <<block_map, mem, pool>> /\ phase' # "exec"
  BY DEF Next, engineVars, RunLoop, Translate, Execute, Interpret, Finished, Stop,
     FetchFault, HostFault, Miss, TranslateFault, TranslateNothing, RunB, RunBL, RunRet,
     RunBcond, RunEnd, RunFault, BlockCrash, InterpUndefined, InterpNext, InterpCrash, InterpBranch,
     InterpRegister, Interpreted, ReturnTo, cacheVars, Running
<1> QED
  BY <1>1, <1>3, <1>4, <1>5, <1>6, <1>7, <1>8, <1>9, <1>10, <1>11, <1>12, <1>13

\* Behaviours of SupportedSpec keep the coherence invariant.
THEOREM CoherentInvariant == SupportedSpec => []CoherentInv
<1>1. Init => CoherentInv
  BY EngineInitInv DEF Init, CacheInit, CoherentInv, BlocksMatch, RunningMatches
<1> QED
  BY <1>1, CoherentNextInv, PTL DEF SupportedSpec, SupportedNext

\* Until the guest overwrites translated code, a lookup hands out code that was
\* translated from the address asked for and from what memory holds there, for
\* every program, pool, capacity and block length.
THEOREM CacheIsCoherent == SupportedSpec => []CacheCoherent
<1>1. CoherentInv => CacheCoherent
  <2> SUFFICES ASSUME CoherentInv, NEW p \in DOMAIN block_map
               PROVE  LET code == pool[block_map[p].host_code]
                      IN  /\ code.arm_pc = p
                          /\ \A k \in DOMAIN code.instrs :
                                LET a == p + INSTR_SIZE * (k - 1)
                                IN  a \in DOMAIN mem /\ code.instrs[k] = mem[a]
    BY DEF CacheCoherent
  <2>1. DOMAIN pool[block_map[p].host_code].instrs = 1..Len(pool[block_map[p].host_code].instrs)
    BY BlockCodeTyped DEF CoherentInv, HostCode
  <2> QED
    BY <2>1 DEF CoherentInv, BlocksMatch, Matches
<1> QED
  BY <1>1, CoherentInvariant, PTL

=============================================================================
