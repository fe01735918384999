----------------------------- MODULE ExecEngine -----------------------------
(***************************************************************************)
(* The execution engine (src/src/core/exec_engine.cpp): the run loop that  *)
(* looks a block up, or serves a system call, or translates, or falls back *)
(* to the interpreter, composed with the translation cache it drives.      *)
(*                                                                         *)
(* phase is the place of the one thread that runs the loop:                *)
(*   loop       at the test of the while loop                              *)
(*   translate  in translate_block, before alloc_host_code                 *)
(*   emit       in translate_block, from alloc_host_code to return         *)
(*   interp     translate_block returned nullptr                           *)
(*   exec       in a block's host code                                     *)
(*   done       run returned           killed     the process is gone      *)
(*                                                                         *)
(* Guest data is left out: a conditional branch may go either way.  Host   *)
(* code is the sequence of guest instructions it was lowered from and the  *)
(* address they were read at, which the lowering builds into the code; what*)
(* it does is given by the Run* actions.  Allocation is in blocks of one   *)
(* unit (4096 bytes in the code).                                          *)
(***************************************************************************)
EXTENDS TranslationCache, GuestCode

CONSTANTS Programs,     \* code memories to run
          Entry,        \* entry point
          MaxBlock,     \* max_instr of translate_block
          FitBlock,     \* the longest block sure to fit its 4096 bytes of host code
          MaxIter,      \* max_iter of run
          OffsetWrap,   \* 2^32: what zero-extending a negative offset adds
          PageSize      \* PAGE_SIZE

ASSUME EngineConstants ==
    /\ \A m \in Programs : CodeMemory(m, PCs)
    /\ Entry \in PCs
    /\ MaxBlock \in Nat \ {0} /\ FitBlock \in Nat \ {0}
    /\ MaxIter \in Nat
    /\ OffsetWrap \in Nat
    /\ PageSize \in Nat \ {0}

VARIABLES mem,               \* guest code memory
          pc,                \* ctx.pc
          x30,               \* ctx.x[30]
          lr,                \* ctx.lr
          flags,             \* STATE_CRASHED and STATE_EXITED of state_flags
          iter,              \* iter of run
          phase,
          exec,              \* the block being executed and the position in it
          pool,              \* contents of the code pool
          translated_pages   \* MemoryManager::translated_pages_

cpuVars == <<pc, x30, lr, flags>>
engineVars == <<cacheVars, mem, cpuVars, iter, phase, exec, pool, translated_pages>>

ALLOC == 1

NoCode == [arm_pc |-> -1, instrs |-> <<>>]

Idle == [host_code |-> 0, at |-> 0]

\* Mutant: one turn of the loop too many.
RunningOnceMore == phase = "loop" /\ flags = {} /\ iter <= MaxIter

Running == phase = "loop" /\ flags = {} /\ iter < MaxIter

Mapped(a) == a \in DOMAIN mem

PageOf(a) == a - (a % PageSize)

-----------------------------------------------------------------------------
(* Address arithmetic.  branch_offset is a uint32_t: B and BL in the IR     *)
(* builder sign-extend it, everything else adds it as it is.                *)

SignExtended(a, off) == a + off

ZeroExtended(a, off) == IF off < 0 THEN a + off + OffsetWrap ELSE a + off

-----------------------------------------------------------------------------
(* translate_block                                                          *)

\* Mutant: the instruction behind the last one is taken along.
FetchLenOneMore(m, a) ==
    LET n == StraightRun(m, a, MaxBlock)
        stop == a + INSTR_SIZE * n
    IN  IF stop \in DOMAIN m /\ IsBranch(m[stop]) THEN n + 1 ELSE n

\* The number of instructions translate_block collects at a.
FetchLen(m, a) ==
    LET n == StraightRun(m, a, MaxBlock)
        stop == a + INSTR_SIZE * n
    IN  IF n < MaxBlock /\ stop \in DOMAIN m /\ IsBranch(m[stop]) THEN n + 1 ELSE n

Fetched(m, a) ==
    [arm_pc |-> a,
     instrs |-> [k \in 1..FetchLen(m, a) |-> m[a + INSTR_SIZE * (k - 1)]]]

\* Reading on, translate_block leaves the mapped code.
LookaheadFaults(m, a) ==
    LET n == StraightRun(m, a, MaxBlock)
    IN  n < MaxBlock /\ a + INSTR_SIZE * n \notin DOMAIN m

-----------------------------------------------------------------------------

Init ==
    /\ CacheInit
    /\ mem \in Programs
    /\ pc = Entry
    /\ x30 = 0
    /\ lr = 0
    /\ flags = {}
    /\ iter = 0
    /\ phase = "loop"
    /\ exec = Idle
    /\ pool = [h \in 0..PoolSize-1 |-> NoCode]
    /\ translated_pages = {}

\* The loop ends: crashed, exited, or out of iterations.
Stop ==
    /\ phase = "loop"
    /\ flags # {} \/ iter >= MaxIter
    /\ phase' = "done"
    /\ UNCHANGED <<cacheVars, mem, cpuVars, iter, exec, pool, translated_pages>>

LookupHit ==
    /\ Running
    /\ Lookup(pc)
    /\ exec' = [host_code |-> block_map[pc].host_code, at |-> 1]
    /\ phase' = "exec"
    /\ UNCHANGED <<mem, cpuVars, iter, pool, translated_pages>>

\* A host fault outside host code.  signal_handler sets STATE_CRASHED and jumps
\* to a jmp_buf whose frame has returned, or that was never set: the process
\* dies, or by luck of the stack comes back to the loop, which then ends.
HostFault ==
    /\ flags' = flags \cup {"CRASHED"}
    /\ phase' \in {"killed", "done"}
    /\ UNCHANGED <<cacheVars, mem, pc, x30, lr, iter, exec, pool, translated_pages>>

FetchFault ==
    /\ Running
    /\ ~Hits(pc)
    /\ ~Mapped(pc)
    /\ HostFault

\* run is about to serve a system call.
Calling == Running /\ ~Hits(pc) /\ Mapped(pc) /\ IsSvc(mem[pc])

\* A system call may change the code it works on; mremap empties the list of
\* translated pages.  Cached blocks stay.
Syscall ==
    /\ Calling
    /\ pc' = pc + INSTR_SIZE
    /\ flags' = IF mem[pc].op = "exit" THEN flags \cup {"EXITED"} ELSE flags
    /\ mem' \in AfterCall(mem, pc, PCs, PageSize)
    /\ translated_pages' = IF mem[pc].op = "mremap" THEN {} ELSE translated_pages
    /\ iter' = iter + 1
    /\ UNCHANGED <<cacheVars, x30, lr, phase, exec, pool>>

Miss ==
    /\ Running
    /\ ~Hits(pc)
    /\ Mapped(pc)
    /\ ~IsSvc(mem[pc])
    /\ phase' = "translate"
    /\ UNCHANGED <<cacheVars, mem, cpuVars, iter, exec, pool, translated_pages>>

TranslateFault ==
    /\ phase = "translate"
    /\ LookaheadFaults(mem, pc)
    /\ HostFault

TranslateNothing ==
    /\ phase = "translate"
    /\ FetchLen(mem, pc) = 0
    /\ ~LookaheadFaults(mem, pc)
    /\ phase' = "interp"
    /\ UNCHANGED <<cacheVars, mem, cpuVars, iter, exec, pool, translated_pages>>

TranslateAlloc ==
    /\ phase = "translate"
    /\ FetchLen(mem, pc) > 0
    /\ ~LookaheadFaults(mem, pc)
    /\ \/ AllocHostCode(pc, ALLOC) /\ phase' = "emit"
       \/ AllocHostCodeFails(ALLOC) /\ phase' = "interp"
    /\ UNCHANGED <<mem, cpuVars, iter, exec, pool, translated_pages>>

\* Lower into the buffer, insert the block, mark its page, and run it: run
\* executes the BlockInfo that translate_block returns without a lookup.
TranslateEmit ==
    /\ phase = "emit"
    /\ pool' = [pool EXCEPT ![pending.host_code] = Fetched(mem, pc)]
    /\ Insert(ALLOC)
    /\ translated_pages' = translated_pages \cup {PageOf(pc)}
    /\ exec' = [host_code |-> pending.host_code, at |-> 1]
    /\ phase' = "exec"
    /\ UNCHANGED <<mem, cpuVars, iter>>

-----------------------------------------------------------------------------
(* Host code.  at counts the instructions of the block from 1; ctx.pc keeps *)
(* the address the block was entered at until the block sets it and returns.*)

Code == pool[exec.host_code]

Cur == Code.instrs[exec.at]

GuestAt == Code.arm_pc + INSTR_SIZE * (exec.at - 1)

InBlock(ops) ==
    phase = "exec" /\ exec.at <= Len(Code.instrs) /\ Cur.op \in ops

\* The block sets ctx.pc, returns to run, and run counts the iteration.
ReturnTo(target) ==
    /\ pc' = target
    /\ iter' = iter + 1
    /\ phase' = "loop"
    /\ exec' = Idle

\* A BR is lowered to a NOP: the block goes on to its end.
RunNext ==
    /\ InBlock({"seq", "unsup", "br"})
    /\ exec' = [exec EXCEPT !.at = @ + 1]
    /\ UNCHANGED <<cacheVars, mem, cpuVars, iter, phase, pool, translated_pages>>

RunStore ==
    /\ InBlock({"st"})
    /\ Mapped(GuestAt + Cur.off)
    /\ mem' = Overwritten(mem, GuestAt + Cur.off)
    /\ exec' = [exec EXCEPT !.at = @ + 1]
    /\ UNCHANGED <<cacheVars, cpuVars, iter, phase, pool, translated_pages>>

\* Mutant: the offset of B is not sign-extended.
RunBZeroExtended ==
    /\ InBlock({"b"})
    /\ ReturnTo(ZeroExtended(GuestAt, Cur.off))
    /\ UNCHANGED <<cacheVars, mem, x30, lr, flags, pool, translated_pages>>

RunB ==
    /\ InBlock({"b"})
    /\ ReturnTo(SignExtended(GuestAt, Cur.off))
    /\ UNCHANGED <<cacheVars, mem, x30, lr, flags, pool, translated_pages>>

RunBL ==
    /\ InBlock({"bl"})
    /\ x30' = GuestAt + INSTR_SIZE
    /\ ReturnTo(SignExtended(GuestAt, Cur.off))
    /\ UNCHANGED <<cacheVars, mem, lr, flags, pool, translated_pages>>

\* RET is lowered to a load of ctx.lr.
RunRet ==
    /\ InBlock({"ret"})
    /\ ReturnTo(lr)
    /\ UNCHANGED <<cacheVars, mem, x30, lr, flags, pool, translated_pages>>

\* fallthrough_pc_: the address behind the last instruction of the block.
Fallthrough == Code.arm_pc + INSTR_SIZE * Len(Code.instrs)

RunBcond ==
    /\ InBlock({"bcond"})
    /\ \/ ReturnTo(ZeroExtended(GuestAt, Cur.off))
       \/ ReturnTo(Fallthrough)
    /\ UNCHANGED <<cacheVars, mem, x30, lr, flags, pool, translated_pages>>

RunEnd ==
    /\ phase = "exec"
    /\ exec.at > Len(Code.instrs)
    /\ ReturnTo(Fallthrough)
    /\ UNCHANGED <<cacheVars, mem, x30, lr, flags, pool, translated_pages>>

\* A fault in host code: signal_handler sets STATE_CRASHED and jumps into
\* execute_block, which returns; ctx.pc still is the start of the block.
BlockCrash ==
    /\ flags' = flags \cup {"CRASHED"}
    /\ iter' = iter + 1
    /\ phase' = "loop"
    /\ exec' = Idle
    /\ UNCHANGED <<cacheVars, mem, pc, x30, lr, pool, translated_pages>>

RunFault ==
    /\ \/ InBlock({"ldf", "stf"})
       \/ InBlock({"st"}) /\ ~Mapped(GuestAt + Cur.off)
    /\ BlockCrash

\* The emitter drops what is too long for the buffer, and with it the return:
\* the host runs on into the next buffer, or into memory that holds no code.
MayBeCut == phase = "exec" /\ Len(Code.instrs) > FitBlock /\ exec.at > FitBlock

RunOff ==
    /\ MayBeCut
    /\ \/ BlockCrash
       \/ /\ exec.host_code + ALLOC < code_pool_used
          /\ exec' = [host_code |-> exec.host_code + ALLOC, at |-> 1]
          /\ UNCHANGED <<cacheVars, mem, cpuVars, iter, phase, pool, translated_pages>>

-----------------------------------------------------------------------------
(* Interpreter: execute_decoded on one instruction.                         *)

Interpreting(ops) == phase = "interp" /\ mem[pc].op \in ops

Interpreted(target) ==
    /\ pc' = target
    /\ iter' = iter + 1
    /\ phase' = "loop"

\* Mutant: the state is not set to crashed.
InterpUndefinedSilent ==
    /\ Interpreting({"undef"})
    /\ phase' = "loop"
    /\ UNCHANGED <<cacheVars, mem, cpuVars, iter, exec, pool, translated_pages>>

\* The decoder rejects the word: crashed, and the iteration is not counted.
InterpUndefined ==
    /\ Interpreting({"undef"})
    /\ flags' = flags \cup {"CRASHED"}
    /\ phase' = "loop"
    /\ UNCHANGED <<cacheVars, mem, pc, x30, lr, iter, exec, pool, translated_pages>>

\* A failing store is dropped without a word.
InterpNext ==
    /\ \/ Interpreting({"seq", "stf"})
       \/ Interpreting({"st"}) /\ ~Mapped(pc + mem[pc].off)
    /\ Interpreted(pc + INSTR_SIZE)
    /\ UNCHANGED <<cacheVars, mem, x30, lr, flags, exec, pool, translated_pages>>

InterpStore ==
    /\ Interpreting({"st"})
    /\ Mapped(pc + mem[pc].off)
    /\ mem' = Overwritten(mem, pc + mem[pc].off)
    /\ Interpreted(pc + INSTR_SIZE)
    /\ UNCHANGED <<cacheVars, x30, lr, flags, exec, pool, translated_pages>>

\* A load that fails, or an opcode execute_decoded has no case for.  (Its 32-bit
\* load is not checked and would fault, but no word decodes to that opcode.)
InterpCrash ==
    /\ Interpreting({"ldf", "unsup"})
    /\ flags' = flags \cup {"CRASHED"}
    /\ Interpreted(pc + INSTR_SIZE)
    /\ UNCHANGED <<cacheVars, mem, x30, lr, exec, pool, translated_pages>>

InterpBranch ==
    /\ Interpreting({"b", "bl", "bcond"})
    /\ \/ Interpreted(ZeroExtended(pc, mem[pc].off))
       \/ mem[pc].op = "bcond" /\ Interpreted(pc + INSTR_SIZE)
    /\ x30' = IF mem[pc].op = "bl" THEN pc + INSTR_SIZE ELSE x30
    /\ UNCHANGED <<cacheVars, mem, lr, flags, exec, pool, translated_pages>>

InterpRegister ==
    /\ Interpreting({"ret", "br"})
    /\ Interpreted(x30)
    /\ UNCHANGED <<cacheVars, mem, x30, lr, flags, exec, pool, translated_pages>>

-----------------------------------------------------------------------------

RunLoop == Stop \/ LookupHit \/ FetchFault \/ Syscall \/ Miss

Translate == TranslateFault \/ TranslateNothing \/ TranslateAlloc \/ TranslateEmit

Execute == RunNext \/ RunStore \/ RunB \/ RunBL \/ RunRet \/ RunBcond \/ RunEnd
                \/ RunFault \/ RunOff

Interpret == InterpUndefined \/ InterpNext \/ InterpStore \/ InterpCrash
                \/ InterpBranch \/ InterpRegister

\* run has returned or the process is gone; any other state must have a step.
Finished == phase \in {"done", "killed"} /\ UNCHANGED engineVars

Next == RunLoop \/ Translate \/ Execute \/ Interpret \/ Finished

Spec == Init /\ [][Next]_engineVars

\* The loop is one thread of straight-line C++: the host schedules it.
FairSpec == Spec /\ WF_engineVars(Next)

-----------------------------------------------------------------------------
(* Properties                                                              *)

\* Type invariant of the engine's own state.
EngineTypeOK ==
    /\ CodeMemory(mem, PCs)
    /\ pc \in Int /\ x30 \in Int /\ lr = 0
    /\ flags \subseteq {"CRASHED", "EXITED"}
    /\ iter \in 0..MaxIter
    /\ phase \in {"loop", "translate", "emit", "interp", "exec", "done", "killed"}
    /\ exec.host_code \in Nat /\ exec.at \in Nat
    /\ translated_pages \subseteq {PageOf(p) : p \in PCs}

\* Cache coherence: the host code a lookup may hand out was translated from
\* this very address, and from instructions that memory still holds, through
\* eviction, retranslation, a full pool and reuse of the map.
CacheCoherent ==
    \A p \in DOMAIN block_map :
        LET code == pool[block_map[p].host_code]
        IN  block_map[p].is_valid =>
                /\ code.arm_pc = p
                /\ \A k \in DOMAIN code.instrs :
                      LET a == p + INSTR_SIZE * (k - 1)
                      IN  a \in DOMAIN mem /\ code.instrs[k] = mem[a]

\* What a lookup hands out for p is a block translated at p: at least one and at
\* most max_instr instructions, a branch only at the end, so that fallthrough_pc_
\* is the address behind it.  It holds through eviction, a full pool, code that
\* is overwritten, unmapped or moved, and host code that runs off its buffer.
BlocksWellFormed ==
    \A p \in DOMAIN block_map :
        LET code == pool[block_map[p].host_code]
        IN  /\ code.arm_pc = p
            /\ Len(code.instrs) \in 1..MaxBlock
            /\ \A k \in DOMAIN code.instrs : IsBranch(code.instrs[k]) => k = Len(code.instrs)

\* Whatever the guest does (loops, faults, undefined words), run returns or the
\* process dies: every turn of the loop counts an iteration or ends the loop,
\* and host code always comes back.
Termination == <>(phase \in {"done", "killed"})

\* Once the pool is used up it stays so, through every eviction: the map never
\* gains a block again, each miss costs a cached one, and the emulator ends up
\* in the interpreter.
ExhaustionIsPermanent ==
    [][~Fits(ALLOC) /\ pending = NoBuffer
          => /\ ~Fits(ALLOC)' /\ pending' = NoBuffer
             /\ DOMAIN block_map' \subseteq DOMAIN block_map]_engineVars

-----------------------------------------------------------------------------
(* Where the engine is known to differ from an Arm machine.                 *)

\* The guest address a store is about to overwrite.
StoreTarget ==
    IF phase = "exec" THEN GuestAt + Cur.off ELSE pc + mem[pc].off

\* Some block that may still run was translated from the instruction at a.
\* Nothing invalidates it.
IsTranslated(a) ==
    \E h \in {block_map[p].host_code : p \in DOMAIN block_map} \cup {exec.host_code} :
        \E k \in DOMAIN pool[h].instrs : a = pool[h].arm_pc + INSTR_SIZE * (k - 1)

\* The next step leaves the guest's path:
\*   - a translated RET reads ctx.lr, which nothing sets; a BR is a NOP;
\*   - a backward offset is zero-extended by a translated conditional branch
\*     and by every interpreted one;
\*   - the interpreter crashes on what it has no case for and drops a store
\*     that fails;
\*   - a store, or a system call, changes code that has been translated;
\*   - a block may be too long for its buffer.
Diverges ==
    \/ InBlock({"ret", "br"})
    \/ InBlock({"bcond"}) /\ Cur.off < 0
    \/ Interpreting({"b", "bl", "bcond"}) /\ mem[pc].off < 0
    \/ Interpreting({"unsup", "stf"})
    \/ Interpreting({"st"}) /\ ~Mapped(StoreTarget)
    \/ (InBlock({"st"}) \/ Interpreting({"st"})) /\ IsTranslated(StoreTarget)
    \/ Calling /\ \E a \in CallReaches(mem[pc], pc, PCs, PageSize) : IsTranslated(a)
    \/ MayBeCut

\* The behaviours of Spec up to the first such step.
SupportedSpec ==
    Init /\ [][IF Diverges THEN UNCHANGED engineVars ELSE Next]_engineVars

-----------------------------------------------------------------------------
(* Refinement                                                              *)

guestStatus ==
    IF "CRASHED" \in flags THEN "crashed"
    ELSE IF "EXITED" \in flags THEN "exited"
    ELSE IF phase = "done" THEN "limit"
    ELSE "running"

guestPC ==
    IF "CRASHED" \in flags THEN -1
    ELSE IF phase = "exec" THEN GuestAt
    ELSE pc

Guest == INSTANCE GuestMachine WITH pc <- guestPC, status <- guestStatus

\* The engine implements the machine that fetches every instruction from memory
\* when it executes it: cached blocks, fallthrough, early fetch of a whole
\* block, interpreter and crash handling are invisible to the guest.
ImplementsGuest == Guest!GuestSpec
=============================================================================
