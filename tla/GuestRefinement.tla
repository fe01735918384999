--------------------------- MODULE GuestRefinement ---------------------------
(***************************************************************************)
(* The engine implements the guest machine: the proof, step by step, for   *)
(* every program, capacity, pool size, block length and iteration limit.   *)
(***************************************************************************)
EXTENDS ExecEngineProofs

\* How the guest machine sees the engine while nothing has crashed or exited:
\* inside a block at the instruction being executed, outside at ctx.pc.
LEMMA GuestView ==
    ASSUME flags = {}
    PROVE  /\ phase # "done" => guestStatus = "running"
           /\ phase = "done" => guestStatus = "limit"
           /\ phase = "exec" => guestPC = GuestAt
           /\ phase # "exec" => guestPC = pc
BY DEF guestStatus, guestPC

\* The same in the state after a step.
LEMMA GuestViewNext ==
    ASSUME flags' = {}
    PROVE  /\ phase' # "done" => guestStatus' = "running"
           /\ phase' = "done" => guestStatus' = "limit"
           /\ phase' = "exec" => guestPC' = GuestAt'
           /\ phase' # "exec" => guestPC' = pc'
BY DEF guestStatus, guestPC

\* A crash ends the guest's path.
LEMMA CrashedView ==
    ASSUME "CRASHED" \in flags' PROVE guestStatus' = "crashed" /\ guestPC' = -1
BY DEF guestStatus, guestPC

\* Code memory is finite.
LEMMA FiniteCode ==
    ASSUME NEW m, CodeMemory(m, PCs)
    PROVE  IsFiniteSet(DOMAIN m) /\ Cardinality(DOMAIN m) \in Nat
<1>1. IsFiniteSet(DOMAIN m)
  BY CacheConstants, FS_Subset DEF CodeMemory
<1> QED
  BY <1>1, FS_CardinalityType

\* Execution from an address that cannot be executed crashes at once.
LEMMA FaultsNow ==
    ASSUME CoherentInv, guestPC \in Int, Guest!Faults(guestPC)
    PROVE  Guest!Doomed
<1>1. Cardinality(DOMAIN mem) \in Nat
  BY FiniteCode DEF CoherentInv, EngineInv, EngineTypeOK
<1>2. 0 \in 0..Guest!Cardinality(DOMAIN mem)
  BY <1>1 DEF Cardinality, Guest!Cardinality
<1>3. Guest!StraightFor(mem, guestPC, 0)
  BY DEF Guest!StraightFor
<1>4. guestPC + Guest!INSTR_SIZE * 0 = guestPC
  BY DEF Guest!INSTR_SIZE
<1> QED
  BY <1>2, <1>3, <1>4 DEF Guest!Doomed

\* A straight-line run has no more instructions than are mapped.
LEMMA RunIsMapped ==
    ASSUME NEW m, CodeMemory(m, PCs), NEW a \in Int, NEW n \in Nat, StraightFor(m, a, n)
    PROVE  n <= Cardinality(DOMAIN m)
<1> DEFINE f == [k \in 0..n-1 |-> a + INSTR_SIZE * k]
<1>1. f \in [0..n-1 -> DOMAIN m]
  BY DEF StraightFor
<1>2. \A j, k \in 0..n-1 : f[j] = f[k] => j = k
  BY DEF INSTR_SIZE
<1>3. DOMAIN f = 0..n-1
  OBVIOUS
<1> HIDE DEF f
<1>4. f \in Injection(0..n-1, DOMAIN m)
  BY <1>1, <1>2, <1>3 DEF Injection, IsInjective
<1>5. Cardinality(0..n-1) <= Cardinality(DOMAIN m) /\ Cardinality(DOMAIN m) \in Nat
  BY <1>4, FiniteCode, FS_Injection
<1>6. Cardinality(0..n-1) = n
  BY FS_Interval
<1> QED
  BY <1>5, <1>6

\* Reading past mapped code while it looks ahead, translate_block faults where
\* the guest, going on straight, would fault later.
LEMMA LookaheadDoomed ==
    ASSUME CoherentInv, pc \in Int, guestPC = pc, LookaheadFaults(mem, pc)
    PROVE  Guest!Doomed
<1> DEFINE n == StraightRun(mem, pc, MaxBlock)
<1>1. CodeMemory(mem, PCs)
  BY DEF CoherentInv, EngineInv, EngineTypeOK
<1>2. n \in Nat /\ StraightFor(mem, pc, n)
  BY EngineConstants, StraightRunFact
<1>3. pc + INSTR_SIZE * n \notin DOMAIN mem
  BY DEF LookaheadFaults
<1> HIDE DEF n
<1>4. n \in 0..Cardinality(DOMAIN mem)
  BY <1>1, <1>2, RunIsMapped, FiniteCode
<1>5. Guest!StraightFor(mem, guestPC, n)
  BY <1>2 DEF StraightFor, Guest!StraightFor, INSTR_SIZE, Guest!INSTR_SIZE, IsStraight,
     Guest!IsStraight, Decodes, Guest!Decodes, IsSvc, Guest!IsSvc, IsBranch, Guest!IsBranch
<1>6. Guest!Faults(guestPC + Guest!INSTR_SIZE * n)
  BY <1>3 DEF Guest!Faults, Guest!INSTR_SIZE, INSTR_SIZE
<1>7. n \in 0..Guest!Cardinality(DOMAIN mem)
  BY <1>4 DEF Cardinality, Guest!Cardinality
<1> QED
  BY <1>5, <1>6, <1>7 DEF Guest!Doomed

\* A crash of the engine is a crash of a machine that is doomed.
LEMMA CrashStep ==
    ASSUME guestStatus = "running", Guest!Doomed, "CRASHED" \in flags', UNCHANGED <<mem, x30>>
    PROVE  Guest!GuestNext
BY CrashedView DEF Guest!GuestNext, Guest!Crash, Guest!NoPC

-----------------------------------------------------------------------------
(* Steps                                                                   *)

\* A step of the engine is one of the guest machine or invisible to it.
Simulated == Guest!GuestNext \/ UNCHANGED Guest!guestVars

\* Steps of the run loop: a lookup and a miss are invisible, a system call is
\* one instruction, the end of the loop is the machine giving up.
LEMMA RunLoopSimulated == ASSUME CoherentInv, RunLoop PROVE Simulated
<1>1. /\ pc \in Int /\ x30 \in Int
      /\ flags \subseteq {"CRASHED", "EXITED"}
  BY DEF CoherentInv, EngineInv, EngineTypeOK
<1>2. ASSUME Running PROVE guestStatus = "running" /\ guestPC = pc
  BY <1>2, GuestView DEF Running
<1>3. CASE Stop
  <2>1. UNCHANGED <<mem, pc, x30, flags>> /\ phase = "loop" /\ phase' = "done"
    BY <1>3 DEF Stop, cpuVars
  <2>2. CASE flags = {}
    BY <2>1, <2>2, GuestView, GuestViewNext DEF Simulated, Guest!GuestNext, Guest!GiveUp
  <2>3. CASE flags # {}
    <3>1. "CRASHED" \in flags \/ "EXITED" \in flags
      BY <1>1, <2>3
    <3>2. guestPC' = guestPC /\ guestStatus' = guestStatus
      BY <2>1, <3>1 DEF guestPC, guestStatus
    <3> QED
      BY <2>1, <3>2 DEF Simulated, Guest!guestVars
  <2> QED
    BY <2>2, <2>3
<1>4. CASE LookupHit
  <2>1. /\ Running /\ pc \in DOMAIN block_map
        /\ exec' = [host_code |-> block_map[pc].host_code, at |-> 1]
        /\ UNCHANGED <<mem, x30, flags, pool>> /\ phase' = "exec"
    BY <1>4 DEF LookupHit, Lookup, Hits, cpuVars
  <2>2. pool[block_map[pc].host_code].arm_pc = pc
    BY <2>1 DEF CoherentInv, BlocksMatch
  <2>3. GuestAt' = pc
    BY <1>1, <2>1, <2>2 DEF GuestAt, Code, INSTR_SIZE
  <2>4. guestPC' = pc /\ guestStatus' = "running"
    BY <2>1, <2>3, GuestViewNext DEF Running
  <2> QED
    BY <1>2, <2>1, <2>4 DEF Simulated, Guest!guestVars
<1>5. CASE FetchFault
  <2>1. Running /\ pc \notin DOMAIN mem /\ "CRASHED" \in flags' /\ UNCHANGED <<mem, x30>>
    BY <1>5 DEF FetchFault, HostFault, Mapped
  <2>2. Guest!Faults(guestPC)
    BY <1>1, <1>2, <2>1 DEF Guest!Faults
  <2> QED
    BY <1>1, <1>2, <2>1, <2>2, FaultsNow, CrashStep DEF Simulated
<1>6. CASE Syscall
  <2>1. /\ Running /\ pc \in DOMAIN mem /\ pc' = pc + INSTR_SIZE
        /\ mem[pc].op \in {"svc", "read", "map", "mremap", "exit"}
        /\ flags' = IF mem[pc].op = "exit" THEN flags \cup {"EXITED"} ELSE flags
        /\ UNCHANGED <<x30, phase>>
    BY <1>6 DEF Syscall, Calling, Mapped, IsSvc
  <2>2. flags = {} /\ phase = "loop"
    BY <2>1 DEF Running
  <2>3. CASE mem[pc].op = "exit"
    <3>1. guestStatus' = "exited" /\ guestPC' = pc'
      BY <2>1, <2>2, <2>3 DEF guestStatus, guestPC
    <3>2. mem' = mem
      BY <1>6, <2>3 DEF Syscall, AfterCall
    <3> QED
      BY <1>1, <1>2, <2>1, <2>3, <3>1, <3>2 DEF Simulated, Guest!GuestNext, Guest!Exit, Guest!At,
         INSTR_SIZE, Guest!INSTR_SIZE
  <2>4. CASE mem[pc].op \in {"svc", "read", "map", "mremap"}
    <3>1. guestStatus' = "running" /\ guestPC' = pc'
      BY <2>1, <2>2, <2>4, GuestViewNext
    <3>2. mem' \in Guest!AfterCall(mem, guestPC, PCs, PageSize)
      BY <1>2, <1>6, <2>1 DEF Syscall, AfterCall, Guest!AfterCall, CallReaches, Guest!CallReaches,
         Plain, Guest!Plain, Zero, Guest!Zero
    <3> QED
      BY <1>1, <1>2, <2>1, <2>4, <3>1, <3>2 DEF Simulated, Guest!GuestNext, Guest!SystemCall, Guest!At,
         INSTR_SIZE, Guest!INSTR_SIZE
  <2> QED
    BY <2>1, <2>3, <2>4
<1>7. CASE Miss
  <2>1. Running /\ UNCHANGED <<mem, pc, x30, flags>> /\ phase' = "translate"
    BY <1>7 DEF Miss, cpuVars
  <2>2. guestPC' = pc /\ guestStatus' = "running"
    BY <2>1, GuestViewNext DEF Running
  <2> QED
    BY <1>2, <2>1, <2>2 DEF Simulated, Guest!guestVars
<1> QED
  BY <1>3, <1>4, <1>5, <1>6, <1>7 DEF RunLoop

\* Steps of translate_block: they are invisible, except that the emulator dies
\* of an early fault.
LEMMA TranslateSimulated == ASSUME CoherentInv, Translate PROVE Simulated
<1>1. /\ pc \in Int /\ CodeMemory(mem, PCs)
      /\ flags = {} /\ phase \in {"translate", "emit"}
  BY DEF CoherentInv, EngineInv, EngineTypeOK, Control, Translate, TranslateFault,
     TranslateNothing, TranslateAlloc, TranslateEmit
<1>2. guestStatus = "running" /\ guestPC = pc
  BY <1>1, GuestView
<1>3. CASE TranslateFault
  <2>1. LookaheadFaults(mem, pc) /\ "CRASHED" \in flags' /\ UNCHANGED <<mem, x30>>
    BY <1>3 DEF TranslateFault, HostFault
  <2> QED
    BY <1>1, <1>2, <2>1, LookaheadDoomed, CrashStep DEF Simulated
<1>4. CASE TranslateNothing \/ TranslateAlloc
  <2>1. UNCHANGED <<mem, pc, x30, flags>> /\ phase' \in {"interp", "emit"}
    BY <1>4 DEF TranslateNothing, TranslateAlloc, cpuVars
  <2>2. guestPC' = pc /\ guestStatus' = "running"
    BY <1>1, <2>1, GuestViewNext
  <2> QED
    BY <1>2, <2>1, <2>2 DEF Simulated, Guest!guestVars
<1>5. CASE TranslateEmit
  <2>1. /\ UNCHANGED <<mem, pc, x30, flags>> /\ phase' = "exec"
        /\ exec' = [host_code |-> pending.host_code, at |-> 1]
        /\ pool' = [pool EXCEPT ![pending.host_code] = Fetched(mem, pc)]
    BY <1>5 DEF TranslateEmit, cpuVars
  <2>2. pending.host_code \in DOMAIN pool
    <3>1. /\ pending \in Buffer /\ PendingDisjoint /\ pending # NoBuffer
          /\ code_pool_used \in 0..PoolSize /\ DOMAIN pool = 0..PoolSize-1
      BY <1>5 DEF TranslateEmit, CoherentInv, EngineInv, Control, CacheInv, CacheTypeOK
    <3> QED
      BY <3>1, CacheConstants DEF Buffer, PendingDisjoint
  <2>3. Code' = Fetched(mem, pc)
    BY <2>1, <2>2 DEF Code
  <2>4. Code'.arm_pc = pc
    BY <1>1, <2>3, FetchedCode
  <2>5. GuestAt' = pc
    BY <1>1, <2>1, <2>4 DEF GuestAt, INSTR_SIZE
  <2>6. guestPC' = pc /\ guestStatus' = "running"
    BY <1>1, <2>1, <2>5, GuestViewNext
  <2> QED
    BY <1>2, <2>1, <2>6 DEF Simulated, Guest!guestVars
<1> QED
  BY <1>3, <1>4, <1>5 DEF Translate

\* Inside a block that matches memory, the instruction being executed is the
\* one memory holds at the guest's pc, and a branch is the block's last.
LEMMA CurIsFetched ==
    ASSUME CoherentInv, phase = "exec"
    PROVE  /\ flags = {} /\ guestStatus = "running" /\ guestPC = GuestAt
           /\ GuestAt \in Int /\ Fallthrough \in Int /\ Code.arm_pc \in Int
           /\ exec.at \in 1..Len(Code.instrs) + 1 /\ Len(Code.instrs) \in Nat
           /\ exec.at <= Len(Code.instrs) =>
                 /\ GuestAt \in DOMAIN mem /\ mem[GuestAt] = Cur
                 /\ Cur.off \in Int
                 /\ IsBranch(Cur) => GuestAt + INSTR_SIZE = Fallthrough
<1>1. /\ GuestAt \in Int /\ Fallthrough \in Int /\ Code \in HostCode
      /\ Len(Code.instrs) \in Nat
      /\ exec.at <= Len(Code.instrs) => Cur \in Instruction
  BY CodeTyped DEF CoherentInv
<1>2. flags = {} /\ exec.at \in 1..Len(Code.instrs) + 1
  BY DEF CoherentInv, EngineInv, Control
<1>3. guestStatus = "running" /\ guestPC = GuestAt
  BY <1>2, GuestView
<1>4. Code.arm_pc \in Int
  BY <1>1 DEF HostCode
<1>5. ASSUME exec.at <= Len(Code.instrs)
      PROVE  /\ GuestAt \in DOMAIN mem /\ mem[GuestAt] = Cur
             /\ Cur.off \in Int
             /\ IsBranch(Cur) => GuestAt + INSTR_SIZE = Fallthrough
  <2>1. exec.at \in 1..Len(Code.instrs)
    BY <1>1, <1>2, <1>5
  <2>2. /\ GuestAt \in DOMAIN mem /\ mem[GuestAt] = Cur
        /\ IsBranch(Cur) => exec.at = Len(Code.instrs)
    BY <2>1 DEF CoherentInv, RunningMatches, Matches, GuestAt, Cur
  <2>3. exec.at = Len(Code.instrs) => GuestAt + INSTR_SIZE = Fallthrough
    BY <1>1, <1>4 DEF GuestAt, Fallthrough, INSTR_SIZE
  <2>4. Cur.off \in Int
    BY <1>1, <1>5 DEF Instruction
  <2> QED
    BY <2>2, <2>3, <2>4
<1> QED
  BY <1>1, <1>2, <1>3, <1>4, <1>5

\* Steps of host code: each is the instruction that memory holds, the end of a
\* block is invisible.
LEMMA ExecuteSimulated == ASSUME CoherentInv, Execute, ~Diverges PROVE Simulated
<1>1. phase = "exec"
  BY DEF Execute, RunNext, RunStore, RunB, RunBL, RunRet, RunBcond, RunEnd, RunFault, RunOff, MayBeCut, InBlock
<1>2. /\ flags = {} /\ guestStatus = "running" /\ guestPC = GuestAt
      /\ GuestAt \in Int /\ Fallthrough \in Int /\ Code.arm_pc \in Int
      /\ exec.at \in 1..Len(Code.instrs) + 1 /\ Len(Code.instrs) \in Nat
      /\ exec.at <= Len(Code.instrs) =>
            /\ GuestAt \in DOMAIN mem /\ mem[GuestAt] = Cur
            /\ Cur.off \in Int
            /\ IsBranch(Cur) => GuestAt + INSTR_SIZE = Fallthrough
  BY <1>1, CurIsFetched DEF CoherentInv, EngineInv, EngineTypeOK
<1>3. ASSUME exec' = [exec EXCEPT !.at = exec.at + 1],
             UNCHANGED <<cpuVars, phase, pool>>
      PROVE  guestStatus' = "running" /\ guestPC' = GuestAt + INSTR_SIZE
  <2>1. exec'.host_code = exec.host_code /\ exec'.at = exec.at + 1 /\ exec.at \in Nat
    BY <1>3 DEF CoherentInv, EngineInv, Control
  <2>2. Code'.arm_pc = Code.arm_pc
    BY <1>3, <2>1 DEF Code
  <2>3. GuestAt' = GuestAt + INSTR_SIZE
    BY <1>2, <2>1, <2>2 DEF GuestAt, INSTR_SIZE
  <2> QED
    BY <1>1, <1>2, <1>3, <2>3, GuestViewNext DEF cpuVars
<1>4. ASSUME NEW target, ReturnTo(target), flags' = flags
      PROVE  guestStatus' = "running" /\ guestPC' = target
  BY <1>2, <1>4, GuestViewNext DEF ReturnTo
<1>5. INSTR_SIZE = Guest!INSTR_SIZE
  BY DEF INSTR_SIZE, Guest!INSTR_SIZE
<1>6. CASE RunNext
  <2>1. /\ exec.at <= Len(Code.instrs) /\ Cur.op \in {"seq", "unsup"}
        /\ exec' = [exec EXCEPT !.at = exec.at + 1]
        /\ UNCHANGED <<mem, cpuVars, phase, pool>>
    BY <1>6 DEF RunNext, InBlock, Diverges
  <2> QED
    BY <1>2, <1>3, <1>5, <2>1 DEF Simulated, Guest!GuestNext, Guest!Advance, Guest!At, cpuVars
<1>7. CASE RunStore
  <2>1. /\ exec.at <= Len(Code.instrs) /\ Cur.op = "st"
        /\ GuestAt + Cur.off \in DOMAIN mem
        /\ mem' = Overwritten(mem, GuestAt + Cur.off)
        /\ exec' = [exec EXCEPT !.at = exec.at + 1]
        /\ UNCHANGED <<cpuVars, phase, pool>>
    BY <1>7 DEF RunStore, InBlock, Mapped
  <2>2. mem' = Guest!Overwritten(mem, guestPC + mem[guestPC].off)
    BY <1>2, <2>1 DEF Overwritten, Guest!Overwritten, Plain, Guest!Plain
  <2> QED
    BY <1>2, <1>3, <1>5, <2>1, <2>2 DEF Simulated, Guest!GuestNext, Guest!Store, Guest!At, cpuVars
<1>8. CASE RunB
  <2>1. /\ exec.at <= Len(Code.instrs) /\ Cur.op = "b"
        /\ ReturnTo(GuestAt + Cur.off)
        /\ UNCHANGED <<mem, x30, flags>>
    BY <1>8 DEF RunB, InBlock, SignExtended
  <2> QED
    BY <1>2, <1>4, <2>1 DEF Simulated, Guest!GuestNext, Guest!Branch, Guest!At
<1>9. CASE RunBL
  <2>1. /\ exec.at <= Len(Code.instrs) /\ Cur.op = "bl"
        /\ x30' = GuestAt + INSTR_SIZE
        /\ ReturnTo(GuestAt + Cur.off)
        /\ UNCHANGED <<mem, flags>>
    BY <1>9 DEF RunBL, InBlock, SignExtended
  <2> QED
    BY <1>2, <1>4, <1>5, <2>1 DEF Simulated, Guest!GuestNext, Guest!BranchLink, Guest!At
<1>10. ~RunRet
  BY DEF RunRet, Diverges, InBlock
<1>11. CASE RunBcond
  <2>1. /\ exec.at <= Len(Code.instrs) /\ Cur.op = "bcond"
        /\ UNCHANGED <<mem, x30, flags>>
        /\ ~(Cur.off < 0)
    BY <1>11 DEF RunBcond, InBlock, Diverges
  <2>2. IsBranch(Cur)
    BY <2>1 DEF IsBranch
  <2>3. ReturnTo(GuestAt + Cur.off) \/ ReturnTo(GuestAt + INSTR_SIZE)
    BY <1>2, <1>11, <2>1, <2>2 DEF RunBcond, ZeroExtended
  <2> QED
    BY <1>2, <1>4, <1>5, <2>1, <2>3 DEF Simulated, Guest!GuestNext, Guest!Branch, Guest!At
<1>12. CASE RunEnd
  <2>1. exec.at = Len(Code.instrs) + 1
    BY <1>2, <1>12 DEF RunEnd
  <2>2. Fallthrough = GuestAt
    BY <1>2, <2>1 DEF Fallthrough, GuestAt, INSTR_SIZE
  <2> QED
    BY <1>2, <1>4, <1>12, <2>2 DEF RunEnd, Simulated, Guest!guestVars
<1>13. CASE RunFault
  <2>1. /\ exec.at <= Len(Code.instrs)
        /\ Cur.op \in {"ldf", "stf"} \/ (Cur.op = "st" /\ GuestAt + Cur.off \notin DOMAIN mem)
        /\ "CRASHED" \in flags' /\ UNCHANGED <<mem, x30>>
    BY <1>13 DEF RunFault, BlockCrash, InBlock, Mapped
  <2>2. Guest!Faults(guestPC)
    BY <1>2, <2>1 DEF Guest!Faults
  <2> QED
    BY <1>2, <2>1, <2>2, FaultsNow, CrashStep DEF Simulated
<1>14. ~RunOff
  BY DEF RunOff, Diverges
<1> QED
  BY <1>6, <1>7, <1>8, <1>9, <1>10, <1>11, <1>12, <1>13, <1>14 DEF Execute

\* Steps of the interpreter: each is the instruction at ctx.pc.
LEMMA InterpretSimulated == ASSUME CoherentInv, Interpret, ~Diverges PROVE Simulated
<1>1. phase = "interp"
  BY DEF Interpret, InterpUndefined, InterpNext, InterpStore, InterpCrash, InterpBranch,
     InterpRegister, Interpreting
<1>2. /\ flags = {} /\ pc \in DOMAIN mem /\ pc \in Int
      /\ mem[pc].off \in Int
  BY <1>1 DEF CoherentInv, EngineInv, EngineTypeOK, CodeMemory, Control, Instruction
<1>3. guestStatus = "running" /\ guestPC = pc
  BY <1>1, <1>2, GuestView
<1>4. ASSUME NEW target, Interpreted(target), flags' = flags
      PROVE  guestStatus' = "running" /\ guestPC' = target
  BY <1>2, <1>4, GuestViewNext DEF Interpreted
<1>5. INSTR_SIZE = Guest!INSTR_SIZE
  BY DEF INSTR_SIZE, Guest!INSTR_SIZE
<1>6. CASE InterpUndefined
  <2>1. mem[pc].op = "undef" /\ "CRASHED" \in flags' /\ UNCHANGED <<mem, x30>>
    BY <1>6 DEF InterpUndefined, Interpreting
  <2> QED
    BY <1>2, <1>3, <2>1, FaultsNow, CrashStep DEF Simulated, Guest!Faults
<1>7. CASE InterpNext
  <2>1. mem[pc].op = "seq" /\ Interpreted(pc + INSTR_SIZE) /\ UNCHANGED <<mem, x30, flags>>
    BY <1>7 DEF InterpNext, Diverges, Interpreting, StoreTarget, Mapped
  <2> QED
    BY <1>2, <1>3, <1>4, <1>5, <2>1 DEF Simulated, Guest!GuestNext, Guest!Advance, Guest!At
<1>8. CASE InterpStore
  <2>1. /\ mem[pc].op = "st" /\ Interpreted(pc + INSTR_SIZE)
        /\ pc + mem[pc].off \in DOMAIN mem
        /\ mem' = Overwritten(mem, pc + mem[pc].off)
        /\ UNCHANGED <<x30, flags>>
    BY <1>8 DEF InterpStore, Interpreting, Mapped
  <2>2. mem' = Guest!Overwritten(mem, guestPC + mem[guestPC].off)
    BY <1>3, <2>1 DEF Overwritten, Guest!Overwritten, Plain, Guest!Plain
  <2> QED
    BY <1>2, <1>3, <1>4, <1>5, <2>1, <2>2 DEF Simulated, Guest!GuestNext, Guest!Store, Guest!At
<1>9. CASE InterpCrash
  <2>1. mem[pc].op = "ldf" /\ "CRASHED" \in flags' /\ UNCHANGED <<mem, x30>>
    BY <1>9 DEF InterpCrash, Diverges, Interpreting
  <2> QED
    BY <1>2, <1>3, <2>1, FaultsNow, CrashStep DEF Simulated, Guest!Faults
<1>10. CASE InterpBranch
  <2>1. /\ mem[pc].op \in {"b", "bl", "bcond"} /\ ~(mem[pc].off < 0)
        /\ x30' = IF mem[pc].op = "bl" THEN pc + INSTR_SIZE ELSE x30
        /\ UNCHANGED <<mem, flags>>
    BY <1>10 DEF InterpBranch, Diverges, Interpreting
  <2>2. \/ Interpreted(pc + mem[pc].off)
        \/ mem[pc].op = "bcond" /\ Interpreted(pc + INSTR_SIZE)
    BY <1>2, <1>10, <2>1 DEF InterpBranch, ZeroExtended
  <2>3. \/ guestStatus' = "running" /\ guestPC' = pc + mem[pc].off
        \/ mem[pc].op = "bcond" /\ guestStatus' = "running" /\ guestPC' = pc + INSTR_SIZE
    BY <1>4, <2>1, <2>2
  <2>4. CASE mem[pc].op = "bl"
    BY <1>2, <1>3, <1>5, <2>1, <2>3, <2>4 DEF Simulated, Guest!GuestNext, Guest!BranchLink, Guest!At
  <2>5. CASE mem[pc].op \in {"b", "bcond"}
    BY <1>2, <1>3, <1>5, <2>1, <2>3, <2>5 DEF Simulated, Guest!GuestNext, Guest!Branch, Guest!At
  <2> QED
    BY <2>1, <2>4, <2>5
<1>11. CASE InterpRegister
  <2>1. /\ mem[pc].op \in {"ret", "br"} /\ Interpreted(x30)
        /\ UNCHANGED <<mem, x30, flags>>
    BY <1>11 DEF InterpRegister, Interpreting
  <2> QED
    BY <1>2, <1>3, <1>4, <2>1 DEF Simulated, Guest!GuestNext, Guest!BranchRegister, Guest!At
<1> QED
  BY <1>6, <1>7, <1>8, <1>9, <1>10, <1>11 DEF Interpret

\* Every step of a supported behaviour is a step of the guest machine or
\* invisible to it.
LEMMA StepSimulated ==
    CoherentInv /\ [SupportedNext]_engineVars => [Guest!GuestNext]_Guest!guestVars
<1> SUFFICES ASSUME CoherentInv, [SupportedNext]_engineVars PROVE Simulated
  BY DEF Simulated
<1>1. UNCHANGED engineVars \/ (Next /\ ~Diverges)
  BY DEF SupportedNext
<1>2. CASE UNCHANGED engineVars
  BY <1>2 DEF engineVars, cpuVars, Simulated, Guest!guestVars, guestPC, guestStatus, GuestAt, Code
<1>3. CASE Next /\ ~Diverges
  BY <1>2, <1>3, RunLoopSimulated, TranslateSimulated, ExecuteSimulated, InterpretSimulated
     DEF Next, Finished
<1> QED
  BY <1>1, <1>2, <1>3

\* Refinement: the engine (lookup, translation of whole blocks ahead of
\* their execution, host code, eviction, interpreter, crash handling) is seen by
\* the guest as a machine that fetches each instruction from memory when it
\* executes it, up to the first of the steps that Diverges lists.
THEOREM EngineImplementsGuest == SupportedSpec => ImplementsGuest
<1>1. Init => Guest!GuestInit
  BY EngineConstants DEF Init, Guest!GuestInit, guestPC, guestStatus
<1> QED
  BY <1>1, StepSimulated, CoherentInvariant, PTL
     DEF SupportedSpec, SupportedNext, ImplementsGuest, Guest!GuestSpec

=============================================================================
