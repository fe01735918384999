---------------------------- MODULE JitPipeline ----------------------------
(***************************************************************************)
(* One basic block on its two ways through the emulator:                   *)
(*   - decoded, built into IR (src/src/ir/ir_builder.cpp), optimised       *)
(*     (ir_optimizer.cpp), lowered (src/src/backend/x86_64_lower.cpp) into *)
(*     a buffer of fixed size, and run as host code on the context jit;    *)
(*   - interpreted, instruction by instruction, by execute_decoded         *)
(*     (src/src/core/exec_engine.cpp) on the context ref.                  *)
(*                                                                         *)
(* A decoded instruction is named by its mnemonic where the code has an    *)
(* opcode number.  Host code is the sequence of IR instructions it was     *)
(* lowered from; the Host* actions say what the emitted bytes do.  Words   *)
(* are modulo Word (2^64), with lanes modulo Lane (2^16) for the move-wide *)
(* instructions; a memory cell is the eight bytes at an address.  Register *)
(* 31 is ctx.sp for both ways: it lies behind x[30].  The branch offset of *)
(* a decoded instruction is a uint32_t, modulo OffsetWrap (2^32); program  *)
(* counters are not wrapped.  Accesses that fault are ExecEngine's matter. *)
(*                                                                         *)
(* Only instructions that ARM64Decoder::decode can produce are modelled: no*)
(* word decodes as CMP, TST, CSEL, a register MOV, a pair or a 32-bit load *)
(* or store, so the code for them is never reached.                        *)
(***************************************************************************)
EXTENDS Integers, Sequences, SequencesExt, Bitwise

CONSTANTS Blocks,    \* decoded blocks to translate
          Contexts,  \* contexts to start from
          Regs, Word, Lane, OffsetWrap, PageSize,
          BufSize    \* bytes of host code asked of alloc_host_code

ASSUME JitConstants ==
    /\ 31 \in Regs /\ 30 \in Regs /\ 0 \in Regs
    /\ Word \in Nat \ {0} /\ Lane \in Nat \ {0} /\ PageSize \in Nat \ {0}
    /\ OffsetWrap \in Nat \ {0}
    /\ BufSize \in Nat
    /\ \A b \in Blocks : Len(b) > 0 /\ \A k \in DOMAIN b : b[k].off \in 0..OffsetWrap-1

VARIABLES block, ir, stage, at, jit, ref

jitVars == <<block, ir, stage, at, jit, ref>>

IR_NONE == 0
IR_IMM == 65535
NO_REG == 255

StartPC == 4
INSTR_SIZE == 4

Wrap(v) == v % Word

PageOf(a) == a - (a % PageSize)

-----------------------------------------------------------------------------
(* IRBuilder                                                                *)

Inst(op) == [op |-> op, dest |-> IR_NONE, src1 |-> IR_NONE, src2 |-> IR_NONE,
             imm |-> 0, cond |-> "EQ", flags_set |-> FALSE, flags_used |-> FALSE]

Jump(op, target) == [Inst(op) EXCEPT !.imm = target]

CondJump(target, cond) ==
    [Jump("JMP_COND", target) EXCEPT !.cond = cond, !.flags_used = TRUE]

BuildArith(op, d) ==
    [Inst(op) EXCEPT !.dest = d.rd, !.src1 = d.rn,
                     !.src2 = IF d.rm = NO_REG THEN IR_IMM ELSE d.rm,
                     !.imm = IF d.rm = NO_REG THEN d.imm ELSE 0,
                     !.flags_set = d.sets_flags]

BuildShift(d) ==
    [Inst([ASR |-> "SAR", LSR |-> "SHR", LSL |-> "SHL"][d.op])
        EXCEPT !.dest = d.rd, !.src1 = d.rn, !.src2 = IR_IMM, !.imm = d.imm]

BuildMovImm(d, value) == [Inst("MOV_IMM") EXCEPT !.dest = d.rd, !.imm = value]

CompareZero(d) == [Inst("CMP") EXCEPT !.src1 = d.rn, !.flags_set = TRUE]

\* Mutant: ADR is computed from the start of the block.
AdrValueFromStart(d, pc) == Wrap(StartPC + d.imm_s)

AdrValue(d, pc) == Wrap(pc + d.imm_s)

AdrpValue(d, pc) == Wrap(PageOf(pc) + d.imm_s * PageSize)

\* int64_t of int32_t of branch_offset.
SignExtended(off) == IF 2 * off < OffsetWrap THEN off ELSE off - OffsetWrap

\* build_instr.  B and BL sign-extend branch_offset; the conditional branches add
\* the uint32_t, so that a backward one goes 2^32 too far.
Build(d, pc) ==
    CASE d.op = "ADD"  -> <<BuildArith("ADD", d)>>
      [] d.op = "SUB"  -> <<BuildArith("SUB", d)>>
      [] d.op \in {"ASR", "LSR", "LSL"} -> <<BuildShift(d)>>
      [] d.op \in {"MOVN", "MOVZ", "MOVK"} -> <<BuildMovImm(d, d.imm)>>
      [] d.op = "ADR"  -> <<BuildMovImm(d, AdrValue(d, pc))>>
      [] d.op = "ADRP" -> <<BuildMovImm(d, AdrpValue(d, pc))>>
      [] d.op = "B"    -> <<Jump("JMP", pc + SignExtended(d.off))>>
      [] d.op = "BL"   -> <<[Inst("SET_REG") EXCEPT !.dest = 30, !.imm = Wrap(pc + INSTR_SIZE)],
                            Jump("CALL", pc + SignExtended(d.off))>>
      [] d.op = "RET"  -> <<[Inst("RET") EXCEPT !.src1 = 30]>>
      [] d.op = "BCOND" -> <<CondJump(pc + d.off, d.cond)>>
      [] d.op = "CBZ"  -> <<CompareZero(d), CondJump(pc + d.off, "EQ")>>
      [] d.op = "CBNZ" -> <<CompareZero(d), CondJump(pc + d.off, "NE")>>
      [] d.op = "LDR"  -> <<[Inst("LOAD64") EXCEPT !.dest = d.rt, !.src1 = d.rn, !.imm = d.imm]>>
      [] d.op = "STR"  -> <<[Inst("STORE64") EXCEPT !.src1 = d.rn, !.src2 = d.rt, !.imm = d.imm]>>
      [] OTHER         -> <<Inst("NOP")>>

\* build: the instructions in order; a branch can only be the last.
BuildBlock(b) ==
    FlattenSeq([k \in DOMAIN b |-> Build(b[k], StartPC + INSTR_SIZE * (k - 1))])

-----------------------------------------------------------------------------
(* IROptimizer::flag_merging; the other two passes are empty.               *)

\* Mutant: the second of two flag setters loses its flags.
FlagMergingDropsLast(is) ==
    [k \in DOMAIN is |->
        [is[k] EXCEPT !.flags_set = @ /\ ~(k > 1 /\ is[k - 1].flags_set /\ ~is[k].flags_used)]]

\* Mutant: no save is dropped.
FlagMergingNone(is) == is

FlagMerging(is) ==
    [k \in DOMAIN is |->
        [is[k] EXCEPT !.flags_set =
            @ /\ ~(k < Len(is) /\ is[k + 1].flags_set /\ ~is[k + 1].flags_used)]]

-----------------------------------------------------------------------------
(* Bytes of host code.                                                      *)

\* A move between a register and [R12 + 8 * r].
CtxMove(r) == IF r = 0 THEN 4 ELSE IF 8 * r <= 127 THEN 5 ELSE 8

\* Seven moves of eight bytes between RAX, RCX, RDX and the context, pushfq and
\* pop rax, and 77 bytes of masking and shifting.
SaveNzcv == 135

\* mov rax, imm64; mov [R12 + CTX_PC_OFFSET], rax; ret.
SetPcAndRet == 10 + 8 + 1

\* A move between a register and [RAX + disp].
MemMove(disp) == IF disp = 0 THEN 3 ELSE IF disp \in -128..127 THEN 4 ELSE 7

\* The second operand of an operation, and the flags it saves.
Operand(i) ==
    (IF i.src2 = IR_IMM \/ i.op = "CMP" THEN 7 ELSE CtxMove(i.src2) + 3)
      + (IF i.flags_set THEN SaveNzcv ELSE 0)

Size(i) ==
    CASE i.op \in {"ADD", "SUB"} -> CtxMove(i.src1) + Operand(i) + CtxMove(i.dest)
      [] i.op = "CMP" -> CtxMove(i.src1) + Operand(i)
      [] i.op \in {"SAR", "SHR", "SHL"} -> CtxMove(i.src1) + 4 + CtxMove(i.dest)
      [] i.op \in {"MOV_IMM", "SET_REG"} -> 10 + CtxMove(i.dest)
      [] i.op = "LOAD64" -> CtxMove(i.src1) + MemMove(i.imm) + CtxMove(i.dest)
      [] i.op = "STORE64" -> CtxMove(i.src1) + CtxMove(i.src2) + MemMove(i.imm)
      [] i.op \in {"JMP", "CALL"} -> SetPcAndRet
      [] i.op = "RET" -> 8 + 8 + 1
      [] i.op = "JMP_COND" -> 6 + 2 * SetPcAndRet
      [] i.op = "NOP" -> 1

Offset(is, k) == 3 + FoldLeft(LAMBDA n, i : n + Size(i), 0, SubSeq(is, 1, k))

\* emit_byte drops what lies past the buffer.
Truncated(is) == Offset(is, Len(is)) + SetPcAndRet > BufSize

-----------------------------------------------------------------------------

JitInit ==
    /\ block \in Blocks
    /\ ir = <<>>
    /\ stage = "build"
    /\ at = 1
    /\ jit \in Contexts
    /\ ref = jit

Translate ==
    /\ stage = "build"
    /\ ir' = FlagMerging(BuildBlock(block))
    /\ stage' = "host"
    /\ UNCHANGED <<block, at, jit, ref>>

\* fallthrough_pc_ of lower_block.
Fallthrough == StartPC + INSTR_SIZE * Len(block)

I == ir[at]

TakesJump == I.op = "JMP_COND" /\ jit.zf = (I.cond = "EQ")

\* Where the code that is run for this instruction ends: the taken path of a
\* conditional jump stands before the other.
CodeEnd == Offset(ir, at) - (IF TakesJump THEN SetPcAndRet ELSE 0)

Op(ops) == stage = "host" /\ at <= Len(ir) /\ CodeEnd <= BufSize /\ I.op \in ops

X(r) == jit.x[r]

\* save_nzcv: ctx.nzcv becomes the EFLAGS this instruction left, named by its
\* place in the block.
Saved(i) == IF i.flags_set THEN at ELSE jit.nzcv

HostNext(c) == jit' = c /\ at' = at + 1 /\ UNCHANGED <<block, ir, stage, ref>>

\* The block sets ctx.pc and returns; the interpreter's turn.
HostReturn(target) ==
    /\ jit' = [jit EXCEPT !.pc = target]
    /\ stage' = "interp" /\ at' = 1
    /\ UNCHANGED <<block, ir, ref>>

Arith(i) ==
    LET b == IF i.src2 = IR_IMM THEN i.imm ELSE X(i.src2)
    IN  Wrap(IF i.op = "ADD" THEN X(i.src1) + b ELSE X(i.src1) - b)

\* After save_nzcv EFLAGS are those of a shift of R9, which nobody set.
ZeroFlags(i, zf) == IF i.flags_set THEN BOOLEAN ELSE {zf}

HostArith ==
    /\ Op({"ADD", "SUB"})
    /\ \E zf \in ZeroFlags(I, Arith(I) = 0) :
          HostNext([jit EXCEPT !.x[I.dest] = Arith(I), !.nzcv = Saved(I), !.zf = zf])

\* The comparison with zero of CBZ and CBNZ.
HostCmp ==
    /\ Op({"CMP"})
    /\ \E zf \in ZeroFlags(I, X(I.src1) = 0) :
          HostNext([jit EXCEPT !.nzcv = Saved(I), !.zf = zf])

Signed(v) == IF 2 * v < Word THEN v ELSE v - Word

\* A shift by zero leaves EFLAGS alone.
HostShift ==
    /\ Op({"SAR", "SHR", "SHL"})
    /\ LET v == CASE I.op = "SAR" -> Wrap(Signed(X(I.src1)) \div 2^I.imm)
                  [] I.op = "SHR" -> X(I.src1) \div 2^I.imm
                  [] I.op = "SHL" -> Wrap(X(I.src1) * 2^I.imm)
       IN  HostNext([jit EXCEPT !.x[I.dest] = v, !.zf = IF I.imm = 0 THEN @ ELSE v = 0])

\* SET_REG is built with no source register.
HostMove ==
    /\ Op({"MOV_IMM", "SET_REG"})
    /\ HostNext([jit EXCEPT !.x[I.dest] = I.imm])

HostLoad ==
    /\ Op({"LOAD64"})
    /\ HostNext([jit EXCEPT !.x[I.dest] = jit.mem[Wrap(X(I.src1) + I.imm)]])

HostStore ==
    /\ Op({"STORE64"})
    /\ HostNext([jit EXCEPT !.mem[Wrap(X(I.src1) + I.imm)] = X(I.src2)])

HostNop == Op({"NOP"}) /\ HostNext(jit)

HostJump == Op({"JMP", "CALL"}) /\ HostReturn(I.imm)

\* RET loads ctx.lr, whatever register it names.
HostRet == Op({"RET"}) /\ HostReturn(jit.lr)

HostCondJump ==
    /\ Op({"JMP_COND"})
    /\ HostReturn(IF TakesJump THEN I.imm ELSE Fallthrough)

\* emit_block_ret(fallthrough_pc_)
HostEnd ==
    /\ stage = "host" /\ at = Len(ir) + 1
    /\ ~Truncated(ir)
    /\ HostReturn(Fallthrough)

\* The code stops in the middle of an instruction and runs on into whatever
\* the pool holds behind the buffer.
HostRunsOff ==
    /\ stage = "host"
    /\ \/ at <= Len(ir) /\ CodeEnd > BufSize
       \/ at = Len(ir) + 1 /\ Truncated(ir)
    /\ stage' = "runaway"
    /\ UNCHANGED <<block, ir, at, jit, ref>>

-----------------------------------------------------------------------------
(* execute_decoded                                                          *)

Interp(ops) == stage = "interp" /\ at <= Len(block) /\ block[at].op \in ops

D == block[at]

R(r) == ref.x[r]

InterpNext(c) ==
    /\ ref' = [c EXCEPT !.pc = @ + INSTR_SIZE]
    /\ at' = at + 1
    /\ UNCHANGED <<block, ir, stage, jit>>

InterpJump(target) ==
    /\ ref' = [ref EXCEPT !.pc = target]
    /\ stage' = "done"
    /\ UNCHANGED <<block, ir, at, jit>>

\* The second operand is the immediate, for the register form too.
InterpArith ==
    /\ Interp({"ADD", "SUB"})
    /\ InterpNext([ref EXCEPT !.x[D.rd] = Wrap(IF D.op = "ADD" THEN R(D.rn) + D.imm
                                               ELSE R(D.rn) - D.imm)])

\* Lane hw of v, the others of r.
Inserted(r, v, hw) ==
    IF hw = 0 THEN (r \div Lane) * Lane + v ELSE (r % Lane) + Lane * v

InterpMoveWide ==
    /\ Interp({"MOVN", "MOVZ", "MOVK"})
    /\ InterpNext([ref EXCEPT !.x[D.rd] =
          CASE D.op = "MOVZ" -> D.imm
            [] D.op = "MOVK" -> Inserted(R(D.rd), D.imm, D.hw)
            [] D.op = "MOVN" -> Wrap(-1 - (IF D.hw = 0 THEN D.imm ELSE Lane * D.imm))])

InterpAddress ==
    /\ Interp({"ADR", "ADRP"})
    /\ InterpNext([ref EXCEPT !.x[D.rd] =
          Wrap(IF D.op = "ADR" THEN ref.pc + D.imm_s ELSE PageOf(ref.pc) + D.imm_s * PageSize)])

InterpLogical ==
    /\ Interp({"AND", "ORR", "EOR"})
    /\ InterpNext([ref EXCEPT !.x[D.rd] =
          CASE D.op = "AND" -> R(D.rn) & R(D.rm)
            [] D.op = "ORR" -> R(D.rn) | R(D.rm)
            [] D.op = "EOR" -> R(D.rn) ^^ R(D.rm)])

\* An immediate offset of zero reads as a register offset, with X0 for rm when
\* the instruction has none; NO_REG marks the pre- and post-indexed forms.
EffectiveAddress ==
    Wrap(IF D.is_pc_relative THEN ref.pc + 4 * D.imm_s
         ELSE R(D.rn) + (IF D.imm # 0 THEN D.imm
                         ELSE IF D.imm_s # 0 THEN D.imm_s
                         ELSE IF D.rm < 31 THEN R(D.rm) * 2^D.shift_type
                         ELSE 0))

InterpLoad ==
    /\ Interp({"LDR"})
    /\ InterpNext([ref EXCEPT !.x[D.rt] = ref.mem[EffectiveAddress]])

InterpStore ==
    /\ Interp({"STR"})
    /\ InterpNext([ref EXCEPT !.mem[EffectiveAddress] = R(D.rt)])

\* The byte and halfword forms, of which the halfword is modelled: base and
\* immediate only, whatever the addressing mode.
NarrowAddress == Wrap(R(D.rn) + D.imm)

InterpLoadNarrow ==
    /\ Interp({"LDRH"})
    /\ InterpNext([ref EXCEPT !.x[D.rt] = ref.mem[NarrowAddress] % Lane])

InterpStoreNarrow ==
    /\ Interp({"STRH"})
    /\ InterpNext([ref EXCEPT !.mem[NarrowAddress] = Inserted(@, R(D.rt) % Lane, 0)])

\* Shifts and barriers decode, but execute_decoded has no case for them: crashed.
InterpUnknown ==
    /\ Interp({"ASR", "LSR", "LSL", "DMB"})
    /\ ref' = [ref EXCEPT !.crashed = TRUE, !.pc = @ + INSTR_SIZE]
    /\ stage' = "done"
    /\ UNCHANGED <<block, ir, at, jit>>

InterpNop == Interp({"NOP"}) /\ InterpNext(ref)

\* Every interpreted branch adds the uint32_t as it is.
InterpB == Interp({"B"}) /\ InterpJump(ref.pc + D.off)

InterpRegister == Interp({"RET", "BR"}) /\ InterpJump(R(D.rn))

InterpBL ==
    /\ Interp({"BL"})
    /\ ref' = [ref EXCEPT !.x[30] = Wrap(ref.pc + INSTR_SIZE), !.pc = @ + D.off]
    /\ stage' = "done"
    /\ UNCHANGED <<block, ir, at, jit>>

\* Bit 30 of ctx.nzcv: clear at the start, and in what save_nzcv leaves, which
\* has nothing in bits 28 to 31 (the shift of RCX into place is encoded for R9).
ZBit(nzcv) == FALSE

CheckCondition(nzcv, cond) == ZBit(nzcv) = (cond = "EQ")

Taken == CASE D.op = "BCOND" -> CheckCondition(ref.nzcv, D.cond)
           [] D.op = "CBZ"   -> R(D.rn) = 0
           [] D.op = "CBNZ"  -> R(D.rn) # 0
           [] D.op = "TBZ"   -> (R(D.rn) \div 2^D.imm) % 2 = 0
           [] D.op = "TBNZ"  -> (R(D.rn) \div 2^D.imm) % 2 = 1

InterpCond ==
    /\ Interp({"BCOND", "CBZ", "CBNZ", "TBZ", "TBNZ"})
    /\ InterpJump(ref.pc + (IF Taken THEN D.off ELSE INSTR_SIZE))

InterpEnd ==
    /\ stage = "interp" /\ at > Len(block)
    /\ stage' = "done"
    /\ UNCHANGED <<block, ir, at, jit, ref>>

-----------------------------------------------------------------------------

RunHost == HostArith \/ HostCmp \/ HostShift \/ HostMove \/ HostLoad \/ HostStore
             \/ HostNop \/ HostJump \/ HostRet \/ HostCondJump \/ HostEnd \/ HostRunsOff

RunInterp == InterpArith \/ InterpMoveWide \/ InterpAddress \/ InterpLogical
               \/ InterpLoad \/ InterpStore \/ InterpLoadNarrow
               \/ InterpStoreNarrow \/ InterpUnknown \/ InterpNop
               \/ InterpB \/ InterpBL \/ InterpRegister \/ InterpCond \/ InterpEnd

Done == stage \in {"done", "runaway"} /\ UNCHANGED jitVars

JitNext == Translate \/ RunHost \/ RunInterp \/ Done

JitSpec == JitInit /\ [][JitNext]_jitVars

-----------------------------------------------------------------------------
(* Properties                                                              *)

\* A block computes the same registers, memory and next pc translated and
\* interpreted: whether it was in the cache, or the pool was full, does not
\* show.  (NZCV is not compared: of the instructions the decoder can produce
\* none writes it when interpreted.)
JitMatchesInterpreter ==
    stage = "done" =>
        jit.x = ref.x /\ jit.mem = ref.mem /\ jit.pc = ref.pc /\ jit.crashed = ref.crashed

\* An instruction both ways give the same meaning.  The others differ: of the
\* register ADD and SUB the interpreter adds an immediate; MOVN and MOVK are
\* built as MOVZ; logical and narrow instructions, TBZ and BR are built as NOPs;
\* an offset of zero reads as a register offset; shifts and barriers crash the
\* interpreter; conditional branches test flags nobody set; a backward B or BL
\* goes 2^32 too far when interpreted; a translated RET goes to ctx.lr, which
\* nothing sets.
SameBothWays(d) ==
    \/ d.op \in {"ADD", "SUB"} /\ d.rm = NO_REG
    \/ d.op \in {"MOVZ", "ADR", "ADRP", "NOP"}
    \/ d.op \in {"B", "BL"} /\ SignExtended(d.off) >= 0
    \/ d.op \in {"LDR", "STR"} /\ d.imm # 0 /\ ~d.is_pc_relative

\* A block of such instructions, however they follow one another, computes the
\* same registers, memory and next pc translated and interpreted.
SupportedBlocksMatch ==
    (\A k \in DOMAIN block : SameBothWays(block[k])) => JitMatchesInterpreter

\* flag_merging drops only saves that a later one overwrites: a block ends with
\* the flags of the last instruction that was built to set them, or with the old
\* ones if there is none.
FlagMergingKeepsLast ==
    stage = "done" =>
        jit.nzcv = SelectLastInSeq(BuildBlock(block), LAMBDA i : i.flags_set)

\* Host code runs off the end of its buffer only for a block of more than 43
\* instructions: what is run of that many always fits the 4096 bytes that
\* translate_block asks for, because flag_merging leaves no two flag saves in a
\* row.  44 may not fit, and translate_block takes up to 64.
ShortBlocksFit == stage = "runaway" => Len(block) > 43
=============================================================================
