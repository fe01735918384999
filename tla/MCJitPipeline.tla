---------------------------- MODULE MCJitPipeline ----------------------------
(***************************************************************************)
(* Small blocks over four registers and words of four bits.  Contexts give *)
(* every register and every memory cell a value of its own.                *)
(***************************************************************************)
EXTENDS JitPipeline

None == [op |-> "NOP", rd |-> 0, rn |-> 0, rm |-> 0, rt |-> 0, imm |-> 0, imm_s |-> 0,
         hw |-> 0, off |-> 0, cond |-> "EQ", sets_flags |-> FALSE, shift_type |-> 0,
         is_pc_relative |-> FALSE]

Rs == {0, 1, 31}

\* sets_flags is bit 30 of the word: set for SUB, never for ADD.
ArithImm == {[None EXCEPT !.op = o, !.rd = d, !.rn = n, !.rm = NO_REG, !.imm = i,
                          !.sets_flags = (o = "SUB")] :
                o \in {"ADD", "SUB"}, d \in Rs, n \in Rs, i \in {1, 5}}
ArithReg == {[None EXCEPT !.op = "ADD", !.rd = d, !.rn = n, !.rm = m] :
                d \in Rs, n \in Rs, m \in Rs}
Wide(op) == {[None EXCEPT !.op = op, !.rd = d, !.imm = 3, !.hw = h] : d \in Rs, h \in {0, 1}}
Addresses == {[None EXCEPT !.op = o, !.rd = d, !.imm_s = i] :
                o \in {"ADR", "ADRP"}, d \in Rs, i \in {-1, 2}}
Memory(op, imms) == {[None EXCEPT !.op = op, !.rt = t, !.rn = n, !.imm = i] :
                t \in Rs, n \in Rs, i \in imms}
MemoryReg(op) == {[None EXCEPT !.op = op, !.rt = t, !.rn = n, !.rm = 1, !.shift_type = s] :
                t \in Rs, n \in Rs, s \in {0, 2}}
Literals == {[None EXCEPT !.op = "LDR", !.rt = t, !.rn = 31, !.imm_s = 1,
                          !.is_pc_relative = TRUE] : t \in Rs}
Logical == {[None EXCEPT !.op = o, !.rd = d, !.rn = n, !.rm = 0] :
                o \in {"AND", "ORR", "EOR"}, d \in Rs, n \in Rs}
Unknown == {[None EXCEPT !.op = o, !.rd = d, !.rn = d, !.imm = i] :
                o \in {"ASR", "LSR", "LSL", "DMB"}, d \in Rs, i \in {0, 2}}
\* Forward by 12 and, modulo 64, backward by 8.
Offsets == {12, 56}

Jumps == {[None EXCEPT !.op = o, !.off = a] : o \in {"B", "BL"}, a \in Offsets}
Returns == {[None EXCEPT !.op = "RET", !.rn = 30]} \cup {[None EXCEPT !.op = "BR", !.rn = n] : n \in Rs}
CondJumps == {[None EXCEPT !.op = o, !.rn = n, !.off = a, !.cond = c] :
                o \in {"BCOND", "CBZ", "CBNZ"}, n \in {0, 1}, a \in Offsets, c \in {"EQ", "NE"}}
Narrow == Memory("LDRH", {1}) \cup Memory("STRH", {1})
TestJumps == {[None EXCEPT !.op = o, !.rn = 1, !.imm = i, !.off = 12] :
                o \in {"TBZ", "TBNZ"}, i \in {0, 3}}

Memory64 == Memory("LDR", {0, 1, 3}) \cup Memory("STR", {0, 1, 3})

Straight == ArithImm \cup ArithReg \cup Wide("MOVZ") \cup Wide("MOVK") \cup Wide("MOVN")
              \cup Addresses \cup Memory64 \cup MemoryReg("LDR") \cup Literals \cup Narrow
              \cup Logical \cup Unknown \cup {None}

Branches == Jumps \cup Returns \cup CondJumps \cup TestJumps

Matching == {d \in Straight : SameBothWays(d)}

\* The longest translations: a SUB that saves its flags takes 158 bytes, an ADD of
\* registers 27, a store with a far displacement 23, a CBZ 194.
Heavy == {[None EXCEPT !.op = "SUB", !.rd = 31, !.rn = 31, !.rm = NO_REG, !.imm = 1,
                       !.sets_flags = TRUE],
          [None EXCEPT !.op = "ADD", !.rd = 31, !.rn = 31, !.rm = 31],
          [None EXCEPT !.op = "STR", !.rt = 31, !.rn = 31, !.imm = 200]}

HeavyEnds == Heavy \cup {[None EXCEPT !.op = "CBZ", !.rn = 31, !.off = 12]}

\* Two of them in turn, and an end; at and beyond the length that always fits.
LongBlocks == {Append([k \in 1..n |-> IF k % 2 = 1 THEN d ELSE e], f) :
                  n \in {42, 43, 44}, d \in Heavy, e \in Heavy, f \in HeavyEnds}

\* Pairs of instructions of which the first, or both, match; long blocks.
MCBlocks == {<<d, e>> : d \in Matching, e \in Straight \cup Branches}
              \cup {<<d, e>> : d \in Unknown, e \in ArithImm \cup Branches}
              \cup LongBlocks

\* Single comparisons with zero.
CompareBlocks == {<<d>> : d \in {c \in CondJumps : c.op # "BCOND"}}

MCRegs == {0, 1, 30, 31}

\* EFLAGS at the entry of a block are whatever the emulator left in them.
MCContexts ==
    {[x |-> [r \in MCRegs |-> (3 * r + k) % 16], mem |-> [a \in 0..15 |-> (5 * a + 7) % 16],
      pc |-> StartPC, lr |-> 0, nzcv |-> 0, zf |-> (k = 15), crashed |-> FALSE] : k \in {2, 15}}
=============================================================================
