------------------------------ MODULE Decoder ------------------------------
(***************************************************************************)
(* ARM64Decoder::decode (src/src/decoder/arm64_decoder.cpp): which of the  *)
(* emulator's opcodes an A64 word becomes, and with which operands.        *)
(*                                                                         *)
(* A word is a pair of halfwords, <<bits 31 to 16, bits 15 to 0>>, as is a *)
(* uint32_t in the result.  A 64-bit field holds the integer it stands for,*)
(* negative where the code stores a sign-extended value.  The decoder is a *)
(* chain of tests of which the first that holds decides; First says so of a*)
(* sequence of pairs <<test, result>>.                                     *)
(***************************************************************************)
EXTENDS Integers, Sequences, SequencesExt

CONSTANTS Words   \* the words to decode

VARIABLES word, out

decVars == <<word, out>>

-----------------------------------------------------------------------------
(* Bit fields.                                                              *)

\* bits(instr, hi, lo), for fields of at most 30 bits.
Bits(w, hi, lo) ==
    (IF lo > 15 THEN w[1] \div 2^(lo - 16)
     ELSE IF hi < 16 THEN w[2] \div 2^lo
     ELSE (w[1] % 2^(hi - 15)) * 2^(16 - lo) + w[2] \div 2^lo) % 2^(hi - lo + 1)

Bit(w, i) == Bits(w, i, i) = 1

\* Mutant: the sign bit is looked for one place too high.
SignExtendLate(v, width) ==
    LET low == v % 2^width
    IN  IF low >= 2^width THEN low - 2^width ELSE low

SignExtend(v, width) ==
    LET low == v % 2^width
    IN  IF low >= 2^(width - 1) THEN low - 2^width ELSE low

\* An int32_t stored in a uint32_t.
Halves(v) == <<(v \div 2^16) % 2^16, v % 2^16>>

-----------------------------------------------------------------------------
(* DecodedInstr                                                             *)

NO_REG == 255

Zeroed == [category |-> "UNKNOWN", opcode |-> 0, rd |-> 0, rn |-> 0, rm |-> 0, rt |-> 0,
           imm |-> 0, imm_s |-> 0, shift_type |-> 0, shift_amount |-> 0, size |-> 0,
           cond |-> 0, sets_flags |-> FALSE, is_pc_relative |-> FALSE,
           branch_offset |-> <<0, 0>>]

Rejected == Zeroed

Accepted(d) == d.category # "UNKNOWN"

Instr(category, opcode) == [Zeroed EXCEPT !.category = category, !.opcode = opcode]

First(rules) ==
    LET i == SelectInSeq(rules, LAMBDA r : r[1])
    IN  IF i = 0 THEN Rejected ELSE rules[i][2]

\* The operands of a two-register operation, from their usual places.
Operands(d, w) ==
    [d EXCEPT !.rd = Bits(w, 4, 0), !.rn = Bits(w, 9, 5), !.rm = Bits(w, 20, 16)]

\* Mutant: the amount is read one bit too wide.
ShiftedWide(d, w) ==
    [d EXCEPT !.shift_type = Bits(w, 23, 22), !.shift_amount = Bits(w, 16, 10)]

Shifted(d, w) ==
    [d EXCEPT !.shift_type = Bits(w, 23, 22), !.shift_amount = Bits(w, 15, 10)]

-----------------------------------------------------------------------------
(* decode_data_proc_reg                                                     *)

\* Bits 30 to 24 of the logical operations; any other pattern defaults to AND.
LogicalOpcode(w) ==
    LET i == SelectInSeq(<<\b0000000, \b0000001, \b0101010, \b0101011, \b1001000, \b1001001,
                           \b0001010, \b0001011>>, LAMBDA p : p = Bits(w, 30, 24))
    IN  IF i = 0 THEN 16 ELSE 15 + i

AddSubRegister(w, opcode) ==
    [Shifted(Operands(Instr("INTEGER_ARITH", opcode), w), w) EXCEPT !.sets_flags = Bit(w, 29)]

Logical(w) ==
    [Shifted(Operands(Instr("LOGICAL", LogicalOpcode(w)), w), w)
        EXCEPT !.sets_flags = LogicalOpcode(w) \in {22, 23}]

Compare(w, opcode) ==
    [Instr("COMPARE", opcode) EXCEPT !.rn = Bits(w, 9, 5), !.rm = Bits(w, 20, 16),
                                     !.sets_flags = TRUE]

DecodeDataProcReg(w) ==
    LET op == Bits(w, 30, 21)
        d == First(<<
          <<op \in {\h02C, \h2AC}, AddSubRegister(w, 0)>>,
          <<op \in {\h034, \h234}, AddSubRegister(w, 1)>>,
          <<Bits(w, 30, 29) # 3 /\ Bits(w, 28, 24) \in (0..3) \cup (8..11), Logical(w)>>,
          <<op = \h2A0 /\ Bits(w, 9, 5) = 31, Operands(Instr("MOVE", \h20), w)>>,
          <<op = \h1B0, Operands(Instr("INTEGER_ARITH", IF Bits(w, 15, 10) = 31 THEN 2 ELSE 3), w)>>,
          <<op = \h1AC, Operands(Instr("INTEGER_ARITH", IF Bits(w, 11, 10) = 1 THEN 5 ELSE 4), w)>>,
          <<Bits(w, 30, 22) = \h0D3, Operands(Instr("SHIFT", Bits(w, 23, 22)), w)>>,
          <<op = \h2B0 /\ Bits(w, 4, 0) = 31, Compare(w, \h30)>>,
          <<op = \h2A0 /\ Bits(w, 4, 0) = 31 /\ Bits(w, 28, 24) = \b01010, Compare(w, \h31)>>,
          <<Bits(w, 30, 24) = \h1A8,
            [Operands(Instr("BRANCH_COND", \h40), w) EXCEPT !.cond = Bits(w, 15, 12)]>> >>)
    IN  [d EXCEPT !.size = Bits(w, 31, 31)]

-----------------------------------------------------------------------------
(* decode_data_proc_imm                                                     *)

IsAddSubImm(w) == Bits(w, 30, 24) \in {\b0010001, \b1010001, \b0110001, \b1110001}

\* sets_flags is bit 30, which tells SUB from ADD.
AddSubImm(w) ==
    [Operands(Instr("INTEGER_ARITH", IF Bit(w, 30) THEN 1 ELSE 0), w)
        EXCEPT !.rm = NO_REG, !.sets_flags = Bit(w, 30),
               !.imm = Bits(w, 21, 10) * (IF Bit(w, 22) THEN 4096 ELSE 1)]

IsBitfield(w) == Bits(w, 28, 23) \in {\b100110, \b100111}

Bitfield(w) ==
    LET sbfm == Bits(w, 28, 23) = \b100110
        immr == Bits(w, 21, 16)
        imms == Bits(w, 15, 10)
        opcode == IF imms = 63 THEN (IF sbfm THEN 4 ELSE 5)
                  ELSE IF ~sbfm /\ imms = 63 - immr THEN 6
                  ELSE IF sbfm THEN 7 ELSE 8
    IN  [Operands(Instr("INTEGER_ARITH", opcode), w)
            EXCEPT !.rm = NO_REG, !.imm = immr, !.imm_s = IF opcode \in {7, 8} THEN imms ELSE 0]

IsMoveWide(w) == Bits(w, 28, 23) = \b100101

\* No opcode is stored for the unallocated opc = 1: it stays 0, which is ADD.
MoveWide(w) ==
    [Instr("MOVE", <<\h21, 0, \h22, \h23>>[Bits(w, 30, 29) + 1])
        EXCEPT !.rd = Bits(w, 4, 0), !.imm = Bits(w, 20, 5)]

DecodeDataProcImm(w) ==
    LET d == First(<< <<IsAddSubImm(w), AddSubImm(w)>>,
                      <<IsBitfield(w), Bitfield(w)>>,
                      <<IsMoveWide(w), MoveWide(w)>> >>)
    IN  [d EXCEPT !.size = Bits(w, 31, 31)]

-----------------------------------------------------------------------------
(* decode_branch, decode_test_branch                                        *)

BranchOffset(w, v, width) == Halves(SignExtend(v, width) * 4)

\* Mutant: the low five bits, which tell SVC from BRK and HLT, are not tested.
IsBranchRegisterLoose(w) == Bits(w, 31, 26) = \b110101 /\ Bits(w, 15, 10) = 0

IsBranchRegister(w) == Bits(w, 31, 26) = \b110101 /\ Bits(w, 15, 10) = 0 /\ Bits(w, 4, 0) = 0

\* B.cond and CBZ take their offset from bits 18 to 0 of the word.
DecodeBranch(w) ==
    First(<<
      <<Bits(w, 31, 26) \in {\b000101, \b100101},
        [Instr("BRANCH", IF Bit(w, 31) THEN \h51 ELSE \h50)
            EXCEPT !.branch_offset = BranchOffset(w, Bits(w, 25, 0), 26)]>>,
      <<IsBranchRegister(w),
        [Instr("BRANCH", IF Bits(w, 9, 5) = 30 THEN \h53 ELSE \h52) EXCEPT !.rn = Bits(w, 9, 5)]>>,
      <<Bits(w, 31, 25) = \b0101010,
        [Instr("BRANCH_COND", \h54)
            EXCEPT !.cond = Bits(w, 3, 0), !.branch_offset = BranchOffset(w, Bits(w, 18, 0), 19)]>>,
      <<Bits(w, 31, 25) \in {\b0011010, \b1011010},
        [Instr("BRANCH_COND", IF Bit(w, 24) THEN \h56 ELSE \h55)
            EXCEPT !.rn = Bits(w, 9, 5), !.size = Bits(w, 31, 31),
                   !.branch_offset = BranchOffset(w, Bits(w, 18, 0), 19)]>> >>)

DecodeTestBranch(w) ==
    [Instr("BRANCH_COND", IF Bit(w, 24) THEN \h58 ELSE \h57)
        EXCEPT !.rn = Bits(w, 4, 0), !.size = Bits(w, 31, 31), !.cond = Bits(w, 24, 24),
               !.imm = Bits(w, 23, 19), !.branch_offset = BranchOffset(w, Bits(w, 18, 5), 14)]

-----------------------------------------------------------------------------
(* decode_load_store                                                        *)

\* Mutant: the size is read with the bit below it.
TransferBit29(w) ==
    [Instr("LOAD_STORE", (IF Bit(w, 22) THEN \h60 ELSE \h70) + Bits(w, 31, 29))
        EXCEPT !.rt = Bits(w, 4, 0), !.rn = Bits(w, 9, 5)]

Transfer(w) ==
    [Instr("LOAD_STORE", (IF Bit(w, 22) THEN \h60 ELSE \h70) + Bits(w, 31, 30))
        EXCEPT !.rt = Bits(w, 4, 0), !.rn = Bits(w, 9, 5)]

RegisterOffset(w) ==
    [Transfer(w) EXCEPT !.rm = Bits(w, 20, 16), !.shift_type = Bits(w, 13, 12)]

Pair(w) ==
    [Instr("LOAD_STORE_PAIR", IF Bit(w, 22) THEN \h80 ELSE \h81)
        EXCEPT !.rt = Bits(w, 4, 0), !.rn = Bits(w, 9, 5), !.rm = Bits(w, 14, 10),
               !.imm = Bits(w, 21, 15), !.imm_s = SignExtend(Bits(w, 21, 15), 7) * 8]

\* size is what an earlier attempt left in the record.
DecodeLoadStore(w, size) ==
    LET form == Bits(w, 28, 26)
        imm9 == SignExtend(Bits(w, 20, 12), 9)
        d == First(<<
          <<form = \b111, [Transfer(w) EXCEPT !.imm = Bits(w, 21, 10) * 2^Bits(w, 31, 30)]>>,
          <<form = \b010, RegisterOffset(w)>>,
          <<form = \b011, [Transfer(w) EXCEPT !.rm = NO_REG, !.imm_s = imm9, !.imm = imm9]>>,
          <<form = \b110, RegisterOffset(w)>>,
          <<Bits(w, 31, 25) = \b0010100, Pair(w)>> >>)
    IN  [d EXCEPT !.size = size]

-----------------------------------------------------------------------------
(* decode_system, decode_pcrel, decode_simd                                 *)

\* The kind of a barrier is read from CRm, bits 11 to 8.
DecodeSystem(w, size) ==
    LET crm == SelectInSeq(<<\b0101, \b0110, \b0111, \b0000, \b0001>>,
                           LAMBDA p : p = Bits(w, 11, 8))
        d == First(<<
          <<w = <<\hD503, \h201F>>, Instr("SYSTEM", \h90)>>,
          <<Bits(w, 31, 22) = \b1101010100,
            [Instr("SYSTEM", \h90 + crm) EXCEPT !.rd = Bits(w, 4, 0)]>> >>)
    IN  [d EXCEPT !.size = size]

Imm21(w) == SignExtend(Bits(w, 23, 5) * 4 + Bits(w, 30, 29), 21)

Address(w, opcode) ==
    [Instr("MOVE", opcode) EXCEPT !.rd = Bits(w, 4, 0), !.imm_s = Imm21(w), !.imm = Imm21(w),
                                  !.is_pc_relative = TRUE]

IsAdrp(w) == Bits(w, 31, 24) \in {\b10010000, \b10110000, \b11010000, \b11110000}

IsLiteral(w) == Bits(w, 31, 26) = \b010110

Literal(w) ==
    [Instr(IF Bits(w, 31, 30) < 2 THEN "LOAD_STORE" ELSE "SIMD_FP",
           <<\h62, \h63, 0, 0>>[Bits(w, 31, 30) + 1])
        EXCEPT !.rt = Bits(w, 4, 0), !.rn = 31, !.imm_s = SignExtend(Bits(w, 23, 5), 19),
               !.is_pc_relative = TRUE]

DecodePcrel(w) ==
    First(<< <<Bits(w, 31, 24) = \b00010000, Address(w, \h24)>>,
             <<IsAdrp(w), Address(w, \h25)>>,
             <<IsLiteral(w), Literal(w)>> >>)

\* DUP, then ADD, SUB, AND, ORR, EOR and BIC by bits 14 to 10.
DecodeSimd(w) ==
    LET low == Bits(w, 14, 10)
        op == SelectInSeq(<<\h10, \h12, \h00, \h01, \h02, \h03>>, LAMBDA p : p = low)
        vec == [Instr("SIMD_FP", \hA0 + op)
                  EXCEPT !.rd = Bits(w, 4, 0), !.rn = Bits(w, 5, 5), !.size = Bits(w, 23, 22)]
    IN  First(<<
          <<Bits(w, 31, 24) = \h4E /\ Bits(w, 20, 16) = 0 /\ low = 0,
            [vec EXCEPT !.opcode = \hA0, !.rm = Bits(w, 9, 5)]>>,
          <<Bits(w, 31, 24) = \h4E /\ Bits(w, 20, 16) = \h10 /\ op # 0,
            [vec EXCEPT !.rm = Bits(w, 16, 16)]>> >>)

-----------------------------------------------------------------------------
(* decode                                                                   *)

\* Mutant: the patterns of bits 28 to 24 become a range.
IsRegisterFormRange(w) == Bits(w, 28, 24) <= \b11001

IsRegisterForm(w) == Bits(w, 28, 24) \in (0..\b01011) \cup (\b10000..\b10011) \cup {\b11000, \b11001}

Decode(w) ==
    LET op1 == Bits(w, 31, 29)
        op == Bits(w, 30, 29)
        \* The size field after decode_data_proc_reg has rejected the word.
        size == IF IsRegisterForm(w) THEN Bits(w, 31, 31) ELSE 0
        reg == DecodeDataProcReg(w)
        imm == DecodeDataProcImm(w)
    IN  First(<<
          <<Bits(w, 31, 24) = \b00010000 \/ IsAdrp(w) \/ IsLiteral(w), DecodePcrel(w)>>,
          <<Bits(w, 31, 25) \in {\b00110110, \b00110111}, DecodeTestBranch(w)>>,
          <<op1 = 5 /\ IsAddSubImm(w), imm>>,
          <<op1 = 5 /\ IsRegisterForm(w), reg>>,
          <<op1 = 5, DecodeBranch(w)>>,
          <<Bits(w, 31, 26) \in {\b000101, \b100101}, DecodeBranch(w)>>,
          <<IsRegisterForm(w) /\ Accepted(reg), reg>>,
          <<IsMoveWide(w) \/ IsAddSubImm(w), imm>>,
          <<Bits(w, 31, 25) = \b0101010 \/ IsBranchRegister(w), DecodeBranch(w)>>,
          <<op1 \in {1, 2, 3, 7}, DecodeLoadStore(w, size)>>,
          <<IsBitfield(w), imm>>,
          <<op \in {0, 1} /\ Accepted(reg), reg>>,
          <<op = 2 /\ Accepted(imm), imm>>,
          <<Bits(w, 31, 25) = \b1101010, DecodeSystem(w, Bits(w, 31, 31))>>,
          <<op1 \in {2, 3} /\ Accepted(DecodeSimd(w)), DecodeSimd(w)>> >>)

-----------------------------------------------------------------------------

\* The caller's DecodedInstr before the call.
Pending == [Zeroed EXCEPT !.category = "PENDING"]

DecInit == word \in Words /\ out = Pending

DecodeWord == out' = Decode(word) /\ UNCHANGED word

DecSpec == DecInit /\ [][DecodeWord]_decVars
=============================================================================
