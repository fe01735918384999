-------------------------------- MODULE A64 --------------------------------
(***************************************************************************)
(* The A64 encodings of instructions that the README of bbarm64 lists, from*)
(* the Arm Architecture Reference Manual, and what decode should make of   *)
(* them.  An encoding is a set of fields with their values, <<high bit, low*)
(* bit, value>>.                                                           *)
(***************************************************************************)
EXTENDS Decoder

Encoding ==
    [ADD    |-> {<<30, 29, 0>>, <<28, 23, \b100010>>},
     ADDS   |-> {<<30, 29, 1>>, <<28, 23, \b100010>>},
     SUB    |-> {<<30, 29, 2>>, <<28, 23, \b100010>>},
     SUBS   |-> {<<30, 29, 3>>, <<28, 23, \b100010>>},
     MOVN   |-> {<<30, 29, 0>>, <<28, 23, \b100101>>},
     MOVZ   |-> {<<30, 29, 2>>, <<28, 23, \b100101>>},
     MOVK   |-> {<<30, 29, 3>>, <<28, 23, \b100101>>},
     ADR    |-> {<<31, 31, 0>>, <<28, 24, \b10000>>},
     ADRP   |-> {<<31, 31, 1>>, <<28, 24, \b10000>>},
     ORR_reg |-> {<<30, 24, \b0101010>>, <<21, 21, 0>>},
     AND_reg |-> {<<30, 24, \b0001010>>, <<21, 21, 0>>},
     EOR_reg |-> {<<30, 24, \b1001010>>, <<21, 21, 0>>},
     ADD_reg |-> {<<30, 24, \b0001011>>, <<21, 21, 0>>},
     SUB_reg |-> {<<30, 24, \b1001011>>, <<21, 21, 0>>},
     MADD   |-> {<<30, 21, \b0011011000>>, <<15, 15, 0>>},
     CSEL   |-> {<<30, 21, \b0011010100>>, <<11, 10, 0>>},
     LDR_lit |-> {<<31, 24, \b01011000>>},
     LDR_imm |-> {<<31, 22, \b1111100101>>},
     STR_imm |-> {<<31, 22, \b1111100100>>},
     LDP    |-> {<<31, 23, \b101010010>>, <<22, 22, 1>>},
     STP    |-> {<<31, 23, \b101010010>>, <<22, 22, 0>>},
     B      |-> {<<31, 26, \b000101>>},
     BL     |-> {<<31, 26, \b100101>>},
     BCOND  |-> {<<31, 24, \b01010100>>, <<4, 4, 0>>},
     CBZ    |-> {<<30, 24, \b0110100>>},
     CBNZ   |-> {<<30, 24, \b0110101>>},
     TBZ    |-> {<<30, 24, \b0110110>>},
     TBNZ   |-> {<<30, 24, \b0110111>>},
     BR     |-> {<<31, 21, \b11010110000>>, <<20, 10, \b11111000000>>, <<4, 0, 0>>},
     BLR    |-> {<<31, 21, \b11010110001>>, <<20, 10, \b11111000000>>, <<4, 0, 0>>},
     RET    |-> {<<31, 21, \b11010110010>>, <<20, 10, \b11111000000>>, <<4, 0, 0>>},
     NOP    |-> {<<31, 16, \hD503>>, <<15, 0, \h201F>>}]

Matches(w, fields) == \A f \in fields : Bits(w, f[1], f[2]) = f[3]

Is(w, name) == Matches(w, Encoding[name])

IsOneOf(w, names) == \E name \in names : Is(w, name)

Branches == {"B", "BL", "BCOND", "CBZ", "CBNZ", "TBZ", "TBNZ", "BR", "BLR", "RET"}

\* The field as a number in two's complement.
Displacement(w, hi, lo) == Bits(w, hi - 1, lo) - (IF Bit(w, hi) THEN 2^(hi - lo) ELSE 0)

\* A uint32_t read as an int32_t.
Int32(halves) == (IF halves[1] < 2^15 THEN halves[1] ELSE halves[1] - 2^16) * 2^16 + halves[2]

\* f is a set of triples <<field of d, high bit, low bit>>.
Fields(d, w, f) == \A t \in f : d[t[1]] = Bits(w, t[2], t[3])

RdRn == {<<"rd", 4, 0>>, <<"rn", 9, 5>>}

RdRnRm == RdRn \cup {<<"rm", 20, 16>>}

\* The width of the operation.
Size == {<<"size", 31, 31>>}

\* d is the instruction `name' with the operands of w.  The record has no field
\* for the shift of a move-wide, which bits 22 and 21 give.
Means(d, w, name) ==
    CASE name \in {"ADD", "ADDS", "SUB", "SUBS"} ->
            /\ d.opcode = (IF name \in {"ADD", "ADDS"} THEN 0 ELSE 1) /\ d.rm = NO_REG
            /\ d.sets_flags = (name \in {"ADDS", "SUBS"})
            /\ Fields(d, w, RdRn \cup Size)
            /\ d.imm = (IF Bit(w, 22) THEN 4096 ELSE 1) * Bits(w, 21, 10)
      [] name \in {"MOVN", "MOVZ", "MOVK"} ->
            /\ d.opcode = [MOVN |-> \h21, MOVZ |-> \h22, MOVK |-> \h23][name]
            /\ Fields(d, w, {<<"rd", 4, 0>>, <<"imm", 20, 5>>} \cup Size)
            /\ Bits(w, 22, 21) = 0
      [] name \in {"ADR", "ADRP"} ->
            /\ d.opcode = (IF name = "ADR" THEN \h24 ELSE \h25)
            /\ Fields(d, w, {<<"rd", 4, 0>>})
            /\ d.imm_s = 4 * Displacement(w, 23, 5) + Bits(w, 30, 29)
      [] name \in {"AND_reg", "ORR_reg", "EOR_reg", "ADD_reg", "SUB_reg"} ->
            /\ d.opcode = [AND_reg |-> \h10, ORR_reg |-> \h12, EOR_reg |-> \h14,
                           ADD_reg |-> 0, SUB_reg |-> 1][name]
            /\ ~d.sets_flags
            /\ Fields(d, w, RdRnRm \cup Size \cup {<<"shift_type", 23, 22>>,
                                                  <<"shift_amount", 15, 10>>})
      [] name = "MADD" -> d.opcode \in {2, 3} /\ Fields(d, w, RdRnRm \cup Size)
      [] name = "CSEL" -> d.opcode = \h40 /\ Fields(d, w, RdRnRm \cup Size \cup {<<"cond", 15, 12>>})
      [] name = "LDR_lit" ->
            /\ d.opcode = \h63 /\ d.is_pc_relative
            /\ Fields(d, w, {<<"rt", 4, 0>>}) /\ d.imm_s = Displacement(w, 23, 5)
      [] name \in {"LDR_imm", "STR_imm"} ->
            /\ d.opcode = (IF name = "LDR_imm" THEN \h63 ELSE \h73)
            /\ Fields(d, w, {<<"rt", 4, 0>>, <<"rn", 9, 5>>})
            /\ d.imm = 8 * Bits(w, 21, 10) /\ d.rm = NO_REG
      [] name \in {"LDP", "STP"} ->
            /\ d.opcode = (IF name = "LDP" THEN \h80 ELSE \h81)
            /\ Fields(d, w, {<<"rt", 4, 0>>, <<"rn", 9, 5>>, <<"rm", 14, 10>>})
            /\ d.imm_s = 8 * Displacement(w, 21, 15)
      [] name \in {"B", "BL"} ->
            /\ d.opcode = (IF name = "B" THEN \h50 ELSE \h51)
            /\ Int32(d.branch_offset) = 4 * Displacement(w, 25, 0)
      [] name \in {"BCOND", "CBZ", "CBNZ"} ->
            /\ d.opcode = [BCOND |-> \h54, CBZ |-> \h55, CBNZ |-> \h56][name]
            /\ Fields(d, w, IF name = "BCOND" THEN {<<"cond", 3, 0>>} ELSE {<<"rn", 4, 0>>})
            /\ Int32(d.branch_offset) = 4 * Displacement(w, 23, 5)
      [] name \in {"TBZ", "TBNZ"} ->
            /\ d.opcode = (IF name = "TBZ" THEN \h57 ELSE \h58)
            /\ Fields(d, w, {<<"rn", 4, 0>>})
            /\ d.imm = 32 * Bits(w, 31, 31) + Bits(w, 23, 19)
            /\ Int32(d.branch_offset) = 4 * Displacement(w, 18, 5)
      [] name \in {"BR", "RET"} ->
            d.opcode = (IF name = "BR" THEN \h52 ELSE \h53) /\ Fields(d, w, {<<"rn", 9, 5>>})
      [] name = "BLR" -> FALSE   \* there is no opcode for it
      [] name = "NOP" -> d.opcode = \h90

-----------------------------------------------------------------------------
(* Properties                                                               *)

Categories == {"PENDING", "UNKNOWN", "INTEGER_ARITH", "LOGICAL", "SHIFT", "MOVE", "COMPARE",
               "BRANCH", "BRANCH_COND", "LOAD_STORE", "LOAD_STORE_PAIR", "SYSTEM", "SIMD_FP"}

\* The fields of a DecodedInstr after any decode fit their members, and every
\* register number is one of the 32 registers or the marker for "no register".
DecTypeOK ==
    /\ out.category \in Categories
    /\ {out.rd, out.rn, out.rt} \subseteq 0..31
    /\ out.rm \in 0..31 \cup {NO_REG}
    /\ out.opcode \in 0..255 /\ out.cond \in 0..15
    /\ out.shift_type \in 0..3 /\ out.shift_amount \in 0..63 /\ out.size \in 0..3
    /\ out.branch_offset \in (0..65535) \X (0..65535)

\* The words decode hands on: the call has returned true.
Decoded == out.category \notin {"PENDING", "UNKNOWN"}

\* A branch is never taken for an instruction that falls through: it is
\* rejected, which stops the block before it, or it has one of the two
\* categories at which run and translate_block end a block.  Otherwise a block
\* would run on past the branch.
BranchesEndBlocks ==
    Decoded /\ IsOneOf(word, Branches) => out.category \in {"BRANCH", "BRANCH_COND"}

\* The opcodes of each category that words reach.  execute_decoded and
\* build_instr dispatch on the opcode alone, so two categories must not
\* share one; opcode 0 of MOVE, the unallocated move, is the exception.
CategoryOpcodes ==
    [INTEGER_ARITH |-> {0, 1} \cup (4..8), LOGICAL |-> \h10..\h17, MOVE |-> {0} \cup (\h21..\h25),
     BRANCH |-> \h50..\h53, BRANCH_COND |-> \h54..\h58,
     LOAD_STORE |-> {\h60, \h61, \h63, \h70, \h71, \h73}, SYSTEM |-> \h90..\h95]

\* Every opcode that decode produces belongs to the category it produces.  The
\* code for the others (MUL, CMP, TST, CSEL, pairs, 32-bit loads and stores,
\* vectors) is reached by no word, and the register form of ADD and SUB only by
\* words of the SVE and unallocated groups (bits 28 to 26 are 001).
OpcodesDisjoint ==
    Decoded => /\ out.category \in DOMAIN CategoryOpcodes
               /\ out.opcode \in CategoryOpcodes[out.category]
               /\ out.category = "INTEGER_ARITH" => out.rm = NO_REG \/ Bits(word, 28, 26) = 1

\* The displacement of a conditional branch and what decode_branch reads for it.
SameOffset(w) == Displacement(w, 23, 5) = Displacement(w, 18, 0)

\* The words of each class that decode makes the right instruction of.
Faithful(w, name) ==
    CASE name \in {"ADD", "SUBS", "ADRP", "ORR_reg", "LDR_lit", "B", "BL", "NOP"} -> TRUE
      [] name \in {"MOVN", "MOVZ", "MOVK"} -> Bits(w, 22, 21) = 0
      [] name = "ADR"   -> Bits(w, 30, 29) = 0
      [] name = "BR"    -> Bits(w, 9, 5) # 30
      [] name = "RET"   -> Bits(w, 9, 5) = 30
      [] name = "BCOND" -> SameOffset(w)
      [] name \in {"CBZ", "CBNZ"} -> Bit(w, 31) /\ SameOffset(w) /\ Bits(w, 9, 5) = Bits(w, 4, 0)
      [] OTHER -> FALSE

\* decode agrees with the architecture on the words of Faithful, and on no
\* other: each is accepted with the opcode, operands, width and flag setting of
\* its encoding, displacements sign-extended.  Of ADD, SUBS, ADRP, ORR, the
\* 64-bit literal load, B, BL and NOP it gets every word right; of move-wide the
\* unshifted ones, of ADR those with a multiple of 4, of BR and RET those whose
\* register tells them apart, of the conditional branches those that read the
\* same in both places; of the other classes none (ADDS, for one, sets no flags
\* and SUB sets them).
FaithfulClasses ==
    out.category # "PENDING" =>
        \A name \in DOMAIN Encoding :
            Is(word, name) => (Decoded /\ Means(out, word, name) <=> Faithful(word, name))

\* The words that are no branches of the README's list and may become one all
\* the same: BRK and HLT, system instructions on X0, register branches with
\* authentication and ERET, BC.cond, a reserved group next to it, and the loads
\* and stores of pairs of D registers.
TakenForBranches ==
    {{<<31, 24, \hD4>>, <<4, 0, 0>>}, {<<31, 24, \hD5>>, <<4, 0, 0>>},
     {<<31, 25, \b1101011>>, <<4, 0, 0>>}, {<<31, 24, \h54>>, <<4, 4, 1>>},
     {<<31, 24, \h55>>}, {<<31, 26, \b011011>>}}

\* Only a branch sends the guest somewhere else, the words of TakenForBranches
\* excepted: no arithmetic, logical or move instruction, no other load or store
\* and no SVC is decoded as a branch, whatever its operands.
OnlyBranchesBranch ==
    out.category \in {"BRANCH", "BRANCH_COND"} =>
        IsOneOf(word, Branches) \/ \E fields \in TakenForBranches : Matches(word, fields)

\* README.md, "Supported Instructions": the classes that it marks as supported
\* are decoded as what they are.
SupportedAsListed ==
    out.category # "PENDING" =>
        \A name \in DOMAIN Encoding \ {"BLR"} :
            Is(word, name) => Decoded /\ Means(out, word, name)
=============================================================================
