----------------------------- MODULE GuestCode -----------------------------
(***************************************************************************)
(* Guest instructions as the control flow of bbarm64 tells them apart.  A  *)
(* code memory is a function from instruction addresses to instructions; an*)
(* address outside its domain is not mapped.  An instruction is a record   *)
(* [op, off]; off is the distance of a branch target, of the word that a   *)
(* store overwrites, or of the memory that a system call works on.         *)
(* The operations are                                                      *)
(*                                                                         *)
(*   seq    computes, always continues with the next instruction           *)
(*   unsup  decodes, but the IR builder has no case for it                 *)
(*   st     stores a `seq' over the instruction at distance off            *)
(*   ldf    load that faults            stf    store that faults           *)
(*   b, bl, ret, br (through X30), bcond (B.cond, CBZ, CBNZ)               *)
(*   svc    system call that leaves code memory alone                      *)
(*   read   system call that fills a buffer (read, getrandom, ...)         *)
(*   map    mmap or munmap              mremap mremap                       *)
(*   exit   exit or exit_group                                             *)
(*   undef  word that ARM64Decoder::decode rejects                         *)
(***************************************************************************)
EXTENDS Integers, Sequences

INSTR_SIZE == 4

Ops == {"seq", "unsup", "st", "ldf", "stf", "b", "bl", "ret", "br", "bcond",
        "svc", "read", "map", "mremap", "exit", "undef"}

Instruction == [op : Ops, off : Int]

\* m is a code memory within the addresses of S.
CodeMemory(m, S) == DOMAIN m \subseteq S /\ m \in [DOMAIN m -> Instruction]

Plain == [op |-> "seq", off |-> 0]

\* The zeroes of a fresh page decode as AND X0, X0, X0.
Zero == Plain

IsSvc(i) == i.op \in {"svc", "read", "map", "mremap", "exit"}

Decodes(i) == i.op # "undef"

IsBranch(i) == i.op \in {"b", "bl", "ret", "br", "bcond"}

\* An instruction that translate_block pushes and reads on after.
IsStraight(i) == Decodes(i) /\ ~IsSvc(i) /\ ~IsBranch(i)

\* The n instructions from pc on are mapped and straight-line code.
StraightFor(mem, pc, n) ==
    \A k \in 0..n-1 : /\ pc + INSTR_SIZE * k \in DOMAIN mem
                      /\ IsStraight(mem[pc + INSTR_SIZE * k])

\* Length of the straight-line run at pc, cut at limit.
StraightRun(mem, pc, limit) ==
    CHOOSE n \in 0..limit :
        /\ StraightFor(mem, pc, n)
        /\ n = limit \/ ~StraightFor(mem, pc, n + 1)

Overwritten(mem, at) == [mem EXCEPT ![at] = Plain]

\* The addresses of S at which the system call i, made at pc, may change code:
\* one word of a buffer, or a page.
CallReaches(i, pc, S, page) ==
    {a \in S : \/ i.op = "read" /\ a = pc + i.off
               \/ i.op \in {"map", "mremap"} /\ a \div page = (pc + i.off) \div page}

\* The code memories the kernel may leave: as it was when it refuses the call;
\* else a buffer is filled, a page goes, or a fresh one takes its place.
AfterCall(mem, pc, S, page) ==
    LET hit == CallReaches(mem[pc], pc, S, page)
    IN  CASE mem[pc].op = "read" ->
               {mem, [a \in DOMAIN mem |-> IF a \in hit THEN Plain ELSE mem[a]]}
          [] mem[pc].op \in {"map", "mremap"} ->
               {mem, [a \in DOMAIN mem \ hit |-> mem[a]],
                [a \in DOMAIN mem \cup hit |-> IF a \in hit THEN Zero ELSE mem[a]]}
          [] OTHER -> {mem}
=============================================================================
