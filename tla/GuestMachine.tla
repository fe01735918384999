---------------------------- MODULE GuestMachine ----------------------------
(***************************************************************************)
(* What the emulator promises: an Arm machine that executes the guest's    *)
(* code one instruction at a time.  It has no cache, no translated code and*)
(* no interpreter; every instruction is fetched from memory when it is     *)
(* executed.  Two liberties of an emulator are part of the promise: a crash*)
(* may be reported early, at any point of the straight-line run that leads *)
(* to it, and the emulator may give up (its iteration limit).              *)
(***************************************************************************)
EXTENDS GuestCode, FiniteSets

CONSTANTS Programs,   \* the code memories to start from
          Entry,      \* address of the first instruction
          PCs,        \* addresses that may hold code
          PageSize    \* what mmap works on

VARIABLES mem, pc, x30, status

guestVars == <<mem, pc, x30, status>>

NoPC == -1

GuestInit ==
    /\ mem \in Programs
    /\ pc = Entry
    /\ x30 = 0
    /\ status = "running"

At(ops) == status = "running" /\ pc \in DOMAIN mem /\ mem[pc].op \in ops

Advance ==
    /\ At({"seq", "unsup"})
    /\ pc' = pc + INSTR_SIZE
    /\ UNCHANGED <<mem, x30, status>>

SystemCall ==
    /\ At({"svc", "read", "map", "mremap"})
    /\ mem' \in AfterCall(mem, pc, PCs, PageSize)
    /\ pc' = pc + INSTR_SIZE
    /\ UNCHANGED <<x30, status>>

Store ==
    /\ At({"st"})
    /\ pc + mem[pc].off \in DOMAIN mem
    /\ mem' = Overwritten(mem, pc + mem[pc].off)
    /\ pc' = pc + INSTR_SIZE
    /\ UNCHANGED <<x30, status>>

Branch ==
    /\ At({"b", "bcond"})
    /\ \/ pc' = pc + mem[pc].off
       \/ mem[pc].op = "bcond" /\ pc' = pc + INSTR_SIZE
    /\ UNCHANGED <<mem, x30, status>>

BranchLink ==
    /\ At({"bl"})
    /\ pc' = pc + mem[pc].off
    /\ x30' = pc + INSTR_SIZE
    /\ UNCHANGED <<mem, status>>

BranchRegister ==
    /\ At({"ret", "br"})
    /\ pc' = x30
    /\ UNCHANGED <<mem, x30, status>>

Exit ==
    /\ At({"exit"})
    /\ pc' = pc + INSTR_SIZE
    /\ status' = "exited"
    /\ UNCHANGED <<mem, x30>>

\* The machine stops on this instruction: it is unmapped or undefined, or it
\* accesses memory that is not there.
Faults(a) ==
    \/ a \notin DOMAIN mem
    \/ mem[a].op \in {"undef", "ldf", "stf"}
    \/ mem[a].op = "st" /\ a + mem[a].off \notin DOMAIN mem

\* Straight-line execution from pc reaches an instruction that faults.
Doomed ==
    \E n \in 0..Cardinality(DOMAIN mem) :
        StraightFor(mem, pc, n) /\ Faults(pc + INSTR_SIZE * n)

Crash ==
    /\ status = "running"
    /\ Doomed
    /\ status' = "crashed"
    /\ pc' = NoPC
    /\ UNCHANGED <<mem, x30>>

GiveUp ==
    /\ status = "running"
    /\ status' = "limit"
    /\ UNCHANGED <<mem, pc, x30>>

GuestNext == Advance \/ SystemCall \/ Store \/ Branch \/ BranchLink \/ BranchRegister
                \/ Exit \/ Crash \/ GiveUp

GuestSpec == GuestInit /\ [][GuestNext]_guestVars
=============================================================================
