------------------------------ MODULE Syscalls ------------------------------
(***************************************************************************)
(* System calls: SyscallHandler (src/src/syscall/syscall_handlers.cpp) and *)
(* ExecEngine::handle_syscall, which hands its result to the guest as an   *)
(* int.  The calls on memory act on MemoryManager; read and write copy     *)
(* through a buffer of the emulator; the others go to the host's kernel.   *)
(*                                                                         *)
(* run is the state of the emulator.  input is what is left to read on the *)
(* guest's standard input and given how much of it has reached the guest.  *)
(* last describes the last call: its number, the number the kernel was     *)
(* asked for (-1: none), whether the call succeeded, what the handler      *)
(* returned, and the buffer.  x0 is what the guest sees, as a signed       *)
(* number.  int has IntWord values (2^32).                                 *)
(***************************************************************************)
EXTENDS MemoryManager, SyscallTable

CONSTANTS IntWord,    \* the number of values of an int
          StackBuf,   \* sizeof(stack_buf)
          Input       \* bytes on standard input

ASSUME SyscallConstants ==
    /\ IntWord \in Nat /\ IntWord > 2 * 38 /\ IntWord % 2 = 0
    /\ StackBuf \in Nat /\ Input \in Nat

VARIABLES run, x0, last, input, given

callVars == <<run, x0, last, input, given>>

ENOMEM == 12
EFAULT == 14
ENOSYS == 38

-----------------------------------------------------------------------------

\* handle_syscall: the int64_t result becomes an int, and that x0.
ToInt(result) == ((result + IntWord \div 2) % IntWord) - IntWord \div 2

\* What last remembers of a call.
Call(nr, ok, result) ==
    [nr |-> nr, asked |-> -1, ok |-> ok, result |-> result, buf |-> 0, len |-> 0]

\* The handler returns; the engine stores the result and goes on.
Return(call) == x0' = ToInt(call.result) /\ last' = call /\ UNCHANGED run

\* A fault in a handler: signal_handler jumps to a frame that is gone.
Dies == run' = "died" /\ UNCHANGED <<x0, last>>

SyscallInit ==
    /\ MemInit
    /\ run = "running" /\ x0 = 0 /\ last = Call(0, TRUE, 0)
    /\ input = Input /\ given = 0

-----------------------------------------------------------------------------
(* The calls on memory.  mprotect, munmap and mremap return -1 where the    *)
(* kernel's interface asks for the negated errno; brk returns 0 or -1 where *)
(* it asks for the break.                                                   *)

\* Mutant: a refused mapping is returned as it comes from mmap, as 0.
MmapResultUnchecked(ok, addr) == IF ok THEN addr ELSE 0

MmapResult(ok, addr) == IF ok THEN addr ELSE -ENOMEM

\* Mutant: the address asked for is returned instead of the address mapped.
HandleMmapHint(hint, len, prot) ==
    /\ Mmap(len, prot, hint)
    /\ LET ok == regions' # regions IN Return(Call(222, ok, MmapResult(ok, hint)))
    /\ UNCHANGED <<input, given>>

HandleMmap(hint, len, prot) ==
    /\ Mmap(len, prot, hint)
    /\ LET ok == regions' # regions
       IN  Return(Call(222, ok, MmapResult(ok, MmapAddr(RoundUp(len), hint).addr)))
    /\ UNCHANGED <<input, given>>

\* The kernel's answers: 0 or -1.
Status(ok) == IF ok THEN 0 ELSE -1

HandleMprotect(addr, len, prot, stop) ==
    LET ok == /\ PageAligned(addr) /\ Pages(addr, RoundUp(len)) \subseteq DOMAIN host
              /\ stop = addr + RoundUp(len)
    IN  /\ Mprotect(addr, len, prot, stop)
        /\ Return(Call(226, ok, Status(ok)))
        /\ UNCHANGED <<input, given>>

HandleMunmap(addr, len, ok) ==
    /\ Munmap(addr, len, ok)
    /\ Return(Call(215, ok, Status(ok)))
    /\ UNCHANGED <<input, given>>

QueryBrk ==
    /\ Return(Call(214, TRUE, brk))
    /\ UNCHANGED <<memVars, input, given>>

HandleBrk(new) ==
    LET ok == new >= mmap_base
    IN  /\ SetBrk(new)
        /\ Return(Call(214, ok, Status(ok)))
        /\ UNCHANGED <<input, given>>

HandleMremap(old, oldLen, newLen, result) ==
    /\ Mremap(old, oldLen, newLen, result)
    /\ Return(Call(216, result # -1, result))
    /\ UNCHANGED <<input, given>>

-----------------------------------------------------------------------------
(* read and write: through stack_buf, or a buffer from malloc if that is    *)
(* too small.                                                               *)

Transfer(nr, ok, result, buf, len) == [Call(nr, ok, result) EXCEPT !.buf = buf, !.len = len]

\* malloc fails.
NoBuffer(nr, count) ==
    /\ count > StackBuf
    /\ Return(Call(nr, FALSE, -ENOMEM))
    /\ UNCHANGED <<memVars, input, given>>

\* The kernel refuses (a bad descriptor, an interrupted call), or standard
\* input has come to its end.
ReadNothing(count) ==
    /\ \E result \in {-1} \cup (IF count = 0 \/ input = 0 THEN {0} ELSE {}) :
            Return(Call(63, result = 0, result))
    /\ UNCHANGED <<memVars, input, given>>

\* The kernel has delivered n bytes into the emulator's buffer before the
\* guest's is looked at.
ReadSome(buf, count) ==
    /\ \E n \in 1..count :
         /\ n <= input
         /\ input' = input - n
         /\ \/ /\ ~CheckPerms(buf, n, "W")
               /\ Return(Transfer(63, FALSE, -EFAULT, buf, n)) /\ UNCHANGED given
            \/ /\ CheckPerms(buf, n, "W") /\ \A p \in Touched(buf, n) : HostAllows(p, "W")
               /\ Return(Call(63, TRUE, n)) /\ given' = given + n
            \/ /\ CheckPerms(buf, n, "W") /\ \E p \in Touched(buf, n) : ~HostAllows(p, "W")
               /\ Dies /\ UNCHANGED given
    /\ UNCHANGED memVars

HandleRead(buf, count) == NoBuffer(63, count) \/ ReadNothing(count) \/ ReadSome(buf, count)

HandleWrite(buf, count) ==
    \/ NoBuffer(64, count)
    \/ /\ \/ /\ ~CheckPerms(buf, count, "R")
             /\ Return(Transfer(64, FALSE, -EFAULT, buf, count))
          \/ /\ CheckPerms(buf, count, "R") /\ \A p \in Touched(buf, count) : HostAllows(p, "R")
             /\ \E result \in -1..count : Return(Call(64, result # -1, result))
          \/ /\ CheckPerms(buf, count, "R") /\ \E p \in Touched(buf, count) : ~HostAllows(p, "R")
             /\ Dies
       /\ UNCHANGED <<memVars, input, given>>

-----------------------------------------------------------------------------
(* The other calls.                                                         *)

\* Handlers that pass a number of their own to the kernel: pairs of arm_nr and
\* the SYS_ constant.  rt_sigreturn is HandleRtSigreturn.
Direct == {<<220, 56>>, <<435, 435>>, <<98, 202>>, <<96, 218>>, <<100, 273>>, <<178, 186>>,
           <<167, 157>>, <<278, 318>>, <<69, 295>>, <<70, 296>>, <<71, 40>>, <<76, 275>>}

Handled == {63, 64, 222, 226, 215, 214, 216, 93, 94, 139}

\* execute refuses a number that is not in the table before it looks for a
\* handler; none of those above is refused.
ASSUME HandledInTable == \A nr \in Handled : TranslateNr(nr) >= 0

\* Mutant: the guest's number is handed on as it is.
AskedOfKernelUntranslated(nr) == nr

\* The x86_64 call that execute makes for a call without a handler above.
AskedOfKernel(nr) ==
    IF \E d \in Direct : d[1] = nr THEN (CHOOSE d \in Direct : d[1] = nr)[2] ELSE TranslateNr(nr)

HandleUnknown(nr) ==
    /\ TranslateNr(nr) < 0
    /\ Return(Call(nr, FALSE, -ENOSYS))
    /\ UNCHANGED <<memVars, input, given>>

\* syscall() answers -1 for every error; the kernel's effect on guest memory is
\* not modelled.
PassThrough(nr) ==
    /\ TranslateNr(nr) >= 0 /\ nr \notin Handled
    /\ \E result \in {-1, 0} :
         Return([Call(nr, result # -1, result) EXCEPT !.asked = AskedOfKernel(nr)])
    /\ UNCHANGED <<memVars, input, given>>

\* The kernel takes the emulator's stack for a signal frame.
HandleRtSigreturn == Dies /\ UNCHANGED <<memVars, input, given>>

\* exit and exit_group.
HandleExit(nr, status) ==
    /\ run' = "exited"
    /\ x0' = ToInt(status) /\ last' = Call(nr, TRUE, status)
    /\ UNCHANGED <<memVars, input, given>>

-----------------------------------------------------------------------------
(* Properties                                                               *)

\* Type invariant of the system calls.
SyscallTypeOK ==
    /\ MemTypeOK
    /\ run \in {"running", "exited", "died"}
    /\ x0 \in -(IntWord \div 2) .. IntWord \div 2 - 1
    /\ last.result \in Int /\ last.ok \in BOOLEAN
    /\ input \in 0..Input /\ given \in 0..(Input - input)

\* The numbers for which the kernel is asked for something else than the guest
\* asked for: among them openat (56, a close), uname (160), kill (129), ppoll
\* (73), getdents64 (61) and setsockopt (208).
Mistranslated ==
    {5, 20, 22, 48, 56, 61, 73, 100, 116, 127, 128, 129, 130, 131, 138, 160, 166, 169, 170, 175,
     177, 191, 192, 208, 209, 210, 218, 219, 221, 223, 224, 225, 227, 257, 266}

\* A call that goes to the kernel is the one the guest asked for, by the two
\* kernels' numbering; the exceptions are exactly the 35 numbers above.
SameCallAsked ==
    last.asked # -1 => (<<last.nr, last.asked>> \in SameCall <=> last.nr \notin Mistranslated)

\* The guest sees a negative x0 exactly if the call failed, whatever error path
\* it failed on.  The exception are results that int cannot hold.
FailureSeen == last.result < IntWord \div 2 => (x0 < 0 <=> ~last.ok)

\* A mapping's address that int can hold reaches the guest, who finds there
\* what it asked for: the region is the new one and memory allows its
\* permissions.  An address of 2^31 or more never does.
MmapUsable ==
    last.nr = 222 /\ last.ok =>
        IF last.result < IntWord \div 2
        THEN /\ x0 = Last(regions).addr
             /\ \A needed \in Last(regions).perms : HostAllows(x0, needed)
        ELSE x0 # Last(regions).addr
=============================================================================
