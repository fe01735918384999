----------------------------- MODULE MCSyscalls -----------------------------
(***************************************************************************)
(* A guest that makes arbitrary system calls.  Pages are two bytes; hints  *)
(* lie below the arena, and the bump pointer hands out addresses on both   *)
(* sides of the largest int.  whole and refused are history variables.     *)
(* whole: so far the guest has unmapped and protected only what it had     *)
(* mapped, as it had mapped it, and has mapped nothing over something else.*)
(* refused: the regions, by their start, whose last mprotect the kernel    *)
(* has refused.                                                            *)
(***************************************************************************)
EXTENDS Syscalls

CONSTANTS Lens, Hints, Addrs, Prots, Buffers, Counts,
          Targets,  \* what the kernel may answer to mremap
          Entries,  \* addresses blocks start at
          MaxCalls  \* calls in a behaviour

ASSUME CallConstants ==
    /\ Lens \subseteq Nat /\ Hints \subseteq Nat /\ Addrs \subseteq Nat
    /\ Prots \subseteq SUBSET Prot
    /\ Buffers \subseteq Nat /\ Counts \subseteq Nat
    /\ Targets \subseteq Int /\ Entries \subseteq Nat
    /\ MaxCalls \in Nat

VARIABLES whole, refused, calls

ghosts == <<whole, refused>>

mcVars == <<memVars, callVars, whole, refused, calls>>

IsRegion(addr, len) ==
    \E i \in DOMAIN regions : regions[i].addr = addr /\ regions[i].size = RoundUp(len)

\* No region holds any of these bytes.
IsFree(addr, size) ==
    \A i \in DOMAIN regions :
        addr + size <= regions[i].addr \/ regions[i].addr + regions[i].size <= addr

MmapCall ==
    \E hint \in Hints, len \in Lens, prot \in Prots :
        /\ HandleMmap(hint, len, prot)
        /\ whole' = (whole /\ IsFree(MmapAddr(RoundUp(len), hint).addr, RoundUp(len)))
        /\ UNCHANGED refused

MunmapCall ==
    \E addr \in Addrs, len \in Lens, ok \in BOOLEAN :
        /\ HandleMunmap(addr, len, ok)
        /\ whole' = (whole /\ IsRegion(addr, len))
        /\ refused' = refused \ {addr}

MprotectCall ==
    \E addr \in Addrs, len \in Lens, prot \in Prots :
        \E stop \in Stops(addr, RoundUp(len)) :
            /\ HandleMprotect(addr, len, prot, stop)
            /\ whole' = (whole /\ IsRegion(addr, len))
            /\ refused' = IF stop = addr + RoundUp(len) THEN refused \ {addr} ELSE refused \cup {addr}

BrkCall == (QueryBrk \/ \E new \in Addrs : HandleBrk(new)) /\ UNCHANGED ghosts

\* mremap moves pages without telling the region list.
MremapCall ==
    \E old \in Addrs, oldLen, newLen \in Lens, result \in Targets :
        HandleMremap(old, oldLen, newLen, result) /\ whole' = FALSE /\ UNCHANGED refused

ReadCall == (\E buf \in Buffers, count \in Counts : HandleRead(buf, count)) /\ UNCHANGED ghosts

WriteCall == (\E buf \in Buffers, count \in Counts : HandleWrite(buf, count)) /\ UNCHANGED ghosts

\* Calls that have nothing to do with memory: made before the others.
OtherCall ==
    /\ calls = 0
    /\ \E nr \in 0..450 : HandleUnknown(nr) \/ PassThrough(nr)
    /\ UNCHANGED ghosts

EndingCall ==
    /\ calls = 0
    /\ HandleRtSigreturn \/ \E nr \in {93, 94}, status \in {0, 1} : HandleExit(nr, status)
    /\ UNCHANGED ghosts

\* translate_block marks the page of the address a block starts at.
MarkPage ==
    /\ \E entry \in Entries : PageOf(entry) \in DOMAIN host /\ MarkTranslated(entry)
    /\ UNCHANGED <<callVars, ghosts>>

SystemCall ==
    \/ MmapCall \/ MunmapCall \/ MprotectCall \/ BrkCall \/ MremapCall
    \/ ReadCall \/ WriteCall \/ OtherCall \/ EndingCall

\* The emulator is gone, prints its statistics and ends, or MaxCalls is reached.
Ended == (run # "running" \/ calls = MaxCalls) /\ UNCHANGED mcVars

MCInit == SyscallInit /\ whole = TRUE /\ refused = {} /\ calls = 0

MCNext ==
    \/ run = "running" /\ calls < MaxCalls /\ SystemCall /\ calls' = calls + 1
    \/ run = "running" /\ calls < MaxCalls /\ MarkPage /\ UNCHANGED calls
    \/ Ended

CallsSpec == MCInit /\ [][MCNext]_mcVars

\* For a guest that keeps to whole regions an access that check_perms lets
\* through does not fault, unless it lies in a region for which the kernel has
\* refused the permissions that MemoryManager::mprotect had already listed.
WholeRegionsSafe ==
    whole => \A i \in DOMAIN regions : regions[i].addr \in refused \/ AccessSafe(regions[i])

\* Input is lost when handle_read answers EFAULT after it has read.  For such a
\* guest that does not happen, nor does a write of at least one byte answer
\* EFAULT, if one region holds the buffer and the host allows the access, again
\* but for the regions whose mprotect was refused.
EfaultExplained ==
    whole /\ last.result = -EFAULT /\ last.len > 0 =>
        \A i \in DOMAIN regions :
          Holds(regions[i], last.buf, last.len) /\ regions[i].addr \notin refused =>
            \E p \in Touched(last.buf, last.len) :
                ~HostAllows(p, IF last.nr = 63 THEN "W" ELSE "R")

MCLens == {0, 3}
MCHints == {0, 50}
MCAddrs == {50, 60, 61}
MCBuffers == {51, 60, 63}
MCCounts == {2, 3}
MCTargets == {-1, 48, 60}
MCEntries == {61}
MCProts == {{"R", "W"}, {"R"}}
=============================================================================
