--------------------------- MODULE MemoryManager ---------------------------
(***************************************************************************)
(* Guest memory (src/src/core/memory_manager.{hpp,cpp}) and the system     *)
(* calls that change it (src/src/syscall/syscall_handlers.cpp).  Guest     *)
(* addresses are host addresses.  The manager keeps a list of regions of   *)
(* its own beside the page tables of the host kernel; check_perms, which   *)
(* guards the accesses of the interpreter, consults only the list.         *)
(*                                                                         *)
(* host is the kernel's view: the pages that are mapped and what they      *)
(* allow.  Only pages from 0 to LastPage are modelled; memory_base_ starts *)
(* at Arena, and the bump pointer at the middle of it.                     *)
(***************************************************************************)
EXTENDS Integers, Sequences, FiniteSets, SequencesExt

CONSTANTS PAGE_SIZE, LastPage, Arena, MmapStart, MaxRegions

ASSUME MemoryConstants ==
    /\ PAGE_SIZE \in Nat \ {0}
    /\ LastPage \in Nat /\ Arena \in Nat \ {0} /\ MmapStart \in Nat
    /\ Arena <= MmapStart /\ MmapStart <= LastPage
    /\ Arena % PAGE_SIZE = 0 /\ MmapStart % PAGE_SIZE = 0 /\ LastPage % PAGE_SIZE = 0
    /\ MaxRegions \in Nat

VARIABLES regions, host, mmap_base, brk, translated_pages

memVars == <<regions, host, mmap_base, brk, translated_pages>>

Prot == {"R", "W", "X"}

PageOf(a) == a - (a % PAGE_SIZE)

PageAligned(a) == a % PAGE_SIZE = 0

RoundUp(size) == PageOf(size + PAGE_SIZE - 1)

AllPages == {a \in 0..LastPage : PageAligned(a)}

Pages(addr, size) == {p \in AllPages : addr <= p /\ p < addr + size}

\* The pages an access of len bytes touches.
Touched(addr, len) == {PageOf(a) : a \in addr .. addr + len - 1}

MemRegion == [addr : Nat, size : Nat, perms : SUBSET Prot, is_translated : BOOLEAN]

NewRegion(addr, size, prot) ==
    [addr |-> addr, size |-> size, perms |-> prot, is_translated |-> FALSE]

-----------------------------------------------------------------------------
(* The kernel: ::mmap with MAP_FIXED, ::munmap, ::mprotect.                 *)

KernelMaps(h, pages, prot) ==
    [p \in DOMAIN h \cup pages |-> IF p \in pages THEN prot ELSE h[p]]

KernelUnmaps(h, pages) == [p \in DOMAIN h \ pages |-> h[p]]

KernelAccepts(addr, size) == PageAligned(addr) /\ size > 0

\* mprotect stops with ENOMEM at the first hole, or at stop, where the kernel
\* refuses, as for want of memory to split a mapping; the pages before it are
\* changed.
KernelProtects(h, addr, size, prot, stop) ==
    LET pages == Pages(addr, RoundUp(size))
        solid == {p \in pages : p < stop /\ \A q \in pages : q <= p => q \in DOMAIN h}
    IN  IF KernelAccepts(addr, size)
        THEN [p \in DOMAIN h |-> IF p \in solid THEN prot ELSE h[p]]
        ELSE h

-----------------------------------------------------------------------------

\* init: the whole arena is mapped read-write and belongs to no region.
MemInit ==
    /\ regions = <<>>
    /\ host = [p \in {q \in AllPages : q >= Arena} |-> {"R", "W"}]
    /\ mmap_base = MmapStart
    /\ brk = MmapStart
    /\ translated_pages = {}

\* Mutant: every mapping starts where the bump pointer of the last one started.
MmapAddrNoBump(size, hint) == [addr |-> IF hint # 0 THEN hint ELSE mmap_base, base |-> mmap_base]

\* find_free_region, and what it leaves in mmap_base_.
MmapAddr(size, hint) ==
    IF hint # 0 THEN [addr |-> hint, base |-> mmap_base]
    ELSE [addr |-> mmap_base, base |-> mmap_base + size]

\* mmap.  The hint is used with MAP_FIXED whatever is there; the bump pointer
\* has moved even when the kernel refuses, which it may do for want of memory.
Mmap(len, prot, hint) ==
    LET size == RoundUp(len)
        at == MmapAddr(size, hint)
    IN  /\ Len(regions) < MaxRegions
        /\ at.addr + size <= LastPage + PAGE_SIZE
        /\ mmap_base' = at.base
        /\ \/ /\ KernelAccepts(at.addr, size)
              /\ host' = KernelMaps(host, Pages(at.addr, size), prot)
              /\ regions' = Append(regions, NewRegion(at.addr, size, prot))
           \/ UNCHANGED <<host, regions>>
        /\ UNCHANGED <<brk, translated_pages>>

StartsIn(r, addr, size) == r.addr >= addr /\ r.addr < addr + size

\* The regions munmap keeps: it looks at where a region starts, not at how far
\* it reaches.
Survivors(addr, size) ==
    LET Kept[i \in 0..Len(regions)] ==
            IF i = 0 THEN <<>>
            ELSE IF StartsIn(regions[i], addr, size) THEN Kept[i - 1]
            ELSE Append(Kept[i - 1], regions[i])
    IN  Kept[Len(regions)]

\* munmap.  The list forgets the regions before the kernel is asked, which may
\* refuse: ok is its answer.
Munmap(addr, len, ok) ==
    LET size == RoundUp(len)
    IN  /\ ok => KernelAccepts(addr, size)
        /\ translated_pages' =
              IF \E i \in DOMAIN regions : StartsIn(regions[i], addr, size) /\ regions[i].is_translated
              THEN {} ELSE translated_pages
        /\ regions' = Survivors(addr, size)
        /\ host' = IF ok THEN KernelUnmaps(host, Pages(addr, size)) ELSE host
        /\ UNCHANGED <<mmap_base, brk>>

\* The first region that starts at addr takes the new permissions, all of it.
Reprotect(addr, prot) ==
    LET i == SelectInSeq(regions, LAMBDA r : r.addr = addr)
    IN  IF i = 0 THEN regions ELSE [regions EXCEPT ![i].perms = prot]

\* Where the kernel may stop: at a page, or behind the last when it refuses none.
Stops(addr, size) == Pages(addr, size) \cup {addr + size}

\* mprotect.  The list has the new permissions before the kernel is asked, and
\* keeps them whatever it answers.
Mprotect(addr, len, prot, stop) ==
    /\ stop \in Stops(addr, RoundUp(len))
    /\ regions' = Reprotect(addr, prot)
    /\ host' = KernelProtects(host, addr, len, prot, stop)
    /\ UNCHANGED <<mmap_base, brk, translated_pages>>

\* brk(new), new # 0; brk(0) only reads.
SetBrk(new) ==
    /\ brk' = IF new < mmap_base THEN brk ELSE new
    /\ UNCHANGED <<regions, host, mmap_base, translated_pages>>

\* mremap goes to the kernel behind the manager's back: shrink in place, or
\* move to a free range of the kernel's choosing.  result is the address that
\* the kernel returns, or -1.
Mremap(old, oldLen, newLen, result) ==
    LET from == Pages(old, RoundUp(oldLen))
        to == Pages(result, RoundUp(newLen))
    IN  /\ translated_pages' = {}
        /\ \/ result = -1 /\ UNCHANGED host
           \/ /\ result \in AllPages
              /\ KernelAccepts(old, newLen) /\ from # {} /\ from \subseteq DOMAIN host
              /\ \/ /\ result = old /\ newLen <= oldLen
                    /\ host' = KernelUnmaps(host, from \ to)
                 \/ /\ result + RoundUp(newLen) <= LastPage + PAGE_SIZE
                    /\ to \cap DOMAIN host = {}
                    /\ host' = KernelMaps(KernelUnmaps(host, from), to, host[old])
        /\ UNCHANGED <<regions, mmap_base, brk>>

\* Mutant: the address itself is listed, not its page.
MarkTranslatedUnrounded(addr) ==
    /\ translated_pages' = translated_pages \cup {addr}
    /\ UNCHANGED <<regions, host, mmap_base, brk>>

MarkTranslated(addr) ==
    /\ translated_pages' = translated_pages \cup {PageOf(addr)}
    /\ UNCHANGED <<regions, host, mmap_base, brk>>

-----------------------------------------------------------------------------
(* check_perms, and what the accesses it lets through meet.                 *)

Holds(r, addr, len) == addr >= r.addr /\ addr + len <= r.addr + r.size

Allows(perms, needed) == needed \in perms \/ (needed = "R" /\ "X" \in perms)

\* Mutant: the length of the access is not looked at.
CheckPermsNoLength(addr, len, needed) ==
    LET i == SelectInSeq(regions, LAMBDA r : addr >= r.addr /\ addr < r.addr + r.size)
    IN  i # 0 /\ Allows(regions[i].perms, needed)

\* Mutant: the last byte of a region is taken for the first behind it.
CheckPermsStrict(addr, len, needed) ==
    LET i == SelectInSeq(regions, LAMBDA r : addr >= r.addr /\ addr + len < r.addr + r.size)
    IN  i # 0 /\ Allows(regions[i].perms, needed)

\* The first region that holds the access decides.
CheckPerms(addr, len, needed) ==
    LET i == SelectInSeq(regions, LAMBDA r : Holds(r, addr, len))
    IN  i # 0 /\ Allows(regions[i].perms, needed)

\* On x86_64 an executable page can be read.
HostAllows(page, needed) == page \in DOMAIN host /\ Allows(host[page], needed)

-----------------------------------------------------------------------------
(* Properties                                                              *)

\* Type invariant of the memory manager.
MemTypeOK ==
    /\ regions \in Seq(MemRegion)
    /\ DOMAIN host \subseteq AllPages
    /\ host \in [DOMAIN host -> SUBSET Prot]
    /\ mmap_base \in Nat /\ brk \in Nat
    /\ translated_pages \subseteq AllPages

\* An access that starts in region r and that check_perms lets through never
\* faults on the host: "Memory access (safe, with bounds checking)"
\* (memory_manager.hpp).
AccessSafe(r) ==
    \A addr \in r.addr .. r.addr + r.size - 1, len \in 1..2, needed \in {"R", "W"} :
        CheckPerms(addr, len, needed) => \A p \in Touched(addr, len) : HostAllows(p, needed)

\* Regions handed out by the bump pointer lie below it and do not overlap: a
\* mapping without a hint never lands on a live one that came the same way,
\* whatever was unmapped or failed in between.
BumpRegionsDisjoint ==
    LET bump == {i \in DOMAIN regions : regions[i].addr >= MmapStart}
    IN  \A i, j \in bump :
            /\ regions[i].addr + regions[i].size <= mmap_base
            /\ i < j => regions[i].addr + regions[i].size <= regions[j].addr
=============================================================================
