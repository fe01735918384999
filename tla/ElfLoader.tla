----------------------------- MODULE ElfLoader -----------------------------
(***************************************************************************)
(* Building the guest's address space before the first instruction runs:   *)
(* ELFLoader::load_segments (src/src/elf/elf_loader.cpp), then the TLS     *)
(* block and the stack that main asks of the memory manager.  One thread   *)
(* does this, in the order of the steps; any request for memory may be     *)
(* refused.                                                                *)
(*                                                                         *)
(* A program header keeps its type, address, file and memory size and      *)
(* flags.  data gives the content of every byte of guest memory that was   *)
(* ever written or mapped: ZERO, or the byte of the file that was copied   *)
(* there, named by its header and its place in it.  refused is a history   *)
(* variable: the segments whose mprotect the kernel has refused.           *)
(***************************************************************************)
EXTENDS MemoryManager

CONSTANTS Images,      \* the images to load: sequences of program headers
          TLSSize,     \* what allocate_tls_block asks for
          StackSize    \* stack_size of main

Phdr == [type : STRING, vaddr : Nat, filesz : Nat, memsz : Nat, flags : SUBSET Prot]

\* The room a segment takes, in whole pages.
Extent(ph) == RoundUp((ph.vaddr % PAGE_SIZE) + ph.memsz)

Aside(a, size, b, length) == a + size <= b \/ b + length <= a

LoadHeaders(headers) == {i \in DOMAIN headers : headers[i].type = "PT_LOAD"}

ASSUME LoaderConstants ==
    /\ Images \subseteq Seq(Phdr)
    /\ \A img \in Images : \A i \in LoadHeaders(img) : img[i].memsz > 0 /\ img[i].filesz <= img[i].memsz
    /\ TLSSize \in Nat \ {0} /\ StackSize \in Nat \ {0}

\* What a linker sees to, no page shared by two segments, and the kernel: the
\* arena is placed away from the addresses of programs.
ASSUME ImageLayout ==
    \A img \in Images : \A i \in LoadHeaders(img) :
        /\ PageOf(img[i].vaddr) + Extent(img[i]) <= MmapStart
        /\ \A j \in LoadHeaders(img) :
              j # i => Aside(PageOf(img[i].vaddr), Extent(img[i]), PageOf(img[j].vaddr), Extent(img[j]))

VARIABLES image, next, step, data, refused

loaderVars == <<memVars, image, next, step, data, refused>>

ZERO == <<0, 0>>

Ph == image[next]

PageVaddr == PageOf(Ph.vaddr)

PageOffset == Ph.vaddr % PAGE_SIZE

\* Mutant: the place of the segment in its first page is left out.
MapSizeNoOffset == RoundUp(Ph.memsz)

MapSize == RoundUp(PageOffset + Ph.memsz)

\* "Map with write permission initially so we can copy data".
LoadProt == Ph.flags \cup {"W"}

FileBytes(ph) == ph.vaddr .. ph.vaddr + ph.filesz - 1

BssBytes(ph) == ph.vaddr + ph.filesz .. ph.vaddr + ph.memsz - 1

\* Mutant: the padding in front of the segment is cleared a page at a time.
StoredWholePageCleared(d) ==
    [a \in DOMAIN d \cup (PageVaddr .. Ph.vaddr + Ph.memsz - 1) |->
        IF a \in FileBytes(Ph) /\ (PageOffset = 0 \/ a >= PageVaddr + PAGE_SIZE)
        THEN <<next, a - Ph.vaddr>>
        ELSE IF a \in PageVaddr .. Ph.vaddr + Ph.memsz - 1 THEN ZERO
        ELSE d[a]]

\* What memcpy and the two memset calls leave.
Stored(d) ==
    [a \in DOMAIN d \cup (PageVaddr .. Ph.vaddr + Ph.memsz - 1) |->
        IF a \in FileBytes(Ph) THEN <<next, a - Ph.vaddr>>
        ELSE IF a \in PageVaddr .. Ph.vaddr + Ph.memsz - 1 THEN ZERO
        ELSE d[a]]

\* Fresh anonymous pages read as zero.
Cleared(d, addr, size) ==
    [a \in DOMAIN d \cup (addr .. addr + size - 1) |->
        IF a \in addr .. addr + size - 1 THEN ZERO ELSE d[a]]

Dynamic == \E i \in DOMAIN image : image[i].type = "PT_DYNAMIC"

-----------------------------------------------------------------------------

LoaderInit ==
    /\ MemInit
    /\ image \in Images
    /\ next = 1
    /\ step = "map"
    /\ data = [a \in {} |-> ZERO]
    /\ refused = {}

SkipHeader ==
    /\ step = "map" /\ next <= Len(image)
    /\ Ph.type # "PT_LOAD"
    /\ next' = next + 1
    /\ UNCHANGED <<memVars, image, step, data, refused>>

\* mem_.mmap of the segment's pages at page_vaddr; a refusal ends the load.
MapSegment ==
    /\ step = "map" /\ next <= Len(image)
    /\ Ph.type = "PT_LOAD"
    /\ Mmap(MapSize, LoadProt, PageVaddr)
    /\ IF regions' = regions
       THEN step' = "failed" /\ UNCHANGED data
       ELSE step' = "fill" /\ data' = Cleared(data, Last(regions').addr, MapSize)
    /\ UNCHANGED <<image, next, refused>>

\* The bytes memcpy and memset write.
Written == PageVaddr .. Ph.vaddr + Ph.memsz - 1

FillSegment ==
    /\ step = "fill"
    /\ \A a \in Written : HostAllows(PageOf(a), "W")
    /\ data' = Stored(data)
    /\ step' = "protect"
    /\ UNCHANGED <<memVars, image, next, refused>>

\* The copy goes to page_vaddr, not to what mmap returned.
FillFaults ==
    /\ step = "fill"
    /\ \E a \in Written : ~HostAllows(PageOf(a), "W")
    /\ step' = "killed"
    /\ UNCHANGED <<memVars, image, next, data, refused>>

\* Mutant: write permission is left on every segment.
ProtectSegmentNever ==
    /\ step = "protect"
    /\ UNCHANGED <<memVars, refused>>
    /\ next' = next + 1
    /\ step' = "map"
    /\ UNCHANGED <<image, data>>

\* The result of mprotect is not looked at.
ProtectSegment ==
    /\ step = "protect"
    /\ IF Ph.flags # LoadProt
       THEN \E stop \in Stops(PageVaddr, MapSize) :
              /\ Mprotect(PageVaddr, MapSize, Ph.flags, stop)
              /\ refused' = IF stop = PageVaddr + MapSize THEN refused ELSE refused \cup {next}
       ELSE UNCHANGED <<memVars, refused>>
    /\ next' = next + 1
    /\ step' = "map"
    /\ UNCHANGED <<image, data>>

\* A static image needs no TLS block.
SkipTLS ==
    /\ step = "map" /\ next > Len(image)
    /\ ~Dynamic
    /\ step' = "stack"
    /\ UNCHANGED <<memVars, image, next, data, refused>>

\* main goes on when the block is refused.
AllocateTLS ==
    /\ step = "map" /\ next > Len(image)
    /\ Dynamic
    /\ Mmap(TLSSize, {"R", "W"}, 0)
    /\ data' = IF regions' = regions THEN data
               ELSE Cleared(data, Last(regions').addr, RoundUp(TLSSize))
    /\ step' = "stack"
    /\ UNCHANGED <<image, next, refused>>

AllocateStack ==
    /\ step = "stack"
    /\ Mmap(StackSize, {"R", "W"}, 0)
    /\ IF regions' = regions
       THEN step' = "failed" /\ UNCHANGED data
       ELSE step' = "ready" /\ data' = Cleared(data, Last(regions').addr, RoundUp(StackSize))
    /\ UNCHANGED <<image, next, refused>>

\* main has returned, or goes on to run the guest.
Over == step \in {"failed", "killed", "ready"} /\ UNCHANGED loaderVars

LoaderNext ==
    \/ SkipHeader \/ MapSegment \/ FillSegment \/ FillFaults \/ ProtectSegment
    \/ SkipTLS \/ AllocateTLS \/ AllocateStack \/ Over

LoaderSpec == LoaderInit /\ [][LoaderNext]_loaderVars

-----------------------------------------------------------------------------
(* Properties                                                              *)

Loaded(i) == image[i].type = "PT_LOAD" /\ i < next

\* Every segment loaded so far holds the bytes of the file and a zero bss: no
\* later segment, padding, TLS block or stack has damaged it.
ImageIntact ==
    \A i \in DOMAIN image : Loaded(i) =>
        /\ \A a \in FileBytes(image[i]) : data[a] = <<i, a - image[i].vaddr>>
        /\ \A a \in BssBytes(image[i]) : data[a] = ZERO

\* The pages of a loaded segment allow what its header asks for and no more:
\* code and read-only data lose the write permission they were loaded with.  In
\* the region list they always do; on the host, where the kernel refuses the
\* mprotect, which load_segments does not notice, some of the segment's pages
\* stay writable, and nothing else about them is different.
SegmentPermissions ==
    \A i \in DOMAIN image : Loaded(i) =>
        \A a \in FileBytes(image[i]) \cup BssBytes(image[i]) :
            /\ \/ host[PageOf(a)] = image[i].flags
               \/ i \in refused /\ host[PageOf(a)] = image[i].flags \cup {"W"}
            /\ CheckPerms(a, 1, "W") <=> "W" \in image[i].flags

\* Segments, TLS block and stack never overlap in the region list, although
\* segments come with addresses of their own and the others from the bump
\* pointer, and a refused request may come in between.
RegionsApart ==
    \A i, j \in DOMAIN regions :
        i # j => \/ regions[i].addr + regions[i].size <= regions[j].addr
                 \/ regions[j].addr + regions[j].size <= regions[i].addr

\* The loader writes outside what it has mapped only for a segment in page 0,
\* whose address, taken for no hint, mmap replaces by one of its own.
FaultsOnlyInPageZero == step = "killed" => PageVaddr = 0
=============================================================================
