------------------------------ MODULE DynLink ------------------------------
(***************************************************************************)
(* The dynamic linker (src/src/elf/dynlink.cpp): load_library maps the     *)
(* segments of a shared library, then applies its relocations.  It comes   *)
(* after the program has been loaded (ElfLoader), and on the same memory.  *)
(*                                                                         *)
(* A library has program headers and relocations, and may have a dynamic   *)
(* section, without which the relocations are not looked for.  A relocation*)
(* has its table, type, place and addend, for REL the number that the file *)
(* holds at the place; the 8 bytes it concerns are one cell of data.  The  *)
(* entries of RELA come before those of REL.  data names the bytes of a    *)
(* library's file by LibByte, and an address that a relocation has stored  *)
(* by Pointer.                                                             *)
(***************************************************************************)
EXTENDS ElfLoader, FiniteSetsExt

CONSTANTS Linked,      \* the programs after which libraries are loaded
          Libraries,   \* what load_library may be given
          MaxLibs      \* calls of load_library

Reloc == [table : {"RELA", "REL"}, type : STRING, offset : Nat, addend : Int]

ASSUME LibraryConstants ==
    /\ MaxLibs \in Nat /\ Linked \subseteq Images
    /\ Libraries \subseteq [headers : Seq(Phdr), relocs : Seq(Reloc)]
    /\ \A l \in Libraries :
          /\ LoadHeaders(l.headers) # {}
          /\ \A i \in LoadHeaders(l.headers) :
                l.headers[i].memsz > 0 /\ l.headers[i].filesz <= l.headers[i].memsz

\* loads counts the calls; loaded_libs has the library and its base_addr.
VARIABLES lib, libStep, libNext, loads, loaded_libs

libVars == <<lib, libStep, libNext, loads, loaded_libs>>

Header == lib.headers[libNext]

Segments(l) == LoadHeaders(l.headers)

\* base_addr: the page of the lowest segment.  It is added to every address of
\* the library, the lowest segment's own included.
BaseAddr(l) == PageOf(Min({l.headers[i].vaddr : i \in Segments(l)}))

SegmentStart(l, ph) == BaseAddr(l) + ph.vaddr

SegmentPage(l, ph) == BaseAddr(l) + PageOf(ph.vaddr)

\* Mutant: the place of the segment in its first page is left out.
SegmentSizeNoOffset(ph) == RoundUp(ph.memsz)

SegmentSize(ph) == RoundUp((ph.vaddr % PAGE_SIZE) + ph.memsz)

\* As ImageLayout, for libraries at their base_addr, which also has to keep them
\* away from the program; relocations concern places of their own in the segments.
ASSUME LibraryLayout ==
    \A l \in Libraries :
        /\ \A i \in Segments(l) :
              LET page == SegmentPage(l, l.headers[i])
                  size == Extent(l.headers[i])
              IN  /\ page + size <= MmapStart
                  /\ \A j \in Segments(l) :
                        j # i => Aside(page, size, SegmentPage(l, l.headers[j]), Extent(l.headers[j]))
                  /\ \A img \in Linked : \A j \in LoadHeaders(img) :
                        Aside(page, size, PageOf(img[j].vaddr), Extent(img[j]))
        /\ \A k \in {j \in DOMAIN l.relocs : l.relocs[j].type = "RELATIVE"} :
              /\ \E i \in Segments(l) :
                    l.relocs[k].offset \in l.headers[i].vaddr .. l.headers[i].vaddr + l.headers[i].memsz - 1
              /\ \A j \in DOMAIN l.relocs :
                    l.relocs[j].type = "RELATIVE" /\ l.relocs[j].offset = l.relocs[k].offset => j = k

LibByte(i, k) == <<100 + i, k>>

Pointer(a) == <<-1, a>>

FileCells(l, ph) == SegmentStart(l, ph) .. SegmentStart(l, ph) + ph.filesz - 1

AllCells(l, ph) == SegmentStart(l, ph) .. SegmentStart(l, ph) + ph.memsz - 1

LibInit ==
    /\ lib = [headers |-> <<>>, relocs |-> <<>>] /\ libStep = "idle" /\ libNext = 1
    /\ loads = 0 /\ loaded_libs = <<>>

-----------------------------------------------------------------------------

\* The file is there and is an AArch64 ELF; otherwise nothing changes.
LoadLibrary(l) ==
    /\ step = "ready" /\ libStep \in {"idle", "loaded"} /\ loads < MaxLibs
    /\ lib' = l /\ libStep' = "map" /\ libNext' = 1 /\ loads' = loads + 1
    /\ UNCHANGED <<loaderVars, loaded_libs>>

LibSkipHeader ==
    /\ libStep = "map" /\ libNext <= Len(lib.headers) /\ Header.type # "PT_LOAD"
    /\ libNext' = libNext + 1
    /\ UNCHANGED <<loaderVars, lib, libStep, loads, loaded_libs>>

\* After a refusal load_library returns false ("idle"); the segments before
\* stay mapped.
LibMapSegment ==
    /\ libStep = "map" /\ libNext <= Len(lib.headers) /\ Header.type = "PT_LOAD"
    /\ Mmap(SegmentSize(Header), Header.flags \cup {"W"}, SegmentPage(lib, Header))
    /\ IF regions' = regions
       THEN libStep' = "idle" /\ UNCHANGED data
       ELSE libStep' = "fill" /\ data' = Cleared(data, Last(regions').addr, SegmentSize(Header))
    /\ UNCHANGED <<image, next, step, refused, lib, libNext, loads, loaded_libs>>

\* memcpy and memset go to page_vaddr, whatever mmap returned.
LibFillSegment ==
    /\ libStep = "fill"
    /\ LET cells == AllCells(lib, Header)
       IN  IF \A a \in cells : HostAllows(PageOf(a), "W")
           THEN /\ libStep' = "protect"
                /\ data' = [a \in DOMAIN data \cup cells |->
                              IF a \in FileCells(lib, Header)
                              THEN LibByte(libNext, a - SegmentStart(lib, Header))
                              ELSE IF a \in cells THEN ZERO ELSE data[a]]
           ELSE libStep' = "killed" /\ UNCHANGED data
    /\ UNCHANGED <<memVars, image, next, step, refused, lib, libNext, loads, loaded_libs>>

\* The result of mprotect is not looked at.
LibProtectSegment ==
    /\ libStep = "protect"
    /\ IF "W" \notin Header.flags
       THEN \E stop \in Stops(SegmentPage(lib, Header), SegmentSize(Header)) :
              Mprotect(SegmentPage(lib, Header), SegmentSize(Header), Header.flags, stop)
       ELSE UNCHANGED memVars
    /\ libStep' = "map" /\ libNext' = libNext + 1
    /\ UNCHANGED <<image, next, step, data, refused, lib, loads, loaded_libs>>

\* The segments are mapped: libNext now runs over the relocations.
LibSegmentsDone ==
    /\ libStep = "map" /\ libNext > Len(lib.headers)
    /\ libStep' = "relocate" /\ libNext' = 1
    /\ UNCHANGED <<loaderVars, lib, loads, loaded_libs>>

HasDynamic(l) == \E i \in DOMAIN l.headers : l.headers[i].type = "PT_DYNAMIC"

Place(l, r) == BaseAddr(l) + r.offset

\* Mutant: the addend is stored as the file has it.
RelocatedUnbiased(r) == Pointer(r.addend)

\* What RELATIVE stores: RELA has the addend, REL adds to what is there.
Relocated(r) ==
    IF r.table = "REL" /\ data[Place(lib, r)][1] = -1
    THEN Pointer(data[Place(lib, r)][2] + BaseAddr(lib))
    ELSE Pointer(BaseAddr(lib) + r.addend)

\* One entry: RELATIVE stores; ABS64, GLOB_DAT and JUMP_SLOT are stubs.
Relocate ==
    /\ libStep = "relocate" /\ HasDynamic(lib) /\ libNext <= Len(lib.relocs)
    /\ LET r == lib.relocs[libNext]
       IN  \/ r.type # "RELATIVE" /\ libNext' = libNext + 1 /\ UNCHANGED <<libStep, data>>
           \/ /\ r.type = "RELATIVE" /\ HostAllows(PageOf(Place(lib, r)), "W")
              /\ data' = [data EXCEPT ![Place(lib, r)] = Relocated(r)]
              /\ libNext' = libNext + 1 /\ UNCHANGED libStep
           \/ /\ r.type = "RELATIVE" /\ ~HostAllows(PageOf(Place(lib, r)), "W")
              /\ libStep' = "killed" /\ UNCHANGED <<libNext, data>>
    /\ UNCHANGED <<memVars, image, next, step, refused, lib, loads, loaded_libs>>

LibLoaded ==
    /\ libStep = "relocate" /\ ~(HasDynamic(lib) /\ libNext <= Len(lib.relocs))
    /\ loaded_libs' = Append(loaded_libs, [lib |-> lib, base |-> BaseAddr(lib)])
    /\ libStep' = "loaded"
    /\ UNCHANGED <<loaderVars, lib, libNext, loads>>

LibNext ==
    \/ \E l \in Libraries : LoadLibrary(l)
    \/ LibSkipHeader \/ LibMapSegment \/ LibFillSegment \/ LibProtectSegment
    \/ LibSegmentsDone \/ Relocate \/ LibLoaded

StartInit == LoaderInit /\ LibInit

StartNext ==
    \/ LoaderNext /\ UNCHANGED libVars
    \/ image \in Linked /\ LibNext

StartSpec == StartInit /\ [][StartNext]_<<loaderVars, libVars>>

-----------------------------------------------------------------------------
(* Properties                                                               *)

\* The cells that some relocation of l rewrites.
Patched(l) ==
    IF HasDynamic(l)
    THEN {Place(l, l.relocs[k]) : k \in {j \in DOMAIN l.relocs : l.relocs[j].type = "RELATIVE"}}
    ELSE {}

\* load_library has just returned true, at the first attempt or after failures.
JustLoaded == libStep = "loaded"

\* When load_library has returned true, the library is in memory, its zero bss
\* included, as its headers say, and each relative relocation holds the address
\* at which the byte it refers to has come to lie: base_addr is added to the
\* addends as to the segments.
LibraryLinked ==
    JustLoaded =>
      /\ \A i \in Segments(lib) :
           LET ph == lib.headers[i]
           IN  \A a \in AllCells(lib, ph) \ Patched(lib) :
                 data[a] = IF a \in FileCells(lib, ph)
                           THEN LibByte(i, a - SegmentStart(lib, ph)) ELSE ZERO
      /\ HasDynamic(lib) =>
           \A k \in DOMAIN lib.relocs :
             LET r == lib.relocs[k]
             IN  r.type = "RELATIVE" =>
                   \A i \in Segments(lib) :
                     r.addend \in lib.headers[i].vaddr .. lib.headers[i].vaddr + lib.headers[i].filesz - 1 =>
                       LET to == data[Place(lib, r)][2]
                       IN  data[to] = LibByte(i, r.addend - lib.headers[i].vaddr) \/ to \in Patched(lib)

\* load_library brings the process down only for a segment in page 0, or for a
\* relocation in pages that it has already made read-only.
LinkerFaults ==
    libStep = "killed" =>
        \/ \E i \in Segments(lib) : SegmentPage(lib, lib.headers[i]) = 0
        \/ \E a \in Patched(lib) : PageOf(a) \in DOMAIN host /\ "W" \notin host[PageOf(a)]

\* Segments of program and library, TLS block and stack never overlap in the
\* region list, until a library is loaded again, as after a failure halfway:
\* its first attempt's regions stay listed.
ApartUntilReload == loads <= 1 => RegionsApart
=============================================================================
