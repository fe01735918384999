----------------------------- MODULE MCElfLoader -----------------------------
(***************************************************************************)
(* Loading of small images: pages of four bytes, up to two segments with a *)
(* hole, padding or bss, laid out as a linker does it: ascending addresses,*)
(* no page shared by two segments.  After some of the programs libraries   *)
(* are loaded, at addresses that the program leaves free.                  *)
(***************************************************************************)
EXTENDS DynLink

PhSet(vaddrs, filesz, memsz) ==
    {ph \in [type : {"PT_LOAD"}, vaddr : vaddrs, filesz : filesz, memsz : memsz,
             flags : {{"R", "X"}, {"R", "W"}, {"R"}}] : ph.filesz <= ph.memsz}

PtDynamic == [type |-> "PT_DYNAMIC", vaddr |-> 8, filesz |-> 1, memsz |-> 1, flags |-> {"R"}]

PagesOf(ph) == {PageOf(a) : a \in ph.vaddr .. ph.vaddr + ph.memsz - 1}

Below(p, q) == \A a \in PagesOf(p), b \in PagesOf(q) : a < b

First == PhSet({4, 6}, {0, 2, 4}, {2, 4, 5})
Second == PhSet({8, 9, 12}, {0, 3}, {3, 5, 8})

\* Fixed-address images, static and dynamic.
FixedImages ==
    {img \in {<<p, q>> : p \in First, q \in Second}
         \cup {<<PtDynamic, p, q>> : p \in First, q \in Second} :
        Below(img[Len(img) - 1], img[Len(img)])}

\* Position-independent images start at address 0.
PieImages == {<<p, q>> : p \in PhSet({0}, {2, 4}, {4}), q \in Second}

Load(vaddr, filesz, memsz, flags) ==
    [type |-> "PT_LOAD", vaddr |-> vaddr, filesz |-> filesz, memsz |-> memsz, flags |-> flags]

\* Programs after which libraries are loaded.
LinkedImages == {<<Load(4, 4, 5, {"R", "X"}), Load(12, 3, 3, {"R", "W"})>>}

\* Code and data with every kind of relocation in the data; with a relocation
\* in the code, read-only or writable; without a dynamic section; at address 0.
Code(vaddr, flags) == Load(vaddr, 4, 4, flags)
Data(vaddr) == Load(vaddr, 2, 3, {"R", "W"})
Dyn(vaddr) == [Data(vaddr) EXCEPT !.type = "PT_DYNAMIC"]
Entry(table, type, offset, addend) ==
    [table |-> table, type |-> type, offset |-> offset, addend |-> addend]
InData == <<Entry("RELA", "RELATIVE", 14, 9), Entry("RELA", "ABS64", 15, 0),
            Entry("RELA", "JUMP_SLOT", 16, 0), Entry("REL", "RELATIVE", 15, 10)>>
InCode == <<Entry("RELA", "RELATIVE", 10, 14)>>
MCLibraries ==
    {[headers |-> <<Code(8, f), Data(14), Dyn(14)>>, relocs |-> r] :
        f \in {{"R", "X"}, {"R", "W", "X"}}, r \in {InData, InCode}}
    \cup {[headers |-> <<Load(9, 2, 3, {"R", "X"}), Data(14)>>, relocs |-> InData],
          [headers |-> <<Code(0, {"R", "X"}), Data(17), Dyn(17)>>, relocs |-> <<>>]}

AllImages == FixedImages \cup PieImages \cup LinkedImages
=============================================================================
