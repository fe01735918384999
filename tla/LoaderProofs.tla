---------------------------- MODULE LoaderProofs ----------------------------
(***************************************************************************)
(* Loading a program and, after it, shared libraries: the properties of    *)
(* ElfLoader and DynLink for every page size, arena, image and library     *)
(* laid out as the linker lays them out.                                   *)
(***************************************************************************)
EXTENDS DynLink, MemoryManagerProofs

-----------------------------------------------------------------------------
(* What is kept about the region list and the page tables                  *)

\* Region k of list s is mapped in h, with permissions in Q, and meets no other.
Settled(s, h, k, Q) == Backed(s[k], h, Q) /\ \A j \in DOMAIN s : j # k => Apart(s[k], s[j])

\* The bytes from a to a + z - 1 are a region of their own with permissions p,
\* and on the host, page by page, with some in Q.
Has(s, h, a, z, p, Q) ==
    \E k \in DOMAIN s : s[k].addr = a /\ s[k].size = z /\ s[k].perms = p /\ Settled(s, h, k, Q)

\* No region meets these bytes.
Free(s, a, z) == \A k \in DOMAIN s : Aside(s[k].addr, s[k].size, a, z)

AllApart(s) == \A i, j \in DOMAIN s : i # j => Apart(s[i], s[j])

\* mmap has succeeded at a: list and tables were s and h, and are t and g.
Mapping(s, h, a, z, prot, t, g) ==
    /\ s \in Seq(MemRegion) /\ a \in Nat /\ z \in Nat /\ z > 0
    /\ PageAligned(a) /\ PageAligned(z) /\ a + z <= LastPage + PAGE_SIZE /\ prot \in SUBSET Prot
    /\ t = Append(s, NewRegion(a, z, prot))
    /\ g = [p \in DOMAIN h \cup Pages(a, z) |-> IF p \in Pages(a, z) THEN prot ELSE h[p]]

\* t is s, of n regions, and one more.
Extended(s, t, n, a, z, prot) ==
    /\ n \in Nat /\ DOMAIN s = 1..n /\ DOMAIN t = 1..n + 1
    /\ \A k \in 1..n + 1 : k = n + 1 \/ k \in 1..n
    /\ n + 1 \in 1..n + 1 /\ n + 1 \notin 1..n
    /\ \A k \in 1..n : t[k] = s[k] /\ s[k].addr \in Nat /\ s[k].size \in Nat
    /\ t[n + 1].addr = a /\ t[n + 1].size = z /\ t[n + 1].perms = prot
    /\ t[Len(t)].addr = a /\ t # s /\ t \in Seq(MemRegion)

LEMMA MappingList ==
    ASSUME NEW s, NEW h, NEW a, NEW z, NEW prot, NEW t, NEW g, Mapping(s, h, a, z, prot, t, g)
    PROVE  \E n \in Nat : Extended(s, t, n, a, z, prot)
<1>1. PICK n, e : n = Len(s) /\ e = NewRegion(a, z, prot)
  OBVIOUS
<1>2. s \in Seq(MemRegion) /\ n \in Nat /\ DOMAIN s = 1..n
  BY <1>1 DEF Mapping
<1>3. e \in MemRegion /\ e.addr = a /\ e.size = z /\ e.perms = prot
  <2>1. a \in Nat /\ z \in Nat /\ prot \in SUBSET Prot
    BY DEF Mapping
  <2> QED
    BY <1>1, <2>1, NewRegionFact
<1>4. t = Append(s, e)
  BY <1>1 DEF Mapping
<1>5. DOMAIN t = 1..n + 1 /\ Len(t) = n + 1 /\ t[n + 1] = e /\ \A k \in 1..n : t[k] = s[k]
  BY <1>1, <1>2, <1>3, <1>4
<1>6. \A k \in 1..n + 1 : k = n + 1 \/ k \in 1..n
  BY <1>2
<1>7. \A k \in 1..n : s[k].addr \in Nat /\ s[k].size \in Nat
  <2>1. \A k \in 1..n : s[k] \in MemRegion
    BY <1>2
  <2>2. \A r \in MemRegion : r.addr \in Nat /\ r.size \in Nat
    BY DEF MemRegion
  <2> QED
    BY <2>1, <2>2
<1>8. n + 1 \notin 1..n /\ n + 1 \in 1..n + 1
  BY <1>2
<1>9. t # s /\ t \in Seq(MemRegion)
  BY <1>1, <1>2, <1>3, <1>4, <1>5
<1>10. Extended(s, t, n, a, z, prot)
  BY <1>2, <1>3, <1>5, <1>6, <1>7, <1>8, <1>9 DEF Extended
<1> QED
  BY <1>2, <1>10

LEMMA HasMapping ==
    ASSUME NEW s, NEW h, NEW a, NEW z, NEW prot, NEW t, NEW g, Mapping(s, h, a, z, prot, t, g),
           NEW b \in Nat, NEW y \in Nat, NEW p, NEW Q, Has(s, h, b, y, p, Q), Aside(a, z, b, y)
    PROVE  Has(t, g, b, y, p, Q)
<1>1. PICK n \in Nat : Extended(s, t, n, a, z, prot)
  BY MappingList
<1>2. PICK k \in 1..n : s[k].addr = b /\ s[k].size = y /\ s[k].perms = p /\ Settled(s, h, k, Q)
  BY <1>1 DEF Has, Extended
<1>3. a \in Nat /\ z \in Nat
  BY DEF Mapping
<1>4. Backed(s[k], h, Q) /\ \A j \in 1..n : j # k => Apart(s[k], s[j])
  BY <1>1, <1>2 DEF Settled, Extended
<1>5. Apart(s[k], t[n + 1])
  BY <1>1, <1>2, <1>3 DEF Apart, Aside, Extended
<1>6. \A q \in Pages(b, y) : q \notin Pages(a, z)
  BY <1>3 DEF Aside, Pages, AllPages
<1>7. \A q \in Pages(b, y) : q \in DOMAIN h /\ h[q] \in Q
  BY <1>2, <1>4 DEF Backed
<1>8. \A q \in Pages(b, y) : q \in DOMAIN g /\ g[q] \in Q
  BY <1>6, <1>7 DEF Mapping
<1>9. Backed(s[k], g, Q)
  BY <1>2, <1>4, <1>8 DEF Backed
<1>10. Settled(t, g, k, Q)
  BY <1>1, <1>4, <1>5, <1>9 DEF Settled, Extended
<1> QED
  BY <1>1, <1>2, <1>10, SMTT(60) DEF Has, Extended

LEMMA HasNew ==
    ASSUME NEW s, NEW h, NEW a, NEW z, NEW prot, NEW t, NEW g, Mapping(s, h, a, z, prot, t, g),
           Free(s, a, z)
    PROVE  Has(t, g, a, z, prot, {prot})
<1>1. PICK n \in Nat : Extended(s, t, n, a, z, prot)
  BY MappingList
<1>2. \A q \in Pages(a, z) : q \in DOMAIN g /\ g[q] = prot
  BY DEF Mapping
<1>3. Backed(t[n + 1], g, {prot})
  BY <1>1, <1>2 DEF Mapping, Backed, Extended
<1>4. a \in Nat /\ z \in Nat
  BY DEF Mapping
<1>5. \A j \in 1..n : Apart(t[n + 1], t[j])
  BY <1>1, <1>4 DEF Free, Aside, Apart, Extended
<1>6. n + 1 \in 1..n + 1
  BY <1>1 DEF Extended
<1>7. Settled(t, g, n + 1, {prot})
  BY <1>1, <1>3, <1>5 DEF Settled, Extended
<1> QED
  BY <1>1, <1>6, <1>7 DEF Has, Extended

LEMMA HasMore ==
    ASSUME NEW s, NEW h, NEW a, NEW z, NEW p, NEW Q, Has(s, h, a, z, p, Q), NEW R, Q \subseteq R
    PROVE  Has(s, h, a, z, p, R)
BY DEF Has, Settled, Backed

LEMMA FreeMapping ==
    ASSUME NEW s, NEW h, NEW a, NEW z, NEW prot, NEW t, NEW g, Mapping(s, h, a, z, prot, t, g),
           NEW b \in Nat, NEW y \in Nat, Free(s, b, y), Aside(a, z, b, y)
    PROVE  Free(t, b, y)
<1>1. PICK n \in Nat : Extended(s, t, n, a, z, prot)
  BY MappingList
<1> QED
  BY <1>1 DEF Free, Extended

LEMMA ApartMapping ==
    ASSUME NEW s, NEW h, NEW a, NEW z, NEW prot, NEW t, NEW g, Mapping(s, h, a, z, prot, t, g),
           Free(s, a, z), AllApart(s)
    PROVE  AllApart(t)
<1>1. PICK n \in Nat : Extended(s, t, n, a, z, prot)
  BY MappingList
<1>2. \A j \in 1..n : Apart(t[n + 1], t[j]) /\ Apart(t[j], t[n + 1])
  BY <1>1 DEF Free, Aside, Apart, Mapping, Extended
<1>3. \A i, j \in 1..n : i # j => Apart(t[i], t[j])
  BY <1>1 DEF AllApart, Extended
<1> QED
  BY <1>1, <1>2, <1>3 DEF AllApart, Extended

-----------------------------------------------------------------------------
(* mprotect                                                                *)

\* mprotect of the z bytes from a, as far as stop, has changed s and h to t and g.
Protection(s, h, a, z, prot, stop, t, g) ==
    /\ s \in Seq(MemRegion) /\ a \in Nat /\ z \in Nat /\ z > 0 /\ prot \in SUBSET Prot
    /\ t \in Seq(MemRegion) /\ DOMAIN t = DOMAIN s
    /\ \A i \in DOMAIN s :
          /\ t[i].addr = s[i].addr /\ t[i].size = s[i].size
          /\ t[i].perms = IF s[i].addr = a /\ \A j \in DOMAIN s : s[j].addr = a => i <= j
                          THEN prot ELSE s[i].perms
    /\ DOMAIN g = DOMAIN h
    /\ \A q \in DOMAIN h : q \notin Pages(a, z) => g[q] = h[q]
    /\ \A q \in DOMAIN h : g[q] \in {h[q], prot}
    /\ stop = a + z /\ Pages(a, z) \subseteq DOMAIN h => \A q \in Pages(a, z) : g[q] = prot

LEMMA MprotectOutcome ==
    ASSUME MemTypeOK, NEW a \in Nat, NEW z \in Nat, z > 0, PageAligned(a), RoundUp(z) = z,
           NEW prot \in SUBSET Prot, NEW stop, Mprotect(a, z, prot, stop)
    PROVE  Protection(regions, host, a, z, prot, stop, regions', host')
<1>1. PICK t, g : t = regions' /\ g = host' /\ t = Reprotect(a, prot) /\ g = KernelProtects(host, a, z, prot, stop)
  BY DEF Mprotect
<1>2. /\ t \in Seq(MemRegion) /\ DOMAIN t = DOMAIN regions
      /\ \A i \in DOMAIN regions :
            /\ t[i].addr = regions[i].addr /\ t[i].size = regions[i].size
            /\ t[i].perms = IF regions[i].addr = a /\ \A j \in DOMAIN regions : regions[j].addr = a => i <= j
                            THEN prot ELSE regions[i].perms
  BY <1>1, ReprotectFact
<1>3. PICK solid : /\ solid = {p \in Pages(a, z) : p < stop /\ \A q \in Pages(a, z) : q <= p => q \in DOMAIN host}
                   /\ g = [p \in DOMAIN host |-> IF p \in solid THEN prot ELSE host[p]]
  BY <1>1 DEF KernelProtects, KernelAccepts
<1>4. /\ DOMAIN g = DOMAIN host
      /\ \A q \in DOMAIN host : q \notin Pages(a, z) => g[q] = host[q]
      /\ \A q \in DOMAIN host : g[q] \in {host[q], prot}
      /\ stop = a + z /\ Pages(a, z) \subseteq DOMAIN host => \A q \in Pages(a, z) : g[q] = prot
  <2>1. stop = a + z /\ Pages(a, z) \subseteq DOMAIN host => solid = Pages(a, z)
    BY <1>3 DEF Pages
  <2>2. solid \subseteq Pages(a, z)
    BY <1>3
  <2> QED
    BY <1>3, <2>1, <2>2
<1>5. regions \in Seq(MemRegion)
  BY RegionsFact
<1>6. Protection(regions, host, a, z, prot, stop, t, g)
  BY <1>2, <1>4, <1>5 DEF Protection
<1> QED
  BY <1>1, <1>6

LEMMA ProtectionList ==
    ASSUME NEW s, NEW h, NEW a, NEW z, NEW prot, NEW stop, NEW t, NEW g, Protection(s, h, a, z, prot, stop, t, g)
    PROVE  /\ DOMAIN t = DOMAIN s /\ \A i \in DOMAIN s : t[i].addr = s[i].addr /\ t[i].size = s[i].size
           /\ AllApart(s) => AllApart(t)
           /\ \A b, y : Free(s, b, y) => Free(t, b, y)
<1>1. DOMAIN t = DOMAIN s /\ \A i \in DOMAIN s : t[i].addr = s[i].addr /\ t[i].size = s[i].size
  BY DEF Protection
<1> QED
  BY <1>1 DEF AllApart, Apart, Free

LEMMA HasProtected ==
    ASSUME NEW s, NEW h, NEW a, NEW z, NEW prot, NEW stop, NEW t, NEW g, Protection(s, h, a, z, prot, stop, t, g),
           NEW b \in Nat, NEW y \in Nat, NEW p, NEW Q, Has(s, h, b, y, p, Q), Aside(a, z, b, y)
    PROVE  Has(t, g, b, y, p, Q)
<1>1. PICK k \in DOMAIN s : s[k].addr = b /\ s[k].size = y /\ s[k].perms = p /\ Settled(s, h, k, Q)
  BY DEF Has
<1>2. a \in Nat /\ z \in Nat /\ z > 0
  BY DEF Protection
<1>3. Backed(s[k], h, Q) /\ y > 0
  BY <1>1 DEF Settled, Backed
<1>4. b # a
  BY <1>2, <1>3 DEF Aside
<1>5. t[k].addr = b /\ t[k].size = y /\ t[k].perms = p
  BY <1>1, <1>4 DEF Protection
<1>6. \A q \in Pages(b, y) : q \notin Pages(a, z)
  BY <1>2 DEF Aside, Pages, AllPages
<1>7. \A q \in Pages(b, y) : q \in DOMAIN g /\ g[q] \in Q
  BY <1>1, <1>3, <1>6 DEF Backed, Protection
<1>8. Backed(t[k], g, Q)
  BY <1>1, <1>3, <1>5, <1>7 DEF Backed
<1>9. \A j \in DOMAIN t : j # k => Apart(t[k], t[j])
  BY <1>1, ProtectionList DEF Settled, Apart
<1> QED
  BY <1>1, <1>5, <1>8, <1>9, ProtectionList DEF Has, Settled

LEMMA HasReprotected ==
    ASSUME NEW s, NEW h, NEW a, NEW z, NEW prot, NEW stop, NEW t, NEW g, Protection(s, h, a, z, prot, stop, t, g),
           \A j \in DOMAIN s : s[j].size > 0, NEW p, Has(s, h, a, z, p, {p}),
           NEW Q, Q = IF stop = a + z THEN {prot} ELSE {prot, p}
    PROVE  Has(t, g, a, z, prot, Q)
<1>1. PICK k \in DOMAIN s : s[k].addr = a /\ s[k].size = z /\ s[k].perms = p /\ Settled(s, h, k, {p})
  BY DEF Has
<1>2. a \in Nat /\ z \in Nat /\ z > 0 /\ s \in Seq(MemRegion)
  BY DEF Protection
<1>3. Backed(s[k], h, {p}) /\ \A j \in DOMAIN s : j # k => Apart(s[k], s[j])
  BY <1>1 DEF Settled
<1>4. \A j \in DOMAIN s : s[j].addr = a => k = j
  <2>1. \A j \in DOMAIN s : s[j].size \in Nat /\ s[j].size > 0
    <3>1. \A j \in DOMAIN s : s[j] \in MemRegion
      BY <1>2
    <3>2. \A r \in MemRegion : r.size \in Nat
      BY DEF MemRegion
    <3> QED
      BY <3>1, <3>2
  <2> QED
    BY <1>1, <1>2, <1>3, <2>1 DEF Apart
<1>5. k <= k
  BY <1>2
<1>6. t[k].addr = a /\ t[k].size = z /\ t[k].perms = prot
  <2>1. \A j \in DOMAIN s : s[j].addr = a => k <= j
    BY <1>4, <1>5
  <2> QED
    BY <1>1, <2>1 DEF Protection
<1>7. \A q \in Pages(a, z) : q \in DOMAIN h /\ h[q] = p
  BY <1>1, <1>3 DEF Backed
<1>8. \A q \in Pages(a, z) : q \in DOMAIN g /\ g[q] \in Q
  BY <1>7 DEF Protection
<1>9. Backed(t[k], g, Q)
  BY <1>1, <1>3, <1>6, <1>8 DEF Backed
<1>10. \A j \in DOMAIN t : j # k => Apart(t[k], t[j])
  BY <1>1, <1>3, ProtectionList DEF Apart
<1> QED
  BY <1>1, <1>6, <1>9, <1>10, ProtectionList DEF Has, Settled

-----------------------------------------------------------------------------
(* The invariant                                                           *)

\* Regions lie below the bump pointer, which lies behind every segment; page 0
\* is never mapped.
MemInv ==
    /\ MemTypeOK
    /\ mmap_base >= MmapStart
    /\ \A k \in DOMAIN regions : regions[k].size > 0 /\ regions[k].addr + regions[k].size <= mmap_base
    /\ 0 \notin DOMAIN host

\* d holds the bytes of segment i.
Holding(d, i, ph) ==
    /\ \A a \in FileBytes(ph) : a \in DOMAIN d /\ d[a] = <<i, a - ph.vaddr>>
    /\ \A a \in BssBytes(ph) : a \in DOMAIN d /\ d[a] = ZERO

\* What the host may allow in segment i once it is loaded: more than its header
\* only if it is one of R, whose mprotect was refused.
OnHost(R, i, ph) == IF i \in R THEN {ph.flags, ph.flags \cup {"W"}} ELSE {ph.flags}

SegmentInv(i) ==
    LET ph == image[i]
        page == PageOf(ph.vaddr)
        size == Extent(ph)
    IN  /\ i < next => page # 0 /\ Has(regions, host, page, size, ph.flags, OnHost(refused, i, ph)) /\ Holding(data, i, ph)
        /\ i > next => Free(regions, page, size)
        /\ i = next /\ step = "map" => Free(regions, page, size)
        /\ i = next /\ step \in {"fill", "protect"} /\ page # 0 =>
              Has(regions, host, page, size, ph.flags \cup {"W"}, {ph.flags \cup {"W"}})
        /\ i = next /\ step = "protect" => page # 0 /\ Holding(data, i, ph)

LoadInv ==
    /\ image \in Images /\ next \in 1..Len(image) + 1
    /\ step \in {"map", "fill", "protect", "stack", "failed", "killed", "ready"}
    /\ step \in {"fill", "protect", "killed"} => next \in LoadHeaders(image)
    /\ \A i \in LoadHeaders(image) : SegmentInv(i)
    /\ step = "killed" => PageVaddr = 0

\* Segment i of the library is in memory.
InMemory(i) ==
    \/ libStep \in {"map", "fill", "protect"} /\ i < libNext
    \/ libStep = "protect" /\ i = libNext
    \/ libStep = "relocate" \/ JustLoaded

\* Segment i of the library is still to be mapped.
Waiting(i) ==
    \/ libStep \in {"map", "fill", "protect"} /\ i > libNext
    \/ libStep = "map" /\ i = libNext

\* Relocation k of the library has been applied.
Applied(k) ==
    /\ HasDynamic(lib) /\ lib.relocs[k].type = "RELATIVE"
    /\ (libStep = "relocate" /\ k < libNext) \/ JustLoaded

Content(l, i, a) ==
    IF a \in FileCells(l, l.headers[i]) THEN LibByte(i, a - SegmentStart(l, l.headers[i])) ELSE ZERO

LibSegmentInv(i) ==
    LET ph == lib.headers[i]
        page == SegmentPage(lib, ph)
        size == Extent(ph)
    IN  /\ InMemory(i) =>
              /\ page # 0 /\ Pages(page, size) \subseteq DOMAIN host
              /\ \A a \in AllCells(lib, ph) :
                    /\ a \in DOMAIN data
                    /\ \/ data[a] = Content(lib, i, a)
                       \/ \E k \in DOMAIN lib.relocs : Applied(k) /\ a = Place(lib, lib.relocs[k])
        /\ libStep = "fill" /\ i = libNext /\ page # 0 =>
              \A p \in Pages(page, size) : p \in DOMAIN host /\ "W" \in host[p]
        /\ loads = 1 /\ Waiting(i) => Free(regions, page, size)

LinkInv ==
    /\ loads \in Nat /\ loaded_libs \in Seq([lib : Libraries, base : Nat]) /\ Len(loaded_libs) <= loads
    /\ libStep \in {"idle", "loaded", "map", "fill", "protect", "relocate", "killed"}
    /\ libNext \in Nat /\ libNext > 0
    /\ libStep \notin {"idle", "loaded"} => Len(loaded_libs) < loads
    /\ libStep = "loaded" => loads > 0
    /\ libStep \in {"fill", "protect"} => libNext \in Segments(lib)
    /\ loads > 0 => /\ step = "ready" /\ image \in Linked /\ lib \in Libraries
                    /\ \A i \in Segments(lib) : LibSegmentInv(i)
                    /\ \A k \in DOMAIN lib.relocs :
                          Applied(k) => data[Place(lib, lib.relocs[k])] = Pointer(BaseAddr(lib) + lib.relocs[k].addend)
    /\ loads = 0 /\ image \in Linked =>
          \A l \in Libraries : \A i \in Segments(l) :
              Free(regions, SegmentPage(l, l.headers[i]), Extent(l.headers[i]))
    /\ LinkerFaults
    /\ loads <= 1 => AllApart(regions)

StartInv == MemInv /\ LoadInv /\ LinkInv

-----------------------------------------------------------------------------
(* Segments and their pages                                                *)

\* Segment ph takes the size bytes from page on.
Takes(ph, page, size) ==
    /\ ph \in Phdr /\ ph.vaddr \in Nat /\ ph.filesz \in Nat /\ ph.memsz \in Nat /\ ph.flags \in SUBSET Prot
    /\ ph.memsz > 0 /\ ph.filesz <= ph.memsz
    /\ page = PageOf(ph.vaddr) /\ page \in Nat /\ PageAligned(page) /\ page <= ph.vaddr
    /\ size = Extent(ph) /\ size \in Nat /\ size > 0 /\ PageAligned(size) /\ RoundUp(size) = size
    /\ ph.vaddr + ph.memsz <= page + size

LEMMA RoundUpAligned ==
    ASSUME NEW z \in Nat, PageAligned(z)
    PROVE  RoundUp(z) = z
<1>1. PICK w \in Nat : w = RoundUp(z) /\ PageAligned(w) /\ z <= w
  BY RoundUpFact
<1>2. w <= z + PAGE_SIZE - 1
  BY <1>1, PageFact, PageConstants DEF RoundUp
<1>3. z < w => z + PAGE_SIZE <= w
  BY <1>1, AlignedGap
<1> QED
  BY <1>1, <1>2, <1>3, PageConstants

LEMMA TakesFact ==
    ASSUME NEW ph \in Phdr, ph.memsz > 0, ph.filesz <= ph.memsz
    PROVE  Takes(ph, PageOf(ph.vaddr), Extent(ph))
<1>1. ph.vaddr \in Nat /\ ph.filesz \in Nat /\ ph.memsz \in Nat /\ ph.flags \in SUBSET Prot
  BY DEF Phdr
<1>2. PICK v \in Nat, m \in Nat, r \in Nat : v = ph.vaddr /\ m = ph.memsz /\ r = v % PAGE_SIZE
  BY <1>1, PageConstants
<1>3. PageOf(v) \in Nat /\ PageAligned(PageOf(v)) /\ PageOf(v) <= v /\ v = PageOf(v) + r
  <2>1. PageOf(v) = v - r
    BY <1>2 DEF PageOf
  <2> QED
    BY <1>2, <2>1, PageFact
<1>4. Extent(ph) = RoundUp(r + m)
  BY <1>2 DEF Extent
<1>5. PICK z \in Nat : z = RoundUp(r + m) /\ PageAligned(z) /\ r + m <= z
  <2>1. r + m \in Nat
    OBVIOUS
  <2> QED
    BY <2>1, RoundUpFact
<1>6. z > 0 /\ v + m <= PageOf(v) + z
  BY <1>2, <1>3, <1>5
<1>7. RoundUp(z) = z
  BY <1>5, RoundUpAligned
<1> QED
  BY <1>1, <1>2, <1>3, <1>4, <1>5, <1>6, <1>7 DEF Takes

LEMMA ImageSegment ==
    ASSUME NEW img \in Images, NEW i \in LoadHeaders(img)
    PROVE  /\ i \in 1..Len(img) /\ img[i].type = "PT_LOAD"
           /\ Takes(img[i], PageOf(img[i].vaddr), Extent(img[i]))
           /\ PageOf(img[i].vaddr) + Extent(img[i]) <= MmapStart
           /\ \A j \in LoadHeaders(img) :
                 j # i => Aside(PageOf(img[i].vaddr), Extent(img[i]), PageOf(img[j].vaddr), Extent(img[j]))
<1>1. img \in Seq(Phdr) /\ i \in DOMAIN img
  BY LoaderConstants DEF LoadHeaders
<1>2. img[i] \in Phdr /\ i \in 1..Len(img)
  BY <1>1
<1>3. img[i].memsz > 0 /\ img[i].filesz <= img[i].memsz /\ img[i].type = "PT_LOAD"
  BY LoaderConstants DEF LoadHeaders
<1>4. Takes(img[i], PageOf(img[i].vaddr), Extent(img[i]))
  BY <1>2, <1>3, TakesFact
<1> QED
  BY <1>2, <1>3, <1>4, ImageLayout

\* base_addr is the start of a page.
LEMMA BaseFact ==
    ASSUME NEW l \in Libraries
    PROVE  BaseAddr(l) \in Nat /\ PageAligned(BaseAddr(l))
<1>1. l.headers \in Seq(Phdr) /\ Segments(l) # {}
  BY LibraryConstants DEF Segments
<1>2. PICK V : V = {l.headers[i].vaddr : i \in Segments(l)}
  OBVIOUS
<1>3. V \in SUBSET Nat /\ V # {}
  <2>1. \A i \in Segments(l) : l.headers[i] \in Phdr
    BY <1>1 DEF Segments, LoadHeaders
  <2>2. \A ph \in Phdr : ph.vaddr \in Nat
    BY DEF Phdr
  <2>3. \A i \in Segments(l) : l.headers[i].vaddr \in Nat
    BY <2>1, <2>2
  <2> QED
    BY <1>1, <1>2, <2>3
<1>4. Min(V) \in Nat
  BY <1>3, FirstIndex
<1> QED
  BY <1>2, <1>4, PageFact DEF BaseAddr

LEMMA LibrarySegment ==
    ASSUME NEW l \in Libraries, NEW i \in Segments(l)
    PROVE  /\ i \in 1..Len(l.headers) /\ l.headers[i].type = "PT_LOAD" /\ Len(l.headers) \in Nat
           /\ Takes(l.headers[i], PageOf(l.headers[i].vaddr), Extent(l.headers[i]))
           /\ SegmentPage(l, l.headers[i]) \in Nat /\ PageAligned(SegmentPage(l, l.headers[i]))
           /\ SegmentPage(l, l.headers[i]) + Extent(l.headers[i]) <= MmapStart
           /\ SegmentSize(l.headers[i]) = Extent(l.headers[i])
           /\ SegmentStart(l, l.headers[i]) \in Nat
           /\ SegmentPage(l, l.headers[i]) <= SegmentStart(l, l.headers[i])
           /\ SegmentStart(l, l.headers[i]) + l.headers[i].memsz
                 <= SegmentPage(l, l.headers[i]) + Extent(l.headers[i])
<1>1. l.headers \in Seq(Phdr) /\ i \in DOMAIN l.headers
  BY LibraryConstants DEF Segments, LoadHeaders
<1>2. PICK ph : ph = l.headers[i] /\ ph \in Phdr
  BY <1>1
<1>3. i \in 1..Len(l.headers) /\ Len(l.headers) \in Nat
  BY <1>1
<1>4. ph.memsz > 0 /\ ph.filesz <= ph.memsz /\ ph.type = "PT_LOAD"
  BY <1>2, LibraryConstants DEF Segments, LoadHeaders
<1>5. PICK v \in Nat, m \in Nat, page \in Nat, size \in Nat, base \in Nat :
         /\ v = ph.vaddr /\ m = ph.memsz /\ page = PageOf(ph.vaddr) /\ size = Extent(ph) /\ base = BaseAddr(l)
         /\ Takes(ph, page, size) /\ page <= v /\ v + m <= page + size /\ PageAligned(page) /\ PageAligned(base)
  <2>1. Takes(ph, PageOf(ph.vaddr), Extent(ph))
    BY <1>2, <1>4, TakesFact
  <2>2. /\ ph.vaddr \in Nat /\ ph.memsz \in Nat /\ PageOf(ph.vaddr) \in Nat /\ Extent(ph) \in Nat
        /\ PageOf(ph.vaddr) <= ph.vaddr /\ ph.vaddr + ph.memsz <= PageOf(ph.vaddr) + Extent(ph)
        /\ PageAligned(PageOf(ph.vaddr))
    BY <2>1 DEF Takes
  <2> QED
    BY <2>1, <2>2, BaseFact
<1>6. SegmentPage(l, ph) = base + page /\ SegmentStart(l, ph) = base + v
  BY <1>5 DEF SegmentPage, SegmentStart
<1>7. PageAligned(base + page)
  BY <1>5, AlignedSum
<1>8. SegmentSize(ph) = Extent(ph)
  BY DEF SegmentSize, Extent
<1>9. SegmentPage(l, ph) + Extent(ph) <= MmapStart
  BY <1>2, LibraryLayout
<1>10. base + page \in Nat /\ base + v \in Nat /\ base + page <= base + v /\ base + v + m <= base + page + size
  BY <1>5
<1> QED
  BY <1>2, <1>3, <1>4, <1>5, <1>6, <1>7, <1>8, <1>9, <1>10

LEMMA LibraryAside ==
    ASSUME NEW l \in Libraries, NEW i \in Segments(l)
    PROVE  LET page == SegmentPage(l, l.headers[i])
               size == Extent(l.headers[i])
           IN  /\ \A j \in Segments(l) :
                     j # i => Aside(page, size, SegmentPage(l, l.headers[j]), Extent(l.headers[j]))
               /\ \A img \in Linked : \A j \in LoadHeaders(img) :
                     Aside(page, size, PageOf(img[j].vaddr), Extent(img[j]))
BY LibraryLayout

LEMMA AsideSwaps ==
    ASSUME NEW a, NEW z, NEW b, NEW y, Aside(a, z, b, y)
    PROVE  Aside(b, y, a, z)
BY DEF Aside

-----------------------------------------------------------------------------
(* What a step leaves alone                                                *)

Untouched(d, e, b, y) == \A a \in b .. b + y - 1 : a \in DOMAIN d => a \in DOMAIN e /\ e[a] = d[a]

\* The step from list s, tables h and content d to t, g and e does nothing to the
\* y bytes from b on.
Kept(s, h, d, t, g, e, b, y) ==
    /\ \A p, Q : Has(s, h, b, y, p, Q) => Has(t, g, b, y, p, Q)
    /\ Free(s, b, y) => Free(t, b, y)
    /\ Untouched(d, e, b, y)

LEMMA ClearedKeeps ==
    ASSUME NEW d, NEW a \in Nat, NEW z \in Nat, NEW b \in Nat, NEW y \in Nat, Aside(a, z, b, y)
    PROVE  Untouched(d, Cleared(d, a, z), b, y)
<1>1. \A c \in b .. b + y - 1 : c \notin a .. a + z - 1
  BY DEF Aside
<1> QED
  BY <1>1 DEF Untouched, Cleared

LEMMA MappingKeeps ==
    ASSUME NEW s, NEW h, NEW a, NEW z, NEW prot, NEW t, NEW g, Mapping(s, h, a, z, prot, t, g), NEW d,
           NEW b \in Nat, NEW y \in Nat, Aside(a, z, b, y)
    PROVE  Kept(s, h, d, t, g, Cleared(d, a, z), b, y)
<1>1. a \in Nat /\ z \in Nat
  BY DEF Mapping
<1>2. \A p, Q : Has(s, h, b, y, p, Q) => Has(t, g, b, y, p, Q)
  BY HasMapping
<1>3. Free(s, b, y) => Free(t, b, y)
  BY FreeMapping
<1>4. Untouched(d, Cleared(d, a, z), b, y)
  BY <1>1, ClearedKeeps
<1> QED
  BY <1>2, <1>3, <1>4 DEF Kept

LEMMA ProtectionKeeps ==
    ASSUME NEW s, NEW h, NEW a, NEW z, NEW prot, NEW stop, NEW t, NEW g, Protection(s, h, a, z, prot, stop, t, g), NEW d,
           NEW b \in Nat, NEW y \in Nat, Aside(a, z, b, y)
    PROVE  Kept(s, h, d, t, g, d, b, y)
<1>1. \A p, Q : Has(s, h, b, y, p, Q) => Has(t, g, b, y, p, Q)
  BY HasProtected
<1>2. Free(s, b, y) => Free(t, b, y)
  BY ProtectionList
<1>3. Untouched(d, d, b, y)
  BY DEF Untouched
<1> QED
  BY <1>1, <1>2, <1>3 DEF Kept

LEMMA HoldingKept ==
    ASSUME NEW ph, NEW page, NEW size, Takes(ph, page, size), NEW i, NEW d, NEW e,
           Holding(d, i, ph), Untouched(d, e, page, size)
    PROVE  Holding(e, i, ph)
<1>1. PICK v \in Nat, f \in Nat, m \in Nat : /\ v = ph.vaddr /\ f = ph.filesz /\ m = ph.memsz /\ f <= m
                                             /\ page \in Nat /\ size \in Nat /\ page <= v /\ v + m <= page + size
  BY DEF Takes
<1>2. \A a \in v .. v + f - 1 : a \in page .. page + size - 1
  BY <1>1
<1>3. \A a \in v + f .. v + m - 1 : a \in page .. page + size - 1
  BY <1>1
<1>4. \A a \in v .. v + f - 1 : a \in DOMAIN d /\ d[a] = <<i, a - v>>
  BY <1>1 DEF Holding, FileBytes
<1>5. \A a \in v + f .. v + m - 1 : a \in DOMAIN d /\ d[a] = ZERO
  BY <1>1 DEF Holding, BssBytes
<1>6. \A a \in v .. v + f - 1 : a \in DOMAIN e /\ e[a] = <<i, a - v>>
  BY <1>2, <1>4 DEF Untouched
<1>7. \A a \in v + f .. v + m - 1 : a \in DOMAIN e /\ e[a] = ZERO
  BY <1>3, <1>5 DEF Untouched
<1> QED
  BY <1>1, <1>6, <1>7 DEF Holding, FileBytes, BssBytes

\* A segment that is not the current one keeps its place in the invariant.
LEMMA SegmentStays ==
    ASSUME image \in Images, NEW i \in LoadHeaders(image), SegmentInv(i), UNCHANGED <<image, next, refused>>,
           i # next \/ step' \notin {"map", "fill", "protect"},
           Kept(regions, host, data, regions', host', data', PageOf(image[i].vaddr), Extent(image[i]))
    PROVE  SegmentInv(i)'
<1>1. PICK ph, page, size : ph = image[i] /\ page = PageOf(ph.vaddr) /\ size = Extent(ph)
  OBVIOUS
<1>2. Takes(ph, page, size)
  BY <1>1, ImageSegment
<1>3. /\ \A p, Q : Has(regions, host, page, size, p, Q) => Has(regions', host', page, size, p, Q)
      /\ Free(regions, page, size) => Free(regions', page, size)
      /\ Untouched(data, data', page, size)
  BY <1>1 DEF Kept
<1>4. ph = image'[i]
  BY <1>1
<1>5. i < next => page # 0 /\ Has(regions', host', page, size, ph.flags, OnHost(refused, i, ph)) /\ Holding(data', i, ph)
  <2>1. i < next => page # 0 /\ Has(regions, host, page, size, ph.flags, OnHost(refused, i, ph)) /\ Holding(data, i, ph)
    BY <1>1 DEF SegmentInv
  <2> QED
    BY <1>2, <1>3, <2>1, HoldingKept
<1>6. i > next => Free(regions', page, size)
  BY <1>1, <1>3 DEF SegmentInv
<1> QED
  BY <1>1, <1>4, <1>5, <1>6 DEF SegmentInv

LEMMA SegmentPassed ==
    ASSUME image \in Images, NEW i \in LoadHeaders(image), SegmentInv(i), UNCHANGED image,
           next \in Nat, next' = next + 1, step' = "map", i # next, i \in refused' <=> i \in refused,
           Kept(regions, host, data, regions', host', data', PageOf(image[i].vaddr), Extent(image[i]))
    PROVE  SegmentInv(i)'
<1>1. PICK ph, page, size : ph = image[i] /\ page = PageOf(ph.vaddr) /\ size = Extent(ph)
  OBVIOUS
<1>2. Takes(ph, page, size) /\ i \in 1..Len(image)
  BY <1>1, ImageSegment
<1>3. /\ \A p, Q : Has(regions, host, page, size, p, Q) => Has(regions', host', page, size, p, Q)
      /\ Free(regions, page, size) => Free(regions', page, size)
      /\ Untouched(data, data', page, size)
  BY <1>1 DEF Kept
<1>4. ph = image'[i]
  BY <1>1
<1>5. i < next => page # 0 /\ Has(regions', host', page, size, ph.flags, OnHost(refused, i, ph)) /\ Holding(data', i, ph)
  <2>1. i < next => page # 0 /\ Has(regions, host, page, size, ph.flags, OnHost(refused, i, ph)) /\ Holding(data, i, ph)
    BY <1>1 DEF SegmentInv
  <2> QED
    BY <1>2, <1>3, <2>1, HoldingKept
<1>6. i > next => Free(regions', page, size)
  BY <1>1, <1>3 DEF SegmentInv
<1>7. (i < next <=> i < next') /\ (i > next' => i > next) /\ (i = next' => i > next)
  BY <1>2
<1>8. step' \notin {"fill", "protect"} /\ step' # "protect"
  OBVIOUS
<1>9. OnHost(refused', i, ph) = OnHost(refused, i, ph)
  BY DEF OnHost
<1>10. i < next => page # 0 /\ Has(regions', host', page, size, ph.flags, OnHost(refused', i, ph)) /\ Holding(data', i, ph)
  BY <1>5, <1>9
<1> QED
  BY <1>1, <1>4, <1>6, <1>7, <1>8, <1>10 DEF SegmentInv

-----------------------------------------------------------------------------
(* mmap                                                                    *)

\* A request for memory at an address below the arena, or anywhere, succeeds
\* there or changes nothing but the bump pointer.
LEMMA MmapOutcome ==
    ASSUME MemInv, NEW len \in Nat, len > 0, NEW z, z = RoundUp(len), NEW prot \in SUBSET Prot, NEW hint \in Nat,
           hint # 0 => hint + z <= MmapStart, Mmap(len, prot, hint)
    PROVE  /\ MemInv'
           /\ \E a \in Nat :
                 /\ hint # 0 => a = hint
                 /\ hint = 0 => a = mmap_base /\ a >= MmapStart /\ Free(regions, a, z)
                 /\ \/ Mapping(regions, host, a, z, prot, regions', host') /\ regions' # regions /\ Last(regions').addr = a
                    \/ UNCHANGED <<regions, host>>
<1>1. z \in Nat /\ PageAligned(z) /\ z > 0
  BY RoundUpFact
<1>2. MemTypeOK /\ MemTypeOK' /\ regions \in Seq(MemRegion)
  BY MmapTyped, RegionsFact DEF MemInv
<1>3. PICK a \in Nat, b \in Nat :
         /\ a = MmapAddr(RoundUp(len), hint).addr /\ a + RoundUp(len) <= LastPage + PAGE_SIZE
         /\ b >= mmap_base /\ mmap_base' = b
         /\ hint = 0 => a = mmap_base /\ b = mmap_base + RoundUp(len)
         /\ hint # 0 => a = hint
         /\ \/ /\ KernelAccepts(a, RoundUp(len))
               /\ host' = KernelMaps(host, Pages(a, RoundUp(len)), prot)
               /\ regions' = Append(regions, NewRegion(a, RoundUp(len), prot))
            \/ UNCHANGED <<host, regions>>
         /\ UNCHANGED <<brk, translated_pages>>
  BY <1>2, MmapFact, Zenon
<1>4. mmap_base \in Nat /\ MmapStart \in Nat /\ mmap_base >= MmapStart /\ MmapStart > 0
  BY <1>2, MemoryConstants, SMTT(60) DEF MemInv, MemTypeOK
<1>5. \A k \in DOMAIN regions : /\ regions[k].addr \in Nat /\ regions[k].size \in Nat /\ regions[k].size > 0
                                /\ regions[k].addr + regions[k].size <= mmap_base
  BY <1>2, RegionsFact DEF MemInv
<1>6. a + z <= b /\ a > 0 /\ a + z <= LastPage + PAGE_SIZE /\ b \in Nat /\ b >= MmapStart
  BY <1>1, <1>3, <1>4
<1>7. hint = 0 => a = mmap_base /\ a >= MmapStart /\ Free(regions, a, z)
  BY <1>3, <1>4, <1>5 DEF Free, Aside
<1>8. \A k \in DOMAIN regions : regions[k].size > 0 /\ regions[k].addr + regions[k].size <= b
  BY <1>3, <1>4, <1>5
<1>9. CASE UNCHANGED <<host, regions>>
  <2>1. MemInv'
    BY <1>2, <1>3, <1>6, <1>8, <1>9 DEF MemInv
  <2> QED
    BY <1>3, <1>7, <1>9, <2>1
<1>10. CASE /\ KernelAccepts(a, RoundUp(len))
            /\ host' = KernelMaps(host, Pages(a, RoundUp(len)), prot)
            /\ regions' = Append(regions, NewRegion(a, RoundUp(len), prot))
  <2>1. PICK t, g : t = regions' /\ g = host'
    OBVIOUS
  <2>2. Mapping(regions, host, a, z, prot, t, g)
    BY <1>1, <1>2, <1>6, <1>10, <2>1 DEF Mapping, KernelAccepts, KernelMaps
  <2>3. PICK n \in Nat : Extended(regions, t, n, a, z, prot)
    BY <2>2, MappingList
  <2>4. \A k \in DOMAIN t : t[k].size > 0 /\ t[k].addr + t[k].size <= b
    BY <1>1, <1>6, <1>8, <2>3 DEF Extended
  <2>5. 0 \notin DOMAIN g
    <3>1. 0 \notin Pages(a, z)
      BY <1>6 DEF Pages
    <3>2. DOMAIN g = DOMAIN host \cup Pages(a, z)
      BY <2>2 DEF Mapping
    <3> QED
      BY <3>1, <3>2 DEF MemInv
  <2>6. MemInv'
    BY <1>2, <1>3, <1>6, <2>1, <2>4, <2>5 DEF MemInv
  <2>7. t # regions /\ Last(t).addr = a
    BY <2>3 DEF Extended, Last
  <2> QED
    BY <1>3, <1>7, <2>1, <2>2, <2>6, <2>7
<1> QED
  BY <1>3, <1>9, <1>10

LEMMA MprotectKeepsMem ==
    ASSUME MemInv, NEW a \in Nat, NEW z \in Nat, NEW prot \in SUBSET Prot, NEW stop, Mprotect(a, z, prot, stop),
           Protection(regions, host, a, z, prot, stop, regions', host')
    PROVE  MemInv'
<1>1. MemTypeOK'
  BY MprotectTyped DEF MemInv
<1>2. PICK t, g : t = regions' /\ g = host' /\ Protection(regions, host, a, z, prot, stop, t, g)
  OBVIOUS
<1>3. mmap_base' = mmap_base
  BY DEF Mprotect
<1>4. \A k \in DOMAIN t : t[k].size > 0 /\ t[k].addr + t[k].size <= mmap_base
  BY <1>2, ProtectionList DEF MemInv
<1>5. 0 \notin DOMAIN g
  BY <1>2 DEF MemInv, Protection
<1> QED
  BY <1>1, <1>2, <1>3, <1>4, <1>5 DEF MemInv

-----------------------------------------------------------------------------
(* The steps of the program's loader                                       *)

\* The places of all libraries are free.
LibFree(s) ==
    \A l \in Libraries : \A i \in Segments(l) : Free(s, SegmentPage(l, l.headers[i]), Extent(l.headers[i]))

LEMMA KeptSame ==
    ASSUME NEW s, NEW h, NEW d, NEW b, NEW y
    PROVE  Kept(s, h, d, s, h, d, b, y)
BY DEF Kept, Untouched

LEMMA AboveAside ==
    ASSUME NEW a \in Nat, NEW z, NEW b \in Nat, NEW y \in Nat, a >= MmapStart, b + y <= MmapStart
    PROVE  Aside(a, z, b, y)
BY PageConstants DEF Aside

\* A mapping for the program, at a segment of it or from the bump pointer, meets
\* neither another segment nor a library.
ForProgram(a, z) ==
    a >= MmapStart \/ \E i \in LoadHeaders(image) : a = PageOf(image[i].vaddr) /\ z = Extent(image[i])

LEMMA ProgramMapping ==
    ASSUME image \in Images, NEW s, NEW h, NEW a, NEW z, NEW prot, NEW t, NEW g, Mapping(s, h, a, z, prot, t, g),
           ForProgram(a, z), image \in Linked, LibFree(s)
    PROVE  LibFree(t)
<1> SUFFICES ASSUME NEW l \in Libraries, NEW i \in Segments(l)
             PROVE  Free(t, SegmentPage(l, l.headers[i]), Extent(l.headers[i]))
  BY DEF LibFree
<1>1. PICK b \in Nat, y \in Nat : /\ b = SegmentPage(l, l.headers[i]) /\ y = Extent(l.headers[i])
                                  /\ b + y <= MmapStart
  <2>1. Takes(l.headers[i], PageOf(l.headers[i].vaddr), Extent(l.headers[i]))
    BY LibrarySegment
  <2>2. Extent(l.headers[i]) \in Nat
    BY <2>1 DEF Takes
  <2> QED
    BY <2>2, LibrarySegment
<1>2. a \in Nat
  BY DEF Mapping
<1>3. CASE a >= MmapStart
  <2>1. Aside(a, z, b, y)
    BY <1>1, <1>2, <1>3, AboveAside
  <2> QED
    BY <1>1, <2>1, FreeMapping DEF LibFree
<1>4. CASE \E j \in LoadHeaders(image) : a = PageOf(image[j].vaddr) /\ z = Extent(image[j])
  <2>1. Aside(b, y, a, z)
    BY <1>1, <1>4, LibraryAside
  <2>2. Aside(a, z, b, y)
    BY <2>1, AsideSwaps
  <2> QED
    BY <1>1, <2>2, FreeMapping DEF LibFree
<1> QED
  BY <1>3, <1>4 DEF ForProgram

\* What the proof of each step of the loader shows.
LoaderGoal ==
    /\ MemInv' /\ LoadInv' /\ AllApart(regions')
    /\ image \in Linked /\ LibFree(regions) => LibFree(regions')

\* The current segment, by name.
LEMMA Current ==
    ASSUME LoadInv, next \in LoadHeaders(image)
    PROVE  \E ph, page, size :
              /\ ph = image[next] /\ Ph = ph /\ Takes(ph, page, size) /\ page = PageOf(ph.vaddr) /\ size = Extent(ph)
              /\ PageVaddr = page /\ MapSize = size /\ LoadProt = ph.flags \cup {"W"} /\ LoadProt \in SUBSET Prot
              /\ page + size <= MmapStart /\ image \in Images /\ next \in 1..Len(image)
<1>1. PICK ph : ph = image[next] /\ Ph = ph
  BY DEF Ph
<1>2. image \in Images
  BY DEF LoadInv
<1>3. Takes(ph, PageOf(ph.vaddr), Extent(ph)) /\ PageOf(ph.vaddr) + Extent(ph) <= MmapStart /\ next \in 1..Len(image)
  BY <1>1, <1>2, ImageSegment
<1>4. PageVaddr = PageOf(ph.vaddr) /\ MapSize = Extent(ph) /\ LoadProt = ph.flags \cup {"W"}
  BY <1>1 DEF PageVaddr, MapSize, Extent, PageOffset, LoadProt
<1>5. ph.flags \cup {"W"} \in SUBSET Prot
  BY <1>3 DEF Takes, Prot
<1> QED
  BY <1>1, <1>2, <1>3, <1>4, <1>5, Zenon

LEMMA MapSegmentStep ==
    ASSUME MemInv, LoadInv, AllApart(regions), MapSegment
    PROVE  LoaderGoal
<1>1. /\ next \in LoadHeaders(image) /\ step = "map" /\ UNCHANGED <<image, next, refused>>
      /\ Mmap(MapSize, LoadProt, PageVaddr)
      /\ IF regions' = regions
         THEN step' = "failed" /\ UNCHANGED data
         ELSE step' = "fill" /\ data' = Cleared(data, Last(regions').addr, MapSize)
  <2>1. image \in Seq(Phdr) /\ next \in 1..Len(image) + 1
    BY LoaderConstants DEF LoadInv
  <2>2. next \in DOMAIN image
    BY <2>1 DEF MapSegment
  <2> QED
    BY <2>2 DEF MapSegment, LoadHeaders, Ph
<1>2. PICK ph, page, size :
         /\ ph = image[next] /\ Ph = ph /\ Takes(ph, page, size) /\ page = PageOf(ph.vaddr) /\ size = Extent(ph)
         /\ PageVaddr = page /\ MapSize = size /\ LoadProt = ph.flags \cup {"W"} /\ LoadProt \in SUBSET Prot
         /\ page + size <= MmapStart /\ image \in Images /\ next \in 1..Len(image)
  BY <1>1, Current, Zenon
<1>3. page \in Nat /\ size \in Nat /\ size > 0 /\ size = RoundUp(size)
  BY <1>2 DEF Takes
<1>4. PICK a \in Nat :
         /\ MemInv'
         /\ page # 0 => a = page
         /\ page = 0 => a >= MmapStart /\ Free(regions, a, size)
         /\ \/ Mapping(regions, host, a, size, LoadProt, regions', host') /\ regions' # regions /\ Last(regions').addr = a
            \/ UNCHANGED <<regions, host>>
  <2>1. Mmap(size, LoadProt, page)
    BY <1>1, <1>2
  <2> QED
    BY <1>2, <1>3, <2>1, MmapOutcome
<1>5. \A i \in LoadHeaders(image) : SegmentInv(i)
  BY DEF LoadInv
<1>6. image' \in Images /\ next' \in 1..Len(image') + 1 /\ next' \in LoadHeaders(image')
  BY <1>1 DEF LoadInv
<1>7. CASE UNCHANGED <<regions, host>>
  <2>1. step' = "failed" /\ data' = data
    BY <1>1, <1>7
  <2>2. \A i \in LoadHeaders(image) : SegmentInv(i)'
    <3> SUFFICES ASSUME NEW i \in LoadHeaders(image) PROVE SegmentInv(i)'
      OBVIOUS
    <3>1. Kept(regions, host, data, regions', host', data', PageOf(image[i].vaddr), Extent(image[i]))
      BY <1>7, <2>1, KeptSame
    <3>2. step' \notin {"map", "fill", "protect"}
      BY <2>1
    <3> QED
      BY <1>1, <1>2, <1>5, <3>1, <3>2, SegmentStays
  <2>3. LoadInv'
    BY <1>1, <1>6, <2>1, <2>2 DEF LoadInv
  <2> QED
    BY <1>4, <1>7, <2>3 DEF LoaderGoal
<1>8. CASE Mapping(regions, host, a, size, LoadProt, regions', host') /\ regions' # regions /\ Last(regions').addr = a
  <2>1. step' = "fill" /\ data' = Cleared(data, a, size)
    BY <1>1, <1>2, <1>8
  <2>2. ASSUME NEW i \in LoadHeaders(image), i # next PROVE SegmentInv(i)'
    <3>1. PICK b \in Nat, y \in Nat : b = PageOf(image[i].vaddr) /\ y = Extent(image[i]) /\ b + y <= MmapStart
      <4>1. Takes(image[i], PageOf(image[i].vaddr), Extent(image[i]))
        BY <1>2, ImageSegment
      <4>2. PageOf(image[i].vaddr) \in Nat /\ Extent(image[i]) \in Nat
        BY <4>1 DEF Takes
      <4> QED
        BY <1>2, <4>2, ImageSegment
    <3>2. Aside(page, size, b, y)
      BY <1>1, <1>2, <2>2, <3>1, ImageSegment
    <3>3. Aside(a, size, b, y)
      BY <1>4, <3>1, <3>2, AboveAside
    <3>4. Kept(regions, host, data, regions', host', Cleared(data, a, size), b, y)
      BY <1>8, <3>1, <3>3, MappingKeeps
    <3> QED
      BY <1>1, <1>2, <1>5, <2>1, <2>2, <3>1, <3>4, SegmentStays
  <2>3. Free(regions, page, size)
    BY <1>1, <1>2, <1>5 DEF SegmentInv
  <2>4. Free(regions, a, size)
    BY <1>4, <2>3
  <2>5. SegmentInv(next)'
    <3>1. page # 0 => Has(regions', host', page, size, LoadProt, {LoadProt})
      BY <1>4, <1>8, <2>4, HasNew
    <3>2. PICK i : i = next /\ i = next' /\ ~(i < i) /\ ~(i > i) /\ ph = image'[i]
      BY <1>1, <1>2
    <3>3. step' = "fill" /\ step' # "map" /\ step' # "protect"
      BY <2>1
    <3>4. PageOf(image'[i].vaddr) = page /\ Extent(image'[i]) = size
      BY <1>2, <3>2
    <3>5. (page # 0 => Has(regions', host', page, size, image'[i].flags \cup {"W"}, {image'[i].flags \cup {"W"}}))
      BY <1>2, <3>1, <3>2
    <3>6. SegmentInv(i)'
      BY <3>2, <3>3, <3>4, <3>5 DEF SegmentInv
    <3> QED
      BY <3>2, <3>6 DEF SegmentInv
  <2>6. \A i \in LoadHeaders(image)' : SegmentInv(i)'
    BY <1>1, <2>2, <2>5 DEF SegmentInv
  <2>7. LoadInv'
    BY <1>1, <1>6, <2>1, <2>6 DEF LoadInv
  <2>8. AllApart(regions')
    BY <1>8, <2>4, ApartMapping
  <2>9. ForProgram(a, size)
    BY <1>1, <1>2, <1>4 DEF ForProgram
  <2>10. image \in Linked /\ LibFree(regions) => LibFree(regions')
    BY <1>2, <1>8, <2>9, ProgramMapping
  <2> QED
    BY <1>4, <2>7, <2>8, <2>10 DEF LoaderGoal
<1> QED
  BY <1>4, <1>7, <1>8

\* The bytes of a region of one's own are in pages with its permissions.
LEMMA HasByte ==
    ASSUME NEW s, NEW h, NEW b \in Nat, NEW y \in Nat, NEW p, NEW Q, Has(s, h, b, y, p, Q), NEW a \in Nat, b <= a, a < b + y
    PROVE  PageOf(a) \in DOMAIN h /\ h[PageOf(a)] \in Q
<1>1. PICK k \in DOMAIN s : s[k].addr = b /\ s[k].size = y /\ s[k].perms = p /\ Backed(s[k], h, Q)
  BY DEF Has, Settled
<1>2. PICK r : r = s[k] /\ r.addr = b /\ r.size = y /\ r.perms = p /\ Backed(r, h, Q)
  BY <1>1
<1>3. Holds(r, a, 1)
  BY <1>2 DEF Holds
<1>4. PageOf(a) \in Touched(a, 1)
  <2>1. a \in a .. a + 1 - 1
    OBVIOUS
  <2> QED
    BY <2>1 DEF Touched
<1> QED
  BY <1>2, <1>3, <1>4, TouchedFact

LEMMA PageZero == PageOf(0) = 0
BY PageFact

LEMMA StoredHolds ==
    ASSUME NEW ph, NEW page, NEW size, Takes(ph, page, size), Ph = ph, PageVaddr = page, NEW d
    PROVE  /\ Holding(Stored(d), next, ph)
           /\ \A b \in Nat, y \in Nat : Aside(page, size, b, y) => Untouched(d, Stored(d), b, y)
<1>1. PICK v \in Nat, f \in Nat, m \in Nat :
         /\ v = ph.vaddr /\ f = ph.filesz /\ m = ph.memsz /\ f <= m
         /\ page \in Nat /\ size \in Nat /\ page <= v /\ v + m <= page + size
  BY DEF Takes
<1>2. PICK e : e = Stored(d)
  OBVIOUS
<1>3. e = [a \in DOMAIN d \cup (page .. v + m - 1) |->
             IF a \in v .. v + f - 1 THEN <<next, a - v>>
             ELSE IF a \in page .. v + m - 1 THEN ZERO ELSE d[a]]
  BY <1>1, <1>2 DEF Stored, FileBytes
<1>4. \A a \in v .. v + f - 1 : a \in page .. v + m - 1
  BY <1>1
<1>5. \A a \in v + f .. v + m - 1 : a \in page .. v + m - 1 /\ a \notin v .. v + f - 1
  BY <1>1
<1>6. \A a \in v .. v + f - 1 : a \in DOMAIN e /\ e[a] = <<next, a - v>>
  BY <1>3, <1>4
<1>7. \A a \in v + f .. v + m - 1 : a \in DOMAIN e /\ e[a] = ZERO
  BY <1>3, <1>5
<1>8. Holding(e, next, ph)
  BY <1>1, <1>6, <1>7 DEF Holding, FileBytes, BssBytes
<1>9. ASSUME NEW b \in Nat, NEW y \in Nat, Aside(page, size, b, y) PROVE Untouched(d, e, b, y)
  <2>1. \A a \in b .. b + y - 1 : a \notin v .. v + f - 1 /\ a \notin page .. v + m - 1
    BY <1>1, <1>9 DEF Aside
  <2> QED
    BY <1>3, <2>1 DEF Untouched
<1> QED
  BY <1>2, <1>8, <1>9

LEMMA FillSegmentStep ==
    ASSUME MemInv, LoadInv, AllApart(regions), FillSegment
    PROVE  LoaderGoal
<1>1. /\ next \in LoadHeaders(image) /\ step = "fill" /\ UNCHANGED <<image, next, refused, memVars>> /\ step' = "protect"
      /\ data' = Stored(data) /\ \A a \in Written : HostAllows(PageOf(a), "W")
  BY DEF FillSegment, LoadInv
<1>2. PICK ph, page, size :
         /\ ph = image[next] /\ Ph = ph /\ Takes(ph, page, size) /\ page = PageOf(ph.vaddr) /\ size = Extent(ph)
         /\ PageVaddr = page /\ MapSize = size /\ LoadProt = ph.flags \cup {"W"} /\ LoadProt \in SUBSET Prot
         /\ page + size <= MmapStart /\ image \in Images /\ next \in 1..Len(image)
  BY <1>1, Current, Zenon
<1>3. page # 0
  <2>1. page \in Written
    <3>1. page .. ph.vaddr + ph.memsz - 1 = Written
      BY <1>2 DEF Written
    <3>2. page \in page .. ph.vaddr + ph.memsz - 1
      BY <1>2, SMTT(60) DEF Takes
    <3> QED
      BY <3>1, <3>2
  <2>2. PageOf(page) \in DOMAIN host
    BY <1>1, <2>1 DEF HostAllows
  <2> QED
    BY <2>2, PageZero DEF MemInv
<1>4. \A i \in LoadHeaders(image) : SegmentInv(i)
  BY DEF LoadInv
<1>5. MemInv'
  BY <1>1 DEF MemInv, MemTypeOK, memVars
<1>6. Holding(data', next, ph) /\ \A b \in Nat, y \in Nat : Aside(page, size, b, y) => Untouched(data, data', b, y)
  BY <1>1, <1>2, StoredHolds
<1>7. regions' = regions /\ host' = host
  BY <1>1 DEF memVars
<1>8. ASSUME NEW i \in LoadHeaders(image), i # next PROVE SegmentInv(i)'
  <2>1. PICK b \in Nat, y \in Nat : b = PageOf(image[i].vaddr) /\ y = Extent(image[i])
    <3>1. Takes(image[i], PageOf(image[i].vaddr), Extent(image[i]))
      BY <1>2, ImageSegment
    <3> QED
      BY <3>1 DEF Takes
  <2>2. Aside(page, size, b, y)
    BY <1>1, <1>2, <1>8, <2>1, ImageSegment
  <2>3. Kept(regions, host, data, regions', host', data', b, y)
    BY <1>6, <1>7, <2>2 DEF Kept
  <2> QED
    BY <1>1, <1>2, <1>4, <1>8, <2>1, <2>3, SegmentStays
<1>9. SegmentInv(next)'
  <2>1. Has(regions, host, page, size, ph.flags \cup {"W"}, {ph.flags \cup {"W"}})
    BY <1>1, <1>2, <1>3, <1>4 DEF SegmentInv
  <2>2. PICK i : i = next /\ i = next' /\ ~(i < i) /\ ~(i > i) /\ ph = image'[i]
    BY <1>1, <1>2
  <2>3. step' = "protect" /\ step' # "map"
    BY <1>1
  <2>4. PageOf(image'[i].vaddr) = page /\ Extent(image'[i]) = size
    BY <1>2, <2>2
  <2>5. Has(regions', host', page, size, image'[i].flags \cup {"W"}, {image'[i].flags \cup {"W"}}) /\ Holding(data', i, image'[i])
    BY <1>6, <1>7, <2>1, <2>2
  <2>6. SegmentInv(i)'
    BY <1>3, <2>2, <2>3, <2>4, <2>5 DEF SegmentInv
  <2> QED
    BY <2>2, <2>6 DEF SegmentInv
<1>10. \A i \in LoadHeaders(image)' : SegmentInv(i)'
  BY <1>1, <1>8, <1>9 DEF SegmentInv
<1>11. LoadInv'
  BY <1>1, <1>10 DEF LoadInv
<1> QED
  BY <1>5, <1>7, <1>11 DEF LoaderGoal

LEMMA FillFaultsStep ==
    ASSUME MemInv, LoadInv, AllApart(regions), FillFaults
    PROVE  LoaderGoal
<1>1. /\ next \in LoadHeaders(image) /\ step = "fill" /\ UNCHANGED <<image, next, refused, memVars, data>> /\ step' = "killed"
      /\ \E a \in Written : ~HostAllows(PageOf(a), "W")
  BY DEF FillFaults, LoadInv
<1>2. PICK ph, page, size :
         /\ ph = image[next] /\ Ph = ph /\ Takes(ph, page, size) /\ page = PageOf(ph.vaddr) /\ size = Extent(ph)
         /\ PageVaddr = page /\ MapSize = size /\ LoadProt = ph.flags \cup {"W"} /\ LoadProt \in SUBSET Prot
         /\ page + size <= MmapStart /\ image \in Images /\ next \in 1..Len(image)
  BY <1>1, Current, Zenon
<1>3. \A i \in LoadHeaders(image) : SegmentInv(i)
  BY DEF LoadInv
<1>4. PageVaddr = 0
  <2> SUFFICES ASSUME page # 0 PROVE FALSE
    BY <1>2
  <2>1. PICK a \in page .. ph.vaddr + ph.memsz - 1 : ~HostAllows(PageOf(a), "W")
    BY <1>1, <1>2 DEF Written
  <2>2. page \in Nat /\ size \in Nat /\ a \in Nat /\ page <= a /\ a < page + size
    <3>1. PICK v \in Nat, m \in Nat : /\ v = ph.vaddr /\ m = ph.memsz /\ page \in Nat /\ size \in Nat
                                      /\ v + m <= page + size
      BY <1>2 DEF Takes
    <3>2. a \in page .. v + m - 1
      BY <2>1, <3>1
    <3> QED
      BY <3>1, <3>2
  <2>3. PICK p : p = ph.flags \cup {"W"} /\ Has(regions, host, page, size, p, {p})
    BY <1>1, <1>2, <1>3 DEF SegmentInv
  <2>4. PageOf(a) \in DOMAIN host /\ host[PageOf(a)] \in {p}
    <3>1. Has(regions, host, page, size, p, {p})
      BY <2>3
    <3>2. page \in Nat /\ size \in Nat /\ a \in Nat /\ page <= a /\ a < page + size
      BY <2>2
    <3> QED
      BY <3>1, <3>2, HasByte, Zenon
  <2> QED
    BY <2>1, <2>3, <2>4 DEF HostAllows, Allows
<1>5. MemInv'
  BY <1>1 DEF MemInv, MemTypeOK, memVars
<1>6. regions' = regions /\ host' = host /\ data' = data
  BY <1>1 DEF memVars
<1>7. ASSUME NEW i \in LoadHeaders(image) PROVE SegmentInv(i)'
  <2>1. Kept(regions, host, data, regions', host', data', PageOf(image[i].vaddr), Extent(image[i]))
    BY <1>6, KeptSame
  <2>2. step' \notin {"map", "fill", "protect"}
    BY <1>1
  <2> QED
    BY <1>1, <1>2, <1>3, <2>1, <2>2, SegmentStays
<1>8. PageVaddr' = 0
  BY <1>1, <1>4 DEF PageVaddr, Ph
<1>9. LoadInv'
  BY <1>1, <1>7, <1>8 DEF LoadInv
<1> QED
  BY <1>5, <1>6, <1>9 DEF LoaderGoal

LEMMA ProtectSegmentStep ==
    ASSUME MemInv, LoadInv, AllApart(regions), ProtectSegment
    PROVE  LoaderGoal
<1>1. /\ next \in LoadHeaders(image) /\ step = "protect" /\ UNCHANGED <<image, data>> /\ step' = "map"
      /\ next' = next + 1
      /\ IF Ph.flags # LoadProt
         THEN \E stop \in Stops(PageVaddr, MapSize) :
                /\ Mprotect(PageVaddr, MapSize, Ph.flags, stop)
                /\ refused' = IF stop = PageVaddr + MapSize THEN refused ELSE refused \cup {next}
         ELSE UNCHANGED <<memVars, refused>>
  BY DEF ProtectSegment, LoadInv
<1>2. PICK ph, page, size :
         /\ ph = image[next] /\ Ph = ph /\ Takes(ph, page, size) /\ page = PageOf(ph.vaddr) /\ size = Extent(ph)
         /\ PageVaddr = page /\ MapSize = size /\ LoadProt = ph.flags \cup {"W"} /\ LoadProt \in SUBSET Prot
         /\ page + size <= MmapStart /\ image \in Images /\ next \in 1..Len(image)
  BY <1>1, Current, Zenon
<1>3. \A i \in LoadHeaders(image) : SegmentInv(i)
  BY DEF LoadInv
<1>4. page # 0 /\ Holding(data, next, ph) /\ Has(regions, host, page, size, ph.flags \cup {"W"}, {ph.flags \cup {"W"}})
  BY <1>1, <1>2, <1>3 DEF SegmentInv
<1>5. page \in Nat /\ size \in Nat /\ size > 0 /\ PageAligned(page) /\ RoundUp(size) = size /\ ph.flags \in SUBSET Prot
  BY <1>2 DEF Takes
<1>6. /\ MemInv' /\ Has(regions', host', page, size, ph.flags, OnHost(refused', next, ph)) /\ AllApart(regions')
      /\ \A i : i # next => (i \in refused' <=> i \in refused)
      /\ LibFree(regions) => LibFree(regions')
      /\ \A b \in Nat, y \in Nat : Aside(page, size, b, y) => Kept(regions, host, data, regions', host', data', b, y)
  <2>1. CASE ph.flags # LoadProt
    <3>1. PICK stop : /\ Mprotect(page, size, ph.flags, stop)
                      /\ refused' = IF stop = page + size THEN refused ELSE refused \cup {next}
      BY <1>1, <1>2, <2>1, Zenon
    <3>2. Protection(regions, host, page, size, ph.flags, stop, regions', host')
      BY <1>5, <3>1, MprotectOutcome DEF MemInv
    <3>3. MemInv'
      BY <1>5, <3>1, <3>2, MprotectKeepsMem
    <3>4. \A j \in DOMAIN regions : regions[j].size > 0
      BY DEF MemInv
    <3>5. PICK p, Q : p = ph.flags \cup {"W"} /\ Q = IF stop = page + size THEN {ph.flags} ELSE {ph.flags, p}
      OBVIOUS
    <3>5a. Has(regions', host', page, size, ph.flags, Q)
      <4>1. Has(regions, host, page, size, p, {p})
        BY <1>4, <3>5
      <4>2. Q = IF stop = page + size THEN {ph.flags} ELSE {ph.flags, p}
        BY <3>5
      <4> QED
        BY <3>2, <3>4, <4>1, <4>2, HasReprotected
    <3>5b. Q \subseteq OnHost(refused', next, ph)
      BY <3>1, <3>5 DEF OnHost
    <3>5c. Has(regions', host', page, size, ph.flags, OnHost(refused', next, ph))
      BY <3>5a, <3>5b, HasMore
    <3>6. AllApart(regions') /\ (LibFree(regions) => LibFree(regions'))
      BY <3>2, ProtectionList DEF LibFree
    <3>7. \A b \in Nat, y \in Nat : Aside(page, size, b, y) => Kept(regions, host, data, regions', host', data', b, y)
      BY <1>1, <3>2, ProtectionKeeps
    <3> QED
      BY <3>1, <3>3, <3>5c, <3>6, <3>7
  <2>2. CASE ph.flags = LoadProt
    <3>1. UNCHANGED <<memVars, refused>>
      BY <1>1, <1>2, <2>2
    <3>2. regions' = regions /\ host' = host
      BY <3>1 DEF memVars
    <3>3. MemInv'
      BY <3>1 DEF MemInv, MemTypeOK, memVars
    <3>4. Has(regions', host', page, size, ph.flags, OnHost(refused', next, ph))
      <4>1. Has(regions', host', page, size, ph.flags, {ph.flags})
        BY <1>2, <1>4, <2>2, <3>2
      <4>2. {ph.flags} \subseteq OnHost(refused', next, ph)
        BY DEF OnHost
      <4> QED
        BY <4>1, <4>2, HasMore
    <3> QED
      BY <1>1, <3>1, <3>2, <3>3, <3>4, KeptSame
  <2> QED
    BY <2>1, <2>2
<1>7. next \in Nat
  BY <1>2
<1>8. ASSUME NEW i \in LoadHeaders(image), i # next PROVE SegmentInv(i)'
  <2>1. PICK b \in Nat, y \in Nat : b = PageOf(image[i].vaddr) /\ y = Extent(image[i])
    <3>1. Takes(image[i], PageOf(image[i].vaddr), Extent(image[i]))
      BY <1>2, ImageSegment
    <3> QED
      BY <3>1 DEF Takes
  <2>2. Aside(page, size, b, y)
    BY <1>1, <1>2, <1>8, <2>1, ImageSegment
  <2>3. Kept(regions, host, data, regions', host', data', b, y) /\ (i \in refused' <=> i \in refused)
    BY <1>6, <1>8, <2>2
  <2> QED
    BY <1>1, <1>2, <1>3, <1>7, <1>8, <2>1, <2>3, SegmentPassed
<1>9. PICK n : n = next /\ n \in Nat /\ n < next' /\ ~(n > next') /\ n # next' /\ ph = image'[n]
  BY <1>1, <1>2, <1>7
<1>10. SegmentInv(n)'
  <2>1. PageOf(image'[n].vaddr) = page /\ Extent(image'[n]) = size /\ image'[n].flags = ph.flags
    BY <1>2, <1>9
  <2>2. Has(regions', host', page, size, image'[n].flags, OnHost(refused', n, image'[n])) /\ Holding(data', n, image'[n])
    BY <1>1, <1>4, <1>6, <1>9, <2>1
  <2> QED
    BY <1>4, <1>9, <2>1, <2>2 DEF SegmentInv
<1>11. \A i \in LoadHeaders(image)' : SegmentInv(i)'
  BY <1>1, <1>8, <1>9, <1>10
<1>12. image' \in Images /\ next' \in 1..Len(image') + 1
  BY <1>1, <1>2, <1>7
<1>13. LoadInv'
  BY <1>1, <1>11, <1>12 DEF LoadInv
<1> QED
  BY <1>6, <1>13 DEF LoaderGoal

\* A step that leaves the memory alone and is about no segment.
LEMMA QuietStep ==
    ASSUME MemInv, LoadInv, AllApart(regions), UNCHANGED <<memVars, image, next, data, refused>>,
           step' \in {"stack", "failed", "killed", "ready"}, step' = "killed" => step = "killed"
    PROVE  LoaderGoal
<1>1. regions' = regions /\ host' = host /\ data' = data /\ image' = image /\ next' = next /\ image \in Images
  BY DEF memVars, LoadInv
<1>2. MemInv'
  BY DEF MemInv, MemTypeOK, memVars
<1>3. step' \notin {"map", "fill", "protect"}
  OBVIOUS
<1>4. ASSUME NEW i \in LoadHeaders(image) PROVE SegmentInv(i)'
  <2>1. Kept(regions, host, data, regions', host', data', PageOf(image[i].vaddr), Extent(image[i]))
    BY <1>1, KeptSame
  <2>2. SegmentInv(i)
    BY DEF LoadInv
  <2> QED
    BY <1>1, <1>3, <2>1, <2>2, SegmentStays
<1>5. PageVaddr' = PageVaddr
  BY <1>1 DEF PageVaddr, Ph
<1>6. LoadInv'
  BY <1>1, <1>3, <1>4, <1>5 DEF LoadInv
<1> QED
  BY <1>1, <1>2, <1>6 DEF LoaderGoal

LEMMA SkipHeaderStep ==
    ASSUME MemInv, LoadInv, AllApart(regions), SkipHeader
    PROVE  LoaderGoal
<1>1. /\ step = "map" /\ step' = "map" /\ next \notin LoadHeaders(image) /\ next' = next + 1 /\ next <= Len(image)
      /\ UNCHANGED <<memVars, image, data, refused>>
  BY DEF SkipHeader, LoadHeaders, Ph
<1>2. regions' = regions /\ host' = host /\ data' = data /\ image' = image /\ image \in Images /\ next \in Nat
      /\ Len(image) \in Nat
  <2>1. image \in Seq(Phdr) /\ next \in 1..Len(image) + 1
    BY LoaderConstants DEF LoadInv
  <2> QED
    BY <1>1, <2>1 DEF memVars, LoadInv
<1>3. MemInv'
  BY <1>1 DEF MemInv, MemTypeOK, memVars
<1>4. ASSUME NEW i \in LoadHeaders(image) PROVE SegmentInv(i)'
  <2>1. Kept(regions, host, data, regions', host', data', PageOf(image[i].vaddr), Extent(image[i]))
    BY <1>2, KeptSame
  <2>2. SegmentInv(i) /\ i # next
    BY <1>1 DEF LoadInv
  <2> QED
    BY <1>1, <1>2, <2>1, <2>2, SegmentPassed
<1>5. next' \in 1..Len(image') + 1
  <2>1. next \in 1..Len(image) + 1
    BY DEF LoadInv
  <2> QED
    BY <1>1, <1>2, <2>1
<1>6. LoadInv'
  BY <1>1, <1>2, <1>4, <1>5 DEF LoadInv
<1> QED
  BY <1>2, <1>3, <1>6 DEF LoaderGoal

\* The TLS block and the stack: a block from the bump pointer.
LEMMA BlockStep ==
    ASSUME MemInv, LoadInv, AllApart(regions), NEW len \in Nat, len > 0, NEW prot \in SUBSET Prot, Mmap(len, prot, 0),
           UNCHANGED <<image, next, refused>>, step' \in {"stack", "failed", "ready"},
           data' = IF regions' = regions THEN data ELSE Cleared(data, Last(regions').addr, RoundUp(len))
    PROVE  LoaderGoal
<1>1. PICK z \in Nat : z = RoundUp(len)
  BY RoundUpFact
<1>2. PICK a \in Nat :
         /\ MemInv' /\ a >= MmapStart /\ Free(regions, a, z)
         /\ \/ Mapping(regions, host, a, z, prot, regions', host') /\ regions' # regions /\ Last(regions').addr = a
            \/ UNCHANGED <<regions, host>>
  BY <1>1, MmapOutcome
<1>3. step' \notin {"map", "fill", "protect"} /\ image \in Images
  BY DEF LoadInv
<1>4. ASSUME NEW i \in LoadHeaders(image)
      PROVE  Kept(regions, host, data, regions', host', data', PageOf(image[i].vaddr), Extent(image[i]))
  <2>1. PICK b \in Nat, y \in Nat : b = PageOf(image[i].vaddr) /\ y = Extent(image[i]) /\ b + y <= MmapStart
    <3>1. Takes(image[i], PageOf(image[i].vaddr), Extent(image[i]))
      BY <1>3, ImageSegment
    <3>2. PageOf(image[i].vaddr) \in Nat /\ Extent(image[i]) \in Nat
      BY <3>1 DEF Takes
    <3> QED
      BY <1>3, <3>2, ImageSegment
  <2>2. CASE UNCHANGED <<regions, host>>
    <3>1. data' = data
      BY <2>2
    <3> QED
      BY <2>2, <3>1, KeptSame
  <2>3. CASE Mapping(regions, host, a, z, prot, regions', host') /\ regions' # regions /\ Last(regions').addr = a
    <3>1. data' = Cleared(data, a, z)
      BY <1>1, <2>3
    <3>2. Aside(a, z, b, y)
      BY <1>2, <2>1, AboveAside
    <3> QED
      BY <2>1, <2>3, <3>1, <3>2, MappingKeeps
  <2> QED
    BY <1>2, <2>2, <2>3
<1>5. ASSUME NEW i \in LoadHeaders(image) PROVE SegmentInv(i)'
  <2>1. SegmentInv(i)
    BY DEF LoadInv
  <2> QED
    BY <1>3, <1>4, <2>1, SegmentStays
<1>6. step' # "killed"
  OBVIOUS
<1>7. LoadInv'
  BY <1>3, <1>5, <1>6 DEF LoadInv
<1>8. AllApart(regions') /\ (image \in Linked /\ LibFree(regions) => LibFree(regions'))
  <2>1. CASE UNCHANGED <<regions, host>>
    BY <2>1
  <2>2. CASE Mapping(regions, host, a, z, prot, regions', host')
    <3>1. AllApart(regions')
      BY <1>2, <2>2, ApartMapping
    <3>2. ForProgram(a, z)
      BY <1>2 DEF ForProgram
    <3> QED
      BY <1>3, <2>2, <3>1, <3>2, ProgramMapping
  <2> QED
    BY <1>2, <2>1, <2>2
<1> QED
  BY <1>2, <1>7, <1>8 DEF LoaderGoal

LEMMA LoaderStep ==
    ASSUME MemInv, LoadInv, AllApart(regions), LoaderNext
    PROVE  LoaderGoal
<1>1. ASSUME SkipTLS PROVE LoaderGoal
  BY <1>1, QuietStep DEF SkipTLS
<1>2. ASSUME AllocateTLS PROVE LoaderGoal
  <2>1. TLSSize \in Nat /\ TLSSize > 0 /\ {"R", "W"} \in SUBSET Prot
    BY LoaderConstants DEF Prot
  <2>2. /\ Mmap(TLSSize, {"R", "W"}, 0) /\ UNCHANGED <<image, next, refused>> /\ step' \in {"stack", "failed", "ready"}
        /\ data' = IF regions' = regions THEN data ELSE Cleared(data, Last(regions').addr, RoundUp(TLSSize))
    BY <1>2 DEF AllocateTLS
  <2> QED
    BY <2>1, <2>2, BlockStep
<1>3. ASSUME AllocateStack PROVE LoaderGoal
  <2>1. StackSize \in Nat /\ StackSize > 0 /\ {"R", "W"} \in SUBSET Prot
    BY LoaderConstants DEF Prot
  <2>2. /\ Mmap(StackSize, {"R", "W"}, 0) /\ UNCHANGED <<image, next, refused>> /\ step' \in {"stack", "failed", "ready"}
        /\ data' = IF regions' = regions THEN data ELSE Cleared(data, Last(regions').addr, RoundUp(StackSize))
    BY <1>3 DEF AllocateStack
  <2> QED
    BY <2>1, <2>2, BlockStep
<1>4. ASSUME Over PROVE LoaderGoal
  <2>1. UNCHANGED <<memVars, image, next, data, refused>> /\ step' = step /\ step \in {"stack", "failed", "killed", "ready"}
    BY <1>4 DEF Over, loaderVars
  <2> QED
    BY <2>1, QuietStep
<1> QED
  BY <1>1, <1>2, <1>3, <1>4, SkipHeaderStep, MapSegmentStep, FillSegmentStep, FillFaultsStep, ProtectSegmentStep
     DEF LoaderNext

-----------------------------------------------------------------------------
(* The linker while the program is loaded                                  *)

LEMMA StutterStep ==
    ASSUME StartInv, UNCHANGED <<loaderVars, libVars>>
    PROVE  StartInv'
<1>1. /\ regions' = regions /\ host' = host /\ mmap_base' = mmap_base /\ brk' = brk
      /\ translated_pages' = translated_pages /\ image' = image /\ next' = next /\ step' = step /\ data' = data /\ refused' = refused
      /\ lib' = lib /\ libStep' = libStep /\ libNext' = libNext /\ loads' = loads /\ loaded_libs' = loaded_libs
  BY DEF loaderVars, memVars, libVars
<1>2. MemInv'
  BY <1>1 DEF StartInv, MemInv, MemTypeOK
<1>3. LoadInv'
  BY <1>1 DEF StartInv, LoadInv, SegmentInv, PageVaddr, Ph
<1>4. JustLoaded' <=> JustLoaded
  BY <1>1 DEF JustLoaded
<1>5. LinkerFaults'
  BY <1>1 DEF StartInv, LinkInv, LinkerFaults
<1>6. \A k : Applied(k)' <=> Applied(k)
  BY <1>1, <1>4 DEF Applied
<1>7. \A i : InMemory(i)' <=> InMemory(i)
  BY <1>1, <1>4 DEF InMemory
<1>8. \A i : LibSegmentInv(i)' <=> LibSegmentInv(i)
  BY <1>1, <1>6, <1>7 DEF LibSegmentInv, Waiting
<1>9. LinkInv'
  BY <1>1, <1>5, <1>6, <1>8 DEF StartInv, LinkInv
<1> QED
  BY <1>2, <1>3, <1>9 DEF StartInv

LEMMA LoaderLink ==
    ASSUME StartInv, LoaderNext, UNCHANGED libVars
    PROVE  StartInv'
<1>1. /\ lib' = lib /\ libStep' = libStep /\ libNext' = libNext /\ loads' = loads /\ loaded_libs' = loaded_libs
  BY DEF libVars
<1>2. MemInv /\ LoadInv /\ LinkInv /\ loads \in Nat
  BY DEF StartInv, LinkInv
<1>3. CASE loads > 0
  <2>1. step = "ready"
    BY <1>2, <1>3 DEF LinkInv
  <2>2. UNCHANGED loaderVars
    BY <2>1 DEF LoaderNext, SkipHeader, MapSegment, FillSegment, FillFaults, ProtectSegment, SkipTLS, AllocateTLS,
                AllocateStack, Over
  <2> QED
    BY <2>2, StutterStep
<1>4. CASE loads = 0
  <2>1. AllApart(regions)
    BY <1>2, <1>4 DEF LinkInv
  <2>2. LoaderGoal
    BY <1>2, <2>1, LoaderStep
  <2>3. image' = image
    BY DEF LoaderNext, SkipHeader, MapSegment, FillSegment, FillFaults, ProtectSegment, SkipTLS, AllocateTLS,
           AllocateStack, Over, loaderVars
  <2>4. image \in Linked => LibFree(regions')
    BY <1>2, <1>4, <2>2 DEF LinkInv, LibFree, LoaderGoal
  <2>5. loaded_libs \in Seq([lib : Libraries, base : Nat]) /\ Len(loaded_libs) <= loads /\ Len(loaded_libs) \in Nat
    BY <1>2 DEF LinkInv
  <2>6. libStep = "idle"
    BY <1>2, <1>4, <2>5 DEF LinkInv
  <2>7. LinkerFaults'
    BY <1>1, <2>6 DEF LinkerFaults
  <2>8. LinkInv'
    BY <1>1, <1>2, <1>4, <2>2, <2>3, <2>4, <2>5, <2>6, <2>7 DEF LinkInv, LibFree, LoaderGoal
  <2> QED
    BY <2>2, <2>8 DEF StartInv, LoaderGoal
<1> QED
  BY <1>2, <1>3, <1>4

LEMMA StartInitial == StartInit => StartInv
<1> SUFFICES ASSUME StartInit PROVE StartInv
  OBVIOUS
<1>1. /\ regions = <<>> /\ host = [p \in {q \in AllPages : q >= Arena} |-> {"R", "W"}]
      /\ mmap_base = MmapStart /\ brk = MmapStart /\ translated_pages = {}
      /\ image \in Images /\ next = 1 /\ step = "map"
      /\ libStep = "idle" /\ libNext = 1 /\ loads = 0 /\ loaded_libs = <<>>
  BY DEF StartInit, LoaderInit, MemInit, LibInit
<1>2. regions \in Seq(MemRegion) /\ DOMAIN regions = {}
  BY <1>1
<1>3. MemTypeOK
  BY <1>1, <1>2, MemoryConstants DEF MemTypeOK, Prot
<1>4. 0 \notin DOMAIN host
  BY <1>1, MemoryConstants
<1>5. MemInv
  BY <1>1, <1>2, <1>3, <1>4, PageConstants DEF MemInv
<1>6. image \in Seq(Phdr) /\ next \in 1..Len(image) + 1
  BY <1>1, LoaderConstants
<1>7. \A a, z : Free(regions, a, z)
  BY <1>2 DEF Free
<1>8. ASSUME NEW i \in LoadHeaders(image) PROVE SegmentInv(i)
  <2>1. i \in 1..Len(image)
    BY <1>1, ImageSegment
  <2>2. ~(i < next)
    BY <1>1, <1>6, <2>1
  <2> QED
    BY <1>1, <1>7, <2>2 DEF SegmentInv
<1>9. LoadInv
  BY <1>1, <1>6, <1>8 DEF LoadInv
<1>10. LinkerFaults
  BY <1>1 DEF LinkerFaults
<1>11. loaded_libs \in Seq([lib : Libraries, base : Nat]) /\ Len(loaded_libs) = 0
  BY <1>1
<1>12. LinkInv
  BY <1>1, <1>2, <1>7, <1>10, <1>11 DEF LinkInv, AllApart
<1> QED
  BY <1>5, <1>9, <1>12 DEF StartInv

-----------------------------------------------------------------------------
(* The steps of load_library                                               *)

\* The program stays as it is while a library is loaded.
LEMMA ProgramStays ==
    ASSUME LoadInv, step = "ready", UNCHANGED <<image, next, step, refused>>,
           \A i \in LoadHeaders(image) :
              Kept(regions, host, data, regions', host', data', PageOf(image[i].vaddr), Extent(image[i]))
    PROVE  LoadInv'
<1>1. step' \notin {"map", "fill", "protect"} /\ step' # "killed" /\ image \in Images
  BY DEF LoadInv
<1>2. ASSUME NEW i \in LoadHeaders(image) PROVE SegmentInv(i)'
  <2>1. SegmentInv(i)
    BY DEF LoadInv
  <2> QED
    BY <1>1, <2>1, SegmentStays
<1> QED
  BY <1>1, <1>2 DEF LoadInv

\* The cells of a segment lie in its pages.
LEMMA CellsInPages ==
    ASSUME NEW l \in Libraries, NEW i \in Segments(l), NEW a \in AllCells(l, l.headers[i])
    PROVE  /\ a \in Nat /\ SegmentPage(l, l.headers[i]) <= a
           /\ a < SegmentPage(l, l.headers[i]) + Extent(l.headers[i])
           /\ a \in SegmentPage(l, l.headers[i]) .. SegmentPage(l, l.headers[i]) + Extent(l.headers[i]) - 1
<1>1. PICK page \in Nat, size \in Nat, v \in Nat, m \in Nat :
         /\ page = SegmentPage(l, l.headers[i]) /\ size = Extent(l.headers[i])
         /\ v = SegmentStart(l, l.headers[i]) /\ m = l.headers[i].memsz /\ page <= v /\ v + m <= page + size
  <2>1. Takes(l.headers[i], PageOf(l.headers[i].vaddr), Extent(l.headers[i]))
    BY LibrarySegment
  <2>2. Extent(l.headers[i]) \in Nat /\ l.headers[i].memsz \in Nat
    BY <2>1 DEF Takes
  <2> QED
    BY <2>2, LibrarySegment
<1>2. a \in v .. v + m - 1
  BY <1>1 DEF AllCells
<1> QED
  BY <1>1, <1>2

LEMMA LibSegmentStays ==
    ASSUME lib \in Libraries, UNCHANGED <<lib, loads>>, NEW i \in Segments(lib), LibSegmentInv(i),
           InMemory(i)' => InMemory(i), Waiting(i)' => Waiting(i), \A k : Applied(k) => Applied(k)',
           ~(libStep' = "fill" /\ i = libNext'), DOMAIN host \subseteq DOMAIN host',
           Untouched(data, data', SegmentPage(lib, lib.headers[i]), Extent(lib.headers[i])),
           loads = 1 /\ Free(regions, SegmentPage(lib, lib.headers[i]), Extent(lib.headers[i]))
              => Free(regions', SegmentPage(lib, lib.headers[i]), Extent(lib.headers[i]))
    PROVE  LibSegmentInv(i)'
<1>1. PICK ph, page, size : ph = lib.headers[i] /\ page = SegmentPage(lib, ph) /\ size = Extent(ph) /\ ph = lib'.headers[i]
                            /\ page = SegmentPage(lib', ph)
  OBVIOUS
<1>2. loads' = 1 /\ Waiting(i)' => Free(regions', page, size)
  BY <1>1 DEF LibSegmentInv
<1>3. ASSUME InMemory(i)'
      PROVE  /\ page # 0 /\ Pages(page, size) \subseteq DOMAIN host'
             /\ \A a \in AllCells(lib, ph) :
                   /\ a \in DOMAIN data'
                   /\ \/ data'[a] = Content(lib, i, a)
                      \/ \E k \in DOMAIN lib.relocs : Applied(k)' /\ a = Place(lib, lib.relocs[k])
  <2>1. /\ page # 0 /\ Pages(page, size) \subseteq DOMAIN host
        /\ \A a \in AllCells(lib, ph) :
              /\ a \in DOMAIN data
              /\ \/ data[a] = Content(lib, i, a)
                 \/ \E k \in DOMAIN lib.relocs : Applied(k) /\ a = Place(lib, lib.relocs[k])
    BY <1>1, <1>3 DEF LibSegmentInv
  <2>2. \A a \in AllCells(lib, ph) : a \in page .. page + size - 1
    BY <1>1, CellsInPages
  <2>3. \A a \in AllCells(lib, ph) : a \in DOMAIN data' /\ data'[a] = data[a]
    BY <1>1, <2>1, <2>2 DEF Untouched
  <2> QED
    BY <2>1, <2>3
<1>4. ~(libStep' = "fill" /\ i = libNext' /\ page # 0)
  OBVIOUS
<1> QED
  BY <1>1, <1>2, <1>3, <1>4 DEF LibSegmentInv

\* What holds while load_library is at work.
LEMMA LinkWork ==
    ASSUME StartInv, libStep \notin {"idle", "loaded"}
    PROVE  /\ MemInv /\ LoadInv /\ LinkInv /\ loads \in Nat /\ loads > 0 /\ Len(loaded_libs) \in Nat
           /\ Len(loaded_libs) < loads /\ step = "ready" /\ image \in Linked /\ image \in Images /\ lib \in Libraries
           /\ \A i \in Segments(lib) : LibSegmentInv(i)
           /\ \A k \in DOMAIN lib.relocs :
                 Applied(k) => data[Place(lib, lib.relocs[k])] = Pointer(BaseAddr(lib) + lib.relocs[k].addend)
           /\ libStep \in {"map", "fill", "protect", "relocate", "killed"} /\ libNext \in Nat /\ libNext > 0
           /\ loads <= 1 => AllApart(regions)
           /\ loaded_libs \in Seq([lib : Libraries, base : Nat])
<1>1. MemInv /\ LoadInv /\ LinkInv
  BY DEF StartInv
<1>2. loads \in Nat /\ Len(loaded_libs) < loads /\ loaded_libs \in Seq([lib : Libraries, base : Nat])
  BY <1>1 DEF LinkInv
<1>3. Len(loaded_libs) \in Nat
  BY <1>2
<1>4. loads > 0
  BY <1>2, <1>3
<1> QED
  BY <1>1, <1>2, <1>3, <1>4, LibraryConstants DEF LinkInv

\* Between LoadLibrary and the relocations no relocation has been applied.
LEMMA NoneApplied ==
    ASSUME libStep \in {"map", "fill", "protect", "killed"}
    PROVE  \A k : ~Applied(k)
BY DEF Applied, JustLoaded

LEMMA LoadLibraryStep ==
    ASSUME StartInv, image \in Linked, NEW l \in Libraries, LoadLibrary(l)
    PROVE  StartInv'
<1>1. /\ step = "ready" /\ lib' = l /\ libStep' = "map" /\ libNext' = 1 /\ loads' = loads + 1 /\ loaded_libs' = loaded_libs
      /\ UNCHANGED loaderVars
  BY DEF LoadLibrary
<1>2. regions' = regions /\ host' = host /\ data' = data /\ image' = image /\ next' = next /\ step' = step /\ refused' = refused
  BY <1>1 DEF loaderVars, memVars
<1>3. MemInv'
  BY <1>1 DEF StartInv, MemInv, MemTypeOK, loaderVars, memVars
<1>4. LoadInv'
  BY <1>1, <1>2, ProgramStays, KeptSame DEF StartInv
<1>5. LinkInv /\ loads \in Nat /\ loaded_libs \in Seq([lib : Libraries, base : Nat]) /\ Len(loaded_libs) <= loads
  BY DEF StartInv, LinkInv
<1>6. Len(loaded_libs) \in Nat /\ loads' \in Nat /\ Len(loaded_libs') < loads' /\ Len(loaded_libs') <= loads'
  BY <1>1, <1>5
<1>7. ~JustLoaded'
  BY <1>1 DEF JustLoaded
<1>8. \A k : ~Applied(k)'
  BY <1>1, <1>7 DEF Applied
<1>9. ASSUME NEW i \in Segments(l) PROVE LibSegmentInv(i)'
  <2>1. ~(i < 1)
    BY LibrarySegment
  <2>2. ~InMemory(i)'
    BY <1>1, <1>7, <2>1 DEF InMemory
  <2>3. loads' = 1 => loads = 0
    BY <1>1, <1>5
  <2>4. loads' = 1 => Free(regions, SegmentPage(l, l.headers[i]), Extent(l.headers[i]))
    BY <1>5, <2>3 DEF LinkInv
  <2> QED
    BY <1>1, <1>2, <2>2, <2>4 DEF LibSegmentInv
<1>10. LinkerFaults'
  BY <1>1 DEF LinkerFaults
<1>11. loads' <= 1 => AllApart(regions')
  BY <1>1, <1>2, <1>5 DEF LinkInv
<1>12. loads' # 0
  BY <1>1, <1>5
<1>13. LinkInv'
  BY <1>1, <1>2, <1>5, <1>6, <1>8, <1>9, <1>10, <1>11, <1>12 DEF LinkInv
<1> QED
  BY <1>3, <1>4, <1>13 DEF StartInv

LEMMA LibHeaders ==
    ASSUME NEW l \in Libraries
    PROVE  l.headers \in Seq(Phdr) /\ Len(l.headers) \in Nat /\ DOMAIN l.headers = 1..Len(l.headers)
           /\ l.relocs \in Seq(Reloc) /\ Len(l.relocs) \in Nat /\ DOMAIN l.relocs = 1..Len(l.relocs)
<1>1. l.headers \in Seq(Phdr) /\ l.relocs \in Seq(Reloc)
  BY LibraryConstants
<1> QED
  BY <1>1

LEMMA LibSkipHeaderStep ==
    ASSUME StartInv, LibSkipHeader
    PROVE  StartInv'
<1>1. /\ libStep = "map" /\ libStep' = "map" /\ libNext' = libNext + 1 /\ libNext \notin Segments(lib)
      /\ lib' = lib /\ loads' = loads /\ loaded_libs' = loaded_libs /\ UNCHANGED loaderVars
  BY DEF LibSkipHeader, Segments, LoadHeaders, Header
<1>2. regions' = regions /\ host' = host /\ data' = data /\ image' = image /\ next' = next /\ step' = step /\ refused' = refused
  BY <1>1 DEF loaderVars, memVars
<1>3. /\ MemInv /\ LoadInv /\ LinkInv /\ loads \in Nat /\ loads > 0 /\ Len(loaded_libs) \in Nat
      /\ Len(loaded_libs) < loads /\ step = "ready" /\ image \in Linked /\ lib \in Libraries
      /\ \A i \in Segments(lib) : LibSegmentInv(i)
      /\ libNext \in Nat /\ libNext > 0
      /\ loads <= 1 => AllApart(regions)
      /\ loaded_libs \in Seq([lib : Libraries, base : Nat])
  BY <1>1, LinkWork
<1>4. MemInv'
  BY <1>1, <1>3 DEF MemInv, MemTypeOK, loaderVars, memVars
<1>5. LoadInv'
  BY <1>2, <1>3, ProgramStays, KeptSame
<1>6. \A k : ~Applied(k) /\ ~Applied(k)'
  BY <1>1 DEF Applied, JustLoaded
<1>7. ASSUME NEW i \in Segments(lib) PROVE LibSegmentInv(i)'
  <2>1. i \in Nat /\ i # libNext
    BY <1>1, <1>3, LibrarySegment
  <2>2. (InMemory(i)' => InMemory(i)) /\ (Waiting(i)' => Waiting(i))
    BY <1>1, <1>3, <2>1 DEF InMemory, Waiting, JustLoaded
  <2>3. Untouched(data, data', SegmentPage(lib, lib.headers[i]), Extent(lib.headers[i]))
    BY <1>2 DEF Untouched
  <2>4. ~(libStep' = "fill" /\ i = libNext')
    BY <1>1
  <2> QED
    BY <1>1, <1>2, <1>3, <1>6, <2>2, <2>3, <2>4, LibSegmentStays
<1>8. LinkerFaults'
  BY <1>1 DEF LinkerFaults
<1>9. LinkInv'
  BY <1>1, <1>2, <1>3, <1>6, <1>7, <1>8 DEF LinkInv
<1> QED
  BY <1>4, <1>5, <1>9 DEF StartInv

LEMMA LibSegmentsDoneStep ==
    ASSUME StartInv, LibSegmentsDone
    PROVE  StartInv'
<1>1. /\ libStep = "map" /\ libStep' = "relocate" /\ libNext' = 1 /\ libNext > Len(lib.headers)
      /\ lib' = lib /\ loads' = loads /\ loaded_libs' = loaded_libs /\ UNCHANGED loaderVars
  BY DEF LibSegmentsDone
<1>2. regions' = regions /\ host' = host /\ data' = data /\ image' = image /\ next' = next /\ step' = step /\ refused' = refused
  BY <1>1 DEF loaderVars, memVars
<1>3. /\ MemInv /\ LoadInv /\ LinkInv /\ loads \in Nat /\ loads > 0 /\ Len(loaded_libs) \in Nat
      /\ Len(loaded_libs) < loads /\ step = "ready" /\ image \in Linked /\ lib \in Libraries
      /\ \A i \in Segments(lib) : LibSegmentInv(i)
      /\ libNext \in Nat /\ libNext > 0
      /\ loads <= 1 => AllApart(regions)
      /\ loaded_libs \in Seq([lib : Libraries, base : Nat])
  BY <1>1, LinkWork
<1>4. MemInv'
  BY <1>1, <1>3 DEF MemInv, MemTypeOK, loaderVars, memVars
<1>5. LoadInv'
  BY <1>2, <1>3, ProgramStays, KeptSame
<1>6. \A k : ~Applied(k)
  BY <1>1, NoneApplied
<1>7. ASSUME NEW i \in Segments(lib) PROVE LibSegmentInv(i)'
  <2>1. i \in Nat /\ i < libNext
    BY <1>1, <1>3, LibrarySegment
  <2>2. InMemory(i) /\ ~Waiting(i)'
    BY <1>1, <2>1 DEF InMemory, Waiting
  <2>3. Untouched(data, data', SegmentPage(lib, lib.headers[i]), Extent(lib.headers[i]))
    BY <1>2 DEF Untouched
  <2>4. ~(libStep' = "fill" /\ i = libNext')
    BY <1>1
  <2> QED
    BY <1>1, <1>2, <1>3, <1>6, <2>2, <2>3, <2>4, LibSegmentStays
<1>8. LinkerFaults'
  BY <1>1 DEF LinkerFaults
<1>9. \A k \in DOMAIN lib.relocs : ~Applied(k)'
  <2>1. \A k \in DOMAIN lib.relocs : ~(k < 1)
    BY <1>3, LibHeaders
  <2> QED
    BY <1>1, <2>1 DEF Applied, JustLoaded
<1>10. LinkInv'
  BY <1>1, <1>2, <1>3, <1>7, <1>8, <1>9 DEF LinkInv
<1> QED
  BY <1>4, <1>5, <1>10 DEF StartInv

LEMMA LibLoadedStep ==
    ASSUME StartInv, LibLoaded
    PROVE  StartInv'
<1>1. /\ libStep = "relocate" /\ libStep' = "loaded" /\ libNext' = libNext /\ ~(HasDynamic(lib) /\ libNext <= Len(lib.relocs))
      /\ lib' = lib /\ loads' = loads /\ UNCHANGED loaderVars
      /\ loaded_libs' = Append(loaded_libs, [lib |-> lib, base |-> BaseAddr(lib)])
  BY DEF LibLoaded
<1>2. regions' = regions /\ host' = host /\ data' = data /\ image' = image /\ next' = next /\ step' = step /\ refused' = refused
  BY <1>1 DEF loaderVars, memVars
<1>3. /\ MemInv /\ LoadInv /\ LinkInv /\ loads \in Nat /\ loads > 0 /\ Len(loaded_libs) \in Nat
      /\ Len(loaded_libs) < loads /\ step = "ready" /\ image \in Linked /\ lib \in Libraries
      /\ \A i \in Segments(lib) : LibSegmentInv(i)
      /\ \A k \in DOMAIN lib.relocs :
            Applied(k) => data[Place(lib, lib.relocs[k])] = Pointer(BaseAddr(lib) + lib.relocs[k].addend)
      /\ libNext \in Nat /\ libNext > 0
      /\ loads <= 1 => AllApart(regions)
      /\ loaded_libs \in Seq([lib : Libraries, base : Nat])
  BY <1>1, LinkWork
<1>4. MemInv'
  BY <1>1, <1>3 DEF MemInv, MemTypeOK, loaderVars, memVars
<1>5. LoadInv'
  BY <1>2, <1>3, ProgramStays, KeptSame
<1>6. loaded_libs' \in Seq([lib : Libraries, base : Nat]) /\ Len(loaded_libs') <= loads
  <2>1. PICK e : e = [lib |-> lib, base |-> BaseAddr(lib)] /\ e \in [lib : Libraries, base : Nat]
    <3>1. PICK b \in Nat, l \in Libraries : b = BaseAddr(lib) /\ l = lib
      BY <1>3, BaseFact
    <3>2. [lib |-> l, base |-> b] \in [lib : Libraries, base : Nat]
      OBVIOUS
    <3> QED
      BY <3>1, <3>2, Zenon
  <2> QED
    BY <1>1, <1>3, <2>1
<1>7. \A k \in DOMAIN lib.relocs : Applied(k)' => Applied(k)
  <2>1. \A k \in DOMAIN lib.relocs : HasDynamic(lib) => k < libNext
    BY <1>1, <1>3, LibHeaders
  <2> QED
    BY <1>1, <2>1 DEF Applied
<1>8. ASSUME NEW i \in Segments(lib) PROVE LibSegmentInv(i)'
  <2>1. ~Waiting(i)' /\ libStep' # "fill"
    BY <1>1 DEF Waiting
  <2>2. InMemory(i)
    BY <1>1 DEF InMemory
  <2>3. ASSUME InMemory(i)' PROVE \A k \in DOMAIN lib.relocs : Applied(k) => Applied(k)'
    BY <1>1, <2>3 DEF InMemory, Applied
  <2>4. LibSegmentInv(i)
    BY <1>3
  <2> QED
    BY <1>1, <1>2, <2>1, <2>2, <2>3, <2>4 DEF LibSegmentInv
<1>9. LinkerFaults'
  BY <1>1 DEF LinkerFaults
<1>10. LinkInv'
  BY <1>1, <1>2, <1>3, <1>6, <1>7, <1>8, <1>9 DEF LinkInv
<1> QED
  BY <1>4, <1>5, <1>10 DEF StartInv

\* The current segment of the library, by name.
LEMMA LibCurrent ==
    ASSUME lib \in Libraries, libNext \in Segments(lib)
    PROVE  \E ph, page, size :
              /\ ph = lib.headers[libNext] /\ Header = ph /\ page = SegmentPage(lib, ph) /\ size = Extent(ph)
              /\ page \in Nat /\ PageAligned(page) /\ size \in Nat /\ size > 0 /\ RoundUp(size) = size
              /\ SegmentSize(ph) = size /\ page + size <= MmapStart
              /\ ph.flags \in SUBSET Prot /\ ph.flags \cup {"W"} \in SUBSET Prot
<1>1. PICK ph : ph = lib.headers[libNext] /\ Header = ph
  BY DEF Header
<1>2. /\ Takes(ph, PageOf(ph.vaddr), Extent(ph)) /\ SegmentPage(lib, ph) \in Nat /\ PageAligned(SegmentPage(lib, ph))
      /\ SegmentPage(lib, ph) + Extent(ph) <= MmapStart /\ SegmentSize(ph) = Extent(ph)
  BY <1>1, LibrarySegment
<1>3. Extent(ph) \in Nat /\ Extent(ph) > 0 /\ RoundUp(Extent(ph)) = Extent(ph) /\ ph.flags \in SUBSET Prot
  BY <1>2 DEF Takes
<1>4. ph.flags \cup {"W"} \in SUBSET Prot
  BY <1>3 DEF Prot
<1> QED
  BY <1>1, <1>2, <1>3, <1>4, Zenon

\* Where a step at the current segment of the library, or in the arena, reaches.
ForLibrary(a, z) ==
    a >= MmapStart \/ (a = SegmentPage(lib, lib.headers[libNext]) /\ z = Extent(lib.headers[libNext]))

LEMMA LibraryMeetsNone ==
    ASSUME lib \in Libraries, libNext \in Segments(lib), image \in Linked, image \in Images,
           NEW a \in Nat, NEW z \in Nat, ForLibrary(a, z)
    PROVE  /\ \A i \in LoadHeaders(image) : /\ PageOf(image[i].vaddr) \in Nat /\ Extent(image[i]) \in Nat
                                            /\ Aside(a, z, PageOf(image[i].vaddr), Extent(image[i]))
           /\ \A i \in Segments(lib) :
                 i # libNext => /\ SegmentPage(lib, lib.headers[i]) \in Nat /\ Extent(lib.headers[i]) \in Nat
                                /\ Aside(a, z, SegmentPage(lib, lib.headers[i]), Extent(lib.headers[i]))
<1>1. ASSUME NEW i \in LoadHeaders(image)
      PROVE  /\ PageOf(image[i].vaddr) \in Nat /\ Extent(image[i]) \in Nat
             /\ Aside(a, z, PageOf(image[i].vaddr), Extent(image[i]))
  <2>1. Takes(image[i], PageOf(image[i].vaddr), Extent(image[i])) /\ PageOf(image[i].vaddr) + Extent(image[i]) <= MmapStart
    BY ImageSegment
  <2>2. PageOf(image[i].vaddr) \in Nat /\ Extent(image[i]) \in Nat
    BY <2>1 DEF Takes
  <2>3. CASE a >= MmapStart
    BY <2>1, <2>2, <2>3, AboveAside
  <2>4. CASE a = SegmentPage(lib, lib.headers[libNext]) /\ z = Extent(lib.headers[libNext])
    BY <2>2, <2>4, LibraryAside
  <2> QED
    BY <2>3, <2>4 DEF ForLibrary
<1>2. ASSUME NEW i \in Segments(lib), i # libNext
      PROVE  /\ SegmentPage(lib, lib.headers[i]) \in Nat /\ Extent(lib.headers[i]) \in Nat
             /\ Aside(a, z, SegmentPage(lib, lib.headers[i]), Extent(lib.headers[i]))
  <2>1. /\ Takes(lib.headers[i], PageOf(lib.headers[i].vaddr), Extent(lib.headers[i]))
        /\ SegmentPage(lib, lib.headers[i]) \in Nat
        /\ SegmentPage(lib, lib.headers[i]) + Extent(lib.headers[i]) <= MmapStart
    BY LibrarySegment
  <2>2. Extent(lib.headers[i]) \in Nat
    BY <2>1 DEF Takes
  <2>3. CASE a >= MmapStart
    BY <2>1, <2>2, <2>3, AboveAside
  <2>4. CASE a = SegmentPage(lib, lib.headers[libNext]) /\ z = Extent(lib.headers[libNext])
    BY <1>2, <2>1, <2>2, <2>4, LibraryAside
  <2> QED
    BY <2>3, <2>4 DEF ForLibrary
<1> QED
  BY <1>1, <1>2

LEMMA LibMapSegmentStep ==
    ASSUME StartInv, LibMapSegment
    PROVE  StartInv'
<1>1. /\ libStep = "map" /\ libNext <= Len(lib.headers) /\ Header.type = "PT_LOAD"
      /\ Mmap(SegmentSize(Header), Header.flags \cup {"W"}, SegmentPage(lib, Header))
      /\ IF regions' = regions
         THEN libStep' = "idle" /\ data' = data
         ELSE libStep' = "fill" /\ data' = Cleared(data, Last(regions').addr, SegmentSize(Header))
      /\ lib' = lib /\ libNext' = libNext /\ loads' = loads /\ loaded_libs' = loaded_libs
      /\ image' = image /\ next' = next /\ step' = step /\ refused' = refused
  BY DEF LibMapSegment
<1>2. /\ MemInv /\ LoadInv /\ LinkInv /\ loads \in Nat /\ loads > 0 /\ Len(loaded_libs) \in Nat
      /\ Len(loaded_libs) < loads /\ step = "ready" /\ image \in Linked /\ image \in Images /\ lib \in Libraries
      /\ \A i \in Segments(lib) : LibSegmentInv(i)
      /\ libNext \in Nat /\ libNext > 0
      /\ loads <= 1 => AllApart(regions)
      /\ loaded_libs \in Seq([lib : Libraries, base : Nat])
  BY <1>1, LinkWork
<1>3. libNext \in Segments(lib)
  <2>1. libNext \in DOMAIN lib.headers
    BY <1>1, <1>2, LibHeaders
  <2> QED
    BY <1>1, <2>1 DEF Segments, LoadHeaders, Header
<1>4. PICK ph, page, size :
         /\ ph = lib.headers[libNext] /\ Header = ph /\ page = SegmentPage(lib, ph) /\ size = Extent(ph)
         /\ page \in Nat /\ PageAligned(page) /\ size \in Nat /\ size > 0 /\ RoundUp(size) = size
         /\ SegmentSize(ph) = size /\ page + size <= MmapStart
         /\ ph.flags \in SUBSET Prot /\ ph.flags \cup {"W"} \in SUBSET Prot
  BY <1>2, <1>3, LibCurrent, Zenon
<1>5. PICK prot \in SUBSET Prot : prot = ph.flags \cup {"W"}
  BY <1>4
<1>6. PICK a \in Nat :
         /\ MemInv'
         /\ page # 0 => a = page
         /\ page = 0 => a >= MmapStart /\ Free(regions, a, size)
         /\ \/ Mapping(regions, host, a, size, prot, regions', host') /\ regions' # regions /\ Last(regions').addr = a
            \/ UNCHANGED <<regions, host>>
  <2>1. Mmap(size, prot, page)
    BY <1>1, <1>4, <1>5
  <2> QED
    BY <1>2, <1>4, <1>5, <2>1, MmapOutcome, SMTT(60)
<1>7. \A k : ~Applied(k)
  BY <1>1, NoneApplied
<1>8. CASE UNCHANGED <<regions, host>>
  <2>1. libStep' = "idle" /\ data' = data
    BY <1>1, <1>8
  <2>2. LoadInv'
    BY <1>1, <1>2, <1>8, <2>1, ProgramStays, KeptSame
  <2>3. ~JustLoaded'
    BY <1>1, <1>2 DEF JustLoaded
  <2>4. \A k : ~Applied(k)'
    BY <2>1, <2>3 DEF Applied
  <2>5. \A i : ~InMemory(i)' /\ ~Waiting(i)'
    BY <2>1, <2>3 DEF InMemory, Waiting
  <2>6. \A i \in Segments(lib) : LibSegmentInv(i)'
    BY <2>1, <2>5 DEF LibSegmentInv
  <2>7. LinkerFaults'
    BY <2>1 DEF LinkerFaults
  <2>8. LinkInv'
    BY <1>1, <1>2, <1>8, <2>1, <2>4, <2>6, <2>7 DEF LinkInv
  <2> QED
    BY <1>6, <2>2, <2>8 DEF StartInv
<1>9. CASE Mapping(regions, host, a, size, prot, regions', host') /\ regions' # regions /\ Last(regions').addr = a
  <2>1. libStep' = "fill" /\ data' = Cleared(data, a, size)
    BY <1>1, <1>4, <1>9
  <2>2. ForLibrary(a, size)
    BY <1>4, <1>6 DEF ForLibrary
  <2>3. /\ \A i \in LoadHeaders(image) : /\ PageOf(image[i].vaddr) \in Nat /\ Extent(image[i]) \in Nat
                                         /\ Aside(a, size, PageOf(image[i].vaddr), Extent(image[i]))
        /\ \A i \in Segments(lib) :
              i # libNext => /\ SegmentPage(lib, lib.headers[i]) \in Nat /\ Extent(lib.headers[i]) \in Nat
                             /\ Aside(a, size, SegmentPage(lib, lib.headers[i]), Extent(lib.headers[i]))
    BY <1>2, <1>3, <1>4, <2>2, LibraryMeetsNone
  <2>4. \A b \in Nat, y \in Nat : Aside(a, size, b, y) => Kept(regions, host, data, regions', host', data', b, y)
    BY <1>9, <2>1, MappingKeeps
  <2>5. LoadInv'
    BY <1>1, <1>2, <2>3, <2>4, ProgramStays
  <2>6. \A k : ~Applied(k)'
    BY <2>1 DEF Applied, JustLoaded
  <2>7. PICK g : g = host' /\ DOMAIN g = DOMAIN host \cup Pages(a, size) /\ \A p \in Pages(a, size) : g[p] = prot
    BY <1>9 DEF Mapping
  <2>8. ASSUME NEW i \in Segments(lib), i # libNext PROVE LibSegmentInv(i)'
    <3>1. Kept(regions, host, data, regions', host', data', SegmentPage(lib, lib.headers[i]), Extent(lib.headers[i]))
      BY <2>3, <2>4, <2>8
    <3>2. i \in Nat
      BY <1>2, LibrarySegment
    <3>3. (InMemory(i)' => InMemory(i)) /\ (Waiting(i)' => Waiting(i))
      BY <1>1, <1>2, <2>1, <2>8, <3>2 DEF InMemory, Waiting, JustLoaded
    <3>4. DOMAIN host \subseteq DOMAIN host'
      BY <2>7
    <3> QED
      BY <1>1, <1>2, <1>7, <2>8, <3>1, <3>3, <3>4, LibSegmentStays DEF Kept
  <2>9. PICK n : n = libNext /\ n = libNext' /\ ~(n < n) /\ ~(n > n) /\ LibSegmentInv(n)'
    <3>1. PICK n : n = libNext /\ n = libNext' /\ ~(n < n) /\ ~(n > n)
      BY <1>1, <1>2
    <3>2. ~InMemory(n)' /\ ~Waiting(n)'
      BY <2>1, <3>1 DEF InMemory, Waiting, JustLoaded
    <3>3. page # 0 => \A p \in Pages(page, size) : p \in DOMAIN host' /\ "W" \in host'[p]
      BY <1>5, <1>6, <2>7
    <3>4. LibSegmentInv(n)'
      BY <1>1, <1>4, <3>1, <3>2, <3>3 DEF LibSegmentInv
    <3> QED
      BY <3>1, <3>4
  <2>10. loads' <= 1 => AllApart(regions')
    <3> SUFFICES ASSUME loads <= 1 PROVE AllApart(regions')
      BY <1>1
    <3>1. loads = 1 /\ Waiting(libNext)
      BY <1>1, <1>2 DEF Waiting
    <3>2. Free(regions, page, size)
      BY <1>2, <1>3, <1>4, <3>1 DEF LibSegmentInv
    <3>3. Free(regions, a, size)
      BY <1>6, <3>2
    <3> QED
      BY <1>2, <1>9, <3>3, ApartMapping
  <2>11. LinkerFaults'
    BY <2>1 DEF LinkerFaults
  <2>12. \A i \in Segments(lib) : LibSegmentInv(i)'
    BY <2>8, <2>9
  <2>13. LinkInv'
    BY <1>1, <1>2, <1>3, <2>1, <2>6, <2>10, <2>11, <2>12 DEF LinkInv
  <2> QED
    BY <1>6, <2>5, <2>13 DEF StartInv
<1> QED
  BY <1>6, <1>8, <1>9

\* The page of an address is the aligned one at most a page before it.
LEMMA PageIs ==
    ASSUME NEW q \in Nat, PageAligned(q), NEW x \in Nat, q <= x, x < q + PAGE_SIZE
    PROVE  PageOf(x) = q
<1>1. q <= PageOf(x) /\ PageOf(x) \in Nat /\ PageOf(x) <= x /\ PageAligned(PageOf(x))
  BY PageAbove, PageFact
<1>2. q < PageOf(x) => q + PAGE_SIZE <= PageOf(x)
  BY <1>1, AlignedGap
<1> QED
  BY <1>1, <1>2, PageConstants

\* The pages of the bytes of whole pages.
LEMMA PageWithin ==
    ASSUME NEW b \in Nat, NEW y \in Nat, PageAligned(b), b + y <= MmapStart, NEW a \in Nat, b <= a, a < b + y
    PROVE  PageOf(a) \in Pages(b, y)
<1>1. b <= PageOf(a) /\ PageOf(a) \in Nat /\ PageOf(a) <= a /\ PageAligned(PageOf(a))
  BY PageAbove, PageFact
<1>2. MmapStart <= LastPage /\ MmapStart \in Nat /\ LastPage \in Nat
  BY MemoryConstants
<1> QED
  BY <1>1, <1>2 DEF Pages, AllPages

LEMMA LibProtectSegmentStep ==
    ASSUME StartInv, LibProtectSegment
    PROVE  StartInv'
<1>1. /\ libStep = "protect" /\ libStep' = "map" /\ libNext' = libNext + 1
      /\ IF "W" \notin Header.flags
         THEN \E stop \in Stops(SegmentPage(lib, Header), SegmentSize(Header)) :
                Mprotect(SegmentPage(lib, Header), SegmentSize(Header), Header.flags, stop)
         ELSE UNCHANGED memVars
      /\ lib' = lib /\ loads' = loads /\ loaded_libs' = loaded_libs
      /\ image' = image /\ next' = next /\ step' = step /\ data' = data /\ refused' = refused
  BY DEF LibProtectSegment
<1>2. /\ MemInv /\ LoadInv /\ LinkInv /\ loads \in Nat /\ loads > 0 /\ Len(loaded_libs) \in Nat
      /\ Len(loaded_libs) < loads /\ step = "ready" /\ image \in Linked /\ image \in Images /\ lib \in Libraries
      /\ \A i \in Segments(lib) : LibSegmentInv(i)
      /\ libNext \in Nat /\ libNext > 0
      /\ loads <= 1 => AllApart(regions)
      /\ loaded_libs \in Seq([lib : Libraries, base : Nat])
  BY <1>1, LinkWork
<1>3. libNext \in Segments(lib)
  BY <1>1, <1>2 DEF LinkInv
<1>4. PICK ph, page, size :
         /\ ph = lib.headers[libNext] /\ Header = ph /\ page = SegmentPage(lib, ph) /\ size = Extent(ph)
         /\ page \in Nat /\ PageAligned(page) /\ size \in Nat /\ size > 0 /\ RoundUp(size) = size
         /\ SegmentSize(ph) = size /\ page + size <= MmapStart
         /\ ph.flags \in SUBSET Prot /\ ph.flags \cup {"W"} \in SUBSET Prot
  BY <1>2, <1>3, LibCurrent, Zenon
<1>5. /\ MemInv' /\ DOMAIN host' = DOMAIN host
      /\ AllApart(regions) => AllApart(regions')
      /\ \A b, y : Free(regions, b, y) => Free(regions', b, y)
      /\ \A b \in Nat, y \in Nat : Aside(page, size, b, y) => Kept(regions, host, data, regions', host', data', b, y)
  <2>1. CASE "W" \notin ph.flags
    <3>1. PICK stop : Mprotect(page, size, ph.flags, stop)
      BY <1>1, <1>4, <2>1, Zenon
    <3>2. Protection(regions, host, page, size, ph.flags, stop, regions', host')
      BY <1>2, <1>4, <3>1, MprotectOutcome DEF MemInv
    <3>3. MemInv'
      BY <1>2, <1>4, <3>1, <3>2, MprotectKeepsMem
    <3>4. (AllApart(regions) => AllApart(regions')) /\ \A b, y : Free(regions, b, y) => Free(regions', b, y)
      BY <3>2, ProtectionList
    <3>5. \A b \in Nat, y \in Nat : Aside(page, size, b, y) => Kept(regions, host, data, regions', host', data', b, y)
      BY <1>1, <3>2, ProtectionKeeps
    <3>6. DOMAIN host' = DOMAIN host
      BY <3>2 DEF Protection
    <3> QED
      BY <3>3, <3>4, <3>5, <3>6
  <2>2. CASE "W" \in ph.flags
    <3>1. UNCHANGED memVars
      BY <1>1, <1>4, <2>2
    <3>2. regions' = regions /\ host' = host
      BY <3>1 DEF memVars
    <3>3. MemInv'
      BY <1>2, <3>1 DEF MemInv, MemTypeOK, memVars
    <3> QED
      BY <1>1, <3>2, <3>3, KeptSame
  <2> QED
    BY <2>1, <2>2
<1>6. /\ \A i \in LoadHeaders(image) : /\ PageOf(image[i].vaddr) \in Nat /\ Extent(image[i]) \in Nat
                                       /\ Aside(page, size, PageOf(image[i].vaddr), Extent(image[i]))
  <2>1. ForLibrary(page, size)
    BY <1>4 DEF ForLibrary
  <2> QED
    BY <1>2, <1>3, <1>4, <2>1, LibraryMeetsNone
<1>7. LoadInv'
  BY <1>1, <1>2, <1>5, <1>6, ProgramStays
<1>8. \A k : ~Applied(k) /\ ~Applied(k)'
  BY <1>1 DEF Applied, JustLoaded
<1>9. ASSUME NEW i \in Segments(lib) PROVE LibSegmentInv(i)'
  <2>1. i \in Nat
    BY <1>2, LibrarySegment
  <2>2. (InMemory(i)' => InMemory(i)) /\ (Waiting(i)' => Waiting(i))
    BY <1>1, <1>2, <2>1 DEF InMemory, Waiting, JustLoaded
  <2>3. Untouched(data, data', SegmentPage(lib, lib.headers[i]), Extent(lib.headers[i]))
    BY <1>1 DEF Untouched
  <2>4. ~(libStep' = "fill" /\ i = libNext') /\ DOMAIN host \subseteq DOMAIN host'
    BY <1>1, <1>5
  <2> QED
    BY <1>1, <1>2, <1>5, <1>8, <2>2, <2>3, <2>4, LibSegmentStays
<1>10. LinkerFaults'
  BY <1>1 DEF LinkerFaults
<1>11. LinkInv'
  BY <1>1, <1>2, <1>5, <1>8, <1>9, <1>10 DEF LinkInv
<1> QED
  BY <1>5, <1>7, <1>11 DEF StartInv

\* What the copy of a library's segment leaves.
LibStore(l, i, ph, d) ==
    [a \in DOMAIN d \cup AllCells(l, ph) |->
        IF a \in FileCells(l, ph) THEN LibByte(i, a - SegmentStart(l, ph))
        ELSE IF a \in AllCells(l, ph) THEN ZERO ELSE d[a]]

LEMMA LibStored ==
    ASSUME NEW l \in Libraries, NEW i \in Segments(l), NEW d
    PROVE  \E ph, e :
              /\ ph = l.headers[i] /\ e = LibStore(l, i, ph, d)
              /\ \A a \in AllCells(l, ph) : a \in DOMAIN e /\ e[a] = Content(l, i, a)
              /\ \A b \in Nat, y \in Nat : Aside(SegmentPage(l, ph), Extent(ph), b, y) => Untouched(d, e, b, y)
<1>0. PICK ph, e : ph = l.headers[i] /\ e = LibStore(l, i, ph, d)
  OBVIOUS
<1>1. \A a \in AllCells(l, ph) : a \in DOMAIN e /\ e[a] = Content(l, i, a)
  BY <1>0 DEF Content, LibStore
<1>2. ASSUME NEW b \in Nat, NEW y \in Nat, Aside(SegmentPage(l, ph), Extent(ph), b, y) PROVE Untouched(d, e, b, y)
  <2>1. \A a \in AllCells(l, ph) : a \notin b .. b + y - 1
    <3> SUFFICES ASSUME NEW a \in AllCells(l, ph), a \in b .. b + y - 1 PROVE FALSE
      OBVIOUS
    <3>1. a \in Nat /\ SegmentPage(l, ph) <= a /\ a < SegmentPage(l, ph) + Extent(ph)
      BY <1>0, CellsInPages
    <3>2. PICK page \in Nat, size \in Nat : page = SegmentPage(l, ph) /\ size = Extent(ph)
      <4>1. Takes(ph, PageOf(ph.vaddr), Extent(ph)) /\ SegmentPage(l, ph) \in Nat
        BY <1>0, LibrarySegment
      <4> QED
        BY <4>1 DEF Takes
    <3> QED
      BY <1>2, <3>1, <3>2 DEF Aside
  <2>2. \A a \in FileCells(l, ph) : a \in AllCells(l, ph)
    <3>1. Takes(ph, PageOf(ph.vaddr), Extent(ph)) /\ SegmentStart(l, ph) \in Nat
      BY <1>0, LibrarySegment
    <3>2. PICK v \in Nat, f \in Nat, m \in Nat : v = SegmentStart(l, ph) /\ f = ph.filesz /\ m = ph.memsz /\ f <= m
      BY <3>1 DEF Takes
    <3>3. \A a \in v .. v + f - 1 : a \in v .. v + m - 1
      BY <3>2
    <3> QED
      BY <3>2, <3>3 DEF FileCells, AllCells
  <2> QED
    BY <1>0, <2>1, <2>2 DEF Untouched, LibStore
<1> QED
  BY <1>0, <1>1, <1>2, Zenon

LEMMA LibFillSegmentStep ==
    ASSUME StartInv, LibFillSegment
    PROVE  StartInv'
<1>1. /\ libStep = "fill" /\ libNext' = libNext
      /\ IF \A a \in AllCells(lib, Header) : HostAllows(PageOf(a), "W")
         THEN /\ libStep' = "protect"
              /\ data' = [a \in DOMAIN data \cup AllCells(lib, Header) |->
                            IF a \in FileCells(lib, Header)
                            THEN LibByte(libNext, a - SegmentStart(lib, Header))
                            ELSE IF a \in AllCells(lib, Header) THEN ZERO ELSE data[a]]
         ELSE libStep' = "killed" /\ data' = data
      /\ lib' = lib /\ loads' = loads /\ loaded_libs' = loaded_libs
      /\ image' = image /\ next' = next /\ step' = step /\ refused' = refused /\ UNCHANGED memVars
  BY DEF LibFillSegment
<1>2. /\ MemInv /\ LoadInv /\ LinkInv /\ loads \in Nat /\ loads > 0 /\ Len(loaded_libs) \in Nat
      /\ Len(loaded_libs) < loads /\ step = "ready" /\ image \in Linked /\ image \in Images /\ lib \in Libraries
      /\ \A i \in Segments(lib) : LibSegmentInv(i)
      /\ libNext \in Nat /\ libNext > 0
      /\ loads <= 1 => AllApart(regions)
      /\ loaded_libs \in Seq([lib : Libraries, base : Nat])
  BY <1>1, LinkWork
<1>3. libNext \in Segments(lib)
  BY <1>1, <1>2 DEF LinkInv
<1>4. PICK ph, page, size :
         /\ ph = lib.headers[libNext] /\ Header = ph /\ page = SegmentPage(lib, ph) /\ size = Extent(ph)
         /\ page \in Nat /\ PageAligned(page) /\ size \in Nat /\ size > 0 /\ RoundUp(size) = size
         /\ SegmentSize(ph) = size /\ page + size <= MmapStart
         /\ ph.flags \in SUBSET Prot /\ ph.flags \cup {"W"} \in SUBSET Prot
  BY <1>2, <1>3, LibCurrent, Zenon
<1>5. MemInv' /\ regions' = regions /\ host' = host
  BY <1>1, <1>2 DEF MemInv, MemTypeOK, memVars
<1>6. \A k : ~Applied(k)
  BY <1>1, NoneApplied
<1>7. page # 0 => \A p \in Pages(page, size) : p \in DOMAIN host /\ "W" \in host[p]
  BY <1>1, <1>2, <1>3, <1>4 DEF LibSegmentInv
<1>8. CASE ~\A a \in AllCells(lib, Header) : HostAllows(PageOf(a), "W")
  <2>1. libStep' = "killed" /\ data' = data
    BY <1>1, <1>8
  <2>2. page = 0
    <3> SUFFICES ASSUME page # 0 PROVE FALSE
      OBVIOUS
    <3>1. PICK a : a \in AllCells(lib, ph) /\ ~HostAllows(PageOf(a), "W")
      BY <1>4, <1>8
    <3>2. a \in Nat /\ page <= a /\ a < page + size
      BY <1>2, <1>3, <1>4, <3>1, CellsInPages
    <3>3. PageOf(a) \in Pages(page, size)
      BY <1>4, <3>2, PageWithin
    <3> QED
      BY <1>7, <3>1, <3>3 DEF HostAllows, Allows
  <2>3. LinkerFaults'
    BY <1>1, <1>3, <1>4, <2>2 DEF LinkerFaults
  <2>4. LoadInv'
    BY <1>1, <1>2, <1>5, <2>1, ProgramStays, KeptSame
  <2>5. \A k : ~Applied(k)'
    BY <2>1 DEF Applied, JustLoaded
  <2>6. \A i : ~InMemory(i)' /\ ~Waiting(i)'
    BY <2>1 DEF InMemory, Waiting, JustLoaded
  <2>7. \A i \in Segments(lib) : LibSegmentInv(i)'
    BY <2>1, <2>6 DEF LibSegmentInv
  <2>8. LinkInv'
    BY <1>1, <1>2, <1>5, <2>1, <2>3, <2>5, <2>7 DEF LinkInv
  <2> QED
    BY <1>5, <2>4, <2>8 DEF StartInv
<1>9. CASE \A a \in AllCells(lib, Header) : HostAllows(PageOf(a), "W")
  <2>1. libStep' = "protect" /\ data' = LibStore(lib, libNext, ph, data)
    BY <1>1, <1>4, <1>9 DEF LibStore
  <2>2. PICK e : e = data'
    OBVIOUS
  <2>3. /\ \A a \in AllCells(lib, ph) : a \in DOMAIN e /\ e[a] = Content(lib, libNext, a)
        /\ \A b \in Nat, y \in Nat : Aside(page, size, b, y) => Untouched(data, e, b, y)
    <3>1. PICK q, f :
             /\ q = lib.headers[libNext] /\ f = LibStore(lib, libNext, q, data)
             /\ \A a \in AllCells(lib, q) : a \in DOMAIN f /\ f[a] = Content(lib, libNext, a)
             /\ \A b \in Nat, y \in Nat : Aside(SegmentPage(lib, q), Extent(q), b, y) => Untouched(data, f, b, y)
      BY <1>2, <1>3, LibStored, Zenon
    <3>2. q = ph /\ f = e
      BY <1>4, <2>1, <2>2, <3>1, Zenon
    <3> QED
      BY <1>4, <3>1, <3>2
  <2>4. page # 0
    <3> SUFFICES ASSUME page = 0 PROVE FALSE
      OBVIOUS
    <3>1. PICK v : v = SegmentStart(lib, ph) /\ v \in Nat /\ v \in AllCells(lib, ph)
      <4>1. Takes(ph, PageOf(ph.vaddr), Extent(ph)) /\ SegmentStart(lib, ph) \in Nat
        BY <1>2, <1>3, <1>4, LibrarySegment
      <4>2. PICK m \in Nat : m = ph.memsz /\ m > 0
        BY <4>1 DEF Takes
      <4> QED
        BY <4>1, <4>2 DEF AllCells
    <3>2. v < PAGE_SIZE
      <4>1. PICK x \in Nat, q \in Nat, base \in Nat :
               x = ph.vaddr /\ q = PageOf(ph.vaddr) /\ base = BaseAddr(lib) /\ x < q + PAGE_SIZE
        <5>1. Takes(ph, PageOf(ph.vaddr), Extent(ph))
          BY <1>2, <1>3, <1>4, LibrarySegment
        <5>2. ph.vaddr \in Nat
          BY <5>1 DEF Takes
        <5>3. PageOf(ph.vaddr) \in Nat /\ ph.vaddr < PageOf(ph.vaddr) + PAGE_SIZE
          BY <5>2, PageFact
        <5>4. BaseAddr(lib) \in Nat
          BY <1>2, BaseFact
        <5> QED
          BY <5>2, <5>3, <5>4, Zenon
      <4>2. base + q = 0 /\ v = base + x
        BY <1>4, <3>1, <4>1 DEF SegmentPage, SegmentStart
      <4>3. base = 0 /\ q = 0
        BY <4>1, <4>2
      <4>4. v = x /\ x < PAGE_SIZE
        BY <4>1, <4>2, <4>3, PageConstants
      <4> QED
        BY <4>4
    <3>3. PageOf(v) = 0
      BY <1>4, <3>1, <3>2, PageIs, PageConstants
    <3>4. HostAllows(PageOf(v), "W")
      BY <1>4, <1>9, <3>1
    <3> QED
      BY <1>2, <3>3, <3>4 DEF HostAllows, MemInv
  <2>5. /\ \A i \in LoadHeaders(image) : /\ PageOf(image[i].vaddr) \in Nat /\ Extent(image[i]) \in Nat
                                         /\ Aside(page, size, PageOf(image[i].vaddr), Extent(image[i]))
        /\ \A i \in Segments(lib) :
              i # libNext => /\ SegmentPage(lib, lib.headers[i]) \in Nat /\ Extent(lib.headers[i]) \in Nat
                             /\ Aside(page, size, SegmentPage(lib, lib.headers[i]), Extent(lib.headers[i]))
    <3>1. ForLibrary(page, size)
      BY <1>4 DEF ForLibrary
    <3> QED
      BY <1>2, <1>3, <1>4, <3>1, LibraryMeetsNone
  <2>6. LoadInv'
    <3>1. \A i \in LoadHeaders(image) :
             Kept(regions, host, data, regions', host', data', PageOf(image[i].vaddr), Extent(image[i]))
      BY <1>5, <2>2, <2>3, <2>5 DEF Kept
    <3> QED
      BY <1>1, <1>2, <3>1, ProgramStays
  <2>7. \A k : ~Applied(k)'
    BY <2>1 DEF Applied, JustLoaded
  <2>8. ASSUME NEW i \in Segments(lib), i # libNext PROVE LibSegmentInv(i)'
    <3>1. Untouched(data, data', SegmentPage(lib, lib.headers[i]), Extent(lib.headers[i]))
      BY <2>2, <2>3, <2>5, <2>8
    <3>2. (InMemory(i)' => InMemory(i)) /\ (Waiting(i)' => Waiting(i))
      BY <1>1, <2>1, <2>8 DEF InMemory, Waiting, JustLoaded
    <3>3. ~(libStep' = "fill" /\ i = libNext')
      BY <2>1
    <3> QED
      BY <1>1, <1>2, <1>5, <1>6, <2>8, <3>1, <3>2, <3>3, LibSegmentStays
  <2>9. PICK n : n = libNext /\ n = libNext' /\ ~(n > n)
    BY <1>1, <1>2
  <2>10. LibSegmentInv(n)'
    <3>1. ~Waiting(n)' /\ libStep' # "fill"
      BY <2>1, <2>9 DEF Waiting
    <3>2. Pages(page, size) \subseteq DOMAIN host'
      BY <1>5, <1>7, <2>4
    <3>3. ph = lib'.headers[n] /\ page = SegmentPage(lib', ph) /\ size = Extent(ph)
      BY <1>1, <1>4, <2>9
    <3>4. \A a \in AllCells(lib', ph) : a \in DOMAIN data' /\ data'[a] = Content(lib', n, a)
      BY <1>1, <2>2, <2>3, <2>9
    <3> QED
      BY <2>4, <3>1, <3>2, <3>3, <3>4 DEF LibSegmentInv
  <2>11. \A i \in Segments(lib) : LibSegmentInv(i)'
    BY <2>8, <2>9, <2>10
  <2>12. LinkerFaults'
    BY <2>1 DEF LinkerFaults
  <2>13. LinkInv'
    BY <1>1, <1>2, <1>3, <1>5, <2>1, <2>7, <2>11, <2>12 DEF LinkInv
  <2> QED
    BY <1>5, <2>6, <2>13 DEF StartInv
<1> QED
  BY <1>8, <1>9

\* The place of a relative relocation is a cell of one segment, and of no other
\* relocation.
LEMMA PlaceFact ==
    ASSUME NEW l \in Libraries, NEW k \in DOMAIN l.relocs, l.relocs[k].type = "RELATIVE"
    PROVE  /\ \E i \in Segments(l) : Place(l, l.relocs[k]) \in AllCells(l, l.headers[i])
           /\ \A j \in DOMAIN l.relocs :
                 l.relocs[j].type = "RELATIVE" /\ Place(l, l.relocs[j]) = Place(l, l.relocs[k]) => j = k
           /\ l.relocs[k].addend \in Int
<1>1. \A j \in DOMAIN l.relocs : l.relocs[j].offset \in Nat /\ l.relocs[j].addend \in Int
  <2>1. \A j \in DOMAIN l.relocs : l.relocs[j] \in Reloc
    BY LibHeaders
  <2>2. \A r \in Reloc : r.offset \in Nat /\ r.addend \in Int
    BY DEF Reloc
  <2> QED
    BY <2>1, <2>2
<1>2. PICK base \in Nat : base = BaseAddr(l)
  BY BaseFact
<1>3. /\ \E i \in Segments(l) : l.relocs[k].offset \in l.headers[i].vaddr .. l.headers[i].vaddr + l.headers[i].memsz - 1
      /\ \A j \in DOMAIN l.relocs : l.relocs[j].type = "RELATIVE" /\ l.relocs[j].offset = l.relocs[k].offset => j = k
  BY LibraryLayout
<1>4. PICK i \in Segments(l) : l.relocs[k].offset \in l.headers[i].vaddr .. l.headers[i].vaddr + l.headers[i].memsz - 1
  BY <1>3
<1>5. PICK v \in Nat, m \in Nat : v = l.headers[i].vaddr /\ m = l.headers[i].memsz
  <2>1. Takes(l.headers[i], PageOf(l.headers[i].vaddr), Extent(l.headers[i]))
    BY LibrarySegment
  <2> QED
    BY <2>1 DEF Takes
<1>6. Place(l, l.relocs[k]) \in AllCells(l, l.headers[i])
  <2>1. PICK o \in Nat : o = l.relocs[k].offset /\ o \in v .. v + m - 1
    BY <1>1, <1>4, <1>5
  <2>2. base + o \in base + v .. base + v + m - 1
    BY <2>1
  <2> QED
    BY <1>2, <1>5, <2>1, <2>2 DEF Place, AllCells, SegmentStart
<1>7. \A j \in DOMAIN l.relocs : Place(l, l.relocs[j]) = Place(l, l.relocs[k]) => l.relocs[j].offset = l.relocs[k].offset
  BY <1>1, <1>2 DEF Place
<1> QED
  BY <1>1, <1>3, <1>6, <1>7

LEMMA ContentIsNoPointer ==
    ASSUME NEW l, NEW i \in Nat, NEW a
    PROVE  Content(l, i, a)[1] # -1
BY DEF Content, LibByte, ZERO

LEMMA RelocateStep ==
    ASSUME StartInv, Relocate
    PROVE  StartInv'
<1>1. PICK n, r :
         /\ n = libNext /\ r = lib.relocs[n] /\ libStep = "relocate" /\ HasDynamic(lib) /\ n <= Len(lib.relocs)
         /\ \/ r.type # "RELATIVE" /\ libNext' = n + 1 /\ libStep' = libStep /\ data' = data
            \/ /\ r.type = "RELATIVE"
               /\ data' = [data EXCEPT ![Place(lib, r)] = Relocated(r)]
               /\ libNext' = n + 1 /\ libStep' = libStep
            \/ /\ r.type = "RELATIVE" /\ ~HostAllows(PageOf(Place(lib, r)), "W")
               /\ libStep' = "killed" /\ libNext' = n /\ data' = data
         /\ lib' = lib /\ loads' = loads /\ loaded_libs' = loaded_libs
         /\ image' = image /\ next' = next /\ step' = step /\ refused' = refused /\ UNCHANGED memVars
  BY DEF Relocate
<1>2. /\ MemInv /\ LoadInv /\ LinkInv /\ loads \in Nat /\ loads > 0 /\ Len(loaded_libs) \in Nat
      /\ Len(loaded_libs) < loads /\ step = "ready" /\ image \in Linked /\ image \in Images /\ lib \in Libraries
      /\ \A i \in Segments(lib) : LibSegmentInv(i)
      /\ \A k \in DOMAIN lib.relocs :
            Applied(k) => data[Place(lib, lib.relocs[k])] = Pointer(BaseAddr(lib) + lib.relocs[k].addend)
      /\ libNext \in Nat /\ libNext > 0
      /\ loads <= 1 => AllApart(regions)
      /\ loaded_libs \in Seq([lib : Libraries, base : Nat])
  BY <1>1, LinkWork
<1>3. MemInv' /\ regions' = regions /\ host' = host
  BY <1>1, <1>2 DEF MemInv, MemTypeOK, memVars
<1>4. n \in DOMAIN lib.relocs /\ n \in Nat /\ DOMAIN lib.relocs \subseteq Nat
  BY <1>1, <1>2, LibHeaders
<1>5. \A k \in DOMAIN lib.relocs : Applied(k) <=> lib.relocs[k].type = "RELATIVE" /\ k < n
  BY <1>1 DEF Applied, JustLoaded
<1>6. \A i \in Segments(lib) :
         /\ SegmentPage(lib, lib.headers[i]) # 0
         /\ Pages(SegmentPage(lib, lib.headers[i]), Extent(lib.headers[i])) \subseteq DOMAIN host
         /\ \A a \in AllCells(lib, lib.headers[i]) :
               /\ a \in DOMAIN data
               /\ \/ data[a] = Content(lib, i, a)
                  \/ \E k \in DOMAIN lib.relocs : Applied(k) /\ a = Place(lib, lib.relocs[k])
  <2>1. \A i : InMemory(i)
    BY <1>1 DEF InMemory
  <2> QED
    BY <1>2, <2>1 DEF LibSegmentInv
<1>7. CASE r.type = "RELATIVE" /\ ~HostAllows(PageOf(Place(lib, r)), "W") /\ libStep' = "killed" /\ data' = data
  <2>1. LoadInv'
    BY <1>1, <1>2, <1>3, <1>7, ProgramStays, KeptSame
  <2>2. \A k : ~Applied(k)'
    BY <1>7 DEF Applied, JustLoaded
  <2>3. \A i : ~InMemory(i)' /\ ~Waiting(i)'
    BY <1>7 DEF InMemory, Waiting, JustLoaded
  <2>4. \A i \in Segments(lib) : LibSegmentInv(i)'
    BY <1>7, <2>3 DEF LibSegmentInv
  <2>5. PICK x : x = Place(lib, r) /\ x \in Patched(lib)
    BY <1>1, <1>4, <1>7 DEF Patched
  <2>6. PageOf(x) \in DOMAIN host
    <3>1. PICK i \in Segments(lib) : x \in AllCells(lib, lib.headers[i])
      BY <1>1, <1>2, <1>4, <1>7, <2>5, PlaceFact
    <3>2. PICK page \in Nat, size \in Nat :
             /\ page = SegmentPage(lib, lib.headers[i]) /\ size = Extent(lib.headers[i]) /\ PageAligned(page)
             /\ page + size <= MmapStart /\ x \in Nat /\ page <= x /\ x < page + size
      <4>1. Takes(lib.headers[i], PageOf(lib.headers[i].vaddr), Extent(lib.headers[i]))
        BY <1>2, LibrarySegment
      <4>2. Extent(lib.headers[i]) \in Nat
        BY <4>1 DEF Takes
      <4>3. /\ SegmentPage(lib, lib.headers[i]) \in Nat /\ PageAligned(SegmentPage(lib, lib.headers[i]))
            /\ SegmentPage(lib, lib.headers[i]) + Extent(lib.headers[i]) <= MmapStart
        BY <1>2, LibrarySegment
      <4>4. x \in Nat /\ SegmentPage(lib, lib.headers[i]) <= x /\ x < SegmentPage(lib, lib.headers[i]) + Extent(lib.headers[i])
        BY <1>2, <3>1, CellsInPages
      <4> QED
        BY <4>2, <4>3, <4>4
    <3>3. PageOf(x) \in Pages(page, size)
      BY <3>2, PageWithin
    <3> QED
      BY <1>6, <3>2, <3>3
  <2>7. "W" \notin host[PageOf(x)]
    BY <1>7, <2>5, <2>6 DEF HostAllows, Allows
  <2>8. LinkerFaults'
    BY <1>1, <1>3, <2>5, <2>6, <2>7 DEF LinkerFaults
  <2>9. LinkInv'
    BY <1>1, <1>2, <1>3, <1>4, <1>7, <2>2, <2>4, <2>8 DEF LinkInv
  <2> QED
    BY <1>3, <2>1, <2>9 DEF StartInv
<1>8. CASE libNext' = n + 1 /\ libStep' = libStep
  <2>1. \A k \in DOMAIN lib.relocs : Applied(k)' <=> lib.relocs[k].type = "RELATIVE" /\ (k < n \/ k = n)
    <3>1. \A k \in DOMAIN lib.relocs : k < n + 1 <=> k < n \/ k = n
      BY <1>4
    <3> QED
      BY <1>1, <1>8, <3>1 DEF Applied, JustLoaded
  <2>2. \A i : ~Waiting(i)' /\ libStep' # "fill"
    BY <1>1, <1>8 DEF Waiting
  <2>3. LinkerFaults'
    BY <1>1, <1>8 DEF LinkerFaults
  <2>4. PICK e : e = data'
    OBVIOUS
  <2>5. SUFFICES /\ \A i \in LoadHeaders(image) : Untouched(data, e, PageOf(image[i].vaddr), Extent(image[i]))
                 /\ \A i \in Segments(lib) : \A a \in AllCells(lib, lib.headers[i]) :
                       /\ a \in DOMAIN e
                       /\ \/ e[a] = Content(lib, i, a)
                          \/ \E k \in DOMAIN lib.relocs : Applied(k)' /\ a = Place(lib, lib.relocs[k])
                 /\ \A k \in DOMAIN lib.relocs :
                       Applied(k)' => e[Place(lib, lib.relocs[k])] = Pointer(BaseAddr(lib) + lib.relocs[k].addend)
    <3> SUFFICES ASSUME \A i \in LoadHeaders(image) : Untouched(data, e, PageOf(image[i].vaddr), Extent(image[i])),
                        \A i \in Segments(lib) : \A a \in AllCells(lib, lib.headers[i]) :
                           /\ a \in DOMAIN e
                           /\ \/ e[a] = Content(lib, i, a)
                              \/ \E k \in DOMAIN lib.relocs : Applied(k)' /\ a = Place(lib, lib.relocs[k]),
                        \A k \in DOMAIN lib.relocs :
                           Applied(k)' => e[Place(lib, lib.relocs[k])] = Pointer(BaseAddr(lib) + lib.relocs[k].addend)
                 PROVE  StartInv'
      OBVIOUS
    <3>1. \A i \in LoadHeaders(image) :
             Kept(regions, host, data, regions', host', data', PageOf(image[i].vaddr), Extent(image[i]))
      BY <1>3, <2>4 DEF Kept
    <3>2. LoadInv'
      BY <1>1, <1>2, <3>1, ProgramStays
    <3>3. \A i \in Segments(lib) : LibSegmentInv(i)'
      BY <1>1, <1>3, <1>6, <2>2, <2>4 DEF LibSegmentInv
    <3>4. libNext' \in Nat /\ libNext' > 0
      BY <1>4, <1>8
    <3>5. LinkInv'
      BY <1>1, <1>2, <1>3, <1>8, <2>3, <2>4, <3>3, <3>4 DEF LinkInv
    <3> QED
      BY <1>3, <3>2, <3>5 DEF StartInv
  <2>6. CASE r.type # "RELATIVE" /\ data' = data
    <3>1. e = data /\ \A k \in DOMAIN lib.relocs : Applied(k)' <=> Applied(k)
      BY <1>1, <1>5, <2>1, <2>4, <2>6
    <3>2. \A i \in LoadHeaders(image) : Untouched(data, e, PageOf(image[i].vaddr), Extent(image[i]))
      BY <3>1 DEF Untouched
    <3> QED
      BY <1>2, <1>6, <3>1, <3>2
  <2>7. CASE r.type = "RELATIVE" /\ data' = [data EXCEPT ![Place(lib, r)] = Relocated(r)]
    <3>1. PICK x : x = Place(lib, r)
      OBVIOUS
    <3>2. PICK i \in Segments(lib) : x \in AllCells(lib, lib.headers[i])
      BY <1>1, <1>2, <1>4, <2>7, <3>1, PlaceFact
    <3>3. \A k \in DOMAIN lib.relocs : lib.relocs[k].type = "RELATIVE" /\ Place(lib, lib.relocs[k]) = x => k = n
      BY <1>1, <1>2, <1>4, <2>7, <3>1, PlaceFact
    <3>4. x \in DOMAIN data /\ data[x] = Content(lib, i, x)
      <4>1. \A k \in DOMAIN lib.relocs : Applied(k) => x # Place(lib, lib.relocs[k])
        <5>1. ~(n < n)
          BY <1>4
        <5> QED
          BY <1>5, <3>3, <5>1
      <4> QED
        BY <1>6, <3>2, <4>1
    <3>5. Relocated(r) = Pointer(BaseAddr(lib) + r.addend)
      <4>1. i \in Nat
        BY <1>2, <3>2, LibrarySegment
      <4>2. data[x][1] # -1
        BY <3>4, <4>1, ContentIsNoPointer
      <4> QED
        BY <3>1, <4>2 DEF Relocated
    <3>6. DOMAIN e = DOMAIN data /\ e[x] = Pointer(BaseAddr(lib) + r.addend) /\ \A a \in DOMAIN data : a # x => e[a] = data[a]
      BY <2>4, <2>7, <3>1, <3>4, <3>5
    <3>7. \A j \in LoadHeaders(image) : Untouched(data, e, PageOf(image[j].vaddr), Extent(image[j]))
      <4> SUFFICES ASSUME NEW j \in LoadHeaders(image), x \in PageOf(image[j].vaddr) .. PageOf(image[j].vaddr) + Extent(image[j]) - 1
                   PROVE  FALSE
        BY <3>6 DEF Untouched
      <4>1. PICK b \in Nat, y \in Nat : b = PageOf(image[j].vaddr) /\ y = Extent(image[j]) /\ x \in b .. b + y - 1
        <5>1. Takes(image[j], PageOf(image[j].vaddr), Extent(image[j]))
          BY <1>2, ImageSegment
        <5>2. PageOf(image[j].vaddr) \in Nat /\ Extent(image[j]) \in Nat
          BY <5>1 DEF Takes
        <5> QED
          BY <5>2
      <4>2. PICK page \in Nat, size \in Nat :
               page = SegmentPage(lib, lib.headers[i]) /\ size = Extent(lib.headers[i]) /\ page <= x /\ x < page + size
        <5>1. Takes(lib.headers[i], PageOf(lib.headers[i].vaddr), Extent(lib.headers[i])) /\ SegmentPage(lib, lib.headers[i]) \in Nat
          BY <1>2, LibrarySegment
        <5>2. Extent(lib.headers[i]) \in Nat
          BY <5>1 DEF Takes
        <5>3. SegmentPage(lib, lib.headers[i]) <= x /\ x < SegmentPage(lib, lib.headers[i]) + Extent(lib.headers[i])
          BY <1>2, <3>2, CellsInPages
        <5> QED
          BY <5>1, <5>2, <5>3
      <4>3. Aside(page, size, b, y)
        BY <1>2, <4>1, <4>2, LibraryAside
      <4> QED
        BY <4>1, <4>2, <4>3 DEF Aside
    <3>8. \A j \in Segments(lib) : \A a \in AllCells(lib, lib.headers[j]) :
             /\ a \in DOMAIN e
             /\ \/ e[a] = Content(lib, j, a)
                \/ \E k \in DOMAIN lib.relocs : Applied(k)' /\ a = Place(lib, lib.relocs[k])
      <4> SUFFICES ASSUME NEW j \in Segments(lib), NEW a \in AllCells(lib, lib.headers[j])
                   PROVE  /\ a \in DOMAIN e
                          /\ \/ e[a] = Content(lib, j, a)
                             \/ \E k \in DOMAIN lib.relocs : Applied(k)' /\ a = Place(lib, lib.relocs[k])
        OBVIOUS
      <4>1. a \in DOMAIN data /\ a \in DOMAIN e
        BY <1>6, <3>6
      <4>2. CASE a = x
        BY <1>1, <1>4, <2>1, <2>7, <3>1, <4>1, <4>2
      <4>3. CASE a # x
        BY <1>5, <1>6, <2>1, <3>6, <4>1, <4>3
      <4> QED
        BY <4>2, <4>3
    <3>9. ASSUME NEW k \in DOMAIN lib.relocs, Applied(k)'
          PROVE  e[Place(lib, lib.relocs[k])] = Pointer(BaseAddr(lib) + lib.relocs[k].addend)
      <4>1. CASE k = n
        BY <1>1, <3>1, <3>6, <4>1
      <4>2. CASE k # n
        <5>1. Applied(k) /\ lib.relocs[k].type = "RELATIVE"
          BY <1>5, <2>1, <3>9, <4>2
        <5>2. Place(lib, lib.relocs[k]) # x
          BY <3>3, <4>2, <5>1
        <5>3. Place(lib, lib.relocs[k]) \in DOMAIN data
          <6>1. PICK j \in Segments(lib) : Place(lib, lib.relocs[k]) \in AllCells(lib, lib.headers[j])
            BY <1>2, <5>1, PlaceFact
          <6> QED
            BY <1>6, <6>1
        <5> QED
          BY <1>2, <3>6, <5>1, <5>2, <5>3
      <4> QED
        BY <4>1, <4>2
    <3> QED
      BY <3>7, <3>8, <3>9
  <2> QED
    BY <1>1, <1>8, <2>6, <2>7
<1> QED
  BY <1>1, <1>7, <1>8

-----------------------------------------------------------------------------
(* The theorems                                                            *)

LEMMA StartStep ==
    ASSUME StartInv, [StartNext]_<<loaderVars, libVars>>
    PROVE  StartInv'
<1>1. ASSUME image \in Linked, LibNext PROVE StartInv'
  <2>1. ASSUME NEW l \in Libraries, LoadLibrary(l) PROVE StartInv'
    BY <1>1, <2>1, LoadLibraryStep
  <2> QED
    BY <1>1, <2>1, LibSkipHeaderStep, LibMapSegmentStep, LibFillSegmentStep, LibProtectSegmentStep,
       LibSegmentsDoneStep, RelocateStep, LibLoadedStep DEF LibNext
<1>2. CASE UNCHANGED <<loaderVars, libVars>>
  BY <1>2, StutterStep
<1> QED
  BY <1>1, <1>2, LoaderLink DEF StartNext

\* The invariant from which the properties follow: where the segments of the
\* program and of the library are in the region list, in the page tables and in
\* memory after every step of load_segments and load_library.
THEOREM StartInvariant == StartSpec => []StartInv
<1>1. StartInv /\ [StartNext]_<<loaderVars, libVars>> => StartInv'
  BY StartStep
<1> QED
  BY <1>1, StartInitial, PTL DEF StartSpec

\* Every loaded segment holds its file bytes and a zero bss for good: neither a
\* later segment of load_segments, nor TLS block, stack or libraries damage it.
THEOREM SegmentsStayIntact == StartSpec => []ImageIntact
<1>1. ASSUME StartInv PROVE ImageIntact
  <2> SUFFICES ASSUME NEW i \in DOMAIN image, Loaded(i)
               PROVE  /\ \A a \in FileBytes(image[i]) : data[a] = <<i, a - image[i].vaddr>>
                      /\ \A a \in BssBytes(image[i]) : data[a] = ZERO
    BY DEF ImageIntact
  <2>1. i \in LoadHeaders(image) /\ i < next
    BY DEF Loaded, LoadHeaders
  <2>2. Holding(data, i, image[i])
    BY <1>1, <2>1 DEF StartInv, LoadInv, SegmentInv
  <2> QED
    BY <2>2 DEF Holding
<1> QED
  BY <1>1, StartInvariant, PTL

\* A byte of a region of one's own is checked against that region.
LEMMA HasCheck ==
    ASSUME MemTypeOK, NEW b \in Nat, NEW y \in Nat, NEW p, NEW Q, Has(regions, host, b, y, p, Q),
           NEW a \in Nat, b <= a, a < b + y, NEW needed
    PROVE  CheckPerms(a, 1, needed) <=> Allows(p, needed)
<1>1. PICK k \in DOMAIN regions : /\ regions[k].addr = b /\ regions[k].size = y /\ regions[k].perms = p
                                  /\ \A j \in DOMAIN regions : j # k => Apart(regions[k], regions[j])
  BY DEF Has, Settled
<1>2. Holds(regions[k], a, 1)
  BY <1>1 DEF Holds
<1>3. \A j \in DOMAIN regions : Holds(regions[j], a, 1) => j = k
  <2>1. \A j \in DOMAIN regions : regions[j].addr \in Nat /\ regions[j].size \in Nat
    BY RegionsFact
  <2> QED
    BY <1>1, <2>1 DEF Holds, Apart
<1>4. k <= k
  BY <1>1, RegionsFact
<1>5. PICK c \in BOOLEAN : c = Allows(p, needed)
  BY DEF Allows
<1>6. CheckPerms(a, 1, needed) <=>
         \E i \in DOMAIN regions : /\ Holds(regions[i], a, 1) /\ Allows(regions[i].perms, needed)
                                   /\ \A j \in DOMAIN regions : Holds(regions[j], a, 1) => i <= j
  BY CheckFact
<1> QED
  BY <1>1, <1>2, <1>3, <1>4, <1>6

\* The pages of a loaded segment have the permissions of its header, for
\* check_perms and, unless the kernel refused the mprotect, for the kernel:
\* load_segments takes back the write permission it mapped them with, and
\* nothing that comes after changes them.  After a refusal the difference is the
\* write permission only.
THEOREM SegmentsKeepPermissions == StartSpec => []SegmentPermissions
<1>1. ASSUME StartInv PROVE SegmentPermissions
  <2> SUFFICES ASSUME NEW i \in DOMAIN image, Loaded(i), NEW a \in FileBytes(image[i]) \cup BssBytes(image[i])
               PROVE  /\ \/ host[PageOf(a)] = image[i].flags
                         \/ i \in refused /\ host[PageOf(a)] = image[i].flags \cup {"W"}
                      /\ CheckPerms(a, 1, "W") <=> "W" \in image[i].flags
    BY DEF SegmentPermissions
  <2>1. i \in LoadHeaders(image) /\ i < next /\ image \in Images /\ MemTypeOK
    BY <1>1 DEF Loaded, LoadHeaders, StartInv, LoadInv, MemInv
  <2>2. PICK ph, page, size : ph = image[i] /\ page = PageOf(ph.vaddr) /\ size = Extent(ph)
    OBVIOUS
  <2>3. Has(regions, host, page, size, ph.flags, OnHost(refused, i, ph)) /\ Takes(ph, page, size)
    BY <1>1, <2>1, <2>2, ImageSegment DEF StartInv, LoadInv, SegmentInv
  <2>4. page \in Nat /\ size \in Nat /\ a \in Nat /\ page <= a /\ a < page + size
    <3>1. PICK v \in Nat, f \in Nat, m \in Nat :
             /\ v = ph.vaddr /\ f = ph.filesz /\ m = ph.memsz /\ f <= m
             /\ page \in Nat /\ size \in Nat /\ page <= v /\ v + m <= page + size
      BY <2>3 DEF Takes
    <3>2. a \in v .. v + f - 1 \/ a \in v + f .. v + m - 1
      BY <2>2, <3>1 DEF FileBytes, BssBytes
    <3> QED
      BY <3>1, <3>2
  <2>5. PICK p, Q : p = ph.flags /\ Q = OnHost(refused, i, ph)
    OBVIOUS
  <2>6. Has(regions, host, page, size, p, Q)
    BY <2>3, <2>5
  <2>7. MemTypeOK /\ page \in Nat /\ size \in Nat /\ a \in Nat /\ page <= a /\ a < page + size
    BY <2>1, <2>4
  <2>8. host[PageOf(a)] \in Q
    <3>1. PICK s, h : s = regions /\ h = host
      OBVIOUS
    <3>2. Has(s, h, page, size, p, Q)
      BY <2>6, <3>1
    <3>3. page \in Nat /\ size \in Nat /\ a \in Nat /\ page <= a /\ a < page + size
      BY <2>7
    <3>4. PageOf(a) \in DOMAIN h /\ h[PageOf(a)] \in Q
      BY <3>2, <3>3, HasByte
    <3> QED
      BY <3>1, <3>4
  <2>9. CheckPerms(a, 1, "W") <=> Allows(p, "W")
    BY <2>6, <2>7, HasCheck, Zenon
  <2> QED
    BY <2>2, <2>5, <2>8, <2>9 DEF Allows, OnHost
<1> QED
  BY <1>1, StartInvariant, PTL

\* Up to the first load_library, its failure halfway included, no two regions of
\* the list overlap.
THEOREM RegionsStayApart == StartSpec => []ApartUntilReload
<1>1. ASSUME StartInv PROVE ApartUntilReload
  BY <1>1 DEF StartInv, LinkInv, ApartUntilReload, RegionsApart, AllApart, Apart
<1> QED
  BY <1>1, StartInvariant, PTL

\* load_segments writes only where it has mapped, unless a segment lies in page 0.
THEOREM LoaderFaultsOnlyInPageZero == StartSpec => []FaultsOnlyInPageZero
<1>1. ASSUME StartInv PROVE FaultsOnlyInPageZero
  BY <1>1 DEF StartInv, LoadInv, FaultsOnlyInPageZero
<1> QED
  BY <1>1, StartInvariant, PTL

\* A library for which load_library has returned true is in memory as its file
\* says, and its relative relocations point at what they mean, on a first load
\* and on one over the remains of another.
THEOREM LibrariesAreLinked == StartSpec => []LibraryLinked
<1>1. ASSUME StartInv PROVE LibraryLinked
  <2> SUFFICES ASSUME JustLoaded
               PROVE  /\ \A i \in Segments(lib) :
                           \A a \in AllCells(lib, lib.headers[i]) \ Patched(lib) :
                               data[a] = IF a \in FileCells(lib, lib.headers[i])
                                         THEN LibByte(i, a - SegmentStart(lib, lib.headers[i])) ELSE ZERO
                      /\ HasDynamic(lib) =>
                           \A k \in DOMAIN lib.relocs :
                             lib.relocs[k].type = "RELATIVE" =>
                               \A i \in Segments(lib) :
                                 lib.relocs[k].addend \in
                                     lib.headers[i].vaddr .. lib.headers[i].vaddr + lib.headers[i].filesz - 1 =>
                                   LET to == data[Place(lib, lib.relocs[k])][2]
                                   IN  data[to] = LibByte(i, lib.relocs[k].addend - lib.headers[i].vaddr) \/ to \in Patched(lib)
    BY DEF LibraryLinked
  <2>1. /\ lib \in Libraries /\ \A i \in Segments(lib) : LibSegmentInv(i)
        /\ \A k \in DOMAIN lib.relocs :
              Applied(k) => data[Place(lib, lib.relocs[k])] = Pointer(BaseAddr(lib) + lib.relocs[k].addend)
    BY <1>1 DEF StartInv, LinkInv, JustLoaded
  <2>2. \A k \in DOMAIN lib.relocs : Applied(k) => Place(lib, lib.relocs[k]) \in Patched(lib)
    BY DEF Applied, Patched
  <2>3. \A i \in Segments(lib) : \A a \in AllCells(lib, lib.headers[i]) :
           data[a] = Content(lib, i, a) \/ a \in Patched(lib)
    <3>1. \A i : InMemory(i)
      BY DEF InMemory
    <3> QED
      BY <2>1, <2>2, <3>1 DEF LibSegmentInv
  <2>4. ASSUME HasDynamic(lib), NEW k \in DOMAIN lib.relocs, lib.relocs[k].type = "RELATIVE", NEW i \in Segments(lib),
               lib.relocs[k].addend \in lib.headers[i].vaddr .. lib.headers[i].vaddr + lib.headers[i].filesz - 1,
               NEW to, to = data[Place(lib, lib.relocs[k])][2]
        PROVE  data[to] = LibByte(i, lib.relocs[k].addend - lib.headers[i].vaddr) \/ to \in Patched(lib)
    <3>1. PICK r, base : r = lib.relocs[k].addend /\ base = BaseAddr(lib) /\ base \in Nat
      BY <2>1, BaseFact
    <3>2. Applied(k)
      BY <2>4 DEF Applied
    <3>3. to = base + r
      <4>1. data[Place(lib, lib.relocs[k])] = Pointer(base + r)
        BY <2>1, <3>1, <3>2
      <4> QED
        BY <2>4, <4>1 DEF Pointer
    <3>4. PICK v \in Nat, f \in Nat, m \in Nat :
             v = lib.headers[i].vaddr /\ f = lib.headers[i].filesz /\ m = lib.headers[i].memsz /\ f <= m
      <4>1. Takes(lib.headers[i], PageOf(lib.headers[i].vaddr), Extent(lib.headers[i]))
        BY <2>1, LibrarySegment
      <4> QED
        BY <4>1 DEF Takes
    <3>5. r \in v .. v + f - 1
      BY <2>4, <3>1, <3>4
    <3>6. SegmentStart(lib, lib.headers[i]) = base + v
      BY <3>1, <3>4 DEF SegmentStart
    <3>7. to \in base + v .. base + v + f - 1 /\ to \in base + v .. base + v + m - 1 /\ to - (base + v) = r - v
      BY <3>1, <3>3, <3>4, <3>5
    <3>8. to \in FileCells(lib, lib.headers[i]) /\ to \in AllCells(lib, lib.headers[i])
      BY <3>4, <3>6, <3>7 DEF FileCells, AllCells
    <3>9. Content(lib, i, to) = LibByte(i, to - (base + v))
      BY <3>6, <3>8 DEF Content
    <3> QED
      BY <2>3, <3>1, <3>4, <3>7, <3>8, <3>9
  <2>5. \A i \in Segments(lib) : \A a \in AllCells(lib, lib.headers[i]) \ Patched(lib) :
           data[a] = IF a \in FileCells(lib, lib.headers[i])
                     THEN LibByte(i, a - SegmentStart(lib, lib.headers[i])) ELSE ZERO
    BY <2>3 DEF Content
  <2> QED
    BY <2>4, <2>5
<1> QED
  BY <1>1, StartInvariant, PTL

\* load_library brings the process down only for a segment in page 0, or for a
\* relocation in pages it has itself made read-only.
THEOREM LinkerFaultsAreTheseTwo == StartSpec => []LinkerFaults
<1>1. ASSUME StartInv PROVE LinkerFaults
  BY <1>1 DEF StartInv, LinkInv
<1> QED
  BY <1>1, StartInvariant, PTL
=============================================================================
