------------------------ MODULE MemoryManagerProofs ------------------------
(***************************************************************************)
(* Lemmas about guest memory that the proofs about its users need: pages,  *)
(* the scans of the region list, and the kernel's page tables.             *)
(***************************************************************************)
EXTENDS MemoryManager, WellFoundedInduction, TLAPS

-----------------------------------------------------------------------------
(* Pages                                                                   *)

LEMMA PageConstants ==
    /\ PAGE_SIZE \in Nat /\ PAGE_SIZE > 0 /\ PAGE_SIZE \in Nat \ {0}
    /\ LastPage \in Nat /\ Arena \in Nat /\ MmapStart \in Nat
    /\ PageAligned(LastPage)
BY MemoryConstants DEF PageAligned

LEMMA Division ==
    ASSUME NEW P \in Nat \ {0}, NEW x \in Int
    PROVE  x \div P \in Int /\ x % P \in 0..P-1 /\ x = P * (x \div P) + (x % P)
OBVIOUS

LEMMA Remainder ==
    ASSUME NEW P \in Nat \ {0}, NEW x \in Int, NEW q \in Int, NEW r \in 0..P-1, x = P * q + r
    PROVE  x % P = r
OBVIOUS

LEMMA AlignedIsMultiple ==
    ASSUME NEW a \in Int
    PROVE  PageAligned(a) <=> \E q \in Int : a = PAGE_SIZE * q
<1>1. ASSUME PageAligned(a) PROVE \E q \in Int : a = PAGE_SIZE * q
  <2>1. a \div PAGE_SIZE \in Int /\ a = PAGE_SIZE * (a \div PAGE_SIZE) + (a % PAGE_SIZE)
    BY PageConstants, Division
  <2>2. a = PAGE_SIZE * (a \div PAGE_SIZE)
    BY <1>1, <2>1, PageConstants DEF PageAligned
  <2> QED
    BY <2>1, <2>2
<1>2. ASSUME NEW q \in Int, a = PAGE_SIZE * q PROVE PageAligned(a)
  <2>1. a = PAGE_SIZE * q + 0 /\ 0 \in 0..PAGE_SIZE-1
    BY <1>2, PageConstants
  <2> QED
    BY <2>1, PageConstants, Remainder DEF PageAligned
<1> QED
  BY <1>1, <1>2

LEMMA PageFact ==
    ASSUME NEW x \in Nat
    PROVE  /\ PageOf(x) \in Nat /\ PageOf(x) <= x /\ x < PageOf(x) + PAGE_SIZE
           /\ PageAligned(PageOf(x))
<1>1. PICK q \in Int, r \in 0..PAGE_SIZE-1 : x = PAGE_SIZE * q + r /\ x % PAGE_SIZE = r
  <2>1. x \in Int
    OBVIOUS
  <2> QED
    BY <2>1, PageConstants, Division, Zenon
<1>2. PageOf(x) = x - r
  BY <1>1 DEF PageOf
<1>3. PageOf(x) \in Int /\ PageOf(x) <= x /\ x < PageOf(x) + PAGE_SIZE
  BY <1>1, <1>2, PageConstants
<1>4. PageOf(x) = PAGE_SIZE * q
  BY <1>1, <1>2, PageConstants
<1>5. PageOf(x) >= 0
  <2>1. x % PAGE_SIZE <= x
    BY PageConstants
  <2> QED
    BY <1>1, <1>2, <2>1, PageConstants
<1> QED
  BY <1>1, <1>3, <1>4, <1>5, AlignedIsMultiple

LEMMA AlignedSum ==
    ASSUME NEW a \in Int, NEW b \in Int, PageAligned(a), PageAligned(b)
    PROVE  PageAligned(a + b) /\ PageAligned(b - a)
<1>1. PICK i \in Int, j \in Int : a = PAGE_SIZE * i /\ b = PAGE_SIZE * j
  BY AlignedIsMultiple
<1>2. a + b = PAGE_SIZE * (i + j) /\ b - a = PAGE_SIZE * (j - i) /\ i + j \in Int /\ j - i \in Int
  BY <1>1, PageConstants
<1> QED
  BY <1>2, AlignedIsMultiple

\* Between two multiples of the page size lies at least a page.
LEMMA AlignedGap ==
    ASSUME NEW a \in Int, NEW b \in Int, PageAligned(a), PageAligned(b), a < b
    PROVE  a + PAGE_SIZE <= b
<1>1. PICK q \in Int : b - a = PAGE_SIZE * q
  BY AlignedSum, AlignedIsMultiple
<1>2. q > 0
  BY <1>1, PageConstants
<1>3. PAGE_SIZE * q >= PAGE_SIZE
  BY <1>2, PageConstants
<1> QED
  BY <1>1, <1>3, PageConstants

\* An address at or behind an aligned one is in a page at or behind it.
LEMMA PageAbove ==
    ASSUME NEW a \in Nat, NEW b \in Nat, PageAligned(a), a <= b
    PROVE  a <= PageOf(b)
<1>1. /\ PageOf(b) \in Nat /\ PageOf(b) <= b /\ b < PageOf(b) + PAGE_SIZE
      /\ PageAligned(PageOf(b))
  BY PageFact
<1>2. CASE PageOf(b) < a
  <2>1. PageOf(b) + PAGE_SIZE <= a
    BY <1>1, <1>2, AlignedGap
  <2> QED
    BY <1>1, <2>1, PageConstants
<1> QED
  BY <1>1, <1>2

LEMMA RoundUpFact ==
    ASSUME NEW len \in Nat
    PROVE  /\ RoundUp(len) \in Nat /\ PageAligned(RoundUp(len)) /\ len <= RoundUp(len)
           /\ len = 0 => RoundUp(len) = 0
           /\ RoundUp(len) > 0 => RoundUp(len) >= PAGE_SIZE
<1>1. len + PAGE_SIZE - 1 \in Nat
  BY PageConstants
<1>2. /\ RoundUp(len) \in Nat /\ RoundUp(len) <= len + PAGE_SIZE - 1
      /\ len + PAGE_SIZE - 1 < RoundUp(len) + PAGE_SIZE /\ PageAligned(RoundUp(len))
  BY <1>1, PageFact DEF RoundUp
<1>3. len <= RoundUp(len)
  BY <1>2, PageConstants
<1>4. RoundUp(len) > 0 => 0 + PAGE_SIZE <= RoundUp(len)
  <2>1. PageAligned(0)
    BY PageConstants, AlignedIsMultiple
  <2> QED
    BY <1>2, <2>1, AlignedGap
<1>5. len = 0 => RoundUp(len) = 0
  BY <1>2, <1>4, PageConstants
<1> QED
  BY <1>2, <1>3, <1>4, <1>5, PageConstants

-----------------------------------------------------------------------------
(* Scans of the region list                                                *)

LEMMA LeastIndex ==
    ASSUME NEW T \in SUBSET Nat, T # {}
    PROVE  \E x \in T : \A y \in T : x <= y
<1>1. PICK x \in T : \A y \in T : ~(<<y, x>> \in OpToRel(<, Nat))
  BY WFMin, NatLessThanWellFounded
<1>2. \A y \in T : ~(y < x)
  BY <1>1, Zenon DEF OpToRel
<1> QED
  BY <1>2

LEMMA RegionsFact ==
    ASSUME MemTypeOK
    PROVE  /\ regions \in Seq(MemRegion) /\ Len(regions) \in Nat /\ DOMAIN regions = 1..Len(regions)
           /\ \A i \in DOMAIN regions :
                 /\ regions[i] \in MemRegion /\ regions[i].addr \in Nat /\ regions[i].size \in Nat
                 /\ regions[i].perms \in SUBSET Prot
<1>1. regions \in Seq(MemRegion)
  BY DEF MemTypeOK
<1>2. \A i \in DOMAIN regions : regions[i] \in MemRegion
  BY <1>1
<1>3. \A r \in MemRegion : r.addr \in Nat /\ r.size \in Nat /\ r.perms \in SUBSET Prot
  BY DEF MemRegion
<1>4. Len(regions) \in Nat /\ DOMAIN regions = 1..Len(regions)
  BY <1>1
<1> QED
  BY <1>1, <1>2, <1>3, <1>4

\* The first of the indexes in I, or 0.
LEMMA FirstIndex ==
    ASSUME NEW I \in SUBSET Nat
    PROVE  /\ I # {} => Min(I) \in I /\ \A j \in I : Min(I) <= j
BY LeastIndex DEF Min

\* check_perms answers as the first region that holds the access says.
LEMMA CheckFact ==
    ASSUME MemTypeOK, NEW addr, NEW len, NEW needed
    PROVE  CheckPerms(addr, len, needed) <=>
              \E i \in DOMAIN regions : /\ Holds(regions[i], addr, len)
                                        /\ Allows(regions[i].perms, needed)
                                        /\ \A j \in DOMAIN regions : Holds(regions[j], addr, len) => i <= j
<1>1. PICK I : I = {i \in 1..Len(regions) : Holds(regions[i], addr, len)}
  OBVIOUS
<1>2. SelectInSeq(regions, LAMBDA r : Holds(r, addr, len)) = IF I # {} THEN Min(I) ELSE 0
  BY <1>1 DEF SelectInSeq
<1>3. I \in SUBSET Nat /\ 0 \notin I /\ \A i : i \in I <=> i \in DOMAIN regions /\ Holds(regions[i], addr, len)
  BY <1>1, RegionsFact
<1>4. CheckPerms(addr, len, needed) <=> I # {} /\ Allows(regions[Min(I)].perms, needed)
  <2>1. I # {} => Min(I) # 0
    BY <1>3, FirstIndex
  <2> QED
    BY <1>2, <2>1 DEF CheckPerms
<1>5. ASSUME CheckPerms(addr, len, needed)
      PROVE  \E i \in DOMAIN regions : /\ Holds(regions[i], addr, len)
                                       /\ Allows(regions[i].perms, needed)
                                       /\ \A j \in DOMAIN regions : Holds(regions[j], addr, len) => i <= j
  BY <1>3, <1>4, <1>5, FirstIndex
<1>6. ASSUME NEW i \in DOMAIN regions, Holds(regions[i], addr, len), Allows(regions[i].perms, needed),
             \A j \in DOMAIN regions : Holds(regions[j], addr, len) => i <= j
      PROVE  CheckPerms(addr, len, needed)
  <2>1. i \in I /\ Min(I) \in I /\ Min(I) <= i /\ i <= Min(I)
    BY <1>3, <1>6, FirstIndex
  <2>2. i \in Nat /\ Min(I) \in Nat
    BY <1>3, <2>1
  <2>3. Min(I) = i
    BY <2>1, <2>2
  <2> QED
    BY <1>4, <1>6, <2>1, <2>3
<1> QED
  BY <1>5, <1>6

\* mprotect changes nothing of the list but the permissions of the first region
\* that starts at the address.
LEMMA ReprotectFact ==
    ASSUME MemTypeOK, NEW addr, NEW prot \in SUBSET Prot
    PROVE  LET r == Reprotect(addr, prot)
           IN  /\ r \in Seq(MemRegion) /\ DOMAIN r = DOMAIN regions
               /\ \A i \in DOMAIN regions :
                     /\ r[i].addr = regions[i].addr /\ r[i].size = regions[i].size
                     /\ r[i].perms = IF regions[i].addr = addr
                                        /\ \A j \in DOMAIN regions : regions[j].addr = addr => i <= j
                                     THEN prot ELSE regions[i].perms
<1> DEFINE First(i) == regions[i].addr = addr /\ \A j \in DOMAIN regions : regions[j].addr = addr => i <= j
<1>1. PICK I : I = {i \in 1..Len(regions) : regions[i].addr = addr}
  OBVIOUS
<1>2. SelectInSeq(regions, LAMBDA r : r.addr = addr) = IF I # {} THEN Min(I) ELSE 0
  BY <1>1 DEF SelectInSeq
<1>3. I \in SUBSET Nat /\ 0 \notin I /\ \A i : i \in I <=> i \in DOMAIN regions /\ regions[i].addr = addr
  BY <1>1, RegionsFact
<1>4. CASE I = {}
  <2>1. Reprotect(addr, prot) = regions
    BY <1>2, <1>4 DEF Reprotect
  <2>2. \A i \in DOMAIN regions : regions[i].addr # addr
    BY <1>3, <1>4
  <2> QED
    BY <2>1, <2>2, RegionsFact
<1>5. CASE I # {}
  <2>1. PICK m \in I : m = Min(I) /\ m # 0 /\ m \in DOMAIN regions /\ regions[m].addr = addr
                       /\ \A j \in I : m <= j
    BY <1>3, <1>5, FirstIndex
  <2>2. Reprotect(addr, prot) = [regions EXCEPT ![m].perms = prot]
    BY <1>2, <1>5, <2>1 DEF Reprotect
  <2>3. \A i \in DOMAIN regions : First(i) <=> i = m
    BY <1>3, <2>1, RegionsFact
  <2>4. [regions EXCEPT ![m].perms = prot] \in Seq(MemRegion)
    BY <2>1, RegionsFact DEF MemRegion
  <2>5. \A i \in DOMAIN regions :
          /\ [regions EXCEPT ![m].perms = prot][i].addr = regions[i].addr
          /\ [regions EXCEPT ![m].perms = prot][i].size = regions[i].size
          /\ [regions EXCEPT ![m].perms = prot][i].perms = IF i = m THEN prot ELSE regions[i].perms
    BY <2>1, RegionsFact DEF MemRegion
  <2> QED
    BY <2>2, <2>3, <2>4, <2>5
<1> QED
  BY <1>4, <1>5

-----------------------------------------------------------------------------
(* The regions munmap keeps                                                *)

\* g lists, for each i up to n, what the loop of munmap has kept of the first i
\* regions of s.
KeptBy(g, s, n, addr, size) ==
    g = [i \in 0..n |-> IF i = 0 THEN <<>>
                        ELSE IF StartsIn(s[i], addr, size) THEN g[i - 1]
                        ELSE Append(g[i - 1], s[i])]

LEMMA KeptExists ==
    ASSUME NEW s, NEW addr, NEW size, NEW n \in Nat
    PROVE  \E g : KeptBy(g, s, n, addr, size)
<1> DEFINE Bad == {m \in Nat : ~\E g : KeptBy(g, s, m, addr, size)}
<1> SUFFICES ASSUME Bad # {} PROVE FALSE
  OBVIOUS
<1>1. PICK m \in Bad : \A k \in Bad : m <= k
  BY LeastIndex
<1>2. m \in Nat /\ ~\E g : KeptBy(g, s, m, addr, size)
  BY <1>1
<1>3. CASE m = 0
  <2>1. KeptBy([i \in 0..0 |-> <<>>], s, 0, addr, size)
    BY DEF KeptBy
  <2> QED
    BY <1>2, <1>3, <2>1
<1>4. CASE m # 0
  <2>1. m - 1 \in Nat /\ m - 1 \notin Bad
    BY <1>1, <1>2, <1>4
  <2>2. PICK g : KeptBy(g, s, m - 1, addr, size)
    BY <2>1
  <2> DEFINE h == [i \in 0..m |-> IF i < m THEN g[i]
                                  ELSE IF StartsIn(s[m], addr, size) THEN g[m - 1]
                                  ELSE Append(g[m - 1], s[m])]
  <2>3. \A i \in 0..m : i = m \/ i \in 0..m - 1
    BY <1>2
  <2>4. \A i \in 0..m - 1 : h[i] = g[i]
    BY <1>2
  <2>5. \A i \in 0..m - 1 :
           h[i] = IF i = 0 THEN <<>> ELSE IF StartsIn(s[i], addr, size) THEN h[i - 1]
                  ELSE Append(h[i - 1], s[i])
    <3> SUFFICES ASSUME NEW i \in 0..m - 1
                 PROVE  h[i] = IF i = 0 THEN <<>> ELSE IF StartsIn(s[i], addr, size) THEN h[i - 1]
                               ELSE Append(h[i - 1], s[i])
      OBVIOUS
    <3>1. g[i] = IF i = 0 THEN <<>> ELSE IF StartsIn(s[i], addr, size) THEN g[i - 1]
                 ELSE Append(g[i - 1], s[i])
      BY <2>2 DEF KeptBy
    <3>2. i # 0 => i - 1 \in 0..m - 1
      BY <1>2
    <3> HIDE DEF h
    <3> QED
      BY <2>4, <3>1, <3>2
  <2>6. h[m] = IF m = 0 THEN <<>> ELSE IF StartsIn(s[m], addr, size) THEN h[m - 1]
               ELSE Append(h[m - 1], s[m])
    <3>1. m \in 0..m /\ ~(m < m) /\ m - 1 \in 0..m - 1
      BY <1>2, <1>4
    <3>2. h[m - 1] = g[m - 1]
      BY <2>4, <3>1
    <3>3. h[m] = IF StartsIn(s[m], addr, size) THEN g[m - 1] ELSE Append(g[m - 1], s[m])
      BY <3>1
    <3> HIDE DEF h
    <3> QED
      BY <1>4, <3>2, <3>3
  <2>7. h = [i \in 0..m |-> h[i]]
    OBVIOUS
  <2> HIDE DEF h
  <2>8. KeptBy(h, s, m, addr, size)
    BY <2>3, <2>5, <2>6, <2>7 DEF KeptBy
  <2> QED
    BY <1>2, <2>8
<1> QED
  BY <1>3, <1>4

\* idx picks the members of t from the first n of s, in their order, and none
\* that starts in the range.
PicksFrom(idx, t, s, n, addr, size) ==
    /\ idx \in [DOMAIN t -> 1..n]
    /\ \A k \in DOMAIN t : t[k] = s[idx[k]] /\ ~StartsIn(s[idx[k]], addr, size)
    /\ \A k, l \in DOMAIN t : k < l => idx[k] < idx[l]

LEMMA KeptPicks ==
    ASSUME NEW s \in Seq(MemRegion), NEW addr, NEW size, NEW g, KeptBy(g, s, Len(s), addr, size),
           NEW n \in 0..Len(s)
    PROVE  g[n] \in Seq(MemRegion) /\ \E idx : PicksFrom(idx, g[n], s, n, addr, size)
<1> DEFINE Good(m) == g[m] \in Seq(MemRegion) /\ \E idx : PicksFrom(idx, g[m], s, m, addr, size)
           Bad == {m \in 0..Len(s) : ~Good(m)}
<1> SUFFICES ASSUME Bad # {} PROVE FALSE
  OBVIOUS
<1>0. Len(s) \in Nat /\ DOMAIN s = 1..Len(s)
  OBVIOUS
<1>1. PICK m \in Bad : \A k \in Bad : m <= k
  <2>1. Bad \in SUBSET Nat
    BY <1>0
  <2> QED
    BY <2>1, LeastIndex
<1>2. m \in 0..Len(s) /\ ~Good(m)
  BY <1>1
<1>3. g[m] = IF m = 0 THEN <<>> ELSE IF StartsIn(s[m], addr, size) THEN g[m - 1]
             ELSE Append(g[m - 1], s[m])
  BY <1>2 DEF KeptBy
<1>4. CASE m = 0
  <2>1. g[0] = <<>>
    BY <1>3, <1>4, Zenon
  <2>2. DOMAIN <<>> = {} /\ <<>> \in Seq(MemRegion)
    OBVIOUS
  <2>3. PicksFrom([k \in {} |-> 1], <<>>, s, 0, addr, size)
    BY <2>2 DEF PicksFrom
  <2> QED
    BY <1>2, <1>4, <2>1, <2>2, <2>3
<1>5. CASE m # 0
  <2>1. m - 1 \in 0..Len(s) /\ m \in 1..Len(s) /\ ~(m <= m - 1)
    BY <1>0, <1>2, <1>5
  <2>2. PICK t, idx : t = g[m - 1] /\ t \in Seq(MemRegion) /\ PicksFrom(idx, t, s, m - 1, addr, size)
    <3>1. Good(m - 1)
      BY <1>1, <2>1
    <3> QED
      BY <3>1
  <2>3. CASE StartsIn(s[m], addr, size)
    <3>1. g[m] = t
      BY <1>3, <1>5, <2>2, <2>3
    <3>2. \A i \in 1..m - 1 : i \in 1..m
      BY <2>1
    <3>3. PicksFrom(idx, t, s, m, addr, size)
      BY <2>2, <3>2 DEF PicksFrom
    <3> QED
      BY <1>2, <2>2, <3>1, <3>3
  <2>4. CASE ~StartsIn(s[m], addr, size)
    <3>1. g[m] = Append(t, s[m]) /\ s[m] \in MemRegion
      BY <1>3, <1>5, <2>1, <2>2, <2>4
    <3>2. PICK c : c = Len(t) /\ c \in Nat /\ DOMAIN t = 1..c
      BY <2>2
    <3>3. PICK u : u = g[m] /\ u \in Seq(MemRegion) /\ DOMAIN u = 1..c + 1
                   /\ u[c + 1] = s[m] /\ \A k \in 1..c : u[k] = t[k]
      <4>1. PICK e : e = s[m] /\ e \in MemRegion
        BY <3>1
      <4>2. /\ Append(t, e) \in Seq(MemRegion) /\ Len(Append(t, e)) = c + 1
            /\ Append(t, e)[c + 1] = e /\ \A k \in 1..c : Append(t, e)[k] = t[k]
        BY <2>2, <3>2, <4>1
      <4>3. DOMAIN Append(t, e) = 1..c + 1
        BY <4>2
      <4> QED
        BY <3>1, <4>1, <4>2, <4>3, Zenon
    <3> DEFINE jdx == [k \in 1..c + 1 |-> IF k = c + 1 THEN m ELSE idx[k]]
    <3>4. \A k \in 1..c + 1 : k = c + 1 \/ k \in 1..c
      BY <3>2
    <3>5. jdx[c + 1] = m /\ \A k \in 1..c : jdx[k] = idx[k]
      BY <3>2
    <3>6. DOMAIN jdx = 1..c + 1 /\ jdx = [k \in 1..c + 1 |-> jdx[k]]
      OBVIOUS
    <3> HIDE DEF jdx
    <3>7. /\ \A k \in 1..c : idx[k] \in 1..m - 1 /\ t[k] = s[idx[k]] /\ ~StartsIn(s[idx[k]], addr, size)
          /\ \A k, l \in 1..c : k < l => idx[k] < idx[l]
      BY <2>2, <3>2 DEF PicksFrom
    <3>8. \A k \in 1..c : idx[k] \in 1..m /\ idx[k] < m
      BY <2>1, <3>7
    <3>9. \A k \in 1..c + 1 : jdx[k] \in 1..m
      BY <2>1, <3>4, <3>5, <3>8
    <3>10. jdx \in [DOMAIN u -> 1..m]
      BY <3>3, <3>6, <3>9
    <3>11. \A k \in DOMAIN u : u[k] = s[jdx[k]] /\ ~StartsIn(s[jdx[k]], addr, size)
      BY <2>4, <3>3, <3>4, <3>5, <3>7
    <3>12. ASSUME NEW k \in 1..c + 1, NEW l \in 1..c + 1, k < l PROVE jdx[k] < jdx[l]
      <4>1. k \in 1..c
        BY <3>2, <3>12
      <4> QED
        BY <3>4, <3>5, <3>7, <3>8, <3>12, <4>1
    <3>13. PicksFrom(jdx, u, s, m, addr, size)
      BY <3>3, <3>10, <3>11, <3>12 DEF PicksFrom
    <3> QED
      BY <1>2, <3>3, <3>13
  <2> QED
    BY <2>3, <2>4
<1> QED
  BY <1>4, <1>5

\* munmap keeps regions of the list, in their order, none of which starts in the
\* range.
LEMMA SurvivorsFact ==
    ASSUME MemTypeOK, NEW addr, NEW size
    PROVE  /\ Survivors(addr, size) \in Seq(MemRegion)
           /\ \E idx : PicksFrom(idx, Survivors(addr, size), regions, Len(regions), addr, size)
<1> DEFINE f == CHOOSE g : KeptBy(g, regions, Len(regions), addr, size)
<1>1. KeptBy(f, regions, Len(regions), addr, size)
  BY RegionsFact, KeptExists
<1>2. Survivors(addr, size) = f[Len(regions)]
  BY DEF Survivors, KeptBy
<1> HIDE DEF f
<1>3. Len(regions) \in 0..Len(regions) /\ regions \in Seq(MemRegion)
  BY RegionsFact
<1> QED
  BY <1>1, <1>2, <1>3, KeptPicks

-----------------------------------------------------------------------------
(* Types                                                                   *)

HostTyped(h) == DOMAIN h \subseteq AllPages /\ h \in [DOMAIN h -> SUBSET Prot]

LEMMA KernelTyped ==
    ASSUME NEW h, HostTyped(h), NEW pages \in SUBSET AllPages, NEW prot \in SUBSET Prot
    PROVE  /\ HostTyped(KernelMaps(h, pages, prot)) /\ HostTyped(KernelUnmaps(h, pages))
           /\ \A addr, size, stop : HostTyped(KernelProtects(h, addr, size, prot, stop))
<1>1. HostTyped(KernelMaps(h, pages, prot))
  BY DEF HostTyped, KernelMaps
<1>2. HostTyped(KernelUnmaps(h, pages))
  BY DEF HostTyped, KernelUnmaps
<1>3. ASSUME NEW addr, NEW size, NEW stop PROVE HostTyped(KernelProtects(h, addr, size, prot, stop))
  <2>1. PICK solid :
           \/ KernelProtects(h, addr, size, prot, stop) = [p \in DOMAIN h |-> IF p \in solid THEN prot ELSE h[p]]
           \/ KernelProtects(h, addr, size, prot, stop) = h
    BY DEF KernelProtects
  <2> QED
    BY <2>1 DEF HostTyped
<1> QED
  BY <1>1, <1>2, <1>3

LEMMA MmapAddrFact ==
    ASSUME MemTypeOK, NEW size \in Nat, NEW hint \in Nat
    PROVE  LET at == MmapAddr(size, hint)
           IN  /\ at.addr \in Nat /\ at.base \in Nat /\ at.base >= mmap_base
               /\ hint = 0 => at.addr = mmap_base /\ at.base = mmap_base + size
               /\ hint # 0 => at.addr = hint /\ at.base = mmap_base
BY DEF MemTypeOK, MmapAddr

\* What mmap does, without the records: a is the address, b the new bump pointer.
LEMMA MmapFact ==
    ASSUME MemTypeOK, NEW len \in Nat, NEW prot \in SUBSET Prot, NEW hint \in Nat, Mmap(len, prot, hint)
    PROVE  \E a, b \in Nat :
              /\ a = MmapAddr(RoundUp(len), hint).addr /\ a + RoundUp(len) <= LastPage + PAGE_SIZE
              /\ b >= mmap_base /\ mmap_base' = b
              /\ hint = 0 => a = mmap_base /\ b = mmap_base + RoundUp(len)
              /\ hint # 0 => a = hint
              /\ \/ /\ KernelAccepts(a, RoundUp(len))
                    /\ host' = KernelMaps(host, Pages(a, RoundUp(len)), prot)
                    /\ regions' = Append(regions, NewRegion(a, RoundUp(len), prot))
                 \/ UNCHANGED <<host, regions>>
              /\ UNCHANGED <<brk, translated_pages>>
<1>1. RoundUp(len) \in Nat
  BY RoundUpFact
<1>2. PICK at : at = MmapAddr(RoundUp(len), hint)
  OBVIOUS
<1>3. /\ at.addr \in Nat /\ at.base \in Nat /\ at.base >= mmap_base
      /\ hint = 0 => at.addr = mmap_base /\ at.base = mmap_base + RoundUp(len)
      /\ hint # 0 => at.addr = hint
  BY <1>1, <1>2, MmapAddrFact
<1>4. /\ at.addr + RoundUp(len) <= LastPage + PAGE_SIZE
      /\ mmap_base' = at.base
      /\ \/ /\ KernelAccepts(at.addr, RoundUp(len))
            /\ host' = KernelMaps(host, Pages(at.addr, RoundUp(len)), prot)
            /\ regions' = Append(regions, NewRegion(at.addr, RoundUp(len), prot))
         \/ UNCHANGED <<host, regions>>
      /\ UNCHANGED <<brk, translated_pages>>
  BY <1>2 DEF Mmap
<1> QED
  BY <1>2, <1>3, <1>4

LEMMA NewRegionFact ==
    ASSUME NEW a \in Nat, NEW size \in Nat, NEW prot \in SUBSET Prot
    PROVE  /\ NewRegion(a, size, prot) \in MemRegion
           /\ NewRegion(a, size, prot).addr = a /\ NewRegion(a, size, prot).size = size
           /\ NewRegion(a, size, prot).perms = prot
BY DEF NewRegion, MemRegion

LEMMA MmapTyped ==
    ASSUME MemTypeOK, NEW len \in Nat, NEW prot \in SUBSET Prot, NEW hint \in Nat, Mmap(len, prot, hint)
    PROVE  MemTypeOK'
<1>1. PICK a \in Nat, b \in Nat :
         /\ mmap_base' = b
         /\ \/ /\ host' = KernelMaps(host, Pages(a, RoundUp(len)), prot)
               /\ regions' = Append(regions, NewRegion(a, RoundUp(len), prot))
            \/ UNCHANGED <<host, regions>>
         /\ UNCHANGED <<brk, translated_pages>>
  BY MmapFact, ZenonT(60)
<1>2. NewRegion(a, RoundUp(len), prot) \in MemRegion /\ Pages(a, RoundUp(len)) \in SUBSET AllPages
  BY RoundUpFact, NewRegionFact DEF Pages
<1>3. HostTyped(host) /\ regions \in Seq(MemRegion)
  BY DEF MemTypeOK, HostTyped
<1>4. HostTyped(host')
  BY <1>1, <1>2, <1>3, KernelTyped
<1>5. regions' \in Seq(MemRegion)
  BY <1>1, <1>2, <1>3
<1> QED
  BY <1>1, <1>4, <1>5 DEF MemTypeOK, HostTyped

LEMMA MunmapTyped ==
    ASSUME MemTypeOK, NEW addr \in Nat, NEW len \in Nat, NEW ok, Munmap(addr, len, ok)
    PROVE  MemTypeOK'
<1>1. /\ regions' = Survivors(addr, RoundUp(len)) /\ UNCHANGED <<mmap_base, brk>>
      /\ translated_pages' \subseteq translated_pages
      /\ host' = KernelUnmaps(host, Pages(addr, RoundUp(len))) \/ host' = host
  BY DEF Munmap
<1>2. HostTyped(host) /\ Pages(addr, RoundUp(len)) \in SUBSET AllPages
  BY DEF MemTypeOK, HostTyped, Pages
<1>3. HostTyped(host')
  BY <1>1, <1>2, KernelTyped
<1>4. regions' \in Seq(MemRegion)
  BY <1>1, SurvivorsFact
<1> QED
  BY <1>1, <1>3, <1>4 DEF MemTypeOK, HostTyped

LEMMA MprotectTyped ==
    ASSUME MemTypeOK, NEW addr \in Nat, NEW len \in Nat, NEW prot \in SUBSET Prot, NEW stop,
           Mprotect(addr, len, prot, stop)
    PROVE  MemTypeOK'
<1>1. /\ regions' = Reprotect(addr, prot) /\ UNCHANGED <<mmap_base, brk, translated_pages>>
      /\ host' = KernelProtects(host, addr, len, prot, stop)
  BY DEF Mprotect
<1>2. HostTyped(host')
  BY <1>1, KernelTyped DEF MemTypeOK, HostTyped
<1>3. regions' \in Seq(MemRegion)
  BY <1>1, ReprotectFact
<1> QED
  BY <1>1, <1>2, <1>3 DEF MemTypeOK, HostTyped

LEMMA MremapTyped ==
    ASSUME MemTypeOK, NEW old \in Nat, NEW oldLen \in Nat, NEW newLen \in Nat, NEW result \in Int,
           Mremap(old, oldLen, newLen, result)
    PROVE  MemTypeOK' /\ (result = -1 \/ result \in Nat)
<1> DEFINE from == Pages(old, RoundUp(oldLen))
           to == Pages(result, RoundUp(newLen))
<1>1. HostTyped(host) /\ from \in SUBSET AllPages /\ to \in SUBSET AllPages /\ from \ to \in SUBSET AllPages
  BY DEF MemTypeOK, HostTyped, Pages
<1>2. \/ host' = host
      \/ host' = KernelUnmaps(host, from \ to)
      \/ /\ host' = KernelMaps(KernelUnmaps(host, from), to, host[old])
         /\ PageAligned(old) /\ from # {} /\ from \subseteq DOMAIN host
  BY DEF Mremap, KernelAccepts
<1>3. UNCHANGED <<regions, mmap_base, brk>> /\ translated_pages' = {} /\ (result = -1 \/ result \in AllPages)
  BY DEF Mremap
<1>4. ASSUME PageAligned(old), from # {}, from \subseteq DOMAIN host PROVE host[old] \in SUBSET Prot
  <2>1. PICK p \in AllPages : old <= p /\ p < old + RoundUp(oldLen)
    BY <1>4 DEF Pages
  <2>2. old \in AllPages /\ old < old + RoundUp(oldLen)
    BY <1>4, <2>1, PageConstants, RoundUpFact DEF AllPages
  <2>3. old \in from
    BY <2>2 DEF Pages
  <2> QED
    BY <1>1, <1>4, <2>3 DEF HostTyped
<1>5. HostTyped(host')
  <2>1. HostTyped(KernelUnmaps(host, from))
    BY <1>1, KernelTyped
  <2> QED
    BY <1>1, <1>2, <1>4, <2>1, KernelTyped
<1>6. AllPages \subseteq Nat
  BY DEF AllPages
<1> QED
  BY <1>3, <1>5, <1>6 DEF MemTypeOK, HostTyped

-----------------------------------------------------------------------------
(* The bump pointer                                                        *)

BumpInv == mmap_base >= MmapStart /\ BumpRegionsDisjoint

\* Region i came from the bump pointer, which stood at m at most when it did.
BumpAt(s, m) ==
    \A i, j \in DOMAIN s :
        s[i].addr >= MmapStart /\ s[j].addr >= MmapStart =>
            /\ s[i].addr + s[i].size <= m
            /\ i < j => s[i].addr + s[i].size <= s[j].addr

LEMMA BumpFact == BumpRegionsDisjoint <=> BumpAt(regions, mmap_base)
BY DEF BumpRegionsDisjoint, BumpAt

LEMMA MmapBump ==
    ASSUME MemTypeOK, BumpInv, NEW len \in Nat, NEW prot \in SUBSET Prot, NEW hint \in Nat,
           hint < MmapStart, Mmap(len, prot, hint)
    PROVE  BumpInv'
<1>0. PICK z \in Nat : z = RoundUp(len)
  BY RoundUpFact
<1>1. PICK a \in Nat, b \in Nat :
         /\ b >= mmap_base /\ mmap_base' = b
         /\ hint = 0 => a = mmap_base /\ b = mmap_base + z
         /\ hint # 0 => a = hint
         /\ \/ regions' = Append(regions, NewRegion(a, z, prot))
            \/ UNCHANGED regions
  <2>1. PICK a \in Nat, b \in Nat :
           /\ b >= mmap_base /\ mmap_base' = b
           /\ hint = 0 => a = mmap_base /\ b = mmap_base + RoundUp(len)
           /\ hint # 0 => a = hint
           /\ \/ /\ KernelAccepts(a, RoundUp(len))
                 /\ host' = KernelMaps(host, Pages(a, RoundUp(len)), prot)
                 /\ regions' = Append(regions, NewRegion(a, RoundUp(len), prot))
              \/ UNCHANGED <<host, regions>>
    BY MmapFact, Zenon
  <2> QED
    BY <1>0, <2>1, Zenon
<1>2. mmap_base \in Nat /\ MmapStart \in Nat /\ mmap_base >= MmapStart /\ BumpAt(regions, mmap_base)
  BY PageConstants, BumpFact DEF MemTypeOK, BumpInv
<1>3. b >= MmapStart
  BY <1>1, <1>2
<1>4. BumpAt(regions, b)
  <2>1. \A i \in DOMAIN regions : regions[i].addr \in Nat /\ regions[i].size \in Nat
    BY RegionsFact
  <2> QED
    BY <1>1, <1>2, <2>1 DEF BumpAt
<1>5. CASE UNCHANGED regions
  BY <1>1, <1>3, <1>4, <1>5, BumpFact DEF BumpInv, BumpRegionsDisjoint, BumpAt
<1>6. CASE regions' = Append(regions, NewRegion(a, z, prot))
  <2>1. PICK s, n, e : s = regions' /\ n = Len(regions) /\ e = NewRegion(a, z, prot)
    OBVIOUS
  <2>2. n \in Nat /\ DOMAIN regions = 1..n /\ regions \in Seq(MemRegion)
    BY <2>1, RegionsFact
  <2>3. e \in MemRegion /\ e.addr = a /\ e.size = z
    BY <2>1, NewRegionFact
  <2>4. s = Append(regions, e)
    BY <1>6, <2>1
  <2>5. DOMAIN s = 1..n + 1 /\ s[n + 1] = e /\ \A i \in 1..n : s[i] = regions[i]
    BY <2>1, <2>2, <2>3, <2>4
  <2>6. \A i \in 1..n + 1 : i = n + 1 \/ i \in 1..n
    BY <2>2
  <2>7. a >= MmapStart => a = mmap_base /\ b = a + z
    BY <1>1, <1>2
  <2>8. \A i \in 1..n : regions[i].addr \in Nat /\ regions[i].size \in Nat
    BY <2>2, RegionsFact
  <2>9. BumpAt(s, b)
    <3> SUFFICES ASSUME NEW i \in 1..n + 1, NEW j \in 1..n + 1, s[i].addr >= MmapStart, s[j].addr >= MmapStart
                 PROVE  s[i].addr + s[i].size <= b /\ (i < j => s[i].addr + s[i].size <= s[j].addr)
      BY <2>5 DEF BumpAt
    <3>1. CASE i = n + 1
      <4>1. ~(i < j) /\ s[i].addr = a /\ s[i].size = z
        BY <2>2, <2>3, <2>5, <3>1
      <4> QED
        BY <1>1, <2>7, <4>1
    <3>2. CASE i \in 1..n
      <4>1. s[i] = regions[i] /\ s[i].addr + s[i].size <= b /\ s[i].addr + s[i].size <= mmap_base
        BY <1>2, <1>4, <2>2, <2>5, <3>2 DEF BumpAt
      <4>2. CASE j = n + 1
        <5>1. s[j].addr = a
          BY <2>3, <2>5, <4>2
        <5> QED
          BY <2>7, <4>1, <5>1
      <4>3. CASE j \in 1..n
        <5>1. s[j] = regions[j]
          BY <2>5, <4>3
        <5> QED
          BY <1>4, <2>2, <3>2, <4>1, <4>3, <5>1 DEF BumpAt
      <4> QED
        BY <2>6, <4>2, <4>3
    <3> QED
      BY <2>6, <3>1, <3>2
  <2>10. BumpAt(regions, mmap_base)'
    BY <1>1, <2>1, <2>9 DEF BumpAt
  <2> QED
    BY <1>1, <1>3, <2>10, BumpFact DEF BumpInv, BumpRegionsDisjoint, BumpAt
<1> QED
  BY <1>1, <1>5, <1>6

LEMMA MunmapBump ==
    ASSUME MemTypeOK, BumpInv, NEW addr \in Nat, NEW len \in Nat, NEW ok, Munmap(addr, len, ok)
    PROVE  BumpInv'
<1>1. PICK t, idx : t = regions' /\ PicksFrom(idx, t, regions, Len(regions), addr, RoundUp(len))
  BY SurvivorsFact DEF Munmap
<1>2. BumpAt(regions, mmap_base)
  BY BumpFact DEF BumpInv
<1>3. \A k \in DOMAIN t : idx[k] \in DOMAIN regions /\ t[k] = regions[idx[k]]
  BY <1>1, RegionsFact DEF PicksFrom
<1>4. \A k, l \in DOMAIN t : k < l => idx[k] < idx[l]
  BY <1>1 DEF PicksFrom
<1>5. BumpAt(t, mmap_base)
  BY <1>2, <1>3, <1>4 DEF BumpAt
<1>6. mmap_base' = mmap_base
  BY DEF Munmap
<1>7. BumpAt(regions, mmap_base)'
  BY <1>1, <1>5, <1>6 DEF BumpAt
<1> QED
  BY <1>6, <1>7 DEF BumpInv, BumpRegionsDisjoint, BumpAt

LEMMA MprotectBump ==
    ASSUME MemTypeOK, BumpInv, NEW addr \in Nat, NEW len \in Nat, NEW prot \in SUBSET Prot, NEW stop,
           Mprotect(addr, len, prot, stop)
    PROVE  BumpInv'
<1>1. PICK t : t = regions' /\ t = Reprotect(addr, prot)
  BY DEF Mprotect
<1>2. DOMAIN t = DOMAIN regions /\ \A i \in DOMAIN regions : t[i].addr = regions[i].addr /\ t[i].size = regions[i].size
  BY <1>1, ReprotectFact
<1>3. BumpAt(t, mmap_base)
  BY <1>2, BumpFact DEF BumpInv, BumpAt
<1>4. mmap_base' = mmap_base
  BY DEF Mprotect
<1>5. BumpAt(regions, mmap_base)'
  BY <1>1, <1>3, <1>4 DEF BumpAt
<1> QED
  BY <1>4, <1>5 DEF BumpInv, BumpRegionsDisjoint, BumpAt

-----------------------------------------------------------------------------
(* The list and the page tables agree                                      *)

\* The pages of region r are mapped, with permissions in the set Q.
Backed(r, h, Q) ==
    /\ r.addr \in Nat /\ r.size \in Nat /\ r.size > 0
    /\ PageAligned(r.addr) /\ PageAligned(r.size) /\ r.addr + r.size <= LastPage + PAGE_SIZE
    /\ \A p \in Pages(r.addr, r.size) : p \in DOMAIN h /\ h[p] \in Q

Apart(r, q) == r.addr + r.size <= q.addr \/ q.addr + q.size <= r.addr

\* What the host may allow in region r: what r says, unless an mprotect of it
\* was refused; X are the starts of those.
May(r, X) == IF r.addr \in X THEN SUBSET Prot ELSE {r.perms}

Agree(s, h, X) ==
    \A i \in DOMAIN s : Backed(s[i], h, May(s[i], X)) /\ \A j \in DOMAIN s : i # j => Apart(s[i], s[j])

LEMMA ApartPages ==
    ASSUME NEW r, NEW q, r.addr \in Nat, r.size \in Nat, q.addr \in Nat, q.size \in Nat, Apart(r, q),
           NEW p \in Pages(r.addr, r.size)
    PROVE  p \notin Pages(q.addr, q.size)
BY DEF Apart, Pages, AllPages

\* The pages an access inside a region touches are pages of the region.
LEMMA TouchedFact ==
    ASSUME NEW r, NEW h, NEW Q, Backed(r, h, Q), NEW addr \in Nat, NEW len \in Nat, Holds(r, addr, len),
           NEW p \in Touched(addr, len)
    PROVE  p \in DOMAIN h /\ h[p] \in Q
<1>1. PICK a \in addr .. addr + len - 1 : p = PageOf(a)
  BY DEF Touched
<1>2. PICK x \in Nat, z \in Nat : x = r.addr /\ z = r.size /\ PageAligned(x) /\ PageAligned(z)
                                  /\ x + z <= LastPage + PAGE_SIZE
  BY DEF Backed
<1>3. a \in Nat /\ x <= a /\ a < x + z
  BY <1>1, <1>2 DEF Holds
<1>4. p \in Nat /\ p <= a /\ x <= p /\ PageAligned(p)
  BY <1>1, <1>2, <1>3, PageFact, PageAbove
<1>5. p <= LastPage
  <2>1. CASE LastPage < p
    <3>1. LastPage + PAGE_SIZE <= p
      BY <1>4, <2>1, PageConstants, AlignedGap
    <3> QED
      BY <1>2, <1>3, <1>4, <3>1, PageConstants
  <2> QED
    BY <1>4, <2>1, PageConstants
<1>6. p \in Pages(x, z)
  BY <1>2, <1>3, <1>4, <1>5, PageConstants DEF Pages, AllPages
<1> QED
  BY <1>2, <1>6 DEF Backed

LEMMA MmapAgree ==
    ASSUME MemTypeOK, NEW X, Agree(regions, host, X), NEW len \in Nat, NEW prot \in SUBSET Prot, NEW hint \in Nat,
           Mmap(len, prot, hint), NEW a, a = MmapAddr(RoundUp(len), hint).addr,
           \A i \in DOMAIN regions : a + RoundUp(len) <= regions[i].addr
                                     \/ regions[i].addr + regions[i].size <= a
    PROVE  Agree(regions', host', X)
<1>0. PICK z \in Nat : z = RoundUp(len) /\ PageAligned(z)
  BY RoundUpFact
<1>1. /\ a \in Nat /\ a + z <= LastPage + PAGE_SIZE
      /\ \/ /\ KernelAccepts(a, z)
            /\ host' = KernelMaps(host, Pages(a, z), prot)
            /\ regions' = Append(regions, NewRegion(a, z, prot))
         \/ UNCHANGED <<host, regions>>
  <2>1. PICK c \in Nat, b \in Nat :
           /\ c = MmapAddr(RoundUp(len), hint).addr /\ c + RoundUp(len) <= LastPage + PAGE_SIZE
           /\ \/ /\ KernelAccepts(c, RoundUp(len))
                 /\ host' = KernelMaps(host, Pages(c, RoundUp(len)), prot)
                 /\ regions' = Append(regions, NewRegion(c, RoundUp(len), prot))
              \/ UNCHANGED <<host, regions>>
    BY MmapFact, Zenon
  <2> QED
    BY <1>0, <2>1, Zenon
<1>2. CASE UNCHANGED <<host, regions>>
  BY <1>2
<1>3. CASE /\ KernelAccepts(a, z)
           /\ host' = KernelMaps(host, Pages(a, z), prot)
           /\ regions' = Append(regions, NewRegion(a, z, prot))
  <2>1. PICK s, h, n, e : s = regions' /\ h = host' /\ n = Len(regions) /\ e = NewRegion(a, z, prot)
    OBVIOUS
  <2>2. n \in Nat /\ DOMAIN regions = 1..n /\ regions \in Seq(MemRegion)
    BY <2>1, RegionsFact
  <2>3. e \in MemRegion /\ e.addr = a /\ e.size = z /\ e.perms = prot
    BY <1>1, <2>1, NewRegionFact
  <2>4. s = Append(regions, e)
    BY <1>3, <2>1
  <2>5. DOMAIN s = 1..n + 1 /\ s[n + 1] = e /\ \A i \in 1..n : s[i] = regions[i]
    BY <2>1, <2>2, <2>3, <2>4
  <2>6. \A i \in 1..n + 1 : i = n + 1 \/ i \in 1..n
    BY <2>2
  <2>7. h = [p \in DOMAIN host \cup Pages(a, z) |-> IF p \in Pages(a, z) THEN prot ELSE host[p]]
    BY <1>3, <2>1 DEF KernelMaps
  <2>8. Backed(e, h, May(e, X))
    <3>1. z > 0 /\ PageAligned(a)
      BY <1>3 DEF KernelAccepts
    <3>2. \A p \in Pages(a, z) : p \in DOMAIN h /\ h[p] = prot
      BY <2>7
    <3>3. prot \in May(e, X)
      BY <2>3 DEF May
    <3> QED
      BY <1>0, <1>1, <2>3, <3>1, <3>2, <3>3 DEF Backed
  <2>9. \A i \in 1..n : Apart(regions[i], e) /\ Apart(e, regions[i])
    BY <1>0, <2>2, <2>3 DEF Apart
  <2>10. \A i \in 1..n : Backed(regions[i], h, May(regions[i], X))
    <3> SUFFICES ASSUME NEW i \in 1..n PROVE Backed(regions[i], h, May(regions[i], X))
      OBVIOUS
    <3>1. Backed(regions[i], host, May(regions[i], X))
      BY <2>2 DEF Agree
    <3>2. \A p \in Pages(regions[i].addr, regions[i].size) : p \notin Pages(e.addr, e.size)
      BY <1>1, <2>3, <2>9, <3>1, ApartPages DEF Backed
    <3>3. \A p \in Pages(regions[i].addr, regions[i].size) : p \in DOMAIN h /\ h[p] \in May(regions[i], X)
      BY <2>3, <2>7, <3>1, <3>2 DEF Backed
    <3> QED
      BY <3>1, <3>3 DEF Backed
  <2>11. \A i, j \in 1..n : i # j => Apart(regions[i], regions[j])
    BY <2>2 DEF Agree
  <2>12. Agree(s, h, X)
    <3>1. \A i \in DOMAIN s : Backed(s[i], h, May(s[i], X))
      BY <2>5, <2>6, <2>8, <2>10
    <3>2. \A i, j \in DOMAIN s : i # j => Apart(s[i], s[j])
      BY <2>5, <2>6, <2>9, <2>11
    <3> QED
      BY <3>1, <3>2 DEF Agree
  <2> QED
    BY <2>1, <2>12
<1> QED
  BY <1>1, <1>2, <1>3

\* The start of a region in a list without overlaps names it.
LEMMA OneRegion ==
    ASSUME NEW X, Agree(regions, host, X), NEW i \in DOMAIN regions, NEW j \in DOMAIN regions,
           regions[i].addr >= regions[j].addr, regions[i].addr < regions[j].addr + regions[j].size
    PROVE  i = j
<1>1. /\ regions[i].addr \in Nat /\ regions[i].size \in Nat /\ regions[i].size > 0
      /\ regions[j].addr \in Nat /\ regions[j].size \in Nat
      /\ i # j => Apart(regions[i], regions[j])
  BY DEF Agree, Backed
<1> QED
  BY <1>1 DEF Apart

LEMMA MunmapAgree ==
    ASSUME MemTypeOK, NEW X, Agree(regions, host, X), NEW addr \in Nat, NEW len \in Nat, NEW ok,
           Munmap(addr, len, ok),
           NEW m \in DOMAIN regions, regions[m].addr = addr, regions[m].size = RoundUp(len)
    PROVE  Agree(regions', host', X \ {addr})
<1>1. PICK t, idx, h : t = regions' /\ h = host' /\ PicksFrom(idx, t, regions, Len(regions), addr, RoundUp(len))
  BY SurvivorsFact DEF Munmap
<1>2. \A k \in DOMAIN t : /\ idx[k] \in DOMAIN regions /\ idx[k] \in Int /\ t[k] = regions[idx[k]]
                          /\ ~StartsIn(regions[idx[k]], addr, RoundUp(len))
  BY <1>1, RegionsFact DEF PicksFrom
<1>3. \A k, l \in DOMAIN t : k # l => idx[k] # idx[l]
  <2>1. t \in Seq(MemRegion)
    BY <1>1, SurvivorsFact DEF Munmap
  <2>2. \A k, l \in DOMAIN t : k # l => k < l \/ l < k
    BY <2>1
  <2>3. \A k, l \in DOMAIN t : k < l => idx[k] < idx[l]
    BY <1>1 DEF PicksFrom
  <2> QED
    BY <1>2, <2>2, <2>3
<1>4. Backed(regions[m], host, May(regions[m], X))
  BY DEF Agree
<1>5. \A k \in DOMAIN t : idx[k] # m
  <2>1. StartsIn(regions[m], addr, RoundUp(len))
    BY <1>4 DEF StartsIn, Backed
  <2> QED
    BY <1>2, <2>1
<1>6. ASSUME NEW i \in DOMAIN regions, i # m PROVE Backed(regions[i], h, May(regions[i], X \ {addr}))
  <2>1. Backed(regions[i], host, May(regions[i], X)) /\ Apart(regions[i], regions[m])
    BY <1>6 DEF Agree
  <2>2. \A p \in Pages(regions[i].addr, regions[i].size) : p \notin Pages(addr, RoundUp(len))
    BY <1>4, <2>1, ApartPages DEF Backed
  <2>3. h = KernelUnmaps(host, Pages(addr, RoundUp(len))) \/ h = host
    BY <1>1 DEF Munmap
  <2>4. \A p \in DOMAIN host : p \notin Pages(addr, RoundUp(len)) => p \in DOMAIN h /\ h[p] = host[p]
    BY <2>3 DEF KernelUnmaps
  <2>5. May(regions[i], X) = May(regions[i], X \ {addr})
    <3>1. regions[i].addr # addr
      BY <1>4, <1>6, <2>1 DEF Backed, Apart
    <3> QED
      BY <3>1 DEF May
  <2> QED
    BY <2>1, <2>2, <2>4, <2>5 DEF Backed
<1>7. Agree(t, h, X \ {addr})
  <2>1. \A k \in DOMAIN t : Backed(t[k], h, May(t[k], X \ {addr}))
    BY <1>2, <1>5, <1>6
  <2>2. \A k, l \in DOMAIN t : k # l => Apart(t[k], t[l])
    BY <1>2, <1>3 DEF Agree
  <2> QED
    BY <2>1, <2>2 DEF Agree
<1> QED
  BY <1>1, <1>7

LEMMA MprotectAgree ==
    ASSUME MemTypeOK, NEW X, Agree(regions, host, X), NEW addr \in Nat, NEW len \in Nat, NEW prot \in SUBSET Prot,
           NEW stop, Mprotect(addr, len, prot, stop),
           NEW m \in DOMAIN regions, regions[m].addr = addr, regions[m].size = RoundUp(len),
           NEW Y, Y = IF stop = addr + RoundUp(len) THEN X \ {addr} ELSE X \cup {addr}
    PROVE  Agree(regions', host', Y)
<1>1. PICK t, h : t = regions' /\ h = host' /\ t = Reprotect(addr, prot)
  BY DEF Mprotect
<1>2. Backed(regions[m], host, May(regions[m], X)) /\ RoundUp(len) > 0
  BY DEF Agree, Backed
<1>3. \A j \in DOMAIN regions : regions[j].addr = addr => j = m
  <2> SUFFICES ASSUME NEW j \in DOMAIN regions, regions[j].addr = addr PROVE j = m
    OBVIOUS
  <2>1. regions[j].addr >= regions[m].addr /\ regions[j].addr < regions[m].addr + regions[m].size
    BY <1>2 DEF Backed
  <2> QED
    BY <2>1, OneRegion
<1>4. /\ DOMAIN t = DOMAIN regions
      /\ \A i \in DOMAIN regions :
            /\ t[i].addr = regions[i].addr /\ t[i].size = regions[i].size
            /\ t[i].perms = IF regions[i].addr = addr
                               /\ \A j \in DOMAIN regions : regions[j].addr = addr => i <= j
                            THEN prot ELSE regions[i].perms
  BY <1>1, ReprotectFact
<1>5. \A i \in DOMAIN regions : t[i].perms = IF i = m THEN prot ELSE regions[i].perms
  <2>1. \A i \in DOMAIN regions : i \in Int /\ i <= i
    BY RegionsFact
  <2> QED
    BY <1>3, <1>4, <2>1
<1>6. /\ DOMAIN h = DOMAIN host
      /\ \A p \in DOMAIN host : p \notin Pages(addr, RoundUp(len)) => h[p] = host[p]
      /\ \A p \in Pages(addr, RoundUp(len)) : h[p] \in SUBSET Prot
      /\ stop = addr + RoundUp(len) => \A p \in Pages(addr, RoundUp(len)) : h[p] = prot
  <2>1. len > 0 /\ PageAligned(addr)
    BY <1>2, RoundUpFact DEF Backed
  <2>2. \A q \in Pages(addr, RoundUp(len)) : q \in DOMAIN host
    BY <1>2 DEF Backed
  <2>3. PICK solid : solid = {p \in Pages(addr, RoundUp(len)) : p < stop
           /\ \A q \in Pages(addr, RoundUp(len)) : q <= p => q \in DOMAIN host}
    OBVIOUS
  <2>4. h = KernelProtects(host, addr, len, prot, stop)
    BY <1>1 DEF Mprotect
  <2>5. h = [p \in DOMAIN host |-> IF p \in solid THEN prot ELSE host[p]]
    BY <2>1, <2>3, <2>4 DEF KernelProtects, KernelAccepts
  <2>6. stop = addr + RoundUp(len) => solid = Pages(addr, RoundUp(len))
    BY <2>2, <2>3 DEF Pages
  <2>7. \A p \in DOMAIN host : host[p] \in SUBSET Prot
    BY DEF MemTypeOK
  <2>8. solid \subseteq Pages(addr, RoundUp(len))
    BY <2>3
  <2> QED
    BY <2>2, <2>5, <2>6, <2>7, <2>8
<1>7. ASSUME NEW i \in DOMAIN regions PROVE Backed(t[i], h, May(t[i], Y))
  <2>1. Backed(regions[i], host, May(regions[i], X))
    BY DEF Agree
  <2>2. CASE i = m
    <3>1. \A p \in Pages(addr, RoundUp(len)) : p \in DOMAIN h
      BY <1>2, <1>6 DEF Backed
    <3>2. t[i].perms = prot /\ t[i].addr = addr /\ t[i].size = RoundUp(len)
      BY <1>4, <1>5, <2>2
    <3>3. May(t[i], Y) = IF stop = addr + RoundUp(len) THEN {prot} ELSE SUBSET Prot
      BY <3>2 DEF May
    <3>4. \A p \in Pages(addr, RoundUp(len)) : h[p] \in May(t[i], Y)
      BY <1>6, <3>3
    <3> QED
      BY <2>1, <2>2, <3>1, <3>2, <3>4 DEF Backed
  <2>3. CASE i # m
    <3>1. Apart(regions[i], regions[m])
      BY <2>3 DEF Agree
    <3>2. \A p \in Pages(regions[i].addr, regions[i].size) : p \notin Pages(addr, RoundUp(len))
      BY <1>2, <2>1, <3>1, ApartPages DEF Backed
    <3>3. \A p \in Pages(regions[i].addr, regions[i].size) : p \in DOMAIN h /\ h[p] \in May(regions[i], X)
      BY <1>6, <2>1, <3>2 DEF Backed
    <3>4. t[i].perms = regions[i].perms /\ t[i].addr = regions[i].addr /\ t[i].size = regions[i].size
      BY <1>4, <1>5, <2>3
    <3>5. May(t[i], Y) = May(regions[i], X)
      <4>1. regions[i].addr # addr
        BY <1>3, <2>3
      <4> QED
        BY <3>4, <4>1 DEF May
    <3> QED
      BY <2>1, <3>3, <3>4, <3>5 DEF Backed
  <2> QED
    BY <2>2, <2>3
<1>8. Agree(t, h, Y)
  <2>1. \A i, j \in DOMAIN t : i # j => Apart(t[i], t[j])
    BY <1>4 DEF Agree, Apart
  <2> QED
    BY <1>4, <1>7, <2>1 DEF Agree
<1> QED
  BY <1>1, <1>8

\* What check_perms lets through does not fault while the two agree.
LEMMA AgreeIsSafe ==
    ASSUME MemTypeOK, NEW X, Agree(regions, host, X), NEW addr \in Nat, NEW len \in Nat, len > 0, NEW needed,
           CheckPerms(addr, len, needed), NEW p \in Touched(addr, len),
           NEW j \in DOMAIN regions, regions[j].addr <= addr, addr < regions[j].addr + regions[j].size,
           regions[j].addr \notin X
    PROVE  HostAllows(p, needed)
<1>1. PICK i \in DOMAIN regions : Holds(regions[i], addr, len) /\ Allows(regions[i].perms, needed)
  BY CheckFact
<1>2. i = j
  <2>1. /\ i # j => Apart(regions[i], regions[j])
        /\ regions[i].addr \in Nat /\ regions[i].size \in Nat /\ regions[j].addr \in Nat /\ regions[j].size \in Nat
    BY RegionsFact DEF Agree
  <2> QED
    BY <1>1, <2>1 DEF Apart, Holds
<1>3. Backed(regions[i], host, {regions[i].perms})
  BY <1>2 DEF Agree, May
<1>4. p \in DOMAIN host /\ host[p] = regions[i].perms
  BY <1>1, <1>3, TouchedFact
<1> QED
  BY <1>1, <1>4 DEF HostAllows

\* What it refuses, although a region holds it, would fault.
LEMMA AgreeRefusal ==
    ASSUME MemTypeOK, NEW X, Agree(regions, host, X), NEW addr \in Nat, NEW len \in Nat, len > 0, NEW needed,
           ~CheckPerms(addr, len, needed), NEW i \in DOMAIN regions, Holds(regions[i], addr, len),
           regions[i].addr \notin X
    PROVE  \E p \in Touched(addr, len) : ~HostAllows(p, needed)
<1>1. \A j \in DOMAIN regions : Holds(regions[j], addr, len) => j = i
  <2> SUFFICES ASSUME NEW j \in DOMAIN regions, Holds(regions[j], addr, len), i # j PROVE FALSE
    OBVIOUS
  <2>1. /\ Apart(regions[i], regions[j])
        /\ regions[i].addr \in Nat /\ regions[i].size \in Nat /\ regions[j].addr \in Nat /\ regions[j].size \in Nat
    BY RegionsFact DEF Agree
  <2> QED
    BY <2>1 DEF Apart, Holds
<1>2. ~Allows(regions[i].perms, needed)
  <2>1. i \in Int /\ i <= i
    BY RegionsFact
  <2> QED
    BY <1>1, <2>1, CheckFact
<1>3. PageOf(addr) \in Touched(addr, len)
  BY DEF Touched
<1>4. PageOf(addr) \in DOMAIN host /\ host[PageOf(addr)] = regions[i].perms
  <2>1. Backed(regions[i], host, {regions[i].perms})
    BY DEF Agree, May
  <2> QED
    BY <1>3, <2>1, TouchedFact
<1>5. ~HostAllows(PageOf(addr), needed)
  BY <1>2, <1>4 DEF HostAllows
<1> QED
  BY <1>3, <1>5
=============================================================================
