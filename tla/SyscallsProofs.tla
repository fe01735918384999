--------------------------- MODULE SyscallsProofs ---------------------------
(***************************************************************************)
(* Proofs about system calls, for every page size, arena, width of int and *)
(* every guest: any addresses, lengths, buffers and any number of calls.   *)
(***************************************************************************)
EXTENDS MCSyscalls, MemoryManagerProofs

-----------------------------------------------------------------------------
(* The inductive invariant                                                 *)

\* A call failed exactly if its handler's result is negative.
Answers(c) ==
    /\ c.result \in Int /\ c.result >= -ENOSYS /\ c.ok \in BOOLEAN
    /\ c.ok <=> c.result >= 0

ResultInv == Answers(last) /\ x0 = ToInt(last.result)

\* After an mmap the newest region is the one it mapped.
MapInv ==
    last.nr = 222 /\ last.ok =>
        /\ regions # <<>> /\ last.result = Last(regions).addr
        /\ last.result \in DOMAIN host /\ host[last.result] = Last(regions).perms

Needed(nr) == IF nr = 63 THEN "W" ELSE "R"

\* EFAULT is answered only for what check_perms refuses.
EfaultInv ==
    last.result = -EFAULT =>
        /\ last.buf \in Nat /\ last.len \in Nat
        /\ ~CheckPerms(last.buf, last.len, Needed(last.nr))

WholeInv == whole \in BOOLEAN /\ (whole => Agree(regions, host, refused))

CallsInv == SyscallTypeOK /\ ResultInv /\ MapInv /\ EfaultInv /\ WholeInv

-----------------------------------------------------------------------------
(* The width of int                                                        *)

LEMMA IntFact ==
    ASSUME NEW r \in Int
    PROVE  /\ ToInt(r) \in -(IntWord \div 2) .. IntWord \div 2 - 1
           /\ r \in -(IntWord \div 2) .. IntWord \div 2 - 1 => ToInt(r) = r
<1>1. PICK h \in Nat : h = IntWord \div 2 /\ IntWord = 2 * h /\ h > 38
  BY SyscallConstants
<1>2. IntWord \in Nat \ {0} /\ r + h \in Int
  BY <1>1, SyscallConstants
<1>3. (r + h) % IntWord \in 0..IntWord - 1
  BY <1>2, Division
<1>4. r \in -h .. h - 1 => (r + h) % IntWord = r + h
  BY <1>1, <1>2
<1>5. ToInt(r) = ((r + h) % IntWord) - h
  BY <1>1 DEF ToInt
<1>6. ToInt(r) \in -h .. h - 1
  BY <1>1, <1>3, <1>5
<1>7. r \in -h .. h - 1 => ToInt(r) = r
  BY <1>1, <1>4, <1>5
<1> QED
  BY <1>1, <1>6, <1>7

LEMMA CallFields ==
    ASSUME NEW nr, NEW ok, NEW result
    PROVE  /\ Call(nr, ok, result).nr = nr /\ Call(nr, ok, result).ok = ok
           /\ Call(nr, ok, result).result = result
BY DEF Call

-----------------------------------------------------------------------------
(* Steps                                                                   *)

\* The answer of a call that maps nothing and does not refuse a buffer.
Quiet(c) == Answers(c) /\ c.result # -EFAULT /\ ~(c.nr = 222 /\ c.ok)

Counters == input \in 0..Input /\ given \in 0..(Input - input)

RunTyped == run \in {"running", "exited", "died"}

LEMMA AnswerInv ==
    ASSUME MemTypeOK', RunTyped', Counters', WholeInv', MapInv', EfaultInv',
           NEW c, Answers(c), x0' = ToInt(c.result), last' = c
    PROVE  CallsInv'
<1>1. Answers(last)' /\ (x0 = ToInt(last.result))'
  BY DEF Answers
<1>2. x0' \in -(IntWord \div 2) .. IntWord \div 2 - 1
  BY IntFact DEF Answers
<1>3. SyscallTypeOK'
  BY <1>1, <1>2 DEF SyscallTypeOK, RunTyped, Counters, Answers
<1> QED
  BY <1>1, <1>3 DEF CallsInv, ResultInv

LEMMA QuietInv ==
    ASSUME MemTypeOK', RunTyped', Counters', WholeInv', NEW c, Quiet(c), x0' = ToInt(c.result), last' = c
    PROVE  CallsInv'
<1>1. ~(last'.nr = 222 /\ last'.ok) /\ last'.result # -EFAULT /\ Answers(c)
  BY Zenon DEF Quiet
<1>2. MapInv'
  BY <1>1, Zenon DEF MapInv
<1>3. EfaultInv'
  BY <1>1, Zenon DEF EfaultInv, EFAULT
<1> QED
  BY <1>1, <1>2, <1>3, AnswerInv

\* check_perms, of a list of regions.
CheckedBy(s, addr, len, needed) ==
    LET i == SelectInSeq(s, LAMBDA r : Holds(r, addr, len))
    IN  i # 0 /\ Allows(s[i].perms, needed)

LEMMA CheckedFact == \A b, l, n : CheckPerms(b, l, n) <=> CheckedBy(regions, b, l, n)
BY DEF CheckPerms, CheckedBy

LEMMA CheckedNext == (\A b, l, n : CheckPerms(b, l, n) <=> CheckedBy(regions, b, l, n))'
BY CheckedFact, PTL

LEMMA CheckSame ==
    ASSUME regions' = regions
    PROVE  \A b, l, n : CheckPerms(b, l, n)' <=> CheckPerms(b, l, n)
BY CheckedFact, CheckedNext, Zenon

\* A step that changes neither the memory nor the last call.
LEMMA SameInv ==
    ASSUME CallsInv, UNCHANGED <<regions, host, mmap_base, brk, x0, last, whole, refused>>,
           translated_pages' \subseteq AllPages, RunTyped', Counters'
    PROVE  CallsInv'
<1>1. SyscallTypeOK'
  BY DEF CallsInv, SyscallTypeOK, MemTypeOK, RunTyped, Counters
<1>2. ResultInv' /\ MapInv' /\ WholeInv'
  BY DEF CallsInv, ResultInv, Answers, MapInv, WholeInv
<1>3. EfaultInv'
  <2>1. last' = last /\ regions' = regions /\ EfaultInv
    BY DEF CallsInv
  <2>2. \A b, l, n : CheckPerms(b, l, n)' <=> CheckPerms(b, l, n)
    BY <2>1, CheckSame
  <2> QED
    BY <2>1, <2>2, Zenon DEF EfaultInv, EFAULT
<1> QED
  BY <1>1, <1>2, <1>3 DEF CallsInv

LEMMA MemorySame ==
    ASSUME CallsInv, UNCHANGED memVars, UNCHANGED ghosts
    PROVE  MemTypeOK' /\ WholeInv' /\ translated_pages' \subseteq AllPages
BY DEF CallsInv, SyscallTypeOK, MemTypeOK, memVars, WholeInv, ghosts

LEMMA CallTyped ==
    ASSUME CallsInv
    PROVE  MemTypeOK /\ RunTyped /\ Counters /\ whole \in BOOLEAN
BY DEF CallsInv, SyscallTypeOK, RunTyped, Counters, WholeInv

\* Answers that the handlers give without a buffer.
LEMMA QuietCall ==
    ASSUME NEW nr, NEW ok \in BOOLEAN, NEW result \in Int, ok <=> result >= 0,
           result \in {-1, -ENOMEM, -ENOSYS} \/ result >= 0, nr # 222 \/ ~ok
    PROVE  Quiet(Call(nr, ok, result))
<1>1. result >= -ENOSYS /\ result # -EFAULT
  BY DEF ENOMEM, ENOSYS, EFAULT
<1> QED
  <2>1. Call(nr, ok, result).nr = nr /\ Call(nr, ok, result).ok = ok /\ Call(nr, ok, result).result = result
    BY CallFields
  <2> QED
    BY <1>1, <2>1 DEF Quiet, Answers

LEMMA QuietSuccess ==
    ASSUME NEW nr, nr # 222, NEW result \in Nat
    PROVE  Quiet(Call(nr, TRUE, result))
<1>1. PICK ok \in BOOLEAN : ok = TRUE
  OBVIOUS
<1>2. result \in Int /\ (ok <=> result >= 0) /\ result >= 0
  BY <1>1
<1>3. Quiet(Call(nr, ok, result))
  BY <1>2, QuietCall, Zenon
<1> QED
  BY <1>1, <1>3, Zenon

LEMMA QuietFailure ==
    ASSUME NEW nr, NEW result \in {-1, -ENOMEM, -ENOSYS}
    PROVE  Quiet(Call(nr, FALSE, result))
<1>1. PICK ok \in BOOLEAN : ok = FALSE
  OBVIOUS
<1>2. result \in Int /\ (ok <=> result >= 0)
  BY <1>1 DEF ENOMEM, ENOSYS
<1>3. Quiet(Call(nr, ok, result))
  BY <1>1, <1>2, QuietCall, Zenon
<1> QED
  BY <1>1, <1>3, Zenon

\* What the kernel answers to a call of the emulator's.
LEMMA QuietOutcome ==
    ASSUME NEW nr, nr # 222, NEW result \in Int, result >= -1
    PROVE  Quiet(Call(nr, result # -1, result))
<1>1. PICK ok \in BOOLEAN : ok = (result # -1)
  OBVIOUS
<1>2. (ok <=> result >= 0) /\ (result \in {-1, -ENOMEM, -ENOSYS} \/ result >= 0)
  <2>1. result = -1 \/ result >= 0
    OBVIOUS
  <2>2. (result # -1) <=> result >= 0
    OBVIOUS
  <2> QED
    BY <1>1, <2>1, <2>2, Zenon
<1>3. Quiet(Call(nr, ok, result))
  BY <1>2, QuietCall, Zenon
<1> QED
  BY <1>1, <1>3, Zenon

\* A call that returns quietly and leaves the memory and the input alone.
LEMMA PlainCall ==
    ASSUME CallsInv, NEW c, Quiet(c), Return(c), UNCHANGED <<memVars, input, given>>, UNCHANGED ghosts
    PROVE  CallsInv'
<1>1. MemTypeOK' /\ WholeInv'
  BY MemorySame
<1>2. RunTyped' /\ Counters'
  BY CallTyped DEF Return, RunTyped, Counters
<1> QED
  BY <1>1, <1>2, QuietInv DEF Return

-----------------------------------------------------------------------------
(* The calls on memory                                                     *)

LEMMA MmapStep ==
    ASSUME CallsInv, NEW hint \in Nat, NEW len \in Nat, NEW prot \in SUBSET Prot,
           HandleMmap(hint, len, prot),
           whole' = (whole /\ IsFree(MmapAddr(RoundUp(len), hint).addr, RoundUp(len))),
           UNCHANGED refused
    PROVE  CallsInv'
<1> DEFINE z == RoundUp(len)
           ok == regions' # regions
<1>1. MemTypeOK /\ Mmap(len, prot, hint) /\ RunTyped' /\ Counters'
  BY CallTyped DEF HandleMmap, Return, RunTyped, Counters
<1>2. MemTypeOK'
  BY <1>1, MmapTyped
<1>3. PICK a \in Nat :
         /\ a = MmapAddr(z, hint).addr /\ a + z <= LastPage + PAGE_SIZE
         /\ \/ /\ KernelAccepts(a, z)
               /\ host' = KernelMaps(host, Pages(a, z), prot)
               /\ regions' = Append(regions, NewRegion(a, z, prot))
            \/ UNCHANGED <<host, regions>>
  BY <1>1, MmapFact, Zenon
<1>4. whole' => Agree(regions', host', refused)
  <2> SUFFICES ASSUME whole' PROVE Agree(regions', host', refused)
    OBVIOUS
  <2>1. Agree(regions, host, refused) /\ IsFree(a, z)
    BY <1>3, Zenon DEF CallsInv, WholeInv
  <2>2. \A i \in DOMAIN regions : a + z <= regions[i].addr \/ regions[i].addr + regions[i].size <= a
    BY <2>1, Zenon DEF IsFree
  <2> HIDE DEF z
  <2> QED
    BY <1>1, <1>3, <2>1, <2>2, MmapAgree DEF z
<1>5. WholeInv'
  BY <1>4, CallTyped DEF WholeInv, CallsInv
<1>6. ok => /\ regions' # <<>> /\ Last(regions').addr = a /\ Last(regions').perms = prot
            /\ a \in DOMAIN host' /\ host'[a] = prot
  <2> SUFFICES ASSUME ok PROVE /\ regions' # <<>> /\ Last(regions').addr = a /\ Last(regions').perms = prot
                               /\ a \in DOMAIN host' /\ host'[a] = prot
    OBVIOUS
  <2>1. /\ KernelAccepts(a, z) /\ host' = KernelMaps(host, Pages(a, z), prot)
        /\ regions' = Append(regions, NewRegion(a, z, prot))
    BY <1>3
  <2>2. z \in Nat /\ z >= PAGE_SIZE /\ PageAligned(a) /\ z > 0
    BY <2>1, RoundUpFact DEF KernelAccepts
  <2>3. a \in Pages(a, z)
    BY <1>3, <2>2, PageConstants DEF Pages, AllPages
  <2>4. a \in DOMAIN host' /\ host'[a] = prot
    BY <2>1, <2>3, Zenon DEF KernelMaps
  <2>5. regions \in Seq(MemRegion) /\ NewRegion(a, z, prot) \in MemRegion
    BY <1>1, <2>2, RegionsFact, NewRegionFact
  <2>6. regions' # <<>> /\ Last(regions') = NewRegion(a, z, prot)
    BY <2>1, <2>5 DEF Last
  <2>7. NewRegion(a, z, prot).addr = a /\ NewRegion(a, z, prot).perms = prot
    BY <2>2, NewRegionFact
  <2> QED
    BY <2>4, <2>6, <2>7
<1>6a. PICK b \in BOOLEAN : b = ok
  OBVIOUS
<1> DEFINE c == Call(222, b, MmapResult(b, a))
<1>7. Return(c)
  BY <1>3, <1>6a, ZenonT(60) DEF HandleMmap
<1>8. c.nr = 222 /\ c.ok = b /\ c.result = MmapResult(b, a)
  BY CallFields
<1>9. c.result \in Int /\ (c.ok <=> c.result >= 0) /\ c.result >= -ENOSYS /\ c.result # -EFAULT
  BY <1>8 DEF MmapResult, ENOMEM, ENOSYS, EFAULT
<1>10. Answers(c)
  BY <1>8, <1>9 DEF Answers
<1> HIDE DEF c
<1>11. last' = c /\ x0' = ToInt(c.result)
  BY <1>7 DEF Return
<1>12. EfaultInv'
  BY <1>9, <1>11, Zenon DEF EfaultInv, EFAULT
<1>13. MapInv'
  <2>1. c.ok => ok /\ c.result = a
    BY <1>8, <1>6a DEF MmapResult
  <2> QED
    BY <1>6, <1>11, <2>1 DEF MapInv
<1> QED
  BY <1>1, <1>2, <1>5, <1>10, <1>11, <1>12, <1>13, AnswerInv

LEMMA StatusCall ==
    ASSUME NEW nr, nr # 222, NEW ok \in BOOLEAN
    PROVE  Quiet(Call(nr, ok, Status(ok)))
<1>1. Status(ok) \in Int /\ (ok <=> Status(ok) >= 0) /\ Status(ok) \in {-1, 0}
  BY DEF Status
<1> QED
  BY <1>1, QuietCall DEF ENOMEM, ENOSYS

LEMMA MunmapStep ==
    ASSUME CallsInv, NEW addr \in Nat, NEW len \in Nat, NEW ok \in BOOLEAN, HandleMunmap(addr, len, ok),
           whole' = (whole /\ IsRegion(addr, len)), refused' = refused \ {addr}
    PROVE  CallsInv'
<1>1. MemTypeOK /\ Munmap(addr, len, ok) /\ RunTyped' /\ Counters'
  BY CallTyped DEF HandleMunmap, Return, RunTyped, Counters
<1>2. MemTypeOK'
  BY <1>1, MunmapTyped
<1>3. whole' => Agree(regions', host', refused \ {addr})
  BY <1>1, MunmapAgree DEF IsRegion, CallsInv, WholeInv
<1>4. WholeInv'
  BY <1>3, CallTyped DEF WholeInv
<1>5. Return(Call(215, ok, Status(ok)))
  BY DEF HandleMunmap
<1>6. Quiet(Call(215, ok, Status(ok)))
  BY StatusCall
<1> QED
  BY <1>1, <1>2, <1>4, <1>5, <1>6, QuietInv DEF Return

LEMMA MprotectStep ==
    ASSUME CallsInv, NEW addr \in Nat, NEW len \in Nat, NEW prot \in SUBSET Prot,
           NEW stop, HandleMprotect(addr, len, prot, stop), whole' = (whole /\ IsRegion(addr, len)),
           refused' = IF stop = addr + RoundUp(len) THEN refused \ {addr} ELSE refused \cup {addr}
    PROVE  CallsInv'
<1>1. MemTypeOK /\ Mprotect(addr, len, prot, stop) /\ RunTyped' /\ Counters'
  BY CallTyped DEF HandleMprotect, Return, RunTyped, Counters
<1>2. MemTypeOK'
  BY <1>1, MprotectTyped
<1>3. PICK Y : Y = refused' /\ Y = IF stop = addr + RoundUp(len) THEN refused \ {addr} ELSE refused \cup {addr}
  OBVIOUS
<1>3a. whole' => Agree(regions', host', Y)
  BY <1>1, <1>3, MprotectAgree DEF IsRegion, CallsInv, WholeInv
<1>4. WholeInv'
  BY <1>3, <1>3a, CallTyped DEF WholeInv
<1>5. PICK ok \in BOOLEAN : Return(Call(226, ok, Status(ok)))
  BY DEF HandleMprotect, PageAligned
<1>6. Quiet(Call(226, ok, Status(ok)))
  BY StatusCall
<1> QED
  BY <1>1, <1>2, <1>4, <1>5, <1>6, QuietInv DEF Return

LEMMA BrkStep ==
    ASSUME CallsInv, QueryBrk \/ (\E new \in Addrs : HandleBrk(new)), UNCHANGED ghosts
    PROVE  CallsInv'
<1>1. CASE QueryBrk
  <2>2. Quiet(Call(214, TRUE, brk))
    <3>1. PICK nr, r \in Nat : nr = 214 /\ nr # 222 /\ r = brk
      BY CallTyped DEF MemTypeOK
    <3>2. nr # 222
      BY <3>1
    <3>3. Quiet(Call(nr, TRUE, r))
      BY <3>2, QuietSuccess, Zenon
    <3> QED
      BY <3>1, <3>3
  <2> QED
    BY <1>1, <2>2, PlainCall DEF QueryBrk
<1>2. ASSUME NEW new \in Addrs, HandleBrk(new)
      PROVE  CallsInv'
  <2>1. new \in Nat /\ MemTypeOK
    BY CallConstants, CallTyped
  <2>2. SetBrk(new) /\ RunTyped' /\ Counters'
    BY <1>2, CallTyped DEF HandleBrk, Return, RunTyped, Counters
  <2>3. MemTypeOK' /\ WholeInv'
    BY <2>1, <2>2 DEF SetBrk, MemTypeOK, CallsInv, WholeInv, ghosts
  <2>4. PICK ok \in BOOLEAN : Return(Call(214, ok, Status(ok)))
    <3>1. PICK m \in Nat : m = mmap_base
      BY <2>1 DEF MemTypeOK
    <3>2. (new >= m) \in BOOLEAN
      BY <2>1
    <3> QED
      BY <1>2, <3>1, <3>2, Zenon DEF HandleBrk
  <2>5. Quiet(Call(214, ok, Status(ok)))
    BY StatusCall
  <2> QED
    BY <2>2, <2>3, <2>4, <2>5, QuietInv DEF Return
<1> QED
  BY <1>1, <1>2

LEMMA MremapStep ==
    ASSUME CallsInv, NEW old \in Nat, NEW oldLen \in Nat, NEW newLen \in Nat, NEW result \in Int,
           HandleMremap(old, oldLen, newLen, result), whole' = FALSE
    PROVE  CallsInv'
<1>1. MemTypeOK /\ Mremap(old, oldLen, newLen, result) /\ RunTyped' /\ Counters'
  BY CallTyped DEF HandleMremap, Return, RunTyped, Counters
<1>2. MemTypeOK' /\ (result = -1 \/ result \in Nat)
  BY <1>1, MremapTyped
<1>3. WholeInv'
  BY DEF WholeInv
<1>4. 216 # 222 /\ result \in Int /\ result >= -1
  BY <1>2
<1>5. Quiet(Call(216, result # -1, result))
  <2>1. PICK nr : nr = 216 /\ nr # 222
    OBVIOUS
  <2>2. nr # 222 /\ result \in Int /\ result >= -1
    BY <1>4, <2>1
  <2>3. Quiet(Call(nr, result # -1, result))
    BY <2>2, QuietOutcome, Zenon
  <2> QED
    BY <2>1, <2>3
<1>6. Return(Call(216, result # -1, result))
  BY DEF HandleMremap
<1> QED
  BY <1>1, <1>2, <1>3, <1>5, <1>6, QuietInv DEF Return

-----------------------------------------------------------------------------
(* read, write and the other calls                                         *)

\* A transfer whose buffer check_perms refuses.
LEMMA RefusedTransfer ==
    ASSUME CallsInv, UNCHANGED memVars, UNCHANGED ghosts, Counters', NEW nr, nr # 222,
           NEW buf \in Nat, NEW len \in Nat, ~CheckPerms(buf, len, Needed(nr)),
           Return(Transfer(nr, FALSE, -EFAULT, buf, len))
    PROVE  CallsInv'
<1>1. PICK c : c = Transfer(nr, FALSE, -EFAULT, buf, len)
  OBVIOUS
<1>2. c.nr = nr /\ c.ok = FALSE /\ c.result = -EFAULT /\ c.buf = buf /\ c.len = len
  BY <1>1 DEF Transfer, Call
<1>3. Answers(c)
  <2>1. c.result \in Int /\ c.result >= -ENOSYS /\ ~(c.result >= 0)
    BY <1>2 DEF EFAULT, ENOSYS
  <2> QED
    BY <1>2, <2>1, Zenon DEF Answers
<1>4. x0' = ToInt(c.result) /\ last' = c /\ RunTyped'
  BY <1>1, CallTyped DEF Return, RunTyped
<1>5. MapInv'
  BY <1>2, <1>4 DEF MapInv
<1>6. ~CheckPerms(buf, len, Needed(nr))'
  BY CheckSame DEF memVars
<1>7. EfaultInv'
  BY <1>2, <1>4, <1>6 DEF EfaultInv
<1> QED
  BY <1>3, <1>4, <1>5, <1>7, MemorySame, AnswerInv

LEMMA DyingCall ==
    ASSUME CallsInv, Dies, UNCHANGED memVars, UNCHANGED ghosts, Counters'
    PROVE  CallsInv'
<1>1. RunTyped'
  BY DEF Dies, RunTyped
<1>2. translated_pages' \subseteq AllPages
  BY MemorySame
<1> QED
  BY <1>1, <1>2, SameInv DEF Dies, memVars, ghosts

LEMMA NoBufferStep ==
    ASSUME CallsInv, NEW nr, NEW count, NoBuffer(nr, count), UNCHANGED ghosts
    PROVE  CallsInv'
<1>1. Quiet(Call(nr, FALSE, -ENOMEM))
  BY QuietFailure, Zenon
<1> QED
  BY <1>1, PlainCall DEF NoBuffer

LEMMA ReadStep ==
    ASSUME CallsInv, NEW buf \in Nat, NEW count \in Nat, HandleRead(buf, count), UNCHANGED ghosts
    PROVE  CallsInv'
<1>1. CASE ReadNothing(count)
  <2>1. PICK result \in {-1, 0} : Return(Call(63, result = 0, result))
    BY <1>1, Zenon DEF ReadNothing
  <2>2. 63 # 222 /\ result \in Int /\ result >= -1 /\ (result = 0) = (result # -1)
    OBVIOUS
  <2>3. Quiet(Call(63, result # -1, result)) /\ Return(Call(63, result # -1, result))
    BY <2>1, <2>2, QuietOutcome, ZenonT(60)
  <2> QED
    BY <1>1, <2>3, PlainCall DEF ReadNothing
<1>2. CASE ReadSome(buf, count)
  <2>1. UNCHANGED memVars
    BY <1>2 DEF ReadSome
  <2>2. PICK n \in 1..count :
         /\ n <= input
         /\ input' = input - n
         /\ \/ /\ ~CheckPerms(buf, n, "W")
               /\ Return(Transfer(63, FALSE, -EFAULT, buf, n)) /\ UNCHANGED given
            \/ Return(Call(63, TRUE, n)) /\ given' = given + n
            \/ Dies /\ UNCHANGED given
    BY <1>2, Zenon DEF ReadSome
  <2>3. n \in Nat /\ n > 0
    OBVIOUS
  <2>4. Counters /\ Input \in Nat
    BY CallTyped, SyscallConstants
  <2>5. given' = given \/ given' = given + n
    BY <2>2
  <2>6. Counters'
    BY <2>2, <2>3, <2>4, <2>5 DEF Counters
  <2>7. CASE ~CheckPerms(buf, n, "W") /\ Return(Transfer(63, FALSE, -EFAULT, buf, n))
    <3>1. Needed(63) = "W" /\ 63 # 222
      BY DEF Needed
    <3> QED
      BY <2>1, <2>3, <2>6, <2>7, <3>1, RefusedTransfer, ZenonT(60)
  <2>8. CASE Return(Call(63, TRUE, n))
    <3>1. Quiet(Call(63, TRUE, n))
      <4>1. 63 # 222
        OBVIOUS
      <4> QED
        BY <2>3, <4>1, QuietSuccess, ZenonT(60)
    <3>2. RunTyped'
      BY <2>8, CallTyped DEF Return, RunTyped
    <3> QED
      BY <2>1, <2>6, <2>8, <3>1, <3>2, MemorySame, QuietInv DEF Return
  <2>9. CASE Dies
    BY <2>1, <2>6, <2>9, DyingCall
  <2> QED
    BY <2>2, <2>7, <2>8, <2>9
<1> QED
  BY <1>1, <1>2, NoBufferStep DEF HandleRead

LEMMA WriteStep ==
    ASSUME CallsInv, NEW buf \in Nat, NEW count \in Nat, HandleWrite(buf, count), UNCHANGED ghosts
    PROVE  CallsInv'
<1>1. UNCHANGED <<memVars, input, given>>
  BY DEF HandleWrite, NoBuffer
<1>2. Counters'
  BY <1>1, CallTyped DEF Counters
<1>3. CASE ~CheckPerms(buf, count, "R") /\ Return(Transfer(64, FALSE, -EFAULT, buf, count))
  <2>1. Needed(64) = "R" /\ 64 # 222 /\ UNCHANGED memVars
    BY <1>1 DEF Needed
  <2> QED
    BY <1>2, <1>3, <2>1, RefusedTransfer, ZenonT(60)
<1>4. ASSUME NEW result \in -1..count, Return(Call(64, result # -1, result))
      PROVE  CallsInv'
  <2>1. 64 # 222 /\ result \in Int /\ result >= -1
    OBVIOUS
  <2>2. Quiet(Call(64, result # -1, result))
    BY <2>1, QuietOutcome, ZenonT(60)
  <2> QED
    BY <1>1, <1>4, <2>2, PlainCall
<1>5. CASE Dies
  BY <1>1, <1>2, <1>5, DyingCall
<1> QED
  BY <1>3, <1>4, <1>5, NoBufferStep DEF HandleWrite

LEMMA OtherStep ==
    ASSUME CallsInv, NEW nr \in Int, HandleUnknown(nr) \/ PassThrough(nr), UNCHANGED ghosts
    PROVE  CallsInv'
<1>1. CASE HandleUnknown(nr)
  <2>1. Quiet(Call(nr, FALSE, -ENOSYS))
    BY QuietFailure, Zenon
  <2> QED
    BY <1>1, <2>1, PlainCall DEF HandleUnknown
<1>2. CASE PassThrough(nr)
  <2>1. nr # 222 /\ UNCHANGED <<memVars, input, given>>
    BY <1>2 DEF PassThrough, Handled
  <2>2. PICK result \in {-1, 0} :
          Return([Call(nr, result # -1, result) EXCEPT !.asked = AskedOfKernel(nr)])
    BY <1>2, Zenon DEF PassThrough
  <2>3. PICK c : c = [Call(nr, result # -1, result) EXCEPT !.asked = AskedOfKernel(nr)]
    OBVIOUS
  <2>4. LET d == Call(nr, result # -1, result) IN c.nr = d.nr /\ c.result = d.result /\ c.ok = d.ok
    BY <2>3 DEF Call
  <2>5. Quiet(c)
    <3>1. result \in Int /\ result >= -1
      OBVIOUS
    <3>2. Quiet(Call(nr, result # -1, result))
      BY <2>1, <3>1, QuietOutcome, Zenon
    <3> QED
      BY <2>4, <3>2, Zenon DEF Quiet, Answers
  <2> QED
    BY <2>1, <2>2, <2>3, <2>5, PlainCall
<1> QED
  BY <1>1, <1>2

LEMMA ExitStep ==
    ASSUME CallsInv, NEW nr, nr # 222, NEW status \in Nat, HandleExit(nr, status), UNCHANGED ghosts
    PROVE  CallsInv'
<1>1. RunTyped' /\ Counters' /\ UNCHANGED memVars
  BY CallTyped DEF HandleExit, Counters, RunTyped
<1>2. Quiet(Call(nr, TRUE, status))
  BY QuietSuccess, Zenon
<1>3. PICK c : c = Call(nr, TRUE, status)
  OBVIOUS
<1>4. Call(nr, TRUE, status).result = status
  BY DEF Call
<1>5. last' = c /\ x0' = ToInt(c.result)
  BY <1>3, <1>4 DEF HandleExit
<1> QED
  BY <1>1, <1>2, <1>3, <1>5, MemorySame, QuietInv

LEMMA EndingStep ==
    ASSUME CallsInv, HandleRtSigreturn \/ (\E nr \in {93, 94}, status \in {0, 1} : HandleExit(nr, status)),
           UNCHANGED ghosts
    PROVE  CallsInv'
<1>1. CASE HandleRtSigreturn
  <2>1. Counters'
    BY <1>1, CallTyped DEF HandleRtSigreturn, Counters
  <2> QED
    BY <1>1, <2>1, DyingCall DEF HandleRtSigreturn
<1>2. ASSUME NEW nr \in {93, 94}, NEW status \in {0, 1}, HandleExit(nr, status)
      PROVE  CallsInv'
  BY <1>2, ExitStep
<1> QED
  BY <1>1, <1>2

LEMMA MarkStep ==
    ASSUME CallsInv, MarkPage
    PROVE  CallsInv'
<1>1. PICK entry \in Entries : PageOf(entry) \in DOMAIN host /\ MarkTranslated(entry)
  BY DEF MarkPage
<1>2. UNCHANGED <<regions, host, mmap_base, brk, x0, last, whole, refused, run, input, given>>
  BY <1>1 DEF MarkPage, MarkTranslated, callVars, ghosts
<1>3. translated_pages' \subseteq AllPages
  BY <1>1, CallTyped DEF MarkTranslated, MemTypeOK
<1>4. RunTyped' /\ Counters'
  BY <1>2, CallTyped DEF RunTyped, Counters
<1> QED
  BY <1>2, <1>3, <1>4, SameInv

-----------------------------------------------------------------------------
(* The specification                                                       *)

LEMMA CallsInit == MCInit => CallsInv
<1> SUFFICES ASSUME MCInit PROVE CallsInv
  OBVIOUS
<1>1. /\ regions = <<>> /\ host = [p \in {q \in AllPages : q >= Arena} |-> {"R", "W"}]
      /\ mmap_base = MmapStart /\ brk = MmapStart /\ translated_pages = {}
      /\ run = "running" /\ x0 = 0 /\ last = Call(0, TRUE, 0) /\ input = Input /\ given = 0 /\ whole = TRUE /\ refused = {}
  BY DEF MCInit, SyscallInit, MemInit
<1>2. DOMAIN host = {q \in AllPages : q >= Arena} /\ \A p \in DOMAIN host : host[p] \in SUBSET Prot
  BY <1>1 DEF Prot
<1>3. host \in [DOMAIN host -> SUBSET Prot]
  BY <1>1, <1>2
<1>4. MemTypeOK
  BY <1>1, <1>2, <1>3, PageConstants DEF MemTypeOK
<1>5. Quiet(last)
  <2>1. PICK z : z = 0 /\ z # 222 /\ z \in Nat
    OBVIOUS
  <2>2. Quiet(Call(z, TRUE, z))
    BY <2>1, QuietSuccess, Zenon
  <2> QED
    BY <1>1, <2>1, <2>2
<1>6. last.result = 0
  BY <1>1 DEF Call
<1>7. x0 \in -(IntWord \div 2) .. IntWord \div 2 - 1 /\ x0 = ToInt(last.result)
  <2>1. 0 \in -(IntWord \div 2) .. IntWord \div 2 - 1
    BY SyscallConstants
  <2>2. x0 = 0 /\ last.result \in Int /\ last.result \in -(IntWord \div 2) .. IntWord \div 2 - 1
    <3>1. x0 = 0
      BY <1>1, Zenon
    <3> QED
      BY <3>1, <1>6, <2>1
  <2>3. ToInt(last.result) = last.result
    BY <2>2, IntFact, Zenon
  <2> QED
    BY <1>6, <2>1, <2>2, <2>3
<1>8. SyscallTypeOK
  <2>1. last.result \in Int /\ last.ok \in BOOLEAN
    BY <1>5 DEF Quiet, Answers
  <2>2. input \in 0..Input /\ given \in 0..(Input - input)
    BY <1>1, SyscallConstants
  <2>3. run \in {"running", "exited", "died"}
    BY <1>1
  <2> QED
    BY <1>4, <1>7, <2>1, <2>2, <2>3, Zenon DEF SyscallTypeOK
<1>9. Agree(regions, host, refused)
  BY <1>1 DEF Agree
<1> QED
  BY <1>1, <1>5, <1>7, <1>8, <1>9 DEF CallsInv, ResultInv, MapInv, EfaultInv, WholeInv, Quiet

LEMMA CallsNext == CallsInv /\ [MCNext]_mcVars => CallsInv'
<1> SUFFICES ASSUME CallsInv, [MCNext]_mcVars PROVE CallsInv'
  OBVIOUS
<1>1. CASE MmapCall
  BY <1>1, MmapStep, CallConstants DEF MmapCall
<1>2. CASE MunmapCall
  BY <1>2, MunmapStep, CallConstants DEF MunmapCall
<1>3. CASE MprotectCall
  BY <1>3, MprotectStep, CallConstants DEF MprotectCall
<1>4. CASE BrkCall
  BY <1>4, BrkStep DEF BrkCall
<1>5. CASE MremapCall
  BY <1>5, MremapStep, CallConstants DEF MremapCall
<1>6. CASE ReadCall
  BY <1>6, ReadStep, CallConstants DEF ReadCall
<1>7. CASE WriteCall
  BY <1>7, WriteStep, CallConstants DEF WriteCall
<1>8. CASE OtherCall
  BY <1>8, OtherStep DEF OtherCall
<1>9. CASE EndingCall
  BY <1>9, EndingStep DEF EndingCall
<1>10. CASE MarkPage
  BY <1>10, MarkStep
<1>11. CASE UNCHANGED mcVars
  <2>1. UNCHANGED <<regions, host, mmap_base, brk, translated_pages, x0, last, whole, refused, run, input, given>>
    BY <1>11 DEF mcVars, memVars, callVars
  <2>2. translated_pages' \subseteq AllPages /\ RunTyped' /\ Counters'
    BY <2>1, CallTyped DEF RunTyped, Counters, MemTypeOK
  <2> QED
    BY <2>1, <2>2, SameInv
<1> QED
  BY <1>1, <1>2, <1>3, <1>4, <1>5, <1>6, <1>7, <1>8, <1>9, <1>10, <1>11 DEF MCNext, SystemCall, Ended

\* Whatever calls a guest makes, the region list, the host's pages and the last
\* answer keep the inductive invariant.
THEOREM CallsInvariant == CallsSpec => []CallsInv
BY CallsInit, CallsNext, PTL DEF CallsSpec

\* Type correctness of the system calls and of the memory manager under them.
THEOREM CallsTyped == CallsSpec => []SyscallTypeOK
<1>1. CallsInv => SyscallTypeOK
  BY DEF CallsInv
<1> QED
  BY <1>1, CallsInvariant, PTL

\* The guest sees a negative x0 exactly for the calls that failed, on every
\* error path of every handler, unless the handler's result does not fit an
\* int (ExecEngine::handle_syscall).
THEOREM FailuresReachGuest == CallsSpec => []FailureSeen
<1>1. CallsInv => FailureSeen
  <2> SUFFICES ASSUME CallsInv, last.result < IntWord \div 2 PROVE x0 < 0 <=> ~last.ok
    BY DEF FailureSeen
  <2>1. Answers(last) /\ x0 = ToInt(last.result)
    BY DEF CallsInv, ResultInv
  <2>2. last.result \in -(IntWord \div 2) .. IntWord \div 2 - 1
    BY <2>1, SyscallConstants DEF Answers, ENOSYS
  <2>3. x0 = last.result
    BY <2>1, <2>2, IntFact
  <2> QED
    BY <2>1, <2>3 DEF Answers
<1> QED
  BY <1>1, CallsInvariant, PTL

\* After a successful mmap the guest holds the address of the newest region,
\* and the host allows there what was asked for, as long as the address fits an
\* int; if it does not, the guest never gets it.
THEOREM MappingsUsable == CallsSpec => []MmapUsable
<1>1. CallsInv => MmapUsable
  <2> SUFFICES ASSUME CallsInv, last.nr = 222 /\ last.ok
               PROVE  IF last.result < IntWord \div 2
                      THEN /\ x0 = Last(regions).addr
                           /\ \A needed \in Last(regions).perms : HostAllows(x0, needed)
                      ELSE x0 # Last(regions).addr
    BY DEF MmapUsable
  <2>1. /\ last.result = Last(regions).addr
        /\ last.result \in DOMAIN host /\ host[last.result] = Last(regions).perms
    BY DEF CallsInv, MapInv
  <2>2. Answers(last) /\ x0 = ToInt(last.result)
    BY DEF CallsInv, ResultInv
  <2>3. CASE last.result < IntWord \div 2
    <3>1. last.result \in -(IntWord \div 2) .. IntWord \div 2 - 1
      BY <2>2, <2>3, SyscallConstants DEF Answers, ENOSYS
    <3>2. x0 = last.result
      BY <2>2, <3>1, IntFact
    <3>3. \A needed \in Last(regions).perms : HostAllows(x0, needed)
      BY <2>1, <3>2, Zenon DEF HostAllows, Allows
    <3> QED
      BY <2>1, <2>3, <3>2, <3>3
  <2>4. CASE ~(last.result < IntWord \div 2)
    <3>1. x0 \in -(IntWord \div 2) .. IntWord \div 2 - 1 /\ last.result \in Int
      BY <2>2, IntFact DEF Answers
    <3>2. x0 # last.result
      BY <2>4, <3>1, SyscallConstants
    <3> QED
      BY <2>1, <2>4, <3>2
  <2> QED
    BY <2>3, <2>4
<1> QED
  BY <1>1, CallsInvariant, PTL

\* For a guest that keeps to whole regions an access that check_perms lets
\* through does not fault, but in a region whose mprotect the kernel refused.
THEOREM WholeGuestsSafe == CallsSpec => []WholeRegionsSafe
<1>1. CallsInv => WholeRegionsSafe
  <2> SUFFICES ASSUME CallsInv, whole, NEW i \in DOMAIN regions, regions[i].addr \notin refused,
                      NEW addr \in regions[i].addr .. regions[i].addr + regions[i].size - 1,
                      NEW len \in 1..2, NEW needed,
                      CheckPerms(addr, len, needed), NEW p \in Touched(addr, len)
               PROVE  HostAllows(p, needed)
    BY Zenon DEF WholeRegionsSafe, AccessSafe
  <2>1. MemTypeOK /\ Agree(regions, host, refused)
    BY CallTyped DEF CallsInv, WholeInv
  <2>2. regions[i].addr \in Nat /\ regions[i].size \in Nat
    BY <2>1, RegionsFact
  <2>3. addr \in Nat /\ regions[i].addr <= addr /\ addr < regions[i].addr + regions[i].size
    BY <2>2
  <2>4. len \in Nat /\ len > 0
    OBVIOUS
  <2> QED
    BY <2>1, <2>3, <2>4, AgreeIsSafe
<1> QED
  BY <1>1, CallsInvariant, PTL

\* Where such a guest gets EFAULT for at least a byte in one region, the access
\* would have faulted: handle_read loses no input for a buffer that is good,
\* unless the region's mprotect was refused.
THEOREM EfaultIsDeserved == CallsSpec => []EfaultExplained
<1>1. CallsInv => EfaultExplained
  <2> SUFFICES ASSUME CallsInv, whole, last.result = -EFAULT, last.len > 0,
                      NEW i \in DOMAIN regions, Holds(regions[i], last.buf, last.len),
                      regions[i].addr \notin refused
               PROVE  \E p \in Touched(last.buf, last.len) : ~HostAllows(p, Needed(last.nr))
    BY Zenon DEF EfaultExplained, Needed
  <2>1. MemTypeOK /\ Agree(regions, host, refused)
    BY CallTyped DEF CallsInv, WholeInv
  <2>2. last.buf \in Nat /\ last.len \in Nat /\ ~CheckPerms(last.buf, last.len, Needed(last.nr))
    BY DEF CallsInv, EfaultInv
  <2> QED
    BY <2>1, <2>2, AgreeRefusal
<1> QED
  BY <1>1, CallsInvariant, PTL

-----------------------------------------------------------------------------
(* The bump pointer                                                        *)

LEMMA BumpSame ==
    ASSUME BumpInv, UNCHANGED <<regions, mmap_base>>
    PROVE  BumpInv'
BY DEF BumpInv, BumpRegionsDisjoint

LEMMA BumpNext ==
    ASSUME \A hint \in Hints : hint < MmapStart, CallsInv, BumpInv, [MCNext]_mcVars
    PROVE  BumpInv'
<1>1. MemTypeOK
  BY CallTyped
<1>2. CASE MmapCall
  BY <1>1, <1>2, MmapBump, CallConstants DEF MmapCall, HandleMmap
<1>3. CASE MunmapCall
  BY <1>1, <1>3, MunmapBump, CallConstants DEF MunmapCall, HandleMunmap
<1>4. CASE MprotectCall
  BY <1>1, <1>4, MprotectBump, CallConstants DEF MprotectCall, HandleMprotect
<1>5. CASE BrkCall
  BY <1>5, BumpSame DEF BrkCall, QueryBrk, HandleBrk, SetBrk, memVars
<1>6. CASE MremapCall
  BY <1>6, BumpSame DEF MremapCall, HandleMremap, Mremap
<1>7. CASE ReadCall
  BY <1>7, BumpSame DEF ReadCall, HandleRead, NoBuffer, ReadNothing, ReadSome, memVars
<1>8. CASE WriteCall
  BY <1>8, BumpSame DEF WriteCall, HandleWrite, NoBuffer, memVars
<1>9. CASE OtherCall
  BY <1>9, BumpSame DEF OtherCall, HandleUnknown, PassThrough, memVars
<1>10. CASE EndingCall
  BY <1>10, BumpSame DEF EndingCall, HandleRtSigreturn, HandleExit, memVars
<1>11. CASE MarkPage
  BY <1>11, BumpSame DEF MarkPage, MarkTranslated
<1>12. CASE UNCHANGED mcVars
  BY <1>12, BumpSame DEF mcVars, memVars
<1> QED
  BY <1>2, <1>3, <1>4, <1>5, <1>6, <1>7, <1>8, <1>9, <1>10, <1>11, <1>12 DEF MCNext, SystemCall, Ended

\* If no hint lies in the part of the arena the bump pointer hands out, mappings
\* without a hint never overlap: find_free_region need not look for free space.
THEOREM BumpNeverOverlaps ==
    ASSUME \A hint \in Hints : hint < MmapStart
    PROVE  CallsSpec => []BumpRegionsDisjoint
<1>1. MCInit => BumpInv
  BY PageConstants DEF MCInit, SyscallInit, MemInit, BumpInv, BumpRegionsDisjoint
<1>2. CallsInv /\ BumpInv /\ [MCNext]_mcVars => BumpInv'
  BY BumpNext
<1>3. BumpInv => BumpRegionsDisjoint
  BY DEF BumpInv
<1> QED
  BY <1>1, <1>2, <1>3, CallsInvariant, PTL DEF CallsSpec
=============================================================================
