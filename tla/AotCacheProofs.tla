--------------------------- MODULE AotCacheProofs ---------------------------
(***************************************************************************)
(* Proofs about the AOT files, for any number of processes, programs,      *)
(* addresses, operations, kills and failing writes.                        *)
(***************************************************************************)
EXTENDS AotCache, SequenceTheorems, TLAPS

Block == [code : Seq(Nat) \ {<<>>}, count : Nat]

\* A process in the middle of save_aot_block or load_aot_block.
Job == [op : {"save", "load"}, block : Block \cup {NoBlock}, pc : PCs, next : 1..CODE,
        pos : Nat, got : Seq(Nat), whole : BOOLEAN]

\* Types, and what holds even of files with overlapping operations.
AotTypeOK ==
    /\ DOMAIN files \subseteq PCs
    /\ files \in [DOMAIN files -> Seq(Nat)]
    /\ proc \in [Procs -> Job \cup {Idle}]
    /\ saved \in [PCs -> Block \cup {NoBlock}]
    /\ damaged \in [PCs -> SUBSET (1..CODE)]
    /\ raced \subseteq PCs
    /\ \A p \in Procs :
          proc[p] # Idle =>
             /\ proc[p].pc \in DOMAIN files
             /\ proc[p].op = "save" => proc[p].block \in Blocks[proc[p].pc]
             /\ proc[p].op = "load" => proc[p].next >= 2

-----------------------------------------------------------------------------
(* Sequences                                                               *)

\* write at the end of a file appends.
LEMMA WriteAppends ==
    ASSUME NEW f \in Seq(Nat), NEW ws \in Seq(Nat)
    PROVE  /\ Overwritten(f, Len(f), ws) \in Seq(Nat)
           /\ Len(Overwritten(f, Len(f), ws)) = Len(f) + Len(ws)
           /\ \A k \in 1..Len(f) : Overwritten(f, Len(f), ws)[k] = f[k]
           /\ \A k \in 1..Len(ws) : Overwritten(f, Len(f), ws)[Len(f) + k] = ws[k]
<1> DEFINE end == Len(f) + Len(ws)
           g(k) == IF k \in Len(f) + 1 .. end THEN ws[k - Len(f)] ELSE IF k <= Len(f) THEN f[k] ELSE 0
<1>1. Len(f) \in Nat /\ Len(ws) \in Nat /\ end \in Nat
  OBVIOUS
<1>2. (IF end > Len(f) THEN end ELSE Len(f)) = end
  BY <1>1
<1>3. Overwritten(f, Len(f), ws) = [k \in 1..end |-> g(k)]
  BY <1>2 DEF Overwritten
<1>4. \A k \in 1..end : g(k) \in Nat
  OBVIOUS
<1>5. \A k \in 1..Len(f) : k \in 1..end /\ g(k) = f[k]
  BY <1>1
<1>6. \A k \in 1..Len(ws) : Len(f) + k \in 1..end /\ g(Len(f) + k) = ws[k]
  BY <1>1
<1> HIDE DEF g, end
<1> QED
  BY <1>1, <1>3, <1>4, <1>5, <1>6 DEF end

\* write anywhere leaves a sequence of words.
LEMMA WriteTyped ==
    ASSUME NEW f \in Seq(Nat), NEW ws \in Seq(Nat), NEW pos \in Nat
    PROVE  Overwritten(f, pos, ws) \in Seq(Nat)
<1> DEFINE end == pos + Len(ws)
           n == IF end > Len(f) THEN end ELSE Len(f)
           g(k) == IF k \in pos + 1 .. end THEN ws[k - pos] ELSE IF k <= Len(f) THEN f[k] ELSE 0
<1>1. n \in Nat /\ Len(f) \in Nat
  OBVIOUS
<1>2. \A k \in 1..n : g(k) \in Nat
  OBVIOUS
<1>3. Overwritten(f, pos, ws) = [k \in 1..n |-> g(k)]
  BY DEF Overwritten
<1> HIDE DEF g, n
<1> QED
  BY <1>1, <1>2, <1>3
\* read gives the words that are there, and is short at the end of the file.
LEMMA ReadFact ==
    ASSUME NEW f \in Seq(Nat), NEW pos \in Nat, NEW n \in Nat
    PROVE  /\ ReadAt(f, pos, n) \in Seq(Nat)
           /\ Len(ReadAt(f, pos, n)) \in 0..n
           /\ pos + n <= Len(f) => Len(ReadAt(f, pos, n)) = n
           /\ pos <= Len(f) /\ pos + n > Len(f) => Len(ReadAt(f, pos, n)) = Len(f) - pos
           /\ \A k \in 1..Len(ReadAt(f, pos, n)) : ReadAt(f, pos, n)[k] = f[pos + k]
<1> DEFINE last == IF pos + n <= Len(f) THEN pos + n ELSE Len(f)
           m == pos + 1
           words == SubSeq(f, m, last)
<1>1. /\ Len(f) \in Nat /\ last \in Nat /\ last <= Len(f) /\ last <= pos + n
      /\ pos + n <= Len(f) => last = pos + n
      /\ pos + n > Len(f) => last = Len(f)
  OBVIOUS
<1>2. ReadAt(f, pos, n) = words
  BY DEF ReadAt
<1>3. m \in Int /\ last \in Int /\ m = pos + 1
  BY <1>1
<1>4. \A i \in m .. last : f[i] \in Nat
  BY <1>1
<1> HIDE DEF last, m
<1>5. /\ words \in Seq(Nat)
      /\ Len(words) = IF m <= last THEN last - m + 1 ELSE 0
      /\ \A i \in 1 .. last - m + 1 : words[i] = f[m + i - 1]
  BY <1>3, <1>4
<1> HIDE DEF words
<1>6. Len(words) = IF pos <= last THEN last - pos ELSE 0
  BY <1>1, <1>3, <1>5
<1>7. \A k \in 1..Len(words) : words[k] = f[pos + k]
  <2> SUFFICES ASSUME NEW k \in 1..Len(words) PROVE words[k] = f[pos + k]
    OBVIOUS
  <2>1. k \in 1 .. last - m + 1 /\ m + k - 1 = pos + k
    BY <1>1, <1>3, <1>6
  <2> QED
    BY <1>5, <2>1
<1>8. /\ Len(words) \in 0..n
      /\ pos + n <= Len(f) => Len(words) = n
      /\ pos <= Len(f) /\ pos + n > Len(f) => Len(words) = Len(f) - pos
  BY <1>1, <1>6
<1> QED
  BY <1>2, <1>5, <1>7, <1>8

-----------------------------------------------------------------------------
(* What a file holds that one process wrote                                *)

\* Where the fields start in a file of which the header fields in W have been
\* written.
Start2(W) == IF 1 \in W THEN 1 ELSE 0
Start3(W) == Start2(W) + IF 2 \in W THEN 2 ELSE 0
Start4(W) == Start3(W) + IF 3 \in W THEN 1 ELSE 0
Start5(W) == Start4(W) + IF 4 \in W THEN 1 ELSE 0

\* The header fields in W and n words of code of block b, in a row.
Content(f, pc, b, W, n) ==
    /\ W \subseteq 1..4
    /\ n \in 0..Len(b.code)
    /\ Len(f) = Start5(W) + n
    /\ 1 \in W => f[1] = MAGIC
    /\ 2 \in W => f[Start2(W) + 1] = pc /\ f[Start2(W) + 2] = 0
    /\ 3 \in W => f[Start3(W) + 1] = Len(b.code)
    /\ 4 \in W => f[Start4(W) + 1] = b.count
    /\ \A k \in 1..n : f[Start5(W) + k] = b.code[k]

\* The fields follow one another.
LEMMA Starts ==
    ASSUME NEW W
    PROVE  /\ Start2(W) \in 0..1 /\ Start3(W) \in Start2(W) .. Start2(W) + 2
           /\ Start4(W) \in Start3(W) .. Start3(W) + 1
           /\ Start5(W) \in Start4(W) .. Start4(W) + 1
           /\ 1 \in W => Start2(W) = 1
           /\ 2 \in W => Start3(W) = Start2(W) + 2
           /\ 3 \in W => Start4(W) = Start3(W) + 1
           /\ 4 \in W => Start5(W) = Start4(W) + 1
           /\ 1 \notin W => Start2(W) = 0
           /\ 2 \notin W => Start3(W) = Start2(W)
           /\ 3 \notin W => Start4(W) = Start3(W)
           /\ 4 \notin W => Start5(W) = Start4(W)
BY DEF Start2, Start3, Start4, Start5

\* The written fields lie inside the header.
LEMMA FieldsInside ==
    ASSUME NEW W
    PROVE  /\ Start5(W) \in 0..5
           /\ 1 \in W => 1 \in 1..Start5(W)
           /\ 2 \in W => Start2(W) + 1 \in 1..Start5(W) /\ Start2(W) + 2 \in 1..Start5(W)
           /\ 3 \in W => Start3(W) + 1 \in 1..Start5(W)
           /\ 4 \in W => Start4(W) + 1 \in 1..Start5(W)
BY DEF Start2, Start3, Start4, Start5

\* A header field is written behind the ones before it.
LEMMA HeaderGrows ==
    ASSUME NEW f \in Seq(Nat), NEW pc, NEW b, Len(b.code) \in Nat, NEW W, NEW i \in 1..4,
           Content(f, pc, b, W, 0), W \subseteq 1..i - 1,
           NEW g, NEW ws, ws = Writes(pc, b)[i],
           Len(g) = Len(f) + Len(ws),
           \A k \in 1..Len(f) : g[k] = f[k],
           \A k \in 1..Len(ws) : g[Len(f) + k] = ws[k]
    PROVE  Content(g, pc, b, W \cup {i}, 0)
<1> DEFINE V == W \cup {i}
<1>1. V \subseteq 1..4 /\ W \subseteq 1..4
  BY DEF Content
<1>2. /\ Len(f) = Start5(W) /\ Len(f) \in Nat
      /\ 1 \in W => f[1] = MAGIC
      /\ 2 \in W => f[Start2(W) + 1] = pc /\ f[Start2(W) + 2] = 0
      /\ 3 \in W => f[Start3(W) + 1] = Len(b.code)
      /\ 4 \in W => f[Start4(W) + 1] = b.count
  BY Starts DEF Content
<1>3. SUFFICES /\ 1 \in V => g[1] = MAGIC
               /\ 2 \in V => g[Start2(V) + 1] = pc /\ g[Start2(V) + 2] = 0
               /\ 3 \in V => g[Start3(V) + 1] = Len(b.code)
               /\ 4 \in V => g[Start4(V) + 1] = b.count
               /\ Len(g) = Start5(V)
  <2>1. Start5(V) \in Nat
    BY Starts
  <2> QED
    BY <1>1, <1>3, <2>1 DEF Content
<1>4. CASE i = 1
  <2>1. 1 \notin W /\ 2 \notin W /\ 3 \notin W /\ 4 \notin W
    BY <1>4
  <2>2. ws = <<MAGIC>>
    BY <1>4 DEF Writes
  <2>3. 1 \in V /\ 2 \notin V /\ 3 \notin V /\ 4 \notin V
    BY <1>4, <2>1
  <2> HIDE DEF V
  <2>4. Start5(W) = 0 /\ Start5(V) = 1
    BY <2>1, <2>3 DEF Start2, Start3, Start4, Start5
  <2> QED
    BY <1>2, <2>2, <2>3, <2>4
<1>5. CASE i = 2
  <2>1. 2 \notin W /\ 3 \notin W /\ 4 \notin W
    BY <1>5
  <2>2. ws = <<pc, 0>>
    BY <1>5 DEF Writes
  <2>3. 2 \in V /\ 3 \notin V /\ 4 \notin V /\ (1 \in V <=> 1 \in W)
    BY <1>5, <2>1
  <2> HIDE DEF V
  <2>4. /\ Start2(V) = Start5(W) /\ Start5(V) = Start5(W) + 2
        /\ 1 \in V => Start5(W) = 1
    BY <2>1, <2>3 DEF Start2, Start3, Start4, Start5
  <2> QED
    BY <1>2, <2>2, <2>3, <2>4
<1>6. CASE i = 3
  <2>1. 3 \notin W /\ 4 \notin W
    BY <1>6
  <2>2. ws = <<Len(b.code)>>
    BY <1>6 DEF Writes
  <2>3. 3 \in V /\ 4 \notin V /\ (1 \in V <=> 1 \in W) /\ (2 \in V <=> 2 \in W)
    BY <1>6, <2>1
  <2> HIDE DEF V
  <2>4. /\ Start2(V) = Start2(W) /\ Start3(V) = Start5(W) /\ Start5(V) = Start5(W) + 1
        /\ 1 \in V => Start5(W) >= 1
        /\ 2 \in V => Start5(W) = Start2(W) + 2
        /\ Start2(W) \in Nat
    BY <2>1, <2>3 DEF Start2, Start3, Start4, Start5
  <2> QED
    BY <1>2, <2>2, <2>3, <2>4, SMTT(60)
<1>7. CASE i = 4
  <2>1. 4 \notin W
    BY <1>7
  <2>2. ws = <<b.count>>
    BY <1>7 DEF Writes
  <2>3. 4 \in V /\ (1 \in V <=> 1 \in W) /\ (2 \in V <=> 2 \in W) /\ (3 \in V <=> 3 \in W)
    BY <1>7
  <2> HIDE DEF V
  <2>4. /\ Start2(V) = Start2(W) /\ Start3(V) = Start3(W)
        /\ Start4(V) = Start5(W) /\ Start5(V) = Start5(W) + 1
        /\ 1 \in V => Start5(W) >= 1
        /\ 2 \in V => Start5(W) >= Start2(W) + 2
        /\ 3 \in V => Start5(W) >= Start3(W) + 1
        /\ Start2(W) \in Nat /\ Start3(W) \in Nat
    BY <2>1, <2>3 DEF Start2, Start3, Start4, Start5
  <2>5. Start5(V) = Len(g) /\ g[Start4(V) + 1] = b.count
    BY <1>2, <2>2, <2>4
  <2>6. \A k \in 1..Len(f) : g[k] = f[k]
    OBVIOUS
  <2>7. 1 \in V => g[1] = MAGIC
    BY <1>2, <2>3, <2>4, <2>6, SMTT(60)
  <2>8. 2 \in V => g[Start2(V) + 1] = pc /\ g[Start2(V) + 2] = 0
    BY <1>2, <2>3, <2>4, <2>6, FieldsInside, Zenon
  <2>9. 3 \in V => g[Start3(V) + 1] = Len(b.code)
    BY <1>2, <2>3, <2>4, <2>6, SMTT(60)
  <2> QED
    BY <2>5, <2>7, <2>8, <2>9
<1> QED
  BY <1>4, <1>5, <1>6, <1>7

\* The code, or a part of it, is written behind the header.
LEMMA CodeGrows ==
    ASSUME NEW f \in Seq(Nat), NEW pc, NEW b, Len(b.code) \in Nat, NEW W,
           Content(f, pc, b, W, 0),
           NEW g, NEW ws, Len(ws) \in 0..Len(b.code),
           \A k \in 1..Len(ws) : ws[k] = b.code[k],
           Len(g) = Len(f) + Len(ws),
           \A k \in 1..Len(f) : g[k] = f[k],
           \A k \in 1..Len(ws) : g[Len(f) + k] = ws[k]
    PROVE  Content(g, pc, b, W, Len(ws))
<1>1. /\ W \subseteq 1..4
      /\ Len(f) = Start5(W) /\ Len(f) \in Nat
      /\ 1 \in W => f[1] = MAGIC
      /\ 2 \in W => f[Start2(W) + 1] = pc /\ f[Start2(W) + 2] = 0
      /\ 3 \in W => f[Start3(W) + 1] = Len(b.code)
      /\ 4 \in W => f[Start4(W) + 1] = b.count
  BY Starts DEF Content
<1>2. /\ 1 \in W => 1 \in 1..Len(f)
      /\ 2 \in W => Start2(W) + 1 \in 1..Len(f) /\ Start2(W) + 2 \in 1..Len(f)
      /\ 3 \in W => Start3(W) + 1 \in 1..Len(f)
      /\ 4 \in W => Start4(W) + 1 \in 1..Len(f)
  BY <1>1, FieldsInside, Zenon
<1>3. /\ 1 \in W => g[1] = MAGIC
      /\ 2 \in W => g[Start2(W) + 1] = pc /\ g[Start2(W) + 2] = 0
      /\ 3 \in W => g[Start3(W) + 1] = Len(b.code)
      /\ 4 \in W => g[Start4(W) + 1] = b.count
  BY <1>1, <1>2, Zenon
<1>4. \A k \in 1..Len(ws) : g[Start5(W) + k] = b.code[k]
  BY <1>1
<1> QED
  BY <1>1, <1>3, <1>4 DEF Content
-----------------------------------------------------------------------------
(* What holds of the files without overlapping operations                  *)

Saves(p, pc) == proc[p].op = "save" /\ proc[p].pc = pc
Loads(p, pc) == proc[p].op = "load" /\ proc[p].pc = pc

\* The file holds some header fields and a part of the code of one block, and code
\* only behind all header fields but those whose write failed.  Once a save is
\* complete that is all of its block; during a save it is what has been written.
Held(pc, b, W, n) ==
    /\ Content(files[pc], pc, b, W, n)
    /\ n > 0 => W = (1..4) \ damaged[pc]
    /\ saved[pc] # NoBlock => saved[pc] = b /\ W = 1..4 /\ n = Len(b.code)
    /\ \A p \in Procs : Saves(p, pc) =>
          /\ proc[p].block = b /\ n = 0
          /\ W = (1..proc[p].next - 1) \ damaged[pc]
          /\ damaged[pc] \subseteq 1..proc[p].next - 1
          /\ proc[p].pos = Len(files[pc])
          /\ proc[p].whole <=> damaged[pc] = {}

FileInv(pc) ==
    \E b \in Blocks[pc], W \in SUBSET (1..4) : \E n \in 0..Len(b.code) : Held(pc, b, W, n)

\* A process that saves is the only one with the file open.
SavesAlone(pc) ==
    \A p, q \in Procs : Saves(p, pc) /\ (Saves(q, pc) \/ Loads(q, pc)) => p = q

\* The offset of each field in a complete file.
Offset == <<0, 1, 3, 4, 5>>

\* A process that loads has the words behind the magic number as far as the file
\* goes, and stands behind them.
LoadState(next, pos, got, f) ==
    /\ Len(f) >= 1 /\ f[1] = MAGIC
    /\ next \in 2..CODE
    /\ Len(got) = Offset[next] - 1
    /\ pos = IF Offset[next] <= Len(f) THEN Offset[next] ELSE Len(f)
    /\ \A k \in 1..Len(got) : k + 1 <= Len(f) => got[k] = f[k + 1]

Unraced(pc) ==
    /\ pc \in DOMAIN files => FileInv(pc)
    /\ SavesAlone(pc)
    /\ \A p \in Procs : Loads(p, pc) => LoadState(proc[p].next, proc[p].pos, proc[p].got, files[pc])

AotInv ==
    /\ AotTypeOK
    /\ \A pc \in PCs \ raced : Unraced(pc)
    /\ LoadsWholeBlocks

-----------------------------------------------------------------------------
(* Types                                                                   *)

LEMMA BlockFact ==
    ASSUME NEW pc \in PCs, NEW b \in Blocks[pc]
    PROVE  /\ b \in Block /\ b # NoBlock
           /\ b.code \in Seq(Nat) /\ Len(b.code) \in Nat \ {0} /\ b.count \in Nat
           /\ b = [code |-> b.code, count |-> b.count]
<1>1. b \in [code : Seq(Nat) \ {<<>>}, count : Nat]
  BY AotConstants
<1>2. b.code \in Seq(Nat) /\ b.code # <<>> /\ b.count \in Nat /\ b = [code |-> b.code, count |-> b.count]
  BY <1>1
<1>3. Len(b.code) # 0
  BY <1>2, EmptySeq
<1>4. b # NoBlock
  BY <1>2 DEF NoBlock
<1> QED
  BY <1>1, <1>2, <1>3, <1>4 DEF Block

\* The words of one call of write.
LEMMA WritesTyped ==
    ASSUME NEW pc \in PCs, NEW b \in Blocks[pc], NEW i \in 1..CODE
    PROVE  /\ Writes(pc, b)[i] \in Seq(Nat) /\ Len(Writes(pc, b)[i]) > 0
           /\ Writes(pc, b)[CODE] = b.code
<1>1. b.code \in Seq(Nat) /\ Len(b.code) \in Nat \ {0} /\ b.count \in Nat /\ pc \in Nat /\ MAGIC \in Nat
  BY BlockFact, AotConstants DEF MAGIC
<1>2. /\ Writes(pc, b)[1] = <<MAGIC>> /\ Writes(pc, b)[2] = <<pc, 0>>
      /\ Writes(pc, b)[3] = <<Len(b.code)>> /\ Writes(pc, b)[4] = <<b.count>>
      /\ Writes(pc, b)[5] = b.code
  BY DEF Writes
<1>3. \A x, y \in Nat : /\ <<x>> \in Seq(Nat) /\ Len(<<x>>) = 1
                        /\ <<x, y>> \in Seq(Nat) /\ Len(<<x, y>>) = 2
  OBVIOUS
<1>4. /\ <<MAGIC>> \in Seq(Nat) /\ Len(<<MAGIC>>) > 0
      /\ <<pc, 0>> \in Seq(Nat) /\ Len(<<pc, 0>>) > 0
      /\ <<Len(b.code)>> \in Seq(Nat) /\ Len(<<Len(b.code)>>) > 0
      /\ <<b.count>> \in Seq(Nat) /\ Len(<<b.count>>) > 0
  BY <1>1, <1>3
<1>5. Len(b.code) > 0
  BY <1>1
<1>6. i = 1 \/ i = 2 \/ i = 3 \/ i = 4 \/ i = 5
  BY DEF CODE
<1> QED
  BY <1>1, <1>2, <1>4, <1>5, <1>6, Zenon DEF CODE

\* The words a failing write leaves in the file.
LEMMA PrefixFact ==
    ASSUME NEW c \in Seq(Nat), NEW n \in 0..Len(c)
    PROVE  /\ SubSeq(c, 1, n) \in Seq(Nat)
           /\ Len(SubSeq(c, 1, n)) = n
           /\ \A k \in 1..n : SubSeq(c, 1, n)[k] = c[k]
<1>1. Len(c) \in Nat /\ n \in Nat /\ n <= Len(c)
  OBVIOUS
<1>2. \A k \in 1..n : c[k] \in Nat
  BY <1>1
<1> QED
  BY <1>1, <1>2

LEMMA IdleFact ==
    /\ Idle \notin Job
    /\ Idle.op = "idle"
BY DEF Idle, Job

LEMMA InitTyped == AotInit => AotInv
<1> SUFFICES ASSUME AotInit PROVE AotInv
  OBVIOUS
<1>1. \A p \in Procs : proc[p] = Idle /\ proc[p].op = "idle"
  BY IdleFact DEF AotInit
<1>2. DOMAIN files = {}
  BY DEF AotInit
<1>3. AotTypeOK
  BY <1>1, <1>2 DEF AotInit, AotTypeOK
<1>4. \A pc \in PCs : Unraced(pc)
  BY <1>1, <1>2 DEF Unraced, SavesAlone, Saves, Loads
<1>5. LoadsWholeBlocks
  BY DEF AotInit, LoadsWholeBlocks
<1> QED
  BY <1>3, <1>4, <1>5 DEF AotInv

-----------------------------------------------------------------------------
(* Steps                                                                   *)

\* What a process does with one file leaves the others as they were, and a process
\* that stops or is killed takes nothing with it.
LEMMA Framed ==
    ASSUME NEW pc \in PCs, Unraced(pc),
           pc \in DOMAIN files' => pc \in DOMAIN files,
           files'[pc] = files[pc], saved'[pc] = saved[pc], damaged'[pc] = damaged[pc],
           \A p \in Procs : Saves(p, pc)' \/ Loads(p, pc)' => proc'[p] = proc[p]
    PROVE  Unraced(pc)'
<1>1. \A p \in Procs : /\ Saves(p, pc)' => Saves(p, pc) /\ proc'[p] = proc[p]
                       /\ Loads(p, pc)' => Loads(p, pc) /\ proc'[p] = proc[p]
  BY DEF Saves, Loads
<1>2. SavesAlone(pc)'
  BY <1>1 DEF Unraced, SavesAlone
<1>3. \A p \in Procs : Loads(p, pc)' => LoadState(proc'[p].next, proc'[p].pos, proc'[p].got, files'[pc])
  BY <1>1 DEF Unraced
<1>4. ASSUME pc \in DOMAIN files' PROVE FileInv(pc)'
  <2>1. FileInv(pc)
    BY <1>4 DEF Unraced
  <2>2. PICK b \in Blocks[pc], W \in SUBSET (1..4) : \E n \in 0..Len(b.code) : Held(pc, b, W, n)
    BY <2>1 DEF FileInv
  <2>3. \A n \in 0..Len(b.code) : Held(pc, b, W, n) => Held(pc, b, W, n)'
    BY <1>1 DEF Held
  <2> QED
    BY <2>2, <2>3 DEF FileInv
<1> QED
  BY <1>2, <1>3, <1>4 DEF Unraced

LEMMA SaveOpenInv ==
    ASSUME AotInv, NEW p \in Procs, NEW pc \in PCs, NEW b \in Blocks[pc], SaveOpen(p, b, pc)
    PROVE  AotInv'
<1>1. proc[p] = Idle /\ proc' = [proc EXCEPT ![p] = Busy("save", b, pc)] /\ files' = Opened(pc)
      /\ saved' = [saved EXCEPT ![pc] = NoBlock] /\ damaged' = [damaged EXCEPT ![pc] = {}]
      /\ raced' = (IF Using(pc, {"save", "load"}) # {} THEN raced \cup {pc} ELSE raced \ {pc})
      /\ answer' = answer
  BY DEF SaveOpen
<1>2. AotTypeOK
  BY DEF AotInv
<1>3. /\ DOMAIN files' = DOMAIN files \cup {pc} /\ files'[pc] = <<>>
      /\ \A q \in DOMAIN files \ {pc} : files'[q] = files[q]
  BY <1>1 DEF Opened
<1>4. Busy("save", b, pc) \in Job
  BY BlockFact DEF Busy, Job, CODE
<1>5. /\ proc'[p] = Busy("save", b, pc) /\ \A q \in Procs \ {p} : proc'[q] = proc[q]
      /\ proc' \in [Procs -> Job \cup {Idle}]
  BY <1>1, <1>2, <1>4 DEF AotTypeOK
<1>6. /\ Busy("save", b, pc).op = "save" /\ Busy("save", b, pc).pc = pc
      /\ Busy("save", b, pc).block = b /\ Busy("save", b, pc).next = 1
      /\ Busy("save", b, pc).pos = 0 /\ Busy("save", b, pc).whole = TRUE
  BY DEF Busy
<1>7. AotTypeOK'
  <2>1. files' \in [DOMAIN files' -> Seq(Nat)]
    <3>1. \A q \in DOMAIN files \cup {pc} : (IF q = pc THEN <<>> ELSE files[q]) \in Seq(Nat)
      BY <1>2 DEF AotTypeOK
    <3> QED
      BY <1>1, <1>3, <3>1 DEF Opened
  <2>2. DOMAIN files' \subseteq PCs /\ raced' \subseteq PCs
    BY <1>1, <1>2, <1>3 DEF AotTypeOK
  <2>3. /\ saved' \in [PCs -> Block \cup {NoBlock}]
        /\ damaged' \in [PCs -> SUBSET (1..CODE)]
    BY <1>1, <1>2 DEF AotTypeOK
  <2>4. ASSUME NEW q \in Procs, proc'[q] # Idle
        PROVE  /\ proc'[q].pc \in DOMAIN files'
               /\ proc'[q].op = "save" => proc'[q].block \in Blocks[proc'[q].pc]
               /\ proc'[q].op = "load" => proc'[q].next >= 2
    BY <1>2, <1>3, <1>5, <1>6, <2>4 DEF AotTypeOK
  <2> QED
    BY <1>5, <2>1, <2>2, <2>3, <2>4 DEF AotTypeOK
<1>8. ASSUME NEW q \in PCs \ raced', q # pc
      PROVE  Unraced(q)'
  <2>1. q \notin raced /\ Unraced(q)
    BY <1>1, <1>8 DEF AotInv
  <2>2. /\ q \in DOMAIN files' => q \in DOMAIN files
        /\ saved'[q] = saved[q] /\ damaged'[q] = damaged[q]
    BY <1>1, <1>2, <1>3, <1>8 DEF AotTypeOK
  <2>3. \A r \in Procs : Saves(r, q)' \/ Loads(r, q)' => proc'[r] = proc[r]
    BY <1>5, <1>6, <1>8 DEF Saves, Loads
  <2>4. CASE q \in DOMAIN files
    BY <1>3, <1>8, <2>1, <2>2, <2>3, <2>4, Framed
  <2>5. CASE q \notin DOMAIN files
    <3>1. \A r \in Procs : ~ Saves(r, q)' /\ ~ Loads(r, q)'
      BY <1>2, <2>3, <2>5, IdleFact DEF Saves, Loads, AotTypeOK
    <3> QED
      BY <2>2, <2>5, <3>1 DEF Unraced, SavesAlone
  <2> QED
    BY <2>4, <2>5
<1>9. ASSUME pc \notin raced'
      PROVE  Unraced(pc)'
  <2>1. \A q \in Procs : ~ Saves(q, pc) /\ ~ Loads(q, pc)
    BY <1>1, <1>9 DEF Using, Saves, Loads
  <2>2. \A q \in Procs : /\ Saves(q, pc)' => q = p
                         /\ ~ Loads(q, pc)'
    BY <1>5, <1>6, <2>1 DEF Saves, Loads
  <2>3. FileInv(pc)'
    <3>1. Content(<<>>, pc, b, {}, 0)
      BY BlockFact DEF Content, Start2, Start3, Start4, Start5
    <3>2. saved'[pc] = NoBlock /\ damaged'[pc] = {}
      BY <1>1, <1>2 DEF AotTypeOK
    <3>3. \A q \in Procs : Saves(q, pc)' =>
             /\ proc'[q].block = b /\ proc'[q].next = 1 /\ proc'[q].pos = 0 /\ proc'[q].whole = TRUE
      BY <1>5, <1>6, <2>2
    <3>4. Len(<<>>) = 0 /\ 1..1 - 1 = {} /\ 0 \in 0..Len(b.code)
      BY BlockFact
    <3>5. Held(pc, b, {}, 0)'
      BY <1>3, <3>1, <3>2, <3>3, <3>4 DEF Held
    <3> QED
      BY <3>4, <3>5 DEF FileInv
  <2> QED
    BY <2>2, <2>3 DEF Unraced, SavesAlone
<1>10. LoadsWholeBlocks'
  BY <1>1 DEF AotInv, LoadsWholeBlocks
<1> QED
  BY <1>7, <1>8, <1>9, <1>10 DEF AotInv

LEMMA BusyFact ==
    ASSUME AotTypeOK, NEW p \in Procs, proc[p].op \in {"save", "load"}
    PROVE  /\ proc[p] \in Job /\ proc[p] # Idle
           /\ proc[p].pc \in PCs /\ proc[p].pc \in DOMAIN files /\ files[proc[p].pc] \in Seq(Nat)
           /\ proc[p].next \in 1..CODE /\ proc[p].pos \in Nat /\ proc[p].got \in Seq(Nat)
           /\ proc[p].whole \in BOOLEAN
           /\ proc[p].op = "save" => proc[p].block \in Blocks[proc[p].pc]
<1>1. proc[p] # Idle
  BY IdleFact
<1>2. proc[p] \in Job
  BY <1>1 DEF AotTypeOK
<1> QED
  BY <1>1, <1>2 DEF AotTypeOK, Job

\* What the other writes may be: a header field whole or not at all, the code
\* perhaps in part.
Written(s, ws) ==
    LET all == Writes(s.pc, s.block)[s.next]
    IN /\ ws \in Seq(Nat)
       /\ Len(ws) \in 0..Len(all)
       /\ \A k \in 1..Len(ws) : ws[k] = all[k]
       /\ ws = all <=> Len(ws) = Len(all)
       /\ s.next < CODE => ws = all \/ ws = <<>>

\* What a write does to the state.
WriteEffect(p, ws, pc, b, i, all) ==
    /\ proc[p].op = "save" /\ pc \in PCs /\ b \in Blocks[pc] /\ i \in 1..CODE
    /\ files[pc] \in Seq(Nat) /\ ws \in Seq(Nat)
    /\ files'[pc] = IF ws = <<>> THEN files[pc] ELSE Overwritten(files[pc], proc[p].pos, ws)
    /\ DOMAIN files' = DOMAIN files
    /\ \A q \in DOMAIN files \ {pc} : files'[q] = files[q]
    /\ \A q \in Procs \ {p} : proc'[q] = proc[q]
    /\ i = CODE => proc'[p] = Idle
    /\ i < CODE =>
          /\ proc'[p].op = "save" /\ proc'[p].pc = pc /\ proc'[p].block = b
          /\ proc'[p].next = i + 1 /\ proc'[p].pos = proc[p].pos + Len(ws)
          /\ proc'[p].whole = (proc[p].whole /\ ws = all)
    /\ \A q \in PCs \ {pc} : saved'[q] = saved[q] /\ damaged'[q] = damaged[q]
    /\ saved'[pc] = IF i = CODE /\ proc[p].whole /\ ws = all THEN b ELSE saved[pc]
    /\ damaged'[pc] = IF ws = all THEN damaged[pc] ELSE damaged[pc] \cup {i}
    /\ AotTypeOK'

LEMMA WriteFact ==
    ASSUME AotTypeOK, NEW p \in Procs, NEW ws, Written(proc[p], ws), WriteWords(p, ws),
           NEW pc, NEW b, NEW i, NEW all, pc = proc[p].pc, b = proc[p].block, i = proc[p].next,
           all = Writes(pc, b)[i]
    PROVE  WriteEffect(p, ws, pc, b, i, all)
<1> DEFINE s == proc[p]
           f == files[pc]
           g == files'[pc]
           next == [s EXCEPT !.next = @ + 1, !.pos = @ + Len(ws), !.whole = s.whole /\ ws = all]
<1>1. s.op = "save"
  BY DEF WriteWords
<1>2. /\ s \in Job /\ s # Idle /\ pc \in PCs /\ pc \in DOMAIN files /\ f \in Seq(Nat)
      /\ i \in 1..CODE /\ s.pos \in Nat /\ b \in Blocks[pc] /\ s.whole \in BOOLEAN
  BY <1>1, BusyFact
<1>3. /\ files' = [files EXCEPT ![pc] = IF ws = <<>> THEN @ ELSE Overwritten(@, s.pos, ws)]
      /\ proc' = [proc EXCEPT ![p] = IF i = CODE THEN Idle ELSE next]
      /\ saved' = IF i = CODE /\ s.whole /\ ws = all THEN [saved EXCEPT ![pc] = b] ELSE saved
      /\ damaged' = IF ws = all THEN damaged ELSE [damaged EXCEPT ![pc] = @ \cup {i}]
      /\ raced' = raced
  BY DEF WriteWords
<1>4. ws \in Seq(Nat) /\ Len(ws) \in Nat
  BY DEF Written
<1>5. Overwritten(f, s.pos, ws) \in Seq(Nat)
  BY <1>2, <1>4, WriteTyped
<1>6. /\ g = IF ws = <<>> THEN f ELSE Overwritten(f, s.pos, ws)
      /\ DOMAIN files' = DOMAIN files
      /\ \A q \in DOMAIN files \ {pc} : files'[q] = files[q]
  BY <1>2, <1>3 DEF AotTypeOK
<1>7. g \in Seq(Nat)
  BY <1>2, <1>5, <1>6
<1>8. i < CODE => /\ next \in Job
                       /\ next.op = "save" /\ next.pc = pc /\ next.block = b
                       /\ next.next = i + 1 /\ next.pos = s.pos + Len(ws)
                       /\ next.whole = (s.whole /\ ws = all)
  <2>1. (s.whole /\ ws = all) \in BOOLEAN
    OBVIOUS
  <2>2. i < CODE => i + 1 \in 1..CODE /\ s.pos + Len(ws) \in Nat
    BY <1>2, <1>4, SMTT(60) DEF CODE
  <2> QED
    BY <1>1, <1>2, <2>1, <2>2 DEF Job
<1>9. /\ \A q \in Procs \ {p} : proc'[q] = proc[q]
      /\ proc'[p] = IF i = CODE THEN Idle ELSE next
      /\ proc' = [q \in Procs |-> proc'[q]]
  BY <1>3 DEF AotTypeOK
<1>10. i = CODE \/ i < CODE
  BY <1>2 DEF CODE
<1>11. i < CODE => proc'[p] = next
  BY <1>2, <1>9 DEF CODE
<1>12. /\ \A q \in PCs \ {pc} : saved'[q] = saved[q] /\ damaged'[q] = damaged[q]
       /\ saved'[pc] = IF i = CODE /\ s.whole /\ ws = all THEN b ELSE saved[pc]
       /\ damaged'[pc] = IF ws = all THEN damaged[pc] ELSE damaged[pc] \cup {i}
  <2> QED
    BY <1>2, <1>3 DEF AotTypeOK
<1> HIDE DEF next
<1>13. AotTypeOK'
  <2>1. files' \in [DOMAIN files' -> Seq(Nat)]
    BY <1>3, <1>6, <1>7 DEF AotTypeOK
  <2>2. DOMAIN files' \subseteq PCs /\ raced' \subseteq PCs
    BY <1>3, <1>6 DEF AotTypeOK
  <2>3. /\ saved' \in [PCs -> Block \cup {NoBlock}]
        /\ damaged' \in [PCs -> SUBSET (1..CODE)]
    <3>1. b \in Block
      BY <1>2, BlockFact
    <3> QED
      BY <1>2, <1>3, <3>1 DEF AotTypeOK
  <2>4. proc' \in [Procs -> Job \cup {Idle}]
    <3>1. proc'[p] \in Job \cup {Idle}
      BY <1>8, <1>9, <1>10, <1>11
    <3> QED
      BY <1>9, <3>1 DEF AotTypeOK
  <2>5. ASSUME NEW q \in Procs, proc'[q] # Idle
        PROVE  /\ proc'[q].pc \in DOMAIN files'
               /\ proc'[q].op = "save" => proc'[q].block \in Blocks[proc'[q].pc]
               /\ proc'[q].op = "load" => proc'[q].next >= 2
    <3>1. CASE q = p
      BY <1>2, <1>6, <1>8, <1>9, <1>10, <1>11, <2>5, <3>1
    <3>2. CASE q # p
      BY <1>6, <1>9, <2>5, <3>2 DEF AotTypeOK
    <3> QED
      BY <3>1, <3>2
  <2> QED
    BY <2>1, <2>2, <2>3, <2>4, <2>5 DEF AotTypeOK
<1> QED
  BY <1>1, <1>2, <1>4, <1>6, <1>8, <1>9, <1>11, <1>12, <1>13 DEF WriteEffect

LEMMA WriteInv ==
    ASSUME AotInv, NEW p \in Procs, NEW ws, Written(proc[p], ws), WriteWords(p, ws)
    PROVE  AotInv'
<1>0. PICK pc, b, i : pc = proc[p].pc /\ b = proc[p].block /\ i = proc[p].next
  OBVIOUS
<1> PICK all : all = Writes(pc, b)[i]
  OBVIOUS
<1> DEFINE s == proc[p]
           f == files[pc]
           g == files'[pc]
<1>1. AotTypeOK
  BY DEF AotInv
<1>e. WriteEffect(p, ws, pc, b, i, all)
  BY <1>0, <1>1, WriteFact
<1>2. /\ s.op = "save" /\ pc \in PCs /\ b \in Blocks[pc] /\ i \in 1..CODE
      /\ f \in Seq(Nat) /\ ws \in Seq(Nat)
      /\ g = IF ws = <<>> THEN f ELSE Overwritten(f, s.pos, ws)
      /\ DOMAIN files' = DOMAIN files
      /\ \A q \in DOMAIN files \ {pc} : files'[q] = files[q]
      /\ \A q \in Procs \ {p} : proc'[q] = proc[q]
      /\ i = CODE => proc'[p] = Idle
      /\ i < CODE =>
            /\ proc'[p].op = "save" /\ proc'[p].pc = pc /\ proc'[p].block = b
            /\ proc'[p].next = i + 1 /\ proc'[p].pos = s.pos + Len(ws)
            /\ proc'[p].whole = (s.whole /\ ws = all)
      /\ \A q \in PCs \ {pc} : saved'[q] = saved[q] /\ damaged'[q] = damaged[q]
      /\ saved'[pc] = IF i = CODE /\ s.whole /\ ws = all THEN b ELSE saved[pc]
      /\ damaged'[pc] = IF ws = all THEN damaged[pc] ELSE damaged[pc] \cup {i}
      /\ AotTypeOK'
  BY <1>e DEF WriteEffect
<1>3. raced' = raced /\ answer' = answer
  BY DEF WriteWords
<1>4. /\ pc \in DOMAIN files /\ s.whole \in BOOLEAN /\ s.pos \in Nat
      /\ Len(b.code) \in Nat \ {0} /\ b.code \in Seq(Nat) /\ b # NoBlock
  BY <1>0, <1>1, <1>2, BusyFact, BlockFact
<1>5. ASSUME NEW q \in PCs \ raced', q # pc
      PROVE  Unraced(q)'
  <2>1. Unraced(q)
    BY <1>3, <1>5 DEF AotInv
  <2>2. \A r \in Procs : Saves(r, q)' \/ Loads(r, q)' => proc'[r] = proc[r]
    <3>1. proc'[p].op = "idle" \/ proc'[p].pc = pc
      BY <1>2, IdleFact DEF CODE
    <3>2. \A r \in Procs : Saves(r, q)' \/ Loads(r, q)' => r # p
      BY <1>5, <3>1 DEF Saves, Loads
    <3> QED
      BY <1>2, <3>2
  <2>3. CASE q \in DOMAIN files
    BY <1>2, <1>5, <2>1, <2>2, <2>3, Framed
  <2>4. CASE q \notin DOMAIN files
    <3>1. \A r \in Procs : ~ Saves(r, q)' /\ ~ Loads(r, q)'
      BY <1>1, <2>2, <2>4, BusyFact DEF Saves, Loads
    <3> QED
      BY <1>2, <2>4, <3>1 DEF Unraced, SavesAlone
  <2> QED
    BY <2>3, <2>4
<1>6. ASSUME pc \notin raced'
      PROVE  Unraced(pc)'
  <2>1. Saves(p, pc)
    BY <1>0, <1>2 DEF Saves
  <2>2. FileInv(pc) /\ SavesAlone(pc)
    BY <1>2, <1>3, <1>4, <1>6 DEF AotInv, Unraced
  <2>3. PICK W \in SUBSET (1..4) : \E n \in 0..Len(b.code) : Held(pc, b, W, n)
    <3>1. PICK b0 \in Blocks[pc], W \in SUBSET (1..4) : \E n \in 0..Len(b0.code) : Held(pc, b0, W, n)
      BY <2>2 DEF FileInv
    <3>2. \A n \in 0..Len(b0.code) : Held(pc, b0, W, n) => b0 = b
      BY <1>0, <2>1 DEF Held
    <3> QED
      BY <3>1, <3>2
  <2>4. /\ Held(pc, b, W, 0) /\ Content(f, pc, b, W, 0)
        /\ W = (1..i - 1) \ damaged[pc] /\ damaged[pc] \subseteq 1..i - 1
        /\ s.pos = Len(f) /\ (s.whole <=> damaged[pc] = {})
        /\ saved[pc] = NoBlock
    <3>1. Held(pc, b, W, 0)
      BY <2>1, <2>3 DEF Held
    <3> QED
      BY <1>0, <1>4, <2>1, <3>1 DEF Held
  <2>5. /\ Len(g) = Len(f) + Len(ws)
        /\ \A k \in 1..Len(f) : g[k] = f[k]
        /\ \A k \in 1..Len(ws) : g[Len(f) + k] = ws[k]
    <3>1. CASE ws = <<>>
      BY <1>2, <3>1
    <3>2. CASE ws # <<>>
      <4>1. g = Overwritten(f, Len(f), ws)
        BY <1>2, <2>4, <3>2
      <4> HIDE DEF f, g
      <4>2. f \in Seq(Nat) /\ ws \in Seq(Nat)
        BY <1>2 DEF f
      <4>3. /\ Len(Overwritten(f, Len(f), ws)) = Len(f) + Len(ws)
            /\ \A k \in 1..Len(f) : Overwritten(f, Len(f), ws)[k] = f[k]
            /\ \A k \in 1..Len(ws) : Overwritten(f, Len(f), ws)[Len(f) + k] = ws[k]
        BY <4>2, WriteAppends
      <4> QED
        BY <4>1, <4>3, Zenon
    <3> QED
      BY <3>1, <3>2
  <2>6. \A q \in Procs \ {p} : ~ Saves(q, pc)' /\ ~ Loads(q, pc)'
    BY <1>2, <2>1, <2>2 DEF SavesAlone, Saves, Loads
  <2>7. ~ Loads(p, pc)'
    BY <1>2, IdleFact DEF CODE, Loads
  <2>8. FileInv(pc)'
    <3>1. CASE i \in 1..4 /\ ws = all
      <4>1. Content(g, pc, b, W \cup {i}, 0)
        <5>1. W \subseteq 1..i - 1 /\ ws = Writes(pc, b)[i] /\ i \in 1..4 /\ Len(b.code) \in Nat
          BY <1>4, <2>4, <3>1
        <5>2. f \in Seq(Nat) /\ Content(f, pc, b, W, 0)
          BY <1>2, <2>4
        <5> HIDE DEF f, g
        <5> QED
          BY <2>5, <5>1, <5>2, HeaderGrows, ZenonT(60)
      <4>2. /\ damaged'[pc] = damaged[pc] /\ saved'[pc] = NoBlock
            /\ proc'[p].block = b /\ proc'[p].next = i + 1
            /\ proc'[p].pos = Len(f) + Len(ws) /\ (proc'[p].whole <=> s.whole)
        BY <1>2, <1>4, <2>4, <3>1, SMTT(60) DEF CODE
      <4>3. /\ W \cup {i} = (1..(i + 1) - 1) \ damaged'[pc]
            /\ damaged'[pc] \subseteq 1..(i + 1) - 1
            /\ W \cup {i} \in SUBSET (1..4)
        BY <2>4, <3>1, <4>2
      <4>4. Held(pc, b, W \cup {i}, 0)'
        <5>1. \A q \in Procs : Saves(q, pc)' => q = p
          BY <2>6
        <5> QED
          BY <2>4, <2>5, <4>1, <4>2, <4>3, <5>1 DEF Held
      <4> QED
        BY <1>2, <1>4, <4>3, <4>4 DEF FileInv
    <3>2. CASE i \in 1..4 /\ ws # all
      <4>1. ws = <<>> /\ g = f
        BY <1>0, <1>2, <3>2 DEF Written, CODE
      <4>2. /\ damaged'[pc] = damaged[pc] \cup {i} /\ saved'[pc] = NoBlock
            /\ proc'[p].block = b /\ proc'[p].next = i + 1
            /\ proc'[p].pos = Len(f) /\ ~ proc'[p].whole
        <5>1. i < CODE /\ i # CODE /\ Len(ws) = 0
          BY <3>2, <4>1 DEF CODE
        <5>2. proc'[p].pos = s.pos + 0
          BY <1>2, <5>1
        <5>3. damaged'[pc] = damaged[pc] \cup {i} /\ saved'[pc] = NoBlock
          BY <1>2, <2>4, <3>2, <5>1
        <5>4. proc'[p].block = b /\ proc'[p].next = i + 1 /\ ~ proc'[p].whole
          BY <1>2, <3>2, <5>1
        <5>5. Len(f) + 0 = Len(f)
          BY <1>2
        <5> QED
          BY <2>4, <5>2, <5>3, <5>4, <5>5
      <4>3. /\ W = (1..(i + 1) - 1) \ damaged'[pc]
            /\ damaged'[pc] \subseteq 1..(i + 1) - 1 /\ damaged'[pc] # {}
        BY <2>4, <3>2, <4>2
      <4>4. Held(pc, b, W, 0)'
        <5>1. \A q \in Procs : Saves(q, pc)' => q = p
          BY <2>6
        <5> QED
          BY <2>4, <4>1, <4>2, <4>3, <5>1 DEF Held
      <4>5. 0 \in 0..Len(b.code)
        BY <1>4
      <4> QED
        BY <1>2, <4>4, <4>5 DEF FileInv
    <3>3. CASE i = CODE
      <4>1. all = b.code
        BY <1>2, <3>3, WritesTyped
      <4>2. /\ Len(ws) \in 0..Len(b.code) /\ \A k \in 1..Len(ws) : ws[k] = b.code[k]
            /\ ws = b.code <=> Len(ws) = Len(b.code)
        BY <1>0, <4>1 DEF Written
      <4>3. Content(g, pc, b, W, Len(ws))
        BY <1>2, <1>4, <2>4, <2>5, <4>2, CodeGrows, ZenonT(60)
      <4>4. W = (1..4) \ damaged[pc] /\ W = (1..4) \ damaged'[pc]
        BY <1>2, <2>4, <3>3 DEF CODE
      <4>5. saved'[pc] # NoBlock => saved'[pc] = b /\ W = 1..4 /\ Len(ws) = Len(b.code)
        BY <1>2, <2>4, <3>3, <4>1, <4>2, <4>4
      <4>6. \A q \in Procs : ~ Saves(q, pc)'
        BY <1>2, <2>6, <3>3, IdleFact DEF Saves
      <4>7. Held(pc, b, W, Len(ws))'
        BY <4>3, <4>4, <4>5, <4>6 DEF Held
      <4> QED
        BY <1>2, <4>2, <4>7 DEF FileInv
    <3> QED
      BY <1>2, <3>1, <3>2, <3>3 DEF CODE
  <2> QED
    BY <2>6, <2>7, <2>8 DEF Unraced, SavesAlone
<1>7. LoadsWholeBlocks'
  BY <1>3 DEF AotInv, LoadsWholeBlocks
<1> QED
  BY <1>2, <1>5, <1>6, <1>7 DEF AotInv

LEMMA SaveWriteInv ==
    ASSUME AotInv, NEW p \in Procs, SaveWrite(p)
    PROVE  AotInv'
<1>1. /\ proc[p].op = "save"
      /\ WriteWords(p, Writes(proc[p].pc, proc[p].block)[proc[p].next])
  BY DEF SaveWrite
<1>2. proc[p].pc \in PCs /\ proc[p].block \in Blocks[proc[p].pc] /\ proc[p].next \in 1..CODE
  BY <1>1, BusyFact DEF AotInv
<1>3. Writes(proc[p].pc, proc[p].block)[proc[p].next] \in Seq(Nat)
  BY <1>2, WritesTyped
<1>4. Written(proc[p], Writes(proc[p].pc, proc[p].block)[proc[p].next])
  BY <1>3 DEF Written
<1> QED
  BY <1>1, <1>4, WriteInv

LEMMA SaveWriteFailsInv ==
    ASSUME AotInv, NEW p \in Procs, SaveWriteFails(p)
    PROVE  AotInv'
<1> DEFINE c == proc[p].block.code
           all == Writes(proc[p].pc, proc[p].block)[proc[p].next]
<1>1. PICK n \in 0..(IF proc[p].next = CODE THEN Len(c) - 1 ELSE 0) : WriteWords(p, SubSeq(c, 1, n))
  BY DEF SaveWriteFails
<1>2. proc[p].op = "save"
  BY DEF SaveWriteFails
<1>3. proc[p].pc \in PCs /\ proc[p].block \in Blocks[proc[p].pc] /\ proc[p].next \in 1..CODE
  BY <1>2, BusyFact DEF AotInv
<1>4. /\ all \in Seq(Nat) /\ Len(all) > 0
      /\ proc[p].next = CODE => all = c
      /\ c \in Seq(Nat) /\ Len(c) \in Nat \ {0}
  BY <1>3, WritesTyped, BlockFact
<1> HIDE DEF c, all
<1>5. n \in 0..Len(c) /\ (proc[p].next = CODE => n < Len(c)) /\ (proc[p].next # CODE => n = 0)
  BY <1>1, <1>4
<1>6. SubSeq(c, 1, n) \in Seq(Nat) /\ Len(SubSeq(c, 1, n)) = n
      /\ \A k \in 1..n : SubSeq(c, 1, n)[k] = c[k]
  BY <1>4, <1>5, PrefixFact
<1>7. PICK ws : ws = SubSeq(c, 1, n)
  OBVIOUS
<1>8. /\ ws \in Seq(Nat) /\ Len(ws) < Len(all) /\ Len(ws) \in 0..Len(all) /\ ws # all
      /\ \A k \in 1..Len(ws) : ws[k] = all[k]
      /\ proc[p].next < CODE => ws = <<>>
  <2>1. CASE proc[p].next = CODE
    BY <1>4, <1>5, <1>6, <1>7, <2>1 DEF CODE
  <2>2. CASE proc[p].next # CODE
    <3>1. ws = <<>>
      BY <1>5, <1>6, <1>7, <2>2, EmptySeq
    <3> QED
      BY <1>4, <3>1
  <2> QED
    BY <2>1, <2>2
<1>9. Written(proc[p], ws)
  BY <1>8 DEF Written, all
<1> QED
  BY <1>1, <1>7, <1>9, WriteInv DEF c

\* A step that ends what a process does, if that, and changes no file.
LEMMA EndInv ==
    ASSUME AotInv, NEW p \in Procs,
           proc' = [proc EXCEPT ![p] = Idle], UNCHANGED <<files, saved, raced, damaged>>
    PROVE  AotTypeOK' /\ \A pc \in PCs \ raced' : Unraced(pc)'
<1>1. AotTypeOK
  BY DEF AotInv
<1>2. proc'[p] = Idle /\ \A q \in Procs \ {p} : proc'[q] = proc[q]
  BY <1>1 DEF AotTypeOK
<1>3. AotTypeOK'
  BY <1>1, <1>2 DEF AotTypeOK
<1>4. ASSUME NEW pc \in PCs \ raced'
      PROVE  Unraced(pc)'
  <2>1. Unraced(pc)
    BY <1>4 DEF AotInv
  <2>2. \A q \in Procs : Saves(q, pc)' \/ Loads(q, pc)' => proc'[q] = proc[q]
    BY <1>2, IdleFact DEF Saves, Loads
  <2> QED
    BY <2>1, <2>2, Framed
<1> QED
  BY <1>3, <1>4

LEMMA KillInv ==
    ASSUME AotInv, NEW p \in Procs, Kill(p)
    PROVE  AotInv'
<1>1. proc' = [proc EXCEPT ![p] = Idle] /\ UNCHANGED <<files, saved, raced, damaged, answer>>
  BY DEF Kill
<1>2. AotTypeOK' /\ \A pc \in PCs \ raced' : Unraced(pc)'
  BY <1>1, EndInv
<1>3. LoadsWholeBlocks'
  BY <1>1 DEF AotInv, LoadsWholeBlocks
<1> QED
  BY <1>2, <1>3 DEF AotInv

LEMMA LoadOpenInv ==
    ASSUME AotInv, NEW p \in Procs, NEW pc \in PCs, LoadOpen(p, pc)
    PROVE  AotInv'
<1> DEFINE job == [Busy("load", NoBlock, pc) EXCEPT !.next = 2, !.pos = 1]
           found == pc \in DOMAIN files /\ files[pc] # <<>> /\ files[pc][1] = MAGIC
<1>1. /\ proc[p] = Idle /\ UNCHANGED <<files, saved, damaged>>
      /\ found => proc' = [proc EXCEPT ![p] = job] /\ answer' = answer
      /\ ~ found => proc' = proc /\ answer'.block = NoBlock
      /\ raced' = IF Using(pc, {"save"}) # {} THEN raced \cup {pc} ELSE raced
  BY DEF LoadOpen, Answer
<1>2. AotTypeOK
  BY DEF AotInv
<1>3. /\ job \in Job /\ job.op = "load" /\ job.pc = pc /\ job.next = 2 /\ job.pos = 1
      /\ job.got = <<>>
  <2> DEFINE opened == Busy("load", NoBlock, pc)
  <2>1. /\ opened \in Job /\ opened.op = "load" /\ opened.pc = pc /\ opened.got = <<>>
    BY DEF Busy, Job, CODE
  <2>2. job = [opened EXCEPT !.next = 2, !.pos = 1]
    OBVIOUS
  <2> HIDE DEF opened, job
  <2>3. 2 \in 1..CODE /\ 1 \in Nat
    BY DEF CODE
  <2> QED
    BY <2>1, <2>2, <2>3 DEF Job
<1> HIDE DEF job
<1>4. /\ \A q \in Procs \ {p} : proc'[q] = proc[q]
      /\ ~ found => proc'[p] = proc[p]
      /\ found => proc'[p] = job
      /\ proc' \in [Procs -> Job \cup {Idle}]
  BY <1>1, <1>2, <1>3 DEF AotTypeOK
<1>5. AotTypeOK'
  <2>1. ASSUME NEW q \in Procs, proc'[q] # Idle
        PROVE  /\ proc'[q].pc \in DOMAIN files'
               /\ proc'[q].op = "save" => proc'[q].block \in Blocks[proc'[q].pc]
               /\ proc'[q].op = "load" => proc'[q].next >= 2
    <3>1. CASE q = p /\ found
      BY <1>1, <1>3, <1>4, <3>1
    <3>2. CASE ~ (q = p /\ found)
      BY <1>1, <1>2, <1>4, <2>1, <3>2 DEF AotTypeOK
    <3> QED
      BY <3>1, <3>2
  <2>2. raced' \subseteq PCs
    BY <1>1, <1>2 DEF AotTypeOK
  <2> QED
    BY <1>1, <1>2, <1>4, <2>1, <2>2 DEF AotTypeOK
<1>6. ASSUME NEW q \in PCs \ raced', q # pc \/ ~ found
      PROVE  Unraced(q)'
  <2>1. Unraced(q)
    BY <1>1, <1>6 DEF AotInv
  <2>2. \A r \in Procs : Saves(r, q)' \/ Loads(r, q)' => proc'[r] = proc[r]
    BY <1>3, <1>4, <1>6 DEF Saves, Loads
  <2> QED
    BY <1>1, <2>1, <2>2, Framed
<1>7. ASSUME pc \notin raced', found
      PROVE  Unraced(pc)'
  <2>1. Unraced(pc) /\ \A q \in Procs : ~ Saves(q, pc)
    BY <1>1, <1>7 DEF AotInv, Using, Saves
  <2>2. \A q \in Procs : ~ Saves(q, pc)'
    BY <1>3, <1>4, <1>7, <2>1 DEF Saves
  <2>3. FileInv(pc)'
    <3>1. PICK b \in Blocks[pc], W \in SUBSET (1..4) : \E n \in 0..Len(b.code) : Held(pc, b, W, n)
      BY <1>7, <2>1 DEF Unraced, FileInv
    <3>2. \A n \in 0..Len(b.code) : Held(pc, b, W, n) => Held(pc, b, W, n)'
      BY <1>1, <2>2 DEF Held
    <3> QED
      BY <3>1, <3>2 DEF FileInv
  <2>4. ASSUME NEW q \in Procs, Loads(q, pc)'
        PROVE  LoadState(proc'[q].next, proc'[q].pos, proc'[q].got, files'[pc])
    <3>1. CASE q = p
      <4>1. files[pc] \in Seq(Nat) /\ files[pc] # <<>>
        BY <1>2, <1>7 DEF AotTypeOK
      <4>2. Len(files[pc]) >= 1
        BY <4>1, EmptySeq
      <4> QED
        BY <1>1, <1>3, <1>4, <1>7, <3>1, <4>2 DEF LoadState, Offset, CODE
    <3>2. CASE q # p
      BY <1>1, <1>4, <2>1, <2>4, <3>2 DEF Unraced, Loads
    <3> QED
      BY <3>1, <3>2
  <2> QED
    BY <2>2, <2>3, <2>4 DEF Unraced, SavesAlone
<1>8. LoadsWholeBlocks'
  BY <1>1 DEF AotInv, LoadsWholeBlocks
<1> QED
  BY <1>5, <1>6, <1>7, <1>8 DEF AotInv

\* One more field is read: its words as far as they are in the file.
LEMMA FieldRead ==
    ASSUME NEW f \in Seq(Nat), NEW next \in 1..4, NEW pos \in Nat, NEW got \in Seq(Nat),
           LoadState(next, pos, got, f),
           NEW field \in Seq(Nat), Len(field) = Width[next],
           \A k \in 1..Len(ReadAt(f, pos, Width[next])) : field[k] = ReadAt(f, pos, Width[next])[k]
    PROVE  LoadState(next + 1, pos + Len(ReadAt(f, pos, Width[next])), got \o field, f)
<1>0. PICK off, w, there, all, len, n :
         /\ off = Offset[next] /\ w = Width[next]
         /\ there = ReadAt(f, pos, w) /\ all = got \o field
         /\ len = Len(f) /\ n = Len(there)
  OBVIOUS
<1>1. /\ next \in 2..CODE /\ len >= 1 /\ f[1] = MAGIC /\ Len(got) = off - 1
      /\ pos = IF off <= len THEN off ELSE len
      /\ \A k \in 1..off - 1 : k + 1 <= len => got[k] = f[k + 1]
  BY <1>0, Zenon DEF LoadState
<1>2. next = 2 \/ next = 3 \/ next = 4
  BY <1>1 DEF CODE
<1>3. w \in 1..2 /\ off \in 1..4 /\ Offset[next + 1] = off + w /\ next + 1 \in 2..CODE
  BY <1>0, <1>2, SMTT(60) DEF Width, Offset, CODE
<1>4. len \in Nat /\ w \in Nat
  BY <1>0, <1>3
<1>5. /\ n \in 0..w
      /\ pos + w <= len => n = w
      /\ pos <= len /\ pos + w > len => n = len - pos
      /\ \A k \in 1..n : there[k] = f[pos + k]
  <2>1. /\ Len(ReadAt(f, pos, w)) \in 0..w
        /\ pos + w <= Len(f) => Len(ReadAt(f, pos, w)) = w
        /\ pos <= Len(f) /\ pos + w > Len(f) => Len(ReadAt(f, pos, w)) = Len(f) - pos
        /\ \A k \in 1..Len(ReadAt(f, pos, w)) : ReadAt(f, pos, w)[k] = f[pos + k]
    BY <1>4, ReadFact, Zenon
  <2> QED
    BY <1>0, <2>1, Zenon
<1>6. /\ Len(all) = Len(got) + Len(field)
      /\ \A k \in 1..Len(got) + Len(field) :
            all[k] = IF k <= Len(got) THEN got[k] ELSE field[k - Len(got)]
  BY <1>0, ConcatProperties, Zenon
<1>7. /\ Len(all) = off + w - 1
      /\ \A k \in 1..off - 1 : all[k] = got[k]
      /\ \A k \in 1..w : all[off - 1 + k] = field[k]
  <2>1. /\ Len(all) = off - 1 + w
        /\ \A k \in 1..off - 1 + w : all[k] = IF k <= off - 1 THEN got[k] ELSE field[k - (off - 1)]
    BY <1>0, <1>1, <1>6, ZenonT(60)
  <2>2. /\ \A k \in 1..off - 1 : k \in 1..off - 1 + w /\ k <= off - 1
        /\ \A k \in 1..w : /\ off - 1 + k \in 1..off - 1 + w /\ ~ (off - 1 + k <= off - 1)
                           /\ (off - 1 + k) - (off - 1) = k
        /\ off - 1 + w = off + w - 1
    BY <1>3
  <2> QED
    BY <2>1, <2>2, Zenon
<1>8. /\ off + w <= len => pos + n = off + w
      /\ ~ (off + w <= len) => pos + n = len
      /\ \A j \in 1..w : off + j <= len => pos = off /\ j \in 1..n
  <2>1. /\ off <= len => pos = off
        /\ ~ (off <= len) => pos = len
    BY <1>1, Zenon
  <2>2. n \in Nat /\ n <= w /\ (pos + w <= len => n = w)
        /\ (pos <= len /\ pos + w > len => n = len - pos)
    BY <1>3, <1>5
  <2>3. CASE off + w <= len
    BY <1>3, <1>4, <2>1, <2>2, <2>3
  <2>4. CASE ~ (off + w <= len) /\ off <= len
    BY <1>3, <1>4, <2>1, <2>2, <2>4
  <2>5. CASE ~ (off <= len)
    BY <1>3, <1>4, <2>1, <2>2, <2>5
  <2> QED
    BY <2>3, <2>4, <2>5, Zenon
<1>9. ASSUME NEW k \in 1..off + w - 1, k + 1 <= len
      PROVE  all[k] = f[k + 1]
  <2>1. CASE k <= off - 1
    <3>1. k \in 1..off - 1
      BY <1>3, <2>1
    <3> QED
      BY <1>1, <1>7, <1>9, <3>1, Zenon
  <2>2. CASE ~ (k <= off - 1)
    <3>1. PICK j \in 1..w : k = off - 1 + j
      <4>1. k - (off - 1) \in 1..w /\ k = off - 1 + (k - (off - 1))
        BY <1>3, <2>2
      <4> QED
        BY <4>1, Zenon
    <3>2. off + j = k + 1
      BY <1>3, <3>1, SMTT(60)
    <3>3. pos = off /\ j \in 1..n
      BY <1>8, <1>9, <3>2, Zenon
    <3>4. field[j] = there[j] /\ there[j] = f[off + j]
      BY <1>0, <1>5, <3>3, Zenon
    <3>5. all[k] = field[j]
      BY <1>7, <3>1, Zenon
    <3> QED
      BY <3>2, <3>4, <3>5, Zenon
  <2> QED
    BY <2>1, <2>2, Zenon
<1>10. LoadState(next + 1, pos + n, all, f)
  <2>1. pos + n = IF off + w <= len THEN off + w ELSE len
    BY <1>8, Zenon
  <2>2. Len(f) >= 1 /\ f[1] = MAGIC /\ next + 1 \in 2..CODE
    BY <1>0, <1>1, <1>3, Zenon
  <2>3. Len(all) = Offset[next + 1] - 1
    BY <1>3, <1>7
  <2>4. pos + n = IF Offset[next + 1] <= Len(f) THEN Offset[next + 1] ELSE Len(f)
    BY <1>0, <1>3, <2>1, Zenon
  <2>5. \A k \in 1..Len(all) : k + 1 <= Len(f) => all[k] = f[k + 1]
    BY <1>0, <1>7, <1>9, Zenon
  <2> QED
    BY <2>2, <2>3, <2>4, <2>5, Zenon DEF LoadState
<1> QED
  BY <1>0, <1>10, Zenon

LEMMA LoadFieldInv ==
    ASSUME AotInv, NEW p \in Procs, LoadField(p)
    PROVE  AotInv'
<1>0. PICK s, pc, f, i : s = proc[p] /\ pc = proc[p].pc /\ f = files[pc] /\ i = proc[p].next
  OBVIOUS
<1>1. AotTypeOK
  BY SMTT(60) DEF AotInv
<1>2. /\ s.op = "load" /\ i < CODE /\ UNCHANGED <<files, saved, raced, damaged, answer>>
  BY <1>0 DEF LoadField
<1>3. /\ s \in Job /\ pc \in PCs /\ pc \in DOMAIN files /\ f \in Seq(Nat) /\ i \in 1..4
      /\ s.pos \in Nat /\ s.got \in Seq(Nat) /\ i >= 2
  <2>1. /\ proc[p] \in Job /\ proc[p] # Idle /\ pc \in PCs /\ pc \in DOMAIN files /\ f \in Seq(Nat)
        /\ i \in 1..CODE /\ proc[p].pos \in Nat /\ proc[p].got \in Seq(Nat)
    BY <1>0, <1>1, <1>2, BusyFact
  <2>2. i >= 2
    BY <1>0, <1>1, <1>2, <2>1, SMTT(60) DEF AotTypeOK
  <2> QED
    BY <1>0, <1>2, <2>1, <2>2 DEF CODE
<1> DEFINE w == Width[proc[p].next]
           there == ReadAt(files[proc[p].pc], proc[p].pos, w)
<1>4. w = Width[i] /\ there = ReadAt(f, s.pos, w)
  BY <1>0, SMTT(60)
<1>5. PICK rest \in [Len(there) + 1 .. w -> Garbage] :
         proc' = [proc EXCEPT ![p].next = @ + 1, ![p].pos = @ + Len(there),
                              ![p].got = @ \o [k \in 1..w |-> IF k <= Len(there) THEN there[k] ELSE rest[k]]]
  BY DEF LoadField
<1> HIDE DEF w, there
<1>6. w \in 1..2 /\ w \in Nat
  BY <1>3, <1>4 DEF Width
<1>7. there \in Seq(Nat) /\ Len(there) \in 0..w
  BY <1>3, <1>4, <1>6, ReadFact
<1>8. PICK field : field = [k \in 1..w |-> IF k <= Len(there) THEN there[k] ELSE rest[k]]
  OBVIOUS
<1>9. /\ field \in Seq(Nat) /\ Len(field) = w
      /\ \A k \in 1..Len(there) : field[k] = there[k]
  <2>1. \A k \in 1..w : (IF k <= Len(there) THEN there[k] ELSE rest[k]) \in Nat
    <3>1. \A k \in Len(there) + 1 .. w : rest[k] \in Nat
      BY <1>5, AotConstants
    <3>2. \A k \in 1..w : k \in Len(there) + 1 .. w \/ k \in 1..Len(there)
      BY <1>6, <1>7
    <3>3. \A k \in 1..Len(there) : there[k] \in Nat /\ k <= Len(there)
      BY <1>7
    <3> QED
      BY <1>6, <1>7, <3>1, <3>2, <3>3
  <2>2. \A k \in 1..Len(there) : k \in 1..w /\ k <= Len(there)
    BY <1>6, <1>7
  <2> QED
    BY <1>6, <1>8, <2>1, <2>2
<1>10. PICK t : t = [s EXCEPT !.next = i + 1, !.pos = s.pos + Len(there), !.got = s.got \o field]
  OBVIOUS
<1>11. /\ t \in Job /\ t.op = "load" /\ t.pc = pc /\ t.block = s.block
       /\ t.next = i + 1 /\ t.pos = s.pos + Len(there) /\ t.got = s.got \o field
  <2>1. s.got \o field \in Seq(Nat) /\ s.pos + Len(there) \in Nat /\ i + 1 \in 1..CODE
    BY <1>3, <1>7, <1>9 DEF CODE
  <2>2. s.pc = pc
    BY <1>0
  <2> QED
    BY <1>2, <1>3, <1>10, <2>1, <2>2 DEF Job
<1>12. proc' = [proc EXCEPT ![p] = t]
  BY <1>0, <1>5, <1>8, <1>10
<1>13. /\ proc'[p] = t /\ \A q \in Procs \ {p} : proc'[q] = proc[q]
       /\ proc' \in [Procs -> Job \cup {Idle}]
  BY <1>1, <1>11, <1>12 DEF AotTypeOK
<1>14. AotTypeOK'
  <2>1. ASSUME NEW q \in Procs, proc'[q] # Idle
        PROVE  /\ proc'[q].pc \in DOMAIN files'
               /\ proc'[q].op = "save" => proc'[q].block \in Blocks[proc'[q].pc]
               /\ proc'[q].op = "load" => proc'[q].next >= 2
    <3>1. CASE q = p
      BY <1>2, <1>3, <1>11, <1>13, <3>1
    <3>2. CASE q # p
      BY <1>1, <1>2, <1>13, <2>1, <3>2 DEF AotTypeOK
    <3> QED
      BY <3>1, <3>2
  <2> QED
    BY <1>1, <1>2, <1>13, <2>1 DEF AotTypeOK
<1>15. ASSUME NEW q \in PCs \ raced', q # pc
       PROVE  Unraced(q)'
  <2>1. Unraced(q)
    BY <1>2, <1>15 DEF AotInv
  <2>2. \A r \in Procs : Saves(r, q)' \/ Loads(r, q)' => proc'[r] = proc[r]
    BY <1>11, <1>13, <1>15 DEF Saves, Loads
  <2> QED
    BY <1>2, <2>1, <2>2, Framed
<1>16. ASSUME pc \notin raced'
       PROVE  Unraced(pc)'
  <2>1. Unraced(pc)
    BY <1>2, <1>3, <1>16 DEF AotInv
  <2>2. \A q \in Procs : ~ Saves(q, pc)
    BY <1>0, <1>2, <2>1 DEF Unraced, SavesAlone, Saves, Loads
  <2>3. \A q \in Procs : ~ Saves(q, pc)'
    BY <1>11, <1>13, <2>2 DEF Saves
  <2>4. FileInv(pc)'
    <3>1. PICK b \in Blocks[pc], W \in SUBSET (1..4) : \E n \in 0..Len(b.code) : Held(pc, b, W, n)
      BY <1>3, <2>1 DEF Unraced, FileInv
    <3>2. \A n \in 0..Len(b.code) : Held(pc, b, W, n) => Held(pc, b, W, n)'
      BY <1>2, <2>3 DEF Held
    <3> QED
      BY <3>1, <3>2 DEF FileInv
  <2>5. LoadState(t.next, t.pos, t.got, f)
    <3>1. LoadState(i, s.pos, s.got, f)
      BY <1>0, <1>2, <2>1 DEF Unraced, Loads
    <3>2. LoadState(i + 1, s.pos + Len(there), s.got \o field, f)
      BY <1>3, <1>4, <1>9, <3>1, FieldRead
    <3> QED
      BY <1>11, <3>2
  <2>6. ASSUME NEW q \in Procs, Loads(q, pc)'
        PROVE  LoadState(proc'[q].next, proc'[q].pos, proc'[q].got, files'[pc])
    <3>1. CASE q = p
      BY <1>0, <1>2, <1>13, <2>5, <3>1
    <3>2. CASE q # p
      BY <1>2, <1>13, <2>1, <2>6, <3>2 DEF Unraced, Loads
    <3> QED
      BY <3>1, <3>2
  <2> QED
    BY <2>3, <2>4, <2>6 DEF Unraced, SavesAlone
<1>17. LoadsWholeBlocks'
  BY <1>2 DEF AotInv, LoadsWholeBlocks
<1> QED
  BY <1>14, <1>15, <1>16, <1>17 DEF AotInv

\* A file with the whole of a block.
Complete(f, pc, b) ==
    /\ Len(f) = 5 + Len(b.code) /\ f[1] = MAGIC /\ f[2] = pc /\ f[3] = 0
    /\ f[4] = Len(b.code) /\ f[5] = b.count
    /\ ReadAt(f, 5, Len(b.code)) = b.code

LEMMA CompleteFile ==
    ASSUME NEW pc \in PCs, NEW b \in Blocks[pc], NEW f \in Seq(Nat),
           Content(f, pc, b, 1..4, Len(b.code))
    PROVE  Complete(f, pc, b)
<1> DEFINE W == 1..4
<1>1. 1 \in W /\ 2 \in W /\ 3 \in W /\ 4 \in W
  OBVIOUS
<1>2. Start2(W) = 1 /\ Start3(W) = 3 /\ Start4(W) = 4 /\ Start5(W) = 5
  BY <1>1 DEF Start2, Start3, Start4, Start5
<1>3. b.code \in Seq(Nat) /\ Len(b.code) \in Nat
  BY BlockFact
<1>4. /\ Len(f) = 5 + Len(b.code) /\ f[1] = MAGIC /\ f[1 + 1] = pc /\ f[1 + 2] = 0
      /\ f[3 + 1] = Len(b.code) /\ f[4 + 1] = b.count
      /\ \A k \in 1..Len(b.code) : f[5 + k] = b.code[k]
  BY <1>1, <1>2 DEF Content
<1>5. PICK r : r = ReadAt(f, 5, Len(b.code))
  OBVIOUS
<1>6. /\ r \in Seq(Nat) /\ Len(r) = Len(b.code)
      /\ \A k \in 1..Len(r) : r[k] = f[5 + k]
  <2>1. /\ ReadAt(f, 5, Len(b.code)) \in Seq(Nat)
        /\ 5 + Len(b.code) <= Len(f) => Len(ReadAt(f, 5, Len(b.code))) = Len(b.code)
        /\ \A k \in 1..Len(ReadAt(f, 5, Len(b.code))) : ReadAt(f, 5, Len(b.code))[k] = f[5 + k]
    <3>1. 5 \in Nat
      OBVIOUS
    <3> QED
      BY <1>3, <3>1, ReadFact, Zenon
  <2>2. 5 + Len(b.code) <= Len(f)
    BY <1>3, <1>4
  <2> QED
    BY <1>5, <2>1, <2>2, Zenon
<1>7. r = b.code
  <2>1. \A k \in 1..Len(r) : r[k] = b.code[k]
    BY <1>4, <1>6, Zenon
  <2> QED
    BY <1>3, <1>6, <2>1, SeqEqual, Zenon
<1> QED
  BY <1>4, <1>5, <1>7 DEF Complete

\* What load_aot_block tests of a file.
Tested(f, pc) ==
    f[1] = MAGIC /\ f[2] = pc /\ f[3] = 0 /\ f[4] > 0 /\ 5 + f[4] <= Len(f)

\* The tests of the magic number, of the pc and of the length are enough, if the
\* write of host_size did not fail: they hold only of a file with all fields and the
\* whole code.
LEMMA TestsSuffice ==
    ASSUME NEW pc \in PCs, NEW b \in Blocks[pc], NEW f \in Seq(Nat), NEW W, NEW n,
           Content(f, pc, b, W, n), 3 \in W, Tested(f, pc)
    PROVE  W = 1..4 /\ n = Len(b.code)
<1>0. PICK size : f[4] = size
  OBVIOUS
<1>t. f[1] = MAGIC /\ f[2] = pc /\ f[3] = 0 /\ size > 0 /\ 5 + size <= Len(f)
  BY <1>0 DEF Tested
<1>1. /\ Len(b.code) \in Nat /\ Len(b.code) # MAGIC /\ Len(b.code) # pc /\ pc \in Nat
      /\ MAGIC # 0
  BY BlockFact, SizesTellApart, AotConstants DEF MAGIC
<1>2. /\ W \subseteq 1..4 /\ n \in 0..Len(b.code)
      /\ 1 \in W => f[1] = MAGIC
      /\ 2 \in W => f[Start2(W) + 1] = pc /\ f[Start2(W) + 2] = 0
      /\ f[Start3(W) + 1] = Len(b.code)
      /\ Len(f) = Start5(W) + n
  BY DEF Content
<1>3. 1 \in W
  <2> SUFFICES ASSUME 1 \notin W PROVE FALSE
    OBVIOUS
  <2>1. CASE 2 \in W
    <3>1. Start2(W) + 1 = 1 /\ Start2(W) + 2 = 2
      BY DEF Start2
    <3> QED
      BY <1>t, <1>1, <1>2, <2>1, <3>1, Zenon
  <2>2. CASE 2 \notin W
    <3>1. Start3(W) + 1 = 1
      BY <2>2 DEF Start2, Start3
    <3> QED
      BY <1>t, <1>1, <1>2, <3>1, Zenon
  <2> QED
    BY <2>1, <2>2
<1>4. 2 \in W
  <2> SUFFICES ASSUME 2 \notin W PROVE FALSE
    OBVIOUS
  <2>1. Start3(W) + 1 = 2
    BY <1>3 DEF Start2, Start3
  <2> QED
    BY <1>t, <1>1, <1>2, <2>1, Zenon
<1>5. Start4(W) = 4 /\ Start3(W) + 1 = 4
  BY <1>3, <1>4 DEF Start2, Start3, Start4
<1>6. size = Len(b.code)
  BY <1>0, <1>2, <1>5, Zenon
<1>7. Len(f) = Start5(W) + n /\ n <= size /\ n \in Nat
  BY <1>1, <1>2, <1>6
<1>8. 4 \in W
  <2> SUFFICES ASSUME 4 \notin W PROVE FALSE
    OBVIOUS
  <2>1. Start5(W) = 4
    BY <1>5 DEF Start5
  <2> QED
    BY <1>t, <1>1, <1>6, <1>7, <2>1
<1>9. Start5(W) = 5
  BY <1>5, <1>8 DEF Start5
<1>10. n = size
  BY <1>t, <1>1, <1>6, <1>7, <1>9
<1>11. W = 1..4
  <2>1. ASSUME NEW x \in 1..4 PROVE x \in W
    <3>1. x = 1 \/ x = 2 \/ x = 3 \/ x = 4
      OBVIOUS
    <3> QED
      BY <1>3, <1>4, <1>8, <3>1, Zenon
  <2> QED
    BY <1>2, <2>1, Zenon
<1> QED
  BY <1>6, <1>10, <1>11

\* What load_aot_block has read when it reads the code.
LEMMA HeaderRead ==
    ASSUME NEW f \in Seq(Nat), NEW pos, NEW got \in Seq(Nat), LoadState(CODE, pos, got, f)
    PROVE  /\ Len(f) \in Nat /\ Len(got) = 4 /\ f[1] = MAGIC
           /\ got[1] \in Nat /\ got[2] \in Nat /\ got[3] \in Nat /\ got[4] \in Nat
           /\ Len(f) >= 5 => /\ pos = 5 /\ got[1] = f[2] /\ got[2] = f[3]
                             /\ got[3] = f[4] /\ got[4] = f[5]
           /\ CodeRead(f, pos, got[3]) => Len(f) > 5 /\ 5 + got[3] <= Len(f) /\ got[3] > 0
<1>1. /\ Len(f) \in Nat /\ f[1] = MAGIC /\ Len(got) = 4
      /\ pos = IF 5 <= Len(f) THEN 5 ELSE Len(f)
      /\ \A k \in 1..4 : k + 1 <= Len(f) => got[k] = f[k + 1]
  <2>1. Offset[CODE] = 5 /\ 5 - 1 = 4 /\ Len(f) \in Nat
    BY DEF Offset, CODE
  <2> QED
    BY <2>1, Zenon DEF LoadState
<1>2. got[1] \in Nat /\ got[2] \in Nat /\ got[3] \in Nat /\ got[4] \in Nat
  <2>1. \A k \in 1..Len(got) : got[k] \in Nat
    OBVIOUS
  <2>2. 1 \in 1..4 /\ 2 \in 1..4 /\ 3 \in 1..4 /\ 4 \in 1..4
    OBVIOUS
  <2> QED
    BY <1>1, <2>1, <2>2, Zenon
<1>3. Len(f) >= 5 => /\ pos = 5 /\ got[1] = f[2] /\ got[2] = f[3] /\ got[3] = f[4] /\ got[4] = f[5]
  <2> SUFFICES ASSUME Len(f) >= 5
               PROVE  /\ pos = 5 /\ got[1] = f[2] /\ got[2] = f[3] /\ got[3] = f[4] /\ got[4] = f[5]
    OBVIOUS
  <2>1. /\ 1 \in 1..4 /\ 2 \in 1..4 /\ 3 \in 1..4 /\ 4 \in 1..4
        /\ 1 + 1 <= Len(f) /\ 2 + 1 <= Len(f) /\ 3 + 1 <= Len(f) /\ 4 + 1 <= Len(f)
        /\ 1 + 1 = 2 /\ 2 + 1 = 3 /\ 3 + 1 = 4 /\ 4 + 1 = 5
    BY <1>1
  <2> QED
    BY <1>1, <2>1
<1>4. CodeRead(f, pos, got[3]) => Len(f) > 5 /\ 5 + got[3] <= Len(f) /\ got[3] > 0
  <2> SUFFICES ASSUME got[3] > 0, pos + got[3] <= Len(f)
               PROVE  Len(f) > 5 /\ 5 + got[3] <= Len(f)
    BY DEF CodeRead
  <2>1. CASE 5 <= Len(f)
    <3>1. pos = 5
      BY <1>1, <2>1, Zenon
    <3> QED
      BY <1>1, <1>2, <3>1
  <2>2. CASE ~ (5 <= Len(f))
    <3>1. pos = Len(f)
      BY <1>1, <2>2, Zenon
    <3> QED
      BY <1>1, <1>2, <3>1
  <2> QED
    BY <2>1, <2>2
<1> QED
  BY <1>1, <1>2, <1>3, <1>4

\* The answer of load_aot_block on a file without overlapping operations: a block of
\* that pc, unless the write of host_size failed, and the last one saved if its save
\* was complete.
LEMMA LoadAnswer ==
    ASSUME AotInv, NEW p \in Procs, LoadCode(p), proc[p].pc \notin raced
    PROVE  /\ \/ answer'.block = NoBlock
              \/ answer'.block \in Blocks[proc[p].pc]
              \/ HOST_SIZE \in damaged[proc[p].pc]
           /\ saved[proc[p].pc] # NoBlock => answer'.block = saved[proc[p].pc]
<1>0. PICK pc, f, pos, got, size :
         pc = proc[p].pc /\ f = files[pc] /\ pos = proc[p].pos /\ got = proc[p].got /\ size = got[3]
  OBVIOUS
<1>1. /\ proc[p].op = "load" /\ proc[p].next = CODE
      /\ answer'.block = IF got[1] = pc /\ got[2] = 0 /\ CodeRead(f, pos, size)
                         THEN [code |-> ReadAt(f, pos, size), count |-> got[4]] ELSE NoBlock
  BY <1>0 DEF LoadCode, Answer
<1>2. pc \in PCs /\ pc \in DOMAIN files /\ f \in Seq(Nat) /\ got \in Seq(Nat)
  BY <1>0, <1>1, BusyFact DEF AotInv
<1>3. Unraced(pc)
  BY <1>0, <1>2 DEF AotInv
<1>4. LoadState(CODE, pos, got, f)
  BY <1>0, <1>1, <1>3 DEF Unraced, Loads
<1>5. PICK b \in Blocks[pc], W \in SUBSET (1..4) : \E n \in 0..Len(b.code) : Held(pc, b, W, n)
  BY <1>2, <1>3 DEF Unraced, FileInv
<1>6. PICK n \in 0..Len(b.code) : Held(pc, b, W, n)
  BY <1>5
<1>7. /\ Content(f, pc, b, W, n)
      /\ n > 0 => W = (1..4) \ damaged[pc]
      /\ saved[pc] # NoBlock => saved[pc] = b /\ W = 1..4 /\ n = Len(b.code)
  BY <1>0, <1>6 DEF Held
<1>8. /\ Len(b.code) \in Nat \ {0} /\ b = [code |-> b.code, count |-> b.count]
  BY <1>2, BlockFact
<1>9. /\ Len(f) \in Nat /\ f[1] = MAGIC /\ size \in Nat
      /\ Len(f) >= 5 => /\ pos = 5 /\ got[1] = f[2] /\ got[2] = f[3]
                        /\ size = f[4] /\ got[4] = f[5]
      /\ CodeRead(f, pos, size) => Len(f) > 5 /\ 5 + size <= Len(f) /\ size > 0
  <2>1. /\ Len(f) \in Nat /\ f[1] = MAGIC /\ got[3] \in Nat
        /\ Len(f) >= 5 => /\ pos = 5 /\ got[1] = f[2] /\ got[2] = f[3]
                          /\ got[3] = f[4] /\ got[4] = f[5]
        /\ CodeRead(f, pos, got[3]) => Len(f) > 5 /\ 5 + got[3] <= Len(f) /\ got[3] > 0
    BY <1>2, <1>4, HeaderRead, Zenon
  <2> QED
    BY <1>0, <2>1, Zenon
<1>10. ASSUME W = 1..4, n = Len(b.code), Len(f) >= 5
       PROVE  answer'.block = b
  <2>1. /\ Len(f) = 5 + Len(b.code) /\ f[2] = pc /\ f[3] = 0
        /\ f[4] = Len(b.code) /\ f[5] = b.count
        /\ ReadAt(f, 5, Len(b.code)) = b.code
    <3>1. Content(f, pc, b, 1..4, Len(b.code))
      BY <1>7, <1>10, Zenon
    <3> QED
      BY <1>2, <3>1, CompleteFile DEF Complete
  <2>2. got[1] = pc /\ got[2] = 0 /\ size = Len(b.code) /\ got[4] = b.count /\ pos = 5
    BY <1>9, <1>10, <2>1
  <2>3. CodeRead(f, pos, size)
    BY <1>8, <2>1, <2>2 DEF CodeRead
  <2> QED
    BY <1>1, <1>8, <2>1, <2>2, <2>3
<1>11. saved[pc] # NoBlock => answer'.block = b /\ saved[pc] = b
  <2> SUFFICES ASSUME saved[pc] # NoBlock PROVE answer'.block = b /\ saved[pc] = b
    OBVIOUS
  <2>1. W = 1..4 /\ n = Len(b.code) /\ saved[pc] = b
    BY <1>7
  <2>2. Len(f) >= 5
    <3>1. Len(f) = 5 + Len(b.code)
      BY <1>2, <1>7, <2>1, CompleteFile DEF Complete
    <3> QED
      BY <1>8, <3>1
  <2> QED
    BY <1>10, <2>1, <2>2
<1>12. ASSUME answer'.block # NoBlock, 3 \notin damaged[pc]
       PROVE  answer'.block = b
  <2>1. got[1] = pc /\ got[2] = 0 /\ CodeRead(f, pos, size)
    BY <1>1, <1>12, Zenon
  <2>2. /\ Len(f) > 5 /\ 5 + size <= Len(f) /\ size > 0 /\ pos = 5
        /\ f[2] = pc /\ f[3] = 0 /\ f[4] = size
    BY <1>9, <2>1
  <2>3. n > 0
    <3>1. Len(f) = Start5(W) + n /\ Start5(W) \in 0..5 /\ n \in Nat
      BY <1>7, <1>8, FieldsInside DEF Content
    <3> QED
      BY <2>2, <3>1
  <2>4. 3 \in W
    BY <1>7, <1>12, <2>3
  <2>5. W = 1..4 /\ n = Len(b.code)
    <3>1. Tested(f, pc)
      BY <1>9, <2>2, Zenon DEF Tested
    <3> QED
      BY <1>2, <1>7, <2>4, <3>1, TestsSuffice
  <2>6. Len(f) >= 5
    BY <1>9, <2>2
  <2> QED
    BY <1>10, <2>5, <2>6
<1> QED
  BY <1>0, <1>5, <1>11, <1>12 DEF HOST_SIZE

LEMMA LoadCodeInv ==
    ASSUME AotInv, NEW p \in Procs, LoadCode(p)
    PROVE  AotInv'
<1>1. /\ proc' = [proc EXCEPT ![p] = Idle] /\ UNCHANGED <<files, saved, raced, damaged>>
      /\ answer'.pc = proc[p].pc /\ answer'.raced = (proc[p].pc \in raced)
      /\ answer'.damaged = damaged[proc[p].pc]
  BY DEF LoadCode, Answer
<1>2. AotTypeOK' /\ \A pc \in PCs \ raced' : Unraced(pc)'
  BY <1>1, EndInv
<1>3. LoadsWholeBlocks'
  <2>1. CASE proc[p].pc \in raced
    BY <1>1, <2>1 DEF LoadsWholeBlocks
  <2>2. CASE proc[p].pc \notin raced
    <3>1. \/ answer'.block = NoBlock
          \/ answer'.block \in Blocks[proc[p].pc]
          \/ HOST_SIZE \in damaged[proc[p].pc]
      BY <2>2, LoadAnswer
    <3> QED
      BY <1>1, <3>1 DEF LoadsWholeBlocks
  <2> QED
    BY <2>1, <2>2
<1> QED
  BY <1>2, <1>3 DEF AotInv

-----------------------------------------------------------------------------
(* The theorems                                                            *)

LEMMA AotNextInv ==
    ASSUME AotInv, [AotNext]_aotVars
    PROVE  AotInv'
<1>1. CASE UNCHANGED aotVars
  <2>1. UNCHANGED <<files, proc, saved, raced, damaged, answer>>
    BY <1>1 DEF aotVars
  <2>2. AotTypeOK' /\ LoadsWholeBlocks'
    BY <2>1 DEF AotInv, AotTypeOK, LoadsWholeBlocks
  <2>3. \A pc \in PCs \ raced' : Unraced(pc)'
    BY <2>1, Framed DEF AotInv
  <2> QED
    BY <2>2, <2>3 DEF AotInv
<1>2. ASSUME NEW p \in Procs, Step(p)
      PROVE  AotInv'
  <2>1. CASE \E pc \in PCs : LoadOpen(p, pc)
    BY <2>1, LoadOpenInv
  <2>2. CASE \E pc \in PCs : \E b \in Blocks[pc] : SaveOpen(p, b, pc)
    BY <2>2, SaveOpenInv
  <2>3. CASE SaveWrite(p)
    BY <2>3, SaveWriteInv
  <2>4. CASE SaveWriteFails(p)
    BY <2>4, SaveWriteFailsInv
  <2>5. CASE LoadField(p)
    BY <2>5, LoadFieldInv
  <2>6. CASE LoadCode(p)
    BY <2>6, LoadCodeInv
  <2>7. CASE Kill(p)
    BY <2>7, KillInv
  <2> QED
    BY <1>2, <2>1, <2>2, <2>3, <2>4, <2>5, <2>6, <2>7 DEF Step
<1> QED
  BY <1>1, <1>2 DEF AotNext

\* Whatever the processes do to the shared directory, the files without overlapping
\* operations hold what one save wrote.
THEOREM AotInvariant == AotSpec => []AotInv
<1>1. AotInv /\ [AotNext]_aotVars => AotInv'
  BY AotNextInv
<1> QED
  BY <1>1, InitTyped, PTL DEF AotSpec

\* load_aot_block answers with a block that some save_aot_block of that pc was given, or
\* with nothing, for any number of processes, kills and failing writes: the tests of
\* magic, pc and length are enough but for a failed write of host_size and for
\* overlapping operations.
THEOREM LoadedBlocksAreWhole == AotSpec => []LoadsWholeBlocks
<1>1. AotInv => LoadsWholeBlocks
  BY DEF AotInv
<1> QED
  BY <1>1, AotInvariant, PTL

\* A complete save is found by the next load of its pc that no operation overlaps.
THEOREM CompleteSavesAreFound == AotSpec => SavedIsFound
<1> DEFINE Found ==
       \A p \in Procs :
          /\ proc[p].op = "load" /\ proc[p].next = CODE /\ proc'[p] = Idle
          /\ proc[p].pc \notin raced
          /\ saved[proc[p].pc] # NoBlock
          /\ answer' # answer
          => answer'.block = saved[proc[p].pc]
<1>1. ASSUME AotInv, [AotNext]_aotVars
      PROVE  [Found]_aotVars
  <2> SUFFICES ASSUME NEW p \in Procs,
                      proc[p].op = "load", proc[p].next = CODE, proc'[p] = Idle,
                      proc[p].pc \notin raced, saved[proc[p].pc] # NoBlock, answer' # answer
               PROVE  answer'.block = saved[proc[p].pc]
    OBVIOUS
  <2>1. PICK q \in Procs : Step(q)
    BY <1>1, SMTT(60) DEF AotNext, aotVars
  <2>2. (\E pc \in PCs : LoadOpen(q, pc)) \/ LoadCode(q)
    BY <2>1 DEF Step, SaveOpen, SaveWrite, SaveWriteFails, WriteWords, LoadField, Kill
  <2>3. proc[p] # Idle
    BY IdleFact
  <2>4. q = p
    <3> SUFFICES ASSUME q # p PROVE FALSE
      OBVIOUS
    <3>1. proc'[p] = proc[p]
      BY <1>1, <2>2 DEF AotInv, AotTypeOK, LoadOpen, LoadCode
    <3> QED
      BY <2>3, <3>1
  <2>5. LoadCode(p)
    BY <2>2, <2>3, <2>4 DEF LoadOpen
  <2> QED
    BY <1>1, <2>5, LoadAnswer
<1> QED
  BY <1>1, AotInvariant, PTL DEF AotSpec, SavedIsFound
=============================================================================
