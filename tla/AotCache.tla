------------------------------ MODULE AotCache ------------------------------
(***************************************************************************)
(* The disk half of the FAE-Cache: save_aot_block and load_aot_block       *)
(* (src/src/cache/translation_cache.cpp).  The directory is shared by      *)
(* every emulator process of a user and by every program they run; a file  *)
(* is named by the guest pc alone.                                         *)
(*                                                                         *)
(* A file is a sequence of 4-byte words: magic, arm_pc (two words),        *)
(* host_size, arm_instr_count and the code; host_size counts words.  Each  *)
(* write and each read is a step of its own, at the offset its file        *)
(* descriptor has reached; a process may be killed between any two.  A     *)
(* write may fail, as on a full disk, or write only part of the code:      *)
(* save_aot_block looks at no result, goes on with the next and returns    *)
(* true.  load_aot_block ignores the results of its reads of the last three*)
(* header fields: past the end of the file the variable keeps whatever it  *)
(* held, words of Garbage.                                                 *)
(***************************************************************************)
EXTENDS Integers, Sequences

CONSTANTS Procs,        \* emulator processes
          PCs,          \* guest addresses
          Blocks,       \* pc -> the translations [code, count] programs have of it
          Garbage,      \* what an uninitialised word may hold
          MaxOps,       \* saves and loads begun in a behaviour
          MaxFailures   \* writes that fail in a behaviour

ASSUME AotConstants ==
    /\ PCs \subseteq Nat /\ Garbage \subseteq Nat /\ MaxOps \in Nat /\ MaxFailures \in Nat
    /\ \A pc \in PCs : \A b \in Blocks[pc] :
          b \in [code : Seq(Nat) \ {<<>>}, count : Nat]

VARIABLES files,    \* pc -> contents, for the files that exist
          proc,     \* what each process is doing
          ops,      \* operations begun
          failures, \* writes that failed
          saved,    \* history: the block of the last save, once it is complete
          raced,    \* history: files with overlapping operations since they were
                    \* last truncated by a process alone on them
          damaged,  \* history: pc -> the failed writes of its file since then
          answer    \* the last answer of load_aot_block

aotVars == <<files, proc, ops, failures, saved, raced, damaged, answer>>

MAGIC == 17

\* host_size, at most the 4096 bytes of a code buffer, is neither the magic number
\* 0x46414543 nor a guest address: nothing is mapped that low.
ASSUME SizesTellApart ==
    \A pc \in PCs : \A b \in Blocks[pc] : Len(b.code) \notin {MAGIC, pc}

\* The fields of the header, in the order they are written and read, and their
\* lengths; the code follows as the fifth.
HOST_SIZE == 3
CODE == 5
Width == <<1, 2, 1, 1>>

\* nullptr
NoBlock == [code |-> <<>>, count |-> 0]

\* The calls of write, in order.
Writes(pc, b) == << <<MAGIC>>, <<pc, 0>>, <<Len(b.code)>>, <<b.count>>, b.code >>

Idle == [op |-> "idle"]

\* A process in the middle of an operation: the block to save, the next field, the
\* file offset, the words read, whether all writes so far succeeded.
Busy(op, b, pc) ==
    [op |-> op, block |-> b, pc |-> pc, next |-> 1, pos |-> 0, got |-> <<>>, whole |-> TRUE]

AotInit ==
    /\ files = <<>>
    /\ proc = [p \in Procs |-> Idle]
    /\ ops = 0 /\ failures = 0
    /\ saved = [pc \in PCs |-> NoBlock]
    /\ raced = {} /\ damaged = [pc \in PCs |-> {}]
    /\ answer = [pc |-> 0, block |-> NoBlock, raced |-> FALSE, damaged |-> {}]

\* Processes in the middle of one of these operations on a file.
Using(pc, kinds) == {p \in Procs : proc[p].op \in kinds /\ proc[p].pc = pc}

\* Mutant: an existing file is not truncated.
OpenedInPlace(pc) ==
    [q \in DOMAIN files \cup {pc} |-> IF q \in DOMAIN files THEN files[q] ELSE <<>>]

\* open(path, O_WRONLY | O_CREAT | O_TRUNC)
Opened(pc) == [q \in DOMAIN files \cup {pc} |-> IF q = pc THEN <<>> ELSE files[q]]

SaveOpen(p, b, pc) ==
    /\ proc[p] = Idle /\ ops < MaxOps
    /\ proc' = [proc EXCEPT ![p] = Busy("save", b, pc)]
    /\ ops' = ops + 1
    /\ files' = Opened(pc)
    /\ saved' = [saved EXCEPT ![pc] = NoBlock]
    /\ raced' = IF Using(pc, {"save", "load"}) # {} THEN raced \cup {pc} ELSE raced \ {pc}
    /\ damaged' = [damaged EXCEPT ![pc] = {}]
    /\ UNCHANGED <<failures, answer>>

\* write at an offset: a gap left by another process's truncation reads as zero.
Overwritten(f, pos, ws) ==
    LET end == pos + Len(ws)
    IN [k \in 1..(IF end > Len(f) THEN end ELSE Len(f)) |->
           IF k \in pos + 1 .. end THEN ws[k - pos] ELSE IF k <= Len(f) THEN f[k] ELSE 0]

\* One call of write, of which ws is what reaches the file; after the last the
\* file is closed.
WriteWords(p, ws) ==
    LET s == proc[p]
        all == Writes(s.pc, s.block)[s.next]
        whole == s.whole /\ ws = all
    IN /\ s.op = "save"
       /\ files' = [files EXCEPT ![s.pc] = IF ws = <<>> THEN @ ELSE Overwritten(@, s.pos, ws)]
       /\ proc' = [proc EXCEPT ![p] =
                      IF s.next = CODE THEN Idle
                      ELSE [s EXCEPT !.next = @ + 1, !.pos = @ + Len(ws), !.whole = whole]]
       /\ saved' = IF s.next = CODE /\ whole THEN [saved EXCEPT ![s.pc] = s.block] ELSE saved
       /\ damaged' = IF ws = all THEN damaged ELSE [damaged EXCEPT ![s.pc] = @ \cup {s.next}]
       /\ UNCHANGED <<ops, raced, answer>>

SaveWrite(p) ==
    /\ proc[p].op = "save"
    /\ WriteWords(p, Writes(proc[p].pc, proc[p].block)[proc[p].next])
    /\ UNCHANGED failures

\* A header field is written whole or not at all, the code perhaps in part.
SaveWriteFails(p) ==
    /\ proc[p].op = "save" /\ failures < MaxFailures
    /\ \E n \in 0..(IF proc[p].next = CODE THEN Len(proc[p].block.code) - 1 ELSE 0) :
          WriteWords(p, SubSeq(proc[p].block.code, 1, n))
    /\ failures' = failures + 1

\* The process is killed and another takes its place.
Kill(p) ==
    /\ proc[p] # Idle
    /\ proc' = [proc EXCEPT ![p] = Idle]
    /\ UNCHANGED <<files, ops, failures, saved, raced, damaged, answer>>

-----------------------------------------------------------------------------

Answer(pc, b) ==
    answer' = [pc |-> pc, block |-> b, raced |-> pc \in raced, damaged |-> damaged[pc]]

\* open(path, O_RDONLY) and the read of the magic number.
LoadOpen(p, pc) ==
    /\ proc[p] = Idle /\ ops < MaxOps
    /\ ops' = ops + 1
    /\ IF pc \in DOMAIN files /\ files[pc] # <<>> /\ files[pc][1] = MAGIC
       THEN /\ proc' = [proc EXCEPT ![p] =
                           [Busy("load", NoBlock, pc) EXCEPT !.next = 2, !.pos = 1]]
            /\ UNCHANGED answer
       ELSE /\ Answer(pc, NoBlock)
            /\ UNCHANGED proc
    /\ raced' = IF Using(pc, {"save"}) # {} THEN raced \cup {pc} ELSE raced
    /\ UNCHANGED <<files, failures, saved, damaged>>

\* read: what the file has of n words at an offset.
ReadAt(f, pos, n) == SubSeq(f, pos + 1, IF pos + n <= Len(f) THEN pos + n ELSE Len(f))

\* The reads of stored_pc, host_size and out_instr_count.
LoadField(p) ==
    LET s == proc[p]
        there == ReadAt(files[s.pc], s.pos, Width[s.next])
    IN /\ s.op = "load" /\ s.next < CODE
       /\ \E rest \in [Len(there) + 1 .. Width[s.next] -> Garbage] :
             proc' = [proc EXCEPT ![p].next = @ + 1,
                                  ![p].pos = @ + Len(there),
                                  ![p].got = @ \o [k \in 1..Width[s.next] |->
                                        IF k <= Len(there) THEN there[k] ELSE rest[k]]]
       /\ UNCHANGED <<files, ops, failures, saved, raced, damaged, answer>>

\* Mutant: off by one, a file that ends with the code counts as short.
CodeReadStrictly(f, pos, size) == size > 0 /\ pos + size < Len(f)

\* mmap of no bytes fails; a short read of the code is noticed.
CodeRead(f, pos, size) == size > 0 /\ pos + size <= Len(f)

\* The test of stored_pc, the mmap and the read of the code.
LoadCode(p) ==
    LET s == proc[p]
        f == files[s.pc]
    IN /\ s.op = "load" /\ s.next = CODE
       /\ Answer(s.pc, IF s.got[1] = s.pc /\ s.got[2] = 0 /\ CodeRead(f, s.pos, s.got[3])
                       THEN [code |-> ReadAt(f, s.pos, s.got[3]), count |-> s.got[4]]
                       ELSE NoBlock)
       /\ proc' = [proc EXCEPT ![p] = Idle]
       /\ UNCHANGED <<files, ops, failures, saved, raced, damaged>>

Step(p) ==
    \/ \E pc \in PCs : LoadOpen(p, pc) \/ \E b \in Blocks[pc] : SaveOpen(p, b, pc)
    \/ SaveWrite(p)
    \/ SaveWriteFails(p)
    \/ LoadField(p)
    \/ LoadCode(p)
    \/ Kill(p)

AotNext == \E p \in Procs : Step(p)

AotSpec == AotInit /\ [][AotNext]_aotVars

-----------------------------------------------------------------------------
(* Properties                                                              *)

\* Unless operations on the file overlapped, load_aot_block answers with a
\* block some save_aot_block of that pc was given, or with nothing: never with
\* one put together from two saves, from a file whose save was cut short by the
\* death of its process, or from what was in memory.  Of the writes whose failure
\* save_aot_block ignores, the tests of magic, pc and length notice all but that
\* of host_size, after which the fields behind it are read out of place.
LoadsWholeBlocks ==
    \/ answer.raced
    \/ answer.block = NoBlock
    \/ answer.block \in Blocks[answer.pc]
    \/ HOST_SIZE \in answer.damaged

\* A complete save is not lost: the next load of its pc, by whatever process,
\* answers with it, whatever was killed or failed before.
SavedIsFound ==
    [][\A p \in Procs :
          /\ proc[p].op = "load" /\ proc[p].next = CODE /\ proc'[p] = Idle
          /\ proc[p].pc \notin raced
          /\ saved[proc[p].pc] # NoBlock
          /\ answer' # answer
          => answer'.block = saved[proc[p].pc]]_aotVars
=============================================================================
