# bbarm64 in TLA+

bbarm64 runs AArch64 Linux programs on x86_64.  It loads an ELF image into its
own address space, translates basic blocks into host code that it keeps in a
cache, and interprets what it could not translate.  This directory holds TLA+
models of the parts that carry that logic, TLC configurations that check them
on small instances, and TLAPS proofs for all instances about the translation
cache, the engine and its refinement of an Arm machine, the memory manager and
its system calls, the loaders, the initial stack and the AOT cache.

Paths below are relative to the repository (`src/` in `PROJECT.json`).

## 1. The system

| Component | State | Operations | Talks to |
|---|---|---|---|
| FAE-Cache, memory (`cache/translation_cache.cpp`) | `block_map_`, `code_pool_used_`, `access_counter_` | `lookup`, `insert`, `alloc_host_code`, `invalidate`, `invalidate_range`, `promote_hot`, `evict_cold` | called by the engine |
| FAE-Cache, disk (same file) | one file per guest pc in a directory shared by all emulators of a user | `save_aot_block`, `load_aot_block` | file system |
| Execution engine (`core/exec_engine.cpp`) | `CPUContext`, iteration count, `jmp_buf` | `run`, `translate_block`, `execute_block`, `signal_handler` | cache, memory, decoder, IR, lowering, system calls |
| Interpreter (`execute_decoded`, same file) | `CPUContext`, guest memory | one case per opcode | memory manager |
| Decoder (`decoder/arm64_decoder.cpp`) | none | `decode` and a function per group of encodings | - |
| IR builder, optimizer (`ir/`) | the IR block | `build`, `optimize` | decoder output |
| Lowering, emitter (`backend/`) | the code buffer | `lower_block` | IR |
| Memory manager (`core/memory_manager.cpp`) | `regions_`, `mmap_base_`, `brk_`, `translated_pages_` | `mmap`, `munmap`, `mprotect`, `set_brk`, reads and writes, `mark_translated_page` | host kernel |
| System calls (`syscall/`) | the table of numbers | `execute`, one handler per call, `passthrough_syscall` | memory manager, host kernel |
| ELF loader (`elf/elf_loader.cpp`) | program headers | `load_segments` | memory manager |
| Initial stack (`main.cpp`) | the guest's stack, `sp` | the pushes of `main` | memory manager |
| TLS (`threading/tls_emu.cpp`) | the block | `allocate_tls_block`, `set_tls_base` | memory manager, host |
| Dynamic linker (`elf/dynlink.cpp`) | `loaded_libs_` | `load_library`, `process_relocations` | memory manager; constructed by `main`, not called |
| Thread manager, block chaining, register allocator | | not reached by a run of the emulator | |
| Configuration, log, profiler, Rust allocator | | not part of the guest's execution | |

One thread runs the guest.  Concurrency comes from outside: other emulator
processes share the AOT directory, and the process may be killed between any
two system calls.  What makes the rest hard is second copies of the same fact
that must agree:

* host code and the guest instructions it was made from (the cache);
* two implementations of every instruction, chosen by the state of the cache;
* the region list and the kernel's page tables;
* the decoder's tests of bit patterns and the architecture's encodings, the
  table of system calls and the two kernels' numberings;
* `x[30]` and `ctx.lr`, EFLAGS and `ctx.nzcv`;
* the addresses `main` stores in the auxiliary vector and what is pushed over
  the bytes they point to later.

`PROJECT.json` lists the hazards one by one, at the lines where they bite.

What makes each component correct:

* cache: code memory is never shared, not even with the buffer being emitted
  into; eviction is LRU; growth past the capacity is bounded;
* engine: the guest cannot tell the cached, translated execution from one that
  fetches each instruction from memory; `run` ends;
* JIT and interpreter: the same block has the same effect both ways;
* decoder: a word is decoded as what it is or rejected; a branch is never taken
  for an instruction that falls through;
* memory: what `check_perms` lets through does not fault; live mappings do not
  overlap;
* system calls: the kernel is asked for what the guest asked for, and the guest
  sees the result;
* loader: every segment holds its file bytes and a zero bss with the permissions
  of its header, whatever is loaded after it; the same for a library, whose
  pointers lead to the bytes they were linked to;
* stack: the guest finds argc, argv and the auxiliary vector where the ABI says;
* AOT cache: a load answers with a block that was saved, whole, or with nothing.

## 2. Modules

| Module | Models | Composes |
|---|---|---|
| `TranslationCache` | the map, the pool, the LRU counter | |
| `TranslationCacheProofs` | theorems about the cache | `TranslationCache` |
| `ExecEngineProofs` | theorems about the engine | `ExecEngine`, `TranslationCacheProofs` |
| `GuestRefinement` | the engine implements `GuestMachine` | `ExecEngineProofs` |
| `MemoryManagerProofs` | lemmas about pages, region list and page tables | `MemoryManager` |
| `SyscallsProofs` | theorems about system calls and memory | `MCSyscalls`, `MemoryManagerProofs` |
| `LoaderProofs` | theorems about loader and linker | `DynLink`, `MemoryManagerProofs` |
| `StackSetupProofs` | theorems about the initial stack | `StackSetup` |
| `AotCacheProofs` | theorems about AOT files | `AotCache` |
| `GuestCode` | guest instructions as control flow tells them apart | |
| `GuestMachine` | **abstract specification**: an Arm machine without cache or translation | `GuestCode` |
| `ExecEngine` | run loop, translation, host code, faults, interpreter | `TranslationCache`, `GuestCode`; refines `GuestMachine` |
| `JitPipeline` | IR builder, flag merging, lowering and interpreter on one block | |
| `Decoder` | `ARM64Decoder::decode` | |
| `A64` | **reference**: the architecture's encodings and what `decode` should make of them | `Decoder` |
| `MemoryManager` | regions, bump pointer, break, the kernel's page tables | |
| `SyscallTable` | the table of numbers, and the kernels' own numbering as **reference** | |
| `Syscalls` | the handlers, and the way of their results to `x0` | `MemoryManager`, `SyscallTable` |
| `ElfLoader` | `load_segments`, TLS block, stack allocation | `MemoryManager` |
| `DynLink` | `load_library` and relocation after the program is loaded; `StartSpec` is the whole start | `ElfLoader` |
| `StackSetup` | the initial stack | |
| `AotCache` | save and load of AOT files, one system call per step | |
| `MC*` | instances for TLC; `MCSyscalls` is the guest that makes the calls | the module of that name (`MCDecoder`: `A64`; `MCElfLoader`: `DynLink`) |

### TranslationCache

`block_map`, `code_pool_used` and `access_counter` are the fields of the class.
`pending` is the local variable `host_code` of `translate_block` between
`alloc_host_code` and `insert`.  There is an action per operation.  The order of
iteration of `unordered_map` is a choice among all minima of `last_access`
(`Coldest`); `StampsDistinct` shows there is only one.  `alloc_host_code` on a
full pool evicts a block and fails (`AllocHostCodeFails`): that is the code's
"compaction".

### ExecEngine

`phase` is the program counter of the thread in `run`.  Guest data is left out,
so a conditional branch may go either way, and host code is the sequence of
guest instructions it was made from together with the address built into it:
`pool[h]` is the contents of the code pool.  A fault in host code returns
through `execute_block` as crashed (`RunFault`); a fault anywhere else makes
`signal_handler` jump to a dead frame, which is undefined: the process dies or
the loop ends (`HostFault`).  Code memory is partial: an address outside it is
not mapped.  A system call may fill a buffer that holds code, take a page away or
put a fresh one there, whose zeroes decode as AND X0, X0, X0; `mremap` empties
`translated_pages` and leaves the blocks.  Taking access to code away with
`mprotect` and giving it back is not among them.  A block of more than `FitBlock`
instructions (43 in the code, `ShortBlocksFit`) may have lost its end: the host
then faults or runs on into the next buffer (`RunOff`).

`GuestMachine` fetches every instruction when it executes it.  It allows two
liberties: a crash may be reported anywhere on the straight-line run that leads
to it (an emulator that translates ahead meets it early), and the emulator may
give up (the limit on iterations).  The refinement mapping takes the pc from the
position in the block while host code runs, and from `ctx.pc` otherwise.

The engine departs from the machine in known places, which `Diverges` lists (see
section 6).  `SupportedSpec` is the engine up to the first such step.
`Spec` and `FairSpec` have all its behaviours.

### JitPipeline

A block goes through `Build`, `FlagMerging` and the `Host*` actions on context
`jit`, then through the `Interp*` actions on context `ref`.  The byte sizes of
the emitted code are kept (`Size`, `Truncated`) because the buffer has 4096
bytes and `emit_byte` drops what does not fit; the bytes themselves are not.
Words have 4 bits in the runs and lanes 2; `branch_offset` is unsigned below
`OffsetWrap` (2^32 in the code), and each place that adds it extends its sign or
does not, as the code has it.  Only instructions the decoder can
produce appear; `OpcodesDisjoint` of `A64` shows which those are.

### Decoder, A64

A word is a pair of halfwords, since TLC's integers have 32 bits.  Each
`decode_*` function is an operator that returns a `DecodedInstr`; `First` is the
chain of tests of which the first that holds decides.  Two things of the C++ are
easy to lose and kept: a function that rejects a word may have set `size`
already, and an opcode that no test sets stays 0, which is ADD.  `A64` states the
encodings from the architecture manual, not from the code, as sets of fixed
fields, `Means` what the record should hold, operands, width and flag setting
included, and `Faithful` for which words of each class it does.

### MemoryManager, Syscalls

`host` is the kernel's view, beside the manager's `regions`.  Every request to
the kernel may be refused, and an `mprotect` may stop at any of its pages with
those before it changed (`Stops`); the manager has changed its list by then and
does not change it back.  A handler is an action that sets `last`, a record of
the call, and `x0` to what `handle_syscall` makes of the result: an `int`
(`ToInt`).  `read` and `write` copy through a buffer of the emulator; `input`
and `given` count what has left standard input and what has reached the guest.
`mremap` goes to the kernel without the manager.  For the calls that are handed
on, `last.asked` is the number the kernel gets.  `whole` in `MCSyscalls` is a
history variable: so far the guest has unmapped and protected only what it had
mapped, as it had mapped it.  `refused` holds the regions whose last `mprotect` was
refused.  `EfaultExplained` speaks of transfers of at least
one byte: one of none, to an address no region holds, is refused too.

### ElfLoader, DynLink

`data` names for each byte of memory the file byte it holds; a relocation stores
a `Pointer`.  `load_library` adds `base_addr` to every address of the library,
and goes on after the program's start-up on the same memory.  A failed load
leaves what it has mapped, and a second call maps it again.  The `mprotect` that
takes the write permission back may be refused and neither loader looks at its
result; `refused` is a history variable that names the program's segments it
happened to.

### StackSetup

Each push of `main` is an action, in words of 8 bytes.  `Getauxval` is the walk
a guest's libc makes.

### AotCache

Each `write` and `read` is a step at the offset of its descriptor, in words of 4
bytes.  Results the code ignores are ignored: a write that fails leaves the
offset where it was and the next one goes there (`SaveWriteFails`); a header
field that could not be read keeps whatever the variable held (`Garbage`).
`raced` and `damaged` are history variables: files on which a save overlapped
another operation since their last clean truncation, and the writes that failed
since then.

## 3. Runs

`tlc -config X.cfg M` in this directory; `PROJECT.json` gives module and cfg.

| Run | Checks | Distinct states |
|---|---|---|
| `cache` | all properties of the cache under any sequence of operations | 176,521 |
| `engine_guest` | `CacheCoherent`; `ImplementsGuest`: the engine refines `GuestMachine` up to the first known divergence | 411,080 |
| `engine_all` | every kind of instruction, divergences included: `Termination`, `BlocksWellFormed`, `ExhaustionIsPermanent` | 56,026 |
| `syscalls` | `BumpRegionsDisjoint`; region list and page tables agree for a guest that unmaps and protects whole regions, but for the regions whose `mprotect` was refused (`WholeRegionsSafe`, `EfaultExplained`); all but 35 numbers ask the kernel for the call meant (`SameCallAsked`); failures and mappings reach the guest within the width of `int` (`FailureSeen`, `MmapUsable`) | 355,264 |
| `loader` | `ImageIntact`, `ApartUntilReload`, `LibraryLinked`; `SegmentPermissions`: a refused `mprotect` leaves the write permission and changes nothing else; only a segment in page 0 makes the loader fault (`FaultsOnlyInPageZero`), and only that or a relocation in a read-only page the linker (`LinkerFaults`) | 114,877 |
| `stack` | `StackLayout`; exactly which path lengths survive in argv[0] (48 bytes) and AT_EXECFN (16); which entries a walk finds | 300 |
| `jit` | blocks of instructions with one meaning compute the same both ways; flag merging keeps the last flags; up to 43 instructions fit the buffer (`ShortBlocksFit`) | 506,896 |
| `aot` | two processes, killed anywhere, with failing writes: loads answer with whole blocks and complete saves are found | 2,728,724 |
| `decoder` | `BranchesEndBlocks`, `OpcodesDisjoint`, `FaithfulClasses` (exactly the words of `Faithful` are decoded as the architecture means them), `OnlyBranchesBranch` (only branches, and six named groups, are decoded as branches) | 331,778 |
| `engine_smc` | *violated*: cached code is stale after the guest overwrites its code | |
| `jit_cbz` | *violated*: a translated CBZ tests flags its comparison did not leave | |
| `decoder_supported` | *violated*: instructions listed as supported decode as others | |

### Bounds

* `cache`: three addresses against a capacity of two, a pool of seven units with
  requests of two: eviction, overgrowth, a full pool with a rest too small for a
  block, and reuse of an address all occur.  `MaxAccess` = 5 leaves
  room for three insertions and the two hits that make a block hot.  The proofs
  remove these bounds.
* `engine_guest`: all 14^4 programs of four instructions, system calls
  that reach code among them; blocks of at most two
  instructions, so that blocks are cut, a capacity of two and a pool of three
  blocks, so that both fill within the 12 iterations and the interpreter takes
  over while old blocks are still cached.
* `engine_all`: all 18^3 programs over every kind of instruction, pool of two.
  Pages of 8 bytes hold two instructions, so blocks cross pages.  `FitBlock` is 1
  and blocks have up to two instructions, so host code runs off its buffer.
* `syscalls`: pages of two bytes, so that accesses straddle pages; lengths 0 and 3
  (a refused call, and a region of two pages whose second can be unmapped alone);
  the addresses of a region with a hint and of one without, and one unaligned; `int` has 128 values,
  so that the arena lies on both sides of the largest; 5 calls, of which three
  can map, change and use a region after one that failed.  The calls that do not
  touch memory (every number from 0 to 450) come first: they leave the rest as it
  is.
* `loader`: pages of four bytes, two segments with every combination of offset in
  the page, hole, file part and bss, three permission sets, with and without TLS;
  then two loads of libraries with one or two segments, one of them linked at
  address 0, RELA and REL entries in writable and in read-only pages, for some of
  those images (`Linked`).
* `decoder`: all 2^11 values of bits 31 to 21 with patterns of the lower bits that
  tell the classes and the ends of the displacements apart (of 19, 21 and 26
  bits), registers 0, 30 and 31 among them, SVC, and NOP.  The C++ decoder and
  the model were also run against each other on 294,912 words, with no
  difference.
* `stack`: paths of 1 to 10 words against a reserve of 8.
* `jit`: pairs of instructions, with a forward and a backward displacement.  Translation has no state that lives longer than
  from one instruction to the next (the flags), so pairs cover it.  Blocks of 43
  to 45 of the longest translations, two kinds in turn, for the buffer: since
  `flag_merging` leaves no two saves in a row, alternation is the worst case.
  The sizes were compared with those the emitter produces.
* `aot`: four operations by two processes on a file with two programs' blocks of
  different length, one failing write.  Operations on different files share
  nothing.

`MaxAccess`, `MaxIter`, `MaxRegions`, `MaxCalls`, `MaxLibs`, `MaxOps` and
`MaxFailures` bound the behaviours;
`MaxIter` is the code's own `max_iter`.  In the engine runs `MaxAccess` is not
below `MaxIter`, so it never stops a step.

### Fairness

Only `Termination` needs it: weak fairness of `Next`.  The run loop is a single
thread of straight-line C++ that waits for nothing but the host's scheduler
(system calls that block are one opaque step), so it always takes its next step.
The property is not free: a word that does not decode leaves pc and the count as
they are, and only the crashed state keeps the loop from meeting it for ever;
its mutant forgets to set it.

Deadlock is checked everywhere but in `aot`, where a behaviour ends after
`MaxOps` operations; in the others `Finished`, `Over`, `Ready`, `Ended` and `Done` mark
the places where the code really has come to an end.

## 4. Proofs

`tlapm M.tla` checks module M.  Every theorem holds for all values of the
constants that satisfy the named assumptions of the models; the runs' bounds
(`MaxAccess`, `MaxRegions`, `MaxCalls`, `MaxLibs`, `MaxOps`, `MaxFailures`) remain in the
proved specifications as arbitrary natural numbers.

| Module | Theorem | States |
|---|---|---|
| `TranslationCacheProofs` | `CacheInvariant` | `[]CacheInv` |
| | `CacheTypeCorrect` | `CacheTypeOK`: the bump pointer stays in the pool |
| | `CodeNeverOverlaps` | `BlocksDisjoint` |
| | `EmissionIsSafe` | `PendingDisjoint` |
| | `StampsAreDistinct` | `StampsDistinct` |
| | `HotnessIsConsistent` | `HotMatchesHits` |
| | `EvictionIsLRU` | `EvictsLeastRecent`, an action property |
| | `GrowthIsBounded` | `OvergrowthIsPinned` |
| `ExecEngineProofs` | `EngineInvariant` | `[]EngineInv` |
| | `EngineTypeCorrect` | `EngineTypeOK` |
| | `BlocksKeepShape` | `BlocksWellFormed` |
| | `PoolNeverRecovers` | `ExhaustionIsPermanent`, an action property |
| | `CoherentInvariant` | `SupportedSpec => []CoherentInv` |
| | `CacheIsCoherent` | `CacheCoherent`, up to the first divergence |
| `GuestRefinement` | `EngineImplementsGuest` | `ImplementsGuest`, the refinement |
| `SyscallsProofs` | `CallsInvariant` | `[]CallsInv` |
| | `CallsTyped` | `SyscallTypeOK` |
| | `FailuresReachGuest` | `FailureSeen` |
| | `MappingsUsable` | `MmapUsable` |
| | `WholeGuestsSafe` | `WholeRegionsSafe` |
| | `EfaultIsDeserved` | `EfaultExplained` |
| | `BumpNeverOverlaps` | `BumpRegionsDisjoint`, if all hints are below `MmapStart` |
| `LoaderProofs` | `StartInvariant` | `StartSpec => []StartInv` |
| | `SegmentsStayIntact` | `ImageIntact` |
| | `SegmentsKeepPermissions` | `SegmentPermissions` |
| | `RegionsStayApart` | `ApartUntilReload` |
| | `LoaderFaultsOnlyInPageZero` | `FaultsOnlyInPageZero` |
| | `LibrariesAreLinked` | `LibraryLinked` |
| | `LinkerFaultsAreTheseTwo` | `LinkerFaults` |
| `StackSetupProofs` | `StackInvariant` | `[]StackInv` |
| | `GuestFindsLayout` | `StackLayout` |
| | `ArgvHoldsShortPaths` | `ArgvSurvives` |
| | `ExecfnHoldsShorterPaths` | `ExecfnSurvives` |
| | `WalkFindsEntries` | `EntriesFound` |
| `AotCacheProofs` | `AotInvariant` | `[]AotInv` |
| | `LoadedBlocksAreWhole` | `LoadsWholeBlocks` |
| | `CompleteSavesAreFound` | `SavedIsFound`, an action property |

### The cache

The inductive invariant `CacheInv` is the conjunction of the type invariant and
the four state properties.  None of them is inductive alone: `insert` turns the
pending buffer into a block, so `BlocksDisjoint` needs `PendingDisjoint`; the
next buffer starts at the bump pointer, so `PendingDisjoint` needs the part of
`BlocksDisjoint` that keeps all blocks below it; a new stamp is fresh only
because none lies in the future.  `GoodMap` collects what is said of the map and
is inherited by parts of it, which covers eviction in one lemma; relabelling
(`invalidate`, `promote_hot`) is another.

`OvergrowthIsPinned` counts cold blocks.  `GrowthInv` says without counting that
past the capacity any two cold blocks are the same one, and is inductive under
`CacheInv`.  Its hard case is `insert` at the capacity with a cold block present:
`evict_cold` then really removes one.  `EvictionIsLRU` follows from
`StampsDistinct`: among distinct stamps the minimum is strict.

### The engine

`EngineInv` adds to `CacheInv` the engine's types, `BlocksWellFormed` and
`Control`: what each phase of `run` implies of the pending buffer, of the running
block and of `pc`.  Without `Control` an `insert` could take a buffer nobody
filled; without the disjointness in `CacheInv` emitting a block could overwrite
one in the map.  It holds whatever happens to code memory, since a block is made
of what was read when it was translated.  `CoherentInv` adds that each block in the map, and the host code being
run, is what translation would make of memory now.  It is inductive only under
`SupportedSpec`, since a store to code is a divergence, and so is a system call that reaches
translated code, and only because code
memory is never reused (`BlocksDisjoint`, `PendingDisjoint`): the bytes of a
block that is running stay when it is evicted.

`GuestRefinement` is the step simulation: initial states map to initial states,
and each action of the engine maps to a step of `GuestMachine` or to a stutter,
one lemma per action.  Lookup, translation and insertion stutter; an executed
instruction is a step of the machine because `CoherentInv` says that what the
host executes is what the machine fetches.  A translation that meets a word the
decoder rejects is a crash the machine may report early (`Doomed`).

### Memory and system calls

`CallsInv` holds beside the types: the handler's result and `x0` agree and are
negative exactly on failure; after an mmap the newest region is the mapped one
and the host has its permissions; EFAULT was answered only for what
`check_perms` refuses; and, while the guest keeps to whole regions, `Agree`:
regions are page aligned, do not overlap, and the host maps each of their pages,
with the region's permissions unless the region's last `mprotect` was refused.  `WholeRegionsSafe` is not inductive: it looks at
accesses of one or two bytes through the first region that holds them, and says
nothing of regions hidden behind another; `Agree` does.  An `munmap` or
`mprotect` of one whole region then meets no page of another (`ApartPages`).

The constants' assumptions: addresses, lengths and hints are natural numbers
(`CallConstants`), `int` has an even number of values, more than 76, so that
every error number fits (`SyscallConstants`).  `BumpNeverOverlaps` carries its
condition in its statement: a hint in the bump pointer's half of the arena is
mapped with MAP_FIXED over whatever is there, so without it the claim is false.
`BumpInv` adds to `BumpRegionsDisjoint` that the pointer never goes below
`MmapStart`.

The region list is scanned for the first match and filtered; that the scan finds
the first (`CheckFact`, `ReprotectFact`) and the filter keeps an ordered
selection (`SurvivorsFact`) is proved by taking the least counterexample, from
the well-foundedness of `<` on the naturals (`LeastIndex`).

### Loader and linker

`StartInv` has three parts.  `MemInv`: every region lies below the bump pointer,
the pointer never goes below `MmapStart`, and page 0 is never mapped.  `LoadInv`
says of each segment of the program, by where `load_segments` stands, that its
pages are still free of any region (`Free`), or that exactly one region is theirs
and the host gives them its permissions (`Has`), with the extra write permission
until it is taken back, or for ever on some pages if that was refused, and that
memory holds its bytes.  `LinkInv` says of
the library being loaded that the pages of its segments are mapped and hold its
bytes, but for the relocations already applied, which hold their pointers, and
that the pages of a library still to come are free.  `ImageIntact` and
`SegmentPermissions` are not inductive: they are silent on segments still to be
mapped, and it is because those do not share a page with what is there that a
later MAP_FIXED or `mprotect` leaves the earlier ones alone; and they say nothing
of the half done segment, whose permissions are not its header's.  From the
second `load_library` on, a segment may be mapped over the remains of another, so
`Has` and `Free` fail for libraries then, and `LinkInv` keeps to what the host
maps.

The lemmas are about an arbitrary region list and page table and a mapping or
protection of whole pages in it (`Has` and `Free` survive what happens to pages
aside from theirs), so that one lemma serves loader, TLS block, stack and linker;
`LoaderProofs` then has one lemma per action and per part of the invariant.

The layout the theorems assume is not checked by the code; what produces it is
the static linker that made the file.  `ImageLayout`: the segments of one program
share no page and lie below the bump pointer's half of the arena.
`LibraryLayout`: so do a library's, at the base address it gets, and they share
none with the program's (for two files linked to the same addresses the linker
maps one over the other, MAP_FIXED, which is why it is an assumption); RELATIVE
relocations lie in segments and no two at one place.  `LoaderConstants` and
`LibraryConstants` add `filesz <= memsz` and `memsz > 0`, which ELF requires, and
that a library has a segment to load.  `MemoryConstants` has `Arena > 0`: the host
never returns address 0 from an mmap, so page 0 stays unmapped.  All of them are
evaluated by TLC in the run `loader`.

### The initial stack

`StackInv` says after each push which words of the stack are final and how much
of the two copies of the path is left.  The final layout alone is not inductive:
the path copies are written before the pushes that overwrite them, and argv[0]'s
copy overwrites AT_EXECFN's.  The bounds of 48 and 16 bytes come out of it.

### AOT files

For a file on which no save overlapped another operation, `Unraced` says what it
holds after each write of the save in progress (`FileInv`: the fields of one
block whose writes did not fail, moved together, and code only behind them),
that a saver is alone (`SavesAlone`), and what a load has read after each read
(`LoadState`).  `SizesTellApart` is needed: if the write of the magic number or
of the pc failed, `host_size` is read in its place, and must not be taken for it.

### Only model-checked

* `Termination`: liveness under fairness is out of the prover's reach.
* `JitPipeline`: its bitwise operators have no support in the provers.
* `SameCallAsked`: a statement about two finite tables, which TLC enumerates.
* The properties of the decoder: a word is taken apart by division by powers of
  two and looked up in sequences of masks; the provers have neither exponentiation
  nor the search for the first match in a literal sequence, and splitting by hand
  would repeat the table.  TLC enumerates the encodings.

## 5. Findings

The three violated runs:

* **Self-modifying code is not detected** (`engine_smc`, `exec_engine.cpp:330`).
  `README.md:63` documents `BBARM64_SMC_DETECT`; nothing calls `invalidate` or
  `is_translated_page`.
* **Supported instructions decode as others** (`decoder_supported`,
  `arm64_decoder.cpp:200`).  `README.md:127` lists AND; its encoding is given to
  ANDS, which the interpreter does not know.
* **CBZ and CBNZ test the wrong flags in host code** (`jit_cbz`,
  `x86_64_lower.cpp:281`).  `save_nzcv` stands between the comparison and the jump.

## 6. Other divergences met while modelling

They are in the model as the code has them.  `Diverges`, `SameBothWays`,
`Mistranslated`, `FaultsOnlyInPageZero`, `LinkerFaults` and the exact bounds in
`ArgvSurvives`, `ExecfnSurvives` and `ShortBlocksFit` delimit what holds beside
them.

Decoder (`arm64_decoder.cpp`):
* ADD of registers decodes as BICS, SUB and EOR of registers as AND, LDP and STP
  as AND (lines 179 to 202); the code for register ADD and SUB (155) is reached
  only by words of the SVE and unallocated groups.
* BRK, HLT, ERET and system instructions whose low five bits are 0 decode as BR or
  RET (109), BC.cond as B.cond (103); `TakenForBranches` lists the groups.
* The word 0, permanently undefined, decodes as AND X0, X0, X0 (202).
* A RET through another register than X30 decodes as BR, and BR X30 as RET (377).
* The shift of a move-wide is in no field (345).  MOVN and MOVK are interpreted
  with the one in `raw`; MOVZ with a shift loads the unshifted value
  (`exec_engine.cpp:50`), and so does host code for all three.
* MADD, CSEL, UDIV, 32-bit LDR and STR, CBZ of 32-bit registers, TBZ and TBNZ are
  rejected; words 0x6C to 0x6F in the top byte decode as TBZ and TBNZ, since 8-bit
  patterns are compared with 7 bits (45).
* LDR and STR with an unsigned immediate decode as the register-offset form (488),
  LDRSB and LDRSH as stores.
* B.cond and CBZ take their displacement from bits 18 to 0 (395, 405) and CBZ its
  register from bits 9 to 5 (403).
* `sets_flags` of an immediate ADD or SUB is bit 30, which tells the two apart,
  instead of 29 (291): SUB always sets the flags, ADDS never.
* BLR decodes as BR, UBFM with a shift as ASR, an ADR whose low two displacement
  bits are not 0 is rejected.

Engine:
* A word the decoder rejects crashes the run (`exec_engine.cpp:276`), although
  `README.md:22` promises the interpreter.
* Branches are translated, although `exec_engine.cpp:310` says "Stop BEFORE
  branches": the branch is already in the block.
* A translated RET reads `ctx.lr` (`x86_64_lower.cpp:339`), which nothing sets
  after start; BL writes `x[30]`.
* BR is built as a NOP (`ir_builder.cpp:364`).
* A backward B.cond, CBZ or CBNZ in host code (`ir_builder.cpp:180`) and every
  interpreted backward branch (`exec_engine.cpp:171`) goes 2^32 too far: the
  32-bit offset is not sign-extended.
* Eviction returns no code memory (`translation_cache.cpp:92`); a full pool stays
  full and each miss costs a cached block (`ExhaustionIsPermanent`).
* A block that reaches into a second page is listed under its first only
  (`exec_engine.cpp:330`).
* mremap means to "Invalidate any translated pages" (`syscall_handlers.cpp:193`):
  it empties the list of pages, and the blocks of the moved code stay in the map.
  A `read` into code, or a mapping over it, leaves them as well.
* A block of 44 to 64 instructions that has lost its `ret` runs on into the next
  buffer of the pool.

JIT against interpreter:
* AND, ORR, EOR, narrow loads and stores, TBZ and TBNZ are NOPs in host code
  (`ir_builder.cpp:364`).
* MOVK and MOVN are built as MOVZ (`ir_builder.cpp:103`).
* The interpreter adds the immediate, 0, in a register ADD (`exec_engine.cpp:69`)
  and takes an offset of zero in a load for X0 as an index (`exec_engine.cpp:96`);
  host code ignores the index register (`ir_builder.cpp:226`).
* Barriers crash the interpreter (`exec_engine.cpp:231`).
* A block of 44 to 64 instructions can exceed the 4096-byte buffer; its end, `ret`
  included, is dropped (`x86_64_emitter.cpp:15`).

System calls:
* 35 numbers ask the kernel for another call (`Mistranslated`): openat (56) for
  close (`syscall_table.hpp:31`), uname (160) for arch_prctl, kill (129) for tkill,
  getdents64 (61) for getdents.
* Results are truncated to `int` (`exec_engine.cpp:359`): a mapping at or above
  2^31 is lost on the guest.
* mprotect, munmap, mremap and every call handed on report an error as -1, which
  is -EPERM, instead of -errno; brk answers 0 or -1 instead of the break
  (`syscall_handlers.cpp:94`).
* The heap is in no region, so read and write into it answer EFAULT; read has
  consumed its input by then (`syscall_handlers.cpp:305`).
* rt_sigreturn hands the emulator's own stack to the kernel
  (`syscall_handlers.cpp:169`).

Memory and start-up:
* `mprotect` stores the new permissions in the list before it asks the kernel and
  keeps them when it is refused (`memory_manager.cpp:72`): `check_perms` then lets
  an access through that faults, or `read` answers EFAULT for a good buffer.  The
  loaders ignore the result (`elf_loader.cpp:172`, `dynlink.cpp:116`), so a segment
  may stay writable.  `munmap` forgets its regions likewise
  (`memory_manager.cpp:59`).
* `munmap` drops a region only if it starts in the range, `mprotect` updates only
  a region that starts at the address (`memory_manager.cpp:58`): after a call on
  part of a region a checked access can fault, read and write of a system call
  included.
* An image whose first segment is at 0, such as a position-independent one, brings
  the loader down: the hint 0 means "anywhere", and the copy goes to address 0
  (`elf_loader.cpp:154`).  So does a library, whose lowest page is usually 0
  (`dynlink.cpp:97`).
* `load_library` adds the base to addresses that contain it (`dynlink.cpp:93`),
  makes segments read-only before it relocates them (`dynlink.cpp:116`), and
  leaves its segments mapped when it fails (`dynlink.cpp:98`).
* The break starts where the bump pointer does and reserves nothing
  (`memory_manager.cpp:29`): heap and mappings share addresses.
* `munmap` means to invalidate translated pages but tests a flag nobody sets
  (`memory_manager.cpp:55`).
* A path longer than 48 bytes is overwritten by the pointer to it
  (`main.cpp:209`), and the copy for AT_EXECFN, if longer than 16, by what is
  pushed after it (`main.cpp:202`).
* The random bytes lie inside the auxiliary vector and end a guest's walk before
  AT_RANDOM (`main.cpp:138`).
* AT_TLS is given the type of AT_SECURE (`main.cpp:186`).

AOT cache:
* A file is named by pc alone (`translation_cache.cpp:146`): programs share them.
* Results of writes are ignored (`translation_cache.cpp:154`): after a failed
  write of `host_size` a load answers with code that was never saved.
* A load that overlaps a save ignores short reads of the header
  (`translation_cache.cpp:183`) and may read the code from the wrong place.

## 7. Not modelled

* Vector state and instructions: the decoder produces none that reach the IR.
* The host's registers and FS base: host code overwrites callee-saved registers
  and `set_tls_base` the emulator's own TLS.  Both depend on the compiler.
* What calls handed on to the host's kernel do to guest memory and to the
  emulator: that is the kernel's behaviour.
* Thread manager: nothing calls `create_thread`, and if something did, it would end
  the process (`thread_manager.cpp:28` assigns a joinable `std::thread` to a local
  that is destroyed at the end of the function), so there is no concurrent
  behaviour to check.
* Block chaining, register allocation: no run of the emulator reaches them.
* ELF header checks, configuration, logging, profiling: input validation and
  output.

## 8. What could follow

* `BranchesEndBlocks` and `OpcodesDisjoint` for every word, not only the patterns
  of the run, with a prover that has bit vectors.
* The same for `FlagMergingKeepsLast`: it needs induction over the IR of a block.
