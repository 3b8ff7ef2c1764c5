# A verification of the ARMv8 pipeline emulator and its cache

The repository holds an emulator of a five-stage, pipelined subset of ARMv8
(`se`), a set-associative write-back cache, a trace player for that cache
(`csim`), and the tests of both. This directory models them in TLA+, checks the
models with TLC and proves with TLAPS, for every geometry, width, page size, file and
command line, what the cache, the cached data memory, the guest's memory, the
emulator's run and its checkpoint, the condition flags, the decoder and the pipeline
promise. Paths below are relative to the repository; file names without a directory are under
`src/base`, `src/cache` or `src/pipe`.

## Inventory

| component | state | operations | talks to | hard behaviour | what makes it correct |
|---|---|---|---|---|---|
| cache (`cache.c`) | `cache_t`: per set an array of lines (valid, tag, dirty, `lru` stamp, data); the counters `next_lru`, hits, misses, dirty and clean evictions | `create_cache`, `get_line`, `select_line`, `check_hit`, `handle_miss`, `get_word_cache`, `set_word_cache`, `access_data` | called by csim and `mem.c` | one counter stamps lines from three places; a minimum in an `int`; the dirty bit set in five places | a block has one line; victims are least recently used; counters mean what they are called |
| csim (`csim.c`) | a cache, a trace | `replayTrace`: L, S, and M as a read followed by a write | cache | long traces | replays every trace; an M's write hits |
| cached data memory (`mem.c`) | the pages, a cache, `inflight`, `inflight_addr`, `inflight_cycles`, `dmem_status` | `_mem_read_cache`, `_mem_write_cache`, retried each cycle of a miss | `dmem` calls it, hazard control reads `dmem_status` | a call that is retried; victims written back after the refill; counts per byte and per cycle | a flat memory to the program; a miss takes `d` cycles |
| main loop and stages (`proc.c`, `instr_*.c`) | the pipeline registers, both halves; PC, GPR, SP, NZCV; status | write-back, memory, execute, decode, fetch; the latch | forwarding, hazard control, memory | up to five instructions at once, two of them on a wrong path | the retired program is the sequential one |
| hazard control (`hazard_control.c`) | none of its own; sets the control of the four pipeline registers and of fetch | `handle_hazards` | reads every register and `dmem_status` | conditions that meet in one cycle: load-use, misprediction, return, fault, access in flight | a stall ends; a squash leaves no trace; a fault stops the younger and lets the older finish |
| forwarding (`forward.c`) | none | `forward_reg` | decode | three possible sources, and loads whose value comes late | the youngest older writer wins |
| ports (`hw_elts.c`) | register file, flags | `regfile`, `alu`, `cond_holds`, `imem`, `dmem` | stages | carry, overflow | those of the architecture |
| stage threads (`proc.c`, PARALLEL) | three barriers | a thread per stage | main loop | barrier counts | every cycle is latched |
| opcode table and decode (`instr_base.c`, `instr_Fetch.c`, `instr_Decode.c`) | `itable` | table lookup, aliases, registers, immediates, offsets, control signals | fetch, decode | bit fields of several widths, kept in C types narrower than they; register 31 | every word does what the architecture says |
| page table (`ptable.c`) | hash table with chaining, which only grows | `get_page`, `add_page` | `mem.c`, loader | pages that collide | a number has one page, and no byte is lost |
| guest memory (`mem.c`) | the pages | `_mem_read_LE`, `_mem_write_LE`, the special addresses | stages, cache | accesses across two pages, pages added on the way | an access means the bytes from its address on, and touches no other |
| ELF loader (`elf_loader.c`) | pages, `seg_start_addr` | copies PT_LOAD segments, maps bss, reads the sections | page table | boundaries of file part and bss | memory holds the segments |
| set-up (`handle_args.c`, `interface.c`, `machine.c`) | options, guest | `handle_args`, `init`, `init_machine` | all | options in any order; invalid shapes; files that do not open | the machine is the one asked for |
| logging (`err_handler.c`) | `terminate` | `logging` | all | a fatal message silences those behind it | the guest's output comes out |
| checkpoint (`machine.c`) | none | `log_machine_state` | pages, cache counters | walks that end at a page that is missing; reads past the cache | the state of the machine |

`mem.c` calls `cache.c` once per byte of a word; the memory stage calls `mem.c`
once per cycle until the answer comes; hazard control turns "not yet" into
stalls of four stages and a bubble into the fifth. All stages of one clock cycle
run in one thread, from write-back to fetch, so a stage sees what the later
stages of the pipeline wrote in the same cycle; the PARALLEL build gives each a
thread. Nothing is persisted and nothing is sent, so there is no crash recovery
and no message to lose; the retry of a miss is the only protocol.

## Modules

| module | models | state and actions |
|---|---|---|
| `Cache` | `cache.c`, function by function, as operators on one record | no variables; csim and the emulator own the record |
| `Csim` | `replayTrace` over an arbitrary trace | `cache`; `Load`, `Store`, `Modify`, `ModifyWrite`; `modify` is the block of an M between its two calls |
| `WriteBackCache` | what the four counters mean: resident and unwritten blocks, an open choice of victim | the abstract specification of `Csim` |
| `MemCache` | the cached paths of `mem.c` over `Cache` | one memory instruction at a time: `Issue` (the latch), `AccessHit`, `AccessWait`, `AccessFill`, `AccessCrash`, each one call of `dmem` |
| `FlatMemory` | a memory of words, one access at a time | the abstract specification of `MemCache` |
| `Flags` | how `alu` sets N, Z, C and V and how `cond_holds` reads them, at any width | no variables; `Instr` extends it and shares its width |
| `FlagRegister` | the NZCV register under any sequence of flag-setting instructions | `NZCV`, and the operation that set it last; `SetFlags`. The abstract specification of the flags in `Datapath` |
| `Encoding` | the instructions an assembler accepts (`Instructions`), the words it makes of them and what they mean; external, and the reference `Datapath` is compared with | no variables |
| `Decoder` | `init_itable`, `fix_instr_aliases`, `predict_PC`'s offsets and everything `decode_instr` takes out of a word | no variables; an operand is named by where it comes from |
| `Datapath` | one word after another through fetch, decode and execute | the decode and execute registers, and `FlagRegister`; `Fetch`, `Decode`, `Execute` |
| `PTable` | `ptable.c` and the byte accesses on it | no variables; `GuestMemory` owns the table |
| `GuestMemory` | the loops of `loadElf`, `_mem_read_LE` and `_mem_write_LE`, a byte at a step | `ptable`, the loop that runs and its counter; `CopyByte`, `EndOfFilePart`, `MapBss`, `NextHeader`, `ReadSections`, `BeginRead`, `_mem_read_byte`, `BeginWrite`, `_mem_write_byte`, `EndAccess` |
| `CommandLine` | `handle_args`, an option at a step, `init` and `init_machine` | the file-scope settings, `cache`; an action for each case of the switch, `Judge` for what follows the loop, `init` |
| `Emulator` | `main` of `se` from the command line to the end, over `CommandLine` and `GuestMemory` | the two modules' state, the cycle count and the walk of `log_machine_state`; `SetUp`, `loadElf`, an action for each kind of access, `Latch`, `LogPage`, `LogNextSection`, `EndLog`, `finalize` |
| `Instr` | opcodes, operand fields, ALU | no variables |
| `Pipeline` | `runElf` and everything under `src/src/pipe` | both halves of each pipeline register; `WBack`, `Memory` (`MemoryNoAccess`, `MemoryAnswer`, `MemoryInFlight`, `MemoryExit`), `Execute`, `Decode`, `FetchHalt`, `FetchInsn`, and `Latch` for `handle_hazards` and the clock edge |
| `ISA` | one instruction at a time, in program order | the abstract specification of `Pipeline` |
| `StageThreads` | the barriers of the PARALLEL build | `Arrive`, `RunStage`, `Latch` |
| `CacheProofs` | lemmas about `Cache` | |
| `CsimProofs`, `MemCacheProofs` | theorems about `Csim` and `MemCache`, over `CacheProofs` | |
| `FlagProofs`, `DatapathProofs` | theorems about `FlagRegister` and `Datapath`, the second over the first; `DatapathProofs` also has the lemmas about `Decoder` and `Encoding` | |
| `MemoryProofs`, `EmulatorProofs` | lemmas about `PTable`, theorems about `GuestMemory` and about `Emulator` with `CommandLine` | |
| `PipelineProofs` | theorems about `Pipeline` | |
| `MC*` | the instances TLC checks | sets of blocks; alphabets and programs |

Abstractions, and why they lose nothing the properties see:

- An address of the cache is the number of its block. Offset bits never reach a
  decision of `cache.c`; `SetIndex` and `Tag` divide as `bitfield_u64` cuts.
- csim's blocks hold no data: `access_data` passes NULL. `Cache` takes the data
  as a parameter, and `MemCache` gives it words.
- `CountHits(c, b, op, k)` is what `k` successful byte probes in a row leave
  behind. They run inside one call and nothing comes between them.
- Data memory in `Pipeline` answers after any number of cycles up to `MaxWait`.
  `MemCache` shows that the cached memory is such a memory (`ImplementsFlatMemory`,
  `AccessCost`), with waits decided by hits and misses.
- The control signals travel with the opcode, of which they are functions
  (`generate_DXMW_control`), so a register of `Pipeline` carries the instruction.
- One opcode stands for each use of the pipeline; the others differ from it in
  the ALU operation alone. Instructions are numbered, so PC + 4 is PC + 1.
- The words of `Pipeline` are the numbers below `2*Half`, of three bits in the runs; sums
  wrap there. `Low` is the first number with no place in an immediate of MOVK (2^16 in the
  code, 2 in the runs) and `Or` any operation that is the bitwise or as far as immediates
  need it. Programs name the registers `Regs`.
- A program of `Pipeline` is the whole text, and its data memory is the words at
  `DataAddrs`. An access or a fetch elsewhere is made all the same, reported as an error
  (`dmem_err`, `imem_err`) and carried on until the instruction that made it retires as the
  last one. What it finds is a parameter: `LoadElsewhere` and `StoreElsewhere` for an
  address that is unaligned or outside data memory, as a function of the data words it may
  lie across, and `Outside` for the instruction at an address without text, an unaligned
  one included. Nothing reads back what such a store leaves outside the data words, or in
  text: it is the last instruction to retire. Of the special addresses only the null address
  is among these; the others are in `Emulator`.
- A word of text is the pair of its bits 31 to 21 and 20 to 0, since TLC's integers
  are of 32 bits with a sign. ADRP's immediate is counted in pages and a branch's
  offset in words, as they are in the encoding.
- The guest in `Emulator` is any program: in each cycle it makes one access or none.
  What instructions make of accesses is `Pipeline`; accesses through a cache are
  `MemCache`, so with a cache only those below `.data` happen here.
- `ptable_hash` is any function into the buckets. Protection bits are stored and
  never read.
- An option's argument is a number. For `-i`, `-o` and `-c` it says whether the file
  opens. `-1` is what `atoi` makes of "-1", which the code takes for "not given".
- `Encoding!Meaning` is the project's reading of the architecture manual for the
  instructions the emulator knows, written without the code in view.

`pc`, `next`, `zero` in the pipeline registers and `arch` in `Pipeline`, `setter` in
`FlagRegister`, `tested` in `Datapath`, `last` in `GuestMemory`, `announced` in
`CommandLine`, `sent` and `printed` in `Emulator`, and `call`, `now`, `lastUse`,
`issued`, `misses`, `stalls` elsewhere, are history: no guard of the code's reads
them. (`now` and `issued` also bound the runs.) `call` is the operation and the block of the last call of `access_data`.
`WriteBackCache` has it too, so that `ImplementsWriteBack` ties every change of the
counters to the call that caused it, and a store counted as a load shows.

Where the code tests one condition after another and the first that holds decides
(`forward_reg`, `pipe_control_stage`, `select_PC`), the model has IF and ELSE; the arms of
a CASE are disjoint. TLA+ leaves open which arm of an overlap is meant, though TLC takes
the first, so a theorem about such a CASE would say less than the run.

Operators whose comment begins "Seeded fault" are not part of any model. Each is
a plausible bug of the definition after it. Putting it in that definition's place
makes TLC report the property `PROJECT.json` names for it, which shows that the
property can fail.

## Runs

Passing runs. Deadlock is not checked where `CHECK_DEADLOCK FALSE` stands: there
the bound on accesses, or the end of the program, stops the model.

| run | shows | bounds, and why they suffice |
|---|---|---|
| `csim` | no second copy of a block; stamps in order of use; victims that are LRU but for one tie; an M's write hits; the counters of `WriteBackCache`; a crash only beyond `INT_MAX` | two sets of two lines, three blocks of one set and one of the other, six accesses: the first set fills and evicts clean and dirty lines while the second moves `next_lru` on; `INT_MAX` = 3, so that stamps pass it and `select_line` returns NULL |
| `mem` | flat memory; cost of an access, the wait, the counters; true LRU; every access is answered | three blocks of two words on two lines, five accesses: two fills, an eviction, the return of the evicted block, and the word beside a stored one; penalty 3, so that a wait is itself retried; `INT_MAX` = 7, so that the crash happens |
| `pipe_programs` | no program meets what hazard control and forwarding leave open; the retired program is the sequential one; squashes leave nothing behind; the run ends only when the program does, by a fault, a HLT or the load from the null address | every program of four instructions and two HLTs over each of three alphabets (loads, stores, moves and sums; branches, calls, returns and compares; the three faults and the null address), and every program of up to three over the third alphabet that may run off the end of its text, with an instruction of each kind to be found there (`Behind`). A bad address is one in the middle of the first data word, so that a faulting store changes both words (`StoreAcross`). With five stages and three forwarding sources, four instructions in a row meet every pair of distances, and a branch has at most two wrong-path instructions behind it |
| `pipe_wait` | the same with accesses that take their time; no store of a wrong path, and none behind a fault, reaches memory; a program that keeps its accesses apart from what bubbles execute (`AccessesApart`) ends by itself only, whatever else meets an access in flight; an instruction keeps reaching write-back until the end | every program of three over nine loads, stores and branches, and of two with a return behind them, each access in flight for 0 to 2 cycles: 2 is the first wait that is followed by another |
| `datapath` | every instruction does what its word says, but for five kinds named in `DecodedAsWritten` (among them the six extra-credit opcodes, which the Makefile compiles into the table and no stage handles, so that they run as NOPs); only a bit-field move that is no shift fails an assertion; flags, conditions and branches tell carry, overflow and order | every opcode with registers 0, 3, 5, 17, 30 and 31 where they fit (both sides of 16, SP, XZR), all 64 shifts and all 16 conditions, and the limits of every immediate and of its parts; all pairs of four-bit words for the flags: every case of the proofs below is a comparison of the operands with 0 and `Half` and of their sum or difference with 0, `Half` and `2*Half`, and all occur |
| `emulator` | whole runs: the page table is sound, the image loaded, an access means bytes and touches no other; the cache is the one asked for; the guest's output comes out; the checkpoint shows memory; every run ends | 163 command lines (every option, every parameter missing, zero, negative, repeated or invalid, a set's size that wraps to zero, below it and to a small number, a limit of -1, the files that fail); three files, with a note, without data, with bss that leaves a page out, with a segment in the middle of a page; pages of two words in two buckets, so that pages of every segment collide; words across two pages; three cycles at most, so that a stored word is read, overwritten and logged |

The passing pipeline runs take the programs that are `HazardFree`, a condition on the text
that keeps them within what the code gets right: no load is followed by an LDUR or RET
through its register or by a MOVK into it (`MissedLoadUse`); of the two instructions fetched
behind a B.cond before it resolves the first lies in the text and is no HLT, no undefined
opcode and no BL, and the second is no HLT; no HLT stands behind a RET; and nothing writes XZR. `HazardsCovered` says
what this is for, of the states: no use goes past the load-use check (`LoadUseSeen`), nothing
fetched on a wrong path acts before it is squashed (`WrongPathQuiet`), and XZR is not
forwarded (`ZeroReadsZero`). The programs of `pipe_missed_load_use` and `pipe_squashed_halt`,
`SquashedLink` and `ZeroTarget` each break one part of it.

Runs that end in a violation: the model, with a property taken from the
repository's own words (`findings` in `PROJECT.json` quotes them).

| run | the code |
|---|---|
| `csim_true_lru` | is not LRU: a hit is stamped after the increment of `next_lru` and a fill before it, so a hit and the next fill tie |
| `mem_checkpoint` | prints a memory without the stores still in the cache |
| `pipe_squashed_halt` | a squashed HLT still ends the program |
| `pipe_missed_load_use` | a load through the register of the load before it uses that load's address |
| `pipe_bubble_and_stall` | a load-use hazard or a misprediction under an access in flight halts the program |
| `threads` | the PARALLEL build hangs in its first cycle |

Two runs of the same memory differ: `csim` breaks LRU and `mem` keeps it. `mem.c`
calls the cache at least twice for every fill (the failed probe and, after the
fill, the bytes), so the counter has moved on before the next block is stamped.

Behaviours the models show as well, each with a definition ready to be checked:

| definition | used as | shows |
|---|---|---|
| `Csim!NeverCrashes` | invariant of `csim.cfg` | `select_line` returns NULL, which `handle_miss` dereferences, once all stamps of a set exceed `INT_MAX` |
| `MemCache!StallsAtMostPenalty` | invariant of `mem.cfg` with `d = 0` | the wait is decremented below zero |
| `MemCache!CheckpointReportsAccesses` | invariant of `mem.cfg` | the checkpoint prints byte probes as cache hits |
| `Datapath!ShiftsAsWritten` | invariant of `datapath.cfg` | the shift of an ASR is 62 or 63 whatever the program says: decode takes bits 9 to 15 (`instr_Decode.c:102`); `src/applications/hard/bin_search.s:29` halves with `asr #1` |
| `GuestMemory!BssIsZero` | invariant of `emulator.cfg` | the copy loop runs past the file part and leaves bytes of the file in bss, where `elf_loader.c:88` says "initialization to 0" |
| `CommandLine!RunsWithoutInvalidCache` | invariant of `emulator.cfg` | with a number of sets that is no power of two, or negative, `se` runs with a cache, where `handle_args.c:38` says "without" |
| `CommandLine!OutputGoesToFile` | invariant of `emulator.cfg` | `init` sets `outfile` back to stdout, so `-o` writes nothing |
| `Emulator!CheckpointShowsHeap` | invariant of `emulator.cfg` | the heap's walk starts with the page number at which that of `.data` ended, a missing page (`machine.c:160-161`), so the heap is never logged |
| `MCPipeline!SquashedLink` | `Programs` of `pipe_squashed_halt.cfg`, with the invariant `HaltedStateIsRetired` | a squashed BL still writes X30, with what write-back left in the port |
| `MCPipeline!ZeroTarget` | `Programs` of `pipe_squashed_halt.cfg` | a result written to XZR is forwarded to readers of XZR |

### Fairness

`MemCache!FairSpec` assumes WF of `MemoryCycle`: the main loop clocks the memory
stage in every cycle until the program stops (`proc.c:127-191`), and hazard
control keeps the instruction there while its access is in flight. New accesses
(`Issue`) get no fairness. `Pipeline!FairSpec` assumes WF of `Next`: `runElf` is one
loop in one thread. An access is in flight for at most `MaxWait` cycles in a row,
which `EveryAccessAnswered` justifies for penalties above zero. `Emulator!Spec` assumes WF of `Step`: `se` is one thread and
waits for nothing but its input. `StageThreads!Spec`
assumes WF of each thread: the operating system runs a thread that is not blocked.

## Proofs

Every theorem holds for all values of the constants that satisfy the named
assumptions, which TLC evaluates on the runs' values.

| assumption | says | because |
|---|---|---|
| `CacheAssumption` | A and S positive, block numbers and `INT_MAX` natural | the checks in `csim.c`'s `main` and in `handle_args.c`, and `limits.h` |
| `MemCacheAssumption`, `RequestAssumption` | a penalty below the wrap of its counter, words of at least two bytes, memories of words | the penalty is an `unsigned int`; "no data" and "no request" are not data and requests |
| `FlagsAssumption` | `Half`, the first word with its sign bit set, is positive | 2^63 in the code |
| `DatapathAssumption` | the words fetched are those of instructions an assembler accepts (`Encoding!Instructions`: fields of their widths, an addition into the zero register written as the compare, a bit-field move that is a shift written as the shift) | the guests are assembled; what is left out has the same word under its other name |
| `InstrAssumption` | `Low` is a word above zero; `Or` stays among the words, keeps its second operand where the first is 0, and adds an immediate to a number whose low part is 0; programs name registers below 32, X0 and X30 among them; 0 is no data address; a load or a store elsewhere leaves words, and the store made again changes nothing; what is outside the text has `imem_err` set | 2^16 in a word of 64 bits, C's bitwise or, register fields of five bits, the null address is outside every segment, and a store puts its eight bytes at their addresses, whatever is there |
| `PipelineAssumption` | programs are sequences of `Instructions` without `imem_err`; the registers, flags and memory to start with are of their types; `MaxWait` is natural | a program is the text itself |
| `PTableAssumption` | 0 is a byte, the hash of a page number is a bucket | `ptable_hash` ends in a modulus |
| `GuestAssumption` | addresses and segments lie within the page numbers; segments come in the order of their addresses, and no page holds bytes of two of them, where the `v_align` bytes the copy loop takes beyond the file part (`elf_loader.c:77`) and the whole of `memsz` count as the segment's | the linker aligns segments to 64 KiB, a page has 4 KiB |
| `CommandLineAssumption` | options are letters with an integer for an argument, those of the cache's parameters in the range of `int`; `IntWrap` and `LongWrap` are 2^32 and 2^64; values like "no cache" are not caches | what `getopt`, `atoi` and `atol` return; a product of ints wraps as in the Makefiles' build, which optimises nothing |
| `EmulatorAssumption` | the special addresses differ, words are `Width` bytes, a page is a whole number of words | `machine.h`, pages of 4096 bytes |

### csim

`CacheProofs` says once what the library's functions do. `FirstIsLeast` is the loop
over the lines of a set, from the well-foundedness of < on the naturals.
`GetLineMatches` and `SelectLineChoice` say what the two searches return; `HitEffect`
and `MissEffect` say what an access changes and what it leaves alone, field by
field. `CsimProofs` cites only these.

The inductive invariant of csim is

    IInv == TypeOK /\ OneLinePerBlock /\ StampsAreUseTimes

`StampsFollowRecency`, the fact one cares about, is not inductive. It says how two
stamps compare, and a fill compares the new stamp with every old one. What makes it
true is that each call of `access_data` moves `next_lru` by exactly one, in
`get_line` on a hit and in `handle_miss` on a miss. So `next_lru` is the number of
calls, and a stamp is the number of the call that set it (hit) or one less (fill).
That is `StampsAreUseTimes`, it is inductive, and `UseTimesGiveRecency` derives the
order from it.

| theorem | says |
|---|---|
| `Invariance`, `TypeCorrect`, `NoSecondCopy`, `RecencyOrder` | the invariant and its parts |
| `NearlyLRU` | a victim is the oldest line of its set, or exactly one line is older, by one call: a stamp is off by at most one, and no two lines have the same last use |
| `CrashIsOverflow` | a full set has a least stamp (`FirstIsLeast` again); if `select_line` does not return it, it exceeds `INT_MAX`, and so does `next_lru` |
| `ShortTracesReplay` | a trace of at most `INT_MAX` accesses is replayed to its end |
| `ModifyIsMissThenHit` | the write of an M hits: after any call the block is resident |
| `UseTimes` | `StampsAreUseTimes` itself |
| `CsimIsWriteBackCache` | csim implements `WriteBackCache`: what is resident, what is unwritten and all four counters are those of the abstract cache. The mapping sends the lines to the set of their blocks. A step with a victim takes exactly that block out of the set and puts the new one in; that needs `NoSecondCopy` (no other line keeps the victim resident) and `LinesHoldBlocks` (a valid line's tag is that of a block of the trace) |

### Cached data memory

`MemCache` is `mem.c` over the same cache, with a wait in the middle of each miss:
the call returns `IN_FLIGHT`, leaves three variables behind and is made again in the next
cycle. The inductive invariant of `MemCacheProofs` is

    MInv == TypeOK /\ OneLine(cache) /\ CleanLinesMatchMemory /\ WaitInv
              /\ CountInv /\ StampInv /\ CrashNeedsStampOverflow

| part | why it is needed |
|---|---|
| `OneLine` | with two lines of a block a store to one would leave the other stale |
| `CleanLinesMatchMemory` | the data of a clean victim is dropped, so it must be in memory |
| `WaitInv` | `WaitBelongsToRequest` is not inductive: that a wait ends needs the number of cycles it has taken (`inflight_cycles = MissCycles - stalls`), and that it is filled with the right block needs that the block still misses |
| `CountInv` | `CountersAtRest` speaks of the time between accesses; within one, the miss counter is ahead by the cycles of the wait and the hit counter behind by the bytes of the word |
| `StampInv` | that stamps order the lines as their last uses do. Here, unlike in csim, a call is made between a fill and the next stamp, so the order is strict |

`MissCycles` is the number of cycles the countdown lets a miss take: the penalty, or the
whole range of the counter when the penalty is zero, since it is decremented before it is
tested (`mem.c:168`). The theorems cover that case.

| theorem | says |
|---|---|
| `MemInvariance`, `MemTypeCorrect`, `CleanMatches`, `WaitsForItsRequest`, `CountersKept`, `MemCrashOnlyByOverflow` | the invariant and what a run checks of it |
| `CachedMemoryIsFlat` | `MemCache` implements `FlatMemory`: with memory read as the data of the resident line, or of the page where there is none, a retry, an eviction and a write-back are stutters, and an answer is one read or write of a word |
| `CostOfAccess` | a hit takes its one cycle, a miss `MissCycles` |
| `MemoryEvictsLRU` | the victim is the least recently used line, with no tie |

### Flags

A run covers one width; the code's is 64, which no run reaches. The inductive
invariant of `FlagProofs`, `IInv`, says that the register holds `FlagsOf` the
operation and operands that set it last; `FlagsHaveSetter` proves it. `AdditionFlags`
and `SubtractionFlags` then compare the sign tests of `hw_elts.c` with the exact
integers, case by case of the signs.

| theorem | says |
|---|---|
| `FlagsAreRight` | C is carry or no borrow, Z and N are those of the exact result where it fits, V is overflow; V is also set for the subtrahend `INT64_MIN`, whatever the minuend |
| `ConditionsAreRight` | after a compare all ten ordered conditions decide the order they are named for, the four signed ones except for a negative minuend with that subtrahend |

`DatapathProofs` carries both to the machine that fetches and decodes.
`ImplementsFlagRegister` says that every step of `Datapath` is one of `FlagRegister`
or leaves the flags alone, which needs that decode lets only additions, subtractions
and ANDs set flags (`FlagSettersAreKnown`, the invariant `DInv`); `DatapathFlags` and
`DatapathConditions` follow.

### Decoding

TLC meets the limits of every field. That what fetch and decode make of a word is right
for every register and every immediate is proved instruction by instruction.
`PackedRegisters`, `PackedImmediate` and `BitFieldFields` say which bits each read of a
field returns, whatever the word was put together from; `RangesAreApart` and `TableOpcode`
say that the table of opcodes is a function of bits 21 to 31; `RegisterForm`, `WritingForm`,
`IdleForm`, `StoreForm`, `ReturnForm` and `CallForm` say what becomes of a decode register
in the later stages, by the control signals of its opcode. The fifteen lemmas from
`ArithmeticTaken` to `ExtraCreditIgnored` put these together for one encoding each, and
`EveryInstruction` collects them. The invariant of the state is `Carried` (the registers
hold the word and the opcode of the instruction under way) and `Branched` (the branch
tested last was tested on the flags that still stand: no instruction between them sets any).

| theorem | says |
|---|---|
| `DecodingIsAsWritten` | each instruction does what it says exactly when it is none of the five kinds in `DecodedAsWritten`: both directions, so the list is complete and each kind on it is wrong |
| `OnlyBitFieldsAbort` | only a bit-field move that is no shift fails the assertion |
| `BranchesFollowOrder` | from the condition number in the word of a B.cond to the order of what was compared, at every width |

### Memory

The first part of `MemoryProofs` says what the table's operations do: `FoundPage` (in a table that is
`WellFormed`, a page is found where it is), `AddPageReads`, `MaterializeSound`
and `StoreSound` (adding a page or storing a byte keeps the table well formed, and
every other byte as it was). The second part uses them three times.

| invariant | why it is needed |
|---|---|
| `MemInv` | `WellFormed(ptable)` with the types of the loops. Soundness of the table rests on the page being stored to lying within the page numbers, so on the bounds of the loop that runs |
| `ReadsInv` | `AccessesMeanBytes` speaks of a loop that has ended; `AccessSoFar` says of one that runs which bytes it has done: those from `i` on for a read, those below `i` for a write |
| `LoadInv` | `ImageLoaded` speaks of the end; `ImageSoFar` says which segments and which bytes of the current one are in memory, and that those to come read as zero. The step needs that segments share no page: the bytes the copy loop runs over lie in the last page of its own |

`ImplementsGuestMemory` shows that `Emulator`, whatever it does between the command
line and the end, does to memory only what `GuestMemory` allows. The theorems about
`GuestMemory` then hold of `Emulator`: `EmulatorTableSound`, `EmulatorAccesses`,
`EmulatorTarget`, `EmulatorImageLoaded`.

### Emulator, command line and checkpoint

`EmulatorProofs` has two invariants of whole runs.

`RunInv` is for the command line and the output. Its part `ArgInv` says what the loop over
the options has made of those it has read: each parameter has the value given last
(`ArgsRead`), in whatever order and however often they came, and every action of the switch
keeps that (`OptionRead`). `CacheAsGiven` speaks of the machine and needs more: what was
announced about the cache, and that a size of zero or a bad block size has ended the program
by then. `UnsignedSets` compares the division of ints in `handle_args` with the unsigned one
in `create_cache`: they agree where capacity and quotient are not negative. `OutputKept` follows from what `ArgInv` says of `terminate`: it is set
before the loop ends or not at all by a message that lets the program go on.

`CheckInv` is for the checkpoint.

| part | why it is needed |
|---|---|
| `PhaseInv` | nothing else runs while the walk does, so memory does not change under it |
| `WalkInv` | the walk's address is that of its page, and on the heap it is never on a page: it starts at the page number at which that of .data ended, which is missing |
| `RecordInv` | the properties speak of the finished record. This says which pages have been logged whole: those of .data up to where the walk is, then all that the file's part of .data takes, then the stack's highest page |
| `MemPages` (of `MemoryProofs`) | that the walk of .data does not stop early: the pages the loader has put bytes on are still there |

| theorem | says |
|---|---|
| `EmulatorTypeCorrect` | `TypeOK` |
| `MachineAsGiven` | `CacheAsGiven` |
| `OutputComesOut` | `OutputKept` |
| `CheckpointIsMemory` | `CheckpointShowsMemory`: every line about text, data or stack is true, and no word is missing that the walks are able to reach |

### Pipeline

The runs cover programs of a few instructions at three bits. The theorems hold for every
program, of any length, with any registers, words, memory and delay of the memory. That the
pipeline runs like the sequential machine is false of the programs the code gets wrong, so
three of them assume that the text is `HazardFree`. Each part of that condition is broken by
a program whose run TLC shows to differ from the sequential one. What holds of all programs
is proved of all programs.

The argument has two halves. First, the text: `HazardFreeIsCovered` shows that a `HazardFree`
program never comes to a state outside `HazardsCovered`. Its invariant is `Paths`: what D, X and
M hold is what fetch finds at their addresses (`InText`), the address of each is that predicted
behind the one before it (`Ordered`), also on a wrong path; what turns fetch aside has bubbles
behind it (`Turned`), and fetch goes on behind D (`GoesOn`) until
there is an error, which stays in all the stages it has been through (`Copied`), so that the
order of addresses ends with it. So a load and its user, or a B.cond
and the two behind it, are neighbours in the text whenever they meet in the registers.
Preserving it at the clock edge needs `WrongPathQuiet` itself: an undefined word in decode, or one
from outside the text, would hold decode, and the misprediction would not squash it.

Second, the values, under `HazardsCovered`.

The inductive invariant is

    InOrder == Types /\ Control0 /\ Stores /\ HaltTail /\ Follows

| part | why it is needed |
|---|---|
| `Types` | `TypeOK` leaves most fields of the pipeline registers open; that a forwarded value is a word needs all of them, and that a BL carries the number behind it |
| `Control0` | its parts are `Marks` (a bubble holds a NOP, an error the instruction that has it), `Handed` (a stage that has run has left its own instruction in the next register) and `Flight` (only an access is in flight, and only in the memory stage) |
| `Stores` | `StoresRetire` speaks of two moments of a cycle. Between them memory is ahead of the retired program by the store in write-back, and behind an error there is no store that could run. A faulting access stays in the memory register while its error retires and is made a second time, so this also says that the second store changes nothing (`StoredTwice`) |
| `HaltTail` | behind a HLT in any register there are only bubbles and HLTs, so that nothing younger moves the flags or the registers |
| `Follows` | the pipeline and the program. `S1` to `S4` are the states the sequential machine passes when it runs what is in flight, from the oldest instruction to the youngest |

`Follows` says, register by register, that what is in flight is what the sequential machine
would run next: `Retiring`, `InMemory`, `InExecute` and `InDecode` hold for the instruction of
each register and, as far as it is used, for its operands. `MemoryDone`, `ExecuteDone` and
`DecodeDone` say it of what the stages of this cycle have left, `Fetching` and `FetchDone` of the
predicted PC as long as nothing in flight can turn it aside. `Squashed` says what is behind a
B.cond that falls through or a RET, the two that fetch gets wrong or waits for. `File` and
`Condition` say which state's registers and flags the two files hold: the retired program's,
but for X30, which a BL spoils in decode and writes when it retires, and the flags of the
instruction that execute has done.

A step of a stage concerns one or two of these (`FollowsWBack` to `FollowsFetch`).
`ForwardsRight` is the lemma behind decode: whatever is forwarded or read is what the register
holds in `S3`, which takes the order of the three sources and, for the one load that is too
late, the stall. The clock edge is where hazard control decides, and has a lemma for each decision:
`LatchInFlight`, `LatchMemoryError`, `FlowExecError`, `FlowMispredict`, `FlowLoadUse` and
`FlowDecode`. `HazardsCovered` is used in three places only: `ForwardsRight`, `FlowMispredict`
and `FlowDecode`. `RetirementIsStep` shows that an
instruction with the right operands retires as `ISA` says; there `SameWords` compares the words
the pipeline computes with the numbers of `ISA`, through `SumIsModulo`.

| theorem | says | of which programs |
|---|---|---|
| `PipelineTypeCorrect`, `PipelineTypes` | `TypeOK`, and the types of every field | all |
| `StoresAreRetired` | `StoresRetire`: no store of a wrong path, and none behind a fault, reaches memory. A BL and a HLT on a wrong path do harm; a store never does | all |
| `HazardFreeIsCovered` | `HazardsCovered` in every state | `HazardFree` |
| `PipelineImplementsISA` | the pipeline implements `ISA`: forwarding, stalls, squashes and delays are stutters, and each retirement is the next instruction of the program | `HazardFree` |
| `HaltedStateIsTheProgram` | after a HLT the registers, the flags and memory are those of the retired program | `HazardFree` |
| `PipelineStopsWithProgram` | `StopsWithProgram`: the run ends only when the program does, if memory answers at once or the text is `AccessesApart` | `HazardFree` |

The last needs that execute is never told to bubble and to stall at once. `ClashNeedsFlight`
shows that this takes an access in flight, for any program; `OnlyExecuteClashes` that no
other register is told both before the program has ended. `AccessesApart` asks that no load
or store is directly followed by a B.cond, or by a load whose user is next; the program of
`pipe_bubble_and_stall` has such a place.

### Only model-checked

- Liveness (`EveryAccessAnswered`, `RunEnds`, `KeepsRetiring`): the prover has no rule for
  fairness.
- The six runs that end in a violation, `StageThreads` among them.

## Not modelled, and why

- The wrap of the `int` counters: they are statistics and are read once.
- `display_set`, `create_checkpoint`, `free_cache`, `show_instr`, banners, prompts and
  the wording of messages: output only.
- The values of the shifts, EOR and MVN in the ALU: each is one C operator on 64 bits
  and sets no flag. That the right one is chosen, with the right operands, is
  `DecodedAsWritten`.
- Accesses that straddle two blocks of the cache. Such an access is unaligned, `dmem`
  reports it as an address error and the program stops; what the fill of the second
  block does wrong at `mem.c:179` is read by nothing.
- The value of a load that exits the emulator: there is no state after it.
- What a store into text does to the instructions fetched after it: `dmem` reports it, so
  they never retire.
- `open`, `fstat` and `mmap` failing for a file that exists, and ELF files that are
  not executables: the program ends at once.
- The test drivers (`src/testbench`, `verify.py`): they fork `se`, `csim` and the reference
  binaries, compare text and print scores. They keep no state of the system.

## Plan

Done: the models and their runs; the proofs about csim, the cached memory, the guest's
memory, the emulator's run and checkpoint, flags, decoding and the pipeline. In this order:

1. A `StageThreads` with the call restored, as an invariant of how far threads can
   drift apart.
2. `HazardFree` asks that nothing writes XZR. It is enough that no reader of XZR follows
   within three instructions of a path, which takes the neighbours of `Paths` as far as W.
