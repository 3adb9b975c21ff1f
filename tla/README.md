# A TLA+ verification project for the Sargantana-based tile

The repository holds the RTL of a small RISC-V tile
(`Sargantana-based-Core/rtl`): a six-stage in-order core ("drago"), an
instruction cache, the vendored HPDcache as data cache, and an MMU; plus a
simulator, the vendored reference ISA simulator (Spike), tests and the files of a physical flow.
This project models the parts of that tile whose correctness depends on the
order of events, checks them with TLC on small instances, and proves the main
invariants with TLAPS for every size.

Paths below are relative to `Sargantana-based-Core/` in the repository.

## 1. Inventory

| Component | State | Operations | Talks to |
|---|---|---|---|
| TLB, one for fetches, one for data (`rtl/mmu/rtl/tlb/tlb.sv`) | entries, miss FSM, request being served, replacement tree | lookup and permission check, cleaning of entries that would fault, miss, allocation, flush | cache controllers (requests), arbiter (walks), CSR file (flush) |
| Pseudo-LRU (`rtl/mmu/rtl/common/pseudoLRU.sv`) | tree of bits | access, selection of the victim | TLBs, PTE cache |
| Walker arbiter (`rtl/mmu/rtl/ptw/ptw_arb.sv`) | FSM, one kept request of the instruction TLB | accept one or two requests, resume the kept one, route answers | both TLBs, walker |
| Page-table walker (`rtl/mmu/rtl/ptw/ptw.sv`) | FSM, level, PTE, PTE cache | start, use the PTE cache, read, check a PTE, answer, flush | arbiter, data cache port |
| Memory unit (`rtl/core/drago/rtl/exe_stage/mem_unit.sv`) | FSM, sampled operands, tag counter, "request made again" flags | translate, request, request again, wait, flush | execution stage, data TLB, data cache interface |
| Data cache interface (`rtl/interface_dcache/rtl/dcache_interface.sv`) | table of tags in use | encode, send, receive | memory unit, HPDcache |
| Data cache (`rtl/dcache`, vendored) | - | accept, refuse, answer | memory unit, walker |
| Pipeline (`control_unit.sv`, `datapath.sv`, `exe_stage.sv`, `if_stage_*.sv`) | stage registers, PC, debug FSM | advance, stall, flush, redirect, trap | everything in the core |
| Multiplier, divider (`exe_stage/mul_unit.sv`, `div_unit.sv`) | iteration state | start, step, finish | execution stage |
| CSR file (`csr_bsc/rtl/csr_bsc.sv`) | CSRs, privilege | read/write, trap, return, interrupts, flush requests | write-back stage, MMU |
| Instruction cache and its interface (`rtl/icache`, `rtl/interface_icache`) | controller FSM, tags, line buffer, non-cacheable buffer | fetch, miss, refill, kill, replay | fetch stages, instruction TLB, memory |
| Debug module (`simulator/bsc-dm`), counters, branch predictor | - | halt, resume, run the program buffer | control unit |

What is hard in this design, and cannot be seen by looking at one file:

- *Everything is clocked together.* A flush, an answer and a new request can fall
  into one cycle, and which assignment wins is decided by the order of `if`s in
  separate blocks.
- *One walker serves two TLBs* through an arbiter that must remember one of the two
  requests.
- *Flushes overtake work in progress*: a TLB flush while a walk is running; a pipeline
  flush while the memory unit has a request or a TLB miss pending.
- *The data cache may refuse a request*, and the memory unit has a second path to
  make it again.
- *Instructions in flight must vanish without a trace* when a trap, a jump or a CSR
  redirect flushes them, whatever caches, divider and memory unit are doing for them.
- *Fetch answers come late* and carry no name: the instruction cache, its buffer of
  non-cacheable lines and the fetch stages each decide for themselves whether an answer
  is still wanted.
- *Interrupts are chosen in one cycle and taken in another*, with CSR writes, returns and
  traps in between.
- *Cached translations become stale* in three places (two TLBs, the PTE cache)
  that one `sfence.vma` must empty.

What makes the parts correct: a walk belongs to the TLB that asked for it and
is for its page; no translation asked for before a flush is used after it; a
translation that does not miss is the one the page tables give; every miss ends;
every memory instruction is performed exactly once, with its own operation and
page, unless it faults or is flushed, and then never; the instruction waiting
gets its own answer; no instruction waits forever; what the pipeline writes
back is what a machine that executes one instruction at a time would do; a fetch gives the
word of its own address, not older than the last `fence.i`; traps, returns and
interrupts are those of the reference simulator. `PROJECT.json` lists
the hazards with their lines.

## 2. Modules

| Module | Models | Remarks |
|---|---|---|
| `MmuPkg` | types of `mmu_pkg.sv` | page numbers are tuples of fields, so that "the upper fields of a superpage" is a prefix; the top field of a PPN is wider than that of a VPN |
| `PseudoLru` | `pseudoLRU.sv` | the tree for any number of entries |
| `Tlb` | `tlb.sv` | instantiated twice in `Mmu`, once in `Lsu`; lemmas on its types, its CAM and the permissions it stores are at its end |
| `PtwArb` | `ptw_arb.sv` | |
| `Ptw` | `ptw.sv` | the walk FSM and the PTE cache |
| `Sv39Walk` | `mmu_t::walk` of the reference simulator (`simulator/reference/riscv-isa-sim/riscv/mmu.cc`) | what a translation should be: the abstract specification of the MMU; lemmas on the recursive walk are at its end |
| `Mmu` | wiring of `rtl/top_tile.sv`, page tables in memory | composes the above; one step per clock cycle |
| `MmuProofs` | - | TLAPS theorems about `Mmu` |
| `MemUnit` | `mem_unit.sv` | |
| `DcacheInterface` | `dcache_interface.sv` | |
| `Lsu` | the path of memory instructions through the execution stage | composes `MemUnit`, `Tlb`, `DcacheInterface` |
| `LsuProofs` | - | TLAPS theorems about `Lsu` |
| `Isa` | the loop of single instructions of the reference simulator (`execute.cc`, `processor.cc`, `insns/*.h`), for the classes of instructions the control of the pipeline tells apart | the abstract specification of the pipeline |
| `Pipeline` | `datapath.sv`, `control_unit.sv`, `exe_stage.sv`, `div_unit.sv`, `csr_interface.sv`, `regfile.sv`, the control outputs of `decoder.sv`, traps, `wfi` and debug entries of `csr_bsc.sv` | implements `Isa` by the refinement mapping `ArchPc` |
| `PipelineProofs` | - | TLAPS theorems about `Pipeline` |
| `Fetch` | `if_stage_1.sv`, `if_stage_2.sv`, `icache_interface.sv`, `nc_icache_buffer.sv`, `sargantana_top_icache.sv`, `sargantana_icache_ctrl.sv` | the fetch that `Pipeline` takes as its environment, in detail |
| `FetchProofs` | - | TLAPS theorems about `Fetch` |
| `SpikeTraps` | `take_trap`, `take_interrupt`, `mret`, `sret` and the writes of the status registers in the reference simulator | the abstract specification of the CSR file |
| `CsrTraps` | traps, returns, delegation, vectors, interrupts of `csr_bsc.sv`; the path of an interrupt through `datapath.sv` | implements `SpikeTraps` |
| `CsrTrapsProofs` | - | TLAPS theorems about `CsrTraps` |
| `MCMmu`, `MCLsu`, `MCPipeline`, `MCFetch`, `MCCsrTraps` | - | instances for TLC |

**Steps and names.** Registers are variables with the names of the code; combinational
signals are operators with the names of the code; each FSM state is an action
(`Idle`, `SendRequest`, ...). A component's `Cycle` is the conjunction of its
registers' updates, with the inputs of the cycle as parameters, and the
composition (`Mmu!Cycle`, `Lsu!Cycle`) is the conjunction of the components'
`Cycle`s with each input given by the other components' outputs. The order of events within a cycle is
therefore that of the code, and interleavings come from the free inputs:
which requests come, when the CSR file flushes, when the data cache accepts and
answers. `Mmu` has a second action, `WriteTable`: software replaces its page tables.

**Operators ending in `_Something` marked "Fault"** (for instance
`Wait_NoBound`) are deliberately wrong variants of the definition that
follows them. They are not used by the specification; they show that each
property notices the corresponding mistake.

**History variables.** `synced`, `i_flushed`, `d_flushed`, `i_old`, `d_old` in
`Mmu`, `performed`, `refused`, `last` in `Lsu`, `amem`, `stepped`, `orphan`, `stale` in `Pipeline`, `dropped` in `Fetch`, and
`chosen_q`, `chosen` in `CsrTraps`, record the past for the
properties. No guard reads them. `synced` is true when a flush came after software's
last change of its tables; `i_old` holds the TLB entries obtained by walks
requested before the last flush; `orphan` says that the divider works for a division that was flushed, and
`stale` that the quotient in write-back is of one.

**The environment.** The data cache on the walker's port answers with the word as it
was when it accepted the request or as it is when it answers, so a software write may
fall on either side. On the core's port it accepts or refuses, and answers later.
In `Lsu` the walker is reduced to its contract: accept, and answer
with what `Ptw` would find (`WalkerAnswer`). Two conditions in `Lsu` come from the
rest of the pipeline: a flush of the execution stage comes from the write-back stage, which
holds an older instruction only in the first cycle of a stalled one (a stalled
stage sends bubbles down); and an instruction that flushes the TLBs lets none follow
it until it has ended.

In `Pipeline` fetch delivers the instruction of the address it was asked for, after any
time: that is `RightInstruction` of `Fetch`; and when it answers it is ready, which is
`ReadyWhenAnswered`. The memory unit answers after any time and performs an access once,
which is `PerformedOnce` of `Lsu`. In turn `Fetch` takes the control unit as its
environment: the combinations of stall, flush and redirection that `control_unit.sv`
can produce (`CuKinds`), in any order, once something has been fetched that
can cause them (`past`). The instruction TLB is reduced there to the pages its entries hold, the walk in progress and
the entry it will fill, without flushes; on a miss it gives, as `tlb.sv:142,362` does, the exception of
entry 0, which is one if that entry is valid with A=0 (`UNACCESSED`). The level-2 cache is a set of requests
answered after any time. An address that IF1 itself finds misaligned or outside memory (`BAD`,
`if_stage_1.sv:125-144`) makes no request, and IF2 passes it on without waiting.

The debugger of `Pipeline` halts the core on reset; a core that is parked it resumes or has run the program
buffer, once the redirection that parked the core is done (`settled`): commands come through
JTAG, tens of cycles apart. In debug mode `ecall`, `mret` and `wfi` do nothing and
`ebreak` does not serialise (`decoder.sv:550-559`).

**The pipeline and its specification.** A stage of `Pipeline` carries the address of its
instruction; `prog` gives the instruction. The mapping to `Isa` takes as program counter the oldest
instruction not yet written back, or the address a redirection is about to fetch
(`ArchPc`), and as memory the one the written-back stores left (`amem`). Every cycle is then
one instruction, one trap, one interrupt, a division with the quotient of a flushed one (`StaleQuotient`, section 5), or a stutter. `MemoryCommitted` ties `amem` to the memory the
data cache holds.

In `CsrTraps` a step is a cycle of the CSR file, and the pipeline is reduced to what
matters for an interrupt: it is chosen (`interrupt_q`), attached to the instruction that leaves RR
(`attached`), and lost with a flush (`flush_q`). The mapping to `SpikeTraps` is the
identity on the registers; for `mip` it takes the interrupts pending when
the one attached was chosen.

**Abstracted data.** Virtual addresses are reduced to their page; the page offset plays
no part in translation. Data words, byte enables and sign extension are left out. Of the
three upper fields of a PTE (N, PBMT, reserved), which the code only tests
for zero together, one bit `rsv` is kept.

## 3. Runs

| Run | Properties | Size | What it shows |
|---|---|---|---|
| `mmu_sharing` | `WalkOwnership`, `NoStaleAllocation`, `WalkAnswersMiss`, `FetchMissEnds`, `DataMissEnds` | 7,700 states | both TLBs compete for the walker with flushes in every state, the data TLB asking all the time: walks are never lost, swapped or allocated after a flush, one that no flush overtook gives the page that missed, and every miss ends |
| `mmu_data` | `TypeOK`, `CamUnique`, `PteCacheUnique`, `DataCorrect` | 41,000 | loads and stores to every page of three tables are granted and placed as in the reference walk |
| `mmu_fetch` | `FetchCorrect` | 164,000 | fetches likewise, while software changes its tables; flushes come while the walker is ready |
| `mmu_spurious_fault` | `PageFaultIsReal` | violated | see section 5 |
| `mmu_lost_flush` | `FetchCorrect` | violated | the same as `mmu_fetch`, flushes in any state |
| `lsu` | `TypeOK`, `AnswerIsOwn`, `TableTracksCache`, `PerformedOnce`, `KeptIfAccepted`, `MemInstructionGoesOn` | 3,100 | memory instructions with refusals, misses, faults and flushes at any time; an instruction leaves the execution stage unless its TLB request was lost |
| `lsu_lost_store` | `RequestKept` | violated | see section 5 |
| `lsu_hang` | `MemInstructionEnds` | violated | see section 5 |
| `pipeline` | `TypeOK`, `MemoryCommitted`, `SingleStep`, `ImplementsIsa` | 218,000 | 169 programs, interrupts, late answers, a debugger, a divider of 16 iterations: the pipeline implements `Isa`, but for quotients of flushed divisions; no flushed or trapping instruction writes memory; a single step is one instruction |
| `pipeline_quotient` | `ImplementsIsaExactly` | violated | see section 5 |
| `fetch` | `TypeOK`, `RightInstruction`, `ReadyWhenAnswered`, `FetchGoesOn` | 140,000 | IF2 passes on the word of its own address, fresh after a `fence.i` or a redirection, or a fault; when IF2 has its answer IF1 can go on; fetch does not stop but for the two cases of section 5 |
| `traps` | `TypeOK`, `MprvOnlyInM`, `ImplementsSpike` | 758,000 | every trap, return, write and interrupt is a step of `SpikeTraps`, or one of the two exceptions of section 5 |

Deadlock is checked in every run: a clock cycle is always possible.

### Bounds

- `LEVELS = 2`, `RADIX = 2` in the MMU runs: with two levels there are superpages,
  tables, and a last level at which a table is an error, and the three-level
  walk only repeats the middle case. Two entries per table give pages that share a
  table and pages that do not. `LEVELS = 1` in the LSU runs, where the shape of
  the tables does not matter. `lsu` has one instruction for each outcome: a store and a load-reserved that
  are performed, an atomic without permission, a load outside memory, one with an older exception. Checking
  liveness limits the number of instructions; `lsu_lost_store` has more, and the theorems any.
- `TLB_ENTRIES = 2`, `PTW_CACHE_SIZE = 2`: smaller than the number of pages in use, so
  that evictions happen. The code has 8 and 3; the theorems hold for all sizes.
- `PPN_TOP`: number of values of the top field of a PPN. It equals `RADIX` in
  the MMU runs (see section 5, wide page numbers).
- `MAX_WRITES`: number of times software changes its tables; one change is enough to
  make every cached translation stale.
- `TAGS = 2`: tags wrap around at once. The code has 128.
- `FLUSH_STATES`: walker states in which the CSR file may flush; all of them except in
  `mmu_fetch`.
- The TLC tables (`MapA`, `MapB`, `MapC` in `MCMmu`) contain a superpage, a misaligned
  superpage, a missing page, a table at the last level, and leaves without each
  of A, D, W, U and R.

- `pipeline`: `N = 5` addresses, `PBUF = 2` of the program buffer, words in the
  same range, three registers. A program is `One; a; b; c; handler`, with a and b running over pairs of
  the main instruction classes (a over all of them and the rarer ones, b over those that take several cycles, redirect or trap), with and without interrupts enabled, and
  with single stepping: the pipeline overlaps at most six instructions, and hazards are
  between neighbours. `DIV_N = 15`, the 16 iterations of a 32-bit division; two programs have a division behind an
  instruction that traps and another in the handler, which then meets the first in the divider. The
  debugger halts the core on reset, runs the program buffer, steps and resumes; a halt of a
  running core is left out (section 5).
- `fetch`: three pages, one of which is not cacheable, one whose translation faults because its A bit is 0; two
  addresses in one line; one address that is no virtual address and one outside memory; one way, so that every
  refill evicts, and two TLB entries for three pages. Of what the control unit does (`CuKinds`) the run leaves out a
  stall of IF1 alone and a serialising instruction in ID, which flushes IF2 as a jump does and keeps the address; the theorems have both.
- `traps`: a supervisor interrupt and the counter overflow; all, only the first, or only the second of them
  delegated, so that interrupts of both modes occur; environment calls as
  the exceptions, with and without delegation of those of users; vectored and direct traps; two values of `mstatus`, chosen so that each mode,
  each enable and `mprv` are reached. Left out are vectors that wrap and a reserved `mpp` (section 5).

No symmetry is declared: page numbers are compared with fields of addresses.

### Fairness

`WF(ClockCycle)`: the clock runs. `WF(MemAccepts)`, `WF(MemAnswers)` in `Mmu` and the
four conditions of `Lsu!FairSpec`: whoever is asked accepts a request that stays
asked, and answers an accepted one. For the walker this is `FetchMissEnds` and
`DataMissEnds` themselves; for the data cache it is the contract of the HPDcache's
request port. Its arbiter has fixed priorities (`hpdcache_core_arbiter.sv:98`) with the walker first
(`top_tile.sv:646`); the walker waits for each answer before its next request, so it cannot keep
the core away forever. `Fetch!FairSpec`: the level-2 cache answers, and a walk the walker was asked for ends. Only weak fairness is used, because in each case the
requester holds its request until it is accepted. Nothing is assumed of
requests, flushes or the order of instructions.

## 4. Theorems

All hold for every value of the constants that satisfies the named assumptions of the modules, so
for every set of requests, instructions, programs, page tables, interrupts and timings. Hypotheses
beyond that are given with the theorem: each excludes something the code does differently, and each
is satisfied by the instance the property is checked on.

**`MmuProofs`** (at least one level and one entry per table, at least two entries in TLBs and PTE
cache, a PPN at least as wide as a VPN).

| Theorem | Says | Argument |
|---|---|---|
| `TypeCorrect` | `Spec => []TypeOK` | component by component: the walker's level is raised only below the last one; indices chosen by the replacement tree, by a hit or by a priority encoder lie inside their arrays (`FirstMember`, `EvictionIdxType`, `FillIdxType`) |
| `WalkOwned` | `Spec => []WalkOwnership` | `WalkOwnership` is inductive together with `TypeOK`. It was found by strengthening: that the TLBs and the arbiter agree on who is waiting is not inductive until it also says which page the walker works on and that an idle arbiter has a ready walker. The step reduces the three FSMs to their transitions (`ITlbFsm`, `DTlbFsm`, `WalkerFsm`) and splits on the arbiter's action |
| `NoStaleEntries` | `Spec => []NoStaleAllocation` if `TLB_ENTRIES <= 8` | needs `FlushInv`: a TLB that waits for a walk requested before the last flush is in `INVALIDATED_WAIT_RESPONSE`, the only waiting state whose answer is not allocated. The hypothesis is real: the flush clears the mask `'hFF` (`tlb.sv:202`) |
| `PteCacheTagsUnique` | `Spec => []PteCacheUnique` | inductive: a fill needs a miss of the address it fills |
| `FetchTranslated`, `DataTranslated` | `Spec => []FetchCorrect`, `Spec => []DataCorrect`, if `SupportedTables` and `StaticTables \/ FlushBetweenWalks` | `AgreeInv`: whenever software has flushed since its last write, every entry of the TLBs holds what the reference walk of its page ends at (`Agrees`), every slot of the PTE cache holds a table as memory has it (`CacheAgrees`), and the walker is at a PTE of the reference walk, all those above being tables (`WalkAgrees`). Steps of the walker are followed one level at a time, so no induction over levels is needed; an answer fills an agreeing entry (`FilledAgrees`) because `WalkOwnership` says whose page it is. An entry serves all the pages it covers because they share the walk down to its level (`SharedWalk`), and its permission bits then decide as the reference does (`FetchAnswer`, `DataAnswer`) |
| `OneEntryHits`, `OneEntryHitsSynced` | `Spec => []CamUnique` if `SupportedTables` and `StaticTables`; `Spec => [](synced => CamUnique)` if `SupportedTables` and `FlushBetweenWalks` | `DistinctInv`: also, no entry covers the page a walk is asked or made for. Two agreeing entries that cover one page have one level and cover the same pages (`SharedCover`), so an answer cannot overlap an entry |
| `MissAnswered` | `Spec => WalkAnswersMiss` | from the types alone: in `WAIT_RESPONSE` nothing cleans, so the answer is written |

`SupportedTables` asks that valid PTEs have no reserved bits or combinations and that physical page numbers fit
in a virtual one, the three cases of section 5. `FlushBetweenWalks` is what the run
`mmu_lost_flush` shows to be needed.

**`LsuProofs`**, for all `Instrs` and `Tables` of their types (`InstrsAssumption`, `TablesAssumption`).

| Theorem | Says | Argument |
|---|---|---|
| `TypeCorrect` | `Spec => []TypeOK` | |
| `AnswersAreOwn`, `TableIsRequests` | `Spec => []AnswerIsOwn`, `Spec => []TableTracksCache` | `ControlInv`: which state of the memory unit allows what to be in flight, what was performed, and what is in the table. The unit never compares tags; that there is only one request to answer makes it right |
| `EachPerformedOnce` | `Spec => []PerformedOnce` if `DirtyForLr` | `OnceInv`: with `EntriesFromWalk` (TLB entries are what the page table says) and `NoLateFault` (no exception is seen while the answer is waited for). `NoLateFault` is where the hypothesis comes in, see below |
| `AcceptedAreKept` | `Spec => []KeptIfAccepted` if `WellFormedTables` | `KeptInv`: with `TakenAsIntended`, what the cache took without having refused it |

The attempt without `DirtyForLr` fails for a reason in the code. A load-reserved is asked of the TLB as a
store but sent to the cache as soon as its entry translates, even if the entry is not dirty; the TLB
cleans that entry in the same cycle. While the unit waits for the answer nothing hits, the exceptions are
those of entry 0, and if that one is valid with A=0 the unit raises a load page fault
(`mem_unit.sv:230-255`): the access was performed and faults. The instance `lsu` has no such page.

**`PipelineProofs`**, for all programs (`ProgramsAssumption`), delays, interrupts and debuggers.

| Theorem | Says | Argument |
|---|---|---|
| `StoresCommitted` | `Spec => []MemoryCommitted` | `ControlInv` (nothing follows a serialising instruction past ID; a redirection finds the stages empty; what a debugger's state and a step allow in the pipeline) and `MemInv` (when `mem` and `amem` differ, it is by the one store that is in EXE or WB and cannot be flushed any more) |
| `TypeCorrect` | `Spec => []TypeOK` if `Supported` | with `RegionInv` (the stages hold code of the current mode, program or program buffer) and `ResultInv` |
| `SingleSteps` | `Spec => []SingleStep` if `Supported` | the same invariants; `StepInv` says that a stepped core holds one instruction, or copies of one that fetch cannot deliver |
| `RefinesIsa` | `Spec => ImplementsIsa` if `Supported` and `OnlySteps` | with the refinement mapping `ArchPc`, the address of the oldest instruction that will be executed. `IsaInv`: the stages hold the program in its order, except behind what turns it elsewhere (`OrderInv`); the operands in EXE are in the architectural registers and not about to be written by WB, as the interlocks promise (`OperandInv`); the result in WB is that of its instruction, or `stale` (`WriteInv`); an interrupt on its way is still enabled (`IrqInv`); a divider that is not `orphan` works on the operands of the division in EXE (`DivInv`); a stepped instruction is in the pipeline once (`StepOrder`). Then a cycle in which WB commits, traps or is interrupted is that step of `Isa`, or `StaleQuotient`, and every other cycle changes nothing that `Isa` sees |

`Supported`: there is a program buffer, without jumps; whoever sets `dcsr.step` has `ebreak` enter debug mode
or steps a program without one; a running core is not asked to halt. Without the second, a stepped `ebreak` traps
without being counted. Without the third, a halt acknowledged in the cycle in which a trap
redirects fetch leaves the program counter at the trap vector in debug mode, so the debugger's command executes the
program's handler there, and `dpc` gets the address before the trap.

`OnlySteps`: the program buffer writes nothing but `dcsr.step`, since what a debugger's command writes is not in the
program, and a program that is stepped does not trap (section 5, single stepping). Nothing is asked of divisions: `DIV_N` is
any number, the 15 and 31 of the code included, and divisions may be flushed by traps and interrupts. What a flushed
division can do is exactly `StaleQuotient`: the next division, if the divider had not ended the flushed one, is written
back with a wrong quotient, in its place and once; `pipeline_quotient` shows that the exception is needed.

**`FetchProofs`**, for all addresses, jumps, faulting, unaccessed and non-cacheable pages, addresses IF1 refuses, numbers of ways and of TLB entries.

| Theorem | Says | Argument |
|---|---|---|
| `TypeCorrect` | `Spec => []TypeOK` | the types by themselves; that the level-2 cache has at most one request from `FetchInv` |
| `RequestsTracked` | `Spec => []FetchInv` | the inductive invariant. Of cache and buffer only one has a request (`Exclusive`), and if IF2 holds an instruction it is its request, because a kill also empties IF2 (`Own`); the translation is that of the request's page, or a miss, with or without a fault of entry 0 (`Translated`); the level-2 cache has at most one request, and an answer that is older than a `fence.i` is ignored by who asked (`L2Inv`); lines hold what their tags say (`CacheInv`, `BufferInv`); a saved answer is the one IF2 waits for (`Saved`) |
| `FetchedIsRight` | `Spec => []RightInstruction` | from `FetchInv`, by the source of the answer: saved, cache hit, refill, buffer or fault; a fault of a page that does not fault was answered on a miss |
| `ReadyAtAnswer` | `Spec => []ReadyWhenAnswered` | from `FetchInv`: who answers has no other request |

**`CsrTrapsProofs`**, for every set of interrupts, faults, configurations and written values of
the type of `mstatus` (`WritesAssumption`).

| Theorem | Says | Argument |
|---|---|---|
| `MprvConfined` | `Spec => []MprvOnlyInM` | inductive with the types of the privilege and of `mstatus` (`MprvInv`): only a write in machine mode sets `mprv`; `mret` keeps it only if it stays in machine mode; `sret` from machine mode never stays there, because `spp` is one bit, and outside machine mode it is clear already; a trap to the supervisor starts outside machine mode |
| `TypeCorrect` | `Spec => []TypeOK` if `LegalWrites` | `mpp` never holds 2 unless software writes it: the code keeps what the reference would turn into user mode |
| `RefinesSpike` | `Spec => ImplementsSpike` if `Matching` | initial states map to initial states, and each action is a step of `SpikeTraps`, one of the two exceptions, or a stutter. An interrupt is chosen cycles before it is taken: `StillEnabled` says that it would be chosen again, because all that changes the enables empties the pipeline. If the simulator would choose another, that one is for machine mode and the chosen one delegated, or it is the counter overflow (`OutOfOrderInterrupt`). `Matching` asks nothing of delegation and interrupts; it excludes reserved modes and vectors that wrap (section 5) |

**Definitions by recursion.** `WalkPtes` is a recursive function; that it exists and satisfies its equation at every level
(`WalkPtesDef`), and that two walks agree down to a level (`SharedWalk`), is proved by taking the least
level at which it fails (`FirstLeast`, from the well-foundedness of the naturals): the induction
theorems of the library, which take the formula as a parameter, are not used.

**Left to TLC.** The liveness properties (`FetchMissEnds`, `DataMissEnds`, `MemInstructionGoesOn`,
`FetchGoesOn`): fairness and `ENABLED` are out of the prover's reach. All other properties of the passing
runs, both refinements included, are theorems. What the violating instances show (section 5) is shown by their
counterexamples.

## 5. Where the code and what is said of it differ

Five runs show that the code does not do what a comment next to it says. `PROJECT.json`
quotes the lines.

- `mmu_spurious_fault`: on a miss the TLB's exception outputs are those of entry
  0, and the memory unit looks at them without looking at `miss`. So does the instruction cache (below).
- `mmu_lost_flush`: in the PTE cache a fill or a hit has priority over the flush, and a
  read in flight fills the cache after the flush; a later walk then follows a table
  that software has replaced. `mmu_fetch` shows that a flush that finds the walker ready is enough.
- `lsu_lost_store`: a request the cache does not accept in its first cycle is made
  again with type ADD, which the interface encodes as a load. `KeptIfAccepted` in `lsu` shows that
  a request accepted at once is performed as it should be.
- `lsu_hang`: the TLB is asked in state `Idle` only, even for an instruction that is being
  flushed. The walk of a flushed access keeps the TLB busy; the next access
  that misses asks a busy TLB, which ignores it, and waits forever. `MemInstructionGoesOn` in `lsu`
  shows that nothing else stops an instruction (`RequestLost` is that state).

- `pipeline_quotient`: the kill inputs of divider and multiplier
  (`exe_stage.sv:107,121`) are connected to `kill_i`, which is not declared, so nothing
  drives it. A division that a trap flushes goes on; a division in the handler that starts before the
  first is done waits for it, and takes its quotient. `ImplementsIsa` in `pipeline` excepts that division
  (`StaleQuotient`) and shows that a flushed division does nothing else.

An instance that no run of `PROJECT.json` uses shows one more; run it with
`tlc -config MCPipeline_halt.cfg MCPipeline`.

- `MCPipeline_halt.cfg` violates `HaltEnds`. A halt request to a running core enters `HALTING`
  (`control_unit.sv:110`), which waits for an empty pipeline and stalls IF1. The stall also holds
  the register between IF1 and IF2 (`control_unit.sv:346-352`), so the instruction in IF2 stays valid, its cache
  request is not repeated, and the pipeline is never empty: `drac_pkg.sv:555` says of the request
  "Triggers a halt on the pipeline". Only an older instruction that flushes fetch (a jump, a trap, a CSR access) ends the wait.

Excepted in the properties of `fetch`:

- Page faults on a TLB miss. `xcpt_if` on a miss is that of entry 0, and the cache answers with it whatever `miss`
  is (`sargantana_icache_ctrl.sv:112,143`): while entry 0 holds a page with A=0, which no request cleans, every fetch that
  misses the TLB gets a page fault, the first one of the handler that should set the bit included, if that is reached
  through the TLB. `RightInstruction` excepts exactly these answers (`on_miss`).
- `dropped`: the cache gives a refill up in state `MISS` when the translation shows a fault (`sargantana_icache_ctrl.sv:120`).
  Two walks started by killed requests can evict the page of the request in progress and put one with A=0 into
  entry 0; the request then misses, shows that fault, goes to `KILL` and `READ` without an answer, and nobody asks again.
  The counterexample without the exception has 36 cycles with two TLB entries.
- `WalkLost`: the cache waits in `TLB_MISS` or `KILL_TLB` with no walk in progress. A killed `REPLAY_TLB`
  still makes its TLB request (`sargantana_icache_ctrl.sv:182-195`), which may start a walk
  for a page nobody waits for. A request that misses in the cycle in which that walk ends
  starts none of its own, and the cache then waits for an answer that has come. A TLB flush that cancels the request in `SEND_REQUEST`
  (`tlb.sv:252`) would leave the cache without an answer too; `Fetch` has no TLB flushes, so this
  case is read from the code and not checked.
- A page fault is answered also to a killed request, and in states in which the cache is not ready;
  `ReadyWhenAnswered` therefore speaks of answers without a fault, and `FetchGoesOn` stops at a fault, which the trap
  that follows clears.

The program buffer: its `ebreak` does not serialise (`decoder.sv:550-559`, "stops the probram buffer execution"), so the
two instructions fetched behind it are still written back after the core has entered `HALTED`. A store among them can even be flushed
when the cache has it, which `MemoryCommitted` counts as executed (`cut_store`); a CSR access among them redirects fetch
once more, so the next command may start at the wrong address; and a resume within two cycles of parking would lose its
own redirection, which JTAG is too slow for (`settled`). `ImplementsIsa` is therefore stated for program buffers that
only set `dcsr.step`.

Single stepping: an instruction that traps while `dcsr.step` is set gets as `mepc` the address in
IF1 and not its own (`csr_interface.sv:112`), and an `ebreak` that traps is not counted as a
step (`csr_bsc.sv:1373-1382`). The programs that are stepped have neither.

`ImplementsSpike` excepts two steps in which the CSR file differs from the reference:

- `OutOfOrderInterrupt`. The first pending interrupt is chosen before delegation and mode are looked at
  (`csr_bsc.sv:1185-1235`), where the reference looks at those for machine mode first (`processor.cc:706-734`): when only some
  supervisor interrupts are delegated, a delegated one of higher priority is taken first. And the counter
  overflow (cause 13) is the last choice of the core (`csr_bsc.sv:1213-1216`) and the first of the reference
  (`processor.cc:736-738`). The interrupt taken is always pending and enabled, and its trap is right. The same choice also
  lets an interrupt that may not be taken now hide one that may; that is a delay, about which a safety property says nothing.
- `WideSieWrite`. `sie` written while an interrupt is not delegated: the write goes through, although the
  comment at `csr_bsc.sv:872` says otherwise.

The instance `traps`, and `Matching` of the theorem, leave out two configurations in which it differs too:

- `stvec` vectored: the offset of the vector is added to bits 7:2 of `mtvec` instead of those of
  `stvec` (`csr_bsc.sv:1687`), and `stvec`, unlike `mtvec`, is not aligned when it is written (`csr_bsc.sv:884`); the
  instance has the same low bits in both. The sum has 6 bits, so a vector of an unaligned base wraps;
- `mstatus.mpp` written with 2, which the reference turns into user mode (`csr_bsc.sv:909-931`).

The runs' page tables avoid three cases in which `DataCorrect` does not hold:
a leaf with a reserved bit set (`ptw.sv:417` refuses it, but `tlb.sv:72-86` enters it
with its permissions, until a later request cleans it); a table pointer with D, A
or U set (refused, but cached by `ptw.sv:218`, so that the retry follows it); a
physical page number wider than a virtual one (`ptw.sv:344` keeps 27 bits). With 3
entries, as in the PTE cache, the replacement tree can point to the fourth, which does not exist,
and the victim is then entry 0. An LR to a page that is not dirty and that the cache refuses is
made again after its TLB entry was cleaned, at page 0.

## 6. Not modelled

- *Data paths*: ALU, immediate decoding, tables of encodings, sign extension, alignment of store data. They
  have no order of events; unit tests and the ISA tests cover them.
- *Multiplier*: the state machine of the divider with fewer states.
- *HPDcache*: vendored, with its own verification; its request port is modelled as an
  environment.
- *Counters* (`hpm_counters.sv`), floating-point state, PMP and the remaining CSRs: plain registers.
- *Test bench, JTAG, debug module, memory models, generators, physical flow*: not part of the tile.
- *Branch predictor*: compiled only with `BP_ENABLE`, which `simulator/simulator.f` comments out.
- *Reference simulator and test suites* (`simulator/reference`, `riscv-tests`): vendored C and C++, by
  far the most lines of the repository in those languages. The simulator is used here as what it is for
  the RTL, a reference: its page-table walk, traps and instruction loop are abstract specifications. Its vector, floating-point and
  crypto instructions, disassembler, device tree library and devices have no counterpart in the tile, and modelling them
  would say nothing about it.

## 7. Plan

1. Done: the MMU (`Mmu` and its parts, `MmuProofs`), memory instructions (`Lsu`), the pipeline
   (`Isa`, `Pipeline`), fetch (`Fetch`), traps (`SpikeTraps`, `CsrTraps`), each with its proofs.
2. Left to prove: what holds of programs that trap while they are stepped and of a halt of a running core, where `Supported` and
   `OnlySteps` stop (section 5 says what the code does there).
3. Composition of `Fetch` with `Tlb` and `PtwArb` instead of the reduced instruction TLB; the counters.
