# Verification of the CMU 15-213 lab programs

The repository holds one learner's solutions of the CMU 15-213 labs, with the
hand-out code around them. This directory specifies them in TLA+: models that
follow the code, TLC runs on small instances, and proofs checked by TLAPS.

## 1. The system

The labs are separate programs. Paths are below `src/Labs/`.

| Component | State | Operations | What is hard | Correct when |
|---|---|---|---|---|
| **Shell**, `ShLab/tsh.c` | signal mask, saved masks, program counter, handlers on the stack; the children | `eval`, `do_bgfg`, `waitfg`, `sigchld_handler`, `sigint_handler`, `sigtstp_handler`, `sigquit_handler` | handlers interrupt main and each other between any two system calls; SIGCHLDs merge; children end and stop at any time; pids are reused | the list, the masks and the children agree; keys hit the job the user waits for; waits end |
| **Job list**, `ShLab/tsh.c` 456-607 | `jobs[MAXJOBS]`, `nextjid` | `addjob`, `deletejob`, the lookups | full list, wrap of the job IDs, one process in two slots | lookups are unambiguous |
| **Cache simulator**, `CacheLab/csim.c` | one list of lines per set | `TraverseList`, `main`'s parser and counters | order of recency at the ends of the list, a set of one line, decoding of addresses | it counts what an LRU cache does |
| **Transpose**, `CacheLab/trans.c` | two matrices | blocked copies | blocks that use the target as scratch space | the result is the transpose |
| **Allocator**, `MallocLab/mm.c`, `memlib.c` | a heap of words: boundary tags and free lists in the free blocks | `mm_init`, `mm_malloc`, `mm_free`, `mm_realloc` | splits, merges and lists after long call sequences; exhausted heap | live blocks are disjoint, aligned and keep their contents |
| **Y86 instruction set**, `ArchLab/sim/misc/isa.c` | registers, memory, condition codes, program counter | `step_state`, one instruction at a time | wrap of words, order of the checks | it is the reference of both processors |
| **Sequential processor**, `ArchLab/sim/seq/seq-full.hcl`, `ssim.c` | the same, and the wires of the last step | `sim_step`: commit, then compute | what a failing instruction computed must not be committed | it does what the instruction set does |
| **Pipelined processor**, `ArchLab/sim/pipe/pipe-full.hcl`, `psim.c` | the same, and five pipeline registers | `sim_step_pipe`: five stages with stalls, bubbles and forwarding | load/use, `ret` and mispredicted branches within three instructions of each other; exceptions behind which work has begun | it does what the instruction set does |
| **Rio**, `ProxyLab/csapp.c` | a reader's buffer, pointers and counts | `rio_writen`, `rio_readlineb`, `rio_readnb` | short counts, interrupted calls, lines cut by buffers | its calls return the byte stream |
| **Proxy**, `ProxyLab/proxy.c` | the client served, a line buffer, a global message | `forward`: read and check the request, send it, relay the reply | early returns, a full message, peers that close | each client gets the answer to its own request |
| **Tiny**, `ProxyLab/tiny/tiny.c`, `cgi-bin/adder.c` | the connection served, a CGI child | `doit`, `serve_static`, `serve_dynamic` | the child writes to the same connection | replies are whole and in order |
| **Bit puzzles**, `DataLab/bits.c` | none | pure functions of 32-bit words | the ends of the ranges, floating-point encodings | they equal their reference functions |

The hand-out drivers (`sdriver.pl`, `mdriver.c`, `btest`, `test-trans.c`),
time measurement, the assembler and HCL compiler, earlier versions of the
allocator and of the shell, AttackLab, BombLab and build artefacts carry none of
the programs' own logic; section 9 and `PROJECT.json` give each one's reason.

Inside the shell everything interacts through shared state. Main and the
handlers run in one thread and share the job list, the mask and the terminal;
the kernel connects the shell with its children through `fork`, `waitpid`,
`kill` and the SIGCHLDs it sends. The processors share the object file and the words and
memory of `isa.c`. Clients, the proxy, Tiny and its CGI child share connections, which Rio reads.

## 2. Plan

In order of importance; one component after the other, each with its proofs.

1. **Shell** (section 3): `JobList`, `JobTable`, `Shell`, `ShellProperties`,
   `JobControl`, and the proofs.
2. **Cache simulator** (section 4): `LRU`, an abstract cache defined by the
   history of accesses; `CacheSim`, the lists of `csim.c`, shown to implement it by
   TLC and by proof.
3. **Allocator** (section 5): `BlockSizes`, `Heap`, `MallocDriver`, the words
   with tags and lists under any sequence of calls; `Allocator`, the abstract
   specification, which the allocator implements, by TLC and by proof.
4. **Y86** (section 6): `Y86`, the instruction set; `Seq` and `Pipe`, which implement
   it, by TLC and by proof.
5. **Rio** (section 7): `ByteStream`, what its calls promise; `Rio`, shown to implement it.
6. **Proxy and Tiny** (section 8): `Connections`, `Proxy`, `Tiny` and `ProxyLab`,
   which composes them with the clients, and the proofs of their invariants.

Every safety property that a passing run checks is also proved. Left to TLC are the liveness properties, and
requests so large that their sizes wrap are left out (the heap is proved for requests up to `SizeT` - 16).

## 3. The shell

### Modules

- `JobList` - the array, the counter and the helper routines as operators
  (`addjob`, `deletejob`, `fgpid`, `getjobpid`, ... as in the code), with the
  properties of the list alone. A pointer to a job is its slot and NULL is 0.
- `JobTable` - the list driven by every order of calls; `MCJobTable` for TLC.
- `Shell` - main, the handlers, the mask and the children. Extends `JobList`.
- `JobControl` - the abstract specification: the job state of each process and
  the transitions that the comment on job states allows, one job in the foreground.
- `ShellProperties` - what is checked; the refinement mapping (`jobState`: the
  state of the slot that holds a process) and the inductive invariant.
- `MCShell` - the symmetry set for TLC.
- `ShellProofs` - the proofs, of the list's routines first.

### How the model follows the code

The shell is one thread. `stack` holds the active handlers and `pc` says where
main is; the topmost handler runs, and main when there is none. A pending signal
that is not blocked is delivered before the thread's next step, as the kernel
does when a process returns to user mode. A handler's frame keeps the mask that
its return restores. Steps end where another actor can tell the difference:

| Action | Code |
|---|---|
| `ReadCommand` | `main`'s loop and the empty-line return of `eval` |
| `EvalBlocks` | `eval`: block SIGCHLD, `builtin_cmd` for `quit`, `jobs`, `bg`, `fg` |
| `Fork`, `EvalAddsJob`, `EvalRestores` | `eval`: `fork` (which may fail), block everything and `addjob` (which may fail), restore |
| `Lookup`, `BgFg`, `BgFgRestores` | `do_bgfg`: arguments and lookup; block, change the state, `kill(SIGCONT)`; restore |
| `WaitfgBlocks`, `WaitfgChecks`, `Suspend` | `waitfg`: the loop test and `sigsuspend` |
| `Deliver` | the kernel starts a handler (installed by `Signal` with an empty `sa_mask`) |
| `SigchldWaits`, `SigchldUpdates` | one `waitpid`, then the change of the list with every signal blocked, or the NULL dereference |
| `KeyHandlerReads`, `KeyHandlerKills` | `sigint_handler` and `sigtstp_handler`: `fgpid`, then `kill` |
| `ChildExecs` | the child's half of `eval`, up to `execve` |
| `ChildEnds`, `ChildStops`, `Key` | children, other processes, the keyboard and the driver |

A process goes through `none`, `forked` (no process group of its own yet),
`running`, `stopping` (stopped, not yet reported), `stopped` and `zombie`.
`intr` holds the processes with a SIGINT that waits for SIGCONT.

Left out: command lines, output and `errno`; parsing (a command is one of six);
process groups with more than one process; SIGCONT from other processes; a stop
of a child before its `execve`; handlers running in the child before its `execve`
(they find an empty foreground). A user who names no job, or gives no argument,
takes `Lookup`'s second disjunct.

### What the runs show

- **Shell** (pass). Three processes, two slots (so that the list is full while a
  third child runs), job IDs up to 3 (so that numbering wraps), one key.
  Invariants: `PidListedOnce`, `NoGhostJob` (the list has no job whose process is
  gone), `ForegroundIsWaitedFor` (the comment "At most 1 job can be in the FG
  state", and that main is waiting for it), `StoppedAgrees` (list and kernel
  agree on who is stopped), `NoLostReport` (merged SIGCHLDs lose nothing),
  `JobPointerValid` (`do_bgfg`'s pointer is not stale), `NextJidFree` (the number handed
  out next is free unless numbering wrapped). `ImplementsJobControl`:
  every step is a legal job-state transition or changes none.
- **ShellLive** (pass). Two processes and two keys, so that a key handler is
  interrupted by another key and by `sigchld_handler`. `KeysHitTheWaitedJob`,
  `KeysWorkAtPrompt`, and the liveness properties `ForegroundWaitEnds` and
  `ReapedWhileWaiting`.
- **ShellNull** (violation). `NeverCrashes`: a child that did not fit into the
  list stops, and `sigchld_handler` writes through the NULL that `getjobpid`
  returned.
- **JobTableJid** (violation). Every order of calls on four slots: `JidNamesOneJob`
  fails, after the wrap two jobs have one ID.

One behaviour of the model needs saying, although no run claims the opposite: `eval`
blocks SIGCHLD before it calls `builtin_cmd` and restores the mask only when the
command was not built in (tsh.c:185 and 210). After `jobs`, `bg` or `fg` SIGCHLD
stays blocked at the prompt until the next job is waited for, so a child that ends there stays a
zombie and listed. That is why `ReapedWhileWaiting` speaks of a shell that waits.

Bounds. `MaxJid` bounds the job IDs handed out, which the code lets grow
(`deletejob` sets `nextjid` to the largest jid plus one); it limits the commands
that start jobs, nothing else. `MaxKeys` bounds signals from outside. The
real `MAXJOBS` is 16; two slots already give a full list, two jobs next to
each other and a free slot before a used one. Processes are interchangeable
(symmetry), except in the runs with liveness properties.

Fairness (`Fairness`): the shell's thread keeps running while it has a step to
take that is not reading input; a pending unblocked signal is delivered; a forked
child reaches `execve`. These are what the kernel's scheduler gives a runnable
process. Nothing is assumed of users (they may never type) or of children (they
may run for ever), so "waits end" is claimed only once the job ended or stopped.

### What is proved

For every number of slots, every set of processes and any number of keys,
under `MaxJobsAssumption` (there is a slot) and `PidsAssumption` (0 and -1 are not
process IDs):

- `TypeCorrect`: `TypeOK` always holds.
- `InductiveCorrect`: `Inductive` always holds, and from it every invariant that the runs check:
  `ForegroundCorrect`, `NoGhostCorrect`, `PidListedOnceCorrect`, `NextJidCorrect`,
  `StoppedCorrect`, `KeysWorkCorrect`, `JobPointerCorrect`, `KeysCorrect`, `ReportsCorrect`.
- `ShellImplementsJobControl`: every step is a legal transition of `JobControl` or a stutter.

The argument. The properties speak of the list; what makes them inductive is
about masks. `SigchldHeld`: from the time `eval` blocks SIGCHLD until the job is
listed, or until `do_bgfg` has used its pointer, SIGCHLD is blocked in the mask
and in every frame's saved mask and its handler is not active; so no handler
deletes a job in that time, the new pid is not listed yet (`NewPidUnlisted`) and
the pointer stays valid. `WaitfgHoldsAll`: `waitfg` looks at the list with every
signal blocked, and the outermost handler above it restores that full mask; so
handlers run only inside `sigsuspend`, and only while main is at `waitfg`'s test.
That is why a key handler that read the foreground pid aims at the job main waits
for. `MainLeavesKeysOpen`: the masks that `eval` and `do_bgfg` save block at most SIGCHLD, and so does
main's mask outside their critical sections; a handler's first frame holds that mask while main
is interrupted. `TakenIsStopped`: between `waitpid`'s report of a stop and the change of
the list nothing continues the process, because only main does that and main waits for its
handlers; this is what carries `StoppedAgrees` over the two steps of `sigchld_handler`.
`FreeSlotsClear`, `ListedHasState` and `PidListedOnce` make the lookups unambiguous and the mapped
state of a process that of one slot. `Inductive` is the conjunction of these with the properties.
The proof has one lemma per conjunct; each splits on the actions that write the state the
conjunct reads (`JobsWriters`, `ProcWriters`), and handler steps are summarised
by how they change the stack (`Returns`, `Moves`). The refinement adds one lemma for each writer
of the list: which process's state changes, and from what. `ShellProofs` begins with the
lemmas on the scans, `addjob` and `deletejob`; an induction over the natural numbers that they need is
derived from well-foundedness (`LeastNatural`).

Model-checked only: the liveness properties (liveness under fairness is outside the prover's reach).

## 4. The cache simulator

- `LRU` - what the counts should be. Its state is the history: when each block of
  each set was used last. A block is cached when fewer than `limit` blocks of its
  set were used since. There are no lines and no lists in it.
- `CacheSim` - `csim.c` with its nodes and pointers. `ReadEntry` is the head of
  `main`'s loop (a modify makes two calls), `Advance` one turn of `TraverseList`'s
  search loop, `Hit` and `Miss` the rest of `TraverseList` with `main`'s counting,
  `Finish` the end of the trace. The pointer assignments (`MovedToTail`, `Appended`,
  `HeadPopped`) are made one after the other, in the code's order; `malloc` may
  return any node that is not in use.
- `CacheProperties` - what is checked, with the history variables `lastUse` and
  `now` that give `LRU`'s state.
- `MCCache`, `CacheProofs` - the instances for TLC and the proofs.

Left out: the arguments, the text of the trace, the split of an address into tag
and set, and verbose output. An entry is any set, any tag and any method. (The first format of
`sscanf` at line 142 drops a leading 7 of an address.)

**Cache** (pass): two sets, three tags, zero, one or two lines per set (so `-E 0`,
where the line that is popped is the one just appended), every trace of four
entries; with modifies that is up to eight accesses. The cfg's `CONSTRAINT`
`OneBlockInLaterSets` follows only traces that use one block of the second set: the sets share no
state but the counts, so what a set with evictions does is seen in the first. `ListLinked`: linked
both ways, no line lost, none freed while linked. `OldestFirst`: the order of the list is
the order of last use. `LinesAreRecent`: no block twice, and the lines are those used last.
`SearchMissesNothing`: the search never stands on a freed line and never passes the
block it looks for; the dummies' tag 0 is a tag like any other, so the valid bit
matters. `ImplementsLRU`: the counts are those of `LRU`. `SearchEnds`: every search
ends, under weak fairness of the one thread (so no symmetry is used). Three tags suffice to evict
from two lines and use the evicted block again; a third line adds no new position in the list beside
first, last and only, and the proof covers every number.

Proved, for any sets, tags (finite, with 0), addresses and `MaxLines`
(`TagsAssumption`, `AddrAssumption`, `MaxLinesAssumption`): `CacheInductiveCorrect`,
with `ListLinkedCorrect`, `OldestFirstCorrect`, `LinesAreRecentCorrect` and `SearchCorrect` as its
parts, and
`CacheImplementsLRU`. The argument. `SetOK` is the invariant of one set with its
state as parameters; for each list operation one lemma shows it linked
(`MovedToTailLinks`, `AppendedLinks`, `HeadPoppedLinks`), one in order, and `SetHit`,
`SetAppend`, `SetEvict` put these together with the contents. Order by last use is
what makes the search's invariant inductive and excludes cycles. The refinement
counts: the blocks used since a block with a line map into the other lines
(`HitIsCached`); a used block without a line is older than all lines of a full set
(`MissIsNotCached`); `LRU`'s set is full when the list is (`FullIsFull`).
`SearchEnds` is model-checked only.

## 5. The allocator

- `BlockSizes` - the arithmetic: `ALIGN_TO_FULLBLK` (with the wrap of `size_t`), the
  special sizes of `mm_malloc`, the size classes.
- `Heap` - `mm.c` on `memlib.c`. Memory is one function from word addresses to words,
  in which tags, links and payload lie next to each other, so a link written into
  a live payload or a tag written to the wrong place is a lost word there as in the program. Each
  macro and routine is an operator of the same name on that memory; `mm_malloc`,
  `mm_realloc` and `mm_free` return memory, break and result.
- `MallocDriver` - the actions: `Alloc`, `Realloc`, `Release` and `NextTrace`
  (`mem_reset_brk` and `mm_init` in the memory the last trace left), as `eval_mm_valid` makes them,
  in any order. The program is one thread, so a call is one step.
- `Allocator` - what an allocator owes the driver. `Acceptable` is what `add_range` tests: the new
  payload is aligned, and its first and last byte lie in the heap and in no other payload. A payload
  that encloses another one passes these tests (lines 409-410). The comment above them demands
  more, "The payload must not overlap any other payloads" (line 407); that is `Apart`, and the
  specification asks for both. `Moved` adds that a realloc keeps the words.
- `HeapProperties` - what is checked: the list that `note_malloclab_submit.md:701-708`
  gives for a future `mm_check`, and the refinement. `MCMalloc` - the symmetry set.
- `MallocProofs` - the proofs.

The driver fills payloads with the low byte of a block's index; here a payload word
is the index itself. After a realloc the driver compares the old words and fills
the payload again. The model compares by refinement and fills only the new words, so
that a lost word is not covered up. Sizes are multiples of a word.
When memory is exhausted `mm_malloc` dereferences NULL (`status = "crashed"`);
`mm_realloc` of the last block writes behind the memory, which may crash or go
unnoticed (`"overrun"`): that trace is not followed further. A double free, a free of a
pointer the allocator did not return, and requests of 0 bytes do not occur in traces.

**Malloc** (pass): three blocks, requests of 40 bytes (blocks of 48, list 2) and of 112 (rounded up to 128
by `mm_malloc` and not by `mm_realloc`), 320 bytes of memory, of which `mm_init` takes 112. That is enough
for each case of `place`, `coalesce` and `mm_realloc`, for lists of two blocks, and small enough for
exhaustion. Two traces run in one memory; the `CONSTRAINT` `OneBlockInLaterTraces` lets the second have one
live block at a time, which is enough to find the first trace's tags and links as stale words. `HeapTiled`:
the blocks cover the heap, header equals footer. `FreeListsExact`: each list holds exactly the free blocks
of its class, and BK undoes FD. `NoAdjacentFree`: nothing is left to merge. `AllocatedAreHeld`: no block
leaks, each is large enough. `GrowsOnlyWhenNoneFits`: the heap is extended by `mm_malloc` only when no free
block would do. `ImplementsAllocator`: the refinement, with the payload words read from memory. A trace may
be any sequence of calls, there is no bound on its length. **MallocExhausted** (violation; 176 bytes,
requests of 8, 24 and 40): `ReportsExhaustion`. `mdriver.c` tests both results for NULL, and `extend_heap`
returns it, but no caller looks.

`mem_sbrk` refuses a break past the end of the memory (`SbrkFails`); its sum is exact here, where a request
close to 2^32 would wrap a 32-bit pointer.

Bounds. `MAX_HEAP` (20 MB in the code) bounds the blocks that exist; `MaxTraces`
the traces; `SizeT` is 2^32 in the code and only has to exceed the sizes.

Proved, for every size of the memory, any set of block indices and any requests that do not
wrap (`SizeTAssumption`, `HeapAssumption`, `IdsAssumption`, `SizesAssumption`):

- `HeapInductiveCorrect`: `HeapInductive` always holds; from it the four invariants of the run,
  `HeapTiledCorrect`, `FreeListsExactCorrect`, `NoAdjacentFreeCorrect` and `AllocatedAreHeldCorrect`;
- `GrowsOnlyWhenNoneFitsCorrect`, the action property;
- `ImplementsAllocatorCorrect`, the refinement, words of the payloads included;
- `PayloadsApartCorrect`: no two payloads of `mm.c` overlap and all lie in the heap, which follows from the
  refinement;
- `AlignCorrect`, and `ListsOrdered`: the classes are monotone, which is why `search_block` may
  start at the class of the request.

The argument. What the macros see of a heap are words; the proofs speak of its blocks. `Heap(m, e, B,
sz, F, L)` says that memory `m` with break `e` consists of the blocks `B` with the sizes `sz`, of which
`F` are free and `L` are in a list: the blocks tile the heap (`Layout`), each carries its tag at both
ends (`Tags`), and the links of `L` and of the list heads undo each other, stay within one class
and grow in rank (`Links`). The rank is what makes the lists acyclic, so that `FreeList` ends and
finds every block (`ListContents`). `L` may differ from `F` by the block that a routine has in
hand. One lemma describes each routine on such a heap, in the order of the calls: `DetachStep`,
`AttachStep`, `CoalesceStep`, `FreeIs`, `SearchIs`, `PlaceIs`, `ExtendStep`, `MallocIs`, `ReallocIs`,
`InitIs`; each also says whose words are kept (`Kept`). `HeapInductive` says that while the
status is `"ok"` there are `B`, `sz` and `F` with `L = F`, no two of them neighbours, and that the
allocated blocks are the prologue, the sentinel and one block for each id that holds one. It needs all
of these together: `coalesce` finds the next block to merge by the tag of its neighbour, so tags must
tile; a link written by `attach_block` is harmless only if the block is free; and `coalesce`
stops after one turn because no two neighbours were free before. `MaxBlocks` counts the blocks
that fit into the memory, which is more than any walk through a list or through the heap takes.

`HeapInductive` speaks of functions on all numbers, so TLC cannot evaluate it; it checks what follows
from it. The walks (`FreeList`, `Blocks`, `coalesce`) are recursive functions
up to `MAX_BLOCKS`, because the prover cannot reason about recursive operators.

## 6. The Y86 processors

### Modules

- `ISA` - what `isa.c` offers to all three: words that wrap, memory, the register file,
  `compute_alu`, `compute_cc`, `cond_holds`. `WordBytes` and `Half` are parameters (8 and
  2^63 in the code); how a word is laid out in bytes and C's `&` and `^` are parameters too,
  of which only what the assumptions say is used.
- `Y86` - `step_state`, one action for each case of its switch. It is the abstract
  specification.
- `Control` - the control logic that `seq-full.hcl` and `pipe-full.hcl` have in common.
- `Seq` - `ssim.c`. A step commits what the step before computed (`update_state`) and
  computes the next instruction (`Computed`).
- `Pipe` - `psim.c`. A cycle updates the state and the pipeline registers from the signals
  the stages computed. Those signals are functions of the state, so they are operators
  with the names of the HCL file; the order in which `do_*_stage` runs is the order in
  which they depend on each other.
- `SeqProperties`, `PipeProperties` - the properties and the refinement mappings, and for
  `Pipe` the inductive invariant.
- `Processors` - both on one object file: `Pipe` with its properties, and `Seq` as an
  instance. `Programs` builds object code for TLC; `MCProcessors` is the instance.
- `ISAProofs`, `SeqProofs`, `PipeProofs` - the proofs; the first one holds the lemmas on words,
  memory and registers that the other two share.

### The mappings

`Seq`: what a step computed counts as done when the step's status is AOK, and is dropped
otherwise. `Pipe`: an instruction has happened when it is in M. The registers are
the register file with W's and then M's writes, the memory is that with M's store, and
the program counter is that of the oldest instruction in E, D or fetch; a `ret` in M gives
the address it read. When M or W holds a failed instruction the state is the one before it. The
history variable `isa` holds that state, and `idle` counts cycles without an
instruction in write-back.

### What "implements" is claimed for

`Y86!Supported` restricts programs. Outside it the simulators and `isa.c` differ, or the C
code has no defined result:

- `pushq`, `call` and `popq` with a bad address: `isa.c` moves `%rsp` before it checks (lines
  838, 875, 898), the processors leave it;
- a fetch within 5 bytes of the end of memory: `psim.c` (line 1403) asks that `valp+5` is
  memory, although instructions have up to 10 bytes and may have fewer (`Reach`, `FetchReach`);
- an instruction of which only the first byte is in memory: `ssim.c` sets ADR, and then
  overwrites it with `gen_Stat`'s result (line 769);
- register IDs that do not exist: only `isa.c` checks them;
- a position next to the largest word: `pos + 8` wraps, the check in `get_word_val` (line 314)
  passes, and both simulators read outside the memory;
- a program that writes into itself: the pipeline has fetched already. The program is in the first
  `ProgLen` bytes; it executes there (or jumps outside of memory, which is a failure all three agree on) and
  stores behind them. What it reads is not restricted;
- in the pipeline, an operand without a register (`Named`, see below).

Not modelled either: the limits of `-l` (`ssim` leaves the last instruction uncommitted,
`psim` counts cycles), the tallies that give the CPI, SEQ+, and the windows.

### What the run shows

**Processors** (pass). Words of one byte, 32 bytes of memory of which 20 are the program's, 2212
programs: the stack pointer and `%rax` are set, then come every two of 22 instructions or every three of
the 12 that load, use, return, branch, store or fail, then a move that uses the result and a
halt. Three consecutive free instructions fill E, M and W in front of a fourth in D, which is as far as the
control logic looks; branches lead forwards, back and behind the end, the stack holds a code address, a
stack address and the largest word, and additions wrap. `NoConflictingControl`: no register is asked to
stall and to bubble. `ForwardingIsCurrent`: what decode reads is the register's value after E, M and W.
`BranchesCompare`: conditions after a subtraction compare integers, also when it
overflows. `StallsAreBounded`: at most four cycles in a row without an instruction in
write-back, however load/use stalls, mispredictions and returns combine.
`SeqImplementsY86`, `ImplementsY86`: every step is `step_state` or, in the pipeline, a
stutter, and both go on until the status is not AOK (weak fairness of the run loop,
which is a loop in one thread).

**ProcessorsNoBase** (violation). `rmmovq`, `mrmovq` and `OPq` may leave out a register (`yas.c:270`, "Check for
optional register"). `isa.c` and `Seq` then read 0. In the pipeline `d_srcB` is `RNONE`, and so are the
destinations of instructions ahead that write nothing; the forwarding conditions of `pipe-full.hcl`
compare only the numbers, so decode takes, for the base of a load, the address that
the store in front of it computed. The attempt to prove `ImplementsY86` found this: the lemma on decode needs a source
that is a register. `Named` lists the instructions whose register IDs a program must give: none in
this run, the three in **Processors** (`NamesRegisters`).

### What is proved

For words of any size, any memory and any program, under the assumptions of `ISA`
(a word has bytes and decodes to what was encoded; memory is smaller than half the words)
and `ReachAssumption`, which says that an instruction's bytes are within `Reach` and the program within memory:

- `SeqTypes`: the types of `ssim.c`'s state. `SeqStepsAreY86`: the safety part of
  `SeqImplementsY86`. One lemma for each instruction; `After` says that the mapped state
  after a step is what was computed from the mapped state before it, so each instruction compares
  `Computed` with its case in `Y86`. `SupportedFacts` turns the precondition into facts about the fetch.
- `PipeStepsAreY86`: with `NamesRegisters`, the safety part of `ImplementsY86`; and `PipeTypes`, `BranchesCorrect`.
- `StallsEnd`: `StallsAreBounded`, for every program; it needs only which registers hold bubbles behind a
  return, a jump or a load (`BubblesAreNops`, `BubblesFollow`, `IdleBounds`).
- `SubtractionCompares`: `Compares` for all words. The difference wraps at most once
  (`WrapOnce`); `BranchesCompare` is this for the operands in E.
- `ControlIsConsistent` needs no invariant. `ForwardingIsRight` needs only that the register
  file is a function on the registers: the order in which the sources are tried is the order of the
  writes, the later ones first.

The argument for the pipeline. `PipeInductive` says of every pipeline register what it holds: D what memory
holds at `D.pc` (`DIsFetched`), E what memory holds at `E.pc` with the values its source registers have once
M and W have written (`EIsDecoded`), and that E, D and fetch are consecutive instructions as predicted. Two
things break this for a while, a `ret` and a mispredicted jump, and there the registers in between are
bubbles (`BubblesFollow`). Memory under the program does not change because a store in M is behind `ProgLen`
(`MIsApart`); the instruction in fetch may precede a store by three cycles. Then the instruction that the
instruction set executes next is the one in E, or the oldest one in D or fetch. A cycle in which E's
instruction moves on to M does that instruction: `DecodedFacts` and `EComputes` show that its operands,
result, address and conditions are those of `Y86`, and one lemma for each instruction that the mapped state
changes as its action says. `StopStep` is the case that it fails. Every other cycle leaves the mapped state
alone (`BubbleStays`, `FailureStays`). For the invariant itself, `DStep`, `EStep` and `MStep` treat one
register each; `EStep` rests on `ForwardedValue`, which is `ForwardingIsCurrent`, with the load/use stall as
the case the exception stands for.

The state of both simulators is bounded in nothing but the assumptions; TLC checked `PipeInductive` on the instance of
**Processors** before it was proved. Model-checked only: that the processors make progress.

## 7. Rio

`Rio` is `rio_writen`, `rio_readlineb`, `rio_readnb` and `rio_read` between a writer
and a reader. A step is one `write`, one `read` into the buffer, or one copy out of it; the kernel
takes and gives any positive number of bytes it has room for, and an interrupted call is
repeated, which changes nothing. The writer closes when it has written all. Errors
of `read` and `write` other than EINTR make the wrappers exit and are left out.
`ByteStream` is the abstract specification: a call of `rio_readlineb` returns the next line, cut at the
call's own `maxlen - 1`, and one of `rio_readnb` its own n bytes, or fewer if the stream has no more.
The refinement maps call and length to those of `Rio`, so a line that runs over its newline or a block
that comes back short is not allowed. `RioProperties` adds the history variable `unread`, what no call
returned yet.

**Rio** (pass): every stream of up to five bytes (`MaxBytes`) of three characters, buffers of two
bytes on both sides, `maxlen` and n of 1 (no room for a byte of a line), 2 and 3: lines
longer than the buffer, than `maxlen` and exactly as long. `NothingLost`: what was not
returned is what the caller's buffer, Rio's buffer, the kernel and the writer hold, in this order.
`NoOverflow`: no step overruns either buffer, the null byte included. `ImplementsByteStream`.
`CallsReturn`: every call returns, under weak fairness of the writer, which goes on and
closes, and of a call that has begun (signals do not interrupt a call for ever).

Proved, for any characters, streams, sizes and capacity, under the assumptions of
`Rio`: `NothingIsLost`, `NothingOverflows`, `RioIsByteStream` (the safety specification is all of
`ByteStream!Spec`). The inductive invariant adds to `NothingLost` the types and what a call
has copied: fewer than `len` bytes of a line, none of them a newline, since the call began. Then the
bytes a call returns are a prefix of `unread`, and it ends where `ByteStream` ends it; at the end of
file that is because nothing is left. `CallsReturn` is model-checked only.

## 8. The proxy and Tiny

### Modules

- `Http` - requests and replies as sequences of lines. A line is a record with what
  the programs look at: `parse_req_line` and the tests of `parse_url` are predicates on it.
  Both programs read buffers that `sscanf` may not have written. Tiny does not look at its result
  (tiny.c:63), so the line it goes on with is any of `Scanned`: method and `uri` as far as the line
  has words, and what the stack holds for the others. The proxy tests for 0 (proxy.c:90), but a URL
  that ends within or right behind `http://` gives EOF: the buffer is one of `Understood`. What an unwritten buffer
  may be read as is the parameter `Garbage`, any nonempty set of URLs, those of other clients included.
- `Connections` - sockets: lines in order, end of file after a close, SIGPIPE when the peer is
  gone, and what happens to connections when a process ends.
- `Proxy` - `main` and `forward`. `Tiny` - Tiny's `main`, `doit` and its CGI child.
- `ProxyLab` - clients, the proxy and Tiny together. `ProxyProperties`, with the inductive
  invariant; `MCProxy`; `ProxyProofs`.

Steps end at each call of Rio or the socket library, except that the lines of one reply of Tiny's
(`clienterror`, `serve_static`) are written in one step: no one but the reader of the same connection could
tell. `t_Fails` is the case that Tiny exits in between: `Open` or `Mmap` fails after the head of a page was
written (as it does for an empty file), or `Fork` after the head of a dynamic one. An unwritten buffer may
also be no string at all, or too long a one, and end the program (`t_Garbled`, `p_Garbled`). Every line of
the request is read, checked and appended in a step of its own. Lines have sizes, so that the message can be
full; `append_msg` returns 1 then, and `forward`, which tests for less than 0, goes on without the line. At
the end of file the line buffer keeps the last line; in Tiny it may be uninitialised (`t_NoHeader`), and
either case is allowed. The CGI program is a process of its own. A client sends a request line by line and
may close at any time. A close is an end of file for the other side; the reset that TCP sends when unread
data is discarded, and the lines it may take with it, are not modelled.

### What the runs show

**Proxy** (pass): two clients, each of the proxy or of Tiny, each with one of eight requests: pages, a
program with and without arguments, no header at all, a header that fills the message, headers the proxy
replaces, Host first and last, a method that is refused, a line of one word and a URL cut short. The last
two may be read as a URL of a missing file or as one without a path (`MCGarbage`). `RequestForwarded`: what
is sent begins with the request line that was understood and checked, the headers the proxy keeps come right
after it and in their order, each of its own once, one empty line ends it, and there is a Host, and only one
unless the client's own stands before another header (see **ProxyHost**); all this for requests that have a
header and fit. `RepliesMatch`: no client gets a line of another's reply, nor one out of order, however
requests with unwritten URLs mix with the others; the client of such a request may get the reply to any URL
of `Garbage`, as the code fixes none. `DescriptorsClosed`: when the proxy accepts again all it had open is
closed. `EveryoneAnswered`: a client that sent its request and stays gets the head of a reply, except when a
server has ended (a failed connect or SIGPIPE ends the proxy, and so does the end of every forwarded reply,
see below) or is in one of four places, which the property names: the header loops of both programs spin
when the peer closes before its empty line; the proxy takes the empty line of a request without headers for
the first header and waits for another; and when the message was full the empty line is dropped, and Tiny
and the proxy wait for each other. The CGI program crashes without arguments (`strchr` returns NULL). After
the head of a reply `forward` maps the socket into memory; that fails, and the wrapper `Mmap` ends the
proxy, so "GET Proxy-reply entity" (proxy.c:300) does not happen. In the model this is `p_Entity`; a client
gets the head of a page and no more, and `EveryoneAnswered` asks for no more.

**ProxyHost** (violation; one client of the same requests). `OneHost`: `note_proxylab.md:22-24` has three items,
all ticked, on the Host header: parse it as the case may be, "有的话就转发" (forward it if there is one),
"没有的话就加上和URL一样的" (if there is none, add the one of the URL). So a request with at most one Host goes out with one.
But `flag_host_hdr` is assigned by every header line (proxy.c:246 and 252), not set: after Host and then Accept
it is 0 again, and `forward` adds a second Host behind the client's.

Bounds. Two clients are enough for one to find what the other left behind; a request
has up to two headers, enough for a first one, which is read outside the loop, and another one;
`MAXLINE` is 16 with sizes from 1 to 5, so that one of the requests does not fit.

Fairness (`Fairness`): the proxy, Tiny and the CGI program are processes the scheduler runs while
they can; a client sends the rest of a request it began unless it closes. No client has to
connect or to close.

### What is proved

`ProxyProofs`, for any number of clients, any requests and any sizes: `DescriptorsClosedCorrect`,
`RepliesMatchCorrect` and the inductive invariant both follow from, `ProxyInductiveCorrect`; and
`RequestForwardedCorrect`, with the invariant `Collecting` on top of that one.

Assumptions: no client is called "forward" or "none" (`ClientsAssumption`); a request is a request line,
headers and the empty line (`RequestsAssumption`, `MessageLines`), where `RequestLines` and `URLs` list
every combination of what the programs look at; an unwritten buffer holds one of at least one URL, of which
nothing more is assumed than that `parse_url` would look at it (`GarbageAssumption`); the buffer has room
for a request line and the proxy's own headers have sizes (`MessageAssumption`; `proxy.c` refuses request
lines of 1024 bytes).

`RepliesMatch` is far from inductive, as what a client of the proxy gets is written by Tiny on
another connection, for a request line the proxy has written there, and which URL was understood may be known only
from what was sent. The invariant follows a request's way:

- `Connected`, `Queued`, `ForwardOnce` - a server holds open the connection it serves and no other; those
  in its queue are its own and each waits there once; the proxy dials once, since the program ends
  before it can accept again. `DescriptorsClosed` follows.
- `FirstLines`, `Message`, `TinyServing` - what is unread of a connection is what its client sent; the
  message begins with a request line that was understood and checked; so the line Tiny reads first is the
  client's, or what the proxy makes of its client's, and the line it serves is one of those it may have scanned.
- `TinyOutput`, `ProxyOutput` - what Tiny has written for a request, the lines the proxy has
  passed on and those it has not together (`Produced`), is nothing, the whole reply, or what the state
  of the CGI program says; relaying a line moves it from one connection to the other.

There is one lemma for each of these conjuncts. `Moves` and `FarChanges` sum up how a step changes the
connections and `UpChanges` and `DownChanges` what is sent on them, so that the lemmas split on a dozen
kinds of steps and not on every action. The run's clients and requests satisfy the invariant, which TLC
checked before it was proved.

`RequestForwarded` speaks of the finished message, and needs what holds after each line of it:

- `Collected` - when `k` lines of the request were read, the message has the request line and the kept
  ones of the headers up to `k`, each at its `Place`, `nleft` is what they leave (`Used`), and
  every Host in the message is one of these; `flag_host_hdr` says whether line `k` is one, and no more. So one Host
  is certain at the end only for clients that sent none, or sent it last (`HostIsLast`).
- `Reading` - the lines after `k` are what is unread of the connection, so the next one read is line
  `k + 1` of the request. A client that hung up leaves the loop at the end of file,
  where it reads its last line for ever and appends it until the buffer is full; then nothing is said of the message.
- `Collecting` - the loop is at some such `k`, and once it is left the message `IsForwarded`.

`Places` and `Room` are the lemmas about `Place` and `Used`: the next header has the next place, and
the room grows. That the recursive function `Used` is defined, and grows, is proved by taking a smallest
number for which it is not (`LeastNumber`), since the induction theorems of the library cannot be
used. `FinishedFits` says where the lines are that the proxy adds; with `HeaderRead` (a header is
kept or dropped) and `HeadersEnd` (nothing else in the message equals one of those lines) each step follows.

Model-checked only: `EveryoneAnswered`, which is a liveness property.

## 9. Not modelled

- Generated and translated text: the assembler, the HCL compiler and their flex and bison output
  (about 9000 lines of C); `Programs` only makes object code for TLC.
- The windows, logs and command lines of the simulators; `csapp.c`'s wrappers of system calls,
  which only report errors.
- The hand-out's drivers, checkers and timers, in C, Perl and Python.
- `bits.c` and `trans.c`: pure functions that the hand-out's checkers run through; one difference
  in `bits.c` is listed under hazards.
- `mm1.c` to `mm4.c`, superseded by `mm.c`; `tsh_original.c`, the skeleton, and
  `tsh_copyleft.c`, someone else's solution.
- Other HCL files, which are not what the solution runs, and Y86 programs, which are inputs.
- AttackLab and BombLab: notes and binaries.
