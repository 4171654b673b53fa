# A TLA+ model of tlib

tlib translates the code of a guest CPU to host code and runs it.  A host
program (Renode, or the RL78 test harness) creates one instance per guest CPU,
runs each of them in a thread of its own through `tlib_execute`, and answers
its callbacks.  This directory models the parts in which several of these
threads meet, or in which a long sequence of legal calls has to keep a data
structure in order.  Paths are relative to the repository.

## 1. Inventory

| Component | State | Operations | Hard behaviour |
|---|---|---|---|
| Address reservations (`atomic.c`) | packed array of reservations, index by CPU, count; in memory shared by all CPUs | make, free (with a swap), reserve, check, cancel, access | the walk of an access frees what it walks over; the swap has to keep the index |
| Global memory lock (`atomic.c`) | owner, entry count, mutex and condition variable | acquire, release, clear, register | reentrancy, one signal per release, spurious wakeups, sections left by `longjmp` or by a managed exception |
| ARM exclusives (`arch/arm/translate.c`, `softmmu_template.h`) | `exclusive_val` per CPU, guest memory | LDREX, STREX, CLREX, stores on their fast and slow path | comparison and store are two accesses; ordinary stores take no lock when they write |
| Hash table-based store test (`hash-table-store-test.c`) | one entry (lock, last core) per hash of an address; `reserved_address`, `locked_address`, `locked_address_high` per CPU | lock, unlock, set, check, for one entry or two | spin locks taken by generated code that may fault inside; two entries at once; hash collisions |
| RISC-V and ARM64 atomics (`arch/riscv/translate.c`, `arch/arm64/translate*.c`) | guest registers | lr, sc, AMO, amocas, ldxr, stxr, ldxp, stxp, casp, clrex | each is a sequence of steps on the store test that other cores interleave with |
| CPU execution loop (`cpu-exec.c`, `exports.c`) | exception index, interrupt and exit requests, instruction counts | `cpu_exec`, `tlib_execute`, interrupt processing | jumps to the top of the loop from anywhere, requests set by other threads |
| Translation block cache (`cpu-exec.c`, `exec.c`, `helper.c`) | hash chains, page lists, jump lists, jump cache | find, generate, chain, invalidate, flush | generating a block may flush or invalidate others, the one being looked up included |
| Code generation buffer (`exec.c`) | pointer, size, maximal number of blocks | allocate, flush, expand | exhaustion in the middle of a lookup |
| Dirty address broadcast (`helper.c`, `exec.c`) | list of addresses per CPU | append, broadcast, invalidate | the limit of the list; other CPUs run stale blocks meanwhile |
| External MMU windows (`exec.c`, `exports.c`) | array of windows and its order | acquire, reset, set bounds, search | order of the array while bounds change |
| Software TLB (`exec.c`, `softmmu_template.h`) | TLB entries per mode | fill, flush, one-shot entries | entries outliving what they were filled from |
| RL78 guest (`arch/rl78`) | PSW, skip flags, pending interrupt | interrupt acceptance, skips, MDU commands | nesting of priorities, an acknowledgement that raises the next interrupt, skip state passed between chained blocks |
| RL78 test harness (`tests/harness`) | instruction count, finished flag, exit code | run loop, MMIO | a request to leave that arrives in the middle of a chunk |
| Exception unwinding (`include/unwind.h`, `exports.c`) | stack of jump buffers, `need_jump` | push, pop, unwind | wrappers nested through callbacks |
| Guest front ends, TCG, softfloat, logging, allocation | | | functions of their input, compilers, or wrappers of the host |

Interaction.  `cpu_exec` calls `unlock_dangling_locks` at the top of its loop,
which is what makes both kinds of lock survive faults.  Generated code calls
the helpers of `atomic.c` and contains the store-test code inline.  The slow
path of every guest store calls `register_address_access` under the global
memory lock.  The host registers a CPU (`tlib_atomic_memory_state_init`) before
it first executes it.  `cpu_exec` looks for a block and patches the exit of the
block before; the block's header calls back and may send the CPU to the loop
again.  The TLB decides whether a store goes through the helper that marks blocks
as dirty, and is itself filled through the guest's MMU and the external one, whose
fault handler is the host's.

What makes each component correct, as far as it is stated here:

* reservations: the index and the slots are inverse to each other; an access
  takes away exactly the reservations it must; the table never overflows;
* the lock: mutual exclusion, releases by the owner only, no lost wakeup, and
  no way to end a section that leaves it locked for ever;
* exclusives: comparison and store are one step as far as other exclusives are
  concerned;
* the store test: every store of another core to a reserved doubleword makes the
  store-exclusive fail, no core holds an entry between instructions, no cores
  wait for each other;
* the RL78 guest in the loop of `cpu_exec`: every block is run in the state it was
  translated for, exactly the instructions to be skipped are skipped, requests are
  kept until they are taken, and the counts the host reads are exact;
* translation blocks: a block that is entered is current; one that was dropped is
  reachable neither by lookup nor by a jump; the CPU always finds a block it may run;
* external MMU windows: the lookup finds what the windows cover, nothing is let through
  that they do not cover and allow, and a fill of the TLB returns whatever the host's
  handler answers.

## 2. Modules

| Module | What it models |
|---|---|
| `ReservationMonitor` | what the reservation table promises: one monitor per CPU, an atomic access |
| `AddressReservations` | the reservation table of `atomic.c`, refining `ReservationMonitor` |
| `AddressReservationsProofs` | theorems about it, for any number of CPUs and addresses |
| `GlobalMemoryLock` | the lock of `atomic.c` with its waiting threads, and how `cpu_exec` frees it |
| `GlobalMemoryLockProofs` | theorems about it, for any set of CPUs and any nesting |
| `ExclusiveAccess` | ARM's exclusive instructions and stores: table, lock and memory composed |
| `ExclusiveAccessProofs` | theorems about it, from those about the table and the lock |
| `StoreTable`, `MCStoreTable` | the hash table-based store test with RISC-V and ARM64 instructions |
| `StoreTableProofs` | theorems about it, for any table, any cores and any addresses |
| `Rl78Execution`, `MCRl78Execution` | one RL78 CPU in `tlib_execute` and `cpu_exec`: skips, interrupts, chained blocks and counts |
| `Rl78ExecutionProofs` | theorems about it, for any program without adjacent skips and any limit |
| `TbCache`, `MCTbCache` | the translation blocks of one CPU: hash chains, page lists, jump cache, patched jumps, the code buffer, breakpoints, and the TLB as far as stores to code depend on it |
| `TbCacheLemmas` | what each operation on the cache does, for any cache |
| `TbCacheProofs` | theorems about it, for any well-formed program, page tables and buffer |
| `ExternalMmu`, `MCExternalMmu` | the windows of the external MMU and `tlb_fill` through them |
| `ExternalMmuProofs` | theorems about it, for any number of windows |

Conventions.  Definitions keep the names of the C code in TLA+ spelling
(`free_reservation` is `FreeReservation`; in `TbCache` and `ExternalMmu` the C
spelling is kept); fields keep their names.  An operator
introduced by the words "Fault seeded" is a deliberately wrong variant of the
definition that follows it: `PROJECT.json` pairs each property with the variant
that it detects.  No specification uses them.

### AddressReservations

`table` is the part of `atomic_memory_state_t` about reservations; the
operations are functions from a table to a table, so that the proofs can speak
about each.  `walk[c]` holds the locals of a `register_address_access` under
way: each iteration of its loop is a step.  The comments in `atomic.c` require
the lock around every operation, so the module lets operations begin only when
none is under way (`Quiet`); that the lock gives exactly this is a property of
`ExclusiveAccess` (`TableIsProtected`).  `tlib_abort` and `tlib_assert` set
`aborted`.  An unused slot's address is 0 in the code; here it is any address,
as no operation reads it.

In `MonitorOf`, the refinement mapping, a reservation that a walk under way is
bound to take away is gone already: the abstract access takes effect when the
walk begins.

### GlobalMemoryLock

Acquire, release and clear hold the mutex throughout except in
`pthread_cond_wait`; each is one step, and the test after the wait is another.
`phase` says where each CPU's thread is, `depth` how many sections it is inside
of.  `LoopExit` (a fault) and `Unwind` (a managed exception) leave all sections
without a release.  `entries_count` keeps its unsigned width as
`EntriesModulus`.  `RegisterWhileRunning` separates the intended use, in which
CPUs are registered before any of them executes, from a host that adds CPUs to a
running system.  The run has the former.  With the latter TLC shows
`ReleasedByOwner` violated: whether there is more than one CPU is asked at the
acquisition and again at the release, and a CPU that registers in between makes
another one release a lock it never took, against the assertion at `atomic.c:27`.

### ExclusiveAccess

Every helper call, load and store is a step between which other CPUs run.  A
guest store either writes at once (TLB hit) or takes the slow path: acquire,
`register_address_access`, release, then write.  STREX performs its store inside
its own section, so the slow path nests there.  `Abandon` is a fault or a
managed exception at an access.  `MINUS_ONE` is the value CLREX and STREX leave
in `exclusive_val`; it is also a value a word may hold.  `ExclusiveAddresses` and
`PlainAddresses` say where the two kinds of instructions are used.  The run keeps
them apart.  If ordinary stores reach exclusive variables, TLC shows
`StrexReplacesLoaded` violated: another CPU's store between STREX's comparison and
its store is overwritten.  The comment above ARM's exclusives
(`arch/arm/translate.c:7830`) reasons with one CPU at a time.

### StoreTable

The generated code of an instruction is a sequence of steps (`LrCode`,
`CaspCode`, ...): `lock`, `set`, `check`, `ld`, `st`, `stx` (the store of a
store-exclusive), `cst` (a store that a comparison may skip), `reserve`, `clear`
and `unlock`, each on the addressed doubleword (0) or on the next one (1).  The
sequences are read off the generators, in the order in which they emit.
Addresses count doublewords, the granule of an entry, and `Hash` keeps their low
bits, as `gen_hash_address` does.  0 stands for "none" in `reserved_address` and
`locked_address`, as in the code.  A `lock` step is the compare-and-swap that
succeeds; failed attempts change nothing.  An access may fault; the second half
of a pair only at the addresses of `LateFaults`, where it is on another page or
belongs to a device whose handler may throw.  A history variable records
what the checks can detect: `stale[c]`, the words under c's reservation that others
have written and whose entry c has not set itself since.

### Rl78Execution

The RL78 translator ends a block after every instruction, so a block is an
address and the flag `TB_FLAG_SKIP`.  `loc` follows `tlib_execute` and `cpu_exec`:
`loop` (top of the inner loop, `process_interrupt`), `ack` (in the callback
`tlib_on_rl78_irq_ack`), `checks`, `enter` (a block is looked up and the last
exit patched), `block` (in front of a block's header) and `return`.  `jmp` holds
the patched exits; a jump through one skips the store of the pc, as the generated
code does, and `at` remembers where the guest really is.  A program gives each
address one of a few kinds of instructions, which stand for all that are
translated alike: `op` falls through, `skip` is SKC and its relatives, `ei` and
`di` write the PSW, `br` and `bc` jump, `reti` returns.  What a skip or a
conditional branch tests is a free choice.  The controller presents a candidate,
changes or withdraws it between any two steps; the host reads the count at any
time and resets the CPU between executions.  `MCRl78Execution` builds the
programs: a loop of three free instructions, two branches and a handler.

### TbCache

`cache` is a record of what the code keeps about blocks: `tbs`, the array of blocks
in the order of their slots; `hash`, `tb_phys_hash` with a chain as a sequence;
`pages`, the blocks of every physical page, whose list has them by slots, the
newest first, so that a set is enough; `jc`, the jump cache; `invalidated`,
`tb_invalidated_flag`; `max`, `code_gen_max_blocks`.  A block has its patched jumps
(`jmp`) and the list of the jumps that lead to it (`inc`), which the code threads
through `jmp_first` and `jmp_next`.  The functions of `exec.c` are operators from
a record to a record, the actions put them together.  `loc` follows the CPU:
`loop` (in `cpu_exec`, about to look for a block), `header` (in
`prepare_block_for_execution`), `body` (in a block) and `host`.

A block has a start, a size in units of code and a number of instructions; `Shape`
is the loop of `cpu_gen_code_inner`, which ends a block at a branch, at the end of
the page, at a breakpoint or at the number of instructions that are left
(`was_cut`).  Programs are assumed to be well formed (`ProgramAssumption`): control
stays among the instructions, and none starts inside another one.  The walks of
`tb_invalidate_phys_page_range` and `breakpoint_invalidate` are recursive functions
over the slots.  The last instruction may reach into the next page, so the block has
two pages, is found only if both are mapped as when it was made, and is not
chained.  Blocks of one address and different lengths share a chain; the lookup
moves the block it found to the front, or behind the longer ones.  A lookup in the
jump cache (`tb_find_fast`), one in the chain (`tb_find_slow`), a translation
(`tb_find_slow_not_found`) and the page faults of each are actions of their own.

Memory holds no values: `code` of a block records whether its code was overwritten
since.  A guest store goes through the helper, which marks blocks as dirty, unless
the TLB entry is plain; the host writes and invalidates a range, also in a callback
of the running block.  In that case the rest of the chain may run until the CPU is
back in the loop (`behind`), as the code has it: jumps of a dropped block stay
patched.  `tries` counts headers in a row that sent the CPU back.

A watchpoint or a controller that interrupts a running block has the rest of it
translated at once (`InterruptBlock`).  Translating it may fetch from a page that is
not mapped any more (`InterruptFaults`): the old block is dropped by then, and the
guest goes to its handler.

`MCTbCache` gives the program: five instructions on two pages, among them a branch
that spans the pages and two indirect jumps, where the guest may also remap pages.

### ExternalMmu

`windows` is the array in its order.  Addresses count pages; the end of a window is
the first page behind it, so that `range_end_inclusive` is needed for the end of
the address space only, which `Pages` stands for.  The binary search is a
recursive function over its two bounds, the walk down from its result is
`Visited`.  `qsort` leaves equal windows in any order, so `Sortings` is a set.
`fill` holds the locals of a `tlb_fill` under way and where it is: looking
(`lookup`), or in the host's handler for the first (`ask`) or second (`report`)
time.  The host sets windows while no fill is under way, and from within its
handler.

## 3. Runs

| Run | Bounds | States | What it shows |
|---|---|---|---|
| `AddressReservations` | 3 CPUs, 2 addresses | 52,550 | index, overflow, walk and refinement |
| `GlobalMemoryLock` | 3 CPUs, 1 nested acquisition | 2,102 | exclusion, nesting, wakeups, release after jumps, liveness |
| `ExclusiveAccess` | 2 CPUs, 1 exclusive and 1 plain address, 2 values | 721,296 | table under the lock, balance of sections, atomicity of STREX |
| `StoreTableRiscv` | 2 cores, 2 addresses that share an entry | 32,732 | lr, sc, AMO, stores with faults; entries are released |
| `StoreTableArm64` | 2 cores, overlapping pairs | 272,163 | ldxp, stxp, casp, stores with faults; no cycle of waiting cores |
| `Rl78Execution` | 9 programs of 7 instructions on 2 pages, 2 priorities, nesting of 2, 3 instructions per execution | 701,568 | blocks, pc, skips, priorities, requests, counts, and that admitted requests are taken |
| `TbCache` | 5 instructions on 2 pages, one chain, a buffer of 1 or 2 blocks, 3 instructions per execution, 3 page tables | 238,008 | what is entered is current, what is dropped is out of reach, stores to code are seen, a block is found |
| `ExternalMmu` | 3 pages, 2 windows at a time, 3 in all, loads and stores, the MMU off, alone or behind the guest's | 502,565 | lookups, what they let through, ids, and that fills return |

Why these bounds are enough.  Three CPUs are the least for which a walk of one
meets two others, so that a swap moves a reservation the walk has not seen; and
for which a released lock has a waiting thread besides the one that was
signalled.  One nested acquisition is what the code has: the store of STREX
inside its own section.  With two values a word can change and change back.  The
store table is used with addresses of the same hash and of different ones, and
with pairs that overlap in one doubleword and of which one wraps around the end
of the table.  A ring of waiting cores needs as many cores as the table has
entries, which no table of the code's size meets, so the run has more entries
than cores.  Two cores suffice because an entry only tells "me" from "not me".  `StoreTableArm64` is symmetric in the cores.  Three instructions per execution, in
loops of four, put the limit in front of, behind and between a skip and what it skips; two pages give
both chained and unchained exits; two priorities and two frames let a request
preempt a handler and be refused by one.  One hash chain makes all blocks meet in
it.  A buffer that fills up with the second or third block is flushed in every part
of the program and still holds a block and the one it jumps to, or two blocks of
different lengths at one address, which three instructions per execution give; with
a block of three instructions that is interrupted in the middle, the rest of it still
reaches the branch to the second page.
The three page tables take the second page of the spanning branch
away and bring it back, and put the first page where the second one was, so that a
store to its start reaches the second half of the branch.
Two windows are enough for the search to go either way and for the walk to visit one
and stop at the other; the third id comes after one was given back.

Four runs show disagreements between the code and what its comments or assertions
say; each is a finding in `PROJECT.json`:

* `NullPointerStore`: a store to guest address 0 that faults leaves its entry
  locked, because 0 is also the mark for "no lock".
* `AmocasQuad`: amocas.q writes two doublewords and covers the entry of one.
* `AdjacentSkips`: a skip in the shadow of another skip leaves its block by the same
  patched exit whether it was run or skipped, though the skip state behind it
  differs; the next block is then the wrong one.  The run `Rl78Execution` is
  therefore restricted to programs without adjacent skips.
* `DisabledCache`: with the cache disabled, `tb_find_slow` does not walk the chain but
  cuts it off where the new block is put, at its head.  The blocks behind are in no
  chain, yet on their page lists and in the jump cache, and `tb_phys_invalidate` takes
  them for invalidated.  The run `TbCache` leaves the cache enabled.

`WritesAreNoticed` is stated with respect to `stale`, which is what the table can
know.  It is weaker than what `hash-table-store-test.h` says of the check: after a
foreign store, the core's own store to an address of the same hash makes the check
succeed again.

`InterruptIsTaken` depends on the instruction limit: a chain of blocks returns to
`cpu_exec` at the limit only, and no interrupt is accepted behind a skip.  With a
limit that is a multiple of the loop's length (`Quantum = 4` in `Rl78Execution`)
every return may fall behind the skip and the request waits for ever; the run uses
3.  Nothing in the repository promises a bound, so this is listed as a hazard.

`LookupFindsWindow` is about windows of which none ends later than one that starts
later or at the same place (`NoneEndsLater`), which is what the comments at both
searches assume, and which are not marked as unsorted: `get_external_mmu_phys_addr` sorts
first.  `GrantsAreCovered` needs neither: where windows overlap in other ways a lookup may
miss one, but it never lets an access through that no window covers and allows.

`tlib_reset_mmu_windows_covering_address` searches the same way but does not sort
first (`src/exports.c:1056`).  Its comment assumes only that a window starting earlier
cannot end later.  That is not enough: `ResetTakesCovering`, which says that the windows
that cover the address go and no others, does not hold.  Given as an invariant to the
`ExternalMmu` instance, TLC violates it with two windows acquired one after the other of
which the first is then moved behind the second: the search misses what it is to
remove.  It holds from a lookup to the next window that is acquired or moved (section
4), but nothing makes a host reset windows only then.  No run checks it.

`EnteredBlockIsCurrent` needs adjacent pages that are adjacent in physical memory
too.  `helper_mark_tbs_as_dirty` places a block by its first page only; with
`Maps <- Scattered` TLC shows that a store to the part of a block on its second
page leaves it valid.

### Fairness

`FairLockSpec` assumes weak fairness of what a thread does next without waiting
for anybody: a section is straight-line generated code that reaches its release;
a signalled thread gets to test the lock; `cpu_exec` reaches
`unlock_dangling_locks`; and the host executes again a CPU that an exception has
unwound.  The last includes that such a CPU has work to do sooner or later: a halted CPU
without work leaves `cpu_exec` before `unlock_dangling_locks` (`src/cpu-exec.c:341`),
and keeps its lock until it is woken; such calls change nothing and are left
out of the models.  Nothing forces a CPU to begin a section, nor a fault to happen.
`FairStoreTableSpec` assumes the same of the store test.  Weak fairness does not
give a spinning core the entry if others keep taking it; the code does not
either.  The liveness properties therefore speak of owners (a lock that is held
is given up), not of waiting threads, and `EntryIsReleased` is checked in
`StoreTableRiscv` only, whose instructions hold one entry: one that waits for its
second entry while it holds the first may be overtaken for ever.

`EmmuSpec` assumes that the CPU goes on with a fill it has begun and that the host's
handler returns.  It does not assume that the handler mends anything.
`BlocksGetToRun` says as a bound on `tries` what would otherwise need fairness.

`FairRl78Spec` assumes that the CPU inside `tlib_execute` goes on and that the host
reads the count and executes again, which is how hosts drive a CPU.  Neither the
controller nor resets are fair.

## 4. Proofs

`AddressReservationsProofs`: `TypeCorrect`, `IndexAlwaysConsistent`, `NoAbort`,
`NothingMissed`, `AccessClears`, `AccessSpares`, `TableImplementsMonitor`.  Assumptions: at least
one CPU, and `None` is no value of the other kind.  The inductive invariant
`ResInv` joins the types, `Consistent` of the table, the absence of aborts,
`OneWalk` and `WalkMissesNothing`.  Consistency is what makes the others
inductive: the table cannot overflow because the owners of its slots are
distinct CPUs (a pigeonhole argument on the injection from slots to CPUs, by
cardinality), the swap finds both slots active because exactly the slots below
the count are, and the walk misses nothing because the reservation that moves
comes from above the walk's position.  Each operation has a lemma that it keeps
a consistent table consistent and says what it does to each CPU's reservation;
the refinement is one step per action on top of these.

`GlobalMemoryLockProofs`: `LockTypeCorrect`, `LockExcludes`, `OwnersRelease`,
`WakeupsAreNotLost`, assuming that no CPU registers while another executes.  The
inductive invariant `LockInv` adds to the properties that the owner's entry
count is its depth wherever it is inside a section, that a CPU waits only
outside of sections and while several are registered, and that fewer than two
registered CPUs leave the lock unused.

`WalkMissesNothing`, `AccessSparesTheRest` and `EntriesMatchDepth` appear in these
proofs and in no run: the proofs hold for the runs' instances too, and the runs'
properties depend on them.  So does `EntriesNeverWrap`, the second half of
`LockTypeCorrect`: `entries_count` is computed modulo its width, so its type cannot
tell, but acquisitions never lower it and releases never raise it.  With
`RegisterWhileRunning` TLC shows a release that decrements it from 0.

`ExclusiveAccessProofs`: `ExclusiveTypeCorrect`, `LockProtectsTable`, `SectionsBalance`,
`ReservationsAreHeld`, `StrexIsAtomic`, `GuestSeesMonitors`, assuming again that no
CPU registers while another executes.  Every step of the composition is a step of
the lock or leaves it alone, and likewise a step of the table, so `LockInv` and
`ResInv` carry over from the components.  `ExclusiveInv` adds how the phase, the
depth and the position of each CPU belong together (`ControlInv`: exactly what a
fault, an unwinding or a wait may leave behind), that a walk is under way only for
the CPU whose position says so, and that a STREX past its check holds its
reservation.  Mutual exclusion together with `ControlInv` makes the operations on
the table `Quiet`, which is what `AddressReservations` assumes of its callers, so
that the composition implements it (`TableIsProtected`) and through it
`ReservationMonitor`.  `StrexIsAtomic` needs that ordinary stores stay away
from exclusive variables, as the run does.

`StoreTableProofs`: `StoreTableTypeCorrect`, `NoneIsReentrant`,
`LocksAreReleased`, `EntriesAreHeld`, `ForeignWritesAreNoticed`, `WaitsAreAcyclic`.
The types need no hypothesis.  The locks need a table of more than one entry, as in
the code (with one entry a pair would lock it twice), and that address 0 is not
used (the finding `NullPointerStore`); entries being held and writes being noticed
need programs without amocas.q (the finding `AmocasQuad`); writes also that no pair is
abandoned between its halves (`LateFaults` is empty: both halves on one page, and
no device behind them), as the first half is then written without a notice.  The argument: constant tables say which entries each position of
each instruction holds, has set, still has to set and has checked, and lemmas tie
them to the code sequences; `LocksInv` says that `entry_lock` names exactly the
cores that these tables and `locked_address` say hold an entry; `NoticeInv`
that a word in `stale[c]` is in an entry which does not name c, or which another
core holds with its `set` ahead.  For `WaitsAreAcyclic` the entry a core waits for
is, modulo the size of the table, the next after the one it holds; a group of cores
waiting for each other would hold with every entry the one after it, hence all
of them, and there are fewer cores than entries.

`Rl78ExecutionProofs`: `Rl78TypeCorrect`, `ChainedBlocksMatch`, `PcIsUpToDate`,
`SkipsAreHonoured`, `CountsAreExact`, `RequestsAreKept`, `PrioritiesAreRespected`.
All but `RequestsAreKept` assume `WellFormedPrograms`: control stays inside the program,
and no skip follows a skip, without which they fail (the finding `AdjacentSkips`).
`IInv` adds to the properties that the pending skip is known at every place in the
loop, that a patched exit of a block leads to the address and the skip state
that leaving it there produces (which only a chain of facts about all exits of all
blocks can carry through a jump that stores no pc), and how the counters of
`tlib_execute`, of the CPU and of the host's reads add up at each place.

`ExternalMmuProofs`: `EmmuTypeCorrect`, `LookupsFindWindows`, `GrantsCovered`,
`SortedResetsTakeCovering`, from the assumptions on the constants only; the last is about
windows that are not marked as unsorted, a condition that the code of the reset does not
establish (section 3).  The invariant `EmmuInv` is that ids are
distinct and below `next_id`, and that windows which are not marked as unsorted are
sorted: removing windows keeps the order, setting ends does not matter to the order
by starts.  The rest is about `find_last_mmu_window_possibly_covering` on a sorted
array of any length.  The provers do not know that a recursive definition has a
solution; `SearchExists` shows it by functions that satisfy the recursion on
ranges of at most m windows, for a least m that has none, and `SearchFinds`
takes a shortest range for which the result would be wrong.

`TbCacheLemmas` and `TbCacheProofs`: `TbTypes`, `DroppedBlocks`, `StoresSeen`,
`RefusalsEnd`, `EnteredIsCurrent`, for the cache enabled (`TbSpec`; with the cache
disabled the finding `DisabledCache` refutes `DroppedBlocks`) and well-formed
programs.  Three invariants, each on top of the one before:

* `TbInv`.  `CacheOK` says that the cache is sound: a block is in the chain of its
  address only and once, it is on the lists of its pages exactly if it is in a chain,
  the jump cache holds blocks of chains, a jump of a block in a chain leads to a
  block in a chain and is in that block's list, and blocks are `WellShaped`.
  Without the last clause about jumps, `tb_phys_invalidate` would leave a patched
  jump to a block it drops.  Each operation has a lemma that it keeps `CacheOK` and
  what it drops, adds or annotates (`Dropped`, `BlockAdded`, `Annotated`); the range
  and breakpoint walks and the loop of the translator are recursive functions whose
  solution is shown first (`Iterates`, `AtExists`).  The invariant adds where control
  is and that pages with blocks are clean and have no plain TLB entry.
* `TriesInv`.  While headers refuse in a row, the refusals so far and the dirty blocks
  that can still be found and fit into the rest of the quantum (`Refusable`) are at
  most as many as the buffer ever holds: a refused dirty block leaves its chain, and what
  the lookup finds fits.
* `CurrentInv`.  In the chains, code is current or dirty; the jump cache is right
  about pc and mapping; a patched jump leads to where the exit goes, on the same
  page; and while generated code runs, a block that may run jumps only to blocks
  that may run or whose header refuses them (`FreshCode`).  Jumps of a block dropped
  meanwhile stay patched, so this is weaker than being in a chain, and it turns
  into being in a chain when the CPU is back in the loop.

`EnteredIsCurrent` assumes, as the run does, that neighbouring pages are neighbours in
physical memory: `helper_mark_tbs_as_dirty` needs it, and without it TLC shows the
property violated (section 3).

Only model-checked: liveness (`LockIsFreed`, `EntryIsReleased`, `InterruptIsTaken`,
`FillEnds`: the provers have no fairness).  The runs that end in a violation need no
proof.

## 5. Not modelled

The parts with status `not_modelled` in `PROJECT.json`, each with its reason.
Within the modelled parts: the doubleword forms of LDREX and STREX; the check of
a deserialized store table; generated code without locks for a single CPU (the
generators decide when they translate); data of loads and stores in
`StoreTable`, where only who wrote matters.  In
`Rl78Execution`: invalidation of blocks other than by a reset, blocks that span two
pages, BRK and RETB, calls, the reset of `exception_index` when a request is withdrawn
(nothing reads it before it is -1 anyway, as controller calls fall between steps), guest
programs that write the priority bits of the PSW, and calls of the controller that overlap a step of the CPU.  In `TbCache`: other
CPUs and the dirty addresses they exchange; `cs_base` and `flags`, as conditions for
finding a block; collisions in the jump cache; the size of generated code, of which
only the number of blocks is left; stores that cross a page; TLB modes, large,
one-shot and I/O pages; restoring the guest's state out of a block; stores and
callbacks in the middle of a translation, so that only `tb_alloc` sets
`invalidated` there; the return of a page to plain stores when its last block goes
in a write of the CPU (`src/exec.c:918`) or when its memory is registered anew
(`src/exec.c:1876`), so that `clean` only grows.  In
`ExternalMmu`: what windows add to addresses, the TLB entries that a fill leaves, and
`mmu_fault`, which makes the CPU leave its loop.

Most lines of the repository are guest front ends, helpers for vector and floating
point instructions, and the TCG compiler.  They have no state that outlives an
instruction, no steps that anything interleaves with, and are functions from opcodes
to code: a model would repeat the code.

## 6. Plan

In this order:

1. `CpuExec`: exceptions of the guest, sleeping and hooks, on top of what
   `Rl78Execution` and `TbCache` have of the loop.
2. `DirtyAddresses`: writes of one CPU invalidate the blocks of the others, as a
   composition of several `TbCache`.
3. The run loop of the harness on top of `Rl78Execution`.
4. The tracking of memory-mapped pages with the rest of the software TLB.
