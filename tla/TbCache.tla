------------------------------ MODULE TbCache ------------------------------
(***************************************************************************)
(* The translation blocks of one CPU and everything that leads to them:    *)
(* the hash chains by physical address, the list of blocks of every        *)
(* physical page, the jump cache by virtual address, and the jumps that    *)
(* are patched from one block to the next (exec.c, cpu-exec.c).  cpu_exec  *)
(* looks a block up or translates it, the block's header decides whether   *)
(* it may run, and its exit leads through a patched jump or back to the    *)
(* loop.  Guest stores mark blocks as dirty, the host invalidates the      *)
(* ranges it writes, breakpoints and watchpoints invalidate blocks, a full *)
(* buffer throws all of them away, and the guest remaps its pages.         *)
(*                                                                         *)
(* An address counts units of guest code; an instruction is one or more    *)
(* units long and the last one of a block may end on the next page.  A     *)
(* block is known by its slot of tbs; slots are reused after a flush only. *)
(* Conditions of the guest and the other keys of a block (cs_base, flags)  *)
(* are left out: branches go either way.                                   *)
(***************************************************************************)
EXTENDS Integers, Sequences, FiniteSets, SequencesExt

CONSTANTS
    PageSize,      \* units of a page
    InsnLen,       \* the length of the instruction at each address that has one
    Target,        \* the target of each branch
    Indirect,      \* the instructions that go to any address, without chaining
    Vector,        \* where the guest's faults go
    Maps,          \* the page tables that the guest uses
    Buckets,       \* tb_phys_hash has that many chains
    MinBlocks,     \* code_gen_max_blocks at first
    MaxBlocks,     \* and at MAX_CODE_GEN_BUFFER_SIZE
    Quantum,       \* instructions of a call of tlib_execute, at most
    StoreAddrs,    \* virtual addresses that the guest stores to
    HostAddrs,     \* physical addresses that the host writes to
    BpAddrs        \* where the debugger sets breakpoints

NoPage == -1
NoTb == 0
NoExit == <<NoTb, 0>>
Pcs == DOMAIN InsnLen
PageOf(a) == a \div PageSize
Off(a) == a % PageSize
VPages == UNION {DOMAIN m : m \in Maps}
PPages == UNION {{m[v] : v \in DOMAIN m} : m \in Maps} \ {NoPage}

ASSUME TbCacheAssumption ==
    /\ PageSize \in Nat \ {0} /\ Buckets \in Nat \ {0} /\ Quantum \in Nat \ {0}
    /\ MinBlocks \in Nat \ {0} /\ MaxBlocks \in Nat /\ MinBlocks <= MaxBlocks
    /\ \A a \in Pcs : a \in Nat /\ InsnLen[a] \in 1 .. PageSize
    /\ DOMAIN Target \subseteq Pcs /\ Indirect \subseteq Pcs
    /\ \A a \in DOMAIN Target : Target[a] \in Pcs
    /\ Vector \in Pcs /\ BpAddrs \subseteq Pcs
    /\ VPages \subseteq Nat /\ PPages \subseteq Nat
    /\ \A m \in Maps : m \in [VPages -> PPages \cup {NoPage}]
    /\ \A m \in Maps : PageOf(Vector) \in VPages /\ m[PageOf(Vector)] # NoPage
    /\ \A a \in StoreAddrs \cup HostAddrs : a \in Nat

\* The programs considered: control stays among the instructions, and no
\* instruction starts inside another one.
WellFormedProgram ==
    /\ \A a \in Pcs \ Indirect : a + InsnLen[a] \in Pcs
    /\ \A a, b \in Pcs : a < b => a + InsnLen[a] <= b

ASSUME ProgramAssumption == WellFormedProgram

VARIABLES
    cache,    \* tbs, hash (tb_phys_hash), jc (tb_jmp_cache), pages (first_tb, whose
              \* list is a set here: new blocks go to its head, so it is by slots),
              \* invalidated (tb_invalidated_flag), max (code_gen_max_blocks)
    cacheOff, \* tb_cache_disabled
    chainOff, \* chaining_disabled
    bps,      \* the breakpoints
    vmap,     \* the guest's page table
    tlb,      \* the TLB entry of each page: none, or its stores go to memory
              \* at once (plain) or through the helper (notdirty)
    clean,    \* physical pages whose PhysPageDesc is not dirty
    loc,      \* host: outside tlib_execute; loop, header, body: inside cpu_exec
    pc,       \* the guest's next instruction, at loop and header
    cur,      \* current_tb
    next_tb,  \* the exit that the last block was left by: its slot and the jump
    left,     \* instructions left of the quantum
    tries     \* history: headers in a row that sent the CPU back to look again

mmu == <<vmap, tlb, clean>>
switches == <<cacheOff, chainOff, bps>>
vars == <<cache, switches, mmu, loc, pc, cur, next_tb, left, tries>>

----------------------------------------------------------------------------
(* Blocks *)

Phys(a) == vmap[PageOf(a)] * PageSize + Off(a)
Mapped(v) == v \in VPages /\ vmap[v] # NoPage
Chain(phys) == phys % Buckets

\* Where a block starts in physical memory, by its first page.
StartOf(tb) == tb.p0 * PageSize + Off(tb.pc)
TwoPages(tb) == tb.p1 # NoPage

\* The physical addresses of a block's code.
Covers(tb, a) ==
    \/ PageOf(a) = tb.p0 /\ Off(tb.pc) <= Off(a) /\ Off(a) < Off(tb.pc) + tb.size
    \/ TwoPages(tb) /\ PageOf(a) = tb.p1 /\ Off(a) < Off(tb.pc) + tb.size - PageSize

\* cpu_gen_code_inner: instructions from a on, up to a breakpoint, a branch, the
\* end of the page or the limit.
Shape(a, max) ==
    LET at[i \in 0 .. max] ==
            IF i = 0 THEN a
            ELSE at[i - 1] + (IF at[i - 1] \in Pcs THEN InsnLen[at[i - 1]] ELSE 1)
        Ends(i) == /\ i > 0
                   /\ \/ at[i - 1] \in DOMAIN Target \cup Indirect
                      \/ PageOf(at[i]) # PageOf(a)
        Stops(i) == Ends(i) \/ at[i] \in bps \/ i >= max
        n == CHOOSE i \in 0 .. max : Stops(i) /\ \A j \in 0 .. i - 1 : ~Stops(j)
    IN [size |-> at[n] - a, icount |-> n, last |-> IF n = 0 THEN a ELSE at[n - 1],
        cut |-> ~Ends(n) /\ n >= max,
        trap |-> ~Ends(n) /\ n < max]

\* The block that tb_gen_code makes of the code at a.  code is history: current
\* while the guest's code is still the one translated, behind if it was
\* overwritten while the CPU was in generated code, and stale once the CPU has
\* been in the loop since, as it is if the block was dropped before.
NewTb(a, max) ==
    LET s == Shape(a, max)
        two == PageOf(a + s.size - 1) # PageOf(a) /\ s.size > 0
    IN [pc |-> a, size |-> s.size, icount |-> s.icount, last |-> s.last, cut |-> s.cut,
        trap |-> s.trap, p0 |-> vmap[PageOf(a)],
        p1 |-> IF two THEN vmap[PageOf(a) + 1] ELSE NoPage,
        dirty |-> FALSE, code |-> "current",
        jmp |-> [n \in 0 .. 1 |-> NoTb],    \* where the patched jumps lead
        inc |-> {}]                         \* the list of jumps to this block

SpansUnmapped(a, max) ==
    /\ Shape(a, max).size > 0
    /\ PageOf(a + Shape(a, max).size - 1) # PageOf(a)
    /\ ~Mapped(PageOf(a) + 1)

InHash(c, t) == \E b \in DOMAIN c.hash : Contains(c.hash[b], t)

----------------------------------------------------------------------------
(* Operations on the cache *)

EmptyCache(max) ==
    [tbs |-> <<>>, hash |-> [b \in 0 .. Buckets - 1 |-> <<>>],
     pages |-> [p \in PPages |-> {}], jc |-> [a \in Pcs |-> NoTb],
     invalidated |-> FALSE, max |-> max]

tb_flush(c) == [EmptyCache(c.max) EXCEPT !.invalidated = c.invalidated]

JmpCacheRemove(c, t) ==
    [c EXCEPT !.jc = [a \in Pcs |-> IF @[a] = t THEN NoTb ELSE @[a]]]

\* Fault seeded: the block stays in the jump cache.
tb_phys_invalidate_keeping_jc(c, t) ==
    IF ~Contains(c.hash[Chain(StartOf(c.tbs[t]))], t) THEN c
    ELSE [c EXCEPT !.hash[Chain(StartOf(c.tbs[t]))] = RemoveFirst(@, t),
                   !.pages = [p \in PPages |-> @[p] \ {t}],
                   !.invalidated = TRUE,
                   !.tbs = [u \in DOMAIN @ |->
                       [@[u] EXCEPT !.inc = IF u = t THEN {} ELSE @,
                                    !.jmp = [n \in 0 .. 1 |-> IF @[n] = t THEN NoTb ELSE @[n]]]]]

\* A block that is in no hash chain is taken for one invalidated before.  The
\* block's own jumps leave the lists of their targets but stay patched; the
\* jumps in its list are reset.
tb_phys_invalidate(c, t) ==
    LET tb == c.tbs[t]
        own == {<<t, 0>>, <<t, 1>>}
        incoming == tb.inc \ own
        Unlinked(u) ==
            [c.tbs[u] EXCEPT
                !.inc = IF u = t THEN {} ELSE @ \ own,
                !.jmp = [n \in 0 .. 1 |-> IF <<u, n>> \in incoming THEN NoTb ELSE @[n]]]
    IN IF ~Contains(c.hash[Chain(StartOf(tb))], t) THEN c
       ELSE JmpCacheRemove(
                [c EXCEPT !.hash[Chain(StartOf(tb))] = RemoveFirst(@, t),
                          !.pages = [p \in PPages |->
                                        IF p \in {tb.p0, tb.p1} THEN @[p] \ {t} ELSE @[p]],
                          !.invalidated = TRUE,
                          !.tbs = [u \in DOMAIN @ |-> Unlinked(u)]],
                t)

\* Whether a block of page p, on which it starts or ends, meets the range.
MeetsRange(tb, p, from, to) ==
    LET Meets(start, end) == \/ from <= start /\ start < to
                             \/ from <= end /\ end < to
                             \/ start <= from /\ to <= end
    IN \/ p = tb.p0 /\ Meets(StartOf(tb), StartOf(tb) + tb.size)
       \/ TwoPages(tb) /\ p = tb.p1 /\ Meets(p * PageSize, p * PageSize + Off(tb.pc + tb.size))

\* The list is walked with the next block read in advance, from the newest block,
\* which is at the head, to the oldest.
tb_invalidate_phys_page_range(c, from, to) ==
    LET p == PageOf(from)
        n == Len(c.tbs)
        after[i \in 0 .. n] ==
            IF i = 0 THEN c
            ELSE LET t == n + 1 - i
                 IN IF t \in c.pages[p] /\ MeetsRange(c.tbs[t], p, from, to)
                    THEN tb_phys_invalidate(after[i - 1], t) ELSE after[i - 1]
    IN IF p \in PPages THEN after[n] ELSE c

\* Every block that contains the address, or ends there, selects a range.
breakpoint_invalidate(c, a) ==
    LET after[t \in 0 .. Len(c.tbs)] ==
            IF t = 0 THEN c
            ELSE IF a < c.tbs[t].pc \/ c.tbs[t].pc + c.tbs[t].size < a THEN after[t - 1]
            ELSE LET phys == c.tbs[t].p0 * PageSize + Off(a)
                 IN tb_invalidate_phys_page_range(after[t - 1], phys, phys + 1)
    IN after[Len(c.tbs)]

\* Fault seeded: the buffer is taken for full one block late.
tb_alloc_late(c) ==
    IF Len(c.tbs) <= c.max THEN {c}
    ELSE {[tb_flush(c) EXCEPT !.invalidated = TRUE]}

\* A full buffer is emptied, and larger afterwards unless it has the largest
\* size or there is no memory for more.
tb_alloc(c) ==
    IF Len(c.tbs) < c.max THEN {c}
    ELSE LET doubled == IF 2 * c.max > MaxBlocks THEN MaxBlocks ELSE 2 * c.max
         IN {[tb_flush(c) EXCEPT !.max = m, !.invalidated = TRUE] : m \in {c.max, doubled}}

\* tb_gen_code after tb_alloc: the block is in the lists of its pages, and in no
\* hash chain yet.
tb_link_page(c, tb) ==
    LET t == Len(c.tbs) + 1
    IN [c EXCEPT !.tbs = Append(@, tb),
                 !.pages = [p \in PPages |-> IF p \in {tb.p0, tb.p1} THEN @[p] \cup {t} ELSE @[p]]]

\* Longer blocks of the same code come first.
tb_phys_hash_insert(c, t) ==
    LET tb == c.tbs[t]
        b == Chain(StartOf(tb))
        Related(u) == /\ u.pc = tb.pc /\ u.p0 = tb.p0
                      /\ u.p1 = NoPage \/ u.p1 = tb.p1
        before == {i \in DOMAIN c.hash[b] :
                      Related(c.tbs[c.hash[b][i]]) /\ tb.icount >= c.tbs[c.hash[b][i]].icount}
        i == IF before = {} THEN Len(c.hash[b]) + 1
             ELSE CHOOSE i \in before : \A j \in before : i <= j
    IN [c EXCEPT !.hash[b] = InsertAt(@, i, t)]

\* Fault seeded: the jump is patched and not added to the list of its target.
tb_add_jump_unlisted(c, exit, t) ==
    IF exit[1] \notin DOMAIN c.tbs \/ c.tbs[exit[1]].jmp[exit[2]] # NoTb THEN c
    ELSE [c EXCEPT !.tbs = [@ EXCEPT ![exit[1]].jmp[exit[2]] = t]]

\* A jump that is in no list is patched and added to the list of its target.
tb_add_jump(c, exit, t) ==
    IF exit[1] \notin DOMAIN c.tbs \/ \E u \in DOMAIN c.tbs : exit \in c.tbs[u].inc THEN c
    ELSE [c EXCEPT !.tbs = [c.tbs EXCEPT ![exit[1]].jmp[exit[2]] = t, ![t].inc = c.tbs[t].inc \cup {exit}]]

----------------------------------------------------------------------------
(* The TLB, as far as stores to code depend on it *)

\* tlb_set_page for the pages vs that have no entry.
Filled(vs) ==
    [v \in VPages |-> IF v \in vs /\ tlb[v] = "none"
                      THEN IF vmap[v] \in clean THEN "notdirty" ELSE "plain"
                      ELSE tlb[v]]

\* The pages that tb_alloc_page protects: those that get their first block.
FirstBlockOn(c, tb) == {p \in {tb.p0, tb.p1} \ {NoPage} : c.pages[p] = {}}

\* Fault seeded: only entries that are filled later send stores to the helper.
ProtectedLater(entries, ps) == entries

\* tlb_protect_code: no entry lets stores to the pages ps through.
Protected(entries, ps) ==
    [v \in VPages |-> IF entries[v] = "plain" /\ vmap[v] \in ps THEN "notdirty" ELSE entries[v]]

\* get_page_addr_code and tb_link_page for a new block.
ProtectCode(c, tb) ==
    LET vs == {PageOf(tb.pc)} \cup (IF TwoPages(tb) THEN {PageOf(tb.pc) + 1} ELSE {})
    IN /\ tlb' = Protected(Filled(vs), FirstBlockOn(c, tb))
       /\ clean' = clean \cup FirstBlockOn(c, tb)

----------------------------------------------------------------------------
(* cpu_exec: finding a block *)

\* Back in the loop, what was overwritten or dropped meanwhile is not to run again.
Settled(c) ==
    [c EXCEPT !.tbs = [t \in DOMAIN @ |->
        [c.tbs[t] EXCEPT !.code = IF @ = "behind" \/ ~InHash(c, t) THEN "stale" ELSE @]]]

\* A page fault while a block is looked up or translated.
FetchFault(c) ==
    /\ cache' = c /\ pc' = Vector /\ next_tb' = NoExit
    /\ UNCHANGED <<switches, vmap, loc, cur, left, tries>>

\* The block is chained to the one before unless blocks were invalidated, and
\* entered.
Enter(c, t) ==
    LET chain == ~c.invalidated /\ ~chainOff /\ next_tb # NoExit /\ ~TwoPages(c.tbs[t])
    IN /\ cache' = [(IF chain THEN tb_add_jump(c, next_tb, t) ELSE c)
                        EXCEPT !.invalidated = FALSE]
       /\ loc' = "header" /\ cur' = t /\ next_tb' = NoExit
       /\ UNCHANGED <<switches, vmap, pc, left, tries>>

Looking == loc = "loop" /\ left > 0

InJmpCache ==
    LET t == cache.jc[pc]
    IN /\ t # NoTb
       /\ cache.tbs[t].pc = pc /\ ~cacheOff
       /\ ~(cache.tbs[t].cut /\ cache.tbs[t].icount < left)
       /\ cache.tbs[t].icount <= left

tb_find_fast ==
    /\ Looking /\ InJmpCache
    /\ Enter(cache, cache.jc[pc])
    /\ UNCHANGED <<tlb, clean>>

\* tb_find_slow's walk along the chain.
Walked == IF cacheOff THEN <<>> ELSE cache.hash[Chain(Phys(pc))]
Matches(i) == LET tb == cache.tbs[Walked[i]] IN tb.pc = pc /\ tb.p0 = vmap[PageOf(pc)]
Fits(i) == Matches(i) /\ cache.tbs[Walked[i]].icount <= left
Found(i) == /\ Fits(i)
            /\ LET tb == cache.tbs[Walked[i]]
               IN TwoPages(tb) => Mapped(PageOf(pc) + 1) /\ tb.p1 = vmap[PageOf(pc) + 1]
FirstFound == IF \E i \in DOMAIN Walked : Found(i)
              THEN CHOOSE i \in DOMAIN Walked : Found(i) /\ \A j \in 1 .. i - 1 : ~Found(j)
              ELSE 0
PrevRelated(k) == LET longer == {i \in 1 .. k : Matches(i) /\ ~Fits(i)}
                  IN IF longer = {} THEN 0 ELSE CHOOSE i \in longer : \A j \in longer : j <= i
SecondPageFault ==
    \E i \in DOMAIN Walked :
        /\ Fits(i) /\ TwoPages(cache.tbs[Walked[i]]) /\ ~Mapped(PageOf(pc) + 1)
        /\ FirstFound # 0 => i < FirstFound

\* Puts t into the chain: to its front, or after block prev of the same code.
Reordered(c, t, rest, prev) ==
    LET i == IF ~c.tbs[t].cut \/ prev = 0 THEN 1 ELSE prev + 1
    IN [c EXCEPT !.hash[Chain(StartOf(c.tbs[t]))] = InsertAt(rest, i, t),
                 !.jc[pc] = t]

LookupFaults ==
    /\ Looking /\ ~InJmpCache
    /\ ~Mapped(PageOf(pc)) \/ SecondPageFault
    /\ FetchFault([cache EXCEPT !.invalidated = FALSE])
    /\ UNCHANGED <<tlb, clean>>

tb_find_slow ==
    /\ Looking /\ ~InJmpCache /\ Mapped(PageOf(pc)) /\ ~SecondPageFault
    /\ FirstFound # 0
    /\ LET c == [cache EXCEPT !.invalidated = FALSE]
           t == Walked[FirstFound]
       IN /\ Enter(Reordered(c, t, RemoveAt(Walked, FirstFound), PrevRelated(FirstFound)), t)
          /\ tlb' = Filled({PageOf(pc)}
                           \cup IF TwoPages(c.tbs[t]) THEN {PageOf(pc) + 1} ELSE {})
          /\ clean' = clean

\* No block is found.  The new block goes to the place where the walk ended, and
\* that pointer is set to the new block's successor, of which there is none:
\* blocks after it are lost.  If blocks were invalidated meanwhile, or there was
\* no walk, the place is the head of the chain.
tb_find_slow_not_found ==
    /\ Looking /\ ~InJmpCache /\ Mapped(PageOf(pc)) /\ ~SecondPageFault
    /\ FirstFound = 0 /\ ~SpansUnmapped(pc, left)
    /\ \E c \in tb_alloc([cache EXCEPT !.invalidated = FALSE]) :
          LET tb == NewTb(pc, left)
              new == tb_link_page(c, tb)
              walked == IF new.invalidated THEN <<>> ELSE Walked
              prev == IF new.invalidated THEN 0 ELSE PrevRelated(Len(Walked))
          IN /\ Enter(Reordered(new, Len(new.tbs), walked, prev), Len(new.tbs))
             /\ ProtectCode(c, tb)

\* The last instruction of the block at a is not all there.  Its slot of tbs stays
\* used, with its page addresses zero, and nothing may lead to it.
WithFaulted(c, a, max) ==
    [c EXCEPT !.tbs = Append(@, [NewTb(a, max) EXCEPT !.p0 = 0, !.p1 = 0, !.code = "stale"])]

tb_gen_code_faults ==
    /\ Looking /\ ~InJmpCache /\ Mapped(PageOf(pc)) /\ ~SecondPageFault
    /\ FirstFound = 0 /\ SpansUnmapped(pc, left)
    /\ \E c \in tb_alloc([cache EXCEPT !.invalidated = FALSE]) : FetchFault(WithFaulted(c, pc, left))
    /\ tlb' = Filled({PageOf(pc)})
    /\ clean' = clean

----------------------------------------------------------------------------
(* Running a block *)

\* prepare_block_for_execution sends the CPU back to the loop: nothing is left of
\* the quantum, the block is too long for the rest, or it is dirty.
HeaderRestart ==
    /\ loc = "header"
    /\ LET tb == cache.tbs[cur]
       IN /\ left = 0 \/ tb.icount > left \/ tb.dirty
          /\ cache' = Settled(CASE left = 0 -> cache
                                [] left > 0 /\ tb.icount > left -> JmpCacheRemove(cache, cur)
                                [] OTHER -> tb_phys_invalidate(cache, cur))
          /\ pc' = tb.pc
    /\ tries' = IF left = 0 THEN 0 ELSE tries + 1
    /\ loc' = "loop" /\ cur' = NoTb /\ next_tb' = NoExit
    /\ UNCHANGED <<switches, mmu, left>>

HeaderRun ==
    /\ loc = "header"
    /\ left > 0 /\ cache.tbs[cur].icount <= left /\ ~cache.tbs[cur].dirty
    /\ loc' = "body" /\ left' = left - cache.tbs[cur].icount /\ tries' = 0
    /\ UNCHANGED <<cache, switches, mmu, pc, cur, next_tb>>

\* The ways out of a block: the number of the jump, and where it goes.
Exits(tb) ==
    IF tb.last \in DOMAIN Target THEN {<<0, Target[tb.last]>>, <<1, tb.pc + tb.size>>}
    ELSE {<<0, tb.pc + tb.size>>}

\* Jumps within a page can be patched; a patched one leads to the next header.
LeaveBlock ==
    /\ loc = "body" /\ ~cache.tbs[cur].trap /\ cache.tbs[cur].last \notin Indirect
    /\ \E e \in Exits(cache.tbs[cur]) :
          LET tb == cache.tbs[cur]
              patchable == PageOf(e[2]) = PageOf(tb.pc)
              to == IF patchable THEN tb.jmp[e[1]] ELSE NoTb
          IN /\ pc' = e[2]
             /\ cur' = to
             /\ loc' = IF to # NoTb THEN "header" ELSE "loop"
             /\ cache' = IF to # NoTb THEN cache ELSE Settled(cache)
             /\ next_tb' = IF to = NoTb /\ patchable THEN <<cur, e[1]>> ELSE NoExit
    /\ UNCHANGED <<switches, mmu, left, tries>>

\* An indirect jump goes anywhere and is not chained.
LeaveIndirect ==
    /\ loc = "body" /\ ~cache.tbs[cur].trap /\ cache.tbs[cur].last \in Indirect
    /\ pc' \in Pcs
    /\ loc' = "loop" /\ cur' = NoTb /\ next_tb' = NoExit /\ cache' = Settled(cache)
    /\ UNCHANGED <<switches, mmu, left, tries>>

\* The block ends at a breakpoint: EXCP_DEBUG leaves tlib_execute.
LeaveByBreakpoint ==
    /\ loc = "body" /\ cache.tbs[cur].trap
    /\ pc' = cache.tbs[cur].pc + cache.tbs[cur].size
    /\ loc' = "host" /\ cur' = NoTb /\ left' = 0 /\ cache' = Settled(cache)
    /\ UNCHANGED <<switches, mmu, next_tb, tries>>

\* interrupt_current_translation_block, as a watchpoint calls it at instruction
\* a: the block is dropped and the rest of it translated anew.
InterruptBlock ==
    /\ loc = "body"
    /\ \E a \in Pcs :
          LET tb == cache.tbs[cur]
              rest == left + Cardinality({x \in Pcs : a <= x /\ x < tb.pc + tb.size})
          IN /\ tb.pc <= a /\ a < tb.pc + tb.size
             /\ Mapped(PageOf(a)) /\ ~SpansUnmapped(a, rest)
             /\ pc' = a
             /\ \E c \in tb_alloc(tb_phys_invalidate(cache, cur)) :
                   LET new == NewTb(a, rest)
                       linked == tb_link_page(c, new)
                   IN /\ cache' = Settled(tb_phys_hash_insert(linked, Len(linked.tbs)))
                      /\ ProtectCode(c, new)
    /\ loc' = "host" /\ cur' = NoTb /\ left' = 0
    /\ UNCHANGED <<switches, vmap, next_tb, tries>>

\* The same, where the block cannot be made: the page fault that tb_gen_code raises
\* takes the CPU back to the loop, and the old block is gone.
InterruptFaults ==
    /\ loc = "body"
    /\ \E a \in Pcs :
          LET tb == cache.tbs[cur]
              rest == left + Cardinality({x \in Pcs : a <= x /\ x < tb.pc + tb.size})
              dropped == tb_phys_invalidate(cache, cur)
          IN /\ tb.pc <= a /\ a < tb.pc + tb.size
             /\ \/ /\ ~Mapped(PageOf(a))
                   /\ cache' = Settled(dropped) /\ tlb' = tlb
                \/ /\ Mapped(PageOf(a)) /\ SpansUnmapped(a, rest)
                   /\ \E c \in tb_alloc(dropped) : cache' = Settled(WithFaulted(c, a, rest))
                   /\ tlb' = Filled({PageOf(a)})
             /\ left' = rest
    /\ pc' = Vector /\ loc' = "loop" /\ cur' = NoTb /\ next_tb' = NoExit
    /\ UNCHANGED <<switches, vmap, clean, tries>>

----------------------------------------------------------------------------
(* Writes to code *)

\* The blocks with code at the physical address a are no longer what is there.
\* A block that has been dropped may still be jumped to until the next return.
Overwritten(c, a, how) ==
    [c EXCEPT !.tbs = [t \in DOMAIN @ |->
        [c.tbs[t] EXCEPT !.code = IF @ = "current" /\ Covers(c.tbs[t], a)
                                  THEN IF InHash(c, t) THEN how ELSE "behind"
                                  ELSE @]]]

\* helper_mark_tbs_as_dirty for one unit: blocks of the page are placed by their
\* first page only.
MarkDirty(c, a) ==
    LET Hit(tb) == (StartOf(tb) <= a /\ a < StartOf(tb) + tb.size) \/ StartOf(tb) = a
    IN [c EXCEPT !.tbs = [t \in DOMAIN @ |->
           IF t \in c.pages[PageOf(a)] /\ Hit(@[t]) THEN [@[t] EXCEPT !.dirty = TRUE]
           ELSE @[t]]]

\* A store of the running block.  With a plain TLB entry the generated code
\* writes to memory itself; otherwise the helper fills the entry, writes, and
\* marks blocks unless the cache is disabled.
GuestStore ==
    /\ loc = "body"
    /\ \E a \in StoreAddrs :
          LET v == PageOf(a)
              direct == tlb[v] = "plain"
              written == Overwritten(cache, Phys(a), "stale")
          IN /\ Mapped(v)
             /\ tlb' = Filled({v})
             /\ cache' = IF direct \/ cacheOff THEN written ELSE MarkDirty(written, Phys(a))
    /\ UNCHANGED <<switches, vmap, clean, loc, pc, cur, next_tb, left, tries>>

\* The host writes to memory and calls tlib_invalidate_translation_blocks, also
\* out of a callback of the running block.
HostWrite ==
    /\ loc \in {"host", "body"}
    /\ \E a \in HostAddrs :
          cache' = tb_invalidate_phys_page_range(
                       Overwritten(cache, a, IF loc = "body" THEN "behind" ELSE "stale"),
                       a, a + 1)
    /\ UNCHANGED <<switches, mmu, loc, pc, cur, next_tb, left, tries>>

\* Fault seeded: blocks that reach the page from the one before are forgotten.
tlb_flush_jmp_cache_one(c, v) ==
    [c EXCEPT !.jc = [a \in Pcs |-> IF PageOf(a) = v THEN NoTb ELSE @[a]]]

\* Blocks that start on the page, or on the one before and may reach it.
tlb_flush_jmp_cache(c, v) ==
    [c EXCEPT !.jc = [a \in Pcs |-> IF PageOf(a) \in {v - 1, v} THEN NoTb ELSE @[a]]]

\* A guest that remaps a page flushes its TLB entry, and leaves the block without
\* chaining.
tlb_flush_page ==
    /\ loc = "body" /\ cache.tbs[cur].last \in Indirect
    /\ \E m \in Maps, v \in VPages :
          /\ m # vmap /\ m = [vmap EXCEPT ![v] = m[v]]
          /\ vmap' = m
          /\ tlb' = [tlb EXCEPT ![v] = "none"]
          /\ cache' = tlb_flush_jmp_cache(cache, v)
    /\ UNCHANGED <<switches, clean, loc, pc, cur, next_tb, left, tries>>

----------------------------------------------------------------------------
(* The host, while the CPU does not execute *)

tlib_execute ==
    /\ loc = "host"
    /\ left' \in 1 .. Quantum
    /\ loc' = "loop" /\ next_tb' = NoExit /\ cache' = Settled(cache)
    /\ UNCHANGED <<switches, mmu, pc, cur, tries>>

Expire ==
    /\ loc = "loop" /\ left = 0
    /\ loc' = "host" /\ next_tb' = NoExit
    /\ UNCHANGED <<cache, switches, mmu, pc, cur, left, tries>>

cpu_breakpoint_insert ==
    /\ loc = "host"
    /\ \E a \in BpAddrs \ bps :
          bps' = bps \cup {a} /\ cache' = breakpoint_invalidate(cache, a)
    /\ UNCHANGED <<cacheOff, chainOff, mmu, loc, pc, cur, next_tb, left, tries>>

cpu_breakpoint_remove ==
    /\ loc = "host"
    /\ \E a \in bps :
          bps' = bps \ {a} /\ cache' = breakpoint_invalidate(cache, a)
    /\ UNCHANGED <<cacheOff, chainOff, mmu, loc, pc, cur, next_tb, left, tries>>

tlib_invalidate_translation_cache ==
    /\ loc = "host"
    /\ cache' = tb_flush(cache)
    /\ UNCHANGED <<switches, mmu, loc, pc, cur, next_tb, left, tries>>

tlib_set_tb_cache_enabled ==
    /\ loc = "host"
    /\ cacheOff' = ~cacheOff
    /\ UNCHANGED <<cache, chainOff, bps, mmu, loc, pc, cur, next_tb, left, tries>>

tlib_set_chaining_enabled ==
    /\ loc = "host"
    /\ chainOff' = ~chainOff
    /\ UNCHANGED <<cache, cacheOff, bps, mmu, loc, pc, cur, next_tb, left, tries>>

TbInit ==
    /\ cache = EmptyCache(MinBlocks)
    /\ cacheOff = FALSE /\ chainOff = FALSE /\ bps = {}
    /\ vmap \in Maps
    /\ tlb = [v \in VPages |-> "none"] /\ clean = {}
    /\ loc = "host" /\ pc = Vector /\ cur = NoTb /\ next_tb = NoExit
    /\ left = 0 /\ tries = 0

Lookup == \/ tb_find_fast \/ LookupFaults \/ tb_find_slow \/ tb_find_slow_not_found
          \/ tb_gen_code_faults
Running == \/ HeaderRestart \/ HeaderRun \/ LeaveBlock \/ LeaveIndirect \/ LeaveByBreakpoint
           \/ InterruptBlock \/ InterruptFaults \/ GuestStore \/ tlb_flush_page
Host == \/ tlib_execute \/ HostWrite \/ cpu_breakpoint_insert \/ cpu_breakpoint_remove
        \/ tlib_invalidate_translation_cache \/ tlib_set_chaining_enabled

TbNext == Lookup \/ Running \/ Host \/ Expire

TbSpec == TbInit /\ [][TbNext]_vars

\* The same with a host that disables and enables the cache.
TbToggleNext == TbNext \/ tlib_set_tb_cache_enabled

TbToggleSpec == TbInit /\ [][TbToggleNext]_vars

----------------------------------------------------------------------------
(* Properties *)

TbIndex == 0 .. MaxBlocks

\* The variables have their types, and the blocks fit into the buffer: tb_alloc never
\* gives out a slot behind code_gen_max_blocks.
TbTypeOK ==
    /\ cache.max \in MinBlocks .. MaxBlocks /\ Len(cache.tbs) <= cache.max
    /\ \A t \in DOMAIN cache.tbs :
          LET tb == cache.tbs[t]
          IN /\ tb.pc \in Pcs /\ tb.size \in Nat /\ tb.icount \in 0 .. Quantum
             /\ tb.p0 \in PPages \cup {0} /\ tb.p1 \in PPages \cup {0, NoPage}
             /\ tb.code \in {"current", "behind", "stale"} /\ tb.dirty \in BOOLEAN
             /\ tb.jmp \in [0 .. 1 -> TbIndex] /\ tb.inc \subseteq TbIndex \X (0 .. 1)
    /\ cache.jc \in [Pcs -> 0 .. Len(cache.tbs)]
    /\ cache.hash \in [0 .. Buckets - 1 -> Seq(DOMAIN cache.tbs)]
    /\ cache.pages \in [PPages -> SUBSET DOMAIN cache.tbs]
    /\ cache.invalidated \in BOOLEAN /\ cacheOff \in BOOLEAN /\ chainOff \in BOOLEAN
    /\ bps \subseteq BpAddrs /\ vmap \in Maps /\ clean \subseteq PPages
    /\ tlb \in [VPages -> {"none", "plain", "notdirty"}]
    /\ loc \in {"host", "loop", "header", "body"} /\ pc \in Nat /\ cur \in TbIndex
    /\ next_tb \in TbIndex \X (0 .. 1) /\ left \in 0 .. Quantum

\* A block is what tb_gen_code would make of its address now: its code is the
\* guest's, at the pages that its address is mapped to, and it stops at the
\* breakpoints that are set.  Code that the host overwrote while the CPU was in
\* generated code may run until the CPU returns to the loop.
IsCurrent(tb) ==
    /\ tb.code # "stale"
    /\ tb.p0 = vmap[PageOf(tb.pc)] /\ TwoPages(tb) => tb.p1 = vmap[PageOf(tb.pc) + 1]
    /\ \A a \in Pcs : tb.pc <= a /\ a < tb.pc + tb.size => a \notin bps
    /\ tb.trap => tb.pc + tb.size \in bps

\* A block that is let in by its header is the one for the guest's pc, and current:
\* neither lookup nor a patched jump leads to code that the guest or the host has
\* overwritten, to the code of another mapping, or past a breakpoint.
EnteredBlockIsCurrent ==
    [][loc = "header" /\ loc' = "body" => cache.tbs[cur].pc = pc /\ IsCurrent(cache.tbs[cur])]_vars

\* A block that tb_phys_invalidate takes for invalidated, because it is in no hash
\* chain, is indeed on no page's list and not in the jump cache; and a block that
\* is in a chain is on the lists of its pages and jumps to such blocks only.
NoWayToDroppedBlocks ==
    \A t \in DOMAIN cache.tbs :
        /\ InHash(cache, t) =>
              /\ \A p \in {cache.tbs[t].p0, cache.tbs[t].p1} \ {NoPage} :
                    t \in cache.pages[p]
              /\ \A n \in 0 .. 1 : cache.tbs[t].jmp[n] # NoTb =>
                    InHash(cache, cache.tbs[t].jmp[n])
        /\ ~InHash(cache, t) =>
              /\ \A p \in PPages : t \notin cache.pages[p]
              /\ \A a \in Pcs : cache.jc[a] # t

\* The header of a dirty or too long block sends the CPU back to look for another
\* one (prepare_block_for_execution).  That ends: not more blocks in a row are
\* refused than there are, as each refusal takes one away from where it was found.
BlocksGetToRun == tries <= MaxBlocks

\* No TLB entry lets stores to a page with blocks past the helper that marks them
\* as dirty: a page is protected when it gets its first block (tb_alloc_page), and
\* entries filled later find it not dirty.
StoresToCodeAreSeen ==
    \A v \in VPages : tlb[v] = "plain" => cache.pages[vmap[v]] = {}

=============================================================================
