--------------------------- MODULE TbCacheProofs ---------------------------
(***************************************************************************)
(* The theorems about TbCache, for any well-formed program, any page       *)
(* tables, buffers of any size and quanta of any length, with the cache    *)
(* enabled.  TbInv says that the cache is sound (CacheOK), where control   *)
(* is, and which pages the TLB protects; it is shown action by action, and *)
(* the safety properties follow from it.  TriesInv, on top of it, counts   *)
(* the blocks that a header may still refuse, and CurrentInv says which    *)
(* code is reached through the chains, the jump cache and patched jumps.   *)
(***************************************************************************)
EXTENDS TbCacheLemmas

-----------------------------------------------------------------------------
(* The invariant *)

\* A store to a page with blocks goes through the helper: entries are the TLB's,
\* and the pages cl are not dirty.
TlbOK(c, map, entries, cl) ==
    /\ entries \in [VPages -> {"none", "plain", "notdirty"}] /\ cl \subseteq PPages
    /\ \A p \in PPages : c.pages[p] # {} => p \in cl
    /\ \A v \in VPages : entries[v] # "none" => map[v] # NoPage
    /\ \A v \in VPages : entries[v] = "plain" => map[v] \notin cl

TlbInv == TlbOK(cache, vmap, tlb, clean)

\* Control is in a block inside generated code only, and the instructions of the
\* block that runs are taken from the quantum.
ControlInv ==
    /\ cacheOff = FALSE /\ chainOff \in BOOLEAN /\ bps \subseteq BpAddrs /\ vmap \in Maps
    /\ loc \in {"host", "loop", "header", "body"} /\ pc \in Pcs
    /\ loc \in {"header", "body"} => cur \in 1 .. Len(cache.tbs)
    /\ loc \in {"host", "loop"} => cur = NoTb
    /\ next_tb[1] \in 0 .. Len(cache.tbs) /\ next_tb[2] \in 0 .. 1 /\ next_tb = <<next_tb[1], next_tb[2]>>
    /\ loc # "loop" => next_tb = NoExit
    /\ left \in 0 .. Quantum
    /\ loc = "body" => left + cache.tbs[cur].icount <= Quantum

TbInv == CacheOK(cache) /\ ControlInv /\ TlbInv

-----------------------------------------------------------------------------
(* Finding a block *)

LEMMA GreatestElement ==
    ASSUME NEW n \in Nat, NEW S, \A i \in S : i \in 1 .. n, S # {}
    PROVE  \E k \in S : \A j \in S : j <= k
<1> DEFINE T == {n - i : i \in S}
<1>1. (\A i \in T : i \in Nat) /\ T # {}
  OBVIOUS
<1> HIDE DEF T
<1>2. PICK m \in T : \A j \in T : m <= j
  BY <1>1, LeastElement
<1>3. PICK k \in S : m = n - k
  BY <1>2 DEF T
<1>4. ASSUME NEW j \in S
      PROVE  j <= k
  <2>1. n - j \in T
    BY DEF T
  <2> QED
    BY <1>2, <1>3, <2>1
<1> QED
  BY <1>4

\* The walk along the chain of the address.
LEMMA WalkedChain ==
    ASSUME TbInv, Mapped(PageOf(pc))
    PROVE  /\ Chain(Phys(pc)) \in 0 .. Buckets - 1 /\ Walked = cache.hash[Chain(Phys(pc))]
           /\ Walked \in Seq(Nat) /\ DOMAIN Walked = 1 .. Len(Walked)
           /\ \A i \in 1 .. Len(Walked) : InHash(cache, Walked[i]) /\ Walked[i] \in 1 .. Len(cache.tbs)
<1>1. cache \in Caches /\ vmap \in Maps /\ pc \in Pcs /\ pc \in Nat /\ cacheOff = FALSE
  BY TbCacheAssumption DEF TbInv, CacheOK, ControlInv
<1>2. Phys(pc) \in Nat
  <2>1. PICK p, o : p = vmap[PageOf(pc)] /\ o = Off(pc)
    OBVIOUS
  <2>2. p \in Nat /\ o \in Nat /\ o < PageSize
    BY <1>1, <2>1, MappedPage, PageAndOffset
  <2>3. p * PageSize + o \in Nat
    BY <2>2, OnPage
  <2> QED
    BY <2>1, <2>3 DEF Phys
<1>3. Chain(Phys(pc)) \in 0 .. Buckets - 1
  <2>1. PICK x : x = Phys(pc)
    OBVIOUS
  <2>2. x % Buckets \in 0 .. Buckets - 1
    BY <1>2, <2>1, TbCacheAssumption
  <2> QED
    BY <2>1, <2>2 DEF Chain
<1>4. Walked = cache.hash[Chain(Phys(pc))]
  BY <1>1 DEF Walked
<1>5. PICK b, s : b = Chain(Phys(pc)) /\ s = cache.hash[b]
  OBVIOUS
<1>6. cache.hash \in [0 .. Buckets - 1 -> Seq(Nat)] /\ DOMAIN cache.hash = 0 .. Buckets - 1
  BY <1>1, CacheFields
<1>7. s \in Seq(Nat) /\ b \in 0 .. Buckets - 1 /\ b \in DOMAIN cache.hash
  BY <1>3, <1>5, <1>6
<1>8. ASSUME NEW i \in 1 .. Len(s)
      PROVE  InHash(cache, s[i]) /\ s[i] \in 1 .. Len(cache.tbs)
  <2>1. Contains(s, s[i])
    BY <1>7 DEF Contains
  <2>2. s[i] \in 1 .. Len(cache.tbs)
    BY <1>5, <1>7, <2>1 DEF TbInv, CacheOK, Chains
  <2>3. InHash(cache, s[i])
    BY <1>5, <1>7, <2>1 DEF InHash
  <2> QED
    BY <2>2, <2>3
<1>9. Walked = s /\ DOMAIN s = 1 .. Len(s)
  BY <1>4, <1>5, <1>7
<1> QED
  BY <1>3, <1>4, <1>7, <1>8, <1>9

LEMMA FirstFoundIs ==
    ASSUME TbInv, Mapped(PageOf(pc)), FirstFound # 0
    PROVE  /\ FirstFound \in 1 .. Len(Walked) /\ Found(FirstFound)
           /\ PrevRelated(FirstFound) \in 0 .. FirstFound - 1
<1>1. Walked \in Seq(Nat) /\ DOMAIN Walked = 1 .. Len(Walked) /\ Len(Walked) \in Nat
  BY WalkedChain
<1> DEFINE S == {i \in DOMAIN Walked : Found(i)}
<1>2. S # {} /\ \A i \in S : i \in Nat
  BY <1>1 DEF FirstFound
<1>3. \E i \in S : \A j \in S : i <= j
  <2> HIDE DEF S
  <2> QED
    BY <1>2, LeastElement
<1>4. \E i \in DOMAIN Walked : Found(i) /\ \A j \in 1 .. i - 1 : ~Found(j)
  <2>1. PICK i \in S : \A j \in S : i <= j
    BY <1>3
  <2>2. i \in 1 .. Len(Walked) /\ Found(i)
    BY <1>1, <2>1
  <2>3. ASSUME NEW j \in 1 .. i - 1, Found(j)
        PROVE  FALSE
    <3>1. j \in S /\ i \in Nat
      BY <1>1, <2>2, <2>3
    <3> QED
      BY <2>1, <3>1
  <2> QED
    BY <1>1, <2>2, <2>3
<1>5. FirstFound = CHOOSE i \in DOMAIN Walked : Found(i) /\ \A j \in 1 .. i - 1 : ~Found(j)
  BY <1>4 DEF FirstFound
<1>6. FirstFound \in DOMAIN Walked /\ Found(FirstFound)
  BY <1>4, <1>5
<1>7. PICK k : k = FirstFound
  OBVIOUS
<1>8. k \in 1 .. Len(Walked) /\ Fits(k)
  BY <1>1, <1>6, <1>7 DEF Found
<1>9. PrevRelated(k) \in 0 .. k - 1
  <2> DEFINE L == {i \in 1 .. k : Matches(i) /\ ~Fits(i)}
  <2>1. \A i \in L : i \in 1 .. k - 1
    BY <1>1, <1>8
  <2>2. PrevRelated(k) = IF L = {} THEN 0 ELSE CHOOSE i \in L : \A j \in L : j <= i
    BY DEF PrevRelated
  <2> HIDE DEF L
  <2>3. k - 1 \in Nat
    BY <1>1, <1>8
  <2>4. L # {} => \E i \in L : \A j \in L : j <= i
    BY <2>1, <2>3, GreatestElement
  <2>5. L # {} => PrevRelated(k) \in L
    BY <2>2, <2>4
  <2> QED
    BY <2>1, <2>2, <2>3, <2>5
<1> QED
  BY <1>6, <1>7, <1>8, <1>9

LEMMA PrevRelatedIs ==
    ASSUME NEW k \in Nat
    PROVE  PrevRelated(k) \in 0 .. k
<1> DEFINE L == {i \in 1 .. k : Matches(i) /\ ~Fits(i)}
<1>1. \A i \in L : i \in 1 .. k
  OBVIOUS
<1>2. PrevRelated(k) = IF L = {} THEN 0 ELSE CHOOSE i \in L : \A j \in L : j <= i
  BY DEF PrevRelated
<1> HIDE DEF L
<1>3. L # {} => \E i \in L : \A j \in L : j <= i
  BY <1>1, GreatestElement
<1>4. L # {} => PrevRelated(k) \in L
  BY <1>2, <1>3
<1> QED
  BY <1>1, <1>2, <1>4

-----------------------------------------------------------------------------
(* Entering a block *)

ChainsTo(c, t) == ~c.invalidated /\ ~chainOff /\ next_tb # NoExit /\ ~TwoPages(c.tbs[t])

LEMMA EnterStep ==
    ASSUME ControlInv, NEW c, CacheOK(c), NEW t, InHash(c, t), Enter(c, t),
           ~c.invalidated => next_tb[1] \in 0 .. Len(c.tbs)
    PROVE  CacheOK(cache') /\ EnteredFrom(c, cache', ChainsTo(c, t), next_tb, t) /\ SameInHash(c, cache')
<1>1. PICK w, i : w = next_tb[1] /\ i = next_tb[2]
  OBVIOUS
<1>2. next_tb = <<w, i>> /\ i \in 0 .. 1
  BY <1>1 DEF ControlInv
<1>3. PICK chain \in BOOLEAN : chain = ChainsTo(c, t)
  BY DEF ChainsTo
<1>4. chain => w \in 0 .. Len(c.tbs)
  BY <1>1, <1>3 DEF ChainsTo
<1>5. PICK e : e = IF chain THEN tb_add_jump(c, next_tb, t) ELSE c
  OBVIOUS
<1>6. cache' = [e EXCEPT !.invalidated = FALSE]
  BY <1>3, <1>5, Zenon DEF Enter, ChainsTo
<1>7. e = IF chain THEN tb_add_jump(c, <<w, i>>, t) ELSE c
  BY <1>2, <1>5
<1>8. CacheOK(cache') /\ EnteredFrom(c, cache', chain, <<w, i>>, t) /\ SameInHash(c, cache')
  BY <1>2, <1>4, <1>6, <1>7, Entered
<1> QED
  BY <1>2, <1>3, <1>8

LEMMA EnterControl ==
    ASSUME ControlInv, NEW c, Len(c.tbs) \in Nat, NEW t \in 1 .. Len(c.tbs), Enter(c, t),
           Len(cache'.tbs) = Len(c.tbs)
    PROVE  ControlInv'
BY DEF ControlInv, Enter, switches, NoExit, NoTb

\* Block t of cache c is entered, and this is what becomes of the cache.
Entering(c, t) ==
    /\ CacheOK(c) /\ InHash(c, t) /\ t \in 1 .. Len(c.tbs) /\ Len(c.tbs) \in Nat /\ Enter(c, t)
    /\ CacheOK(cache') /\ EnteredFrom(c, cache', ChainsTo(c, t), next_tb, t) /\ SameInHash(c, cache')

LEMMA EnteringIs ==
    ASSUME ControlInv, NEW c, CacheOK(c), NEW t, InHash(c, t), Enter(c, t),
           ~c.invalidated => next_tb[1] \in 0 .. Len(c.tbs)
    PROVE  Entering(c, t) /\ ControlInv'
<1>1. c \in Caches /\ Chains(c)
  BY DEF CacheOK
<1>2. t \in 1 .. Len(c.tbs) /\ Len(c.tbs) \in Nat
  BY <1>1, HashOf, CacheFields
<1>3. CacheOK(cache') /\ EnteredFrom(c, cache', ChainsTo(c, t), next_tb, t) /\ SameInHash(c, cache')
  BY EnterStep
<1>4. Len(cache'.tbs) = Len(c.tbs)
  BY <1>3 DEF EnteredFrom
<1>5. ControlInv'
  BY <1>2, <1>4, EnterControl
<1> QED
  BY <1>2, <1>3, <1>5 DEF Entering

-----------------------------------------------------------------------------
(* The TLB *)

\* Entries are filled for pages that are mapped.
LEMMA FilledOK ==
    ASSUME TlbInv, NEW vs, \A v \in vs : Mapped(v), NEW entries, entries = Filled(vs), NEW c,
           \A p \in PPages : c.pages[p] # {} => p \in clean
    PROVE  TlbOK(c, vmap, entries, clean)
<1>1. \A v \in VPages : entries[v] = IF v \in vs /\ tlb[v] = "none"
                                     THEN IF vmap[v] \in clean THEN "notdirty" ELSE "plain"
                                     ELSE tlb[v]
  BY DEF Filled
<1>2. entries \in [VPages -> {"none", "plain", "notdirty"}]
  BY DEF Filled, TlbInv, TlbOK
<1>3. ASSUME NEW v \in VPages, entries[v] # "none"
      PROVE  vmap[v] # NoPage
  BY <1>1, <1>3 DEF TlbInv, TlbOK, Mapped
<1>4. ASSUME NEW v \in VPages, entries[v] = "plain"
      PROVE  vmap[v] \notin clean
  BY <1>1, <1>4 DEF TlbInv, TlbOK
<1> QED
  BY <1>2, <1>3, <1>4 DEF TlbInv, TlbOK

\* The pages that get a block are protected.
PagesWith(c, d, tb, t) ==
    \A p \in PPages : d.pages[p] = IF p \in PagesOf(tb) THEN c.pages[p] \cup {t} ELSE c.pages[p]

LEMMA ProtectedOK ==
    ASSUME NEW c, NEW d, NEW tb, NEW t, NEW entries, TlbOK(c, vmap, entries, clean), IsAddable(tb),
           NEW ps, ps = FirstBlockOn(c, tb), NEW new, new = Protected(entries, ps), PagesWith(c, d, tb, t)
    PROVE  TlbOK(d, vmap, new, clean \cup ps)
<1>0. \A p \in PPages : d.pages[p] = IF p \in PagesOf(tb) THEN c.pages[p] \cup {t} ELSE c.pages[p]
  BY DEF PagesWith
<1>1. ps = {p \in PagesOf(tb) : c.pages[p] = {}}
  BY DEF FirstBlockOn, PagesOf
<1>2. \A p \in ps : p \in PPages
  BY <1>1 DEF IsAddable
<1>3. /\ \A v \in VPages : new[v] = IF entries[v] = "plain" /\ vmap[v] \in ps THEN "notdirty"
                                    ELSE entries[v]
      /\ new \in [VPages -> {"none", "plain", "notdirty"}]
  BY DEF Protected, TlbOK
<1>4. ASSUME NEW p \in PPages, d.pages[p] # {}
      PROVE  p \in clean \cup ps
  <2>1. CASE c.pages[p] # {}
    BY <2>1 DEF TlbOK
  <2>2. CASE c.pages[p] = {}
    BY <1>0, <1>1, <1>4, <2>2
  <2> QED
    BY <2>1, <2>2
<1>5. ASSUME NEW v \in VPages, new[v] # "none"
      PROVE  vmap[v] # NoPage
  BY <1>3, <1>5 DEF TlbOK
<1>6. ASSUME NEW v \in VPages, new[v] = "plain"
      PROVE  vmap[v] \notin clean \cup ps
  BY <1>3, <1>6 DEF TlbOK
<1>7. clean \cup ps \subseteq PPages
  BY <1>2 DEF TlbOK
<1> QED
  BY <1>3, <1>4, <1>5, <1>6, <1>7 DEF TlbOK

\* A cache with no more blocks on its pages needs no more protection.
LEMMA FewerPages ==
    ASSUME TlbInv, NEW c, \A p \in PPages : \A t \in c.pages[p] : t \in cache.pages[p]
    PROVE  TlbOK(c, vmap, tlb, clean)
<1>1. ASSUME NEW p \in PPages, c.pages[p] # {}
      PROVE  p \in clean
  BY <1>1 DEF TlbInv, TlbOK
<1> QED
  BY <1>1 DEF TlbInv, TlbOK

-----------------------------------------------------------------------------
(* cpu_exec: finding a block *)

\* The block is found in the jump cache.
FastEntry(t) ==
    t = cache.jc[pc] /\ t # NoTb /\ cache.tbs[t].pc = pc /\ cache.tbs[t].icount <= left /\ Entering(cache, t)

LEMMA FastIs ==
    ASSUME TbInv, tb_find_fast
    PROVE  ControlInv' /\ \E t : FastEntry(t)
<1>1. PICK t : t = cache.jc[pc]
  OBVIOUS
<1>2. pc \in Pcs /\ ControlInv /\ CacheOK(cache)
  BY DEF TbInv, ControlInv
<1>3. /\ Enter(cache, t) /\ InHash(cache, t) /\ t # NoTb /\ cache.tbs[t].pc = pc
      /\ cache.tbs[t].icount <= left
  BY <1>1, <1>2 DEF tb_find_fast, InJmpCache, CacheOK, JumpCache
<1>4. next_tb[1] \in 0 .. Len(cache.tbs)
  BY <1>2 DEF ControlInv
<1>5. Entering(cache, t) /\ ControlInv'
  BY <1>2, <1>3, <1>4, EnteringIs
<1> QED
  BY <1>1, <1>3, <1>5 DEF FastEntry

LEMMA FastInv ==
    ASSUME TbInv, tb_find_fast
    PROVE  TbInv'
<1>1. ControlInv' /\ \E t : FastEntry(t)
  BY FastIs
<1>2. CacheOK(cache') /\ cache'.pages = cache.pages
  BY <1>1 DEF FastEntry, Entering, EnteredFrom
<1>3. TlbInv'
  <2>1. tlb' = tlb /\ clean' = clean /\ vmap' = vmap
    BY DEF tb_find_fast, Enter
  <2> QED
    BY <1>2, <2>1 DEF TbInv, TlbInv, TlbOK
<1> QED
  BY <1>1, <1>2, <1>3 DEF TbInv

LEMMA FetchFaultControl ==
    ASSUME ControlInv, NEW c, Len(c.tbs) \in Nat, FetchFault(c), loc = "loop"
    PROVE  ControlInv'
BY TbCacheAssumption DEF ControlInv, FetchFault, switches, NoExit, NoTb

LEMMA LookupFaultsInv ==
    ASSUME TbInv, LookupFaults
    PROVE  TbInv'
<1>1. PICK c : c = [cache EXCEPT !.invalidated = FALSE]
  OBVIOUS
<1>2. CacheOK(cache) /\ ControlInv /\ TlbInv
  BY DEF TbInv
<1>3. CacheOK(c) /\ Unflagged(cache, c)
  BY <1>1, <1>2, FlagReset
<1>4. FetchFault(c) /\ loc = "loop"
  BY <1>1 DEF LookupFaults, Looking
<1>5. c \in Caches /\ Len(c.tbs) \in Nat
  BY <1>3, CacheFields DEF CacheOK
<1>6. ControlInv'
  BY <1>2, <1>4, <1>5, FetchFaultControl
<1>7. cache' = c /\ tlb' = tlb /\ clean' = clean /\ vmap' = vmap
  BY <1>4 DEF FetchFault, LookupFaults
<1>8. TlbInv'
  BY <1>2, <1>3, <1>7 DEF TlbInv, TlbOK, Unflagged
<1> QED
  BY <1>3, <1>6, <1>7, <1>8 DEF TbInv

\* The block is found in its chain, and moved: d is the cache with the block at its
\* new place.
SlowEntry(d, t, k) ==
    /\ k \in 1 .. Len(Walked) /\ Found(k) /\ t = Walked[k] /\ Mapped(PageOf(pc))
    /\ d.tbs = cache.tbs /\ d.pages = cache.pages /\ d.jc = [cache.jc EXCEPT ![pc] = t]
    /\ SameInHash(cache, d) /\ Entering(d, t)
    /\ tlb' = Filled({PageOf(pc)} \cup IF TwoPages(cache.tbs[t]) THEN {PageOf(pc) + 1} ELSE {})
    /\ clean' = clean

LEMMA SlowIs ==
    ASSUME TbInv, tb_find_slow
    PROVE  ControlInv' /\ \E d, t, k : SlowEntry(d, t, k)
<1>1. PICK c : c = [cache EXCEPT !.invalidated = FALSE]
  OBVIOUS
<1>2. CacheOK(cache) /\ ControlInv /\ TlbInv /\ pc \in Pcs
  BY DEF TbInv, ControlInv
<1>3. CacheOK(c) /\ Unflagged(cache, c)
  BY <1>1, <1>2, FlagReset
<1>4. PICK k, t, s : k = FirstFound /\ s = Walked /\ t = Walked[k]
  OBVIOUS
<1>5. Mapped(PageOf(pc)) /\ FirstFound # 0
  BY DEF tb_find_slow
<1>6. k \in 1 .. Len(s) /\ Found(k) /\ PrevRelated(k) \in 0 .. k - 1
  BY <1>4, <1>5, FirstFoundIs
<1>7. PICK b : b = Chain(Phys(pc))
  OBVIOUS
<1>8. b \in 0 .. Buckets - 1 /\ s = c.hash[b] /\ t = s[k] /\ t \in 1 .. Len(c.tbs)
  BY <1>3, <1>4, <1>5, <1>6, <1>7, WalkedChain DEF Unflagged
<1>9. PICK prev : prev = PrevRelated(k)
  OBVIOUS
<1>10. PICK d : d = Reordered(c, t, RemoveAt(s, k), prev)
  OBVIOUS
<1>11. Enter(d, t)
  BY <1>1, <1>4, <1>9, <1>10 DEF tb_find_slow
<1>12. CacheOK(d) /\ Moved(c, d, t) /\ InHash(c, t)
  BY <1>2, <1>3, <1>6, <1>8, <1>9, <1>10, FoundMoved
<1>13. /\ d.tbs = cache.tbs /\ d.pages = cache.pages /\ InHash(d, t)
       /\ d.jc = [cache.jc EXCEPT ![pc] = t]
  BY <1>3, <1>12 DEF Moved, Unflagged, SameInHash
<1>14. SameInHash(cache, d)
  BY <1>3, <1>12, SameHash DEF Moved, Unflagged, SameInHash
<1>15. next_tb[1] \in 0 .. Len(d.tbs)
  BY <1>2, <1>13 DEF ControlInv
<1>16. Entering(d, t) /\ ControlInv'
  BY <1>2, <1>11, <1>12, <1>13, <1>15, EnteringIs
<1>17. /\ tlb' = Filled({PageOf(pc)} \cup IF TwoPages(cache.tbs[t]) THEN {PageOf(pc) + 1} ELSE {})
       /\ clean' = clean
  BY <1>1, <1>3, <1>4 DEF tb_find_slow, Unflagged
<1> QED
  BY <1>4, <1>5, <1>6, <1>13, <1>14, <1>16, <1>17 DEF SlowEntry

LEMMA SlowInv ==
    ASSUME TbInv, tb_find_slow
    PROVE  TbInv'
<1>1. ControlInv' /\ \E d, t, k : SlowEntry(d, t, k)
  BY SlowIs
<1>2. PICK d, t, k : SlowEntry(d, t, k)
  BY <1>1
<1>3. CacheOK(cache') /\ cache'.pages = cache.pages /\ vmap' = vmap /\ clean' = clean
  BY <1>2 DEF SlowEntry, Entering, EnteredFrom, Enter
<1>4. PICK vs : vs = {PageOf(pc)} \cup IF TwoPages(cache.tbs[t]) THEN {PageOf(pc) + 1} ELSE {}
  OBVIOUS
<1>5. tlb' = Filled(vs) /\ TlbInv
  BY <1>2, <1>4 DEF SlowEntry, TbInv
<1>6. \A v \in vs : Mapped(v)
  BY <1>2, <1>4 DEF SlowEntry, Found
<1>7. \A p \in PPages : cache'.pages[p] # {} => p \in clean
  BY <1>3, <1>5 DEF TlbInv, TlbOK
<1>8. PICK new, entries : new = cache' /\ entries = tlb'
  OBVIOUS
<1>9. TlbOK(new, vmap, entries, clean)
  BY <1>5, <1>6, <1>7, <1>8, FilledOK
<1>10. TlbInv'
  BY <1>3, <1>8, <1>9 DEF TlbInv
<1> QED
  BY <1>1, <1>3, <1>10 DEF TbInv

LEMMA NewIsAddable ==
    ASSUME NEW tb, NEW a, NEW max, IsNewBlock(tb, a, max)
    PROVE  IsAddable(tb)
BY DEF IsNewBlock, IsAddable

LEMMA ProtectCodeOK ==
    ASSUME TlbInv, vmap \in Maps, NEW tb, NEW a, NEW max, IsNewBlock(tb, a, max), NEW c, NEW d,
           \A p \in PPages : \A u \in c.pages[p] : u \in cache.pages[p],
           BlockAdded(c, d, tb), ProtectCode(c, tb)
    PROVE  TlbOK(d, vmap, tlb', clean')
<1>1. PICK vs : vs = {PageOf(tb.pc)} \cup (IF TwoPages(tb) THEN {PageOf(tb.pc) + 1} ELSE {})
  OBVIOUS
<1>2. PICK entries : entries = Filled(vs)
  OBVIOUS
<1>3. PICK ps : ps = FirstBlockOn(c, tb)
  OBVIOUS
<1>4. tlb' = Protected(entries, ps) /\ clean' = clean \cup ps
  BY <1>1, <1>2, <1>3 DEF ProtectCode
<1>5. \A v \in vs : Mapped(v)
  <2>1. \A p \in PPages : p # NoPage
    BY TbCacheAssumption DEF NoPage
  <2>2. tb.p0 \in PPages /\ (TwoPages(tb) => tb.p1 \in PPages)
    <3>1. tb \in Blocks /\ \A p \in PagesOf(tb) : p \in PPages
      BY DEF IsNewBlock
    <3>2. tb.p0 # NoPage
      BY <3>1, BlockFields DEF NoPage
    <3> QED
      BY <3>1, <3>2 DEF PagesOf, TwoPages
  <2> QED
    BY <1>1, <2>1, <2>2 DEF IsNewBlock, IsMapped, Mapped
<1>6. \A p \in PPages : c.pages[p] # {} => p \in clean
  BY FewerPages DEF TlbOK
<1>7. TlbOK(c, vmap, entries, clean)
  BY <1>2, <1>5, <1>6, FilledOK
<1>8. PICK new, t : new = tlb' /\ t = Len(c.tbs) + 1
  OBVIOUS
<1>9. PagesWith(c, d, tb, t)
  BY <1>8 DEF BlockAdded, PagesWith
<1>10. IsAddable(tb)
  BY NewIsAddable
<1>11. new = Protected(entries, ps)
  BY <1>4, <1>8
<1>12. TlbOK(d, vmap, new, clean \cup ps)
  BY <1>3, <1>7, <1>9, <1>10, <1>11, ProtectedOK
<1> QED
  BY <1>4, <1>8, <1>12

\* The buffer that tb_alloc leaves, for the cache of the loop.
LEMMA AllocatedFor ==
    ASSUME NEW e, CacheOK(e), NEW c \in tb_alloc(e)
    PROVE  /\ CacheOK(c) /\ Len(c.tbs) < c.max /\ (c = e \/ (Emptied(c) /\ c.invalidated))
           /\ \A p \in PPages : \A u \in c.pages[p] : u \in e.pages[p]
<1>1. CacheOK(c) /\ Len(c.tbs) < c.max /\ (c = e \/ (Emptied(c) /\ c.invalidated))
  BY Allocated
<1> QED
  BY <1>1 DEF Emptied

\* The new block, and where it goes.
Translation(c, d, tb) ==
    /\ c \in tb_alloc([cache EXCEPT !.invalidated = FALSE])
    /\ CacheOK(c) /\ (Unflagged(cache, c) \/ (Emptied(c) /\ c.invalidated))
    /\ IsNewBlock(tb, pc, left) /\ BlockAdded(c, d, tb)
    /\ d.jc = [c.jc EXCEPT ![pc] = Len(c.tbs) + 1] /\ d.invalidated = c.invalidated
    /\ Enter(d, Len(c.tbs) + 1) /\ ProtectCode(c, tb)

LEMMA NotFoundIs ==
    ASSUME WellFormedProgram, TbInv, tb_find_slow_not_found
    PROVE  \E c, d, tb : Translation(c, d, tb)
<1>1. PICK e : e = [cache EXCEPT !.invalidated = FALSE]
  OBVIOUS
<1>2. CacheOK(cache) /\ ControlInv /\ TlbInv /\ pc \in Pcs /\ vmap \in Maps /\ bps \subseteq BpAddrs
  BY DEF TbInv, ControlInv
<1>3. CacheOK(e) /\ Unflagged(cache, e)
  BY <1>1, <1>2, FlagReset
<1>4. PICK tb : tb = NewTb(pc, left)
  OBVIOUS
<1>5. Mapped(PageOf(pc)) /\ ~SpansUnmapped(pc, left) /\ left > 0
  BY DEF tb_find_slow_not_found, Looking
<1>6. left \in 1 .. Quantum /\ bps \subseteq Pcs
  BY <1>2, <1>5, TbCacheAssumption DEF ControlInv
<1>7. IsNewBlock(tb, pc, left)
  BY <1>2, <1>4, <1>5, <1>6, NewBlock
<1>8. PICK c \in tb_alloc(e) :
          LET new == tb_link_page(c, tb)
              walked == IF new.invalidated THEN <<>> ELSE Walked
              prev == IF new.invalidated THEN 0 ELSE PrevRelated(Len(Walked))
          IN /\ Enter(Reordered(new, Len(new.tbs), walked, prev), Len(new.tbs))
             /\ ProtectCode(c, tb)
  BY <1>1, <1>4, Zenon DEF tb_find_slow_not_found
<1>9. PICK new : new = tb_link_page(c, tb)
  OBVIOUS
<1>10. PICK walked : walked = IF new.invalidated THEN <<>> ELSE Walked
  OBVIOUS
<1>11. PICK prev : prev = IF new.invalidated THEN 0 ELSE PrevRelated(Len(Walked))
  OBVIOUS
<1>12. PICK d : d = Reordered(new, Len(new.tbs), walked, prev)
  OBVIOUS
<1>13. Enter(d, Len(new.tbs)) /\ ProtectCode(c, tb)
  BY <1>8, <1>9, <1>10, <1>11, <1>12, Zenon
<1>14. /\ CacheOK(c) /\ Len(c.tbs) < c.max /\ (c = e \/ (Emptied(c) /\ c.invalidated))
       /\ \A p \in PPages : \A u \in c.pages[p] : u \in e.pages[p]
  BY <1>3, <1>8, AllocatedFor
<1>15. IsAddable(tb) /\ tb \in Blocks
  BY <1>7, NewIsAddable DEF IsNewBlock
<1>16. c \in Caches
  BY <1>14 DEF CacheOK
<1>17. PageLinkedTo(c, tb, new)
  BY <1>9, <1>15, <1>16, PageLinked
<1>18. new.invalidated = c.invalidated /\ Len(new.tbs) = Len(c.tbs) + 1
  BY <1>17 DEF PageLinkedTo
<1>19. /\ Walked \in Seq(Nat) /\ Len(Walked) \in Nat /\ Walked = cache.hash[Chain(Phys(pc))]
  BY <1>5, WalkedChain
<1>20. StartOf(tb) = Phys(pc)
  BY <1>7 DEF StartOf, Phys, IsNewBlock
<1>21. walked = c.hash[Chain(StartOf(tb))] /\ prev \in 0 .. Len(walked)
  <2>1. CASE c = e
    <3>1. new.invalidated = FALSE
      BY <1>3, <1>18, <2>1 DEF Unflagged
    <3>2. walked = Walked /\ prev = PrevRelated(Len(Walked))
      BY <1>10, <1>11, <3>1
    <3>3. prev \in 0 .. Len(walked)
      BY <1>19, <3>2, PrevRelatedIs
    <3> QED
      BY <1>3, <1>19, <1>20, <2>1, <3>2, <3>3 DEF Unflagged
  <2>2. CASE Emptied(c) /\ c.invalidated
    <3>1. walked = <<>> /\ prev = 0
      BY <1>10, <1>11, <1>18, <2>2
    <3>2. Chain(StartOf(tb)) \in 0 .. Buckets - 1
      BY <1>15, ChainType
    <3>3. c.hash[Chain(StartOf(tb))] = <<>>
      BY <2>2, <3>2 DEF Emptied
    <3> QED
      BY <3>1, <3>3
  <2> QED
    BY <1>14, <2>1, <2>2
<1>22. /\ BlockAdded(c, d, tb) /\ d.jc = [c.jc EXCEPT ![pc] = Len(c.tbs) + 1]
       /\ d.invalidated = c.invalidated
  <2>1. CacheOK(c) /\ Len(c.tbs) < c.max
    BY <1>14
  <2> QED
    BY <1>2, <1>9, <1>12, <1>15, <1>21, <2>1, TranslatedAdded
<1>23. Unflagged(cache, c) \/ (Emptied(c) /\ c.invalidated)
  BY <1>3, <1>14
<1>24. Enter(d, Len(c.tbs) + 1)
  BY <1>13, <1>18
<1>25. c \in tb_alloc([cache EXCEPT !.invalidated = FALSE])
  BY <1>1, <1>8
<1> QED
  BY <1>7, <1>13, <1>14, <1>22, <1>23, <1>24, <1>25 DEF Translation

LEMMA NotFoundEnters ==
    ASSUME TbInv, NEW c, NEW d, NEW tb, Translation(c, d, tb)
    PROVE  Entering(d, Len(c.tbs) + 1) /\ ControlInv'
<1>1. /\ CacheOK(c) /\ (Unflagged(cache, c) \/ (Emptied(c) /\ c.invalidated))
      /\ BlockAdded(c, d, tb) /\ d.invalidated = c.invalidated /\ Enter(d, Len(c.tbs) + 1)
  BY DEF Translation
<1>2. ControlInv
  BY DEF TbInv
<1>3. Len(c.tbs) \in Nat
  BY <1>1, CacheFields DEF CacheOK
<1>4. PICK t : t = Len(c.tbs) + 1
  OBVIOUS
<1>5. CacheOK(d) /\ InHash(d, t) /\ Len(d.tbs) = t
  BY <1>1, <1>4 DEF BlockAdded
<1>6. ~d.invalidated => next_tb[1] \in 0 .. Len(d.tbs)
  BY <1>1, <1>2, <1>3, <1>4, <1>5 DEF ControlInv, Unflagged
<1> QED
  BY <1>1, <1>2, <1>4, <1>5, <1>6, EnteringIs

LEMMA NotFoundInv ==
    ASSUME WellFormedProgram, TbInv, tb_find_slow_not_found
    PROVE  TbInv'
<1>1. PICK c, d, tb : Translation(c, d, tb)
  BY NotFoundIs
<1>2. /\ (Unflagged(cache, c) \/ (Emptied(c) /\ c.invalidated))
      /\ IsNewBlock(tb, pc, left) /\ BlockAdded(c, d, tb) /\ ProtectCode(c, tb)
  BY <1>1 DEF Translation
<1>3. TlbInv /\ vmap \in Maps
  BY DEF TbInv, ControlInv
<1>4. Entering(d, Len(c.tbs) + 1) /\ ControlInv'
  BY <1>1, NotFoundEnters
<1>5. CacheOK(cache') /\ cache'.pages = d.pages /\ vmap' = vmap
  BY <1>4 DEF Entering, EnteredFrom, Enter
<1>6. \A p \in PPages : \A u \in c.pages[p] : u \in cache.pages[p]
  BY <1>2 DEF Unflagged, Emptied
<1>7. TlbOK(d, vmap, tlb', clean')
  BY <1>2, <1>3, <1>6, ProtectCodeOK
<1>8. TlbInv'
  BY <1>5, <1>7 DEF TlbInv, TlbOK
<1> QED
  BY <1>4, <1>5, <1>8 DEF TbInv

\* A block that cannot be completed takes a slot only.
FaultAdded(c, d, tb) ==
    /\ CacheOK(c) /\ Len(c.tbs) < c.max
    /\ tb \in Blocks /\ WellShaped(tb) /\ Unchained(tb) /\ tb.code = "stale" /\ tb.dirty = FALSE
    /\ d \in Caches /\ d.tbs = Append(c.tbs, tb) /\ d.hash = c.hash /\ d.pages = c.pages
    /\ d.jc = c.jc /\ d.max = c.max /\ d.invalidated = c.invalidated

LEMMA FaultAddedIs ==
    ASSUME WellFormedProgram, bps \subseteq Pcs, NEW a \in Pcs, NEW max \in 1 .. Quantum,
           NEW c, CacheOK(c), Len(c.tbs) < c.max, NEW d, d = WithFaulted(c, a, max)
    PROVE  \E tb : FaultAdded(c, d, tb)
<1>1. PICK tb : tb = [NewTb(a, max) EXCEPT !.p0 = 0, !.p1 = 0, !.code = "stale"]
  OBVIOUS
<1>2. tb \in Blocks /\ WellShaped(tb) /\ Unchained(tb) /\ tb.code = "stale" /\ tb.dirty = FALSE
  BY <1>1, FaultedBlock
<1>3. c \in Caches /\ c.tbs \in Seq(Blocks)
  BY CacheFields DEF CacheOK
<1>4. PICK g : g = Append(c.tbs, tb)
  OBVIOUS
<1>5. g \in Seq(Blocks) /\ d = [c EXCEPT !.tbs = g]
  BY <1>1, <1>2, <1>3, <1>4 DEF WithFaulted
<1>6. /\ d \in Caches /\ d.tbs = g /\ d.hash = c.hash /\ d.pages = c.pages
      /\ d.jc = c.jc /\ d.max = c.max /\ d.invalidated = c.invalidated
  BY <1>3, <1>5 DEF Caches
<1> QED
  BY <1>2, <1>4, <1>6 DEF FaultAdded

LEMMA FaultAddedOK ==
    ASSUME NEW c, NEW d, NEW tb, FaultAdded(c, d, tb)
    PROVE  /\ CacheOK(d) /\ Len(d.tbs) = Len(c.tbs) + 1 /\ d.tbs[Len(c.tbs) + 1] = tb
           /\ \A u \in 1 .. Len(c.tbs) : d.tbs[u] = c.tbs[u]
           /\ \A u : InHash(d, u) <=> InHash(c, u)
           /\ Len(c.tbs) \in Nat /\ Len(d.tbs) \in Nat
<1>1. /\ CacheOK(c) /\ Len(c.tbs) < c.max /\ tb \in Blocks /\ WellShaped(tb) /\ tb.inc = {}
      /\ (\A n \in 0 .. 1 : tb.jmp[n] = NoTb)
      /\ d \in Caches /\ d.tbs = Append(c.tbs, tb) /\ d.hash = c.hash /\ d.pages = c.pages
      /\ d.jc = c.jc /\ d.max = c.max
  BY DEF FaultAdded, Unchained
<1>2. Len(c.tbs) \in Nat /\ Len(d.tbs) \in Nat
  BY <1>1, CacheFields DEF CacheOK
<1> QED
  BY <1>1, <1>2, Appended

GenCodeFault(c, d, tb) ==
    /\ FaultAdded(c, d, tb) /\ (Unflagged(cache, c) \/ (Emptied(c) /\ c.invalidated))
    /\ FetchFault(d)

LEMMA GenCodeFaultsIs ==
    ASSUME WellFormedProgram, TbInv, tb_gen_code_faults
    PROVE  \E c, d, tb : GenCodeFault(c, d, tb)
<1>1. PICK e : e = [cache EXCEPT !.invalidated = FALSE]
  OBVIOUS
<1>2. CacheOK(cache) /\ ControlInv /\ pc \in Pcs /\ bps \subseteq Pcs
  BY TbCacheAssumption DEF TbInv, ControlInv
<1>3. CacheOK(e) /\ Unflagged(cache, e)
  BY <1>1, <1>2, FlagReset
<1>4. left \in 1 .. Quantum
  BY <1>2, TbCacheAssumption DEF ControlInv, tb_gen_code_faults, Looking
<1>5. PICK c \in tb_alloc(e) : FetchFault(WithFaulted(c, pc, left))
  BY <1>1, Zenon DEF tb_gen_code_faults
<1>6. PICK d : d = WithFaulted(c, pc, left)
  OBVIOUS
<1>7. CacheOK(c) /\ Len(c.tbs) < c.max /\ (c = e \/ (Emptied(c) /\ c.invalidated))
  BY <1>3, <1>5, AllocatedFor
<1>8. PICK tb : FaultAdded(c, d, tb)
  BY <1>2, <1>4, <1>6, <1>7, FaultAddedIs
<1> QED
  BY <1>3, <1>5, <1>6, <1>7, <1>8 DEF GenCodeFault

LEMMA GenCodeFaultsInv ==
    ASSUME WellFormedProgram, TbInv, tb_gen_code_faults
    PROVE  TbInv'
<1>1. PICK c, d, tb : GenCodeFault(c, d, tb)
  BY GenCodeFaultsIs
<1>2. CacheOK(cache) /\ ControlInv /\ TlbInv /\ vmap \in Maps
  BY DEF TbInv, ControlInv
<1>3. CacheOK(d) /\ Len(d.tbs) \in Nat
  BY <1>1, FaultAddedOK DEF GenCodeFault
<1>4. FetchFault(d) /\ loc = "loop" /\ cache' = d /\ vmap' = vmap
  BY <1>1 DEF GenCodeFault, FetchFault, tb_gen_code_faults, Looking
<1>5. ControlInv'
  BY <1>2, <1>3, <1>4, FetchFaultControl
<1>6. \A p \in PPages : d.pages[p] # {} => p \in clean
  <2>1. d.pages = c.pages /\ (Unflagged(cache, c) \/ Emptied(c))
    BY <1>1 DEF GenCodeFault, FaultAdded
  <2> QED
    BY <1>2, <2>1 DEF TlbInv, TlbOK, Unflagged, Emptied
<1>7. tlb' = Filled({PageOf(pc)}) /\ clean' = clean /\ \A v \in {PageOf(pc)} : Mapped(v)
  BY DEF tb_gen_code_faults
<1>8. PICK vs, entries : vs = {PageOf(pc)} /\ entries = tlb'
  OBVIOUS
<1>9. entries = Filled(vs) /\ \A v \in vs : Mapped(v)
  BY <1>7, <1>8
<1>10. TlbOK(d, vmap, entries, clean)
  BY <1>2, <1>6, <1>9, FilledOK
<1>11. TlbInv'
  BY <1>4, <1>7, <1>8, <1>10 DEF TlbInv
<1> QED
  BY <1>3, <1>4, <1>5, <1>11 DEF TbInv

-----------------------------------------------------------------------------
(* Running a block, and the host *)

\* The blocks are the same, and the pages have no more of them.
Fewer(c, d) ==
    /\ Len(d.tbs) = Len(c.tbs)
    /\ \A t \in 1 .. Len(c.tbs) : SameBlock(c.tbs[t], d.tbs[t])
    /\ \A p \in PPages : \A t \in d.pages[p] : t \in c.pages[p]

LEMMA FewerTransitive ==
    ASSUME NEW c, NEW d, NEW e, Fewer(c, d), Fewer(d, e)
    PROVE  Fewer(c, e)
BY DEF Fewer, SameBlock

LEMMA DroppedIsFewer ==
    ASSUME NEW c, NEW d, Dropped(c, d)
    PROVE  Fewer(c, d)
BY DEF Fewer, Dropped

LEMMA AnnotatedIsFewer ==
    ASSUME NEW c, CacheOK(c), NEW d, Annotated(c, d)
    PROVE  CacheOK(d) /\ Fewer(c, d) /\ SameInHash(c, d)
<1>1. CacheOK(d) /\ \A t : InHash(d, t) <=> InHash(c, t)
  BY AnnotatedOK
<1>2. Fewer(c, d)
  BY DEF Fewer, Annotated
<1> QED
  BY <1>1, <1>2 DEF SameInHash

\* What Settled makes of the annotations.
SettledTo(c, d) ==
    \A t \in 1 .. Len(c.tbs) :
        /\ d.tbs[t].dirty = c.tbs[t].dirty
        /\ d.tbs[t].code = IF c.tbs[t].code = "behind" \/ ~InHash(c, t) THEN "stale" ELSE c.tbs[t].code

LEMMA SettledOK ==
    ASSUME NEW c, CacheOK(c), NEW d, d = Settled(c)
    PROVE  CacheOK(d) /\ Fewer(c, d) /\ SameInHash(c, d) /\ Annotated(c, d) /\ SettledTo(c, d)
<1>1. c \in Caches
  BY DEF CacheOK
<1>2. Annotated(c, d) /\ SettledTo(c, d)
  BY <1>1, SettledIs DEF SettledTo
<1> QED
  BY <1>2, AnnotatedIsFewer

\* A step that leaves the TLB alone and adds no block.
LEMMA FewerTlb ==
    ASSUME TlbInv, Fewer(cache, cache'), UNCHANGED <<vmap, tlb, clean>>
    PROVE  TlbInv'
<1>1. PICK c : c = cache'
  OBVIOUS
<1>2. \A p \in PPages : \A t \in c.pages[p] : t \in cache.pages[p]
  BY <1>1 DEF Fewer
<1>3. TlbOK(c, vmap, tlb, clean)
  BY <1>2, FewerPages
<1> QED
  BY <1>1, <1>3 DEF TlbInv

\* The instructions of the current block.
LEMMA CurrentCount ==
    ASSUME TbInv, loc \in {"header", "body"}
    PROVE  /\ cur \in 1 .. Len(cache.tbs) /\ cache.tbs[cur] \in Blocks /\ cache.tbs[cur].icount \in Nat
           /\ WellShaped(cache.tbs[cur]) /\ Len(cache.tbs) \in Nat /\ left \in Nat
           /\ cache.tbs[cur].pc \in Pcs
           /\ \A n \in 0 .. 1 : cache.tbs[cur].jmp[n] \in 0 .. Len(cache.tbs)
<1>1. CacheOK(cache) /\ cache \in Caches /\ cur \in 1 .. Len(cache.tbs) /\ left \in 0 .. Quantum
  BY DEF TbInv, CacheOK, ControlInv
<1>2. Len(cache.tbs) \in Nat /\ cache.tbs[cur] \in Blocks
  BY <1>1, CacheFields
<1>3. WellShaped(cache.tbs[cur]) /\ \A n \in 0 .. 1 : cache.tbs[cur].jmp[n] \in 0 .. Len(cache.tbs)
  BY <1>1 DEF CacheOK, Jumps
<1>4. cache.tbs[cur].icount \in Nat /\ cache.tbs[cur].pc \in Pcs
  BY <1>2, BlockFields
<1> QED
  BY <1>1, <1>2, <1>3, <1>4, TbCacheAssumption

\* What the header does to the cache.
HeaderCache(c, k) ==
    CASE left = 0 -> c
      [] left > 0 /\ c.tbs[k].icount > left -> JmpCacheRemove(c, k)
      [] OTHER -> tb_phys_invalidate(c, k)

LEMMA HeaderCacheOK ==
    ASSUME NEW c, CacheOK(c), NEW k \in 1 .. Len(c.tbs), left \in Nat, NEW d, d = HeaderCache(c, k)
    PROVE  /\ CacheOK(d) /\ Dropped(c, d)
           /\ (left = 0 => d = c)
           /\ (left > 0 /\ c.tbs[k].icount > left => d.hash = c.hash /\ d.tbs = c.tbs)
           /\ (left > 0 /\ ~(c.tbs[k].icount > left) =>
                  \A u : InHash(d, u) <=> InHash(c, u) /\ u # k)
<1>1. CASE left = 0
  BY <1>1, DroppedReflexive DEF HeaderCache
<1>2. CASE left > 0 /\ c.tbs[k].icount > left
  <2>1. d = JmpCacheRemove(c, k)
    BY <1>2 DEF HeaderCache
  <2>2. CacheOK(d) /\ Dropped(c, d) /\ d.tbs = c.tbs /\ d.hash = c.hash
    BY <2>1, JmpCacheRemoved
  <2> QED
    BY <1>2, <2>2
<1>3. CASE left > 0 /\ ~(c.tbs[k].icount > left)
  <2>1. d = tb_phys_invalidate(c, k)
    BY <1>3 DEF HeaderCache
  <2>2. /\ CacheOK(d) /\ Dropped(c, d)
        /\ \A u : InHash(d, u) <=> InHash(c, u) /\ u # k
    BY <2>1, Invalidated
  <2> QED
    BY <1>3, <2>2
<1> QED
  BY <1>1, <1>2, <1>3

LEMMA HeaderRestartInv ==
    ASSUME TbInv, HeaderRestart
    PROVE  TbInv'
<1>1. CacheOK(cache) /\ ControlInv /\ TlbInv /\ loc = "header"
  BY DEF TbInv, HeaderRestart
<1>2. /\ cur \in 1 .. Len(cache.tbs) /\ left \in Nat /\ cache.tbs[cur].pc \in Pcs
      /\ Len(cache.tbs) \in Nat
  BY <1>1, CurrentCount
<1>3. PICK e : e = HeaderCache(cache, cur)
  OBVIOUS
<1>4. cache' = Settled(e)
  BY <1>3, Zenon DEF HeaderRestart, HeaderCache
<1>5. CacheOK(e) /\ Fewer(cache, e)
  BY <1>1, <1>2, <1>3, HeaderCacheOK, DroppedIsFewer
<1>6. CacheOK(cache') /\ Fewer(e, cache')
  BY <1>4, <1>5, SettledOK
<1>7. Fewer(cache, cache')
  BY <1>5, <1>6, FewerTransitive
<1>8. TlbInv'
  BY <1>1, <1>7, FewerTlb DEF HeaderRestart, mmu
<1>9. ControlInv'
  BY <1>1, <1>2, <1>7 DEF ControlInv, HeaderRestart, switches, mmu, Fewer, NoExit, NoTb
<1> QED
  BY <1>6, <1>8, <1>9 DEF TbInv

LEMMA HeaderRunInv ==
    ASSUME TbInv, HeaderRun
    PROVE  TbInv'
<1>1. loc = "header" /\ CacheOK(cache) /\ ControlInv /\ TlbInv
  BY DEF HeaderRun, TbInv
<1>2. cache.tbs[cur].icount \in Nat /\ left \in Nat /\ cur \in 1 .. Len(cache.tbs)
  BY <1>1, CurrentCount
<1>3. PICK n \in Nat : n = cache.tbs[cur].icount
  BY <1>2
<1>4. left' \in 0 .. Quantum /\ left' + n <= Quantum
  <2>1. left' = left - n /\ n <= left
    BY <1>3 DEF HeaderRun
  <2>2. left \in 0 .. Quantum /\ Quantum \in Nat
    BY <1>1, TbCacheAssumption DEF ControlInv
  <2> QED
    BY <1>3, <2>1, <2>2
<1>5. ControlInv'
  BY <1>1, <1>2, <1>3, <1>4 DEF HeaderRun, ControlInv, switches, mmu
<1> QED
  BY <1>1, <1>5 DEF HeaderRun, TbInv, TlbInv, mmu, CacheOK

\* An exit of a block leads to an instruction.
LEMMA ExitIs ==
    ASSUME WellFormedProgram, NEW tb \in Blocks, WellShaped(tb), ~tb.trap, tb.last \notin Indirect,
           NEW e \in Exits(tb)
    PROVE  e[1] \in 0 .. 1 /\ e[2] \in Pcs /\ e = <<e[1], e[2]>>
<1>1. tb.last \in Pcs /\ tb.pc + tb.size = tb.last + InsnLen[tb.last]
  BY BlockFields DEF WellShaped
<1>2. tb.pc + tb.size \in Pcs
  BY <1>1 DEF WellFormedProgram
<1>3. CASE tb.last \in DOMAIN Target
  BY <1>2, <1>3, TbCacheAssumption DEF Exits
<1>4. CASE tb.last \notin DOMAIN Target
  BY <1>2, <1>4 DEF Exits
<1> QED
  BY <1>3, <1>4

\* What a block does at its exit e.
Leaving(e, to) ==
    /\ e \in Exits(cache.tbs[cur]) /\ e[1] \in 0 .. 1 /\ e = <<e[1], e[2]>>
    /\ to = (IF PageOf(e[2]) = PageOf(cache.tbs[cur].pc) THEN cache.tbs[cur].jmp[e[1]] ELSE NoTb)
    /\ pc' = e[2] /\ cur' = to /\ loc' = (IF to # NoTb THEN "header" ELSE "loop")
    /\ cache' = (IF to # NoTb THEN cache ELSE Settled(cache))
    /\ next_tb' = (IF to = NoTb /\ PageOf(e[2]) = PageOf(cache.tbs[cur].pc) THEN <<cur, e[1]>> ELSE NoExit)

LEMMA LeavingIs ==
    ASSUME WellFormedProgram, TbInv, LeaveBlock
    PROVE  \E e, to : Leaving(e, to)
<1>1. loc = "body" /\ ~cache.tbs[cur].trap /\ cache.tbs[cur].last \notin Indirect
  BY DEF LeaveBlock
<1>2. cache.tbs[cur] \in Blocks /\ WellShaped(cache.tbs[cur])
  BY <1>1, CurrentCount
<1>3. PICK e \in Exits(cache.tbs[cur]) :
          LET tb == cache.tbs[cur]
              patchable == PageOf(e[2]) = PageOf(tb.pc)
              to == IF patchable THEN tb.jmp[e[1]] ELSE NoTb
          IN /\ pc' = e[2]
             /\ cur' = to
             /\ loc' = IF to # NoTb THEN "header" ELSE "loop"
             /\ cache' = IF to # NoTb THEN cache ELSE Settled(cache)
             /\ next_tb' = IF to = NoTb /\ patchable THEN <<cur, e[1]>> ELSE NoExit
  BY Zenon DEF LeaveBlock
<1>4. e[1] \in 0 .. 1 /\ e = <<e[1], e[2]>>
  BY <1>1, <1>2, <1>3, ExitIs
<1>5. PICK to : to = IF PageOf(e[2]) = PageOf(cache.tbs[cur].pc) THEN cache.tbs[cur].jmp[e[1]] ELSE NoTb
  OBVIOUS
<1>6. Leaving(e, to)
  BY <1>3, <1>4, <1>5 DEF Leaving
<1> QED
  BY <1>6

LEMMA LeaveBlockInv ==
    ASSUME WellFormedProgram, TbInv, LeaveBlock
    PROVE  TbInv'
<1>1. CacheOK(cache) /\ ControlInv /\ TlbInv /\ loc = "body"
  BY DEF TbInv, LeaveBlock
<1>2. /\ cur \in 1 .. Len(cache.tbs) /\ cache.tbs[cur] \in Blocks /\ WellShaped(cache.tbs[cur])
      /\ Len(cache.tbs) \in Nat /\ \A n \in 0 .. 1 : cache.tbs[cur].jmp[n] \in 0 .. Len(cache.tbs)
  BY <1>1, CurrentCount
<1>3. PICK e, to : Leaving(e, to)
  BY LeavingIs
<1>4. e[1] \in 0 .. 1 /\ e[2] \in Pcs
  BY <1>2, <1>3, ExitIs DEF LeaveBlock, Leaving
<1>5. to = IF PageOf(e[2]) = PageOf(cache.tbs[cur].pc) THEN cache.tbs[cur].jmp[e[1]] ELSE NoTb
  BY <1>3 DEF Leaving
<1>6. /\ pc' = e[2] /\ cur' = to /\ loc' = (IF to # NoTb THEN "header" ELSE "loop")
      /\ cache' = (IF to # NoTb THEN cache ELSE Settled(cache))
      /\ next_tb' \in {<<cur, e[1]>>, NoExit} /\ (to # NoTb => next_tb' = NoExit)
  BY <1>3 DEF Leaving
<1>7. to \in 0 .. Len(cache.tbs)
  BY <1>2, <1>4, <1>5 DEF NoTb
<1>8. CacheOK(cache') /\ Fewer(cache, cache')
  <2>1. CASE to # NoTb
    <3>1. cache' = cache
      BY <1>6, <2>1
    <3>2. Fewer(cache, cache)
      BY DroppedReflexive, DroppedIsFewer
    <3> QED
      BY <1>1, <3>1, <3>2
  <2>2. CASE to = NoTb
    <3>1. cache' = Settled(cache)
      BY <1>6, <2>2
    <3> QED
      BY <1>1, <3>1, SettledOK
  <2> QED
    BY <2>1, <2>2
<1>9. TlbInv'
  BY <1>1, <1>8, FewerTlb DEF LeaveBlock, mmu
<1>10. next_tb'[1] \in 0 .. Len(cache.tbs) /\ next_tb'[2] \in 0 .. 1 /\ next_tb' = <<next_tb'[1], next_tb'[2]>>
  BY <1>2, <1>4, <1>6 DEF NoExit, NoTb
<1>11. Len(cache'.tbs) = Len(cache.tbs)
  BY <1>8 DEF Fewer
<1>12. /\ cacheOff' = cacheOff /\ chainOff' = chainOff /\ bps' = bps /\ vmap' = vmap /\ left' = left
  BY DEF LeaveBlock, switches, mmu
<1>13. ControlInv'
  BY <1>1, <1>2, <1>4, <1>6, <1>7, <1>10, <1>11, <1>12 DEF ControlInv, NoTb
<1> QED
  BY <1>8, <1>9, <1>13 DEF TbInv

LEMMA LeaveIndirectInv ==
    ASSUME TbInv, LeaveIndirect
    PROVE  TbInv'
<1>1. CacheOK(cache) /\ ControlInv /\ TlbInv
  BY DEF TbInv
<1>2. cache' = Settled(cache)
  BY DEF LeaveIndirect
<1>3. CacheOK(cache') /\ Fewer(cache, cache')
  BY <1>1, <1>2, SettledOK
<1>4. TlbInv'
  BY <1>1, <1>3, FewerTlb DEF LeaveIndirect, mmu
<1>5. cache' \in Caches /\ Len(cache'.tbs) \in Nat
  BY <1>3, CacheFields DEF CacheOK
<1>6. ControlInv'
  BY <1>1, <1>5 DEF LeaveIndirect, ControlInv, switches, mmu, NoExit, NoTb
<1> QED
  BY <1>3, <1>4, <1>6 DEF TbInv

LEMMA LeaveByBreakpointInv ==
    ASSUME TbInv, LeaveByBreakpoint
    PROVE  TbInv'
<1>1. CacheOK(cache) /\ ControlInv /\ TlbInv /\ loc = "body"
  BY DEF TbInv, LeaveByBreakpoint
<1>2. cache' = Settled(cache)
  BY DEF LeaveByBreakpoint
<1>3. CacheOK(cache') /\ Fewer(cache, cache')
  BY <1>1, <1>2, SettledOK
<1>4. TlbInv'
  BY <1>1, <1>3, FewerTlb DEF LeaveByBreakpoint, mmu
<1>5. cache' \in Caches /\ Len(cache'.tbs) \in Nat
  BY <1>3, CacheFields DEF CacheOK
<1>6. pc' \in Pcs
  BY <1>1, CurrentCount DEF LeaveByBreakpoint, WellShaped
<1>7. /\ loc' = "host" /\ cur' = NoTb /\ left' = 0 /\ next_tb' = next_tb
      /\ cacheOff' = cacheOff /\ chainOff' = chainOff /\ bps' = bps /\ vmap' = vmap
  BY DEF LeaveByBreakpoint, switches, mmu
<1>8. next_tb = NoExit
  BY <1>1 DEF ControlInv
<1>9. ControlInv'
  BY <1>1, <1>5, <1>6, <1>7, <1>8, TbCacheAssumption DEF ControlInv, NoExit, NoTb
<1> QED
  BY <1>3, <1>4, <1>9 DEF TbInv

\* What is left for the rest of the current block, from the instruction a on.
LEMMA RestInRange ==
    ASSUME TbInv, loc = "body", NEW a \in Pcs, NEW old, old = cache.tbs[cur],
           old.pc <= a, a < old.pc + old.size,
           NEW S, S = {x \in Pcs : a <= x /\ x < old.pc + old.size},
           NEW rest, rest = left + Cardinality(S)
    PROVE  rest \in 1 .. Quantum
<1>1. ControlInv
  BY DEF TbInv
<1>2. left \in Nat
  BY <1>1, CurrentCount
<1>3. old \in Blocks /\ WellShaped(old) /\ old.pc \in Nat /\ old.size \in Nat /\ a \in Nat /\ old.icount \in Nat
  BY CurrentCount, BlockFields, TbCacheAssumption
<1>4. \A x \in S : x \in InsnsOf(old)
  BY <1>3, TbCacheAssumption DEF InsnsOf
<1>5. IsFiniteSet(InsnsOf(old)) /\ Cardinality(InsnsOf(old)) <= old.icount
  BY <1>3 DEF WellShaped
<1>6. S \subseteq InsnsOf(old)
  BY <1>4
<1>7. IsFiniteSet(S) /\ Cardinality(S) <= Cardinality(InsnsOf(old))
  BY <1>5, <1>6, FS_Subset
<1>8. a \in S
  BY <1>3
<1>9. Cardinality(S) \in Nat /\ Cardinality(InsnsOf(old)) \in Nat
  BY <1>5, <1>7, FS_CardinalityType
<1>10. Cardinality(S) # 0
  BY <1>7, <1>8, FS_EmptySet
<1>11. left + old.icount <= Quantum
  BY <1>1 DEF ControlInv
<1>12. PICK n, m : n = Cardinality(S) /\ m = Cardinality(InsnsOf(old))
  OBVIOUS
<1>13. rest = left + n /\ n \in Nat /\ m \in Nat /\ n # 0 /\ n <= m /\ m <= old.icount
  BY <1>5, <1>7, <1>9, <1>10, <1>12
<1> QED
  BY <1>2, <1>3, <1>11, <1>13, TbCacheAssumption

\* interrupt_current_translation_block: the current block is dropped, and a new one
\* is made of the rest of it.
Interruption(e, c, f, d, tb, a, rest) ==
    /\ e = tb_phys_invalidate(cache, cur) /\ CacheOK(e) /\ Dropped(cache, e)
    /\ CacheOK(c) /\ (c = e \/ (Emptied(c) /\ c.invalidated))
    /\ a \in InsnsOf(cache.tbs[cur]) /\ rest \in 1 .. Quantum /\ IsNewBlock(tb, a, rest)
    /\ BlockAdded(c, f, tb) /\ f.jc = c.jc /\ d = Settled(f)
    /\ cache' = d /\ pc' = a /\ ProtectCode(c, tb)

LEMMA InterruptIs ==
    ASSUME WellFormedProgram, TbInv, InterruptBlock
    PROVE  \E e, c, f, d, tb, a, rest : Interruption(e, c, f, d, tb, a, rest)
<1>1. CacheOK(cache) /\ ControlInv /\ TlbInv /\ loc = "body" /\ vmap \in Maps /\ bps \subseteq BpAddrs
  BY DEF TbInv, InterruptBlock, ControlInv
<1>2. /\ cur \in 1 .. Len(cache.tbs) /\ cache.tbs[cur] \in Blocks /\ WellShaped(cache.tbs[cur])
      /\ Len(cache.tbs) \in Nat /\ cache.tbs[cur].icount \in Nat /\ left \in Nat
  BY <1>1, CurrentCount
<1>3. PICK a \in Pcs :
          LET tb == cache.tbs[cur]
              rest == left + Cardinality({x \in Pcs : a <= x /\ x < tb.pc + tb.size})
          IN /\ tb.pc <= a /\ a < tb.pc + tb.size
             /\ Mapped(PageOf(a)) /\ ~SpansUnmapped(a, rest)
             /\ pc' = a
             /\ \E c \in tb_alloc(tb_phys_invalidate(cache, cur)) :
                   LET new == NewTb(a, rest)
                       linked == tb_link_page(c, new)
                   IN /\ cache' = Settled(tb_phys_hash_insert(linked, Len(linked.tbs)))
                      /\ ProtectCode(c, new)
  BY Zenon DEF InterruptBlock
<1>4. PICK old : old = cache.tbs[cur]
  OBVIOUS
<1>5. PICK S : S = {x \in Pcs : a <= x /\ x < old.pc + old.size}
  OBVIOUS
<1>6. PICK rest : rest = left + Cardinality(S)
  OBVIOUS
<1>7. PICK e : e = tb_phys_invalidate(cache, cur)
  OBVIOUS
<1>8. PICK tb : tb = NewTb(a, rest)
  OBVIOUS
<1>9. /\ old.pc <= a /\ a < old.pc + old.size /\ Mapped(PageOf(a)) /\ ~SpansUnmapped(a, rest) /\ pc' = a
  BY <1>3, <1>4, <1>5, <1>6, Zenon
<1>10. PICK c \in tb_alloc(e) :
          LET linked == tb_link_page(c, tb)
          IN /\ cache' = Settled(tb_phys_hash_insert(linked, Len(linked.tbs)))
             /\ ProtectCode(c, tb)
  BY <1>3, <1>4, <1>5, <1>6, <1>7, <1>8, Zenon
<1>11. PICK linked : linked = tb_link_page(c, tb)
  OBVIOUS
<1>12. PICK f : f = tb_phys_hash_insert(linked, Len(linked.tbs))
  OBVIOUS
<1>13. PICK d : d = Settled(f)
  OBVIOUS
<1>14. cache' = d /\ ProtectCode(c, tb)
  BY <1>10, <1>11, <1>12, <1>13, Zenon
<1>15. CacheOK(e) /\ Dropped(cache, e)
  BY <1>1, <1>2, <1>7, Invalidated
<1>16. /\ CacheOK(c) /\ Len(c.tbs) < c.max /\ (c = e \/ (Emptied(c) /\ c.invalidated))
       /\ \A p \in PPages : \A u \in c.pages[p] : u \in e.pages[p]
  BY <1>10, <1>15, AllocatedFor
<1>17. rest \in 1 .. Quantum
  BY <1>1, <1>4, <1>5, <1>6, <1>9, RestInRange
<1>18. bps \subseteq Pcs
  BY <1>1, TbCacheAssumption
<1>19. IsNewBlock(tb, a, rest)
  BY <1>1, <1>8, <1>9, <1>17, <1>18, NewBlock
<1>20. IsAddable(tb)
  BY <1>19, NewIsAddable
<1>21. BlockAdded(c, f, tb) /\ f.jc = c.jc /\ f.invalidated = c.invalidated
  <2>1. CacheOK(c) /\ Len(c.tbs) < c.max
    BY <1>16
  <2> QED
    BY <1>11, <1>12, <1>20, <2>1, HashInserted
<1>22. a \in InsnsOf(cache.tbs[cur])
  BY <1>4, <1>9 DEF InsnsOf
<1>23. CacheOK(c) /\ (c = e \/ (Emptied(c) /\ c.invalidated))
  BY <1>16
<1> QED
  BY <1>7, <1>9, <1>13, <1>14, <1>15, <1>17, <1>19, <1>21, <1>22, <1>23, Zenon DEF Interruption

LEMMA InterruptInv ==
    ASSUME WellFormedProgram, TbInv, InterruptBlock
    PROVE  TbInv'
<1>1. PICK e, c, f, d, tb, a, rest : Interruption(e, c, f, d, tb, a, rest)
  BY InterruptIs
<1>2. CacheOK(cache) /\ ControlInv /\ TlbInv /\ vmap \in Maps /\ loc = "body"
  BY DEF TbInv, ControlInv, InterruptBlock
<1>3. /\ CacheOK(f) /\ cache' = d /\ d = Settled(f) /\ BlockAdded(c, f, tb)
      /\ IsNewBlock(tb, a, rest) /\ ProtectCode(c, tb)
  BY <1>1 DEF Interruption, BlockAdded
<1>4. CacheOK(d) /\ Fewer(f, d)
  BY <1>3, SettledOK
<1>5. d \in Caches /\ Len(d.tbs) \in Nat
  BY <1>4, CacheFields DEF CacheOK
<1>6. /\ loc' = "host" /\ cur' = NoTb /\ left' = 0 /\ next_tb' = next_tb /\ pc' = a
      /\ cacheOff' = cacheOff /\ chainOff' = chainOff /\ bps' = bps /\ vmap' = vmap
  BY <1>1 DEF InterruptBlock, switches, Interruption
<1>7. next_tb = NoExit /\ a \in Pcs
  BY <1>1, <1>2 DEF ControlInv, Interruption, InsnsOf
<1>8. ControlInv'
  BY <1>2, <1>3, <1>5, <1>6, <1>7, TbCacheAssumption DEF ControlInv, NoExit, NoTb
<1>9. \A p \in PPages : \A u \in c.pages[p] : u \in cache.pages[p]
  <2>1. (c = e \/ Emptied(c)) /\ Dropped(cache, e)
    BY <1>1 DEF Interruption
  <2> QED
    BY <2>1 DEF Dropped, Emptied
<1>10. TlbOK(f, vmap, tlb', clean')
  BY <1>2, <1>3, <1>9, ProtectCodeOK
<1>11. TlbOK(d, vmap, tlb', clean')
  BY <1>4, <1>10 DEF TlbOK, Fewer
<1>12. TlbInv'
  BY <1>3, <1>6, <1>11 DEF TlbInv
<1> QED
  BY <1>3, <1>4, <1>8, <1>12 DEF TbInv

\* The block cannot be made: the old one is dropped, and a slot is taken at most.
InterruptionFault(e, d, tb, a, rest) ==
    /\ e = tb_phys_invalidate(cache, cur) /\ CacheOK(e) /\ Dropped(cache, e)
    /\ CacheOK(d) /\ cache' = Settled(d)
    /\ a \in Pcs /\ rest \in 1 .. Quantum /\ left' = rest
    /\ \/ d = e /\ tlb' = tlb
       \/ /\ Mapped(PageOf(a)) /\ tlb' = Filled({PageOf(a)})
          /\ \E c : FaultAdded(c, d, tb) /\ (c = e \/ Emptied(c))

LEMMA InterruptFaultsIs ==
    ASSUME WellFormedProgram, TbInv, InterruptFaults
    PROVE  \E e, d, tb, a, rest : InterruptionFault(e, d, tb, a, rest)
<1>1. CacheOK(cache) /\ loc = "body" /\ bps \subseteq Pcs
  BY TbCacheAssumption DEF TbInv, InterruptFaults, ControlInv
<1>2. cur \in 1 .. Len(cache.tbs)
  BY <1>1, CurrentCount
<1>3. PICK a \in Pcs :
          LET tb == cache.tbs[cur]
              rest == left + Cardinality({x \in Pcs : a <= x /\ x < tb.pc + tb.size})
              dropped == tb_phys_invalidate(cache, cur)
          IN /\ tb.pc <= a /\ a < tb.pc + tb.size
             /\ \/ /\ ~Mapped(PageOf(a))
                   /\ cache' = Settled(dropped) /\ tlb' = tlb
                \/ /\ Mapped(PageOf(a)) /\ SpansUnmapped(a, rest)
                   /\ \E c \in tb_alloc(dropped) : cache' = Settled(WithFaulted(c, a, rest))
                   /\ tlb' = Filled({PageOf(a)})
             /\ left' = rest
  BY Zenon DEF InterruptFaults
<1>4. PICK old, S : old = cache.tbs[cur] /\ S = {x \in Pcs : a <= x /\ x < old.pc + old.size}
  OBVIOUS
<1>5. PICK rest, e : rest = left + Cardinality(S) /\ e = tb_phys_invalidate(cache, cur)
  OBVIOUS
<1>6. /\ old.pc <= a /\ a < old.pc + old.size /\ left' = rest
      /\ \/ cache' = Settled(e) /\ tlb' = tlb
         \/ /\ Mapped(PageOf(a)) /\ tlb' = Filled({PageOf(a)})
            /\ \E c \in tb_alloc(e) : cache' = Settled(WithFaulted(c, a, rest))
  BY <1>3, <1>4, <1>5, Zenon
<1>7. CacheOK(e) /\ Dropped(cache, e)
  BY <1>1, <1>2, <1>5, Invalidated
<1>8. rest \in 1 .. Quantum
  BY <1>1, <1>4, <1>5, <1>6, RestInRange
<1>9. CASE cache' = Settled(e) /\ tlb' = tlb
  BY <1>5, <1>6, <1>7, <1>8, <1>9 DEF InterruptionFault
<1>10. CASE /\ Mapped(PageOf(a)) /\ tlb' = Filled({PageOf(a)})
            /\ \E c \in tb_alloc(e) : cache' = Settled(WithFaulted(c, a, rest))
  <2>1. PICK c \in tb_alloc(e) : cache' = Settled(WithFaulted(c, a, rest))
    BY <1>10
  <2>2. PICK d : d = WithFaulted(c, a, rest)
    OBVIOUS
  <2>3. CacheOK(c) /\ Len(c.tbs) < c.max /\ (c = e \/ Emptied(c))
    BY <1>7, <2>1, AllocatedFor
  <2>4. PICK tb : FaultAdded(c, d, tb)
    BY <1>1, <1>8, <2>2, <2>3, FaultAddedIs
  <2>5. CacheOK(d)
    BY <2>4, FaultAddedOK
  <2> QED
    BY <1>5, <1>6, <1>7, <1>8, <1>10, <2>1, <2>2, <2>3, <2>4, <2>5 DEF InterruptionFault
<1> QED
  BY <1>6, <1>9, <1>10

LEMMA InterruptFaultsInv ==
    ASSUME WellFormedProgram, TbInv, InterruptFaults
    PROVE  TbInv'
<1>1. PICK e, d, tb, a, rest : InterruptionFault(e, d, tb, a, rest)
  BY InterruptFaultsIs
<1>2. CacheOK(cache) /\ ControlInv /\ TlbInv /\ vmap \in Maps /\ loc = "body"
  BY DEF TbInv, ControlInv, InterruptFaults
<1>3. PICK f : f = Settled(d)
  OBVIOUS
<1>4. /\ CacheOK(d) /\ cache' = f /\ rest \in 1 .. Quantum /\ left' = rest /\ Dropped(cache, e)
  BY <1>1, <1>3 DEF InterruptionFault
<1>5. CacheOK(f) /\ Fewer(d, f)
  BY <1>3, <1>4, SettledOK
<1>6. Len(f.tbs) \in Nat
  BY <1>5, CacheFields DEF CacheOK
<1>7. /\ loc' = "loop" /\ cur' = NoTb /\ next_tb' = NoExit /\ pc' = Vector
      /\ cacheOff' = cacheOff /\ chainOff' = chainOff /\ bps' = bps /\ vmap' = vmap /\ clean' = clean
  BY DEF InterruptFaults, switches
<1>8. rest \in 0 .. Quantum /\ Vector \in Pcs
  BY <1>4, TbCacheAssumption
<1>9. ControlInv'
  BY <1>2, <1>4, <1>6, <1>7, <1>8 DEF ControlInv, NoExit, NoTb
<1>10. TlbOK(f, vmap, tlb', clean)
  <2>1. CASE d = e /\ tlb' = tlb
    <3>1. \A p \in PPages : \A u \in f.pages[p] : u \in cache.pages[p]
      BY <1>4, <1>5, <2>1 DEF Dropped, Fewer
    <3> QED
      BY <1>2, <2>1, <3>1, FewerPages DEF TlbInv
  <2>2. CASE /\ Mapped(PageOf(a)) /\ tlb' = Filled({PageOf(a)})
             /\ \E c : FaultAdded(c, d, tb) /\ (c = e \/ Emptied(c))
    <3>1. PICK c : FaultAdded(c, d, tb) /\ (c = e \/ Emptied(c))
      BY <2>2
    <3>2. \A p \in PPages : \A u \in f.pages[p] : u \in cache.pages[p]
      BY <1>4, <1>5, <3>1 DEF Dropped, Fewer, FaultAdded, Emptied
    <3>3. \A p \in PPages : f.pages[p] # {} => p \in clean
      BY <1>2, <3>2 DEF TlbInv, TlbOK
    <3>4. PICK vs, entries : vs = {PageOf(a)} /\ entries = tlb'
      OBVIOUS
    <3>5. entries = Filled(vs) /\ \A v \in vs : Mapped(v)
      BY <2>2, <3>4
    <3>6. TlbOK(f, vmap, entries, clean)
      BY <1>2, <3>3, <3>5, FilledOK
    <3> QED
      BY <3>4, <3>6
  <2> QED
    BY <1>1, <2>1, <2>2 DEF InterruptionFault
<1>11. TlbInv'
  BY <1>4, <1>7, <1>10 DEF TlbInv
<1> QED
  BY <1>4, <1>5, <1>9, <1>11 DEF TbInv

\* What a write makes of the annotations.
OverwrittenTo(c, d, a, how) ==
    \A t \in 1 .. Len(c.tbs) :
        /\ d.tbs[t].dirty = c.tbs[t].dirty
        /\ d.tbs[t].code = IF c.tbs[t].code = "current" /\ Covers(c.tbs[t], a)
                           THEN IF InHash(c, t) THEN how ELSE "behind"
                           ELSE c.tbs[t].code

LEMMA OverwrittenOK ==
    ASSUME NEW c, CacheOK(c), NEW a, NEW how \in {"behind", "stale"}, NEW d, d = Overwritten(c, a, how)
    PROVE  /\ CacheOK(d) /\ Fewer(c, d) /\ SameInHash(c, d) /\ Annotated(c, d)
           /\ OverwrittenTo(c, d, a, how)
<1>1. c \in Caches
  BY DEF CacheOK
<1>2. Annotated(c, d) /\ OverwrittenTo(c, d, a, how)
  BY <1>1, OverwrittenIs DEF OverwrittenTo
<1> QED
  BY <1>2, AnnotatedIsFewer

MarkedTo(c, d, a) ==
    \A t \in 1 .. Len(c.tbs) :
        /\ d.tbs[t].code = c.tbs[t].code
        /\ d.tbs[t].dirty = (c.tbs[t].dirty \/ MarkHits(c, t, a))

LEMMA MarkDirtyOK ==
    ASSUME NEW c, CacheOK(c), NEW a, NEW d, d = MarkDirty(c, a)
    PROVE  CacheOK(d) /\ Fewer(c, d) /\ SameInHash(c, d) /\ Annotated(c, d) /\ MarkedTo(c, d, a)
<1>1. c \in Caches
  BY DEF CacheOK
<1>2. Annotated(c, d) /\ MarkedTo(c, d, a)
  BY <1>1, MarkDirtyIs DEF MarkedTo
<1> QED
  BY <1>2, AnnotatedIsFewer

\* The cache after a store of the guest.
StoredTo(w, a) ==
    /\ a \in StoreAddrs /\ Mapped(PageOf(a)) /\ tlb' = Filled({PageOf(a)})
    /\ w = Overwritten(cache, Phys(a), "stale")
    /\ cache' = IF tlb[PageOf(a)] = "plain" THEN w ELSE MarkDirty(w, Phys(a))

LEMMA GuestStoreIs ==
    ASSUME TbInv, GuestStore
    PROVE  \E w, a : StoredTo(w, a)
<1>1. cacheOff = FALSE
  BY DEF TbInv, ControlInv
<1>2. PICK a \in StoreAddrs :
          LET v == PageOf(a)
              direct == tlb[v] = "plain"
              written == Overwritten(cache, Phys(a), "stale")
          IN /\ Mapped(v)
             /\ tlb' = Filled({v})
             /\ cache' = IF direct \/ cacheOff THEN written ELSE MarkDirty(written, Phys(a))
  BY Zenon DEF GuestStore
<1>3. PICK w : w = Overwritten(cache, Phys(a), "stale")
  OBVIOUS
<1>4. cache' = IF tlb[PageOf(a)] = "plain" THEN w ELSE MarkDirty(w, Phys(a))
  BY <1>1, <1>2, <1>3
<1>5. StoredTo(w, a)
  BY <1>2, <1>3, <1>4 DEF StoredTo
<1> QED
  BY <1>5

LEMMA StoredOK ==
    ASSUME TbInv, NEW w, NEW a, StoredTo(w, a)
    PROVE  CacheOK(cache') /\ Fewer(cache, cache') /\ SameInHash(cache, cache') /\ Annotated(cache, cache')
<1>1. CacheOK(cache)
  BY DEF TbInv
<1>2. w = Overwritten(cache, Phys(a), "stale") /\ "stale" \in {"behind", "stale"}
  BY DEF StoredTo
<1>3. CacheOK(w) /\ Fewer(cache, w) /\ SameInHash(cache, w) /\ Annotated(cache, w)
  BY <1>1, <1>2, OverwrittenOK
<1>4. CASE tlb[PageOf(a)] = "plain"
  <2>1. cache' = w
    BY <1>4 DEF StoredTo
  <2> QED
    BY <1>3, <2>1
<1>5. CASE tlb[PageOf(a)] # "plain"
  <2>1. cache' = MarkDirty(w, Phys(a))
    BY <1>5 DEF StoredTo
  <2>2. CacheOK(cache') /\ Fewer(w, cache') /\ SameInHash(w, cache') /\ Annotated(w, cache')
    BY <1>3, <2>1, MarkDirtyOK
  <2>3. Fewer(cache, cache')
    BY <1>3, <2>2, FewerTransitive
  <2>4. SameInHash(cache, cache')
    BY <1>3, <2>2 DEF SameInHash
  <2>5. Annotated(cache, cache')
    BY <1>3, <2>2 DEF Annotated, SameBlock
  <2> QED
    BY <2>2, <2>3, <2>4, <2>5
<1> QED
  BY <1>4, <1>5

\* Steps that neither move control nor change the number of blocks.
LEMMA SameControl ==
    ASSUME ControlInv, CacheOK(cache), Fewer(cache, cache'), bps' \subseteq BpAddrs, vmap' \in Maps,
           cacheOff' = cacheOff, chainOff' \in BOOLEAN, UNCHANGED <<loc, pc, cur, next_tb, left>>
    PROVE  ControlInv'
<1>1. Len(cache'.tbs) = Len(cache.tbs)
  BY DEF Fewer
<1>2. loc = "body" => cache'.tbs[cur].icount = cache.tbs[cur].icount
  BY DEF Fewer, ControlInv, SameBlock
<1> QED
  BY <1>1, <1>2 DEF ControlInv

LEMMA GuestStoreInv ==
    ASSUME TbInv, GuestStore
    PROVE  TbInv'
<1>1. PICK w, a : StoredTo(w, a)
  BY GuestStoreIs
<1>2. CacheOK(cache') /\ Fewer(cache, cache') /\ Annotated(cache, cache')
  BY <1>1, StoredOK
<1>3. CacheOK(cache) /\ ControlInv /\ TlbInv
  BY DEF TbInv
<1>4. ControlInv'
  <2>1. bps' \subseteq BpAddrs /\ vmap' \in Maps /\ cacheOff' = cacheOff /\ chainOff' \in BOOLEAN
    BY <1>3 DEF GuestStore, switches, ControlInv
  <2> QED
    BY <1>2, <1>3, <2>1, SameControl DEF GuestStore
<1>5. TlbInv'
  <2>1. PICK vs, entries, c : vs = {PageOf(a)} /\ entries = tlb' /\ c = cache'
    OBVIOUS
  <2>2. entries = Filled(vs) /\ \A v \in vs : Mapped(v)
    BY <1>1, <2>1 DEF StoredTo
  <2>3. \A p \in PPages : c.pages[p] # {} => p \in clean
    BY <1>2, <1>3, <2>1 DEF Annotated, TlbInv, TlbOK
  <2>4. TlbOK(c, vmap, entries, clean)
    BY <1>3, <2>2, <2>3, FilledOK
  <2> QED
    BY <2>1, <2>4 DEF TlbInv, GuestStore
<1> QED
  BY <1>2, <1>4, <1>5 DEF TbInv

\* The cache after a write of the host.
HostWrittenTo(w, a, how) ==
    /\ a \in HostAddrs /\ how = (IF loc = "body" THEN "behind" ELSE "stale")
    /\ w = Overwritten(cache, a, how)
    /\ cache' = tb_invalidate_phys_page_range(w, a, a + 1)

LEMMA HostWriteIs ==
    ASSUME HostWrite
    PROVE  \E w, a, how : HostWrittenTo(w, a, how)
<1>1. PICK a \in HostAddrs :
          cache' = tb_invalidate_phys_page_range(
                       Overwritten(cache, a, IF loc = "body" THEN "behind" ELSE "stale"), a, a + 1)
  BY Zenon DEF HostWrite
<1>2. PICK how : how = IF loc = "body" THEN "behind" ELSE "stale"
  OBVIOUS
<1>3. PICK w : w = Overwritten(cache, a, how)
  OBVIOUS
<1>4. HostWrittenTo(w, a, how)
  BY <1>1, <1>2, <1>3, Zenon DEF HostWrittenTo
<1> QED
  BY <1>4

LEMMA HostWrittenOK ==
    ASSUME TbInv, NEW w, NEW a, NEW how, HostWrittenTo(w, a, how)
    PROVE  /\ CacheOK(w) /\ Fewer(cache, w) /\ SameInHash(cache, w) /\ Annotated(cache, w)
           /\ OverwrittenTo(cache, w, a, how) /\ CacheOK(cache') /\ Dropped(w, cache')
<1>1. CacheOK(cache)
  BY DEF TbInv
<1>2. how \in {"behind", "stale"} /\ w = Overwritten(cache, a, how)
  BY DEF HostWrittenTo
<1>3. /\ CacheOK(w) /\ Fewer(cache, w) /\ SameInHash(cache, w) /\ Annotated(cache, w)
      /\ OverwrittenTo(cache, w, a, how)
  BY <1>1, <1>2, OverwrittenOK
<1>4. PICK b : b = a + 1
  OBVIOUS
<1>5. cache' = tb_invalidate_phys_page_range(w, a, b)
  BY <1>4 DEF HostWrittenTo
<1>6. CacheOK(cache') /\ Dropped(w, cache')
  BY <1>3, <1>5, RangeInvalidated
<1> QED
  BY <1>3, <1>6

LEMMA HostWriteInv ==
    ASSUME TbInv, HostWrite
    PROVE  TbInv'
<1>1. PICK w, a, how : HostWrittenTo(w, a, how)
  BY HostWriteIs
<1>2. CacheOK(cache) /\ ControlInv /\ TlbInv
  BY DEF TbInv
<1>3. Fewer(cache, w) /\ CacheOK(cache') /\ Dropped(w, cache')
  BY <1>1, HostWrittenOK
<1>4. Fewer(cache, cache')
  BY <1>3, DroppedIsFewer, FewerTransitive
<1>5. TlbInv'
  BY <1>2, <1>4, FewerTlb DEF HostWrite, mmu
<1>6. bps' \subseteq BpAddrs /\ vmap' \in Maps /\ cacheOff' = cacheOff /\ chainOff' \in BOOLEAN
  BY <1>2 DEF HostWrite, switches, mmu, ControlInv
<1>7. ControlInv'
  BY <1>2, <1>4, <1>6, SameControl DEF HostWrite
<1> QED
  BY <1>3, <1>5, <1>7 DEF TbInv

LEMMA FlushPageInv ==
    ASSUME TbInv, tlb_flush_page
    PROVE  TbInv'
<1>1. CacheOK(cache) /\ ControlInv /\ TlbInv
  BY DEF TbInv
<1>2. PICK m \in Maps, v \in VPages :
          /\ m = [vmap EXCEPT ![v] = m[v]] /\ vmap' = m /\ tlb' = [tlb EXCEPT ![v] = "none"]
          /\ cache' = tlb_flush_jmp_cache(cache, v)
  BY DEF tlb_flush_page
<1>3. CacheOK(cache') /\ Dropped(cache, cache') /\ cache'.pages = cache.pages
  BY <1>1, <1>2, JmpCacheFlushed
<1>4. Fewer(cache, cache')
  BY <1>3, DroppedIsFewer
<1>5. bps' \subseteq BpAddrs /\ vmap' \in Maps /\ cacheOff' = cacheOff /\ chainOff' \in BOOLEAN
  BY <1>1, <1>2 DEF tlb_flush_page, switches, ControlInv
<1>6. ControlInv'
  BY <1>1, <1>4, <1>5, SameControl DEF tlb_flush_page
<1>7. TlbInv'
  <2>1. /\ tlb \in [VPages -> {"none", "plain", "notdirty"}] /\ clean \subseteq PPages
        /\ \A p \in PPages : cache.pages[p] # {} => p \in clean
        /\ \A x \in VPages : tlb[x] # "none" => vmap[x] # NoPage
        /\ \A x \in VPages : tlb[x] = "plain" => vmap[x] \notin clean
    BY <1>1 DEF TlbInv, TlbOK
  <2>2. vmap \in [VPages -> PPages \cup {NoPage}]
    BY <1>1, TbCacheAssumption DEF ControlInv
  <2>3. tlb' \in [VPages -> {"none", "plain", "notdirty"}] /\ tlb'[v] = "none"
    BY <1>2, <2>1
  <2>4. \A x \in VPages : x # v => vmap'[x] = vmap[x] /\ tlb'[x] = tlb[x]
    BY <1>2, <2>1, <2>2
  <2>5. \A x \in VPages : tlb'[x] # "none" => vmap'[x] # NoPage
    BY <2>1, <2>3, <2>4
  <2>6. \A x \in VPages : tlb'[x] = "plain" => vmap'[x] \notin clean
    BY <2>1, <2>3, <2>4
  <2>7. clean' = clean
    BY DEF tlb_flush_page
  <2> QED
    BY <1>3, <2>1, <2>3, <2>5, <2>6, <2>7 DEF TlbInv, TlbOK
<1> QED
  BY <1>3, <1>6, <1>7 DEF TbInv

LEMMA ExecuteInv ==
    ASSUME TbInv, tlib_execute
    PROVE  TbInv'
<1>1. CacheOK(cache) /\ ControlInv /\ TlbInv
  BY DEF TbInv
<1>2. cache' = Settled(cache)
  BY DEF tlib_execute
<1>3. CacheOK(cache') /\ Fewer(cache, cache')
  BY <1>1, <1>2, SettledOK
<1>4. TlbInv'
  BY <1>1, <1>3, FewerTlb DEF tlib_execute, mmu
<1>5. cache' \in Caches /\ Len(cache'.tbs) \in Nat
  BY <1>3, CacheFields DEF CacheOK
<1>6. ControlInv'
  BY <1>1, <1>5 DEF tlib_execute, ControlInv, switches, mmu, NoExit, NoTb
<1> QED
  BY <1>3, <1>4, <1>6 DEF TbInv

LEMMA ExpireInv ==
    ASSUME TbInv, Expire
    PROVE  TbInv'
<1>1. CacheOK(cache) /\ ControlInv /\ TlbInv
  BY DEF TbInv
<1>2. cache \in Caches /\ Len(cache.tbs) \in Nat
  BY <1>1, CacheFields DEF CacheOK
<1>3. cache' = cache /\ UNCHANGED <<vmap, tlb, clean>>
  BY DEF Expire, mmu
<1>4. ControlInv'
  BY <1>1, <1>2, <1>3 DEF Expire, ControlInv, switches, mmu, NoExit, NoTb
<1> QED
  BY <1>1, <1>3, <1>4 DEF TbInv, TlbInv

\* The breakpoint is set or removed, and the blocks at its address are dropped.
BreakpointStep(a) ==
    /\ a \in BpAddrs /\ a \in Nat /\ cache' = breakpoint_invalidate(cache, a)
    /\ bps' \in {bps \cup {a}, bps \ {a}} /\ loc = "host"
    /\ UNCHANGED <<cacheOff, chainOff, vmap, tlb, clean, loc, pc, cur, next_tb, left, tries>>

LEMMA BreakpointIs ==
    ASSUME ControlInv, cpu_breakpoint_insert \/ cpu_breakpoint_remove
    PROVE  \E a : BreakpointStep(a)
<1>1. \A a \in BpAddrs : a \in Nat
  BY TbCacheAssumption
<1>2. CASE cpu_breakpoint_insert
  <2>1. PICK a \in BpAddrs \ bps : bps' = bps \cup {a} /\ cache' = breakpoint_invalidate(cache, a)
    BY <1>2 DEF cpu_breakpoint_insert
  <2>2. BreakpointStep(a)
    BY <1>1, <1>2, <2>1 DEF cpu_breakpoint_insert, BreakpointStep, mmu
  <2> QED
    BY <2>2
<1>3. CASE cpu_breakpoint_remove
  <2>1. PICK a \in bps : bps' = bps \ {a} /\ cache' = breakpoint_invalidate(cache, a)
    BY <1>3 DEF cpu_breakpoint_remove
  <2>2. BreakpointStep(a)
    BY <1>1, <1>3, <2>1 DEF cpu_breakpoint_remove, BreakpointStep, mmu, ControlInv
  <2> QED
    BY <2>2
<1> QED
  BY <1>2, <1>3

LEMMA BreakpointInv ==
    ASSUME TbInv, cpu_breakpoint_insert \/ cpu_breakpoint_remove
    PROVE  TbInv'
<1>1. CacheOK(cache) /\ ControlInv /\ TlbInv
  BY DEF TbInv
<1>2. PICK a : BreakpointStep(a)
  BY <1>1, BreakpointIs
<1>3. a \in Nat /\ a \in BpAddrs /\ cache' = breakpoint_invalidate(cache, a)
  BY <1>2 DEF BreakpointStep
<1>4. CacheOK(cache') /\ Dropped(cache, cache')
  BY <1>1, <1>3, BreakpointInvalidated
<1>5. Fewer(cache, cache')
  BY <1>4, DroppedIsFewer
<1>6. TlbInv'
  BY <1>1, <1>2, <1>5, FewerTlb DEF BreakpointStep
<1>7. bps' \subseteq BpAddrs /\ vmap' \in Maps /\ cacheOff' = cacheOff /\ chainOff' \in BOOLEAN
  BY <1>1, <1>2, <1>3 DEF BreakpointStep, ControlInv
<1>8. ControlInv'
  BY <1>1, <1>2, <1>5, <1>7, SameControl DEF BreakpointStep
<1> QED
  BY <1>4, <1>6, <1>8 DEF TbInv

LEMMA FlushInv ==
    ASSUME TbInv, tlib_invalidate_translation_cache
    PROVE  TbInv'
<1>1. CacheOK(cache) /\ ControlInv /\ TlbInv /\ loc = "host"
  BY DEF TbInv, tlib_invalidate_translation_cache
<1>2. cache' = tb_flush(cache)
  BY DEF tlib_invalidate_translation_cache
<1>3. CacheOK(cache') /\ Emptied(cache')
  BY <1>1, <1>2, Flushed
<1>4. PICK c : c = cache'
  OBVIOUS
<1>5. \A p \in PPages : \A t \in c.pages[p] : t \in cache.pages[p]
  BY <1>3, <1>4 DEF Emptied
<1>6. TlbOK(c, vmap, tlb, clean)
  BY <1>1, <1>5, FewerPages
<1>7. TlbInv'
  BY <1>4, <1>6 DEF TlbInv, tlib_invalidate_translation_cache, mmu
<1>8. Len(cache'.tbs) = 0
  BY <1>3 DEF Emptied
<1>9. ControlInv'
  BY <1>1, <1>8 DEF tlib_invalidate_translation_cache, ControlInv, switches, mmu, NoExit, NoTb
<1> QED
  BY <1>3, <1>7, <1>9 DEF TbInv

LEMMA ToggleInv ==
    ASSUME TbInv, tlib_set_chaining_enabled
    PROVE  TbInv'
<1>1. CacheOK(cache) /\ ControlInv /\ TlbInv
  BY DEF TbInv
<1>2. cache' = cache /\ UNCHANGED <<vmap, tlb, clean>>
  BY DEF tlib_set_chaining_enabled, mmu
<1>3. ControlInv'
  BY <1>1, <1>2 DEF ControlInv, tlib_set_chaining_enabled, mmu
<1> QED
  BY <1>1, <1>2, <1>3 DEF TbInv, TlbInv

-----------------------------------------------------------------------------
(* The theorems *)

LEMMA TbInvInit ==
    ASSUME TbInit
    PROVE  TbInv
<1>1. MinBlocks \in MinBlocks .. MaxBlocks
  BY TbCacheAssumption
<1>2. PICK d \in Caches : /\ d = EmptyCache(MinBlocks) /\ d.tbs = <<>>
                          /\ d.hash = [b \in 0 .. Buckets - 1 |-> <<>>]
                          /\ d.pages = [p \in PPages |-> {}] /\ d.jc = [a \in Pcs |-> NoTb]
  BY <1>1, EmptyFields
<1>3. CacheOK(cache) /\ Emptied(cache)
  BY <1>2, EmptyOK DEF TbInit
<1>4. ControlInv
  <2>1. Len(cache.tbs) = 0
    BY <1>3 DEF Emptied
  <2>2. /\ cacheOff = FALSE /\ chainOff = FALSE /\ bps = {} /\ vmap \in Maps /\ loc = "host"
        /\ pc = Vector /\ cur = NoTb /\ next_tb = NoExit /\ left = 0
    BY DEF TbInit
  <2>3. Vector \in Pcs /\ Quantum \in Nat
    BY TbCacheAssumption
  <2>4. next_tb[1] = 0 /\ next_tb[2] = 0 /\ next_tb = <<0, 0>>
    BY <2>2 DEF NoExit, NoTb
  <2>50. chainOff \in BOOLEAN
    BY <2>2, Zenon
  <2>5. bps \subseteq BpAddrs /\ pc \in Pcs /\ left \in 0 .. Quantum
    BY <2>2, <2>3
  <2>6. /\ next_tb[1] \in 0 .. Len(cache.tbs) /\ next_tb[2] \in 0 .. 1
        /\ next_tb = <<next_tb[1], next_tb[2]>>
    BY <2>1, <2>4
  <2> QED
    BY <2>2, <2>5, <2>50, <2>6 DEF ControlInv
<1>5. TlbInv
  BY <1>3 DEF TlbInv, TlbOK, TbInit, Emptied
<1> QED
  BY <1>3, <1>4, <1>5 DEF TbInv

LEMMA TbInvStep ==
    ASSUME WellFormedProgram, TbInv, [TbNext]_vars
    PROVE  TbInv'
<1>1. CASE Lookup
  BY <1>1, FastInv, LookupFaultsInv, SlowInv, NotFoundInv, GenCodeFaultsInv DEF Lookup
<1>2. CASE Running
  BY <1>2, HeaderRestartInv, HeaderRunInv, LeaveBlockInv, LeaveIndirectInv, LeaveByBreakpointInv,
     InterruptInv, InterruptFaultsInv, GuestStoreInv, FlushPageInv DEF Running
<1>3. CASE Host
  BY <1>3, ExecuteInv, HostWriteInv, BreakpointInv, FlushInv, ToggleInv DEF Host
<1>4. CASE Expire
  BY <1>4, ExpireInv
<1>5. CASE UNCHANGED vars
  BY <1>5 DEF vars, switches, mmu, TbInv, ControlInv, TlbInv
<1> QED
  BY <1>1, <1>2, <1>3, <1>4, <1>5 DEF TbNext

LEMMA TbInvariant == TbSpec => []TbInv
<1>1. TbInit => TbInv
  BY TbInvInit
<1>2. TbInv /\ [TbNext]_vars => TbInv'
  BY TbInvStep, ProgramAssumption
<1> QED
  BY <1>1, <1>2, PTL DEF TbSpec

LEMMA TypesFollow ==
    ASSUME TbInv
    PROVE  TbTypeOK
<1>1. CacheOK(cache) /\ cache \in Caches /\ ControlInv /\ TlbInv
  BY DEF TbInv, CacheOK
<1>2. /\ Len(cache.tbs) \in Nat /\ Len(cache.tbs) <= cache.max /\ DOMAIN cache.tbs = 1 .. Len(cache.tbs)
      /\ cache.max \in MinBlocks .. MaxBlocks /\ cache.invalidated \in BOOLEAN
  BY <1>1, CacheFields DEF CacheOK
<1>3. /\ \A i \in 0 .. Len(cache.tbs) : i \in TbIndex
      /\ \A i \in 1 .. Len(cache.tbs) : i \in TbIndex
  BY <1>2, TbCacheAssumption DEF TbIndex
<1>4. ASSUME NEW t \in DOMAIN cache.tbs
      PROVE  LET tb == cache.tbs[t]
             IN /\ tb.pc \in Pcs /\ tb.size \in Nat /\ tb.icount \in 0 .. Quantum
                /\ tb.p0 \in PPages \cup {0} /\ tb.p1 \in PPages \cup {0, NoPage}
                /\ tb.code \in {"current", "behind", "stale"} /\ tb.dirty \in BOOLEAN
                /\ tb.jmp \in [0 .. 1 -> TbIndex] /\ tb.inc \subseteq TbIndex \X (0 .. 1)
  <2>1. t \in 1 .. Len(cache.tbs)
    BY <1>2
  <2>2. PICK tb \in Blocks : tb = cache.tbs[t]
    BY <1>1, <2>1, CacheFields
  <2>3. /\ \A n \in 0 .. 1 : tb.jmp[n] \in 0 .. Len(cache.tbs)
        /\ \A x \in tb.inc : x \in (1 .. Len(cache.tbs)) \X (0 .. 1)
    BY <1>1, <2>1, <2>2 DEF CacheOK, Jumps
  <2>4. /\ tb.pc \in Pcs /\ tb.size \in Nat /\ tb.icount \in 0 .. Quantum
        /\ tb.p0 \in PPages \cup {0} /\ tb.p1 \in PPages \cup {0, NoPage}
        /\ tb.code \in {"current", "behind", "stale"} /\ tb.dirty \in BOOLEAN
        /\ tb.jmp \in [0 .. 1 -> Nat]
    BY <2>2, BlockFields DEF Codes
  <2>5. tb.jmp \in [0 .. 1 -> TbIndex]
    BY <1>3, <2>3, <2>4
  <2>6. tb.inc \subseteq TbIndex \X (0 .. 1)
    BY <1>3, <2>3
  <2> QED
    BY <2>2, <2>4, <2>5, <2>6
<1>5. cache.jc \in [Pcs -> 0 .. Len(cache.tbs)]
  <2>1. cache.jc \in [Pcs -> Nat]
    BY <1>1, CacheFields
  <2>2. \A a \in Pcs : cache.jc[a] # NoTb => cache.jc[a] \in 1 .. Len(cache.tbs)
    BY <1>1, HashOf DEF CacheOK, JumpCache
  <2>3. \A a \in Pcs : cache.jc[a] \in 0 .. Len(cache.tbs)
    BY <1>2, <2>1, <2>2 DEF NoTb
  <2> QED
    BY <2>1, <2>3
<1>6. cache.hash \in [0 .. Buckets - 1 -> Seq(DOMAIN cache.tbs)]
  <2>1. cache.hash \in [0 .. Buckets - 1 -> Seq(Nat)]
    BY <1>1, CacheFields
  <2>2. ASSUME NEW b \in 0 .. Buckets - 1
        PROVE  cache.hash[b] \in Seq(DOMAIN cache.tbs)
    <3>1. PICK s \in Seq(Nat) : s = cache.hash[b]
      BY <2>1
    <3>2. ASSUME NEW i \in 1 .. Len(s)
          PROVE  s[i] \in DOMAIN cache.tbs
      <4>1. Contains(s, s[i])
        BY DEF Contains
      <4> QED
        BY <1>1, <1>2, <3>1, <4>1 DEF CacheOK, Chains
    <3>3. s \in [1 .. Len(s) -> DOMAIN cache.tbs] /\ Len(s) \in Nat
      BY <3>2
    <3>4. s \in Seq(DOMAIN cache.tbs)
      BY <3>3, FunctionIsSeq
    <3> QED
      BY <3>1, <3>4
  <2> QED
    BY <2>1, <2>2
<1>7. cache.pages \in [PPages -> SUBSET DOMAIN cache.tbs]
  <2>1. cache.pages \in [PPages -> SUBSET Nat]
    BY <1>1, CacheFields
  <2>2. \A p \in PPages : \A t \in cache.pages[p] : t \in DOMAIN cache.tbs
    BY <1>1, <1>2 DEF CacheOK, PageLists
  <2> QED
    BY <2>1, <2>2
<1>8. cur \in TbIndex /\ next_tb \in TbIndex \X (0 .. 1)
  <2>1. cur \in 1 .. Len(cache.tbs) \/ cur = 0
    BY <1>1 DEF ControlInv, NoTb
  <2>2. cur \in TbIndex
    BY <1>2, <1>3, <2>1
  <2>3. next_tb[1] \in TbIndex /\ next_tb[2] \in 0 .. 1 /\ next_tb = <<next_tb[1], next_tb[2]>>
    BY <1>1, <1>3 DEF ControlInv
  <2> QED
    BY <2>2, <2>3
<1>9. /\ cacheOff \in BOOLEAN /\ chainOff \in BOOLEAN
  <2>1. cacheOff = FALSE /\ chainOff \in BOOLEAN
    BY <1>1 DEF ControlInv
  <2> QED
    BY <2>1, Zenon
<1>10. /\ bps \subseteq BpAddrs /\ vmap \in Maps /\ loc \in {"host", "loop", "header", "body"}
       /\ pc \in Nat /\ left \in 0 .. Quantum
  BY <1>1, TbCacheAssumption DEF ControlInv
<1>11. clean \subseteq PPages /\ tlb \in [VPages -> {"none", "plain", "notdirty"}]
  BY <1>1 DEF TlbInv, TlbOK
<1> QED
  BY <1>2, <1>4, <1>5, <1>6, <1>7, <1>8, <1>9, <1>10, <1>11 DEF TbTypeOK

\* Every block, every list and every jump stays within the blocks of the buffer,
\* for buffers and programs of any size: tb_alloc hands out no slot behind
\* code_gen_max_blocks, and what is left of a flush or of an invalidation refers to
\* no slot that is not in use.
THEOREM TbTypes == TbSpec => []TbTypeOK
<1>1. TbInv => TbTypeOK
  BY TypesFollow
<1> QED
  BY <1>1, TbInvariant, PTL

LEMMA NoWayFollows ==
    ASSUME TbInv
    PROVE  NoWayToDroppedBlocks
<1>1. CacheOK(cache) /\ cache \in Caches
  BY DEF TbInv, CacheOK
<1>2. DOMAIN cache.tbs = 1 .. Len(cache.tbs) /\ Len(cache.tbs) \in Nat
  BY <1>1, CacheFields
<1>3. ASSUME NEW t \in 1 .. Len(cache.tbs), InHash(cache, t)
      PROVE  /\ \A p \in {cache.tbs[t].p0, cache.tbs[t].p1} \ {NoPage} : t \in cache.pages[p]
             /\ \A n \in 0 .. 1 : cache.tbs[t].jmp[n] # NoTb => InHash(cache, cache.tbs[t].jmp[n])
  <2>1. \A p \in PagesOf(cache.tbs[t]) : t \in cache.pages[p]
    BY <1>1, <1>3 DEF CacheOK, PageLists
  <2>2. \A n \in 0 .. 1 : cache.tbs[t].jmp[n] # NoTb => InHash(cache, cache.tbs[t].jmp[n])
    BY <1>1, <1>3 DEF CacheOK, Jumps
  <2> QED
    BY <2>1, <2>2 DEF PagesOf
<1>4. ASSUME NEW t \in 1 .. Len(cache.tbs), ~InHash(cache, t)
      PROVE  /\ \A p \in PPages : t \notin cache.pages[p]
             /\ \A a \in Pcs : cache.jc[a] # t
  <2>1. \A p \in PPages : t \notin cache.pages[p]
    BY <1>1, <1>4 DEF CacheOK, PageLists
  <2>2. \A a \in Pcs : cache.jc[a] # t
    BY <1>1, <1>2, <1>4 DEF CacheOK, JumpCache, NoTb
  <2> QED
    BY <2>1, <2>2
<1> QED
  BY <1>2, <1>3, <1>4 DEF NoWayToDroppedBlocks

\* A block leaves its chain, the lists of its pages and the jump cache together, and
\* the jumps to it are taken back: what tb_phys_invalidate, tb_flush, tb_alloc and
\* the lookups do to a cache never leaves a way to a dropped block, whatever the
\* order in which blocks were translated, chained and dropped.
THEOREM DroppedBlocks == TbSpec => []NoWayToDroppedBlocks
<1>1. TbInv => NoWayToDroppedBlocks
  BY NoWayFollows
<1> QED
  BY <1>1, TbInvariant, PTL

LEMMA StoresFollow ==
    ASSUME TbInv
    PROVE  StoresToCodeAreSeen
<1>1. ControlInv /\ TlbInv /\ vmap \in [VPages -> PPages \cup {NoPage}]
  BY TbCacheAssumption DEF TbInv, ControlInv
<1>2. ASSUME NEW v \in VPages, tlb[v] = "plain"
      PROVE  cache.pages[vmap[v]] = {}
  <2>1. vmap[v] \in PPages /\ vmap[v] \notin clean
    BY <1>1, <1>2 DEF TlbInv, TlbOK
  <2> QED
    BY <1>1, <2>1 DEF TlbInv, TlbOK
<1> QED
  BY <1>2 DEF StoresToCodeAreSeen

\* No store of the guest to a page with blocks bypasses the helper, for any page
\* tables and whatever the order in which entries are filled, pages get blocks and
\* lose them, and mappings change.
THEOREM StoresSeen == TbSpec => []StoresToCodeAreSeen
<1>1. TbInv => StoresToCodeAreSeen
  BY StoresFollow
<1> QED
  BY <1>1, TbInvariant, PTL

-----------------------------------------------------------------------------
(* The refusals of the headers *)

\* The blocks that a header may still send back to the loop.
Refusable(c, k) == {t \in 1 .. Len(c.tbs) : InHash(c, t) /\ c.tbs[t].dirty /\ c.tbs[t].icount <= k}

\* Every refusal after the first is of a block that was found in a chain, is dirty and
\* not too long, and is dropped: there is one fewer of them each time.
TriesInv ==
    /\ tries \in Nat /\ tries + Cardinality(Refusable(cache, left)) <= MaxBlocks
    /\ loc \in {"host", "body"} => tries = 0
    /\ loc = "header" => tries = 0 \/ (InHash(cache, cur) /\ cache.tbs[cur].icount <= left)
    /\ tries > 0 => left > 0

LEMMA RefusableBound ==
    ASSUME NEW c, CacheOK(c), NEW k
    PROVE  /\ IsFiniteSet(Refusable(c, k)) /\ Cardinality(Refusable(c, k)) \in Nat
           /\ Cardinality(Refusable(c, k)) <= MaxBlocks
           /\ \A u \in 1 .. Len(c.tbs) : u \notin Refusable(c, k) => Cardinality(Refusable(c, k)) < MaxBlocks
<1>1. c \in Caches /\ Len(c.tbs) <= c.max
  BY DEF CacheOK
<1>2. Len(c.tbs) \in Nat /\ c.max \in MinBlocks .. MaxBlocks
  BY <1>1, CacheFields
<1>3. PICK S, n : S = Refusable(c, k) /\ n = Len(c.tbs)
  OBVIOUS
<1>4. n \in Nat /\ n <= MaxBlocks /\ MaxBlocks \in Nat
  BY <1>1, <1>2, <1>3, TbCacheAssumption
<1>5. S \subseteq 1 .. n
  BY <1>3 DEF Refusable
<1>6. IsFiniteSet(1 .. n) /\ Cardinality(1 .. n) = n
  BY <1>4, FS_Interval
<1>7. IsFiniteSet(S) /\ Cardinality(S) <= n /\ Cardinality(S) \in Nat
  BY <1>5, <1>6, FS_Subset, FS_CardinalityType
<1>8. ASSUME NEW u \in 1 .. n, u \notin S
      PROVE  Cardinality(S) < MaxBlocks
  <2>1. IsFiniteSet(1 .. n) /\ S \subseteq 1 .. n /\ S # 1 .. n
    BY <1>5, <1>6, <1>8
  <2>2. Cardinality(S) = Cardinality(1 .. n) => S = 1 .. n
    BY <1>5, <1>6, FS_Subset
  <2> QED
    BY <1>4, <1>6, <1>7, <2>1, <2>2
<1> QED
  BY <1>3, <1>4, <1>7, <1>8

LEMMA RefusableMono ==
    ASSUME NEW c, CacheOK(c), NEW d, NEW k, \A t \in Refusable(d, k) : t \in Refusable(c, k)
    PROVE  Cardinality(Refusable(d, k)) \in Nat /\ Cardinality(Refusable(d, k)) <= Cardinality(Refusable(c, k))
<1>1. IsFiniteSet(Refusable(c, k))
  BY RefusableBound
<1>2. Refusable(d, k) \subseteq Refusable(c, k)
  OBVIOUS
<1>3. /\ IsFiniteSet(Refusable(d, k))
      /\ Cardinality(Refusable(d, k)) <= Cardinality(Refusable(c, k))
  BY <1>1, <1>2, FS_Subset
<1> QED
  BY <1>3, FS_CardinalityType

\* Without a refusal before, nothing has to be shown of the blocks.
LEMMA NoTries ==
    ASSUME TbInv', tries' = 0
    PROVE  TriesInv'
<1>1. PICK c, k : c = cache' /\ k = left'
  OBVIOUS
<1>2. CacheOK(c)
  BY <1>1 DEF TbInv
<1>3. Cardinality(Refusable(c, k)) \in Nat /\ Cardinality(Refusable(c, k)) <= MaxBlocks
  BY <1>2, RefusableBound
<1>4. tries' + Cardinality(Refusable(c, k)) <= MaxBlocks
  BY <1>3
<1> QED
  BY <1>1, <1>4 DEF TriesInv

\* A lookup refuses nothing.
LEMMA LookupTries ==
    ASSUME TbInv, TriesInv, TbInv', tries' = tries, left' = left, loc = "loop",
           \A t \in Refusable(cache', left) : t \in Refusable(cache, left),
           loc' = "loop" \/ (loc' = "header" /\ InHash(cache', cur') /\ cache'.tbs[cur'].icount <= left)
    PROVE  TriesInv'
<1>1. PICK d, n, m : d = cache' /\ n = Cardinality(Refusable(cache, left)) /\ m = Cardinality(Refusable(d, left))
  OBVIOUS
<1>2. CacheOK(cache)
  BY DEF TbInv
<1>3. m \in Nat /\ m <= n
  BY <1>1, <1>2, RefusableMono
<1>4. n \in Nat
  BY <1>1, <1>2, RefusableBound
<1>5. tries \in Nat /\ tries + n <= MaxBlocks /\ (tries > 0 => left > 0)
  BY <1>1 DEF TriesInv
<1>6. tries + m <= MaxBlocks
  BY <1>3, <1>4, <1>5, TbCacheAssumption
<1> QED
  BY <1>1, <1>5, <1>6 DEF TriesInv

LEMMA EnterTries ==
    ASSUME TbInv, TriesInv, TbInv', loc = "loop", NEW c, NEW t, Entering(c, t),
           c.tbs[t].icount <= left, \A u \in Refusable(c, left) : u \in Refusable(cache, left)
    PROVE  TriesInv'
<1>1. \A u \in Refusable(cache', left) : u \in Refusable(c, left)
  BY DEF Refusable, Entering, EnteredFrom, SameInHash, SameBlock
<1>2. cur' = t /\ loc' = "header" /\ tries' = tries /\ left' = left
  BY DEF Entering, Enter
<1>3. InHash(cache', t) /\ cache'.tbs[t].icount <= left
  BY DEF Entering, EnteredFrom, SameInHash, SameBlock
<1> QED
  BY <1>1, <1>2, <1>3, LookupTries

LEMMA LookupKeepsTries ==
    ASSUME WellFormedProgram, TbInv, TriesInv, TbInv', Lookup
    PROVE  TriesInv'
<1>1. CASE tb_find_fast
  <2>1. PICK t : FastEntry(t)
    BY <1>1, FastIs
  <2>2. loc = "loop" /\ Entering(cache, t) /\ cache.tbs[t].icount <= left
    BY <1>1, <2>1 DEF tb_find_fast, Looking, FastEntry
  <2> QED
    BY <2>2, EnterTries
<1>2. CASE LookupFaults
  <2>1. PICK c : c = [cache EXCEPT !.invalidated = FALSE]
    OBVIOUS
  <2>2. Unflagged(cache, c)
    BY <2>1, FlagReset DEF TbInv
  <2>3. loc = "loop" /\ FetchFault(c)
    BY <1>2, <2>1 DEF LookupFaults, Looking
  <2>4. \A t \in Refusable(c, left) : t \in Refusable(cache, left)
    BY <2>2 DEF Refusable, Unflagged, InHash
  <2>5. cache' = c /\ loc' = "loop" /\ tries' = tries /\ left' = left
    BY <2>3 DEF FetchFault
  <2> QED
    BY <2>3, <2>4, <2>5, LookupTries
<1>3. CASE tb_find_slow
  <2>1. PICK d, t, k : SlowEntry(d, t, k)
    BY <1>3, SlowIs
  <2>2. loc = "loop" /\ Entering(d, t) /\ d.tbs = cache.tbs /\ SameInHash(cache, d)
    BY <1>3, <2>1 DEF tb_find_slow, Looking, SlowEntry
  <2>3. d.tbs[t].icount <= left
    BY <2>1, <2>2 DEF SlowEntry, Found, Fits
  <2>4. \A u \in Refusable(d, left) : u \in Refusable(cache, left)
    BY <2>2 DEF Refusable, SameInHash
  <2> QED
    BY <2>2, <2>3, <2>4, EnterTries
<1>4. CASE tb_find_slow_not_found
  <2>1. PICK c, d, tb : Translation(c, d, tb)
    BY <1>4, NotFoundIs
  <2>2. PICK t : t = Len(c.tbs) + 1
    OBVIOUS
  <2>3. loc = "loop" /\ Entering(d, t)
    BY <1>4, <2>1, <2>2, NotFoundEnters DEF tb_find_slow_not_found, Looking
  <2>4. /\ BlockAdded(c, d, tb) /\ IsNewBlock(tb, pc, left)
        /\ (Unflagged(cache, c) \/ Emptied(c)) /\ CacheOK(c)
    BY <2>1 DEF Translation
  <2>5. d.tbs[t] = tb /\ tb.icount <= left /\ tb.dirty = FALSE /\ Len(d.tbs) = t /\ Len(c.tbs) \in Nat
    BY <2>2, <2>4, CacheFields DEF BlockAdded, IsNewBlock, CacheOK
  <2>6. ASSUME NEW u \in Refusable(d, left)
        PROVE  u \in Refusable(cache, left)
    <3>1. u \in 1 .. Len(d.tbs) /\ d.tbs[u].dirty /\ u # t /\ InHash(d, u) /\ d.tbs[u].icount <= left
      BY <2>5 DEF Refusable
    <3>2. u \in 1 .. Len(c.tbs)
      BY <2>2, <2>5, <3>1
    <3>3. d.tbs[u] = c.tbs[u] /\ InHash(c, u)
      BY <2>2, <2>4, <3>1, <3>2 DEF BlockAdded
    <3>4. ~Emptied(c)
      BY <3>2 DEF Emptied
    <3> QED
      BY <2>4, <3>1, <3>2, <3>3, <3>4 DEF Unflagged, Refusable, InHash
  <2> QED
    BY <2>3, <2>5, <2>6, EnterTries
<1>5. CASE tb_gen_code_faults
  <2>1. PICK c, d, tb : GenCodeFault(c, d, tb)
    BY <1>5, GenCodeFaultsIs
  <2>2. loc = "loop" /\ FetchFault(d)
    BY <1>5, <2>1 DEF tb_gen_code_faults, Looking, GenCodeFault
  <2>3. /\ CacheOK(c) /\ (Unflagged(cache, c) \/ Emptied(c)) /\ tb.dirty = FALSE
        /\ FaultAdded(c, d, tb)
    BY <2>1 DEF GenCodeFault, FaultAdded
  <2>4. /\ Len(d.tbs) = Len(c.tbs) + 1 /\ d.tbs[Len(c.tbs) + 1] = tb
        /\ (\A u \in 1 .. Len(c.tbs) : d.tbs[u] = c.tbs[u])
        /\ (\A u : InHash(d, u) <=> InHash(c, u)) /\ Len(c.tbs) \in Nat
    BY <2>3, FaultAddedOK
  <2>6. ASSUME NEW u \in Refusable(d, left)
        PROVE  u \in Refusable(cache, left)
    <3>1. u \in 1 .. Len(d.tbs) /\ d.tbs[u].dirty /\ InHash(d, u) /\ d.tbs[u].icount <= left
      BY DEF Refusable
    <3>2. u \in 1 .. Len(c.tbs)
      BY <2>3, <2>4, <3>1
    <3>3. d.tbs[u] = c.tbs[u] /\ InHash(c, u)
      BY <2>4, <3>1, <3>2
    <3>4. ~Emptied(c)
      BY <3>2 DEF Emptied
    <3> QED
      BY <2>3, <3>1, <3>2, <3>3, <3>4 DEF Unflagged, Refusable, InHash
  <2>7. cache' = d /\ loc' = "loop" /\ tries' = tries /\ left' = left
    BY <2>2 DEF FetchFault
  <2> QED
    BY <2>2, <2>6, <2>7, LookupTries
<1> QED
  BY <1>1, <1>2, <1>3, <1>4, <1>5 DEF Lookup

\* A block that is refused is no longer to be found, or it came over a patched jump.
LEMMA RestartTries ==
    ASSUME TbInv, TriesInv, TbInv', HeaderRestart
    PROVE  TriesInv'
<1>1. CacheOK(cache) /\ loc = "header" /\ loc' = "loop" /\ left' = left
  BY DEF TbInv, HeaderRestart
<1>2. /\ cur \in 1 .. Len(cache.tbs) /\ left \in Nat /\ cache.tbs[cur].icount \in Nat
      /\ Len(cache.tbs) \in Nat
  BY <1>1, CurrentCount
<1>3. CASE left = 0
  BY <1>3, NoTries DEF HeaderRestart
<1>4. CASE left # 0
  <2>1. PICK e, d : e = HeaderCache(cache, cur) /\ d = cache'
    OBVIOUS
  <2>2. d = Settled(e)
    BY <2>1, Zenon DEF HeaderRestart, HeaderCache
  <2>3. CacheOK(e) /\ Dropped(cache, e)
    BY <1>1, <1>2, <2>1, HeaderCacheOK
  <2>4. CacheOK(d) /\ SameInHash(e, d) /\ Fewer(e, d) /\ SettledTo(e, d)
    BY <2>2, <2>3, SettledOK
  <2>5. \A t \in Refusable(d, left) : t \in Refusable(e, left)
    BY <2>4 DEF Refusable, SameInHash, Fewer, SettledTo, SameBlock
  <2>6. \A t \in Refusable(e, left) : t \in Refusable(cache, left)
    BY <2>3 DEF Refusable, Dropped, SameBlock
  <2>7. PICK n, m : n = Cardinality(Refusable(cache, left)) /\ m = Cardinality(Refusable(d, left))
    OBVIOUS
  <2>8. n \in Nat /\ m \in Nat
    BY <1>1, <2>4, <2>7, RefusableBound
  <2>9. tries \in Nat /\ tries + n <= MaxBlocks /\ tries' = tries + 1 /\ MaxBlocks \in Nat
    BY <1>4, <2>7, TbCacheAssumption DEF TriesInv, HeaderRestart
  <2>10. cur \in 1 .. Len(d.tbs)
    BY <1>2, <2>3, <2>4 DEF Dropped, Fewer
  <2>11. cur \notin Refusable(d, left)
    <3>1. CASE cache.tbs[cur].icount > left
      <4>1. ~(d.tbs[cur].icount <= left)
        BY <1>2, <2>3, <2>4, <3>1 DEF Dropped, Fewer, SameBlock
      <4> QED
        BY <4>1 DEF Refusable
    <3>2. CASE ~(cache.tbs[cur].icount > left)
      <4>1. \A u : InHash(e, u) <=> InHash(cache, u) /\ u # cur
        BY <1>1, <1>2, <1>4, <2>1, <3>2, HeaderCacheOK
      <4> QED
        BY <2>4, <4>1 DEF Refusable, SameInHash
    <3> QED
      BY <3>1, <3>2
  <2>12. CASE cur \in Refusable(cache, left)
    <3>1. PICK S, T : S = Refusable(cache, left) /\ T = Refusable(d, left)
      OBVIOUS
    <3>2. IsFiniteSet(S)
      BY <1>1, <3>1, RefusableBound
    <3>3. IsFiniteSet(S \ {cur}) /\ Cardinality(S \ {cur}) = n - 1
      BY <2>7, <2>12, <3>1, <3>2, FS_RemoveElement
    <3>4. T \subseteq S \ {cur}
      BY <2>5, <2>6, <2>11, <3>1
    <3>5. m <= n - 1
      BY <2>7, <3>1, <3>3, <3>4, FS_Subset
    <3>6. tries' \in Nat /\ tries' + m <= MaxBlocks /\ left > 0
      BY <1>2, <1>4, <2>8, <2>9, <3>5
    <3> QED
      BY <1>1, <2>1, <2>7, <3>6 DEF TriesInv
  <2>13. CASE cur \notin Refusable(cache, left)
    <3>1. tries = 0
      <4>1. InHash(cache, cur) /\ cache.tbs[cur].icount <= left => cache.tbs[cur].dirty
        BY <1>2, <1>4 DEF HeaderRestart
      <4> QED
        BY <1>1, <1>2, <2>13, <4>1 DEF TriesInv, Refusable
    <3>2. m < MaxBlocks
      BY <2>4, <2>7, <2>10, <2>11, RefusableBound
    <3>3. tries' \in Nat /\ tries' + m <= MaxBlocks /\ left > 0
      BY <1>2, <1>4, <2>8, <2>9, <3>1, <3>2
    <3> QED
      BY <1>1, <2>1, <2>7, <3>3 DEF TriesInv
  <2> QED
    BY <2>12, <2>13
<1> QED
  BY <1>3, <1>4

LEMMA TriesInvStep ==
    ASSUME WellFormedProgram, TbInv, TriesInv, TbInv', [TbNext]_vars
    PROVE  TriesInv'
<1>1. CASE Lookup
  BY <1>1, LookupKeepsTries
<1>2. CASE HeaderRestart
  BY <1>2, RestartTries
<1>3. CASE HeaderRun
  BY <1>3, NoTries DEF HeaderRun
<1>4. CASE \/ LeaveBlock \/ LeaveIndirect \/ LeaveByBreakpoint \/ InterruptBlock
           \/ InterruptFaults \/ GuestStore \/ tlb_flush_page
  <2>1. loc = "body" /\ tries' = tries
    BY <1>4 DEF LeaveBlock, LeaveIndirect, LeaveByBreakpoint, InterruptBlock, InterruptFaults, GuestStore,
                tlb_flush_page
  <2> QED
    BY <2>1, NoTries DEF TriesInv
<1>5. CASE Host
  <2>1. loc \in {"host", "body"} /\ tries' = tries
    BY <1>5 DEF Host, tlib_execute, HostWrite, cpu_breakpoint_insert, cpu_breakpoint_remove,
                tlib_invalidate_translation_cache, tlib_set_chaining_enabled
  <2> QED
    BY <2>1, NoTries DEF TriesInv
<1>6. CASE Expire
  <2>1. left = 0 /\ tries' = tries
    BY <1>6 DEF Expire
  <2>2. tries' = 0
    BY <2>1 DEF TriesInv
  <2> QED
    BY <2>2, NoTries
<1>7. CASE UNCHANGED vars
  BY <1>7 DEF vars, TriesInv
<1> QED
  BY <1>1, <1>2, <1>3, <1>4, <1>5, <1>6, <1>7 DEF TbNext, Running

\* The loop of cpu_exec that looks for a block whose header lets it in ends after as
\* many refusals as the buffer has slots, for buffers and quanta of any size.
THEOREM RefusalsEnd == TbSpec => []BlocksGetToRun
<1>1. TbInit => TriesInv
  <2>1. ASSUME TbInit
        PROVE  TriesInv
    <3>1. TbInv /\ tries = 0
      BY <2>1, TbInvInit DEF TbInit
    <3>2. Cardinality(Refusable(cache, left)) \in Nat /\ Cardinality(Refusable(cache, left)) <= MaxBlocks
      BY <3>1, RefusableBound DEF TbInv
    <3> QED
      BY <2>1, <3>1, <3>2 DEF TbInit, TriesInv
  <2> QED
    BY <2>1
<1>2. TriesInv /\ TbInv /\ TbInv' /\ [TbNext]_vars => TriesInv'
  BY TriesInvStep, ProgramAssumption
<1>3. TbInv /\ TriesInv => BlocksGetToRun
  <2>1. ASSUME TbInv, TriesInv
        PROVE  BlocksGetToRun
    <3>1. Cardinality(Refusable(cache, left)) \in Nat
      BY <2>1, RefusableBound DEF TbInv
    <3> QED
      BY <2>1, <3>1, TbCacheAssumption DEF TriesInv, BlocksGetToRun
  <2> QED
    BY <2>1
<1> QED
  BY <1>1, <1>2, <1>3, TbInvariant, PTL DEF TbSpec

-----------------------------------------------------------------------------
(* Only current code is entered *)

\* Adjacent pages are adjacent in physical memory.
AdjacentMaps ==
    \A m \in Maps, v \in VPages :
        v + 1 \in VPages /\ m[v] # NoPage /\ m[v + 1] # NoPage => m[v + 1] = m[v] + 1

\* A patched jump leads to where the exit goes, on the same page.
JumpRight(tb, n, to) ==
    /\ <<n, to.pc>> \in Exits(tb) /\ PageOf(to.pc) = PageOf(tb.pc)
    /\ to.p0 = tb.p0 /\ ~TwoPages(to)

JumpsRight(c) ==
    \A t \in 1 .. Len(c.tbs), n \in 0 .. 1 :
        c.tbs[t].jmp[n] # NoTb => JumpRight(c.tbs[t], n, c.tbs[c.tbs[t].jmp[n]])

\* A block that is found may have been overwritten by the guest, and is dirty then.
ChainedCode(c) ==
    \A t \in 1 .. Len(c.tbs) : InHash(c, t) =>
        /\ c.tbs[t].code # "behind" /\ (c.tbs[t].code = "stale" => c.tbs[t].dirty)
        /\ (TwoPages(c.tbs[t]) => c.tbs[t].p1 = c.tbs[t].p0 + 1)
        /\ StopsAtBreakpoints(c.tbs[t])

JumpCacheRight(c) ==
    \A a \in Pcs : c.jc[a] # NoTb => c.tbs[c.jc[a]].pc = a /\ IsMapped(c.tbs[c.jc[a]])

CodeOK(c) == JumpsRight(c) /\ ChainedCode(c) /\ JumpCacheRight(c)

\* In the loop, whatever is not stale can be found.
AllSettled(c) == \A t \in 1 .. Len(c.tbs) : c.tbs[t].code # "stale" => InHash(c, t)

\* A block that is in a chain, or was dropped since the CPU left the loop.
Fresh(c, t) == InHash(c, t) \/ c.tbs[t].code # "stale"

\* In generated code, k being the block that runs: from a block that may run, patched
\* jumps lead to blocks that may run or are refused by their headers.
FreshCode(c, k) ==
    /\ \A t \in 1 .. Len(c.tbs) : Fresh(c, t) => StopsAtBreakpoints(c.tbs[t])
    /\ \A t \in 1 .. Len(c.tbs), n \in 0 .. 1 :
          (Fresh(c, t) \/ t = k) /\ c.tbs[t].jmp[n] # NoTb =>
              Fresh(c, c.tbs[t].jmp[n]) \/ c.tbs[c.tbs[t].jmp[n]].dirty

\* What holds of the block whose header runs.
AtHeader(c, t, a) ==
    (Fresh(c, t) \/ c.tbs[t].dirty) /\ c.tbs[t].pc = a /\ IsMapped(c.tbs[t])

\* A block keeps its mapping until it ends in an indirect jump.
StaysMapped(tb) ==
    tb.last \notin Indirect => PageOf(tb.pc) \in VPages /\ tb.p0 = vmap[PageOf(tb.pc)]

\* The exit that may be patched, and goes to a.
ExitRight(c, x, a) ==
    /\ x[1] \in 1 .. Len(c.tbs) /\ <<x[2], a>> \in Exits(c.tbs[x[1]])
    /\ PageOf(a) = PageOf(c.tbs[x[1]].pc) /\ c.tbs[x[1]].p0 = vmap[PageOf(a)]

CurrentInv ==
    /\ CodeOK(cache)
    /\ loc = "loop" => AllSettled(cache) /\ (next_tb # NoExit => ExitRight(cache, next_tb, pc))
    /\ loc = "header" => FreshCode(cache, NoTb) /\ AtHeader(cache, cur, pc)
    /\ loc = "body" => FreshCode(cache, cur) /\ StaysMapped(cache.tbs[cur])

LEMMA SameCode ==
    ASSUME NEW tb, NEW new, SameBlock(tb, new)
    PROVE  /\ Exits(new) = Exits(tb) /\ (TwoPages(new) <=> TwoPages(tb))
           /\ (StopsAtBreakpoints(tb) => StopsAtBreakpoints(new)) /\ (IsMapped(tb) => IsMapped(new))
           /\ (StaysMapped(tb) => StaysMapped(new))
<1>1. /\ new.pc = tb.pc /\ new.size = tb.size /\ new.icount = tb.icount /\ new.last = tb.last
      /\ new.cut = tb.cut /\ new.trap = tb.trap /\ new.p0 = tb.p0 /\ new.p1 = tb.p1
  BY DEF SameBlock
<1>2. Exits(new) = Exits(tb) /\ (TwoPages(new) <=> TwoPages(tb))
  BY <1>1 DEF Exits, TwoPages
<1>3. StopsAtBreakpoints(tb) => StopsAtBreakpoints(new)
  BY <1>1 DEF StopsAtBreakpoints
<1>4. IsMapped(tb) => IsMapped(new)
  BY <1>1, <1>2 DEF IsMapped
<1>5. StaysMapped(tb) => StaysMapped(new)
  BY <1>1 DEF StaysMapped
<1> QED
  BY <1>2, <1>3, <1>4, <1>5

LEMMA SameJump ==
    ASSUME NEW tb, NEW new, SameBlock(tb, new), NEW to, NEW nto, SameBlock(to, nto), NEW n,
           JumpRight(tb, n, to)
    PROVE  JumpRight(new, n, nto)
<1>1. Exits(new) = Exits(tb) /\ (TwoPages(nto) <=> TwoPages(to))
  BY SameCode
<1>2. nto.pc = to.pc /\ new.pc = tb.pc /\ nto.p0 = to.p0 /\ new.p0 = tb.p0
  BY DEF SameBlock
<1> QED
  BY <1>1, <1>2 DEF JumpRight

LEMMA JumpsKept ==
    ASSUME NEW c, CacheOK(c), NEW d, Fewer(c, d), JumpsRight(c),
           \A t \in 1 .. Len(c.tbs), n \in 0 .. 1 : d.tbs[t].jmp[n] \in {c.tbs[t].jmp[n], NoTb}
    PROVE  JumpsRight(d)
<1>1. Len(d.tbs) = Len(c.tbs) /\ \A t \in 1 .. Len(c.tbs) : SameBlock(c.tbs[t], d.tbs[t])
  BY DEF Fewer
<1>2. ASSUME NEW t \in 1 .. Len(c.tbs), NEW n \in 0 .. 1, d.tbs[t].jmp[n] # NoTb
      PROVE  JumpRight(d.tbs[t], n, d.tbs[d.tbs[t].jmp[n]])
  <2>1. PICK w : w = c.tbs[t].jmp[n]
    OBVIOUS
  <2>2. d.tbs[t].jmp[n] = w /\ w # NoTb
    BY <1>2, <2>1
  <2>3. w \in 0 .. Len(c.tbs) /\ Len(c.tbs) \in Nat
    BY <2>1, CacheFields DEF CacheOK, Jumps
  <2>4. w \in 1 .. Len(c.tbs)
    BY <2>2, <2>3 DEF NoTb
  <2>5. JumpRight(c.tbs[t], n, c.tbs[w])
    BY <2>1, <2>2 DEF JumpsRight
  <2>6. SameBlock(c.tbs[t], d.tbs[t]) /\ SameBlock(c.tbs[w], d.tbs[w])
    BY <1>1, <2>4
  <2>7. JumpRight(d.tbs[t], n, d.tbs[w])
    BY <2>5, <2>6, SameJump
  <2> QED
    BY <2>2, <2>7
<1> QED
  BY <1>1, <1>2 DEF JumpsRight

LEMMA JumpCacheKept ==
    ASSUME NEW c, CacheOK(c), NEW d, Fewer(c, d), JumpCacheRight(c),
           \A a \in Pcs : d.jc[a] \in {c.jc[a], NoTb}
    PROVE  JumpCacheRight(d)
<1>1. ASSUME NEW a \in Pcs, d.jc[a] # NoTb
      PROVE  d.tbs[d.jc[a]].pc = a /\ IsMapped(d.tbs[d.jc[a]])
  <2>1. PICK t : t = c.jc[a]
    OBVIOUS
  <2>2. d.jc[a] = t /\ t # NoTb
    BY <1>1, <2>1
  <2>3. c.tbs[t].pc = a /\ IsMapped(c.tbs[t])
    BY <2>1, <2>2 DEF JumpCacheRight
  <2>4. t \in 1 .. Len(c.tbs)
    BY <2>1, <2>2, HashOf DEF CacheOK, JumpCache
  <2>5. SameBlock(c.tbs[t], d.tbs[t])
    BY <2>4 DEF Fewer
  <2>6. IsMapped(d.tbs[t]) /\ d.tbs[t].pc = a
    BY <2>3, <2>5, SameCode DEF SameBlock
  <2> QED
    BY <2>2, <2>6
<1> QED
  BY <1>1 DEF JumpCacheRight

LEMMA ChainedKept ==
    ASSUME NEW c, NEW d, Fewer(c, d), ChainedCode(c), \A t : InHash(d, t) => InHash(c, t),
           \A t \in 1 .. Len(c.tbs) : InHash(d, t) =>
              /\ d.tbs[t].code = c.tbs[t].code \/ (d.tbs[t].code = "stale" /\ d.tbs[t].dirty)
              /\ c.tbs[t].dirty => d.tbs[t].dirty
    PROVE  ChainedCode(d)
<1>1. Len(d.tbs) = Len(c.tbs) /\ \A t \in 1 .. Len(c.tbs) : SameBlock(c.tbs[t], d.tbs[t])
  BY DEF Fewer
<1>2. ASSUME NEW t \in 1 .. Len(c.tbs), InHash(d, t)
      PROVE  /\ d.tbs[t].code # "behind" /\ (d.tbs[t].code = "stale" => d.tbs[t].dirty)
             /\ (TwoPages(d.tbs[t]) => d.tbs[t].p1 = d.tbs[t].p0 + 1)
             /\ StopsAtBreakpoints(d.tbs[t])
  <2>1. /\ c.tbs[t].code # "behind" /\ (c.tbs[t].code = "stale" => c.tbs[t].dirty)
        /\ (TwoPages(c.tbs[t]) => c.tbs[t].p1 = c.tbs[t].p0 + 1)
        /\ StopsAtBreakpoints(c.tbs[t])
    BY <1>2 DEF ChainedCode
  <2>2. SameBlock(c.tbs[t], d.tbs[t])
    BY <1>1
  <2>3. /\ (TwoPages(d.tbs[t]) <=> TwoPages(c.tbs[t])) /\ StopsAtBreakpoints(d.tbs[t])
        /\ d.tbs[t].p1 = c.tbs[t].p1 /\ d.tbs[t].p0 = c.tbs[t].p0
    BY <2>1, <2>2, SameCode DEF SameBlock
  <2>4. d.tbs[t].code # "behind" /\ (d.tbs[t].code = "stale" => d.tbs[t].dirty)
    BY <1>2, <2>1
  <2> QED
    BY <2>1, <2>3, <2>4
<1> QED
  BY <1>1, <1>2 DEF ChainedCode

LEMMA DroppedCode ==
    ASSUME NEW c, CacheOK(c), CodeOK(c), NEW d, Dropped(c, d)
    PROVE  CodeOK(d)
<1>1. Fewer(c, d) /\ JumpsRight(c) /\ ChainedCode(c) /\ JumpCacheRight(c)
  BY DroppedIsFewer DEF CodeOK
<1>2. /\ \A t \in 1 .. Len(c.tbs), n \in 0 .. 1 : d.tbs[t].jmp[n] \in {c.tbs[t].jmp[n], NoTb}
      /\ \A a \in Pcs : d.jc[a] \in {c.jc[a], NoTb}
      /\ \A t : InHash(d, t) => InHash(c, t)
      /\ \A t \in 1 .. Len(c.tbs) : d.tbs[t].dirty = c.tbs[t].dirty /\ d.tbs[t].code = c.tbs[t].code
  BY DEF Dropped
<1>3. JumpsRight(d)
  BY <1>1, <1>2, JumpsKept
<1>4. JumpCacheRight(d)
  BY <1>1, <1>2, JumpCacheKept
<1>5. ChainedCode(d)
  BY <1>1, <1>2, ChainedKept
<1> QED
  BY <1>3, <1>4, <1>5 DEF CodeOK

LEMMA SettledCode ==
    ASSUME NEW c, CacheOK(c), CodeOK(c), NEW d, d = Settled(c)
    PROVE  CacheOK(d) /\ CodeOK(d) /\ AllSettled(d) /\ Fewer(c, d)
<1>1. /\ CacheOK(d) /\ Fewer(c, d) /\ SameInHash(c, d) /\ Annotated(c, d) /\ SettledTo(c, d)
      /\ JumpsRight(c) /\ ChainedCode(c) /\ JumpCacheRight(c)
  BY SettledOK DEF CodeOK
<1>2. /\ \A t \in 1 .. Len(c.tbs), n \in 0 .. 1 : d.tbs[t].jmp[n] \in {c.tbs[t].jmp[n], NoTb}
      /\ \A a \in Pcs : d.jc[a] \in {c.jc[a], NoTb}
  BY <1>1 DEF Annotated
<1>3. \A t : InHash(d, t) <=> InHash(c, t)
  BY <1>1 DEF SameInHash
<1>4. ASSUME NEW t \in 1 .. Len(c.tbs)
      PROVE  /\ d.tbs[t].dirty = c.tbs[t].dirty
             /\ (InHash(c, t) => d.tbs[t].code = c.tbs[t].code)
             /\ (d.tbs[t].code # "stale" => InHash(c, t))
  BY <1>1 DEF SettledTo, ChainedCode
<1>5. JumpsRight(d)
  BY <1>1, <1>2, JumpsKept
<1>6. JumpCacheRight(d)
  BY <1>1, <1>2, JumpCacheKept
<1>7. ChainedCode(d)
  BY <1>1, <1>3, <1>4, ChainedKept
<1>8. AllSettled(d)
  <2>1. Len(d.tbs) = Len(c.tbs)
    BY <1>1 DEF Fewer
  <2> QED
    BY <1>3, <1>4, <2>1 DEF AllSettled
<1> QED
  BY <1>1, <1>5, <1>6, <1>7, <1>8 DEF CodeOK

\* Mappings and breakpoints stay: what was shown of a cache holds of the next one.
LEMMA CodePrimed ==
    ASSUME NEW d, d = cache', CodeOK(d), vmap' = vmap, bps' = bps
    PROVE  CodeOK(cache)'
<1>1. JumpsRight(cache')
  BY DEF CodeOK
<1>2. ChainedCode(cache)'
  BY DEF CodeOK, ChainedCode, StopsAtBreakpoints
<1>3. JumpCacheRight(cache)'
  BY DEF CodeOK, JumpCacheRight, IsMapped
<1> QED
  BY <1>1, <1>2, <1>3 DEF CodeOK

LEMMA FreshPrimed ==
    ASSUME NEW d, NEW k, d = cache', FreshCode(d, k), bps' = bps
    PROVE  FreshCode(cache, k)' /\ (k = cur' => FreshCode(cache, cur)')
BY DEF FreshCode, StopsAtBreakpoints, Fresh

-----------------------------------------------------------------------------
(* Lookups *)

\* In the loop, every block that may run is in a chain, and so are those it jumps to.
LEMMA FreshWhenSettled ==
    ASSUME NEW d, CacheOK(d), ChainedCode(d), AllSettled(d)
    PROVE  FreshCode(d, NoTb)
<1>1. \A t \in 1 .. Len(d.tbs) : Fresh(d, t) => InHash(d, t)
  BY DEF Fresh, AllSettled
<1>2. \A t \in 1 .. Len(d.tbs) : Fresh(d, t) => StopsAtBreakpoints(d.tbs[t])
  BY <1>1 DEF ChainedCode
<1>3. ASSUME NEW t \in 1 .. Len(d.tbs), NEW n \in 0 .. 1, Fresh(d, t) \/ t = NoTb, d.tbs[t].jmp[n] # NoTb
      PROVE  Fresh(d, d.tbs[t].jmp[n])
  <2>1. t # NoTb
    BY CacheFields DEF CacheOK, NoTb
  <2>2. InHash(d, t)
    BY <1>1, <1>3, <2>1
  <2>3. InHash(d, d.tbs[t].jmp[n])
    BY <1>3, <2>2 DEF CacheOK, Jumps
  <2> QED
    BY <2>3 DEF Fresh
<1> QED
  BY <1>2, <1>3 DEF FreshCode

LEMMA EnterCurrent ==
    ASSUME NEW c, NEW t, Entering(c, t), CodeOK(c), AllSettled(c), c.tbs[t].pc = pc, IsMapped(c.tbs[t]),
           ~c.invalidated /\ next_tb # NoExit => ExitRight(c, next_tb, pc)
    PROVE  CurrentInv'
<1>1. PICK d : d = cache'
  OBVIOUS
<1>2. /\ CacheOK(c) /\ InHash(c, t) /\ t \in 1 .. Len(c.tbs) /\ Len(c.tbs) \in Nat /\ CacheOK(d)
      /\ SameInHash(c, d)
  BY <1>1 DEF Entering
<1>3. loc' = "header" /\ cur' = t /\ vmap' = vmap /\ bps' = bps /\ pc' = pc
  BY DEF Entering, Enter, switches
<1>4. /\ Len(d.tbs) = Len(c.tbs) /\ d.pages = c.pages /\ d.jc = c.jc
      /\ \A u \in 1 .. Len(c.tbs) :
          /\ SameBlock(c.tbs[u], d.tbs[u])
          /\ d.tbs[u].dirty = c.tbs[u].dirty /\ d.tbs[u].code = c.tbs[u].code
          /\ \A n \in 0 .. 1 : \/ d.tbs[u].jmp[n] = c.tbs[u].jmp[n]
                               \/ ChainsTo(c, t) /\ <<u, n>> = next_tb /\ d.tbs[u].jmp[n] = t
  BY <1>1 DEF Entering, EnteredFrom
<1>5. Fewer(c, d)
  BY <1>4 DEF Fewer
<1>6. JumpsRight(c) /\ ChainedCode(c) /\ JumpCacheRight(c)
  BY DEF CodeOK
<1>7. ASSUME NEW u \in 1 .. Len(c.tbs), NEW n \in 0 .. 1, d.tbs[u].jmp[n] # NoTb
      PROVE  JumpRight(d.tbs[u], n, d.tbs[d.tbs[u].jmp[n]])
  <2>1. PICK w : w = d.tbs[u].jmp[n]
    OBVIOUS
  <2>2. w \in 0 .. Len(d.tbs) /\ w # NoTb
    BY <1>2, <1>4, <1>7, <2>1 DEF CacheOK, Jumps
  <2>3. w \in 1 .. Len(c.tbs)
    BY <1>2, <1>4, <2>2 DEF NoTb
  <2>4. JumpRight(c.tbs[u], n, c.tbs[w])
    <3>1. CASE w = c.tbs[u].jmp[n]
      BY <1>6, <2>2, <3>1 DEF JumpsRight
    <3>2. CASE ChainsTo(c, t) /\ <<u, n>> = next_tb /\ w = t
      <4>1. ~c.invalidated /\ next_tb # NoExit /\ ~TwoPages(c.tbs[t])
        BY <3>2 DEF ChainsTo
      <4>2. ExitRight(c, next_tb, pc) /\ next_tb[1] = u /\ next_tb[2] = n
        BY <3>2, <4>1
      <4>3. c.tbs[t].p0 = vmap[PageOf(pc)]
        BY DEF IsMapped
      <4> QED
        BY <3>2, <4>1, <4>2, <4>3 DEF ExitRight, JumpRight
    <3> QED
      BY <1>4, <2>1, <3>1, <3>2
  <2>5. SameBlock(c.tbs[u], d.tbs[u]) /\ SameBlock(c.tbs[w], d.tbs[w])
    BY <1>4, <2>3
  <2>6. JumpRight(d.tbs[u], n, d.tbs[w])
    BY <2>4, <2>5, SameJump
  <2> QED
    BY <2>1, <2>6
<1>8. JumpsRight(d)
  BY <1>4, <1>7 DEF JumpsRight
<1>9. JumpCacheRight(d)
  BY <1>2, <1>4, <1>5, <1>6, JumpCacheKept
<1>10. \A u : InHash(d, u) <=> InHash(c, u)
  BY <1>2 DEF SameInHash
<1>11. ChainedCode(d)
  BY <1>4, <1>5, <1>6, <1>10, ChainedKept
<1>12. CodeOK(d)
  BY <1>8, <1>9, <1>11 DEF CodeOK
<1>13. CodeOK(cache)'
  BY <1>1, <1>3, <1>12, CodePrimed
<1>14. AllSettled(d)
  BY <1>4, <1>10 DEF AllSettled
<1>15. FreshCode(d, NoTb)
  BY <1>2, <1>11, <1>14, FreshWhenSettled
<1>16. FreshCode(cache, NoTb)'
  BY <1>1, <1>3, <1>15, FreshPrimed
<1>17. AtHeader(cache, cur, pc)'
  <2>1. SameBlock(c.tbs[t], d.tbs[t]) /\ InHash(d, t)
    BY <1>2, <1>4, <1>10
  <2>2. IsMapped(d.tbs[t]) /\ d.tbs[t].pc = pc
    BY <2>1, SameCode DEF SameBlock
  <2>3. IsMapped(cache.tbs[cur])'
    BY <1>1, <1>3, <2>2 DEF IsMapped
  <2> QED
    BY <1>1, <1>3, <2>1, <2>2, <2>3 DEF AtHeader, Fresh
<1> QED
  BY <1>3, <1>13, <1>16, <1>17 DEF CurrentInv

LEMMA FastCurrent ==
    ASSUME TbInv, CurrentInv, tb_find_fast
    PROVE  CurrentInv'
<1>1. PICK t : FastEntry(t)
  BY FastIs
<1>2. loc = "loop" /\ pc \in Pcs
  BY DEF tb_find_fast, Looking, TbInv, ControlInv
<1>3. /\ CodeOK(cache) /\ AllSettled(cache) /\ (next_tb # NoExit => ExitRight(cache, next_tb, pc))
  BY <1>2 DEF CurrentInv
<1>4. Entering(cache, t) /\ t = cache.jc[pc] /\ t # NoTb
  BY <1>1 DEF FastEntry
<1>5. cache.tbs[t].pc = pc /\ IsMapped(cache.tbs[t])
  BY <1>2, <1>3, <1>4 DEF CodeOK, JumpCacheRight
<1> QED
  BY <1>3, <1>4, <1>5, EnterCurrent

\* The same blocks, with another one at pc in the jump cache.
LEMMA MovedCode ==
    ASSUME NEW c, NEW d, NEW t, CodeOK(c), c \in Caches, d.tbs = c.tbs, pc \in Pcs,
           d.jc = [c.jc EXCEPT ![pc] = t], \A u : InHash(d, u) <=> InHash(c, u),
           c.tbs[t].pc = pc, IsMapped(c.tbs[t])
    PROVE  CodeOK(d)
<1>1. JumpsRight(d)
  BY DEF CodeOK, JumpsRight
<1>2. ChainedCode(d)
  BY DEF CodeOK, ChainedCode
<1>3. JumpCacheRight(d)
  <2>1. DOMAIN c.jc = Pcs
    BY CacheFields
  <2>2. ASSUME NEW a \in Pcs, d.jc[a] # NoTb
        PROVE  d.tbs[d.jc[a]].pc = a /\ IsMapped(d.tbs[d.jc[a]])
    <3>1. CASE a = pc
      <4>1. d.jc[a] = t
        BY <2>1, <3>1
      <4> QED
        BY <3>1, <4>1
    <3>2. CASE a # pc
      <4>1. d.jc[a] = c.jc[a]
        BY <2>1, <3>2
      <4> QED
        BY <2>2, <4>1 DEF CodeOK, JumpCacheRight
    <3> QED
      BY <3>1, <3>2
  <2> QED
    BY <2>2 DEF JumpCacheRight
<1> QED
  BY <1>1, <1>2, <1>3 DEF CodeOK

LEMMA SlowCurrent ==
    ASSUME TbInv, CurrentInv, tb_find_slow
    PROVE  CurrentInv'
<1>1. PICK d, t, k : SlowEntry(d, t, k)
  BY SlowIs
<1>2. loc = "loop" /\ pc \in Pcs /\ cache \in Caches
  BY DEF tb_find_slow, Looking, TbInv, ControlInv, CacheOK
<1>3. /\ CodeOK(cache) /\ AllSettled(cache) /\ (next_tb # NoExit => ExitRight(cache, next_tb, pc))
  BY <1>2 DEF CurrentInv
<1>4. /\ Entering(d, t) /\ d.tbs = cache.tbs /\ d.jc = [cache.jc EXCEPT ![pc] = t]
      /\ Found(k) /\ t = Walked[k] /\ Mapped(PageOf(pc)) /\ \A u : InHash(d, u) <=> InHash(cache, u)
  BY <1>1 DEF SlowEntry, SameInHash
<1>5. cache.tbs[t].pc = pc /\ IsMapped(cache.tbs[t])
  BY <1>4 DEF Found, Fits, Matches, Mapped, IsMapped
<1>6. CodeOK(d)
  BY <1>2, <1>3, <1>4, <1>5, MovedCode
<1>7. AllSettled(d)
  BY <1>3, <1>4 DEF AllSettled
<1>8. d.tbs[t].pc = pc /\ IsMapped(d.tbs[t])
  BY <1>4, <1>5
<1>9. next_tb # NoExit => ExitRight(d, next_tb, pc)
  BY <1>3, <1>4 DEF ExitRight
<1> QED
  BY <1>4, <1>6, <1>7, <1>8, <1>9, EnterCurrent

LEMMA NewBlockAdjacent ==
    ASSUME AdjacentMaps, vmap \in Maps, NEW tb, NEW a, NEW max, IsNewBlock(tb, a, max), TwoPages(tb)
    PROVE  tb.p1 = tb.p0 + 1
<1>1. tb \in Blocks /\ IsMapped(tb)
  BY DEF IsNewBlock
<1>2. PICK v : v = PageOf(tb.pc)
  OBVIOUS
<1>3. v \in VPages /\ v + 1 \in VPages /\ tb.p0 = vmap[v] /\ tb.p1 = vmap[v + 1]
  BY <1>1, <1>2 DEF IsMapped
<1>4. tb.p0 # NoPage /\ tb.p1 # NoPage
  BY <1>1, BlockFields DEF NoPage, TwoPages
<1> QED
  BY <1>3, <1>4 DEF AdjacentMaps

LEMMA AddedCode ==
    ASSUME AdjacentMaps, vmap \in Maps, NEW c, CacheOK(c), CodeOK(c), NEW tb, NEW a, NEW max,
           IsNewBlock(tb, a, max), NEW d, BlockAdded(c, d, tb),
           \A x \in Pcs : d.jc[x] = c.jc[x] \/ (x = tb.pc /\ d.jc[x] = Len(c.tbs) + 1)
    PROVE  CodeOK(d) /\ (AllSettled(c) => AllSettled(d))
<1>1. PICK k : k = Len(c.tbs) + 1
  OBVIOUS
<1>2. Len(c.tbs) \in Nat /\ Jumps(c) /\ JumpCache(c) /\ c \in Caches /\ Chains(c)
  BY CacheFields DEF CacheOK
<1>3. /\ Len(d.tbs) = k /\ d.tbs[k] = tb /\ (\A u \in 1 .. Len(c.tbs) : d.tbs[u] = c.tbs[u])
      /\ \A u : InHash(d, u) <=> InHash(c, u) \/ u = k
  BY <1>1 DEF BlockAdded
<1>4. \A u \in 1 .. Len(d.tbs) : u = k \/ u \in 1 .. Len(c.tbs)
  BY <1>1, <1>2, <1>3
<1>5. /\ Unchained(tb) /\ tb.code = "current" /\ StopsAtBreakpoints(tb) /\ IsMapped(tb)
      /\ (TwoPages(tb) => tb.p1 = tb.p0 + 1)
  BY NewBlockAdjacent DEF IsNewBlock
<1>6. ASSUME NEW u \in 1 .. Len(d.tbs), NEW n \in 0 .. 1, d.tbs[u].jmp[n] # NoTb
      PROVE  JumpRight(d.tbs[u], n, d.tbs[d.tbs[u].jmp[n]])
  <2>1. CASE u = k
    BY <1>3, <1>5, <1>6, <2>1 DEF Unchained
  <2>2. CASE u \in 1 .. Len(c.tbs)
    <3>1. PICK w : w = c.tbs[u].jmp[n]
      OBVIOUS
    <3>2. d.tbs[u] = c.tbs[u] /\ w # NoTb /\ w \in 0 .. Len(c.tbs)
      BY <1>2, <1>3, <1>6, <2>2, <3>1 DEF Jumps
    <3>3. w \in 1 .. Len(c.tbs)
      BY <1>2, <3>2 DEF NoTb
    <3>4. JumpRight(c.tbs[u], n, c.tbs[w])
      BY <2>2, <3>1, <3>2 DEF CodeOK, JumpsRight
    <3> QED
      BY <1>3, <3>1, <3>2, <3>3, <3>4
  <2> QED
    BY <1>4, <2>1, <2>2
<1>7. ASSUME NEW u \in 1 .. Len(d.tbs), InHash(d, u)
      PROVE  /\ d.tbs[u].code # "behind" /\ (d.tbs[u].code = "stale" => d.tbs[u].dirty)
             /\ (TwoPages(d.tbs[u]) => d.tbs[u].p1 = d.tbs[u].p0 + 1)
             /\ StopsAtBreakpoints(d.tbs[u])
  <2>1. CASE u = k
    BY <1>3, <1>5, <2>1
  <2>2. CASE u \in 1 .. Len(c.tbs) /\ u # k
    BY <1>3, <1>7, <2>2 DEF CodeOK, ChainedCode
  <2> QED
    BY <1>4, <2>1, <2>2
<1>8. ASSUME NEW x \in Pcs, d.jc[x] # NoTb
      PROVE  d.tbs[d.jc[x]].pc = x /\ IsMapped(d.tbs[d.jc[x]])
  <2>1. CASE d.jc[x] = c.jc[x]
    <3>1. PICK w : w = c.jc[x]
      OBVIOUS
    <3>2. w \in 1 .. Len(c.tbs)
      BY <1>2, <1>8, <2>1, <3>1, HashOf DEF JumpCache
    <3>3. c.tbs[w].pc = x /\ IsMapped(c.tbs[w])
      BY <1>8, <2>1, <3>1 DEF CodeOK, JumpCacheRight
    <3> QED
      BY <1>3, <2>1, <3>1, <3>2, <3>3
  <2>2. CASE x = tb.pc /\ d.jc[x] = k
    BY <1>3, <1>5, <2>2
  <2> QED
    BY <1>1, <2>1, <2>2
<1>9. CodeOK(d)
  BY <1>6, <1>7, <1>8 DEF CodeOK, JumpsRight, ChainedCode, JumpCacheRight
<1>10. ASSUME AllSettled(c)
       PROVE  AllSettled(d)
  BY <1>3, <1>4, <1>10 DEF AllSettled
<1> QED
  BY <1>9, <1>10

LEMMA EmptyCode ==
    ASSUME NEW d, Emptied(d)
    PROVE  CodeOK(d) /\ AllSettled(d)
<1>1. Len(d.tbs) = 0 /\ \A a \in Pcs : d.jc[a] = NoTb
  BY DEF Emptied
<1>2. 1 .. Len(d.tbs) = {}
  BY <1>1
<1>3. JumpsRight(d) /\ ChainedCode(d) /\ AllSettled(d)
  BY <1>2 DEF JumpsRight, ChainedCode, AllSettled
<1>4. JumpCacheRight(d)
  BY <1>1 DEF JumpCacheRight
<1> QED
  BY <1>3, <1>4 DEF CodeOK

\* The cache of the loop, with the flag reset or emptied by tb_alloc.
LEMMA AllocatedCode ==
    ASSUME NEW c, CodeOK(cache), AllSettled(cache), Unflagged(cache, c) \/ Emptied(c)
    PROVE  CodeOK(c) /\ AllSettled(c)
<1>1. CASE Unflagged(cache, c)
  <2>1. /\ c.tbs = cache.tbs /\ c.jc = cache.jc /\ \A u : InHash(c, u) <=> InHash(cache, u)
    BY <1>1 DEF Unflagged, InHash
  <2> QED
    BY <2>1 DEF CodeOK, AllSettled, JumpsRight, ChainedCode, JumpCacheRight
<1>2. CASE Emptied(c)
  BY <1>2, EmptyCode
<1> QED
  BY <1>1, <1>2

LEMMA NotFoundCurrent ==
    ASSUME WellFormedProgram, AdjacentMaps, TbInv, CurrentInv, tb_find_slow_not_found
    PROVE  CurrentInv'
<1>1. PICK c, d, tb : Translation(c, d, tb)
  BY NotFoundIs
<1>2. loc = "loop" /\ pc \in Pcs /\ vmap \in Maps /\ Len(cache.tbs) \in Nat
  BY CacheFields DEF tb_find_slow_not_found, Looking, TbInv, ControlInv, CacheOK
<1>3. /\ CodeOK(cache) /\ AllSettled(cache) /\ (next_tb # NoExit => ExitRight(cache, next_tb, pc))
  BY <1>2 DEF CurrentInv
<1>4. PICK t : t = Len(c.tbs) + 1
  OBVIOUS
<1>5. /\ Entering(d, t) /\ CacheOK(c) /\ (Unflagged(cache, c) \/ (Emptied(c) /\ c.invalidated))
      /\ IsNewBlock(tb, pc, left) /\ BlockAdded(c, d, tb)
      /\ d.jc = [c.jc EXCEPT ![pc] = t] /\ d.invalidated = c.invalidated
  BY <1>1, <1>4, NotFoundEnters DEF Translation
<1>6. CodeOK(c) /\ AllSettled(c)
  BY <1>3, <1>5, AllocatedCode
<1>7. tb.pc = pc /\ IsMapped(tb) /\ d.tbs[t] = tb
  BY <1>4, <1>5 DEF IsNewBlock, BlockAdded
<1>8. \A x \in Pcs : d.jc[x] = c.jc[x] \/ (x = tb.pc /\ d.jc[x] = Len(c.tbs) + 1)
  <2>1. DOMAIN c.jc = Pcs
    BY <1>5, CacheFields DEF CacheOK
  <2> QED
    BY <1>2, <1>4, <1>5, <1>7, <2>1
<1>9. CodeOK(d) /\ AllSettled(d)
  BY <1>2, <1>5, <1>6, <1>8, AddedCode
<1>10. ~d.invalidated /\ next_tb # NoExit => ExitRight(d, next_tb, pc)
  <2>1. SUFFICES ASSUME ~d.invalidated, next_tb # NoExit
                 PROVE  ExitRight(d, next_tb, pc)
    OBVIOUS
  <2>2. c.tbs = cache.tbs /\ ExitRight(cache, next_tb, pc)
    BY <1>3, <1>5, <2>1 DEF Unflagged
  <2>3. /\ next_tb[1] \in 1 .. Len(c.tbs)
    BY <2>2 DEF ExitRight
  <2>4. d.tbs[next_tb[1]] = cache.tbs[next_tb[1]] /\ next_tb[1] \in 1 .. Len(d.tbs)
    BY <1>2, <1>5, <2>2, <2>3 DEF BlockAdded
  <2> QED
    BY <2>2, <2>4 DEF ExitRight
<1>11. d.tbs[t].pc = pc /\ IsMapped(d.tbs[t])
  BY <1>7
<1> QED
  BY <1>5, <1>9, <1>10, <1>11, EnterCurrent

LEMMA FaultCurrent ==
    ASSUME NEW d, FetchFault(d), loc = "loop", CodeOK(d), AllSettled(d)
    PROVE  CurrentInv'
<1>1. /\ d = cache' /\ loc' = "loop" /\ next_tb' = NoExit /\ vmap' = vmap /\ bps' = bps
  BY DEF FetchFault, switches
<1>2. CodeOK(cache)'
  BY <1>1, CodePrimed
<1>3. AllSettled(cache')
  BY <1>1
<1> QED
  BY <1>1, <1>2, <1>3 DEF CurrentInv

LEMMA LookupFaultsCurrent ==
    ASSUME TbInv, CurrentInv, LookupFaults
    PROVE  CurrentInv'
<1>1. PICK c : c = [cache EXCEPT !.invalidated = FALSE]
  OBVIOUS
<1>2. Unflagged(cache, c)
  BY <1>1, FlagReset DEF TbInv
<1>3. loc = "loop" /\ FetchFault(c)
  BY <1>1 DEF LookupFaults, Looking
<1>4. CodeOK(c) /\ AllSettled(c)
  BY <1>2, <1>3, AllocatedCode DEF CurrentInv
<1> QED
  BY <1>3, <1>4, FaultCurrent

\* The slot that is taken leads nowhere, and nothing leads to it.
LEMMA FaultAddedCode ==
    ASSUME NEW c, CodeOK(c), NEW d, NEW tb, FaultAdded(c, d, tb)
    PROVE  CodeOK(d) /\ (AllSettled(c) => AllSettled(d))
<1>1. /\ Len(d.tbs) = Len(c.tbs) + 1 /\ d.tbs[Len(c.tbs) + 1] = tb
      /\ (\A u \in 1 .. Len(c.tbs) : d.tbs[u] = c.tbs[u])
      /\ (\A u : InHash(d, u) <=> InHash(c, u)) /\ Len(c.tbs) \in Nat
  BY FaultAddedOK
<1>2. /\ Jumps(c) /\ JumpCache(c) /\ c \in Caches /\ Chains(c) /\ d.jc = c.jc
      /\ (\A n \in 0 .. 1 : tb.jmp[n] = NoTb) /\ tb.code = "stale"
  BY DEF FaultAdded, Unchained, CacheOK
<1>3. \A u \in 1 .. Len(d.tbs) : u = Len(c.tbs) + 1 \/ u \in 1 .. Len(c.tbs)
  BY <1>1
<1>4. \A u : InHash(d, u) => u \in 1 .. Len(c.tbs)
  BY <1>1, <1>2, HashOf
<1>5. ASSUME NEW u \in 1 .. Len(d.tbs), NEW n \in 0 .. 1, d.tbs[u].jmp[n] # NoTb
      PROVE  JumpRight(d.tbs[u], n, d.tbs[d.tbs[u].jmp[n]])
  <2>1. u \in 1 .. Len(c.tbs)
    BY <1>1, <1>2, <1>3, <1>5
  <2>2. PICK w : w = c.tbs[u].jmp[n]
    OBVIOUS
  <2>3. d.tbs[u] = c.tbs[u] /\ w # NoTb /\ w \in 0 .. Len(c.tbs)
    BY <1>1, <1>2, <1>5, <2>1, <2>2 DEF Jumps
  <2>4. w \in 1 .. Len(c.tbs)
    BY <1>1, <2>3 DEF NoTb
  <2>5. JumpRight(c.tbs[u], n, c.tbs[w])
    BY <2>1, <2>2, <2>3 DEF CodeOK, JumpsRight
  <2> QED
    BY <1>1, <2>2, <2>3, <2>4, <2>5
<1>6. ChainedCode(d)
  BY <1>1, <1>4 DEF CodeOK, ChainedCode
<1>7. ASSUME NEW x \in Pcs, d.jc[x] # NoTb
      PROVE  d.tbs[d.jc[x]].pc = x /\ IsMapped(d.tbs[d.jc[x]])
  <2>1. d.jc[x] \in 1 .. Len(c.tbs)
    BY <1>2, <1>7, HashOf DEF JumpCache
  <2> QED
    BY <1>1, <1>2, <1>7, <2>1 DEF CodeOK, JumpCacheRight
<1>8. CodeOK(d)
  BY <1>5, <1>6, <1>7 DEF CodeOK, JumpsRight, JumpCacheRight
<1>9. ASSUME AllSettled(c)
      PROVE  AllSettled(d)
  BY <1>1, <1>2, <1>3, <1>9 DEF AllSettled
<1> QED
  BY <1>8, <1>9

LEMMA GenCodeFaultsCurrent ==
    ASSUME WellFormedProgram, TbInv, CurrentInv, tb_gen_code_faults
    PROVE  CurrentInv'
<1>1. PICK c, d, tb : GenCodeFault(c, d, tb)
  BY GenCodeFaultsIs
<1>2. loc = "loop" /\ FetchFault(d) /\ FaultAdded(c, d, tb) /\ (Unflagged(cache, c) \/ Emptied(c))
  BY <1>1 DEF tb_gen_code_faults, Looking, GenCodeFault
<1>3. CodeOK(c) /\ AllSettled(c)
  BY <1>2, AllocatedCode DEF CurrentInv
<1>4. CodeOK(d) /\ AllSettled(d)
  BY <1>2, <1>3, FaultAddedCode
<1> QED
  BY <1>2, <1>4, FaultCurrent

-----------------------------------------------------------------------------
(* Leaving blocks *)

\* Back to the loop, or out of it.
LEMMA SettledCurrent ==
    ASSUME NEW c, CacheOK(c), CodeOK(c), NEW d, d = Settled(c), d = cache', vmap' = vmap, bps' = bps
    PROVE  CodeOK(cache)' /\ AllSettled(cache') /\ Fewer(c, d)
<1>1. CodeOK(d) /\ AllSettled(d) /\ Fewer(c, d)
  BY SettledCode
<1>2. CodeOK(cache)'
  BY <1>1, CodePrimed
<1> QED
  BY <1>1, <1>2

LEMMA HeaderRestartCurrent ==
    ASSUME TbInv, CurrentInv, HeaderRestart
    PROVE  CurrentInv'
<1>1. CacheOK(cache) /\ CodeOK(cache) /\ loc = "header"
  BY DEF TbInv, CurrentInv, HeaderRestart
<1>2. cur \in 1 .. Len(cache.tbs) /\ left \in Nat
  BY <1>1, CurrentCount
<1>3. PICK e : e = HeaderCache(cache, cur)
  OBVIOUS
<1>4. PICK d : d = Settled(e)
  OBVIOUS
<1>5. d = cache'
  BY <1>3, <1>4, Zenon DEF HeaderRestart, HeaderCache
<1>6. CacheOK(e) /\ Dropped(cache, e)
  BY <1>1, <1>2, <1>3, HeaderCacheOK
<1>7. CodeOK(e)
  BY <1>1, <1>6, DroppedCode
<1>8. loc' = "loop" /\ next_tb' = NoExit /\ vmap' = vmap /\ bps' = bps
  BY DEF HeaderRestart, switches, mmu
<1>9. CodeOK(cache)' /\ AllSettled(cache')
  BY <1>4, <1>5, <1>6, <1>7, <1>8, SettledCurrent
<1> QED
  BY <1>8, <1>9 DEF CurrentInv

LEMMA HeaderRunCurrent ==
    ASSUME TbInv, CurrentInv, HeaderRun
    PROVE  CurrentInv'
<1>1. /\ CodeOK(cache) /\ FreshCode(cache, NoTb) /\ AtHeader(cache, cur, pc) /\ ~cache.tbs[cur].dirty
  BY DEF CurrentInv, HeaderRun
<1>2. /\ loc' = "body" /\ cache' = cache /\ vmap' = vmap /\ bps' = bps /\ cur' = cur
  BY DEF HeaderRun, switches, mmu
<1>3. Fresh(cache, cur) /\ IsMapped(cache.tbs[cur])
  BY <1>1 DEF AtHeader
<1>4. FreshCode(cache, cur)
  BY <1>1, <1>3 DEF FreshCode
<1>5. PICK d : d = cache'
  OBVIOUS
<1>6. CodeOK(cache)'
  BY <1>1, <1>2, <1>5, CodePrimed
<1>7. FreshCode(cache, cur)'
  BY <1>2, <1>4, <1>5, FreshPrimed
<1>8. StaysMapped(cache.tbs[cur])'
  BY <1>2, <1>3 DEF StaysMapped, IsMapped
<1> QED
  BY <1>2, <1>6, <1>7, <1>8 DEF CurrentInv

\* The exits of a block have different numbers.
LEMMA ExitUnique ==
    ASSUME NEW tb, NEW n, NEW a, NEW b, <<n, a>> \in Exits(tb), <<n, b>> \in Exits(tb)
    PROVE  a = b
BY DEF Exits

LEMMA LeaveBlockCurrent ==
    ASSUME WellFormedProgram, TbInv, CurrentInv, LeaveBlock
    PROVE  CurrentInv'
<1>1. /\ CacheOK(cache) /\ CodeOK(cache) /\ loc = "body" /\ FreshCode(cache, cur)
      /\ cache.tbs[cur].last \notin Indirect /\ StaysMapped(cache.tbs[cur])
  BY DEF TbInv, CurrentInv, LeaveBlock
<1>2. /\ cur \in 1 .. Len(cache.tbs) /\ Len(cache.tbs) \in Nat
      /\ \A n \in 0 .. 1 : cache.tbs[cur].jmp[n] \in 0 .. Len(cache.tbs)
  BY <1>1, CurrentCount
<1>3. PICK e, to : Leaving(e, to)
  BY LeavingIs
<1>4. PICK tb : tb = cache.tbs[cur]
  OBVIOUS
<1>5. PageOf(tb.pc) \in VPages /\ tb.p0 = vmap[PageOf(tb.pc)]
  BY <1>1, <1>4 DEF StaysMapped
<1>6. vmap' = vmap /\ bps' = bps
  BY DEF LeaveBlock, switches, mmu
<1>7. e \in Exits(tb) /\ e[1] \in 0 .. 1 /\ e = <<e[1], e[2]>>
  BY <1>3, <1>4 DEF Leaving
<1>8. CASE to # NoTb
  <2>1. /\ PageOf(e[2]) = PageOf(tb.pc) /\ to = tb.jmp[e[1]] /\ pc' = e[2] /\ cur' = to
        /\ loc' = "header" /\ cache' = cache
    BY <1>3, <1>4, <1>8 DEF Leaving
  <2>2. to \in 1 .. Len(cache.tbs)
    BY <1>2, <1>4, <1>7, <1>8, <2>1 DEF NoTb
  <2>3. PICK tt : tt = cache.tbs[to]
    OBVIOUS
  <2>4. JumpRight(tb, e[1], tt)
    BY <1>1, <1>2, <1>4, <1>7, <1>8, <2>1, <2>3 DEF CodeOK, JumpsRight
  <2>5. <<e[1], tt.pc>> \in Exits(tb) /\ PageOf(tt.pc) = PageOf(tb.pc) /\ tt.p0 = tb.p0 /\ ~TwoPages(tt)
    BY <2>4 DEF JumpRight
  <2>6. tt.pc = e[2]
    BY <1>7, <2>5, ExitUnique
  <2>7. IsMapped(tt)
    BY <1>5, <2>5 DEF IsMapped
  <2>8. Fresh(cache, to) \/ tt.dirty
    BY <1>1, <1>2, <1>4, <1>7, <1>8, <2>1, <2>3 DEF FreshCode
  <2>9. FreshCode(cache, NoTb)
    <3>1. \A t \in 1 .. Len(cache.tbs) : t # NoTb
      BY <1>2 DEF NoTb
    <3> QED
      BY <1>1, <3>1 DEF FreshCode
  <2>10. PICK d : d = cache'
    OBVIOUS
  <2>11. CodeOK(cache)'
    BY <1>1, <1>6, <2>1, <2>10, CodePrimed
  <2>12. FreshCode(cache, NoTb)'
    BY <1>6, <2>1, <2>9, <2>10, FreshPrimed
  <2>13. IsMapped(cache.tbs[cur])'
    BY <1>6, <2>1, <2>3, <2>7 DEF IsMapped
  <2>14. AtHeader(cache, cur, pc)'
    BY <2>1, <2>3, <2>6, <2>8, <2>13 DEF AtHeader, Fresh
  <2> QED
    BY <2>1, <2>11, <2>12, <2>14 DEF CurrentInv
<1>9. CASE to = NoTb
  <2>1. /\ pc' = e[2] /\ loc' = "loop" /\ cache' = Settled(cache)
        /\ next_tb' = (IF PageOf(e[2]) = PageOf(tb.pc) THEN <<cur, e[1]>> ELSE NoExit)
    BY <1>3, <1>4, <1>9 DEF Leaving
  <2>2. PICK d : d = Settled(cache)
    OBVIOUS
  <2>3. CodeOK(cache)' /\ AllSettled(cache') /\ Fewer(cache, d) /\ d = cache'
    BY <1>1, <1>6, <2>1, <2>2, SettledCurrent
  <2>4. Len(d.tbs) = Len(cache.tbs) /\ SameBlock(tb, d.tbs[cur])
    BY <1>2, <1>4, <2>3 DEF Fewer
  <2>5. Exits(d.tbs[cur]) = Exits(tb) /\ d.tbs[cur].pc = tb.pc /\ d.tbs[cur].p0 = tb.p0
    BY <2>4, SameCode DEF SameBlock
  <2>6. next_tb' # NoExit => ExitRight(cache, next_tb, pc)'
    <3>1. SUFFICES ASSUME next_tb' # NoExit
                   PROVE  ExitRight(cache, next_tb, pc)'
      OBVIOUS
    <3>2. PageOf(e[2]) = PageOf(tb.pc) /\ next_tb'[1] = cur /\ next_tb'[2] = e[1]
      BY <2>1, <3>1
    <3>3. cache'.tbs[cur] = d.tbs[cur] /\ cur \in 1 .. Len(cache'.tbs)
      BY <1>2, <2>3, <2>4
    <3>4. <<e[1], e[2]>> \in Exits(d.tbs[cur]) /\ d.tbs[cur].p0 = vmap[PageOf(e[2])]
      BY <1>5, <1>7, <2>5, <3>2
    <3> QED
      BY <1>6, <2>1, <2>5, <3>2, <3>3, <3>4 DEF ExitRight
  <2> QED
    BY <2>1, <2>3, <2>6 DEF CurrentInv
<1> QED
  BY <1>8, <1>9

\* Steps that settle the cache and chain nothing.
LEMMA SettlingCurrent ==
    ASSUME TbInv, CurrentInv, LeaveIndirect \/ LeaveByBreakpoint \/ tlib_execute
    PROVE  CurrentInv'
<1>1. CacheOK(cache) /\ CodeOK(cache)
  BY DEF TbInv, CurrentInv
<1>2. /\ cache' = Settled(cache) /\ vmap' = vmap /\ bps' = bps
      /\ loc' \in {"loop", "host"} /\ (loc' = "loop" => next_tb' = NoExit)
  BY DEF LeaveIndirect, LeaveByBreakpoint, tlib_execute, switches, mmu
<1>3. PICK d : d = cache'
  OBVIOUS
<1>4. CodeOK(cache)' /\ AllSettled(cache')
  BY <1>1, <1>2, <1>3, SettledCurrent
<1> QED
  BY <1>2, <1>4 DEF CurrentInv

LEMMA InterruptCurrent ==
    ASSUME WellFormedProgram, AdjacentMaps, TbInv, CurrentInv, InterruptBlock
    PROVE  CurrentInv'
<1>1. PICK e, c, f, d, tb, a, rest : Interruption(e, c, f, d, tb, a, rest)
  BY InterruptIs
<1>2. CacheOK(cache) /\ CodeOK(cache) /\ vmap \in Maps
  BY DEF TbInv, ControlInv, CurrentInv
<1>3. /\ Dropped(cache, e) /\ CacheOK(c) /\ (c = e \/ Emptied(c)) /\ IsNewBlock(tb, a, rest)
      /\ BlockAdded(c, f, tb) /\ f.jc = c.jc /\ d = Settled(f) /\ d = cache' /\ CacheOK(f)
  BY <1>1 DEF Interruption, BlockAdded
<1>4. CodeOK(c)
  BY <1>2, <1>3, DroppedCode, EmptyCode
<1>5. CodeOK(f)
  BY <1>2, <1>3, <1>4, AddedCode
<1>6. loc' = "host" /\ vmap' = vmap /\ bps' = bps
  BY DEF InterruptBlock, switches
<1>7. CodeOK(cache)'
  BY <1>3, <1>5, <1>6, SettledCurrent
<1> QED
  BY <1>6, <1>7 DEF CurrentInv

LEMMA InterruptFaultsCurrent ==
    ASSUME WellFormedProgram, TbInv, CurrentInv, InterruptFaults
    PROVE  CurrentInv'
<1>1. PICK e, d, tb, a, rest : InterruptionFault(e, d, tb, a, rest)
  BY InterruptFaultsIs
<1>2. CacheOK(cache) /\ CodeOK(cache)
  BY DEF TbInv, CurrentInv
<1>3. /\ Dropped(cache, e) /\ CacheOK(d) /\ cache' = Settled(d)
      /\ d = e \/ \E c : FaultAdded(c, d, tb) /\ (c = e \/ Emptied(c))
  BY <1>1 DEF InterruptionFault
<1>4. CodeOK(e)
  BY <1>2, <1>3, DroppedCode
<1>5. CodeOK(d)
  BY <1>3, <1>4, EmptyCode, FaultAddedCode
<1>6. loc' = "loop" /\ next_tb' = NoExit /\ vmap' = vmap /\ bps' = bps
  BY DEF InterruptFaults, switches
<1>7. PICK f : f = Settled(d)
  OBVIOUS
<1>8. CodeOK(cache)' /\ AllSettled(cache')
  BY <1>3, <1>5, <1>6, <1>7, SettledCurrent
<1> QED
  BY <1>6, <1>8 DEF CurrentInv

-----------------------------------------------------------------------------
(* Writes to code *)

LEMMA FreshKept ==
    ASSUME NEW c, CacheOK(c), NEW d, Fewer(c, d), NEW k, FreshCode(c, k),
           \A t \in 1 .. Len(c.tbs), n \in 0 .. 1 : d.tbs[t].jmp[n] \in {c.tbs[t].jmp[n], NoTb},
           \A t \in 1 .. Len(c.tbs) :
              /\ Fresh(d, t) => Fresh(c, t)
              /\ Fresh(c, t) => Fresh(d, t) \/ d.tbs[t].dirty
              /\ c.tbs[t].dirty => d.tbs[t].dirty
    PROVE  FreshCode(d, k)
<1>1. Len(d.tbs) = Len(c.tbs) /\ \A t \in 1 .. Len(c.tbs) : SameBlock(c.tbs[t], d.tbs[t])
  BY DEF Fewer
<1>2. Len(c.tbs) \in Nat /\ \A t \in 1 .. Len(c.tbs), n \in 0 .. 1 : c.tbs[t].jmp[n] \in 0 .. Len(c.tbs)
  BY CacheFields DEF CacheOK, Jumps
<1>3. ASSUME NEW t \in 1 .. Len(c.tbs), Fresh(d, t)
      PROVE  StopsAtBreakpoints(d.tbs[t])
  <2>1. StopsAtBreakpoints(c.tbs[t]) /\ SameBlock(c.tbs[t], d.tbs[t])
    BY <1>1, <1>3 DEF FreshCode
  <2> QED
    BY <2>1, SameCode
<1>4. ASSUME NEW t \in 1 .. Len(c.tbs), NEW n \in 0 .. 1, Fresh(d, t) \/ t = k, d.tbs[t].jmp[n] # NoTb
      PROVE  Fresh(d, d.tbs[t].jmp[n]) \/ d.tbs[d.tbs[t].jmp[n]].dirty
  <2>1. PICK w : w = c.tbs[t].jmp[n]
    OBVIOUS
  <2>2. w = d.tbs[t].jmp[n] /\ w # NoTb
    BY <1>4, <2>1
  <2>3. w \in 1 .. Len(c.tbs)
    <3>1. w \in 0 .. Len(c.tbs)
      BY <1>2, <2>1
    <3> QED
      BY <1>2, <2>2, <3>1 DEF NoTb
  <2>4. (Fresh(c, t) \/ t = k) /\ c.tbs[t].jmp[n] # NoTb
    BY <1>4, <2>1, <2>2
  <2>5. Fresh(c, w) \/ c.tbs[w].dirty
    <3>1. Fresh(c, c.tbs[t].jmp[n]) \/ c.tbs[c.tbs[t].jmp[n]].dirty
      BY <2>4 DEF FreshCode
    <3> QED
      BY <2>1, <3>1
  <2>6. Fresh(d, w) \/ d.tbs[w].dirty
    BY <2>3, <2>5
  <2> QED
    BY <2>2, <2>6
<1> QED
  BY <1>1, <1>3, <1>4 DEF FreshCode

\* Generated code goes on running.
LEMMA BodyCurrent ==
    ASSUME NEW d, d = cache', loc = "body", loc' = "body", vmap' = vmap, bps' = bps, cur' = cur,
           CodeOK(d), FreshCode(d, cur), Fewer(cache, d), cur \in 1 .. Len(cache.tbs),
           StaysMapped(cache.tbs[cur])
    PROVE  CurrentInv'
<1>1. CodeOK(cache)'
  BY CodePrimed
<1>2. FreshCode(cache, cur)'
  BY FreshPrimed
<1>3. SameBlock(cache.tbs[cur], d.tbs[cur])
  BY DEF Fewer
<1>4. StaysMapped(d.tbs[cur])
  BY <1>3, SameCode
<1>5. StaysMapped(cache.tbs[cur])'
  BY <1>4 DEF StaysMapped
<1> QED
  BY <1>1, <1>2, <1>5 DEF CurrentInv

\* The last instruction of a block ends on the next page at most.
LEMMA BlockEnd ==
    ASSUME NEW tb \in Blocks, WellShaped(tb)
    PROVE  /\ Off(tb.pc) \in Nat /\ Off(tb.pc) < PageSize /\ PageSize \in Nat
           /\ tb.size \in Nat /\ tb.p0 \in Nat
           /\ Off(tb.pc) + tb.size >= PageSize => Off(tb.pc + tb.size) = Off(tb.pc) + tb.size - PageSize
<1>1. /\ tb.pc \in Nat /\ tb.last \in Nat /\ tb.size \in Nat /\ tb.p0 \in Nat /\ PageSize \in Nat \ {0}
      /\ tb.last \in Pcs /\ tb.trap \in BOOLEAN
  BY BlockFields, TbCacheAssumption
<1>2. PICK p, o \in Nat : p = PageOf(tb.pc) /\ o = Off(tb.pc)
  BY <1>1, PageAndOffset
<1>3. o < PageSize /\ p * PageSize \in Nat /\ tb.pc = p * PageSize + o
  BY <1>1, <1>2, PageAndOffset
<1>4. ASSUME o + tb.size >= PageSize
      PROVE  Off(tb.pc + tb.size) = o + tb.size - PageSize
  <2>1. PICK k \in Nat : k = o + tb.size - PageSize
    BY <1>1, <1>2, <1>4
  <2>2. (p + 1) * PageSize = p * PageSize + PageSize
    BY <1>1, <1>2
  <2>3. tb.pc + tb.size = (p + 1) * PageSize + k
    <3>1. PICK x, y \in Nat : x = p * PageSize /\ y = (p + 1) * PageSize
      BY <1>1, <1>2, <1>3, <2>2
    <3>2. tb.pc = x + o /\ y = x + PageSize
      BY <1>3, <2>2, <3>1
    <3> QED
      BY <1>1, <1>2, <2>1, <3>1, <3>2
  <2>4. k < PageSize
    <3>1. CASE tb.trap
      <4>1. PageOf(tb.pc + tb.size) = PageOf(tb.pc) /\ tb.pc + tb.size \in Nat
        BY <1>1, <3>1 DEF WellShaped
      <4>2. tb.size = Off(tb.pc + tb.size) - o
        BY <1>1, <1>2, <4>1, SamePage
      <4>3. Off(tb.pc + tb.size) \in Nat /\ Off(tb.pc + tb.size) < PageSize
        BY <4>1, PageAndOffset
      <4> QED
        BY <1>1, <1>2, <2>1, <4>2, <4>3
    <3>2. CASE ~tb.trap
      <4>1. PICK n \in Nat : n = InsnLen[tb.last] /\ n <= PageSize
        BY <1>1, TbCacheAssumption
      <4>2. tb.pc + tb.size = tb.last + n /\ PageOf(tb.last) = PageOf(tb.pc)
        BY <3>2, <4>1 DEF WellShaped
      <4>3. PICK l \in Nat : l = Off(tb.last) /\ l < PageSize
        BY <1>1, PageAndOffset
      <4>4. tb.last - tb.pc = l - o
        BY <1>1, <1>2, <4>2, <4>3, SamePage
      <4>5. o + tb.size = l + n
        BY <1>1, <1>2, <4>1, <4>2, <4>3, <4>4
      <4> QED
        BY <1>1, <1>2, <2>1, <4>1, <4>3, <4>5
    <3> QED
      BY <1>1, <3>1, <3>2
  <2>5. p + 1 \in Nat
    BY <1>2
  <2>6. Off((p + 1) * PageSize + k) = k
    BY <2>1, <2>4, <2>5, OnPage
  <2> QED
    BY <2>1, <2>3, <2>6
<1> QED
  BY <1>1, <1>2, <1>3, <1>4

\* An address of the block's code is in the range that its page is searched for.
LEMMA CoveredMeets ==
    ASSUME NEW tb \in Blocks, WellShaped(tb), NEW a \in Nat, Covers(tb, a)
    PROVE  /\ PageOf(a) \in PagesOf(tb) /\ MeetsRange(tb, PageOf(a), a, a + 1)
           /\ (TwoPages(tb) => tb.p1 = tb.p0 + 1) => (StartOf(tb) <= a /\ a < StartOf(tb) + tb.size)
<1>1. /\ Off(tb.pc) \in Nat /\ Off(tb.pc) < PageSize /\ PageSize \in Nat /\ tb.size \in Nat /\ tb.p0 \in Nat
      /\ Off(tb.pc) + tb.size >= PageSize => Off(tb.pc + tb.size) = Off(tb.pc) + tb.size - PageSize
  BY BlockEnd
<1>2. PICK p, k \in Nat : p = PageOf(a) /\ k = Off(a)
  BY PageAndOffset
<1>3. PICK x \in Nat : x = p * PageSize /\ a = x + k
  BY <1>2, PageAndOffset
<1>4. PICK o, n \in Nat : o = Off(tb.pc) /\ n = tb.size
  BY <1>1
<1>5. CASE p = tb.p0 /\ o <= k /\ k < o + n
  <2>1. StartOf(tb) = x + o
    BY <1>3, <1>4, <1>5 DEF StartOf
  <2>2. x + o <= a /\ a < x + o + n /\ a + 1 <= x + o + n
    BY <1>2, <1>3, <1>4, <1>5
  <2>3. MeetsRange(tb, p, a, a + 1)
    BY <1>4, <1>5, <2>1, <2>2 DEF MeetsRange
  <2>4. p \in PagesOf(tb)
    BY <1>2, <1>5 DEF PagesOf, NoPage
  <2> QED
    BY <1>2, <1>4, <2>1, <2>2, <2>3, <2>4
<1>6. CASE TwoPages(tb) /\ p = tb.p1 /\ k < o + n - PageSize
  <2>1. PICK z \in Nat : z = Off(tb.pc + tb.size) /\ z = o + n - PageSize
    <3>1. o + n >= PageSize
      BY <1>1, <1>2, <1>4, <1>6
    <3>2. o + n - PageSize \in Nat
      BY <1>1, <1>4, <3>1
    <3> QED
      BY <1>1, <1>4, <3>1, <3>2
  <2>2. x <= a /\ a + 1 <= x + z
    BY <1>2, <1>3, <1>6, <2>1
  <2>3. MeetsRange(tb, p, a, a + 1)
    BY <1>3, <1>6, <2>1, <2>2 DEF MeetsRange
  <2>4. p \in PagesOf(tb)
    BY <1>6 DEF PagesOf, TwoPages
  <2>5. ASSUME TwoPages(tb) => tb.p1 = tb.p0 + 1
        PROVE  StartOf(tb) <= a /\ a < StartOf(tb) + tb.size
    <3>1. PICK y \in Nat : y = tb.p0 * PageSize
      BY <1>1
    <3>2. StartOf(tb) = y + o
      BY <1>4, <3>1 DEF StartOf
    <3>3. x = y + PageSize
      <4>1. x = (tb.p0 + 1) * PageSize
        BY <1>3, <1>6, <2>5
      <4>2. (tb.p0 + 1) * PageSize = tb.p0 * PageSize + PageSize
        BY <1>1
      <4> QED
        BY <3>1, <4>1, <4>2
    <3> QED
      BY <1>1, <1>2, <1>3, <1>4, <1>6, <3>2, <3>3
  <2> QED
    BY <1>2, <2>3, <2>4, <2>5
<1> QED
  BY <1>2, <1>4, <1>5, <1>6 DEF Covers

\* A block in a chain is on the list of the page of each address of its code.
LEMMA CoveredListed ==
    ASSUME NEW c, CacheOK(c), NEW t \in 1 .. Len(c.tbs), InHash(c, t), NEW a \in Nat, Covers(c.tbs[t], a)
    PROVE  /\ PageOf(a) \in PPages /\ t \in c.pages[PageOf(a)] /\ c.tbs[t] \in Blocks
           /\ WellShaped(c.tbs[t])
<1>1. c \in Caches /\ WellShaped(c.tbs[t]) /\ PageLists(c)
  BY DEF CacheOK
<1>2. c.tbs[t] \in Blocks
  BY <1>1, CacheFields
<1>3. PageOf(a) \in PagesOf(c.tbs[t])
  BY <1>1, <1>2, CoveredMeets
<1> QED
  BY <1>1, <1>2, <1>3 DEF PageLists

\* The address that the guest stores to.
LEMMA PhysIs ==
    ASSUME vmap \in Maps, NEW a \in Nat, Mapped(PageOf(a))
    PROVE  Phys(a) \in Nat /\ PageOf(Phys(a)) = vmap[PageOf(a)] /\ PageOf(a) \in VPages
<1>1. PageOf(a) \in VPages /\ vmap[PageOf(a)] # NoPage
  BY DEF Mapped
<1>2. vmap[PageOf(a)] \in Nat
  BY <1>1, TbCacheAssumption
<1>3. Off(a) \in Nat /\ Off(a) < PageSize
  BY PageAndOffset
<1> QED
  BY <1>1, <1>2, <1>3, OnPage DEF Phys

\* What is known of each block after a store: what was overwritten and can still be
\* found is dirty.
StoreSeen(d, t) ==
    /\ cache.tbs[t].dirty => d.tbs[t].dirty
    /\ InHash(cache, t) => d.tbs[t].code = cache.tbs[t].code
                           \/ (d.tbs[t].code = "stale" /\ d.tbs[t].dirty)
    /\ ~InHash(cache, t) => (d.tbs[t].code = "stale" <=> cache.tbs[t].code = "stale")

LEMMA StoredSeen ==
    ASSUME TbInv, CodeOK(cache), NEW w, NEW a, StoredTo(w, a), NEW d, d = cache',
           NEW t \in 1 .. Len(cache.tbs)
    PROVE  StoreSeen(d, t)
<1>1. CacheOK(cache) /\ TlbOK(cache, vmap, tlb, clean) /\ vmap \in Maps
  BY DEF TbInv, TlbInv, ControlInv
<1>2. a \in Nat /\ Mapped(PageOf(a))
  BY TbCacheAssumption DEF StoredTo
<1>3. PICK x, v : x = Phys(a) /\ v = PageOf(a)
  OBVIOUS
<1>4. x \in Nat /\ PageOf(x) = vmap[v] /\ v \in VPages
  BY <1>1, <1>2, <1>3, PhysIs
<1>5. w = Overwritten(cache, x, "stale") /\ "stale" \in {"behind", "stale"}
  BY <1>3 DEF StoredTo
<1>6. CacheOK(w) /\ Fewer(cache, w) /\ Annotated(cache, w) /\ OverwrittenTo(cache, w, x, "stale")
  BY <1>1, <1>5, OverwrittenOK
<1>7. /\ w.tbs[t].dirty = cache.tbs[t].dirty /\ SameBlock(cache.tbs[t], w.tbs[t]) /\ w.pages = cache.pages
      /\ w.tbs[t].code = (IF cache.tbs[t].code = "current" /\ Covers(cache.tbs[t], x)
                          THEN IF InHash(cache, t) THEN "stale" ELSE "behind" ELSE cache.tbs[t].code)
      /\ t \in 1 .. Len(w.tbs)
  BY <1>6 DEF OverwrittenTo, Fewer, Annotated
<1>8. CASE tlb[v] = "plain"
  <2>1. d = w
    BY <1>3, <1>8 DEF StoredTo
  <2>2. ~(InHash(cache, t) /\ Covers(cache.tbs[t], x))
    <3>1. SUFFICES ASSUME InHash(cache, t), Covers(cache.tbs[t], x)
                   PROVE  FALSE
      OBVIOUS
    <3>2. PageOf(x) \in PPages /\ t \in cache.pages[PageOf(x)]
      BY <1>1, <1>4, <3>1, CoveredListed
    <3>3. PageOf(x) \in clean
      BY <1>1, <3>2 DEF TlbOK
    <3> QED
      BY <1>1, <1>4, <1>8, <3>3 DEF TlbOK
  <2> QED
    BY <1>7, <2>1, <2>2 DEF StoreSeen
<1>9. CASE tlb[v] # "plain"
  <2>1. d = MarkDirty(w, x)
    BY <1>3, <1>9 DEF StoredTo
  <2>2. MarkedTo(w, d, x)
    BY <1>6, <2>1, MarkDirtyOK
  <2>3. d.tbs[t].code = w.tbs[t].code /\ d.tbs[t].dirty = (w.tbs[t].dirty \/ MarkHits(w, t, x))
    BY <1>7, <2>2 DEF MarkedTo
  <2>4. ASSUME InHash(cache, t), Covers(cache.tbs[t], x)
        PROVE  MarkHits(w, t, x)
    <3>1. t \in cache.pages[PageOf(x)] /\ cache.tbs[t] \in Blocks /\ WellShaped(cache.tbs[t])
      BY <1>1, <1>4, <2>4, CoveredListed
    <3>2. TwoPages(cache.tbs[t]) => cache.tbs[t].p1 = cache.tbs[t].p0 + 1
      BY <2>4 DEF CodeOK, ChainedCode
    <3>3. StartOf(cache.tbs[t]) <= x /\ x < StartOf(cache.tbs[t]) + cache.tbs[t].size
      BY <1>4, <2>4, <3>1, <3>2, CoveredMeets
    <3>4. StartOf(w.tbs[t]) = StartOf(cache.tbs[t]) /\ w.tbs[t].size = cache.tbs[t].size
      BY <1>7, SameChain DEF SameBlock
    <3> QED
      BY <1>7, <3>1, <3>3, <3>4 DEF MarkHits
  <2>5. ASSUME InHash(cache, t), Covers(cache.tbs[t], x)
        PROVE  d.tbs[t].dirty
    BY <2>3, <2>4, <2>5
  <2>6. cache.tbs[t].dirty => d.tbs[t].dirty
    BY <1>7, <2>3
  <2> QED
    BY <1>7, <2>3, <2>5, <2>6 DEF StoreSeen
<1> QED
  BY <1>8, <1>9

LEMMA GuestStoreCurrent ==
    ASSUME TbInv, CurrentInv, GuestStore
    PROVE  CurrentInv'
<1>1. PICK w, a : StoredTo(w, a)
  BY GuestStoreIs
<1>2. PICK d : d = cache'
  OBVIOUS
<1>3. CacheOK(d) /\ Fewer(cache, d) /\ SameInHash(cache, d) /\ Annotated(cache, d)
  BY <1>1, <1>2, StoredOK
<1>4. /\ CacheOK(cache) /\ CodeOK(cache) /\ loc = "body" /\ FreshCode(cache, cur)
      /\ StaysMapped(cache.tbs[cur])
  BY DEF TbInv, CurrentInv, GuestStore
<1>5. cur \in 1 .. Len(cache.tbs)
  BY <1>4, CurrentCount
<1>6. \A t \in 1 .. Len(cache.tbs) : StoreSeen(d, t)
  BY <1>1, <1>2, <1>4, StoredSeen
<1>7. /\ \A t \in 1 .. Len(cache.tbs), n \in 0 .. 1 : d.tbs[t].jmp[n] \in {cache.tbs[t].jmp[n], NoTb}
      /\ \A x \in Pcs : d.jc[x] \in {cache.jc[x], NoTb}
      /\ \A t : InHash(d, t) <=> InHash(cache, t)
  BY <1>3 DEF Annotated, SameInHash
<1>8. JumpsRight(cache) /\ ChainedCode(cache) /\ JumpCacheRight(cache)
  BY <1>4 DEF CodeOK
<1>9. JumpsRight(d)
  BY <1>3, <1>4, <1>7, <1>8, JumpsKept
<1>10. JumpCacheRight(d)
  BY <1>3, <1>4, <1>7, <1>8, JumpCacheKept
<1>11. ChainedCode(d)
  <2>1. \A t \in 1 .. Len(cache.tbs) : InHash(d, t) =>
              /\ d.tbs[t].code = cache.tbs[t].code \/ (d.tbs[t].code = "stale" /\ d.tbs[t].dirty)
              /\ cache.tbs[t].dirty => d.tbs[t].dirty
    BY <1>6, <1>7 DEF StoreSeen
  <2> QED
    BY <1>3, <1>7, <1>8, <2>1, ChainedKept
<1>12. CodeOK(d)
  BY <1>9, <1>10, <1>11 DEF CodeOK
<1>13. FreshCode(d, cur)
  <2>1. \A t \in 1 .. Len(cache.tbs) :
              /\ Fresh(d, t) => Fresh(cache, t)
              /\ Fresh(cache, t) => Fresh(d, t) \/ d.tbs[t].dirty
              /\ cache.tbs[t].dirty => d.tbs[t].dirty
    BY <1>6, <1>7 DEF StoreSeen, Fresh
  <2> QED
    BY <1>3, <1>4, <1>7, <2>1, FreshKept
<1>14. loc' = "body" /\ vmap' = vmap /\ bps' = bps /\ cur' = cur
  BY <1>4 DEF GuestStore, switches
<1> QED
  BY <1>2, <1>3, <1>4, <1>5, <1>12, <1>13, <1>14, BodyCurrent

LEMMA HostWriteCurrent ==
    ASSUME TbInv, CurrentInv, HostWrite
    PROVE  CurrentInv'
<1>1. PICK w, a, how : HostWrittenTo(w, a, how)
  BY HostWriteIs
<1>2. PICK d : d = cache'
  OBVIOUS
<1>3. /\ CacheOK(w) /\ Fewer(cache, w) /\ SameInHash(cache, w) /\ Annotated(cache, w)
      /\ OverwrittenTo(cache, w, a, how) /\ CacheOK(d) /\ Dropped(w, d)
  BY <1>1, <1>2, HostWrittenOK
<1>4. CacheOK(cache) /\ CodeOK(cache)
  BY DEF TbInv, CurrentInv
<1>5. JumpsRight(cache) /\ ChainedCode(cache) /\ JumpCacheRight(cache)
  BY <1>4 DEF CodeOK
<1>6. Fewer(cache, d)
  BY <1>3, DroppedIsFewer, FewerTransitive
<1>7. /\ \A t \in 1 .. Len(cache.tbs), n \in 0 .. 1 : d.tbs[t].jmp[n] \in {cache.tbs[t].jmp[n], NoTb}
      /\ \A x \in Pcs : d.jc[x] \in {cache.jc[x], NoTb}
      /\ Len(w.tbs) = Len(cache.tbs)
  BY <1>3 DEF Annotated, Dropped
<1>8. \A t : (InHash(d, t) => InHash(cache, t)) /\ (InHash(w, t) <=> InHash(cache, t))
  BY <1>3 DEF Dropped, SameInHash
<1>9. a \in Nat
  BY <1>1, TbCacheAssumption DEF HostWrittenTo
<1>10. ASSUME NEW t \in 1 .. Len(cache.tbs)
       PROVE  /\ d.tbs[t].dirty = cache.tbs[t].dirty
              /\ d.tbs[t].code = (IF cache.tbs[t].code = "current" /\ Covers(cache.tbs[t], a)
                                  THEN IF InHash(cache, t) THEN how ELSE "behind"
                                  ELSE cache.tbs[t].code)
  BY <1>3, <1>7 DEF OverwrittenTo, Dropped
<1>11. ASSUME NEW t \in 1 .. Len(cache.tbs), InHash(cache, t), Covers(cache.tbs[t], a)
       PROVE  ~InHash(d, t)
  <2>1. /\ PageOf(a) \in PPages /\ t \in cache.pages[PageOf(a)] /\ cache.tbs[t] \in Blocks
        /\ WellShaped(cache.tbs[t])
    BY <1>4, <1>9, <1>11, CoveredListed
  <2>2. MeetsRange(cache.tbs[t], PageOf(a), a, a + 1)
    BY <1>9, <1>11, <2>1, CoveredMeets
  <2>3. SameBlock(cache.tbs[t], w.tbs[t]) /\ w.pages = cache.pages
    BY <1>3 DEF Annotated
  <2>4. PICK p, b : p = PageOf(a) /\ b = a + 1
    OBVIOUS
  <2>5. MeetsRange(w.tbs[t], p, a, b)
    BY <2>2, <2>3, <2>4 DEF MeetsRange, SameBlock, StartOf, TwoPages
  <2>6. d = tb_invalidate_phys_page_range(w, a, b)
    BY <1>1, <1>2, <2>4 DEF HostWrittenTo
  <2> QED
    BY <1>3, <1>7, <2>1, <2>3, <2>4, <2>5, <2>6, RangeInvalidated
<1>12. JumpsRight(d)
  BY <1>4, <1>5, <1>6, <1>7, JumpsKept
<1>13. JumpCacheRight(d)
  BY <1>4, <1>5, <1>6, <1>7, JumpCacheKept
<1>14. ChainedCode(d)
  <2>1. \A t \in 1 .. Len(cache.tbs) : InHash(d, t) =>
              /\ d.tbs[t].code = cache.tbs[t].code \/ (d.tbs[t].code = "stale" /\ d.tbs[t].dirty)
              /\ cache.tbs[t].dirty => d.tbs[t].dirty
    BY <1>8, <1>10, <1>11
  <2> QED
    BY <1>5, <1>6, <1>8, <2>1, ChainedKept
<1>15. CodeOK(d)
  BY <1>12, <1>13, <1>14 DEF CodeOK
<1>16. loc' = loc /\ vmap' = vmap /\ bps' = bps /\ cur' = cur /\ loc \in {"host", "body"}
  BY DEF HostWrite, switches, mmu
<1>17. CASE loc = "host"
  <2>1. CodeOK(cache)'
    BY <1>2, <1>15, <1>16, CodePrimed
  <2> QED
    BY <1>16, <1>17, <2>1 DEF CurrentInv
<1>18. CASE loc = "body"
  <2>1. FreshCode(cache, cur) /\ StaysMapped(cache.tbs[cur]) /\ how = "behind"
    BY <1>1, <1>18 DEF CurrentInv, HostWrittenTo
  <2>2. ASSUME NEW t \in 1 .. Len(cache.tbs)
        PROVE  /\ Fresh(d, t) => Fresh(cache, t)
               /\ Fresh(cache, t) => Fresh(d, t) \/ d.tbs[t].dirty
               /\ cache.tbs[t].dirty => d.tbs[t].dirty
    <3>1. d.tbs[t].dirty = cache.tbs[t].dirty /\ (d.tbs[t].code = "stale" <=> cache.tbs[t].code = "stale")
      BY <1>10, <2>1
    <3>2. InHash(cache, t) /\ cache.tbs[t].code = "stale" => cache.tbs[t].dirty
      BY <1>5 DEF ChainedCode
    <3> QED
      BY <1>8, <3>1, <3>2 DEF Fresh
  <2>3. FreshCode(d, cur)
    BY <1>4, <1>6, <1>7, <2>1, <2>2, FreshKept
  <2>4. cur \in 1 .. Len(cache.tbs)
    BY <1>18, CurrentCount
  <2> QED
    BY <1>2, <1>6, <1>15, <1>16, <1>18, <2>1, <2>3, <2>4, BodyCurrent
<1> QED
  BY <1>16, <1>17, <1>18

-----------------------------------------------------------------------------
(* Remapped pages, and the host *)

LEMMA FlushPageCurrent ==
    ASSUME TbInv, CurrentInv, tlb_flush_page
    PROVE  CurrentInv'
<1>1. /\ CacheOK(cache) /\ CodeOK(cache) /\ loc = "body" /\ FreshCode(cache, cur)
      /\ cache.tbs[cur].last \in Indirect /\ vmap \in [VPages -> PPages \cup {NoPage}]
  BY TbCacheAssumption DEF TbInv, CurrentInv, ControlInv, tlb_flush_page
<1>2. PICK m \in Maps, v \in VPages :
          m = [vmap EXCEPT ![v] = m[v]] /\ vmap' = m /\ cache' = tlb_flush_jmp_cache(cache, v)
  BY DEF tlb_flush_page
<1>3. PICK d : d = cache'
  OBVIOUS
<1>4. /\ CacheOK(d) /\ d.tbs = cache.tbs /\ d.hash = cache.hash
      /\ \A a \in Pcs : d.jc[a] = IF PageOf(a) \in {v - 1, v} THEN NoTb ELSE cache.jc[a]
  BY <1>1, <1>2, <1>3, JmpCacheFlushed
<1>5. \A t : InHash(d, t) <=> InHash(cache, t)
  BY <1>4 DEF InHash
<1>6. loc' = "body" /\ bps' = bps /\ cur' = cur
  BY <1>1 DEF tlb_flush_page, switches
<1>7. \A x \in VPages : x # v => vmap'[x] = vmap[x]
  BY <1>1, <1>2
<1>8. JumpsRight(cache')
  BY <1>1, <1>3, <1>4 DEF CodeOK, JumpsRight
<1>9. ChainedCode(cache)'
  BY <1>1, <1>3, <1>4, <1>5, <1>6 DEF CodeOK, ChainedCode, StopsAtBreakpoints
<1>10. ASSUME NEW a \in Pcs, d.jc[a] # NoTb
       PROVE  d.tbs[d.jc[a]].pc = a /\ IsMapped(d.tbs[d.jc[a]])'
  <2>1. PICK tb : tb = d.tbs[d.jc[a]]
    OBVIOUS
  <2>2. PageOf(a) \notin {v - 1, v} /\ d.jc[a] = cache.jc[a]
    BY <1>4, <1>10
  <2>3. tb.pc = a /\ IsMapped(tb)
    BY <1>1, <1>4, <1>10, <2>1, <2>2 DEF CodeOK, JumpCacheRight
  <2>4. PICK q : q = PageOf(a)
    OBVIOUS
  <2>5. q \in VPages /\ tb.p0 = vmap[q] /\ (TwoPages(tb) => q + 1 \in VPages /\ tb.p1 = vmap[q + 1])
    BY <2>3, <2>4 DEF IsMapped
  <2>6. q # v /\ q + 1 # v
    <3>1. q \in Nat /\ v \in Nat
      BY <2>5, TbCacheAssumption
    <3> QED
      BY <2>2, <2>4, <3>1
  <2>7. vmap'[q] = vmap[q] /\ (TwoPages(tb) => vmap'[q + 1] = vmap[q + 1])
    BY <1>7, <2>5, <2>6
  <2>8. IsMapped(d.tbs[d.jc[a]])'
    BY <1>3, <1>4, <2>1, <2>3, <2>4, <2>5, <2>7 DEF IsMapped
  <2> QED
    BY <2>1, <2>3, <2>8
<1>11. JumpCacheRight(cache)'
  BY <1>3, <1>10 DEF JumpCacheRight
<1>12. CodeOK(cache)'
  BY <1>8, <1>9, <1>11 DEF CodeOK
<1>13. FreshCode(d, cur)
  BY <1>1, <1>4, <1>5 DEF FreshCode, Fresh
<1>14. FreshCode(cache, cur)'
  BY <1>3, <1>6, <1>13, FreshPrimed
<1>15. StaysMapped(cache.tbs[cur])'
  BY <1>1, <1>3, <1>4, <1>6 DEF StaysMapped
<1> QED
  BY <1>6, <1>12, <1>14, <1>15 DEF CurrentInv

LEMMA BreakpointCurrent ==
    ASSUME TbInv, CurrentInv, cpu_breakpoint_insert \/ cpu_breakpoint_remove
    PROVE  CurrentInv'
<1>1. CacheOK(cache) /\ CodeOK(cache) /\ ControlInv
  BY DEF TbInv, CurrentInv
<1>2. PICK a : BreakpointStep(a)
  BY <1>1, BreakpointIs
<1>3. /\ a \in Nat /\ cache' = breakpoint_invalidate(cache, a) /\ bps' \in {bps \cup {a}, bps \ {a}}
      /\ loc' = "host" /\ vmap' = vmap
  BY <1>2 DEF BreakpointStep
<1>4. PICK d : d = cache'
  OBVIOUS
<1>5. /\ CacheOK(d) /\ Dropped(cache, d)
      /\ \A t \in 1 .. Len(cache.tbs) :
            /\ cache.tbs[t].pc <= a /\ a <= cache.tbs[t].pc + cache.tbs[t].size
            /\ PageOf(a) = PageOf(cache.tbs[t].pc)
            => ~InHash(d, t)
  BY <1>1, <1>3, <1>4, BreakpointInvalidated
<1>6. CodeOK(d)
  BY <1>1, <1>5, DroppedCode
<1>7. \A t \in 1 .. Len(cache.tbs) : SameBlock(cache.tbs[t], d.tbs[t])
  BY <1>5 DEF Dropped
<1>8. Len(d.tbs) = Len(cache.tbs) /\ d \in Caches
  BY <1>5 DEF Dropped, CacheOK
<1>9. ASSUME NEW t \in 1 .. Len(d.tbs), InHash(d, t)
      PROVE  StopsAtBreakpoints(d.tbs[t])'
  <2>1. PICK tb \in Blocks : tb = d.tbs[t]
    BY <1>8, CacheFields
  <2>2. WellShaped(tb) /\ StopsAtBreakpoints(tb)
    BY <1>5, <1>6, <1>9, <2>1 DEF CacheOK, CodeOK, ChainedCode
  <2>3. tb.pc \in Nat /\ tb.size \in Nat
    BY BlockFields
  <2>4. tb.pc = cache.tbs[t].pc /\ tb.size = cache.tbs[t].size
    BY <1>7, <1>8, <2>1 DEF SameBlock
  <2>5. ~(tb.pc <= a /\ a <= tb.pc + tb.size /\ PageOf(a) = PageOf(tb.pc))
    BY <1>5, <1>8, <1>9, <2>4
  <2>6. ASSUME NEW x \in Pcs, tb.pc <= x, x < tb.pc + tb.size
        PROVE  x \notin bps'
    <3>1. x \notin bps
      BY <2>2, <2>6 DEF StopsAtBreakpoints
    <3>2. PageOf(x) = PageOf(tb.pc) /\ x \in Nat
      BY <2>2, <2>6, TbCacheAssumption DEF WellShaped, InsnsOf
    <3>3. x # a
      BY <2>3, <2>5, <2>6, <3>2
    <3> QED
      BY <1>3, <3>1, <3>3
  <2>7. ASSUME tb.trap
        PROVE  tb.pc + tb.size \in bps'
    <3>1. tb.pc + tb.size \in bps
      BY <2>2, <2>7 DEF StopsAtBreakpoints
    <3>2. PageOf(tb.pc + tb.size) = PageOf(tb.pc)
      BY <2>2, <2>7 DEF WellShaped
    <3>3. tb.pc + tb.size # a
      BY <2>3, <2>5, <3>2
    <3> QED
      BY <1>3, <3>1, <3>3
  <2> QED
    BY <1>4, <2>1, <2>6, <2>7 DEF StopsAtBreakpoints
<1>10. JumpsRight(cache')
  BY <1>4, <1>6 DEF CodeOK
<1>11. ChainedCode(cache)'
  BY <1>4, <1>6, <1>9 DEF CodeOK, ChainedCode
<1>12. JumpCacheRight(cache)'
  BY <1>3, <1>4, <1>6 DEF CodeOK, JumpCacheRight, IsMapped
<1>13. CodeOK(cache)'
  BY <1>10, <1>11, <1>12 DEF CodeOK
<1> QED
  BY <1>3, <1>13 DEF CurrentInv

LEMMA FlushCurrent ==
    ASSUME TbInv, tlib_invalidate_translation_cache
    PROVE  CurrentInv'
<1>1. PICK d : d = cache'
  OBVIOUS
<1>2. Emptied(d)
  BY <1>1, Flushed DEF TbInv, tlib_invalidate_translation_cache
<1>3. loc' = "host" /\ vmap' = vmap /\ bps' = bps
  BY DEF tlib_invalidate_translation_cache, switches, mmu
<1>4. CodeOK(cache)'
  BY <1>1, <1>2, <1>3, EmptyCode, CodePrimed
<1> QED
  BY <1>3, <1>4 DEF CurrentInv

\* Steps to the host or of the host that leave the cache alone.
LEMMA HostCurrent ==
    ASSUME CurrentInv, Expire \/ tlib_set_chaining_enabled
    PROVE  CurrentInv'
<1>1. loc' = "host" /\ cache' = cache /\ vmap' = vmap /\ bps' = bps
  BY DEF Expire, tlib_set_chaining_enabled, switches, mmu
<1>2. PICK d : d = cache'
  OBVIOUS
<1>3. CodeOK(cache)'
  BY <1>1, <1>2, CodePrimed DEF CurrentInv
<1> QED
  BY <1>1, <1>3 DEF CurrentInv

LEMMA CurrentInit ==
    ASSUME TbInit
    PROVE  CurrentInv
<1>1. MinBlocks \in MinBlocks .. MaxBlocks
  BY TbCacheAssumption
<1>2. PICK d \in Caches : /\ d = EmptyCache(MinBlocks) /\ d.tbs = <<>>
                          /\ d.hash = [b \in 0 .. Buckets - 1 |-> <<>>]
                          /\ d.pages = [p \in PPages |-> {}] /\ d.jc = [a \in Pcs |-> NoTb]
  BY <1>1, EmptyFields
<1>3. Emptied(cache)
  BY <1>2, EmptyOK DEF TbInit
<1>4. CodeOK(cache) /\ loc = "host"
  BY <1>3, EmptyCode DEF TbInit
<1> QED
  BY <1>4 DEF CurrentInv

LEMMA CurrentUnchanged ==
    ASSUME CurrentInv, UNCHANGED vars
    PROVE  CurrentInv'
<1>1. /\ cache' = cache /\ vmap' = vmap /\ bps' = bps /\ loc' = loc /\ cur' = cur /\ pc' = pc
      /\ next_tb' = next_tb
  BY DEF vars, switches, mmu
<1>2. PICK d : d = cache'
  OBVIOUS
<1>3. CodeOK(cache)'
  BY <1>1, <1>2, CodePrimed DEF CurrentInv
<1>4. loc = "loop" => AllSettled(cache') /\ (next_tb' # NoExit => ExitRight(cache, next_tb, pc)')
  BY <1>1 DEF CurrentInv, ExitRight
<1>5. loc = "header" => FreshCode(cache, NoTb)' /\ AtHeader(cache, cur, pc)'
  <2>1. loc = "header" => FreshCode(cache, NoTb)'
    BY <1>1, <1>2, FreshPrimed DEF CurrentInv
  <2> QED
    BY <1>1, <2>1 DEF CurrentInv, AtHeader, Fresh, IsMapped
<1>6. loc = "body" => FreshCode(cache, cur)' /\ StaysMapped(cache.tbs[cur])'
  <2>1. loc = "body" => FreshCode(cache, cur)'
    BY <1>1, <1>2, FreshPrimed DEF CurrentInv
  <2> QED
    BY <1>1, <2>1 DEF CurrentInv, StaysMapped
<1> QED
  BY <1>1, <1>3, <1>4, <1>5, <1>6 DEF CurrentInv

LEMMA CurrentStep ==
    ASSUME WellFormedProgram, AdjacentMaps, TbInv, CurrentInv, [TbNext]_vars
    PROVE  CurrentInv'
<1>1. CASE Lookup
  BY <1>1, FastCurrent, LookupFaultsCurrent, SlowCurrent, NotFoundCurrent, GenCodeFaultsCurrent DEF Lookup
<1>2. CASE Running
  BY <1>2, HeaderRestartCurrent, HeaderRunCurrent, LeaveBlockCurrent, SettlingCurrent, InterruptCurrent,
     InterruptFaultsCurrent, GuestStoreCurrent, FlushPageCurrent DEF Running
<1>3. CASE Host \/ Expire
  BY <1>3, SettlingCurrent, HostWriteCurrent, BreakpointCurrent, FlushCurrent, HostCurrent DEF Host
<1>4. CASE UNCHANGED vars
  BY <1>4, CurrentUnchanged
<1> QED
  BY <1>1, <1>2, <1>3, <1>4 DEF TbNext

\* The header lets in what CurrentInv promises of it.
LEMMA EnteredFollows ==
    ASSUME TbInv, CurrentInv, [TbNext]_vars, loc = "header", loc' = "body"
    PROVE  cache.tbs[cur].pc = pc /\ IsCurrent(cache.tbs[cur])
<1>1. HeaderRun
  BY DEF TbNext, Lookup, Running, Host, vars, tb_find_fast, LookupFaults, tb_find_slow,
         tb_find_slow_not_found, tb_gen_code_faults, Looking, HeaderRestart, LeaveBlock, LeaveIndirect,
         LeaveByBreakpoint, InterruptBlock, InterruptFaults, GuestStore, tlb_flush_page, tlib_execute,
         HostWrite, cpu_breakpoint_insert, cpu_breakpoint_remove, tlib_invalidate_translation_cache,
         tlib_set_chaining_enabled, Expire
<1>2. cur \in 1 .. Len(cache.tbs)
  BY CurrentCount
<1>3. /\ ~cache.tbs[cur].dirty /\ CodeOK(cache) /\ FreshCode(cache, NoTb) /\ AtHeader(cache, cur, pc)
  BY <1>1 DEF HeaderRun, CurrentInv
<1>4. Fresh(cache, cur) /\ cache.tbs[cur].pc = pc /\ IsMapped(cache.tbs[cur])
  BY <1>3 DEF AtHeader
<1>5. cache.tbs[cur].code # "stale"
  BY <1>2, <1>3, <1>4 DEF Fresh, CodeOK, ChainedCode
<1>6. StopsAtBreakpoints(cache.tbs[cur])
  BY <1>2, <1>3, <1>4 DEF FreshCode
<1> QED
  BY <1>4, <1>5, <1>6 DEF IsCurrent, IsMapped, StopsAtBreakpoints

\* The block that the header lets in is the one for the guest's pc and what tb_gen_code
\* would make of its address now (tb_find_fast, tb_find_slow, tb_add_jump,
\* prepare_block_for_execution): for every program, every size of the buffer and of the
\* pages, and every set of page tables that map neighbouring pages to neighbours in
\* physical memory.  helper_mark_tbs_as_dirty needs the last: it places a block by its
\* first page only.
THEOREM EnteredIsCurrent ==
    ASSUME \A m \in Maps, v \in VPages :
               v + 1 \in VPages /\ m[v] # NoPage /\ m[v + 1] # NoPage => m[v + 1] = m[v] + 1
    PROVE  TbSpec => EnteredBlockIsCurrent
<1>1. AdjacentMaps
  BY DEF AdjacentMaps
<1>2. TbInit => TbInv /\ CurrentInv
  BY TbInvInit, CurrentInit
<1>3. TbInv /\ CurrentInv /\ [TbNext]_vars => (TbInv /\ CurrentInv)'
  BY <1>1, TbInvStep, CurrentStep, ProgramAssumption
<1>4. TbInv /\ CurrentInv /\ [TbNext]_vars =>
          [loc = "header" /\ loc' = "body" => cache.tbs[cur].pc = pc /\ IsCurrent(cache.tbs[cur])]_vars
  BY EnteredFollows
<1> QED
  BY <1>2, <1>3, <1>4, PTL DEF TbSpec, EnteredBlockIsCurrent
=============================================================================
