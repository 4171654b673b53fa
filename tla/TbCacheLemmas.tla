-------------------------- MODULE TbCacheLemmas ---------------------------
(***************************************************************************)
(* What the operations of TbCache do to a cache, for any program whose     *)
(* control stays inside it and whose instructions do not overlap, any page *)
(* tables, and buffers of any size.                                        *)
(*                                                                         *)
(* The operations are operators from a record to a record, and so the      *)
(* lemmas are about such records: CacheOK holds of every cache that is     *)
(* reached, and Dropped(c, d) says that d is c without some of its blocks, *)
(* which is what every way of invalidating blocks comes to.                *)
(***************************************************************************)
EXTENDS TbCache, FiniteSetTheorems, SequenceTheorems, NaturalsInduction, WellFoundedInduction, TLAPS

-----------------------------------------------------------------------------
(* The invariant *)

Codes == {"current", "behind", "stale"}

Blocks ==
    [pc : Pcs, size : Nat, icount : 0 .. Quantum, last : Pcs, cut : BOOLEAN, trap : BOOLEAN,
     p0 : PPages \cup {0}, p1 : PPages \cup {0, NoPage}, dirty : BOOLEAN, code : Codes,
     jmp : [0 .. 1 -> Nat], inc : SUBSET (Nat \X (0 .. 1))]

Caches ==
    [tbs : Seq(Blocks), hash : [0 .. Buckets - 1 -> Seq(Nat)], pages : [PPages -> SUBSET Nat],
     jc : [Pcs -> Nat], invalidated : BOOLEAN, max : MinBlocks .. MaxBlocks]

\* The instructions of a block.
InsnsOf(tb) == {a \in Pcs : tb.pc <= a /\ a < tb.pc + tb.size}

\* What Shape makes of a block: it starts with one of its instructions and ends
\* behind the last one, which starts on the page on which the block does.
WellShaped(tb) ==
    /\ tb.pc <= tb.last /\ PageOf(tb.last) = PageOf(tb.pc)
    /\ ~tb.trap => tb.pc + tb.size = tb.last + InsnLen[tb.last]
    /\ tb.trap => tb.pc + tb.size \in Pcs /\ PageOf(tb.pc + tb.size) = PageOf(tb.pc)
    /\ IsFiniteSet(InsnsOf(tb)) /\ Cardinality(InsnsOf(tb)) <= tb.icount
    /\ \A a \in InsnsOf(tb) : PageOf(a) = PageOf(tb.pc)

PagesOf(tb) == {tb.p0, tb.p1} \ {NoPage}

Distinct(s) == \A i, j \in 1 .. Len(s) : s[i] = s[j] => i = j

Chains(c) ==
    \A b \in 0 .. Buckets - 1 :
        /\ Distinct(c.hash[b])
        /\ \A t : Contains(c.hash[b], t) =>
              t \in 1 .. Len(c.tbs) /\ Chain(StartOf(c.tbs[t])) = b

PageLists(c) ==
    /\ \A p \in PPages : \A t \in c.pages[p] :
          t \in 1 .. Len(c.tbs) /\ InHash(c, t) /\ p \in PagesOf(c.tbs[t])
    /\ \A t \in 1 .. Len(c.tbs) : InHash(c, t) =>
          \A p \in PagesOf(c.tbs[t]) : p \in PPages /\ t \in c.pages[p]

Jumps(c) ==
    /\ \A t \in 1 .. Len(c.tbs) :
          /\ \A n \in 0 .. 1 : c.tbs[t].jmp[n] \in 0 .. Len(c.tbs)
          /\ \A x \in c.tbs[t].inc : x \in (1 .. Len(c.tbs)) \X (0 .. 1)
    /\ \A t \in 1 .. Len(c.tbs), n \in 0 .. 1 :
          InHash(c, t) /\ c.tbs[t].jmp[n] # NoTb =>
              /\ InHash(c, c.tbs[t].jmp[n])
              /\ <<t, n>> \in c.tbs[c.tbs[t].jmp[n]].inc

JumpCache(c) == \A a \in Pcs : c.jc[a] # NoTb => InHash(c, c.jc[a])

CacheOK(c) ==
    /\ c \in Caches /\ Len(c.tbs) <= c.max
    /\ \A t \in 1 .. Len(c.tbs) : WellShaped(c.tbs[t])
    /\ Chains(c) /\ PageLists(c) /\ Jumps(c) /\ JumpCache(c)

StopsAtBreakpoints(tb) ==
    /\ \A a \in Pcs : tb.pc <= a /\ a < tb.pc + tb.size => a \notin bps
    /\ tb.trap => tb.pc + tb.size \in bps

\* Where a block was translated from is what its address is mapped to.
IsMapped(tb) ==
    /\ PageOf(tb.pc) \in VPages /\ tb.p0 = vmap[PageOf(tb.pc)]
    /\ TwoPages(tb) => PageOf(tb.pc) + 1 \in VPages /\ tb.p1 = vmap[PageOf(tb.pc) + 1]


-----------------------------------------------------------------------------
(* Sequences and recursion *)

\* A nonempty set of numbers has a least element.
LEMMA LeastElement ==
    ASSUME NEW S, \A i \in S : i \in Nat, S # {}
    PROVE  \E k \in S : \A j \in S : k <= j
<1> DEFINE R == OpToRel(<, Nat)
<1>1. \A j, k \in Nat : j < k => <<j, k>> \in R
  BY DEF OpToRel
<1> HIDE DEF R
<1>2. IsWellFoundedOn(R, Nat) /\ S \subseteq Nat
  BY NatLessThanWellFounded DEF R
<1>3. PICK k \in S : \A j \in S : ~ (<<j, k>> \in R)
  BY <1>2, WFMin, Zenon
<1>4. \A j \in S : ~(j < k)
  BY <1>1, <1>3
<1> QED
  BY <1>4

\* A step that stays within a set can be repeated any number of times: the
\* recursive functions of TbCache have solutions.
IsIteration(S, c, n, step, f) ==
    f \in [0 .. n -> S] /\ f[0] = c /\ \A i \in 1 .. n : f[i] = step[<<i, f[i - 1]>>]

LEMMA Iterates ==
    ASSUME NEW S, NEW c \in S, NEW n \in Nat, NEW step, step \in [(1 .. n) \X S -> S]
    PROVE  \E f : IsIteration(S, c, n, step, f)
<1> DEFINE Upto(f, k) == /\ f \in [0 .. k -> S] /\ f[0] = c
                         /\ \A i \in 1 .. k : f[i] = step[<<i, f[i - 1]>>]
           Bad == {k \in 0 .. n : ~\E f : Upto(f, k)}
<1>1. Bad = {}
  <2> SUFFICES ASSUME Bad # {} PROVE FALSE
    OBVIOUS
  <2>1. \A k \in Bad : k \in Nat
    OBVIOUS
  <2>2. PICK m \in Bad : \A j \in Bad : m <= j
    BY <2>1, LeastElement
  <2>3. m # 0
    <3>1. Upto([i \in 0 .. 0 |-> c], 0)
      OBVIOUS
    <3> QED
      BY <2>2, <3>1
  <2>4. PICK k \in Nat : m = k + 1
    BY <2>2, <2>3
  <2>5. k \in 0 .. n /\ k \notin Bad
    <3>1. m \in 0 .. n
      BY <2>2
    <3>2. k \in 0 .. n /\ ~(m <= k)
      BY <2>4, <3>1
    <3> HIDE DEF Bad
    <3> QED
      BY <2>2, <3>2
  <2>6. PICK f : Upto(f, k)
    BY <2>5
  <2>7. PICK x \in S : x = step[<<m, f[k]>>]
    <3>1. f[k] \in S /\ m \in 1 .. n
      BY <2>2, <2>4, <2>6
    <3> QED
      BY <3>1
  <2> DEFINE g == [i \in 0 .. m |-> IF i = m THEN x ELSE f[i]]
  <2>8. g \in [0 .. m -> S] /\ g[0] = c
    BY <2>2, <2>4, <2>6, <2>7
  <2>9. ASSUME NEW i \in 1 .. m PROVE g[i] = step[<<i, g[i - 1]>>]
    <3>1. i - 1 \in 0 .. m /\ i - 1 # m /\ i \in 0 .. m
      BY <2>2
    <3>2. g[i - 1] = f[i - 1]
      BY <3>1
    <3>3. CASE i = m
      BY <2>4, <2>7, <3>1, <3>2, <3>3
    <3>4. CASE i # m
      BY <2>4, <2>6, <3>1, <3>2, <3>4
    <3> QED
      BY <3>3, <3>4
  <2>10. Upto(g, m)
    BY <2>8, <2>9
  <2> QED
    BY <2>2, <2>10
<1>2. n \in 0 .. n
  OBVIOUS
<1> HIDE DEF Upto
<1>3. PICK f : Upto(f, n)
  BY <1>1, <1>2
<1> QED
  BY <1>3 DEF Upto, IsIteration

\* The elements of a chain from which one is taken.
LEMMA RemovedFromChain ==
    ASSUME NEW s \in Seq(Nat), Distinct(s), NEW i \in 1 .. Len(s)
    PROVE  /\ RemoveAt(s, i) \in Seq(Nat) /\ Distinct(RemoveAt(s, i))
           /\ Len(RemoveAt(s, i)) = Len(s) - 1
           /\ \A x : Contains(RemoveAt(s, i), x) <=> Contains(s, x) /\ x # s[i]
<1> DEFINE n == Len(s)
           l == SubSeq(s, 1, i - 1)
           r == SubSeq(s, i + 1, n)
           u == l \o r
<1>1. n \in Nat /\ i \in Nat /\ i >= 1 /\ i <= n
  OBVIOUS
<1>2. l \in Seq(Nat) /\ Len(l) = i - 1 /\ \A k \in 1 .. i - 1 : l[k] = s[k]
  BY <1>1
<1>3. r \in Seq(Nat) /\ Len(r) = n - i /\ \A k \in 1 .. n - i : r[k] = s[i + k]
  BY <1>1
<1>4. RemoveAt(s, i) = u
  BY DEF RemoveAt
<1> HIDE DEF n, l, r
<1>5. /\ u \in Seq(Nat) /\ Len(u) = Len(l) + Len(r)
      /\ \A k \in 1 .. Len(l) + Len(r) : u[k] = IF k <= Len(l) THEN l[k] ELSE r[k - Len(l)]
  BY <1>2, <1>3, ConcatProperties
<1>6. Len(u) = n - 1
  BY <1>1, <1>2, <1>3, <1>5
<1> HIDE DEF u
<1>7. ASSUME NEW k \in 1 .. n - 1 PROVE u[k] = IF k < i THEN s[k] ELSE s[k + 1]
  <2>1. CASE k < i
    <3>1. k \in 1 .. i - 1 /\ k <= Len(l) /\ k \in 1 .. Len(l) + Len(r)
      BY <1>1, <1>2, <1>3, <2>1
    <3> QED
      BY <1>2, <1>5, <2>1, <3>1
  <2>2. CASE ~(k < i)
    <3>1. k - (i - 1) \in 1 .. n - i /\ i + (k - (i - 1)) = k + 1 /\ ~(k <= i - 1)
      BY <1>1, <2>2
    <3>2. u[k] = r[k - (i - 1)]
      BY <1>2, <1>5, <1>6, <3>1
    <3> QED
      BY <1>3, <2>2, <3>1, <3>2
  <2> QED
    BY <2>1, <2>2
<1>8. Distinct(u)
  <2> SUFFICES ASSUME NEW j \in 1 .. n - 1, NEW k \in 1 .. n - 1, u[j] = u[k] PROVE j = k
    BY <1>6 DEF Distinct
  <2>1. \A j1, k1 \in 1 .. n : s[j1] = s[k1] => j1 = k1
    BY DEF Distinct, n
  <2> QED
    BY <1>1, <1>7, <2>1
<1>9. ASSUME NEW x, Contains(u, x) PROVE Contains(s, x) /\ x # s[i]
  <2>1. PICK k \in 1 .. n - 1 : u[k] = x
    BY <1>6, <1>9 DEF Contains
  <2>2. PICK j \in 1 .. n : j # i /\ s[j] = x
    BY <1>1, <1>7, <2>1
  <2> QED
    BY <1>1, <2>2 DEF Contains, Distinct, n
<1>10. ASSUME NEW x, Contains(s, x), x # s[i] PROVE Contains(u, x)
  <2>1. PICK j \in 1 .. n : s[j] = x
    BY <1>10 DEF Contains, n
  <2>2. \E k \in 1 .. n - 1 : u[k] = x
    <3>1. CASE j < i
      <4>1. j \in 1 .. n - 1
        BY <1>1, <3>1
      <4> QED
        BY <1>7, <2>1, <3>1, <4>1
    <3>2. CASE j > i
      <4>1. j - 1 \in 1 .. n - 1 /\ ~(j - 1 < i) /\ (j - 1) + 1 = j
        BY <1>1, <3>2
      <4> QED
        BY <1>7, <2>1, <4>1
    <3> QED
      BY <1>1, <1>10, <2>1, <3>1, <3>2
  <2> QED
    BY <1>6, <2>2 DEF Contains
<1> QED
  BY <1>4, <1>5, <1>6, <1>8, <1>9, <1>10 DEF n

\* The elements of a chain into which one is put.
LEMMA InsertedIntoChain ==
    ASSUME NEW s \in Seq(Nat), Distinct(s), NEW i \in 1 .. Len(s) + 1, NEW t \in Nat, ~Contains(s, t)
    PROVE  /\ InsertAt(s, i, t) \in Seq(Nat) /\ Distinct(InsertAt(s, i, t))
           /\ \A x : Contains(InsertAt(s, i, t), x) <=> Contains(s, x) \/ x = t
<1> DEFINE n == Len(s)
           l == SubSeq(s, 1, i - 1)
           m == l \o <<t>>
           r == SubSeq(s, i, n)
           u == m \o r
<1>1. n \in Nat /\ i \in Nat /\ i >= 1 /\ i <= n + 1
  OBVIOUS
<1>2. l \in Seq(Nat) /\ Len(l) = i - 1 /\ \A k \in 1 .. i - 1 : l[k] = s[k]
  BY <1>1
<1>3. r \in Seq(Nat) /\ Len(r) = n + 1 - i /\ \A k \in 1 .. n + 1 - i : r[k] = s[i + k - 1]
  BY <1>1
<1>4. InsertAt(s, i, t) = u
  BY DEF InsertAt
<1>5. <<t>> \in Seq(Nat) /\ Len(<<t>>) = 1 /\ <<t>>[1] = t
  OBVIOUS
<1> HIDE DEF n, l, r
<1>6. /\ m \in Seq(Nat) /\ Len(m) = i
      /\ \A k \in 1 .. i : m[k] = IF k < i THEN s[k] ELSE t
  <2>1. /\ m \in Seq(Nat) /\ Len(m) = Len(l) + 1
        /\ \A k \in 1 .. Len(l) + 1 : m[k] = IF k <= Len(l) THEN l[k] ELSE <<t>>[k - Len(l)]
    BY <1>2, <1>5, ConcatProperties
  <2>2. ASSUME NEW k \in 1 .. i PROVE m[k] = IF k < i THEN s[k] ELSE t
    <3>1. CASE k < i
      BY <1>1, <1>2, <2>1, <3>1
    <3>2. CASE k = i
      <4>1. k \in 1 .. Len(l) + 1 /\ ~(k <= Len(l)) /\ k - Len(l) = 1
        BY <1>1, <1>2, <3>2
      <4> QED
        BY <1>5, <2>1, <3>2, <4>1
    <3>3. k < i \/ k = i
      BY <1>1
    <3> QED
      BY <3>1, <3>2, <3>3, Zenon
  <2>3. Len(l) + 1 = i
    BY <1>1, <1>2
  <2> QED
    BY <2>1, <2>2, <2>3
<1> HIDE DEF m
<1>7. /\ u \in Seq(Nat) /\ Len(u) = Len(m) + Len(r)
      /\ \A k \in 1 .. Len(m) + Len(r) : u[k] = IF k <= Len(m) THEN m[k] ELSE r[k - Len(m)]
  BY <1>3, <1>6, ConcatProperties
<1>8. Len(u) = n + 1
  BY <1>1, <1>3, <1>6, <1>7
<1> HIDE DEF u
<1>9. ASSUME NEW k \in 1 .. n + 1
      PROVE  u[k] = IF k < i THEN s[k] ELSE IF k = i THEN t ELSE s[k - 1]
  <2>1. CASE k <= i
    <3>1. k \in 1 .. i /\ k <= Len(m) /\ k \in 1 .. Len(m) + Len(r)
      BY <1>1, <1>3, <1>6, <2>1
    <3>2. u[k] = IF k < i THEN s[k] ELSE t
      BY <1>6, <1>7, <3>1
    <3> QED
      BY <1>1, <2>1, <3>2
  <2>2. CASE ~(k <= i)
    <3>1. k - i \in 1 .. n + 1 - i /\ i + (k - i) - 1 = k - 1
      BY <1>1, <2>2
    <3>2. u[k] = r[k - i]
      BY <1>6, <1>7, <1>8, <2>2
    <3> QED
      BY <1>1, <1>3, <2>2, <3>1, <3>2
  <2> QED
    BY <2>1, <2>2
<1>10. \A k \in 1 .. n : s[k] # t
  BY DEF Contains, n
<1>11. \A j, k \in 1 .. n : s[j] = s[k] => j = k
  BY DEF Distinct, n
<1>12. Distinct(u)
  <2> SUFFICES ASSUME NEW j \in 1 .. n + 1, NEW k \in 1 .. n + 1, u[j] = u[k] PROVE j = k
    BY <1>8 DEF Distinct
  <2>1. CASE j = i \/ k = i
    BY <1>1, <1>9, <1>10, <2>1
  <2>2. CASE j # i /\ k # i
    BY <1>1, <1>9, <1>11, <2>2
  <2> QED
    BY <2>1, <2>2
<1>13. ASSUME NEW x, Contains(u, x) PROVE Contains(s, x) \/ x = t
  <2>1. PICK k \in 1 .. n + 1 : u[k] = x
    BY <1>8, <1>13 DEF Contains
  <2>2. x = t \/ \E j \in 1 .. n : s[j] = x
    <3>1. CASE k < i
      <4>1. k \in 1 .. n /\ s[k] = x
        BY <1>1, <1>9, <2>1, <3>1
      <4> QED
        BY <4>1
    <3>2. CASE k > i
      <4>1. k - 1 \in 1 .. n /\ s[k - 1] = x
        BY <1>1, <1>9, <2>1, <3>2
      <4> QED
        BY <4>1
    <3>3. CASE k = i
      BY <1>9, <2>1, <3>3
    <3> QED
      BY <1>1, <3>1, <3>2, <3>3
  <2> QED
    BY <2>2 DEF Contains, n
<1>14. Contains(u, t)
  <2>1. i \in 1 .. n + 1 /\ u[i] = t
    BY <1>1, <1>9
  <2> QED
    BY <1>8, <2>1 DEF Contains
<1>15. ASSUME NEW x, Contains(s, x) PROVE Contains(u, x)
  <2>1. PICK j \in 1 .. n : s[j] = x
    BY <1>15 DEF Contains, n
  <2>2. \E k \in 1 .. n + 1 : u[k] = x
    <3>1. CASE j < i
      <4>1. j \in 1 .. n + 1
        BY <1>1
      <4> QED
        BY <1>9, <2>1, <3>1, <4>1
    <3>2. CASE ~(j < i)
      <4>1. j + 1 \in 1 .. n + 1 /\ ~(j + 1 < i) /\ j + 1 # i /\ (j + 1) - 1 = j
        BY <1>1, <3>2
      <4> QED
        BY <1>9, <2>1, <4>1
    <3> QED
      BY <3>1, <3>2
  <2> QED
    BY <1>8, <2>2 DEF Contains
<1> QED
  BY <1>4, <1>7, <1>12, <1>13, <1>14, <1>15

LEMMA FunctionIsSeq ==
    ASSUME NEW S, NEW n \in Nat, NEW f \in [1 .. n -> S]
    PROVE  f \in Seq(S) /\ Len(f) = n
OBVIOUS

-----------------------------------------------------------------------------
(* Invalidating a block *)

\* What of a block no operation on the cache changes.
SameBlock(tb, new) ==
    /\ new.pc = tb.pc /\ new.size = tb.size /\ new.icount = tb.icount /\ new.last = tb.last
    /\ new.cut = tb.cut /\ new.trap = tb.trap /\ new.p0 = tb.p0 /\ new.p1 = tb.p1

\* d is c without some of its blocks.
Dropped(c, d) ==
    /\ Len(d.tbs) = Len(c.tbs) /\ d.max = c.max
    /\ \A t \in 1 .. Len(c.tbs) :
          /\ SameBlock(c.tbs[t], d.tbs[t])
          /\ d.tbs[t].dirty = c.tbs[t].dirty /\ d.tbs[t].code = c.tbs[t].code
          /\ \A n \in 0 .. 1 : d.tbs[t].jmp[n] \in {c.tbs[t].jmp[n], NoTb}
    /\ \A t : InHash(d, t) => InHash(c, t)
    /\ \A p \in PPages : \A t \in d.pages[p] : t \in c.pages[p]
    /\ \A a \in Pcs : d.jc[a] \in {c.jc[a], NoTb}

LEMMA DroppedReflexive == \A c : Dropped(c, c)
BY DEF Dropped, SameBlock

LEMMA DroppedTransitive ==
    ASSUME NEW c, NEW d, NEW e, Dropped(c, d), Dropped(d, e)
    PROVE  Dropped(c, e)
<1>1. Len(e.tbs) = Len(c.tbs) /\ e.max = c.max /\ Len(d.tbs) = Len(c.tbs)
  BY DEF Dropped
<1>2. ASSUME NEW t \in 1 .. Len(c.tbs)
      PROVE  /\ SameBlock(c.tbs[t], e.tbs[t])
             /\ e.tbs[t].dirty = c.tbs[t].dirty /\ e.tbs[t].code = c.tbs[t].code
             /\ \A n \in 0 .. 1 : e.tbs[t].jmp[n] \in {c.tbs[t].jmp[n], NoTb}
  <2>1. /\ SameBlock(c.tbs[t], d.tbs[t]) /\ SameBlock(d.tbs[t], e.tbs[t])
        /\ d.tbs[t].dirty = c.tbs[t].dirty /\ d.tbs[t].code = c.tbs[t].code
        /\ e.tbs[t].dirty = d.tbs[t].dirty /\ e.tbs[t].code = d.tbs[t].code
        /\ \A n \in 0 .. 1 : d.tbs[t].jmp[n] \in {c.tbs[t].jmp[n], NoTb}
        /\ \A n \in 0 .. 1 : e.tbs[t].jmp[n] \in {d.tbs[t].jmp[n], NoTb}
    BY <1>1 DEF Dropped
  <2>2. SameBlock(c.tbs[t], e.tbs[t])
    BY <2>1 DEF SameBlock
  <2> QED
    BY <2>1, <2>2
<1>3. \A t : InHash(e, t) => InHash(c, t)
  BY DEF Dropped
<1>4. \A p \in PPages : \A t \in e.pages[p] : t \in c.pages[p]
  BY DEF Dropped
<1>5. \A a \in Pcs : e.jc[a] \in {c.jc[a], NoTb}
  BY DEF Dropped
<1> QED
  BY <1>1, <1>2, <1>3, <1>4, <1>5 DEF Dropped

LEMMA BlockFields ==
    ASSUME NEW tb \in Blocks
    PROVE  /\ tb.pc \in Pcs /\ tb.pc \in Nat /\ tb.size \in Nat /\ tb.icount \in 0 .. Quantum
           /\ tb.icount \in Nat /\ tb.last \in Pcs /\ tb.last \in Nat
           /\ tb.cut \in BOOLEAN /\ tb.trap \in BOOLEAN /\ tb.dirty \in BOOLEAN
           /\ tb.p0 \in PPages \cup {0} /\ tb.p0 \in Nat /\ tb.p1 \in PPages \cup {0, NoPage}
           /\ tb.p1 \in Int /\ tb.code \in Codes /\ tb.jmp \in [0 .. 1 -> Nat]
           /\ tb.inc \in SUBSET (Nat \X (0 .. 1))
<1>1. /\ tb.pc \in Pcs /\ tb.size \in Nat /\ tb.icount \in 0 .. Quantum /\ tb.last \in Pcs
      /\ tb.cut \in BOOLEAN /\ tb.trap \in BOOLEAN /\ tb.dirty \in BOOLEAN
      /\ tb.p0 \in PPages \cup {0} /\ tb.p1 \in PPages \cup {0, NoPage}
      /\ tb.code \in Codes /\ tb.jmp \in [0 .. 1 -> Nat] /\ tb.inc \in SUBSET (Nat \X (0 .. 1))
  BY DEF Blocks
<1>2. tb.pc \in Nat /\ tb.last \in Nat
  BY <1>1, TbCacheAssumption
<1>3. tb.p0 \in Nat /\ tb.p1 \in Int
  <2>1. \A p \in PPages : p \in Nat
    BY TbCacheAssumption
  <2> QED
    BY <1>1, <2>1 DEF NoPage
<1>4. tb.icount \in Nat
  BY <1>1, TbCacheAssumption
<1> QED
  BY <1>1, <1>2, <1>3, <1>4

LEMMA CacheFields ==
    ASSUME NEW c \in Caches
    PROVE  /\ c.tbs \in Seq(Blocks) /\ Len(c.tbs) \in Nat /\ DOMAIN c.tbs = 1 .. Len(c.tbs)
           /\ \A t \in 1 .. Len(c.tbs) : c.tbs[t] \in Blocks
           /\ c.hash \in [0 .. Buckets - 1 -> Seq(Nat)] /\ c.pages \in [PPages -> SUBSET Nat]
           /\ c.jc \in [Pcs -> Nat] /\ c.invalidated \in BOOLEAN
           /\ c.max \in MinBlocks .. MaxBlocks /\ c.max \in Nat
<1>1. /\ c.tbs \in Seq(Blocks) /\ c.hash \in [0 .. Buckets - 1 -> Seq(Nat)]
      /\ c.pages \in [PPages -> SUBSET Nat]
      /\ c.jc \in [Pcs -> Nat] /\ c.invalidated \in BOOLEAN
      /\ c.max \in MinBlocks .. MaxBlocks
  BY DEF Caches
<1>2. \A s \in Seq(Blocks) : /\ Len(s) \in Nat /\ DOMAIN s = 1 .. Len(s)
                             /\ \A t \in 1 .. Len(s) : s[t] \in Blocks
  OBVIOUS
<1>3. c.max \in Nat
  BY <1>1, TbCacheAssumption
<1> QED
  BY <1>1, <1>2, <1>3

LEMMA ChainType ==
    ASSUME NEW tb \in Blocks
    PROVE  StartOf(tb) \in Nat /\ Chain(StartOf(tb)) \in 0 .. Buckets - 1
<1>1. tb.p0 \in Nat /\ tb.pc \in Nat /\ PageSize \in Nat \ {0} /\ Buckets \in Nat \ {0}
  BY BlockFields, TbCacheAssumption
<1>2. \A m, n \in Nat : m * n \in Nat
  OBVIOUS
<1>3. StartOf(tb) \in Nat
  BY <1>1, <1>2 DEF StartOf, Off
<1> QED
  BY <1>1, <1>3 DEF Chain

\* The chains hold blocks only, each of them in the chain of its address.
LEMMA HashOf ==
    ASSUME NEW c \in Caches, Chains(c)
    PROVE  /\ \A t : InHash(c, t) => t \in 1 .. Len(c.tbs)
           /\ \A t \in 1 .. Len(c.tbs) :
                 InHash(c, t) <=> Contains(c.hash[Chain(StartOf(c.tbs[t]))], t)
<1>1. DOMAIN c.hash = 0 .. Buckets - 1
  BY CacheFields
<1>2. \A t \in 1 .. Len(c.tbs) : Chain(StartOf(c.tbs[t])) \in 0 .. Buckets - 1
  BY CacheFields, ChainType
<1> QED
  BY <1>1, <1>2 DEF InHash, Chains

LEMMA SameChain ==
    ASSUME NEW tb, NEW new, SameBlock(tb, new)
    PROVE  /\ StartOf(new) = StartOf(tb) /\ (TwoPages(new) <=> TwoPages(tb))
           /\ PagesOf(new) = PagesOf(tb) /\ InsnsOf(new) = InsnsOf(tb)
           /\ (WellShaped(tb) => WellShaped(new))
BY DEF SameBlock, StartOf, TwoPages, PagesOf, InsnsOf, WellShaped

LEMMA RemoveFirstIs ==
    ASSUME NEW s \in Seq(Nat), NEW t, Contains(s, t)
    PROVE  \E i \in 1 .. Len(s) : s[i] = t /\ RemoveFirst(s, t) = RemoveAt(s, i)
<1> DEFINE I == {i \in 1 .. Len(s) : s[i] = t}
<1>1. I # {} /\ \A i \in I : i \in Nat
  BY DEF Contains
<1>2. \E k \in I : \A j \in I : k <= j
  BY <1>1, LeastElement
<1>3. Min(I) \in I
  <2> HIDE DEF I
  <2> QED
    BY <1>2, Zenon DEF Min
<1>4. SelectInSeq(s, LAMBDA v : v = t) = Min(I)
  BY <1>1 DEF SelectInSeq
<1>5. RemoveFirst(s, t) = RemoveAt(s, Min(I))
  BY <1>4 DEF RemoveFirst, Contains
<1> QED
  BY <1>3, <1>5

\* Block u before and after tb_phys_invalidate of t.
BlockWithout(c, t, d, u) ==
    /\ SameBlock(c.tbs[u], d.tbs[u])
    /\ d.tbs[u].dirty = c.tbs[u].dirty /\ d.tbs[u].code = c.tbs[u].code
    /\ \A n \in 0 .. 1 : d.tbs[u].jmp[n] =
          IF u # t /\ <<u, n>> \in c.tbs[t].inc THEN NoTb ELSE c.tbs[u].jmp[n]
    /\ \A x \in d.tbs[u].inc : x \in c.tbs[u].inc
    /\ u # t => \A w, n : <<w, n>> \in c.tbs[u].inc /\ w # t => <<w, n>> \in d.tbs[u].inc

\* The cache after tb_phys_invalidate, field by field.
InvalidatedTo(c, t, d) ==
    /\ d \in Caches /\ Len(d.tbs) = Len(c.tbs) /\ d.max = c.max
    /\ \A u \in 1 .. Len(c.tbs) : BlockWithout(c, t, d, u)
    /\ d.hash[Chain(StartOf(c.tbs[t]))] = RemoveFirst(c.hash[Chain(StartOf(c.tbs[t]))], t)
    /\ \A x \in 0 .. Buckets - 1 : x # Chain(StartOf(c.tbs[t])) => d.hash[x] = c.hash[x]
    /\ \A p \in PPages : \A u \in d.pages[p] : u \in c.pages[p]
    /\ \A p \in PPages : \A u \in c.pages[p] : u # t => u \in d.pages[p]
    /\ \A p \in PPages : p = c.tbs[t].p0 \/ p = c.tbs[t].p1 => t \notin d.pages[p]
    /\ \A a \in Pcs : d.jc[a] = IF c.jc[a] = t THEN NoTb ELSE c.jc[a]

LEMMA InvalidatedFields ==
    ASSUME NEW c \in Caches, NEW t \in 1 .. Len(c.tbs),
           Contains(c.hash[Chain(StartOf(c.tbs[t]))], t), NEW d, d = tb_phys_invalidate(c, t)
    PROVE  InvalidatedTo(c, t, d)
<1> DEFINE b == Chain(StartOf(c.tbs[t]))
           tb == c.tbs[t]
           own == {<<t, 0>>, <<t, 1>>}
           Unlinked(u) ==
            [c.tbs[u] EXCEPT
                !.inc = IF u = t THEN {} ELSE c.tbs[u].inc \ own,
                !.jmp = [n \in 0 .. 1 |-> IF <<u, n>> \in tb.inc \ own THEN NoTb
                                          ELSE c.tbs[u].jmp[n]]]
           tbs == [u \in DOMAIN c.tbs |-> Unlinked(u)]
           h == [c.hash EXCEPT ![b] = RemoveFirst(c.hash[b], t)]
           ps == [p \in PPages |-> IF p \in {tb.p0, tb.p1} THEN c.pages[p] \ {t} ELSE c.pages[p]]
           jc == [a \in Pcs |-> IF c.jc[a] = t THEN NoTb ELSE c.jc[a]]
<1>1. /\ c.tbs \in Seq(Blocks) /\ Len(c.tbs) \in Nat /\ DOMAIN c.tbs = 1 .. Len(c.tbs)
      /\ \A u \in 1 .. Len(c.tbs) : c.tbs[u] \in Blocks
      /\ c.hash \in [0 .. Buckets - 1 -> Seq(Nat)] /\ c.pages \in [PPages -> SUBSET Nat]
      /\ c.jc \in [Pcs -> Nat] /\ c.max \in MinBlocks .. MaxBlocks
  BY CacheFields
<1>2. b \in 0 .. Buckets - 1
  BY <1>1, ChainType
<1>3. ASSUME NEW u \in 1 .. Len(c.tbs)
      PROVE  /\ Unlinked(u) \in Blocks /\ SameBlock(c.tbs[u], Unlinked(u))
             /\ Unlinked(u).dirty = c.tbs[u].dirty /\ Unlinked(u).code = c.tbs[u].code
             /\ \A n \in 0 .. 1 : Unlinked(u).jmp[n] =
                   IF <<u, n>> \in tb.inc \ own THEN NoTb ELSE c.tbs[u].jmp[n]
             /\ Unlinked(u).inc = IF u = t THEN {} ELSE c.tbs[u].inc \ own
  <2> DEFINE i == IF u = t THEN {} ELSE c.tbs[u].inc \ own
             j == [n \in 0 .. 1 |-> IF <<u, n>> \in tb.inc \ own THEN NoTb ELSE c.tbs[u].jmp[n]]
  <2>1. c.tbs[u] \in Blocks /\ c.tbs[u].inc \in SUBSET (Nat \X (0 .. 1)) /\ c.tbs[u].jmp \in [0 .. 1 -> Nat]
    BY <1>1, BlockFields
  <2>2. i \in SUBSET (Nat \X (0 .. 1)) /\ j \in [0 .. 1 -> Nat]
    BY <2>1 DEF NoTb
  <2>3. \A n \in 0 .. 1 : j[n] = IF <<u, n>> \in tb.inc \ own THEN NoTb ELSE c.tbs[u].jmp[n]
    OBVIOUS
  <2>4. Unlinked(u) = [c.tbs[u] EXCEPT !.inc = i, !.jmp = j]
    OBVIOUS
  <2>5. i = IF u = t THEN {} ELSE c.tbs[u].inc \ own
    OBVIOUS
  <2> HIDE DEF i, j, Unlinked
  <2> QED
    <3>1. PICK tc \in Blocks : tc = c.tbs[u]
      BY <2>1
    <3>2. PICK new : new = [tc EXCEPT !.inc = i, !.jmp = j]
      OBVIOUS
    <3>3. /\ new \in Blocks /\ SameBlock(tc, new) /\ new.dirty = tc.dirty
          /\ new.code = tc.code /\ new.jmp = j /\ new.inc = i
      BY <2>2, <3>2 DEF Blocks, SameBlock
    <3>4. Unlinked(u) = new
      BY <2>4, <3>1, <3>2
    <3> QED
      BY <2>3, <2>5, <3>1, <3>3, <3>4
<1> HIDE DEF Unlinked
<1>4. /\ tbs \in Seq(Blocks) /\ Len(tbs) = Len(c.tbs)
      /\ \A u \in 1 .. Len(c.tbs) : tbs[u] = Unlinked(u)
  <2>1. tbs \in [1 .. Len(c.tbs) -> Blocks] /\ \A u \in 1 .. Len(c.tbs) : tbs[u] = Unlinked(u)
    BY <1>1, <1>3
  <2> HIDE DEF tbs
  <2> QED
    BY <1>1, <2>1, FunctionIsSeq
<1>5. h \in [0 .. Buckets - 1 -> Seq(Nat)]
  <2>1. \A s \in Seq(Nat) : \A i \in 1 .. Len(s) : RemoveAt(s, i) \in Seq(Nat)
    BY DEF RemoveAt
  <2>2. RemoveFirst(c.hash[b], t) \in Seq(Nat)
    <3>1. c.hash[b] \in Seq(Nat) /\ Contains(c.hash[b], t)
      BY <1>1, <1>2
    <3>2. PICK i \in 1 .. Len(c.hash[b]) : RemoveFirst(c.hash[b], t) = RemoveAt(c.hash[b], i)
      BY <3>1, RemoveFirstIs
    <3> QED
      BY <2>1, <3>1, <3>2
  <2> QED
    BY <1>1, <1>2, <2>2
<1>6. ps \in [PPages -> SUBSET Nat]
  BY <1>1
<1>7. jc \in [Pcs -> Nat]
  BY <1>1 DEF NoTb
<1> HIDE DEF jc, ps, h
<1>8. d = [tbs |-> tbs, hash |-> h, pages |-> ps, jc |-> jc, invalidated |-> TRUE, max |-> c.max]
  <2>1. d = JmpCacheRemove([c EXCEPT !.hash[b] = RemoveFirst(@, t),
                          !.pages = [p \in PPages |->
                                        IF p \in {tb.p0, tb.p1} THEN @[p] \ {t} ELSE @[p]],
                          !.invalidated = TRUE,
                          !.tbs = [u \in DOMAIN @ |-> Unlinked(u)]], t)
    BY DEF tb_phys_invalidate, Unlinked
  <2>2. PICK e : e = [c EXCEPT !.hash[b] = RemoveFirst(@, t),
                          !.pages = [p \in PPages |->
                                        IF p \in {tb.p0, tb.p1} THEN @[p] \ {t} ELSE @[p]],
                          !.invalidated = TRUE,
                          !.tbs = [u \in DOMAIN @ |-> Unlinked(u)]]
    OBVIOUS
  <2>3. e = [tbs |-> tbs, hash |-> h, pages |-> ps, jc |-> c.jc, invalidated |-> TRUE, max |-> c.max]
    BY <2>2 DEF Caches, h, ps
  <2>4. d = [e EXCEPT !.jc = [a \in Pcs |-> IF e.jc[a] = t THEN NoTb ELSE e.jc[a]]]
    BY <2>1, <2>2 DEF JmpCacheRemove
  <2> HIDE DEF tbs
  <2>5. e.jc = c.jc
    BY <2>3
  <2>6. d = [e EXCEPT !.jc = jc]
    BY <2>4, <2>5 DEF jc
  <2> QED
    BY <2>3, <2>6
<1> HIDE DEF tbs
<1>9. d \in Caches
  BY <1>1, <1>4, <1>5, <1>6, <1>7, <1>8 DEF Caches
<1>10. d.tbs = tbs /\ d.hash = h /\ d.pages = ps /\ d.jc = jc /\ d.max = c.max
  BY <1>8
<1>11. (\A p \in PPages : ps[p] = IF p \in {tb.p0, tb.p1} THEN c.pages[p] \ {t} ELSE c.pages[p])
       /\ (\A a \in Pcs : jc[a] = IF c.jc[a] = t THEN NoTb ELSE c.jc[a])
  BY DEF ps, jc
<1> QED
  <2>1. d.hash = [c.hash EXCEPT ![b] = RemoveFirst(c.hash[b], t)]
    BY <1>10 DEF h
  <2>2. ASSUME NEW u \in 1 .. Len(c.tbs) PROVE d.tbs[u] = Unlinked(u)
    BY <1>4, <1>10
  <2>3. Len(d.tbs) = Len(c.tbs)
    BY <1>4, <1>10
  <2>4. /\ \A p \in PPages : d.pages[p] = IF p \in {tb.p0, tb.p1} THEN c.pages[p] \ {t}
                                          ELSE c.pages[p]
        /\ \A a \in Pcs : d.jc[a] = IF c.jc[a] = t THEN NoTb ELSE c.jc[a]
    BY <1>10, <1>11
  <2>5. ASSUME NEW u \in 1 .. Len(c.tbs) PROVE BlockWithout(c, t, d, u)
    <3>1. d.tbs[u] = Unlinked(u)
      BY <2>2
    <3>2. /\ SameBlock(c.tbs[u], Unlinked(u))
          /\ Unlinked(u).dirty = c.tbs[u].dirty /\ Unlinked(u).code = c.tbs[u].code
      BY <1>3
    <3>3. \A n \in 0 .. 1 : Unlinked(u).jmp[n] =
                IF u # t /\ <<u, n>> \in c.tbs[t].inc THEN NoTb ELSE c.tbs[u].jmp[n]
      <4>1. \A n \in 0 .. 1 : <<u, n>> \in own <=> u = t
        OBVIOUS
      <4>2. \A n \in 0 .. 1 : Unlinked(u).jmp[n] =
                IF <<u, n>> \in tb.inc \ own THEN NoTb ELSE c.tbs[u].jmp[n]
        BY <1>3
      <4> HIDE DEF own
      <4> QED
        BY <4>1, <4>2
    <3>4. Unlinked(u).inc = IF u = t THEN {} ELSE c.tbs[u].inc \ own
      BY <1>3
    <3>5. \A w, n : w # t => <<w, n>> \notin own
      OBVIOUS
    <3>6. \A x \in Unlinked(u).inc : x \in c.tbs[u].inc
      BY <3>4
    <3>7. u # t => \A w, n : <<w, n>> \in c.tbs[u].inc /\ w # t => <<w, n>> \in Unlinked(u).inc
      <4> HIDE DEF own
      <4> QED
        BY <3>4, <3>5
    <3> HIDE DEF own, tb
    <3> QED
      BY <3>1, <3>2, <3>3, <3>6, <3>7 DEF BlockWithout
  <2>6. d.hash[b] = RemoveFirst(c.hash[b], t) /\ \A x \in 0 .. Buckets - 1 : x # b => d.hash[x] = c.hash[x]
    <3> HIDE DEF b
    <3> QED
      BY <1>1, <1>2, <2>1
  <2>7. ASSUME NEW p \in PPages
        PROVE  /\ \A u \in d.pages[p] : u \in c.pages[p]
               /\ \A u \in c.pages[p] : u # t => u \in d.pages[p]
               /\ p = c.tbs[t].p0 \/ p = c.tbs[t].p1 => t \notin d.pages[p]
    <3>1. d.pages[p] = IF p \in {tb.p0, tb.p1} THEN c.pages[p] \ {t} ELSE c.pages[p]
      BY <2>4
    <3> QED
      BY <3>1
  <2> QED
    BY <1>9, <1>10, <2>3, <2>4, <2>5, <2>6, <2>7 DEF InvalidatedTo

\* tb_phys_invalidate takes the block out of its chain, its pages' lists and the
\* jump cache, and resets the jumps to it.  The jumps to a block are all in its
\* list, so nothing leads to it afterwards.
LEMMA Invalidated ==
    ASSUME NEW c, CacheOK(c), NEW t \in 1 .. Len(c.tbs), NEW d, d = tb_phys_invalidate(c, t)
    PROVE  /\ CacheOK(d) /\ Dropped(c, d)
           /\ \A u : InHash(d, u) <=> InHash(c, u) /\ u # t
<1>0. /\ c \in Caches /\ Len(c.tbs) <= c.max /\ Chains(c) /\ PageLists(c) /\ Jumps(c) /\ JumpCache(c)
      /\ \A u \in 1 .. Len(c.tbs) : WellShaped(c.tbs[u])
  BY DEF CacheOK
<1>1. /\ \A u : InHash(c, u) => u \in 1 .. Len(c.tbs)
      /\ \A u \in 1 .. Len(c.tbs) :
            InHash(c, u) <=> Contains(c.hash[Chain(StartOf(c.tbs[u]))], u)
  BY <1>0, HashOf
<1>2. CASE ~InHash(c, t)
  <2>1. d = c
    BY <1>1, <1>2 DEF tb_phys_invalidate
  <2> QED
    BY <1>2, <2>1, DroppedReflexive
<1>3. CASE InHash(c, t)
  <2>a. PICK b : b = Chain(StartOf(c.tbs[t]))
    OBVIOUS
  <2>1. Contains(c.hash[b], t)
    BY <1>1, <1>3, <2>a
  <2>b. InvalidatedTo(c, t, d)
    BY <1>0, <2>1, <2>a, InvalidatedFields
  <2>2. /\ d \in Caches /\ Len(d.tbs) = Len(c.tbs) /\ d.max = c.max
        /\ d.hash[b] = RemoveFirst(c.hash[b], t)
    BY <2>a, <2>b DEF InvalidatedTo
  <2>5. \A x \in 0 .. Buckets - 1 : x # b => d.hash[x] = c.hash[x]
    BY <2>a, <2>b DEF InvalidatedTo
  <2>c. \A u \in 1 .. Len(c.tbs) : BlockWithout(c, t, d, u)
    BY <2>b DEF InvalidatedTo
  <2>d. /\ \A p \in PPages : \A u \in d.pages[p] : u \in c.pages[p]
        /\ \A p \in PPages : \A u \in c.pages[p] : u # t => u \in d.pages[p]
        /\ \A p \in PPages : p = c.tbs[t].p0 \/ p = c.tbs[t].p1 => t \notin d.pages[p]
    BY <2>b DEF InvalidatedTo
  <2>e. \A a \in Pcs : d.jc[a] = IF c.jc[a] = t THEN NoTb ELSE c.jc[a]
    BY <2>b DEF InvalidatedTo
  <2>f. ASSUME NEW u \in 1 .. Len(c.tbs) PROVE SameBlock(c.tbs[u], d.tbs[u])
    BY <2>c DEF BlockWithout
  <2>3. /\ Len(c.tbs) \in Nat /\ b \in 0 .. Buckets - 1 /\ c.hash[b] \in Seq(Nat)
        /\ DOMAIN c.hash = 0 .. Buckets - 1
    BY <1>0, <2>a, CacheFields, ChainType
  <2>4. /\ d.hash[b] \in Seq(Nat) /\ Distinct(d.hash[b])
        /\ \A x : Contains(d.hash[b], x) <=> Contains(c.hash[b], x) /\ x # t
    <3>1. PICK i \in 1 .. Len(c.hash[b]) :
             c.hash[b][i] = t /\ RemoveFirst(c.hash[b], t) = RemoveAt(c.hash[b], i)
      BY <2>1, <2>3, RemoveFirstIs
    <3>2. d.hash[b] = RemoveAt(c.hash[b], i)
      BY <2>2, <2>3, <3>1
    <3>3. Distinct(c.hash[b])
      BY <1>0, <2>3 DEF Chains
    <3>4. PICK s \in Seq(Nat) : s = c.hash[b]
      BY <2>3
    <3>5. PICK r : r = RemoveAt(s, i)
      OBVIOUS
    <3>6. i \in 1 .. Len(s) /\ Distinct(s) /\ s[i] = t
      BY <3>1, <3>3, <3>4
    <3>7. r \in Seq(Nat) /\ Distinct(r) /\ \A x : Contains(r, x) <=> Contains(s, x) /\ x # s[i]
      BY <3>5, <3>6, RemovedFromChain
    <3> QED
      BY <3>2, <3>4, <3>5, <3>6, <3>7
  <2>6. \A u \in 1 .. Len(c.tbs) : StartOf(d.tbs[u]) = StartOf(c.tbs[u])
    BY <2>f DEF SameBlock, StartOf, Off
  <2>7. Chains(d)
    <3> SUFFICES ASSUME NEW x \in 0 .. Buckets - 1
                 PROVE  /\ Distinct(d.hash[x])
                        /\ \A u : Contains(d.hash[x], u) =>
                              u \in 1 .. Len(d.tbs) /\ Chain(StartOf(d.tbs[u])) = x
      BY DEF Chains
    <3>1. /\ Distinct(c.hash[x])
          /\ \A u : Contains(c.hash[x], u) =>
                u \in 1 .. Len(c.tbs) /\ Chain(StartOf(c.tbs[u])) = x
      BY <1>0 DEF Chains
    <3> QED
      BY <2>2, <2>4, <2>5, <2>6, <3>1
  <2>8. ASSUME NEW u PROVE InHash(d, u) <=> InHash(c, u) /\ u # t
    <3>1. DOMAIN d.hash = 0 .. Buckets - 1
      BY <2>2, CacheFields
    <3>2. \A x \in 0 .. Buckets - 1 : x # b => ~Contains(c.hash[x], t)
      BY <1>0, <2>a DEF Chains
    <3>3. \A x \in 0 .. Buckets - 1 : Contains(d.hash[x], u) <=> Contains(c.hash[x], u) /\ u # t
      BY <2>4, <2>5, <3>2
    <3> QED
      BY <2>3, <3>1, <3>3 DEF InHash
  <2>9. PageLists(d)
    <3>1. \A u \in 1 .. Len(c.tbs) : PagesOf(d.tbs[u]) = PagesOf(c.tbs[u])
      BY <2>f, SameChain
    <3>2. ASSUME NEW p \in PPages, NEW u \in d.pages[p]
          PROVE  u \in 1 .. Len(d.tbs) /\ InHash(d, u) /\ p \in PagesOf(d.tbs[u])
      <4>1. u \in c.pages[p]
        BY <2>d, <3>2
      <4>2. u \in 1 .. Len(c.tbs) /\ InHash(c, u) /\ p \in PagesOf(c.tbs[u])
        BY <1>0, <4>1 DEF PageLists
      <4>3. u # t
        <5>1. p = c.tbs[t].p0 \/ p = c.tbs[t].p1 => t \notin d.pages[p]
          BY <2>d, Zenon
        <5> QED
          BY <3>2, <4>2, <5>1 DEF PagesOf
      <4> QED
        BY <2>2, <2>8, <3>1, <4>2, <4>3
    <3>3. ASSUME NEW u \in 1 .. Len(d.tbs), InHash(d, u), NEW p \in PagesOf(d.tbs[u])
          PROVE  p \in PPages /\ u \in d.pages[p]
      <4>1. u # t /\ InHash(c, u) /\ u \in 1 .. Len(c.tbs) /\ p \in PagesOf(c.tbs[u])
        BY <2>2, <2>8, <3>1, <3>3
      <4>2. p \in PPages /\ u \in c.pages[p]
        BY <1>0, <4>1 DEF PageLists
      <4> QED
        <5>1. \A x \in c.pages[p] : x # t => x \in d.pages[p]
          BY <2>d, <4>2, Zenon
        <5> QED
          BY <4>1, <4>2, <5>1
    <3> QED
      BY <3>2, <3>3 DEF PageLists
  <2>10. Jumps(d)
    <3>1. \A u \in 1 .. Len(c.tbs) :
             /\ \A n \in 0 .. 1 : c.tbs[u].jmp[n] \in 0 .. Len(c.tbs)
             /\ \A x \in c.tbs[u].inc : x \in (1 .. Len(c.tbs)) \X (0 .. 1)
      BY <1>0 DEF Jumps
    <3>2. ASSUME NEW u \in 1 .. Len(d.tbs)
          PROVE  /\ \A n \in 0 .. 1 : d.tbs[u].jmp[n] \in 0 .. Len(d.tbs)
                 /\ \A x \in d.tbs[u].inc : x \in (1 .. Len(d.tbs)) \X (0 .. 1)
      <4>1. \A n \in 0 .. 1 : d.tbs[u].jmp[n] \in {c.tbs[u].jmp[n], NoTb}
        <5>1. u \in 1 .. Len(c.tbs)
          BY <2>2
        <5> QED
          BY <2>c, <5>1 DEF BlockWithout
      <4>2. NoTb \in 0 .. Len(c.tbs)
        BY <2>3 DEF NoTb
      <4>3. \A x \in d.tbs[u].inc : x \in c.tbs[u].inc
        BY <2>2, <2>c, <3>2 DEF BlockWithout
      <4> QED
        BY <2>2, <3>1, <3>2, <4>1, <4>2, <4>3
    <3>3. ASSUME NEW u \in 1 .. Len(d.tbs), NEW n \in 0 .. 1, InHash(d, u), d.tbs[u].jmp[n] # NoTb
          PROVE  InHash(d, d.tbs[u].jmp[n]) /\ <<u, n>> \in d.tbs[d.tbs[u].jmp[n]].inc
      <4>1. u \in 1 .. Len(c.tbs) /\ u # t /\ InHash(c, u)
        BY <2>2, <2>8, <3>3
      <4>2. d.tbs[u].jmp[n] = c.tbs[u].jmp[n] /\ <<u, n>> \notin c.tbs[t].inc
        <5>1. d.tbs[u].jmp[n] = IF u # t /\ <<u, n>> \in c.tbs[t].inc THEN NoTb ELSE c.tbs[u].jmp[n]
          <6>1. BlockWithout(c, t, d, u)
            BY <2>c, <4>1
          <6> QED
            BY <6>1 DEF BlockWithout
        <5> QED
          BY <3>3, <4>1, <5>1
      <4>4. PICK w : w = c.tbs[u].jmp[n]
        OBVIOUS
      <4>5. InHash(c, w) /\ <<u, n>> \in c.tbs[w].inc
        BY <1>0, <3>3, <4>1, <4>2, <4>4 DEF Jumps
      <4>6. w # t /\ w \in 1 .. Len(c.tbs)
        BY <1>1, <4>2, <4>5
      <4>7. <<u, n>> \in d.tbs[w].inc
        BY <2>c, <4>1, <4>5, <4>6 DEF BlockWithout
      <4> QED
        BY <2>8, <4>2, <4>4, <4>5, <4>6, <4>7
    <3> QED
      BY <3>2, <3>3 DEF Jumps
  <2>11. JumpCache(d)
    BY <1>0, <2>e, <2>8 DEF JumpCache
  <2>12. \A u \in 1 .. Len(d.tbs) : WellShaped(d.tbs[u])
    BY <1>0, <2>2, <2>f, SameChain
  <2>13. CacheOK(d)
    BY <1>0, <2>2, <2>7, <2>9, <2>10, <2>11, <2>12 DEF CacheOK
  <2>14. Dropped(c, d)
    <3>1. ASSUME NEW u \in 1 .. Len(c.tbs)
          PROVE  /\ d.tbs[u].dirty = c.tbs[u].dirty /\ d.tbs[u].code = c.tbs[u].code
                 /\ \A n \in 0 .. 1 : d.tbs[u].jmp[n] \in {c.tbs[u].jmp[n], NoTb}
      BY <2>c DEF BlockWithout
    <3>2. \A p \in PPages : \A u \in d.pages[p] : u \in c.pages[p]
      BY <2>d
    <3>3. \A a \in Pcs : d.jc[a] \in {c.jc[a], NoTb}
      BY <2>e
    <3> QED
      BY <2>2, <2>f, <2>8, <3>1, <3>2, <3>3 DEF Dropped
  <2> QED
    BY <2>8, <2>13, <2>14
<1> QED
  BY <1>2, <1>3

-----------------------------------------------------------------------------
(* Invalidating ranges *)

LEMMA Upward ==
    ASSUME NEW n \in Nat, NEW S, 0 \in S, \A i \in 1 .. n : i - 1 \in S => i \in S
    PROVE  \A i \in 0 .. n : i \in S
<1> DEFINE Bad == {i \in 0 .. n : i \notin S}
<1> SUFFICES ASSUME Bad # {} PROVE FALSE
  OBVIOUS
<1>1. \A i \in Bad : i \in Nat
  OBVIOUS
<1>2. PICK k \in Bad : \A j \in Bad : k <= j
  BY <1>1, LeastElement
<1>3. k \in 1 .. n /\ k - 1 \in 0 .. n /\ ~(k <= k - 1)
  BY <1>2
<1> QED
  BY <1>2, <1>3

IsRangeWalk(c, from, to, f) ==
    f = [i \in 0 .. Len(c.tbs) |->
            IF i = 0 THEN c
            ELSE LET t == Len(c.tbs) + 1 - i
                 IN IF t \in c.pages[PageOf(from)] /\ MeetsRange(c.tbs[t], PageOf(from), from, to)
                    THEN tb_phys_invalidate(f[i - 1], t) ELSE f[i - 1]]

\* The walk along the blocks of a page, for the caches that it goes through.
LEMMA RangeWalk ==
    ASSUME NEW c, CacheOK(c), NEW from, NEW to, NEW S,
           S = {d \in Caches : CacheOK(d) /\ Dropped(c, d)}
    PROVE  \E f : IsRangeWalk(c, from, to, f)
<1> DEFINE n == Len(c.tbs)
           Hit(t) == t \in c.pages[PageOf(from)] /\ MeetsRange(c.tbs[t], PageOf(from), from, to)
           step == [x \in (1 .. n) \X S |->
                       IF Hit(n + 1 - x[1]) THEN tb_phys_invalidate(x[2], n + 1 - x[1]) ELSE x[2]]
<1>1. c \in Caches /\ n \in Nat
  BY CacheFields DEF CacheOK
<1>2. c \in S
  BY <1>1, DroppedReflexive
<1> HIDE DEF n, Hit
<1>3. ASSUME NEW i \in 1 .. n, NEW d \in S
      PROVE  (IF Hit(n + 1 - i) THEN tb_phys_invalidate(d, n + 1 - i) ELSE d) \in S
  <2>1. PICK t : t = n + 1 - i
    OBVIOUS
  <2>2. t \in 1 .. Len(d.tbs) /\ CacheOK(d) /\ Dropped(c, d)
    <3>1. CacheOK(d) /\ Dropped(c, d)
      OBVIOUS
    <3>2. Len(d.tbs) = n
      BY <3>1 DEF Dropped, n
    <3> QED
      BY <1>1, <2>1, <3>1, <3>2
  <2>3. PICK e : e = tb_phys_invalidate(d, t)
    OBVIOUS
  <2>4. CacheOK(e) /\ Dropped(d, e)
    BY <2>2, <2>3, Invalidated
  <2>5. Dropped(c, e) /\ e \in Caches
    BY <2>2, <2>4, DroppedTransitive DEF CacheOK
  <2> QED
    BY <2>1, <2>3, <2>4, <2>5
<1>4. step \in [(1 .. n) \X S -> S]
  BY <1>3
<1>5. PICK f : IsIteration(S, c, n, step, f)
  <2> HIDE DEF step
  <2> QED
    BY <1>1, <1>2, <1>4, Iterates
<1>6. ASSUME NEW i \in 1 .. n
      PROVE  f[i] = IF Hit(n + 1 - i) THEN tb_phys_invalidate(f[i - 1], n + 1 - i) ELSE f[i - 1]
  <2>1. f[i - 1] \in S
    BY <1>1, <1>5 DEF IsIteration
  <2>2. f[i] = step[<<i, f[i - 1]>>]
    BY <1>5 DEF IsIteration
  <2> QED
    BY <2>1, <2>2
<1> HIDE DEF step
<1>7. f = [i \in 0 .. n |-> IF i = 0 THEN c
                            ELSE IF Hit(n + 1 - i) THEN tb_phys_invalidate(f[i - 1], n + 1 - i)
                            ELSE f[i - 1]]
  BY <1>1, <1>5, <1>6 DEF IsIteration
<1>8. IsRangeWalk(c, from, to, f)
  BY <1>7 DEF IsRangeWalk, n, Hit
<1> QED
  BY <1>8

\* tb_invalidate_phys_page_range drops the blocks that meet the range.
LEMMA RangeInvalidated ==
    ASSUME NEW c, CacheOK(c), NEW from, NEW to, NEW d, d = tb_invalidate_phys_page_range(c, from, to)
    PROVE  /\ CacheOK(d) /\ Dropped(c, d)
           /\ PageOf(from) \in PPages =>
                 \A t \in 1 .. Len(c.tbs) :
                    t \in c.pages[PageOf(from)] /\ MeetsRange(c.tbs[t], PageOf(from), from, to)
                    => ~InHash(d, t)
<1>1. CASE PageOf(from) \notin PPages
  <2>1. d = c
    BY <1>1 DEF tb_invalidate_phys_page_range
  <2> QED
    BY <1>1, <2>1, DroppedReflexive
<1>2. CASE PageOf(from) \in PPages
  <2> DEFINE n == Len(c.tbs)
             Hit(t) == t \in c.pages[PageOf(from)] /\ MeetsRange(c.tbs[t], PageOf(from), from, to)
  <2>1. c \in Caches /\ n \in Nat
    BY CacheFields DEF CacheOK
  <2>2. PICK f : f = CHOOSE g : IsRangeWalk(c, from, to, g)
    OBVIOUS
  <2>3. d = f[n]
    BY <1>2, <2>2, Zenon DEF tb_invalidate_phys_page_range, IsRangeWalk
  <2>4. PICK S : S = {x \in Caches : CacheOK(x) /\ Dropped(c, x)}
    OBVIOUS
  <2>5. \E g : IsRangeWalk(c, from, to, g)
    BY <2>4, RangeWalk
  <2>6. IsRangeWalk(c, from, to, f)
    BY <2>2, <2>5, Zenon
  <2>7. f[0] = c
    BY <2>1, <2>6 DEF IsRangeWalk
  <2>8. \A i \in 1 .. n : f[i] = IF Hit(n + 1 - i) THEN tb_phys_invalidate(f[i - 1], n + 1 - i)
                                 ELSE f[i - 1]
    <3>1. f = [i \in 0 .. n |->
            IF i = 0 THEN c
            ELSE IF Hit(n + 1 - i) THEN tb_phys_invalidate(f[i - 1], n + 1 - i) ELSE f[i - 1]]
      BY <2>6, Zenon DEF IsRangeWalk
    <3> HIDE DEF n, Hit
    <3>2. \A i \in 1 .. n : i \in 0 .. n /\ i # 0
      BY <2>1
    <3> QED
      BY <3>1, <3>2, Zenon
  <2> HIDE DEF n, Hit
  <2> DEFINE Good(i) == /\ CacheOK(f[i]) /\ Dropped(c, f[i])
                        /\ \A t \in n + 1 - i .. n : Hit(t) => ~InHash(f[i], t)
             I == {i \in 0 .. n : Good(i)}
  <2>9. 0 \in I
    <3>1. \A t : t \notin n + 1 - 0 .. n
      BY <2>1
    <3> QED
      BY <2>1, <2>7, <3>1, DroppedReflexive
  <2>10. ASSUME NEW i \in 1 .. n, i - 1 \in I PROVE i \in I
    <3>1. PICK t, e, k : t = n + 1 - i /\ e = f[i - 1] /\ k = i - 1
      OBVIOUS
    <3>2. CacheOK(e) /\ Dropped(c, e)
      BY <2>10, <3>1
    <3>3. \A u \in t + 1 .. n : Hit(u) => ~InHash(e, u)
      <4>1. n + 1 - (i - 1) = t + 1
        BY <2>1, <3>1
      <4>2. \A u \in n + 1 - (i - 1) .. n : Hit(u) => ~InHash(f[i - 1], u)
        BY <2>10
      <4> QED
        BY <3>1, <4>1, <4>2
    <3>4. t \in 1 .. n /\ Len(e.tbs) = n /\ t \in Nat
      <4>1. Len(e.tbs) = n
        BY <3>2 DEF Dropped, n
      <4>2. t \in 1 .. n /\ t \in Nat
        BY <2>1, <3>1
      <4> QED
        BY <4>1, <4>2
    <3>5. f[i] = IF Hit(t) THEN tb_phys_invalidate(e, t) ELSE e
      BY <2>8, <3>1
    <3>6. CacheOK(f[i]) /\ Dropped(e, f[i]) /\ (Hit(t) => ~InHash(f[i], t))
      <4>1. CASE Hit(t)
        BY <3>2, <3>4, <3>5, <4>1, Invalidated
      <4>2. CASE ~Hit(t)
        BY <3>2, <3>5, <4>2, DroppedReflexive
      <4> QED
        BY <4>1, <4>2
    <3>7. Dropped(c, f[i])
      BY <3>2, <3>6, DroppedTransitive
    <3>8. \A u : InHash(f[i], u) => InHash(e, u)
      BY <3>6 DEF Dropped
    <3>9. ASSUME NEW u \in t .. n, Hit(u) PROVE ~InHash(f[i], u)
      <4>1. u = t \/ u \in t + 1 .. n
        BY <3>4
      <4> QED
        BY <3>3, <3>6, <3>8, <3>9, <4>1
    <3>10. Good(i)
      BY <3>1, <3>6, <3>7, <3>9
    <3> QED
      BY <2>1, <3>10
  <2>11. n \in I
    <3> HIDE DEF I
    <3>1. \A i \in 0 .. n : i \in I
      BY <2>1, <2>9, <2>10, Upward
    <3> QED
      BY <2>1, <3>1
  <2>12. CacheOK(d) /\ Dropped(c, d) /\ \A t \in n + 1 - n .. n : Hit(t) => ~InHash(d, t)
    BY <2>3, <2>11
  <2>13. n + 1 - n = 1
    BY <2>1
  <2> QED
    BY <2>12, <2>13 DEF n, Hit
<1> QED
  BY <1>1, <1>2

-----------------------------------------------------------------------------
(* Addresses and pages *)

LEMMA PageAndOffset ==
    ASSUME NEW a \in Nat
    PROVE  /\ PageOf(a) \in Nat /\ Off(a) \in Nat /\ Off(a) < PageSize
           /\ PageOf(a) * PageSize \in Nat /\ a = PageOf(a) * PageSize + Off(a)
<1>1. PageSize \in Nat \ {0}
  BY TbCacheAssumption
<1>2. \A m, n \in Nat : m * n \in Nat
  OBVIOUS
<1>3. PageOf(a) \in Nat /\ Off(a) \in Nat /\ Off(a) < PageSize
  BY <1>1 DEF PageOf, Off
<1>4. a = PageSize * (a \div PageSize) + (a % PageSize)
  BY <1>1
<1>5. PageSize * (a \div PageSize) = (a \div PageSize) * PageSize
  BY <1>1, <1>3 DEF PageOf
<1> QED
  BY <1>1, <1>2, <1>3, <1>4, <1>5 DEF PageOf, Off

\* The address with offset k on page p.
LEMMA OnPage ==
    ASSUME NEW p \in Nat, NEW k \in Nat, k < PageSize
    PROVE  /\ p * PageSize + k \in Nat /\ PageOf(p * PageSize + k) = p
           /\ Off(p * PageSize + k) = k
<1>1. PageSize \in Nat \ {0}
  BY TbCacheAssumption
<1>2. \A m, n \in Nat : m * n \in Nat
  OBVIOUS
<1>3. PICK a \in Nat : a = p * PageSize + k
  BY <1>1, <1>2
<1>4. PICK q, r \in Nat : q = PageOf(a) /\ r = Off(a) /\ r < PageSize /\ a = q * PageSize + r
  BY PageAndOffset
<1>5. ASSUME NEW x \in Nat, NEW y \in Nat, NEW i \in Nat, x * PageSize + i < y * PageSize + PageSize
      PROVE  x <= y
  <2> SUFFICES ASSUME x > y PROVE FALSE
    OBVIOUS
  <2>1. PICK z \in Nat : x = y + 1 + z
    <3>1. x - y - 1 \in Nat /\ x = y + 1 + (x - y - 1)
      OBVIOUS
    <3> QED
      BY <3>1
  <2>2. x * PageSize = y * PageSize + PageSize + z * PageSize
    BY <1>1, <2>1
  <2>3. z * PageSize \in Nat /\ x * PageSize \in Nat /\ y * PageSize \in Nat
    BY <1>1, <1>2
  <2> QED
    BY <1>1, <1>5, <2>2, <2>3
<1>6. p * PageSize \in Nat /\ q * PageSize \in Nat
  BY <1>1, <1>2
<1>7. p <= q
  <2>1. p * PageSize + k < q * PageSize + PageSize
    BY <1>1, <1>3, <1>4, <1>6
  <2> QED
    BY <1>5, <2>1
<1>8. q <= p
  <2>1. q * PageSize + r < p * PageSize + PageSize
    BY <1>1, <1>3, <1>4, <1>6
  <2> QED
    BY <1>5, <2>1
<1>9. p = q
  BY <1>7, <1>8
<1>10. r = k
  BY <1>3, <1>4, <1>6, <1>9
<1> QED
  BY <1>3, <1>4, <1>9, <1>10

LEMMA SamePage ==
    ASSUME NEW a \in Nat, NEW b \in Nat, PageOf(a) = PageOf(b)
    PROVE  b - a = Off(b) - Off(a) /\ Off(a) \in Nat /\ Off(b) \in Nat
<1>1. PICK x \in Nat : x = PageOf(a) * PageSize
  BY PageAndOffset
<1>2. a = x + Off(a) /\ b = x + Off(b) /\ Off(a) \in Nat /\ Off(b) \in Nat
  BY <1>1, PageAndOffset
<1> QED
  BY <1>2

-----------------------------------------------------------------------------
(* Breakpoints *)

IsBreakpointWalk(c, a, f) ==
    f = [t \in 0 .. Len(c.tbs) |->
            IF t = 0 THEN c
            ELSE IF a < c.tbs[t].pc \/ c.tbs[t].pc + c.tbs[t].size < a THEN f[t - 1]
            ELSE tb_invalidate_phys_page_range(f[t - 1], c.tbs[t].p0 * PageSize + Off(a),
                                               c.tbs[t].p0 * PageSize + Off(a) + 1)]

LEMMA BreakpointWalk ==
    ASSUME NEW c, CacheOK(c), NEW a, NEW S, S = {d \in Caches : CacheOK(d) /\ Dropped(c, d)}
    PROVE  \E f : IsBreakpointWalk(c, a, f)
<1> DEFINE n == Len(c.tbs)
           Off1(t) == a < c.tbs[t].pc \/ c.tbs[t].pc + c.tbs[t].size < a
           phys(t) == c.tbs[t].p0 * PageSize + Off(a)
           step == [x \in (1 .. n) \X S |->
                       IF Off1(x[1]) THEN x[2]
                       ELSE tb_invalidate_phys_page_range(x[2], phys(x[1]), phys(x[1]) + 1)]
<1>1. c \in Caches /\ n \in Nat
  BY CacheFields DEF CacheOK
<1>2. c \in S
  BY <1>1, DroppedReflexive
<1> HIDE DEF n, Off1, phys
<1>3. ASSUME NEW t \in 1 .. n, NEW d \in S
      PROVE  (IF Off1(t) THEN d ELSE tb_invalidate_phys_page_range(d, phys(t), phys(t) + 1)) \in S
  <2>1. CacheOK(d) /\ Dropped(c, d)
    OBVIOUS
  <2>2. PICK e : e = tb_invalidate_phys_page_range(d, phys(t), phys(t) + 1)
    OBVIOUS
  <2>3. CacheOK(e) /\ Dropped(d, e)
    BY <2>1, <2>2, RangeInvalidated
  <2>4. Dropped(c, e) /\ e \in Caches
    BY <2>1, <2>3, DroppedTransitive DEF CacheOK
  <2> QED
    BY <2>2, <2>3, <2>4
<1>4. step \in [(1 .. n) \X S -> S]
  BY <1>3
<1>5. PICK f : IsIteration(S, c, n, step, f)
  <2> HIDE DEF step
  <2> QED
    BY <1>1, <1>2, <1>4, Iterates
<1>6. ASSUME NEW t \in 1 .. n
      PROVE  f[t] = IF Off1(t) THEN f[t - 1]
                    ELSE tb_invalidate_phys_page_range(f[t - 1], phys(t), phys(t) + 1)
  <2>1. f[t - 1] \in S
    BY <1>1, <1>5 DEF IsIteration
  <2>2. f[t] = step[<<t, f[t - 1]>>]
    BY <1>5 DEF IsIteration
  <2> QED
    BY <2>1, <2>2
<1> HIDE DEF step
<1>7. f = [t \in 0 .. n |-> IF t = 0 THEN c ELSE IF Off1(t) THEN f[t - 1]
                    ELSE tb_invalidate_phys_page_range(f[t - 1], phys(t), phys(t) + 1)]
  BY <1>1, <1>5, <1>6 DEF IsIteration
<1>8. IsBreakpointWalk(c, a, f)
  BY <1>7, Zenon DEF IsBreakpointWalk, n, Off1, phys
<1> QED
  BY <1>8

\* breakpoint_invalidate drops the blocks that have the address on their first page.
LEMMA BreakpointInvalidated ==
    ASSUME NEW c, CacheOK(c), NEW a \in Nat, NEW d, d = breakpoint_invalidate(c, a)
    PROVE  /\ CacheOK(d) /\ Dropped(c, d)
           /\ \A t \in 1 .. Len(c.tbs) :
                 /\ c.tbs[t].pc <= a /\ a <= c.tbs[t].pc + c.tbs[t].size
                 /\ PageOf(a) = PageOf(c.tbs[t].pc)
                 => ~InHash(d, t)
<1> DEFINE n == Len(c.tbs)
           Off1(t) == a < c.tbs[t].pc \/ c.tbs[t].pc + c.tbs[t].size < a
           phys(t) == c.tbs[t].p0 * PageSize + Off(a)
           Hit(t) == /\ c.tbs[t].pc <= a /\ a <= c.tbs[t].pc + c.tbs[t].size
                     /\ PageOf(a) = PageOf(c.tbs[t].pc)
<1>1. c \in Caches /\ n \in Nat /\ \A t \in 1 .. n : c.tbs[t] \in Blocks
  BY CacheFields DEF CacheOK
<1>2. PICK f : f = CHOOSE g : IsBreakpointWalk(c, a, g)
  OBVIOUS
<1>3. d = f[n]
  BY <1>2, Zenon DEF breakpoint_invalidate, IsBreakpointWalk
<1>4. PICK S : S = {x \in Caches : CacheOK(x) /\ Dropped(c, x)}
  OBVIOUS
<1>5. \E g : IsBreakpointWalk(c, a, g)
  BY <1>4, BreakpointWalk
<1>6. IsBreakpointWalk(c, a, f)
  BY <1>2, <1>5, Zenon
<1>7. f = [t \in 0 .. n |-> IF t = 0 THEN c ELSE IF Off1(t) THEN f[t - 1]
                    ELSE tb_invalidate_phys_page_range(f[t - 1], phys(t), phys(t) + 1)]
  BY <1>6, Zenon DEF IsBreakpointWalk
<1>8. ASSUME NEW t \in 1 .. n, NEW e, CacheOK(e), Dropped(c, e), Hit(t), InHash(e, t)
      PROVE  /\ PageOf(phys(t)) \in PPages /\ t \in e.pages[PageOf(phys(t))]
             /\ MeetsRange(e.tbs[t], PageOf(phys(t)), phys(t), phys(t) + 1)
  <2>1. PICK tb \in Blocks : tb = c.tbs[t]
    BY <1>1
  <2>2. t \in 1 .. Len(e.tbs) /\ SameBlock(tb, e.tbs[t])
    BY <1>8, <2>1 DEF Dropped
  <2>3. tb.p0 \in Nat /\ tb.pc \in Nat /\ tb.size \in Nat
    BY BlockFields
  <2>4. Off(a) \in Nat /\ Off(a) < PageSize /\ PageSize \in Nat
    BY PageAndOffset, TbCacheAssumption
  <2>5. PICK ph \in Nat : ph = phys(t) /\ ph = tb.p0 * PageSize + Off(a)
    BY <2>1, <2>3, <2>4, OnPage
  <2>6. PageOf(ph) = tb.p0
    BY <2>3, <2>4, <2>5, OnPage
  <2>7. tb.p0 \in PPages /\ t \in e.pages[tb.p0]
    <3>1. e.tbs[t].p0 \in PagesOf(e.tbs[t])
      BY <2>2, <2>3 DEF PagesOf, SameBlock, NoPage
    <3> QED
      BY <1>8, <2>2, <3>1 DEF CacheOK, PageLists, SameBlock
  <2>8. PICK x \in Nat : x = tb.p0 * PageSize
    BY <2>3, <2>4
  <2>9. PICK k \in Nat : k = Off(tb.pc) /\ a - tb.pc = Off(a) - k
    BY <1>8, <2>1, <2>3, SamePage
  <2>10. tb.pc <= a /\ a <= tb.pc + tb.size
    BY <1>8, <2>1
  <2>11. x + k <= ph /\ ph <= x + k + tb.size
    <3>1. PICK o, b, s \in Nat : o = Off(a) /\ b = tb.pc /\ s = tb.size
      BY <2>3, <2>4
    <3>2. ph = x + o /\ a - b = o - k /\ b <= a /\ a <= b + s
      BY <2>5, <2>8, <2>9, <2>10, <3>1
    <3>3. x + k <= ph /\ ph <= x + k + s
      BY <3>2
    <3> QED
      BY <3>1, <3>3
  <2>12. \/ ph <= x + k /\ x + k < ph + 1
         \/ ph <= x + k + tb.size /\ x + k + tb.size < ph + 1
         \/ x + k <= ph /\ ph + 1 <= x + k + tb.size
    BY <2>3, <2>11
  <2>13. StartOf(e.tbs[t]) = x + k /\ e.tbs[t].size = tb.size /\ e.tbs[t].p0 = tb.p0
    BY <2>2, <2>8, <2>9 DEF StartOf, SameBlock
  <2> QED
    BY <2>5, <2>6, <2>7, <2>12, <2>13 DEF MeetsRange
<1>9. \A t \in 1 .. n : Hit(t) => ~Off1(t)
  <2> SUFFICES ASSUME NEW t \in 1 .. n, Hit(t) PROVE ~Off1(t)
    OBVIOUS
  <2>1. PICK x, y \in Nat : x = c.tbs[t].pc /\ y = c.tbs[t].size
    BY <1>1, BlockFields
  <2> QED
    BY <2>1
<1> HIDE DEF n, Off1, phys, Hit
<1>10. f[0] = c
  BY <1>1, <1>7
<1>11. ASSUME NEW t \in 1 .. n
       PROVE  f[t] = IF Off1(t) THEN f[t - 1]
                     ELSE tb_invalidate_phys_page_range(f[t - 1], phys(t), phys(t) + 1)
  <2>1. t \in 0 .. n /\ t # 0
    BY <1>1
  <2> QED
    BY <1>7, <2>1, Zenon
<1> DEFINE Good(i) == /\ CacheOK(f[i]) /\ Dropped(c, f[i])
                      /\ \A t \in 1 .. i : Hit(t) => ~InHash(f[i], t)
           I == {i \in 0 .. n : Good(i)}
<1>12. 0 \in I
  <2>1. \A t : t \notin 1 .. 0
    OBVIOUS
  <2> QED
    BY <1>1, <1>10, <2>1, DroppedReflexive
<1>13. ASSUME NEW t \in 1 .. n, t - 1 \in I PROVE t \in I
  <2>1. PICK e, k : e = f[t - 1] /\ k = t - 1
    OBVIOUS
  <2>2. CacheOK(e) /\ Dropped(c, e) /\ \A u \in 1 .. k : Hit(u) => ~InHash(e, u)
    BY <1>13, <2>1
  <2>3. f[t] = IF Off1(t) THEN e ELSE tb_invalidate_phys_page_range(e, phys(t), phys(t) + 1)
    BY <1>11, <2>1
  <2>4. Len(e.tbs) = n
    BY <2>2 DEF Dropped, n
  <2>5. CacheOK(f[t]) /\ Dropped(e, f[t]) /\ (Hit(t) => ~InHash(f[t], t))
    <3>1. CASE Off1(t)
      BY <1>9, <2>2, <2>3, <3>1, DroppedReflexive
    <3>2. CASE ~Off1(t)
      <4>1. PICK q : q = tb_invalidate_phys_page_range(e, phys(t), phys(t) + 1)
        OBVIOUS
      <4>2. f[t] = q
        BY <2>3, <3>2, <4>1
      <4>3. CacheOK(q) /\ Dropped(e, q)
        BY <2>2, <4>1, RangeInvalidated
      <4>4. ASSUME Hit(t), InHash(q, t) PROVE FALSE
        <5>1. InHash(e, t)
          BY <4>3, <4>4 DEF Dropped
        <5>2. PICK ph, pa : ph = phys(t) /\ pa = PageOf(ph)
          OBVIOUS
        <5>3. pa \in PPages /\ t \in e.pages[pa] /\ MeetsRange(e.tbs[t], pa, ph, ph + 1)
          BY <1>8, <2>2, <4>4, <5>1, <5>2
        <5>4. pa \in PPages =>
                 \A u \in 1 .. Len(e.tbs) :
                    u \in e.pages[pa] /\ MeetsRange(e.tbs[u], pa, ph, ph + 1) => ~InHash(q, u)
          BY <2>2, <4>1, <5>2, RangeInvalidated
        <5> QED
          BY <2>4, <4>4, <5>3, <5>4
      <4> QED
        BY <4>2, <4>3, <4>4
    <3> QED
      BY <3>1, <3>2
  <2>6. Dropped(c, f[t])
    BY <2>2, <2>5, DroppedTransitive
  <2>7. \A u : InHash(f[t], u) => InHash(e, u)
    BY <2>5 DEF Dropped
  <2>8. ASSUME NEW u \in 1 .. t, Hit(u) PROVE ~InHash(f[t], u)
    <3>1. u = t \/ u \in 1 .. k
      BY <1>1, <2>1
    <3> QED
      BY <2>2, <2>5, <2>7, <2>8, <3>1
  <2> QED
    BY <1>1, <2>5, <2>6, <2>8
<1>14. n \in I
  <2> HIDE DEF I
  <2>1. \A i \in 0 .. n : i \in I
    BY <1>1, <1>12, <1>13, Upward
  <2> QED
    BY <1>1, <2>1
<1> QED
  BY <1>3, <1>14 DEF n, Hit

-----------------------------------------------------------------------------
(* Translating a block *)

\* The address of the i-th instruction from a on.
IsAt(a, max, f) ==
    f = [i \in 0 .. max |->
            IF i = 0 THEN a
            ELSE f[i - 1] + (IF f[i - 1] \in Pcs THEN InsnLen[f[i - 1]] ELSE 1)]

LEMMA AtExists ==
    ASSUME NEW a \in Nat, NEW max \in Nat
    PROVE  \E f : IsAt(a, max, f)
<1> DEFINE step == [x \in (1 .. max) \X Nat |-> x[2] + (IF x[2] \in Pcs THEN InsnLen[x[2]] ELSE 1)]
<1>1. \A x \in Pcs : InsnLen[x] \in Nat
  BY TbCacheAssumption
<1>2. step \in [(1 .. max) \X Nat -> Nat]
  BY <1>1
<1>3. PICK f : IsIteration(Nat, a, max, step, f)
  <2> HIDE DEF step
  <2> QED
    BY <1>2, Iterates
<1>4. ASSUME NEW i \in 1 .. max
      PROVE  f[i] = f[i - 1] + (IF f[i - 1] \in Pcs THEN InsnLen[f[i - 1]] ELSE 1)
  <2>1. f[i - 1] \in Nat
    BY <1>3 DEF IsIteration
  <2>2. f[i] = step[<<i, f[i - 1]>>]
    BY <1>3 DEF IsIteration
  <2> QED
    BY <2>1, <2>2
<1> HIDE DEF step
<1>5. IsAt(a, max, f)
  BY <1>3, <1>4 DEF IsIteration, IsAt
<1> QED
  BY <1>5

InsnsUpto(a, e) == {x \in Pcs : a <= x /\ x < e}

\* f goes from instruction to instruction, n times, on one page and past no
\* address of bs.
Walks(f, a, n, bs) ==
    /\ f[0] = a
    /\ \A i \in 1 .. n : f[i - 1] \in Pcs => f[i] = f[i - 1] + InsnLen[f[i - 1]]
    /\ \A i \in 1 .. n - 1 : f[i - 1] \in Pcs => f[i] \in Pcs
    /\ \A i \in 0 .. n - 1 : f[i] \notin bs /\ PageOf(f[i]) = PageOf(a)

\* The instructions of a block are those that were passed, one after the other.
LEMMA Passed ==
    ASSUME WellFormedProgram, NEW a \in Pcs, NEW n \in Nat, NEW f, NEW bs, Walks(f, a, n, bs)
    PROVE  /\ \A i \in 0 .. n - 1 : f[i] \in Pcs /\ a <= f[i]
           /\ f[n] \in Nat /\ a <= f[n]
           /\ IsFiniteSet(InsnsUpto(a, f[n])) /\ Cardinality(InsnsUpto(a, f[n])) = n
           /\ \A x \in InsnsUpto(a, f[n]) : x \notin bs /\ PageOf(x) = PageOf(a)
<1>0. /\ f[0] = a
      /\ \A i \in 1 .. n : f[i - 1] \in Pcs => f[i] = f[i - 1] + InsnLen[f[i - 1]]
      /\ \A i \in 1 .. n - 1 : f[i - 1] \in Pcs => f[i] \in Pcs
      /\ \A i \in 0 .. n - 1 : f[i] \notin bs /\ PageOf(f[i]) = PageOf(a)
  BY DEF Walks
<1> DEFINE X(i) == {x \in Pcs : a <= x /\ x < f[i]}
<1>1. /\ \A x \in Pcs : x \in Nat /\ InsnLen[x] \in Nat /\ InsnLen[x] >= 1
      /\ \A x, y \in Pcs : x < y => x + InsnLen[x] <= y
  BY TbCacheAssumption DEF WellFormedProgram
<1> DEFINE I == {i \in 0 .. n : (i < n => f[i] \in Pcs) /\ f[i] \in Nat /\ a <= f[i]}
<1>2. \A i \in 0 .. n : i \in I
  <2>1. 0 \in I
    BY <1>0, <1>1
  <2>2. ASSUME NEW i \in 1 .. n, i - 1 \in I PROVE i \in I
    <3>1. f[i - 1] \in Pcs /\ a <= f[i - 1]
      BY <2>2
    <3>2. f[i] = f[i - 1] + InsnLen[f[i - 1]]
      BY <1>0, <3>1
    <3>3. f[i] \in Nat /\ a <= f[i]
      BY <1>1, <3>1, <3>2
    <3>4. i < n => f[i] \in Pcs
      BY <1>0, <3>1
    <3> QED
      BY <3>3, <3>4
  <2> HIDE DEF I
  <2> QED
    BY <2>1, <2>2, Upward
<1>3. \A i \in 0 .. n : f[i] \in Nat /\ a <= f[i] /\ (i < n => f[i] \in Pcs)
  BY <1>2
<1> HIDE DEF I
<1>4. X(0) = {}
  BY <1>0, <1>1
<1>5. ASSUME NEW i \in 1 .. n
      PROVE  X(i) = X(i - 1) \cup {f[i - 1]} /\ f[i - 1] \notin X(i - 1)
  <2>1. i - 1 \in 0 .. n /\ i - 1 < n
    OBVIOUS
  <2>2. PICK b \in Pcs : b = f[i - 1] /\ a <= b /\ f[i] = b + InsnLen[b]
    BY <1>0, <1>3, <2>1
  <2>3. ASSUME NEW x \in Pcs PROVE x < b + InsnLen[b] <=> x < b \/ x = b
    BY <1>1
  <2> QED
    BY <1>1, <2>2, <2>3
<1> HIDE DEF X
<1> DEFINE J == {i \in 0 .. n : /\ IsFiniteSet(X(i)) /\ Cardinality(X(i)) = i
                                /\ \A x \in X(i) : x \notin bs /\ PageOf(x) = PageOf(a)}
<1>6. 0 \in J
  <2>1. IsFiniteSet({}) /\ Cardinality({}) = 0
    BY FS_EmptySet
  <2> QED
    BY <1>4, <2>1
<1>7. ASSUME NEW i \in 1 .. n, i - 1 \in J PROVE i \in J
  <2>1. /\ IsFiniteSet(X(i - 1)) /\ Cardinality(X(i - 1)) = i - 1
        /\ \A x \in X(i - 1) : x \notin bs /\ PageOf(x) = PageOf(a)
    BY <1>7
  <2>2. PICK Y, b : Y = X(i - 1) /\ b = f[i - 1]
    OBVIOUS
  <2>3. X(i) = Y \cup {b} /\ b \notin Y /\ IsFiniteSet(Y) /\ Cardinality(Y) = i - 1
    BY <1>5, <2>1, <2>2
  <2>4. IsFiniteSet(Y \cup {b}) /\ Cardinality(Y \cup {b}) = i
    <3>1. IsFiniteSet(Y \cup {b}) /\ Cardinality(Y \cup {b}) = Cardinality(Y) + 1
      BY <2>3, FS_AddElement
    <3> QED
      BY <2>3, <3>1
  <2>5. b \notin bs /\ PageOf(b) = PageOf(a)
    <3>1. i - 1 \in 0 .. n - 1
      OBVIOUS
    <3> QED
      BY <1>0, <2>2, <3>1
  <2>6. \A x \in X(i) : x \notin bs /\ PageOf(x) = PageOf(a)
    BY <2>1, <2>2, <2>3, <2>5
  <2>7. IsFiniteSet(X(i)) /\ Cardinality(X(i)) = i
    BY <2>3, <2>4, Zenon
  <2>8. i \in 0 .. n
    OBVIOUS
  <2> QED
    BY <2>6, <2>7, <2>8
<1>8. n \in J
  <2> HIDE DEF J
  <2>1. \A i \in 0 .. n : i \in J
    BY <1>6, <1>7, Upward
  <2> QED
    BY <2>1
<1>9. IsFiniteSet(X(n)) /\ Cardinality(X(n)) = n /\ \A x \in X(n) : x \notin bs /\ PageOf(x) = PageOf(a)
  BY <1>8
<1>10. (\A i \in 0 .. n - 1 : f[i] \in Pcs /\ a <= f[i]) /\ f[n] \in Nat /\ a <= f[n]
  BY <1>3
<1> QED
  BY <1>9, <1>10 DEF X, InsnsUpto

\* Shape ends a block behind its last instruction or in front of a breakpoint.
ShapeIs(s, a, max) ==
    /\ s.size \in Nat /\ s.icount \in 0 .. max /\ s.last \in Pcs
    /\ s.cut \in BOOLEAN /\ s.trap \in BOOLEAN
    /\ a <= s.last /\ PageOf(s.last) = PageOf(a)
    /\ ~s.trap => a + s.size = s.last + InsnLen[s.last]
    /\ s.trap => a + s.size \in Pcs /\ PageOf(a + s.size) = PageOf(a) /\ a + s.size \in bps
    /\ IsFiniteSet({x \in Pcs : a <= x /\ x < a + s.size})
    /\ Cardinality({x \in Pcs : a <= x /\ x < a + s.size}) <= s.icount
    /\ \A x \in Pcs : a <= x /\ x < a + s.size => x \notin bps /\ PageOf(x) = PageOf(a)

LEMMA Shaped ==
    ASSUME WellFormedProgram, bps \subseteq Pcs, NEW a \in Pcs, NEW max \in Nat, max > 0,
           NEW s, s = Shape(a, max)
    PROVE  ShapeIs(s, a, max)
<1> DEFINE f == CHOOSE g : IsAt(a, max, g)
           Ends(i) == /\ i > 0
                      /\ \/ f[i - 1] \in DOMAIN Target \cup Indirect
                         \/ PageOf(f[i]) # PageOf(a)
           Stops(i) == Ends(i) \/ f[i] \in bps \/ i >= max
           n == CHOOSE i \in 0 .. max : Stops(i) /\ \A j \in 0 .. i - 1 : ~Stops(j)
<1>1. s = [size |-> f[n] - a, icount |-> n, last |-> IF n = 0 THEN a ELSE f[n - 1],
           cut |-> ~Ends(n) /\ n >= max, trap |-> ~Ends(n) /\ n < max]
  BY Zenon DEF Shape, IsAt
<1>2. IsAt(a, max, f)
  <2>1. a \in Nat
    BY TbCacheAssumption
  <2>2. \E g : IsAt(a, max, g)
    BY <2>1, AtExists
  <2> QED
    BY <2>2, Zenon
<1> HIDE DEF f
<1>3. f[0] = a
  BY <1>2 DEF IsAt
<1>4. \A i \in 1 .. max : f[i - 1] \in Pcs => f[i] = f[i - 1] + InsnLen[f[i - 1]]
  BY <1>2 DEF IsAt
<1> HIDE DEF Ends
<1>5. n \in 0 .. max /\ Stops(n) /\ \A j \in 0 .. n - 1 : ~Stops(j)
  <2> DEFINE C == {i \in 0 .. max : Stops(i)}
  <2>1. max \in C /\ \A i \in C : i \in Nat
    OBVIOUS
  <2>2. PICK k \in C : \A j \in C : k <= j
    <3> HIDE DEF C
    <3> QED
      BY <2>1, LeastElement
  <2>3. k \in 0 .. max /\ Stops(k) /\ \A j \in 0 .. k - 1 : ~Stops(j)
    <3>1. \A j \in 0 .. k - 1 : j \in 0 .. max /\ ~(k <= j)
      BY <2>2
    <3> QED
      BY <2>2, <3>1
  <2> HIDE DEF Stops, C
  <2> QED
    BY <2>3, Zenon
<1> HIDE DEF n
<1>6. n \in Nat /\ n <= max
  BY <1>5
<1>7. ASSUME NEW i \in 1 .. n - 1, f[i - 1] \in Pcs PROVE f[i] \in Pcs
  <2>1. i \in 0 .. n - 1 /\ i \in 1 .. max
    BY <1>6
  <2>2. f[i - 1] \notin Indirect
    BY <1>5, <2>1 DEF Ends
  <2> QED
    BY <1>4, <1>7, <2>1, <2>2 DEF WellFormedProgram
<1>8. ASSUME NEW i \in 0 .. n - 1 PROVE f[i] \notin bps /\ PageOf(f[i]) = PageOf(a)
  <2>1. ~Stops(i) /\ i \in Nat
    BY <1>5
  <2> QED
    BY <1>3, <2>1 DEF Ends
<1>9. /\ \A i \in 0 .. n - 1 : f[i] \in Pcs /\ a <= f[i]
      /\ f[n] \in Nat /\ a <= f[n]
      /\ IsFiniteSet(InsnsUpto(a, f[n])) /\ Cardinality(InsnsUpto(a, f[n])) = n
      /\ \A x \in InsnsUpto(a, f[n]) : x \notin bps /\ PageOf(x) = PageOf(a)
  <2>1. \A i \in 1 .. n : f[i - 1] \in Pcs => f[i] = f[i - 1] + InsnLen[f[i - 1]]
    BY <1>4, <1>6
  <2>2. Walks(f, a, n, bps)
    BY <1>3, <1>7, <1>8, <2>1 DEF Walks
  <2> QED
    BY <1>6, <2>2, Passed
<1>10. PICK e \in Nat : e = f[n]
  BY <1>9
<1>11. a \in Nat
  BY TbCacheAssumption
<1>12. /\ s.size = e - a /\ s.icount = n /\ s.last = IF n = 0 THEN a ELSE f[n - 1]
       /\ s.cut = (~Ends(n) /\ n >= max) /\ s.trap = (~Ends(n) /\ n < max)
  BY <1>1, <1>10
<1>13. s.size \in Nat /\ a + s.size = e
  BY <1>9, <1>10, <1>11, <1>12
<1>14. n > 0 => n - 1 \in 0 .. n - 1
  BY <1>6
<1>15. s.last \in Pcs /\ a <= s.last /\ PageOf(s.last) = PageOf(a)
  BY <1>6, <1>8, <1>9, <1>11, <1>12, <1>14
<1>16. ASSUME ~s.trap PROVE a + s.size = s.last + InsnLen[s.last]
  <2>1. n # 0
    <3>1. Ends(n) \/ ~(n < max)
      BY <1>12, <1>16
    <3> QED
      BY <1>6, <3>1 DEF Ends
  <2>2. n \in 1 .. max /\ f[n - 1] \in Pcs /\ s.last = f[n - 1]
    BY <1>6, <1>9, <1>12, <1>14, <2>1
  <2> QED
    BY <1>4, <1>10, <1>13, <2>2
<1>17. ASSUME s.trap PROVE e \in Pcs /\ PageOf(e) = PageOf(a) /\ e \in bps
  <2>1. ~Ends(n) /\ n < max
    BY <1>12, <1>17
  <2>2. e \in bps
    BY <1>5, <1>6, <1>10, <2>1
  <2>3. PageOf(e) = PageOf(a)
    BY <1>3, <1>6, <1>10, <2>1 DEF Ends
  <2> QED
    BY <2>2, <2>3
<1>18. s.cut \in BOOLEAN /\ s.trap \in BOOLEAN
  BY <1>12
<1>19. s.icount \in 0 .. max
  BY <1>6, <1>12
<1>20. InsnsUpto(a, f[n]) = {x \in Pcs : a <= x /\ x < a + s.size}
  BY <1>10, <1>13 DEF InsnsUpto
<1>21. /\ IsFiniteSet({x \in Pcs : a <= x /\ x < a + s.size})
       /\ Cardinality({x \in Pcs : a <= x /\ x < a + s.size}) = n
  BY <1>9, <1>20, Zenon
<1>22. Cardinality({x \in Pcs : a <= x /\ x < a + s.size}) <= s.icount
  BY <1>6, <1>12, <1>21
<1>23. \A x \in Pcs : a <= x /\ x < a + s.size => x \notin bps /\ PageOf(x) = PageOf(a)
  BY <1>9, <1>20
<1>24. s.trap => a + s.size \in Pcs /\ PageOf(a + s.size) = PageOf(a) /\ a + s.size \in bps
  BY <1>13, <1>17
<1> QED
  BY <1>13, <1>15, <1>16, <1>18, <1>19, <1>21, <1>22, <1>23, <1>24 DEF ShapeIs

-----------------------------------------------------------------------------
(* Changes of a cache *)

LEMMA SameHash ==
    ASSUME NEW c, NEW d, d.hash = c.hash
    PROVE  \A t : InHash(d, t) <=> InHash(c, t)
BY DEF InHash

\* Only the invalidated flag differs.
LEMMA Reflagged ==
    ASSUME NEW c, CacheOK(c), NEW d, d \in Caches, d.tbs = c.tbs, d.hash = c.hash,
           d.pages = c.pages, d.jc = c.jc, d.max = c.max
    PROVE  CacheOK(d) /\ Dropped(c, d)
<1>1. \A t : InHash(d, t) <=> InHash(c, t)
  BY SameHash
<1>2. Chains(d) /\ PageLists(d) /\ Jumps(d) /\ JumpCache(d)
  BY <1>1, Zenon DEF CacheOK, Chains, PageLists, Jumps, JumpCache
<1>3. CacheOK(d)
  BY <1>2 DEF CacheOK
<1>4. Dropped(c, d)
  BY <1>1 DEF Dropped, SameBlock
<1> QED
  BY <1>3, <1>4

Unflagged(c, d) ==
    /\ d.tbs = c.tbs /\ d.hash = c.hash /\ d.pages = c.pages /\ d.jc = c.jc /\ d.max = c.max
    /\ d.invalidated = FALSE

LEMMA FlagReset ==
    ASSUME NEW c, CacheOK(c), NEW d, d = [c EXCEPT !.invalidated = FALSE]
    PROVE  CacheOK(d) /\ Dropped(c, d) /\ Unflagged(c, d)
<1>1. c \in Caches
  BY DEF CacheOK
<1>2. /\ d \in Caches /\ d.tbs = c.tbs /\ d.hash = c.hash /\ d.pages = c.pages /\ d.jc = c.jc
      /\ d.max = c.max /\ d.invalidated = FALSE
  BY <1>1 DEF Caches
<1>3. CacheOK(d) /\ Dropped(c, d)
  BY <1>2, Reflagged
<1> QED
  BY <1>2, <1>3 DEF Unflagged

\* Entries are taken out of the jump cache.
LEMMA JumpCacheCleared ==
    ASSUME NEW c, CacheOK(c), NEW d, d \in Caches, d.tbs = c.tbs, d.hash = c.hash,
           d.pages = c.pages, d.max = c.max, \A a \in Pcs : d.jc[a] \in {c.jc[a], NoTb}
    PROVE  CacheOK(d) /\ Dropped(c, d)
<1>1. \A t : InHash(d, t) <=> InHash(c, t)
  BY SameHash
<1>2. Chains(d) /\ PageLists(d) /\ Jumps(d)
  BY <1>1, Zenon DEF CacheOK, Chains, PageLists, Jumps
<1>3. JumpCache(d)
  BY <1>1 DEF CacheOK, JumpCache
<1>4. CacheOK(d)
  BY <1>2, <1>3 DEF CacheOK
<1>5. Dropped(c, d)
  BY <1>1 DEF Dropped, SameBlock
<1> QED
  BY <1>4, <1>5

\* Nothing but the annotations of the blocks differs.
Annotated(c, d) ==
    /\ d \in Caches /\ Len(d.tbs) = Len(c.tbs) /\ d.hash = c.hash /\ d.pages = c.pages
    /\ d.jc = c.jc /\ d.max = c.max /\ d.invalidated = c.invalidated
    /\ \A t \in 1 .. Len(c.tbs) :
          /\ SameBlock(c.tbs[t], d.tbs[t])
          /\ d.tbs[t].jmp = c.tbs[t].jmp /\ d.tbs[t].inc = c.tbs[t].inc

LEMMA AnnotatedOK ==
    ASSUME NEW c, CacheOK(c), NEW d, Annotated(c, d)
    PROVE  CacheOK(d) /\ \A t : InHash(d, t) <=> InHash(c, t)
<1>1. /\ d \in Caches /\ Len(d.tbs) = Len(c.tbs) /\ d.hash = c.hash /\ d.pages = c.pages
      /\ d.jc = c.jc /\ d.max = c.max
  BY DEF Annotated
<1>2. \A t : InHash(d, t) <=> InHash(c, t)
  BY <1>1, SameHash
<1>3. ASSUME NEW t \in 1 .. Len(c.tbs)
      PROVE  /\ StartOf(d.tbs[t]) = StartOf(c.tbs[t]) /\ PagesOf(d.tbs[t]) = PagesOf(c.tbs[t])
             /\ d.tbs[t].jmp = c.tbs[t].jmp /\ d.tbs[t].inc = c.tbs[t].inc
             /\ WellShaped(d.tbs[t])
  <2>1. PICK tb, new : tb = c.tbs[t] /\ new = d.tbs[t]
    OBVIOUS
  <2>2. SameBlock(tb, new) /\ new.jmp = tb.jmp /\ new.inc = tb.inc
    BY <2>1 DEF Annotated
  <2>3. WellShaped(tb)
    BY <2>1 DEF CacheOK
  <2>4. /\ StartOf(new) = StartOf(tb) /\ PagesOf(new) = PagesOf(tb)
        /\ WellShaped(tb) => WellShaped(new)
    BY <2>2, SameChain
  <2> QED
    BY <2>1, <2>2, <2>3, <2>4
<1>4. Chains(d)
  BY <1>1, <1>3 DEF CacheOK, Chains
<1>5. PageLists(d)
  <2>1. ASSUME NEW p \in PPages, NEW t \in d.pages[p]
        PROVE  t \in 1 .. Len(d.tbs) /\ InHash(d, t) /\ p \in PagesOf(d.tbs[t])
    BY <1>1, <1>2, <1>3 DEF CacheOK, PageLists
  <2>2. ASSUME NEW t \in 1 .. Len(d.tbs), InHash(d, t), NEW p \in PagesOf(d.tbs[t])
        PROVE  p \in PPages /\ t \in d.pages[p]
    BY <1>1, <1>2, <1>3, <2>2 DEF CacheOK, PageLists
  <2> QED
    BY <2>1, <2>2 DEF PageLists
<1>6. Jumps(d)
  <2>0. \A u : InHash(c, u) => u \in 1 .. Len(c.tbs)
    BY HashOf DEF CacheOK
  <2>1. ASSUME NEW t \in 1 .. Len(d.tbs)
        PROVE  /\ \A n \in 0 .. 1 : d.tbs[t].jmp[n] \in 0 .. Len(d.tbs)
               /\ \A x \in d.tbs[t].inc : x \in (1 .. Len(d.tbs)) \X (0 .. 1)
    BY <1>1, <1>3 DEF CacheOK, Jumps
  <2>2. ASSUME NEW t \in 1 .. Len(d.tbs), NEW n \in 0 .. 1, InHash(d, t), d.tbs[t].jmp[n] # NoTb
        PROVE  InHash(d, d.tbs[t].jmp[n]) /\ <<t, n>> \in d.tbs[d.tbs[t].jmp[n]].inc
    <3>1. PICK w : w = c.tbs[t].jmp[n]
      OBVIOUS
    <3>2. d.tbs[t].jmp[n] = w /\ InHash(c, t) /\ t \in 1 .. Len(c.tbs)
      BY <1>1, <1>2, <1>3, <2>2, <3>1
    <3>3. InHash(c, w) /\ <<t, n>> \in c.tbs[w].inc
      BY <2>2, <3>1, <3>2 DEF CacheOK, Jumps
    <3>4. d.tbs[w].inc = c.tbs[w].inc
      BY <1>3, <2>0, <3>3
    <3> QED
      BY <1>2, <3>2, <3>3, <3>4
  <2> QED
    BY <2>1, <2>2 DEF Jumps
<1>7. JumpCache(d)
  BY <1>1, <1>2 DEF CacheOK, JumpCache
<1>8. CacheOK(d)
  BY <1>1, <1>3, <1>4, <1>5, <1>6, <1>7 DEF CacheOK
<1> QED
  BY <1>2, <1>8

\* A block is put into a slot behind the others.
LEMMA Appended ==
    ASSUME NEW c, CacheOK(c), Len(c.tbs) < c.max, NEW tb \in Blocks, WellShaped(tb), tb.inc = {},
           \A n \in 0 .. 1 : tb.jmp[n] = NoTb,
           NEW d, d \in Caches, d.tbs = Append(c.tbs, tb), d.hash = c.hash, d.pages = c.pages,
           d.jc = c.jc, d.max = c.max
    PROVE  /\ CacheOK(d) /\ Len(d.tbs) = Len(c.tbs) + 1 /\ d.tbs[Len(c.tbs) + 1] = tb
           /\ \A t \in 1 .. Len(c.tbs) : d.tbs[t] = c.tbs[t]
           /\ \A t : InHash(d, t) <=> InHash(c, t)
           /\ ~InHash(c, Len(c.tbs) + 1)
<1> DEFINE n == Len(c.tbs)
<1>1. c \in Caches /\ c.tbs \in Seq(Blocks) /\ n \in Nat /\ c.max \in Nat
  BY CacheFields DEF CacheOK
<1>2. Len(d.tbs) = n + 1 /\ d.tbs[n + 1] = tb /\ \A t \in 1 .. n : d.tbs[t] = c.tbs[t]
  BY <1>1
<1>3. \A t : InHash(d, t) <=> InHash(c, t)
  BY SameHash
<1>4. \A t : InHash(c, t) => t \in 1 .. n
  BY HashOf DEF CacheOK
<1> HIDE DEF n
<1>5. Chains(d)
  BY <1>1, <1>2 DEF CacheOK, Chains, n
<1>6. PageLists(d)
  <2>1. ASSUME NEW p \in PPages, NEW t \in d.pages[p]
        PROVE  t \in 1 .. Len(d.tbs) /\ InHash(d, t) /\ p \in PagesOf(d.tbs[t])
    <3>1. t \in 1 .. n /\ InHash(c, t) /\ p \in PagesOf(c.tbs[t])
      BY <2>1 DEF CacheOK, PageLists, n
    <3> QED
      BY <1>1, <1>2, <1>3, <3>1
  <2>2. ASSUME NEW t \in 1 .. Len(d.tbs), InHash(d, t), NEW p \in PagesOf(d.tbs[t])
        PROVE  p \in PPages /\ t \in d.pages[p]
    <3>1. InHash(c, t) /\ t \in 1 .. n /\ p \in PagesOf(c.tbs[t])
      BY <1>2, <1>3, <1>4, <2>2
    <3> QED
      BY <3>1 DEF CacheOK, PageLists, n
  <2> QED
    BY <2>1, <2>2 DEF PageLists
<1>7. Jumps(d)
  <2>1. ASSUME NEW t \in 1 .. Len(d.tbs)
        PROVE  /\ \A i \in 0 .. 1 : d.tbs[t].jmp[i] \in 0 .. Len(d.tbs)
               /\ \A x \in d.tbs[t].inc : x \in (1 .. Len(d.tbs)) \X (0 .. 1)
    <3>1. CASE t = n + 1
      <4>1. d.tbs[t] = tb
        BY <1>2, <3>1
      <4> QED
        BY <1>1, <1>2, <4>1 DEF NoTb
    <3>2. CASE t \in 1 .. n
      <4>1. /\ \A i \in 0 .. 1 : c.tbs[t].jmp[i] \in 0 .. n
            /\ \A x \in c.tbs[t].inc : x \in (1 .. n) \X (0 .. 1)
        BY <3>2 DEF CacheOK, Jumps, n
      <4>2. d.tbs[t] = c.tbs[t]
        BY <1>2, <3>2
      <4>3. (\A x \in 0 .. n : x \in 0 .. Len(d.tbs)) /\ (\A x \in 1 .. n : x \in 1 .. Len(d.tbs))
        BY <1>1, <1>2
      <4> QED
        BY <4>1, <4>2, <4>3
    <3> QED
      BY <1>1, <1>2, <3>1, <3>2
  <2>2. ASSUME NEW t \in 1 .. Len(d.tbs), NEW i \in 0 .. 1, InHash(d, t), d.tbs[t].jmp[i] # NoTb
        PROVE  InHash(d, d.tbs[t].jmp[i]) /\ <<t, i>> \in d.tbs[d.tbs[t].jmp[i]].inc
    <3>1. InHash(c, t) /\ t \in 1 .. n /\ d.tbs[t] = c.tbs[t]
      BY <1>2, <1>3, <1>4, <2>2
    <3>2. PICK w : w = c.tbs[t].jmp[i]
      OBVIOUS
    <3>3. InHash(c, w) /\ <<t, i>> \in c.tbs[w].inc
      BY <2>2, <3>1, <3>2 DEF CacheOK, Jumps, n
    <3>4. d.tbs[w] = c.tbs[w]
      BY <1>2, <1>4, <3>3
    <3> QED
      BY <1>3, <3>1, <3>2, <3>3, <3>4
  <2> QED
    BY <2>1, <2>2 DEF Jumps
<1>8. JumpCache(d)
  BY <1>3 DEF CacheOK, JumpCache
<1>9. ASSUME NEW t \in 1 .. Len(d.tbs) PROVE WellShaped(d.tbs[t])
  <2>1. t = n + 1 \/ t \in 1 .. n
    BY <1>1, <1>2
  <2> QED
    BY <1>2, <2>1 DEF CacheOK, n
<1>10. Len(d.tbs) <= d.max
  BY <1>1, <1>2 DEF n
<1>11. CacheOK(d)
  BY <1>5, <1>6, <1>7, <1>8, <1>9, <1>10 DEF CacheOK
<1>12. ~InHash(c, n + 1)
  BY <1>1, <1>4
<1> QED
  BY <1>2, <1>3, <1>11, <1>12 DEF n

\* A block is put into its chain, which becomes s, and the lists of its pages, or
\* moved in its chain.
LinkedTo(c, t, s, d) ==
    /\ InHash(c, t) \/ \A n \in 0 .. 1 : c.tbs[t].jmp[n] = NoTb
    /\ \A p \in PagesOf(c.tbs[t]) : p \in PPages
    /\ \A x : Contains(s, x) <=> Contains(c.hash[Chain(StartOf(c.tbs[t]))], x) \/ x = t
    /\ d \in Caches /\ d.tbs = c.tbs /\ d.hash = [c.hash EXCEPT ![Chain(StartOf(c.tbs[t]))] = s]
    /\ d.jc = c.jc /\ d.max = c.max
    /\ \A p \in PPages : d.pages[p] = IF p \in PagesOf(c.tbs[t]) THEN c.pages[p] \cup {t}
                                      ELSE c.pages[p]

HashWith(c, d, t) == \A u : InHash(d, u) <=> InHash(c, u) \/ u = t

LEMMA Linked ==
    ASSUME NEW c, CacheOK(c), NEW t \in 1 .. Len(c.tbs), NEW s \in Seq(Nat), Distinct(s),
           NEW d, LinkedTo(c, t, s, d)
    PROVE  CacheOK(d) /\ HashWith(c, d, t)
<1> DEFINE b == Chain(StartOf(c.tbs[t]))
<1>0. /\ InHash(c, t) \/ \A n \in 0 .. 1 : c.tbs[t].jmp[n] = NoTb
      /\ \A p \in PagesOf(c.tbs[t]) : p \in PPages
      /\ \A x : Contains(s, x) <=> Contains(c.hash[b], x) \/ x = t
      /\ d \in Caches /\ d.tbs = c.tbs /\ d.hash = [c.hash EXCEPT ![b] = s] /\ d.jc = c.jc
      /\ d.max = c.max
      /\ \A p \in PPages : d.pages[p] = IF p \in PagesOf(c.tbs[t]) THEN c.pages[p] \cup {t}
                                        ELSE c.pages[p]
  BY DEF LinkedTo
<1>1. c \in Caches /\ c.hash \in [0 .. Buckets - 1 -> Seq(Nat)] /\ b \in 0 .. Buckets - 1
      /\ b = Chain(StartOf(c.tbs[t]))
  BY CacheFields, ChainType DEF CacheOK
<1> HIDE DEF b
<1>2. d.hash[b] = s /\ \A x \in 0 .. Buckets - 1 : x # b => d.hash[x] = c.hash[x]
  BY <1>0, <1>1
<1>3. DOMAIN d.hash = 0 .. Buckets - 1 /\ DOMAIN c.hash = 0 .. Buckets - 1
  BY <1>0, <1>1
<1>4. \A u : InHash(d, u) <=> InHash(c, u) \/ u = t
  BY <1>0, <1>1, <1>2, <1>3 DEF InHash
<1>5. Chains(d)
  <2> SUFFICES ASSUME NEW x \in 0 .. Buckets - 1
               PROVE  /\ Distinct(d.hash[x])
                      /\ \A u : Contains(d.hash[x], u) =>
                            u \in 1 .. Len(d.tbs) /\ Chain(StartOf(d.tbs[u])) = x
    BY DEF Chains
  <2>1. /\ Distinct(c.hash[x])
        /\ \A u : Contains(c.hash[x], u) => u \in 1 .. Len(c.tbs) /\ Chain(StartOf(c.tbs[u])) = x
    BY <1>0 DEF CacheOK, Chains
  <2> QED
    BY <1>0, <1>1, <1>2, <2>1
<1>6. PageLists(d)
  <2>1. ASSUME NEW p \in PPages, NEW u \in d.pages[p]
        PROVE  u \in 1 .. Len(d.tbs) /\ InHash(d, u) /\ p \in PagesOf(d.tbs[u])
    <3>1. u \in c.pages[p] \/ (u = t /\ p \in PagesOf(c.tbs[t]))
      BY <1>0, <2>1
    <3>2. CASE u \in c.pages[p]
      BY <1>0, <1>4, <3>2 DEF CacheOK, PageLists
    <3>3. CASE u = t /\ p \in PagesOf(c.tbs[t])
      BY <1>0, <1>4, <3>3
    <3> QED
      BY <1>0, <3>1, <3>2, <3>3
  <2>2. ASSUME NEW u \in 1 .. Len(d.tbs), InHash(d, u), NEW p \in PagesOf(d.tbs[u])
        PROVE  p \in PPages /\ u \in d.pages[p]
    <3>1. CASE u = t
      BY <1>0, <2>2, <3>1
    <3>2. CASE u # t
      <4>1. InHash(c, u)
        BY <1>0, <1>4, <2>2, <3>2
      <4>2. p \in PPages /\ u \in c.pages[p]
        BY <1>0, <2>2, <4>1 DEF CacheOK, PageLists
      <4> QED
        BY <1>0, <4>2
    <3> QED
      BY <1>0, <3>1, <3>2
  <2> QED
    BY <1>0, <2>1, <2>2 DEF PageLists
<1>7. Jumps(d)
  <2>1. ASSUME NEW u \in 1 .. Len(d.tbs), NEW i \in 0 .. 1, InHash(d, u), d.tbs[u].jmp[i] # NoTb
        PROVE  InHash(d, d.tbs[u].jmp[i]) /\ <<u, i>> \in d.tbs[d.tbs[u].jmp[i]].inc
    <3>1. InHash(c, u)
      BY <1>0, <1>4, <2>1
    <3> QED
      BY <1>0, <1>4, <2>1, <3>1 DEF CacheOK, Jumps
  <2> QED
    BY <1>0, <2>1 DEF CacheOK, Jumps
<1>8. JumpCache(d)
  BY <1>0, <1>4 DEF CacheOK, JumpCache
<1>9. CacheOK(d)
  BY <1>0, <1>5, <1>6, <1>7, <1>8 DEF CacheOK
<1> QED
  BY <1>4, <1>9 DEF HashWith

\* A block that is in a chain gets into the jump cache.
RememberedTo(c, t, a, d) ==
    /\ d \in Caches /\ d.tbs = c.tbs /\ d.hash = c.hash /\ d.pages = c.pages
    /\ d.jc = [c.jc EXCEPT ![a] = t] /\ d.max = c.max

LEMMA Remembered ==
    ASSUME NEW c, CacheOK(c), NEW t, InHash(c, t), NEW a \in Pcs, NEW d, RememberedTo(c, t, a, d)
    PROVE  CacheOK(d) /\ \A u : InHash(d, u) <=> InHash(c, u)
<1>0. /\ d \in Caches /\ d.tbs = c.tbs /\ d.hash = c.hash /\ d.pages = c.pages
      /\ d.jc = [c.jc EXCEPT ![a] = t] /\ d.max = c.max
  BY DEF RememberedTo
<1>1. \A u : InHash(d, u) <=> InHash(c, u)
  BY <1>0, SameHash
<1>2. Chains(d) /\ PageLists(d) /\ Jumps(d)
  BY <1>0, <1>1, Zenon DEF CacheOK, Chains, PageLists, Jumps
<1>3. c \in Caches /\ c.jc \in [Pcs -> Nat]
  BY <1>0, CacheFields DEF CacheOK
<1>4. JumpCache(d)
  BY <1>0, <1>1, <1>3 DEF CacheOK, JumpCache
<1>5. CacheOK(d)
  BY <1>0, <1>2, <1>4 DEF CacheOK
<1> QED
  BY <1>0, <1>1, <1>5

-----------------------------------------------------------------------------
(* Annotations *)

LEMMA CodeSet ==
    ASSUME NEW tb \in Blocks, NEW x \in Codes, NEW new, new = [tb EXCEPT !.code = x]
    PROVE  /\ new \in Blocks /\ SameBlock(tb, new) /\ new.jmp = tb.jmp /\ new.inc = tb.inc
           /\ new.code = x /\ new.dirty = tb.dirty
BY DEF Blocks, SameBlock

LEMMA DirtySet ==
    ASSUME NEW tb \in Blocks, NEW new, new = [tb EXCEPT !.dirty = TRUE]
    PROVE  /\ new \in Blocks /\ SameBlock(tb, new) /\ new.jmp = tb.jmp /\ new.inc = tb.inc
           /\ new.code = tb.code /\ new.dirty = TRUE
BY DEF Blocks, SameBlock

LEMMA Reannotated ==
    ASSUME NEW c \in Caches, NEW f \in [1 .. Len(c.tbs) -> Blocks],
           \A t \in 1 .. Len(c.tbs) :
              SameBlock(c.tbs[t], f[t]) /\ f[t].jmp = c.tbs[t].jmp /\ f[t].inc = c.tbs[t].inc,
           NEW d, d = [c EXCEPT !.tbs = f]
    PROVE  Annotated(c, d) /\ d.tbs = f
<1>1. Len(c.tbs) \in Nat
  BY CacheFields
<1>2. f \in Seq(Blocks) /\ Len(f) = Len(c.tbs)
  BY <1>1, FunctionIsSeq
<1>3. /\ d \in Caches /\ d.tbs = f /\ d.hash = c.hash /\ d.pages = c.pages
      /\ d.jc = c.jc /\ d.max = c.max /\ d.invalidated = c.invalidated
  BY <1>2 DEF Caches
<1> QED
  BY <1>2, <1>3 DEF Annotated

LEMMA SettledIs ==
    ASSUME NEW c \in Caches, NEW d, d = Settled(c)
    PROVE  /\ Annotated(c, d)
           /\ \A t \in 1 .. Len(c.tbs) :
                 /\ d.tbs[t].dirty = c.tbs[t].dirty
                 /\ d.tbs[t].code = IF c.tbs[t].code = "behind" \/ ~InHash(c, t) THEN "stale"
                                    ELSE c.tbs[t].code
<1> DEFINE x(t) == IF c.tbs[t].code = "behind" \/ ~InHash(c, t) THEN "stale" ELSE c.tbs[t].code
<1>1. DOMAIN c.tbs = 1 .. Len(c.tbs) /\ \A t \in 1 .. Len(c.tbs) : c.tbs[t] \in Blocks
  BY CacheFields
<1>2. PICK f : f = [t \in 1 .. Len(c.tbs) |-> [c.tbs[t] EXCEPT !.code = x(t)]]
  OBVIOUS
<1>3. d = [c EXCEPT !.tbs = f]
  <2>1. d = [c EXCEPT !.tbs = [t \in DOMAIN c.tbs |-> [c.tbs[t] EXCEPT !.code = x(t)]]]
    BY Zenon DEF Settled
  <2> HIDE DEF x
  <2> QED
    BY <1>1, <1>2, <2>1
<1>4. ASSUME NEW t \in 1 .. Len(c.tbs)
      PROVE  /\ f[t] \in Blocks /\ SameBlock(c.tbs[t], f[t])
             /\ f[t].jmp = c.tbs[t].jmp /\ f[t].inc = c.tbs[t].inc
             /\ f[t].dirty = c.tbs[t].dirty /\ f[t].code = x(t)
  <2>1. PICK tb \in Blocks : tb = c.tbs[t]
    BY <1>1
  <2>2. x(t) \in Codes
    BY <2>1, BlockFields DEF Codes
  <2>3. PICK y \in Codes : y = x(t)
    BY <2>2
  <2>4. f[t] = [tb EXCEPT !.code = y]
    BY <1>2, <2>1, <2>3
  <2> HIDE DEF x
  <2> QED
    BY <2>1, <2>3, <2>4, CodeSet
<1>5. f \in [1 .. Len(c.tbs) -> Blocks]
  BY <1>2, <1>4
<1> HIDE DEF x
<1>6. Annotated(c, d) /\ d.tbs = f
  BY <1>3, <1>4, <1>5, Reannotated
<1> QED
  BY <1>4, <1>6 DEF x

LEMMA OverwrittenIs ==
    ASSUME NEW c \in Caches, NEW a, NEW how \in {"behind", "stale"}, NEW d, d = Overwritten(c, a, how)
    PROVE  /\ Annotated(c, d)
           /\ \A t \in 1 .. Len(c.tbs) :
                 /\ d.tbs[t].dirty = c.tbs[t].dirty
                 /\ d.tbs[t].code = IF c.tbs[t].code = "current" /\ Covers(c.tbs[t], a)
                                    THEN IF InHash(c, t) THEN how ELSE "behind"
                                    ELSE c.tbs[t].code
<1> DEFINE x(t) == IF c.tbs[t].code = "current" /\ Covers(c.tbs[t], a)
                   THEN IF InHash(c, t) THEN how ELSE "behind"
                   ELSE c.tbs[t].code
<1>1. DOMAIN c.tbs = 1 .. Len(c.tbs) /\ \A t \in 1 .. Len(c.tbs) : c.tbs[t] \in Blocks
  BY CacheFields
<1>2. PICK f : f = [t \in 1 .. Len(c.tbs) |-> [c.tbs[t] EXCEPT !.code = x(t)]]
  OBVIOUS
<1>3. d = [c EXCEPT !.tbs = f]
  <2>1. d = [c EXCEPT !.tbs = [t \in DOMAIN c.tbs |-> [c.tbs[t] EXCEPT !.code = x(t)]]]
    BY Zenon DEF Overwritten
  <2> HIDE DEF x
  <2> QED
    BY <1>1, <1>2, <2>1
<1>4. ASSUME NEW t \in 1 .. Len(c.tbs)
      PROVE  /\ f[t] \in Blocks /\ SameBlock(c.tbs[t], f[t])
             /\ f[t].jmp = c.tbs[t].jmp /\ f[t].inc = c.tbs[t].inc
             /\ f[t].dirty = c.tbs[t].dirty /\ f[t].code = x(t)
  <2>1. PICK tb \in Blocks : tb = c.tbs[t]
    BY <1>1
  <2>2. x(t) \in Codes
    BY <2>1, BlockFields DEF Codes
  <2>3. PICK y \in Codes : y = x(t)
    BY <2>2
  <2>4. f[t] = [tb EXCEPT !.code = y]
    BY <1>2, <2>1, <2>3
  <2> HIDE DEF x
  <2> QED
    BY <2>1, <2>3, <2>4, CodeSet
<1>5. f \in [1 .. Len(c.tbs) -> Blocks]
  BY <1>2, <1>4
<1> HIDE DEF x
<1>6. Annotated(c, d) /\ d.tbs = f
  BY <1>3, <1>4, <1>5, Reannotated
<1> QED
  BY <1>4, <1>6 DEF x

MarkHits(c, t, a) ==
    /\ t \in c.pages[PageOf(a)]
    /\ \/ StartOf(c.tbs[t]) <= a /\ a < StartOf(c.tbs[t]) + c.tbs[t].size
       \/ StartOf(c.tbs[t]) = a

LEMMA MarkDirtyIs ==
    ASSUME NEW c \in Caches, NEW a, NEW d, d = MarkDirty(c, a)
    PROVE  /\ Annotated(c, d)
           /\ \A t \in 1 .. Len(c.tbs) :
                 /\ d.tbs[t].code = c.tbs[t].code
                 /\ d.tbs[t].dirty = (c.tbs[t].dirty \/ MarkHits(c, t, a))
<1>1. DOMAIN c.tbs = 1 .. Len(c.tbs) /\ \A t \in 1 .. Len(c.tbs) : c.tbs[t] \in Blocks
  BY CacheFields
<1>2. PICK f : f = [t \in 1 .. Len(c.tbs) |-> IF MarkHits(c, t, a)
                                              THEN [c.tbs[t] EXCEPT !.dirty = TRUE] ELSE c.tbs[t]]
  OBVIOUS
<1>3. d = [c EXCEPT !.tbs = f]
  BY <1>1, <1>2 DEF MarkDirty, MarkHits
<1>4. ASSUME NEW t \in 1 .. Len(c.tbs)
      PROVE  /\ f[t] \in Blocks /\ SameBlock(c.tbs[t], f[t])
             /\ f[t].jmp = c.tbs[t].jmp /\ f[t].inc = c.tbs[t].inc
             /\ f[t].code = c.tbs[t].code /\ f[t].dirty = (c.tbs[t].dirty \/ MarkHits(c, t, a))
  <2>1. PICK tb \in Blocks : tb = c.tbs[t]
    BY <1>1
  <2>2. CASE MarkHits(c, t, a)
    <3>1. PICK new : new = [tb EXCEPT !.dirty = TRUE]
      OBVIOUS
    <3>2. f[t] = new
      BY <1>2, <2>1, <2>2, <3>1
    <3>3. /\ new \in Blocks /\ SameBlock(tb, new) /\ new.jmp = tb.jmp /\ new.inc = tb.inc
          /\ new.code = tb.code /\ new.dirty = TRUE
      BY <3>1, DirtySet
    <3>4. f[t].dirty = (c.tbs[t].dirty \/ MarkHits(c, t, a))
      BY <2>2, <3>2, <3>3
    <3> QED
      BY <2>1, <3>2, <3>3, <3>4
  <2>3. CASE ~MarkHits(c, t, a)
    <3>1. f[t] = tb
      BY <1>2, <2>1, <2>3
    <3>2. tb.dirty \in BOOLEAN
      BY BlockFields
    <3>3. SameBlock(tb, tb)
      BY DEF SameBlock
    <3>4. f[t].dirty = (c.tbs[t].dirty \/ MarkHits(c, t, a))
      BY <2>1, <2>3, <3>1, <3>2
    <3> QED
      BY <2>1, <3>1, <3>3, <3>4
  <2> QED
    BY <2>2, <2>3
<1>5. f \in [1 .. Len(c.tbs) -> Blocks]
  BY <1>2, <1>4
<1>6. Annotated(c, d) /\ d.tbs = f
  BY <1>3, <1>4, <1>5, Reannotated
<1> QED
  BY <1>4, <1>6

-----------------------------------------------------------------------------
(* The jump cache and the buffer *)

LEMMA JmpCacheRemoved ==
    ASSUME NEW c, CacheOK(c), NEW t, NEW d, d = JmpCacheRemove(c, t)
    PROVE  CacheOK(d) /\ Dropped(c, d) /\ d.tbs = c.tbs /\ d.hash = c.hash
<1>1. c \in Caches /\ c.jc \in [Pcs -> Nat]
  BY CacheFields DEF CacheOK
<1>2. PICK jc : jc = [a \in Pcs |-> IF c.jc[a] = t THEN NoTb ELSE c.jc[a]]
  OBVIOUS
<1>3. jc \in [Pcs -> Nat] /\ \A a \in Pcs : jc[a] \in {c.jc[a], NoTb}
  BY <1>1, <1>2 DEF NoTb
<1>4. d = [c EXCEPT !.jc = jc]
  BY <1>2 DEF JmpCacheRemove
<1>5. /\ d \in Caches /\ d.tbs = c.tbs /\ d.hash = c.hash /\ d.pages = c.pages /\ d.jc = jc
      /\ d.max = c.max
  BY <1>1, <1>3, <1>4 DEF Caches
<1> QED
  BY <1>3, <1>5, JumpCacheCleared

LEMMA JmpCacheFlushed ==
    ASSUME NEW c, CacheOK(c), NEW v, NEW d, d = tlb_flush_jmp_cache(c, v)
    PROVE  /\ CacheOK(d) /\ Dropped(c, d) /\ d.tbs = c.tbs /\ d.hash = c.hash /\ d.pages = c.pages
           /\ \A a \in Pcs : d.jc[a] = IF PageOf(a) \in {v - 1, v} THEN NoTb ELSE c.jc[a]
<1>1. c \in Caches /\ c.jc \in [Pcs -> Nat]
  BY CacheFields DEF CacheOK
<1>2. PICK jc : jc = [a \in Pcs |-> IF PageOf(a) \in {v - 1, v} THEN NoTb ELSE c.jc[a]]
  OBVIOUS
<1>3. jc \in [Pcs -> Nat] /\ \A a \in Pcs : jc[a] \in {c.jc[a], NoTb}
  BY <1>1, <1>2 DEF NoTb
<1>4. d = [c EXCEPT !.jc = jc]
  BY <1>2 DEF tlb_flush_jmp_cache
<1>5. /\ d \in Caches /\ d.tbs = c.tbs /\ d.hash = c.hash /\ d.pages = c.pages /\ d.jc = jc
      /\ d.max = c.max
  BY <1>1, <1>3, <1>4 DEF Caches
<1>6. \A a \in Pcs : jc[a] = IF PageOf(a) \in {v - 1, v} THEN NoTb ELSE c.jc[a]
  BY <1>2
<1> QED
  BY <1>3, <1>5, <1>6, JumpCacheCleared

Emptied(d) == /\ d.tbs = <<>> /\ Len(d.tbs) = 0 /\ \A p \in PPages : d.pages[p] = {}
              /\ \A b \in 0 .. Buckets - 1 : d.hash[b] = <<>>
              /\ \A a \in Pcs : d.jc[a] = NoTb
              /\ \A t : ~InHash(d, t)

LEMMA EmptyFields ==
    ASSUME NEW m \in MinBlocks .. MaxBlocks
    PROVE  \E d \in Caches : /\ d = EmptyCache(m) /\ d.tbs = <<>> /\ d.max = m
                             /\ d.hash = [b \in 0 .. Buckets - 1 |-> <<>>]
                             /\ d.pages = [p \in PPages |-> {}] /\ d.jc = [a \in Pcs |-> NoTb]
<1>1. PICK e \in Seq(Blocks) : e = <<>>
  <2>1. <<>> \in Seq(Blocks)
    BY EmptySeq
  <2> QED
    BY <2>1
<1>2. PICK h \in [0 .. Buckets - 1 -> Seq(Nat)] : h = [b \in 0 .. Buckets - 1 |-> <<>>]
  <2>1. <<>> \in Seq(Nat)
    BY EmptySeq
  <2> QED
    BY <2>1
<1>3. PICK ps \in [PPages -> SUBSET Nat] : ps = [p \in PPages |-> {}]
  OBVIOUS
<1>4. PICK jc \in [Pcs -> Nat] : jc = [a \in Pcs |-> NoTb]
  BY DEF NoTb
<1>5. PICK x \in BOOLEAN : x = FALSE
  OBVIOUS
<1>6. PICK d : d = [tbs |-> e, hash |-> h, pages |-> ps, jc |-> jc, invalidated |-> x, max |-> m]
  OBVIOUS
<1>7. /\ d \in Caches /\ d.tbs = e /\ d.hash = h /\ d.pages = ps /\ d.jc = jc /\ d.max = m
  BY <1>6 DEF Caches
<1>8. d = EmptyCache(m)
  BY <1>1, <1>2, <1>3, <1>4, <1>5, <1>6 DEF EmptyCache
<1> QED
  BY <1>1, <1>2, <1>3, <1>4, <1>7, <1>8, Zenon

\* An empty cache, whatever the flag and the size.
LEMMA EmptyOK ==
    ASSUME NEW d \in Caches, d.tbs = <<>>, d.hash = [b \in 0 .. Buckets - 1 |-> <<>>],
           d.pages = [p \in PPages |-> {}], d.jc = [a \in Pcs |-> NoTb]
    PROVE  CacheOK(d) /\ Emptied(d)
<1>5. /\ \A b \in 0 .. Buckets - 1 : d.hash[b] = <<>>
      /\ \A p \in PPages : d.pages[p] = {}
      /\ \A a \in Pcs : d.jc[a] = NoTb
      /\ DOMAIN d.hash = 0 .. Buckets - 1 /\ Len(d.tbs) = 0
  OBVIOUS
<1>6. \A y : ~Contains(<<>>, y)
  BY DEF Contains
<1>7. \A t : ~InHash(d, t)
  BY <1>5, <1>6 DEF InHash
<1>8. Emptied(d)
  BY <1>5, <1>7 DEF Emptied
<1>9. Distinct(<<>>)
  BY DEF Distinct
<1>10. Chains(d) /\ PageLists(d) /\ Jumps(d) /\ JumpCache(d)
  <2>1. \A t : t \notin 1 .. Len(d.tbs)
    BY <1>5
  <2> QED
    BY <1>5, <1>6, <1>7, <1>9, <2>1 DEF Chains, PageLists, Jumps, JumpCache
<1>11. Len(d.tbs) <= d.max
  BY <1>5, CacheFields
<1>12. CacheOK(d)
  BY <1>5, <1>10, <1>11 DEF CacheOK
<1> QED
  BY <1>8, <1>12

LEMMA Flushed ==
    ASSUME NEW c, CacheOK(c), NEW d, d = tb_flush(c)
    PROVE  CacheOK(d) /\ Emptied(d) /\ d.invalidated = c.invalidated
<1>1. c.max \in MinBlocks .. MaxBlocks /\ c.invalidated \in BOOLEAN
  BY CacheFields DEF CacheOK
<1>2. PICK z \in Caches :
         /\ z = EmptyCache(c.max) /\ z.tbs = <<>> /\ z.hash = [b \in 0 .. Buckets - 1 |-> <<>>]
         /\ z.pages = [p \in PPages |-> {}] /\ z.jc = [a \in Pcs |-> NoTb]
  BY <1>1, EmptyFields
<1>3. PICK x \in BOOLEAN : x = c.invalidated
  BY <1>1
<1>4. d = [z EXCEPT !.invalidated = x]
  BY <1>2, <1>3, Zenon DEF tb_flush
<1>5. d \in Caches /\ d.tbs = z.tbs /\ d.hash = z.hash /\ d.pages = z.pages /\ d.jc = z.jc
  BY <1>4 DEF Caches
<1>6. d.invalidated = c.invalidated
  BY <1>3, <1>4 DEF Caches
<1> QED
  BY <1>2, <1>5, <1>6, EmptyOK

\* tb_alloc leaves room for a block, in the same cache or in an empty one.
LEMMA Allocated ==
    ASSUME NEW c, CacheOK(c), NEW d, d \in tb_alloc(c)
    PROVE  /\ CacheOK(d) /\ Len(d.tbs) < d.max
           /\ d = c \/ (Emptied(d) /\ d.invalidated)
<1>1. /\ c.max \in MinBlocks .. MaxBlocks /\ c.max \in Nat /\ c.invalidated \in BOOLEAN
      /\ Len(c.tbs) \in Nat /\ Len(c.tbs) <= c.max
      /\ MinBlocks \in Nat /\ MinBlocks > 0 /\ MaxBlocks \in Nat
  BY CacheFields, TbCacheAssumption DEF CacheOK
<1>2. CASE Len(c.tbs) < c.max
  BY <1>2 DEF tb_alloc
<1>3. CASE ~(Len(c.tbs) < c.max)
  <2> DEFINE doubled == IF 2 * c.max > MaxBlocks THEN MaxBlocks ELSE 2 * c.max
  <2>1. doubled \in MinBlocks .. MaxBlocks
    BY <1>1
  <2>2. d \in {[tb_flush(c) EXCEPT !.max = m, !.invalidated = TRUE] : m \in {c.max, doubled}}
    BY <1>3 DEF tb_alloc
  <2> HIDE DEF doubled
  <2>3. PICK m \in MinBlocks .. MaxBlocks : d = [tb_flush(c) EXCEPT !.max = m, !.invalidated = TRUE]
    BY <1>1, <2>1, <2>2
  <2>4. PICK z \in Caches :
           /\ z = EmptyCache(c.max) /\ z.tbs = <<>> /\ z.hash = [b \in 0 .. Buckets - 1 |-> <<>>]
           /\ z.pages = [p \in PPages |-> {}] /\ z.jc = [a \in Pcs |-> NoTb]
    BY <1>1, EmptyFields
  <2>5. CacheOK(d) /\ Emptied(d) /\ d.max = m /\ d.invalidated = TRUE
    <3>1. PICK x, y \in BOOLEAN : x = c.invalidated /\ y = TRUE
      BY <1>1
    <3>2. PICK f : f = [z EXCEPT !.invalidated = x]
      OBVIOUS
    <3>3. d = [f EXCEPT !.max = m, !.invalidated = y]
      BY <2>3, <2>4, <3>1, <3>2, Zenon DEF tb_flush
    <3>4. f \in Caches /\ f.tbs = z.tbs /\ f.hash = z.hash /\ f.pages = z.pages /\ f.jc = z.jc
      BY <3>2 DEF Caches
    <3>5. /\ d \in Caches /\ d.tbs = f.tbs /\ d.hash = f.hash /\ d.pages = f.pages /\ d.jc = f.jc
          /\ d.max = m /\ d.invalidated = y
      BY <3>3, <3>4 DEF Caches
    <3>6. CacheOK(d) /\ Emptied(d)
      BY <2>4, <3>4, <3>5, EmptyOK
    <3> QED
      BY <3>1, <3>5, <3>6
  <2>6. Len(d.tbs) < d.max
    BY <1>1, <2>5 DEF Emptied
  <2> QED
    BY <2>5, <2>6
<1> QED
  BY <1>2, <1>3

-----------------------------------------------------------------------------
(* Chaining *)

\* Jump i of block w is patched to t.
JumpAdded(c, d, w, i, t) ==
    /\ w \in 1 .. Len(c.tbs) /\ d \in Caches /\ Len(d.tbs) = Len(c.tbs) /\ d.hash = c.hash
    /\ d.pages = c.pages /\ d.jc = c.jc /\ d.max = c.max
    /\ \A u \in 1 .. Len(c.tbs) :
          /\ SameBlock(c.tbs[u], d.tbs[u])
          /\ d.tbs[u].dirty = c.tbs[u].dirty /\ d.tbs[u].code = c.tbs[u].code
          /\ \A n \in 0 .. 1 : d.tbs[u].jmp[n] = IF u = w /\ n = i THEN t ELSE c.tbs[u].jmp[n]
          /\ d.tbs[u].inc = IF u = t THEN c.tbs[u].inc \cup {<<w, i>>} ELSE c.tbs[u].inc

PatchedBlock(tb, new, i, t) ==
    /\ new \in Blocks /\ SameBlock(tb, new) /\ new.dirty = tb.dirty /\ new.code = tb.code
    /\ \A n \in 0 .. 1 : new.jmp[n] = IF n = i THEN t ELSE tb.jmp[n]
    /\ new.inc = tb.inc

ListedBlock(tb, new, s) ==
    /\ new \in Blocks /\ SameBlock(tb, new) /\ new.dirty = tb.dirty /\ new.code = tb.code
    /\ new.jmp = tb.jmp /\ new.inc = s

LEMMA JumpPatched ==
    ASSUME NEW tb \in Blocks, NEW i \in 0 .. 1, NEW t \in Nat, NEW new, new = [tb EXCEPT !.jmp[i] = t]
    PROVE  PatchedBlock(tb, new, i, t)
<1>1. PICK j \in [0 .. 1 -> Nat] : j = [tb.jmp EXCEPT ![i] = t]
  BY DEF Blocks
<1>2. new = [tb EXCEPT !.jmp = j]
  BY <1>1
<1>3. /\ new \in Blocks /\ SameBlock(tb, new) /\ new.dirty = tb.dirty /\ new.code = tb.code
      /\ new.jmp = j /\ new.inc = tb.inc
  BY <1>2 DEF Blocks, SameBlock
<1>4. tb.jmp \in [0 .. 1 -> Nat]
  BY DEF Blocks
<1>5. \A n \in 0 .. 1 : j[n] = IF n = i THEN t ELSE tb.jmp[n]
  BY <1>1, <1>4
<1> QED
  BY <1>3, <1>5 DEF PatchedBlock

LEMMA JumpListed ==
    ASSUME NEW tb \in Blocks, NEW s \in SUBSET (Nat \X (0 .. 1)), NEW new, new = [tb EXCEPT !.inc = s]
    PROVE  ListedBlock(tb, new, s)
BY DEF Blocks, SameBlock, ListedBlock

IsPatched(c, d, w, i, t) ==
    d = [c EXCEPT !.tbs = [c.tbs EXCEPT ![w].jmp[i] = t, ![t].inc = c.tbs[t].inc \cup {<<w, i>>}]]

LEMMA JumpFields ==
    ASSUME NEW c \in Caches, NEW w \in 1 .. Len(c.tbs), NEW i \in 0 .. 1, NEW t \in 1 .. Len(c.tbs),
           NEW d, IsPatched(c, d, w, i, t)
    PROVE  JumpAdded(c, d, w, i, t) /\ d.invalidated = c.invalidated
<1> DEFINE n == Len(c.tbs)
<1>1. /\ c.tbs \in [1 .. n -> Blocks] /\ n \in Nat /\ DOMAIN c.tbs = 1 .. n
      /\ \A u \in 1 .. n : c.tbs[u] \in Blocks
  BY CacheFields
<1> HIDE DEF n
<1>3. PICK f : f = [c.tbs EXCEPT ![w].jmp[i] = t]
  OBVIOUS
<1>4. PICK s : s = c.tbs[t].inc \cup {<<w, i>>}
  OBVIOUS
<1>5. PICK g : g = [f EXCEPT ![t].inc = s]
  OBVIOUS
<1>6. d = [c EXCEPT !.tbs = g]
  BY <1>3, <1>4, <1>5 DEF IsPatched
<1>7. t \in Nat /\ t \in 1 .. n /\ w \in 1 .. n /\ w \in Nat
  BY <1>1 DEF n
<1>8. /\ f \in [1 .. n -> Blocks] /\ f[w] = [c.tbs[w] EXCEPT !.jmp[i] = t]
      /\ \A u \in 1 .. n : u # w => f[u] = c.tbs[u]
  <2>1. PICK new : new = [c.tbs[w] EXCEPT !.jmp[i] = t]
    OBVIOUS
  <2>2. new \in Blocks
    BY <1>1, <1>7, <2>1, JumpPatched DEF PatchedBlock
  <2>3. f = [c.tbs EXCEPT ![w] = new]
    BY <1>3, <2>1
  <2> QED
    BY <1>1, <1>7, <2>1, <2>2, <2>3
<1>9. ASSUME NEW u \in 1 .. n
      PROVE  /\ f[u] \in Blocks /\ SameBlock(c.tbs[u], f[u]) /\ f[u].dirty = c.tbs[u].dirty
             /\ f[u].code = c.tbs[u].code /\ f[u].inc = c.tbs[u].inc
             /\ \A k \in 0 .. 1 : f[u].jmp[k] = IF u = w /\ k = i THEN t ELSE c.tbs[u].jmp[k]
  <2>0. PICK tb \in Blocks : tb = c.tbs[u]
    BY <1>1
  <2>00. PICK new : new = f[u]
    OBVIOUS
  <2>1. tb = c.tbs[u] /\ new = f[u]
    BY <2>0, <2>00
  <2>2. CASE u = w
    <3>1. new = [tb EXCEPT !.jmp[i] = t]
      BY <1>8, <2>1, <2>2
    <3>2. PatchedBlock(tb, new, i, t)
      BY <1>7, <2>0, <3>1, JumpPatched
    <3> QED
      BY <2>1, <2>2, <3>2 DEF PatchedBlock
  <2>3. CASE u # w
    <3>1. new = tb /\ SameBlock(tb, tb)
      BY <1>8, <2>1, <2>3 DEF SameBlock
    <3> QED
      BY <2>1, <2>3, <3>1
  <2> QED
    BY <2>2, <2>3
<1>10. s \in SUBSET (Nat \X (0 .. 1)) /\ s = c.tbs[t].inc \cup {<<w, i>>}
  <2>1. c.tbs[t].inc \in SUBSET (Nat \X (0 .. 1))
    BY <1>1, <1>7, BlockFields
  <2> QED
    BY <1>4, <1>7, <2>1
<1>11. /\ g \in [1 .. n -> Blocks] /\ g[t] = [f[t] EXCEPT !.inc = s]
       /\ \A u \in 1 .. n : u # t => g[u] = f[u]
  <2>1. PICK new : new = [f[t] EXCEPT !.inc = s]
    OBVIOUS
  <2>2. new \in Blocks
    BY <1>7, <1>9, <1>10, <2>1, JumpListed DEF ListedBlock
  <2>3. g = [f EXCEPT ![t] = new]
    BY <1>5, <2>1
  <2> QED
    BY <1>7, <1>8, <2>1, <2>2, <2>3
<1>12. ASSUME NEW u \in 1 .. n
       PROVE  /\ SameBlock(c.tbs[u], g[u])
              /\ g[u].dirty = c.tbs[u].dirty /\ g[u].code = c.tbs[u].code
              /\ \A k \in 0 .. 1 : g[u].jmp[k] = IF u = w /\ k = i THEN t ELSE c.tbs[u].jmp[k]
              /\ g[u].inc = IF u = t THEN c.tbs[u].inc \cup {<<w, i>>} ELSE c.tbs[u].inc
  <2>0. PICK tb \in Blocks : tb = f[u]
    BY <1>9
  <2>00. PICK new : new = g[u]
    OBVIOUS
  <2>1. tb = f[u] /\ new = g[u]
    BY <2>0, <2>00
  <2>2. CASE u = t
    <3>1. new = [tb EXCEPT !.inc = s]
      BY <1>11, <2>1, <2>2
    <3>2. ListedBlock(tb, new, s)
      BY <1>10, <2>0, <3>1, JumpListed
    <3>20. /\ SameBlock(tb, new) /\ new.dirty = tb.dirty /\ new.code = tb.code
           /\ new.jmp = tb.jmp /\ new.inc = s
      BY <3>2 DEF ListedBlock
    <3>3. SameBlock(c.tbs[u], new)
      BY <1>9, <2>1, <3>20 DEF SameBlock
    <3> QED
      BY <1>9, <1>10, <2>1, <2>2, <3>20, <3>3
  <2>3. CASE u # t
    <3>1. new = tb
      BY <1>11, <2>1, <2>3
    <3> QED
      BY <1>9, <2>1, <2>3, <3>1
  <2> QED
    BY <2>2, <2>3
<1>13. g \in Seq(Blocks) /\ Len(g) = n
  BY <1>1, <1>11, FunctionIsSeq
<1>14. /\ d \in Caches /\ d.tbs = g /\ d.hash = c.hash /\ d.pages = c.pages /\ d.jc = c.jc
       /\ d.max = c.max /\ d.invalidated = c.invalidated
  BY <1>6, <1>13 DEF Caches
<1> QED
  BY <1>7, <1>12, <1>13, <1>14 DEF JumpAdded, n

\* A jump to a block that can be found is patched once only, and is in its list.
LEMMA AddedJump ==
    ASSUME NEW c, CacheOK(c), NEW w \in 0 .. Len(c.tbs), NEW i \in 0 .. 1, NEW t, InHash(c, t),
           NEW d, d = tb_add_jump(c, <<w, i>>, t)
    PROVE  /\ CacheOK(d) /\ (d = c \/ JumpAdded(c, d, w, i, t)) /\ d.invalidated = c.invalidated
           /\ \A u : InHash(d, u) <=> InHash(c, u)
<1>1. c \in Caches /\ DOMAIN c.tbs = 1 .. Len(c.tbs) /\ Len(c.tbs) \in Nat
  BY CacheFields DEF CacheOK
<1>2. CASE d = c
  BY <1>2
<1>3. CASE d # c
  <2>0. \A u : InHash(c, u) => u \in 1 .. Len(c.tbs)
    BY HashOf DEF CacheOK
  <2>1. /\ w \in 1 .. Len(c.tbs)
        /\ IsPatched(c, d, w, i, t)
    <3>1. <<w, i>>[1] = w /\ <<w, i>>[2] = i
      OBVIOUS
    <3>2. w \in 1 .. Len(c.tbs)
      BY <1>1, <1>3 DEF tb_add_jump
    <3>3. d = [c EXCEPT !.tbs = [c.tbs EXCEPT ![<<w, i>>[1]].jmp[<<w, i>>[2]] = t,
                                              ![t].inc = c.tbs[t].inc \cup {<<w, i>>}]]
      BY <1>3, Zenon DEF tb_add_jump
    <3> QED
      BY <3>1, <3>2, <3>3 DEF IsPatched
  <2>11. t \in 1 .. Len(c.tbs)
    BY <2>0
  <2>12. JumpAdded(c, d, w, i, t) /\ d.invalidated = c.invalidated
    BY <1>1, <2>1, <2>11, JumpFields
  <2>2. JumpAdded(c, d, w, i, t) /\ d.invalidated = c.invalidated /\ t \in 1 .. Len(c.tbs)
    BY <2>11, <2>12
  <2>3. /\ d \in Caches /\ Len(d.tbs) = Len(c.tbs) /\ d.hash = c.hash
        /\ d.pages = c.pages /\ d.jc = c.jc /\ d.max = c.max
    BY <2>2 DEF JumpAdded
  <2>4. \A u : InHash(d, u) <=> InHash(c, u)
    BY <2>3, SameHash
  <2>5. ASSUME NEW u \in 1 .. Len(c.tbs)
        PROVE  /\ StartOf(d.tbs[u]) = StartOf(c.tbs[u]) /\ PagesOf(d.tbs[u]) = PagesOf(c.tbs[u])
               /\ WellShaped(d.tbs[u])
    <3>1. PICK tb, new : tb = c.tbs[u] /\ new = d.tbs[u]
      OBVIOUS
    <3>2. SameBlock(tb, new) /\ WellShaped(tb)
      BY <2>2, <3>1 DEF JumpAdded, CacheOK
    <3> QED
      BY <3>1, <3>2, SameChain
  <2>6. Chains(d)
    BY <2>3, <2>5 DEF CacheOK, Chains
  <2>7. PageLists(d)
    <3>1. ASSUME NEW p \in PPages, NEW u \in d.pages[p]
          PROVE  u \in 1 .. Len(d.tbs) /\ InHash(d, u) /\ p \in PagesOf(d.tbs[u])
      BY <2>3, <2>4, <2>5 DEF CacheOK, PageLists
    <3>2. ASSUME NEW u \in 1 .. Len(d.tbs), InHash(d, u), NEW p \in PagesOf(d.tbs[u])
          PROVE  p \in PPages /\ u \in d.pages[p]
      BY <2>3, <2>4, <2>5, <3>2 DEF CacheOK, PageLists
    <3> QED
      BY <3>1, <3>2 DEF PageLists
  <2>8. Jumps(d)
    <3>1. ASSUME NEW u \in 1 .. Len(c.tbs), NEW k \in 0 .. 1
          PROVE  d.tbs[u].jmp[k] = IF u = w /\ k = i THEN t ELSE c.tbs[u].jmp[k]
      BY <2>2 DEF JumpAdded
    <3>2. ASSUME NEW u \in 1 .. Len(c.tbs)
          PROVE  d.tbs[u].inc = IF u = t THEN c.tbs[u].inc \cup {<<w, i>>} ELSE c.tbs[u].inc
      BY <2>2 DEF JumpAdded
    <3>3. ASSUME NEW u \in 1 .. Len(d.tbs)
          PROVE  /\ \A k \in 0 .. 1 : d.tbs[u].jmp[k] \in 0 .. Len(d.tbs)
                 /\ \A x \in d.tbs[u].inc : x \in (1 .. Len(d.tbs)) \X (0 .. 1)
      <4>1. u \in 1 .. Len(c.tbs) /\ t \in 0 .. Len(c.tbs)
        BY <1>1, <2>2, <2>3
      <4>2. /\ \A k \in 0 .. 1 : c.tbs[u].jmp[k] \in 0 .. Len(c.tbs)
            /\ \A x \in c.tbs[u].inc : x \in (1 .. Len(c.tbs)) \X (0 .. 1)
        BY <4>1 DEF CacheOK, Jumps
      <4>3. \A k \in 0 .. 1 : d.tbs[u].jmp[k] \in 0 .. Len(d.tbs)
        BY <2>3, <3>1, <4>1, <4>2
      <4>4. <<w, i>> \in (1 .. Len(c.tbs)) \X (0 .. 1)
        BY <2>1
      <4>5. \A x \in d.tbs[u].inc : x \in (1 .. Len(c.tbs)) \X (0 .. 1)
        BY <3>2, <4>1, <4>2, <4>4
      <4> QED
        BY <2>3, <4>3, <4>5
    <3>4. ASSUME NEW u \in 1 .. Len(d.tbs), NEW k \in 0 .. 1, InHash(d, u), d.tbs[u].jmp[k] # NoTb
          PROVE  InHash(d, d.tbs[u].jmp[k]) /\ <<u, k>> \in d.tbs[d.tbs[u].jmp[k]].inc
      <4>1. u \in 1 .. Len(c.tbs) /\ InHash(c, u)
        BY <2>3, <2>4, <3>4
      <4>2. CASE u = w /\ k = i
        <5>1. d.tbs[u].jmp[k] = t
          BY <3>1, <4>1, <4>2
        <5>2. <<u, k>> \in d.tbs[t].inc
          BY <2>2, <3>2, <4>2
        <5> QED
          BY <2>4, <5>1, <5>2
      <4>3. CASE ~(u = w /\ k = i)
        <5>1. PICK y : y = c.tbs[u].jmp[k]
          OBVIOUS
        <5>2. d.tbs[u].jmp[k] = y
          BY <3>1, <4>1, <4>3, <5>1
        <5>3. InHash(c, y) /\ <<u, k>> \in c.tbs[y].inc
          BY <3>4, <4>1, <5>1, <5>2 DEF CacheOK, Jumps
        <5>4. <<u, k>> \in d.tbs[y].inc
          BY <2>0, <3>2, <5>3
        <5> QED
          BY <2>4, <5>2, <5>3, <5>4
      <4> QED
        BY <4>2, <4>3
    <3> QED
      BY <3>3, <3>4 DEF Jumps
  <2>9. JumpCache(d)
    BY <2>3, <2>4 DEF CacheOK, JumpCache
  <2>10. CacheOK(d)
    BY <2>3, <2>5, <2>6, <2>7, <2>8, <2>9 DEF CacheOK
  <2> QED
    BY <2>2, <2>4, <2>10
<1> QED
  BY <1>2, <1>3

-----------------------------------------------------------------------------
(* Entering a block *)

\* The block before is chained to t, or nothing but the flag changes.
EnteredFrom(c, d, chain, x, t) ==
    /\ Len(d.tbs) = Len(c.tbs) /\ d.hash = c.hash /\ d.pages = c.pages /\ d.jc = c.jc
    /\ d.max = c.max /\ d.invalidated = FALSE
    /\ \A u \in 1 .. Len(c.tbs) :
          /\ SameBlock(c.tbs[u], d.tbs[u])
          /\ d.tbs[u].dirty = c.tbs[u].dirty /\ d.tbs[u].code = c.tbs[u].code
          /\ \A n \in 0 .. 1 : \/ d.tbs[u].jmp[n] = c.tbs[u].jmp[n]
                               \/ chain /\ <<u, n>> = x /\ d.tbs[u].jmp[n] = t

SameInHash(c, d) == \A u : InHash(d, u) <=> InHash(c, u)

LEMMA Entered ==
    ASSUME NEW c, CacheOK(c), NEW w, NEW i \in 0 .. 1, NEW t, InHash(c, t),
           NEW chain \in BOOLEAN, chain => w \in 0 .. Len(c.tbs), NEW e, e = IF chain THEN tb_add_jump(c, <<w, i>>, t) ELSE c,
           NEW d, d = [e EXCEPT !.invalidated = FALSE]
    PROVE  CacheOK(d) /\ EnteredFrom(c, d, chain, <<w, i>>, t) /\ SameInHash(c, d)
<1>3. /\ CacheOK(e) /\ (e = c \/ (chain /\ JumpAdded(c, e, w, i, t)))
      /\ \A u : InHash(e, u) <=> InHash(c, u)
  <2>1. CASE chain
    <3>1. e = tb_add_jump(c, <<w, i>>, t) /\ w \in 0 .. Len(c.tbs)
      BY <2>1
    <3>2. /\ CacheOK(e) /\ (e = c \/ JumpAdded(c, e, w, i, t)) /\ e.invalidated = c.invalidated
          /\ \A u : InHash(e, u) <=> InHash(c, u)
      BY <3>1, AddedJump
    <3> QED
      BY <2>1, <3>2
  <2>2. CASE ~chain
    BY <2>2
  <2> QED
    BY <2>1, <2>2
<1>4. /\ CacheOK(d) /\ d.tbs = e.tbs /\ d.hash = e.hash
      /\ d.pages = e.pages /\ d.jc = e.jc /\ d.max = e.max /\ d.invalidated = FALSE
  <2>1. CacheOK(e)
    BY <1>3
  <2>2. CacheOK(d) /\ Unflagged(e, d)
    BY <2>1, FlagReset
  <2> QED
    BY <2>2 DEF Unflagged
<1>6. EnteredFrom(c, d, chain, <<w, i>>, t)
  <2>1. /\ Len(e.tbs) = Len(c.tbs) /\ e.hash = c.hash /\ e.pages = c.pages /\ e.jc = c.jc
        /\ e.max = c.max
    BY <1>3 DEF JumpAdded
  <2>2. ASSUME NEW u \in 1 .. Len(c.tbs)
        PROVE  /\ SameBlock(c.tbs[u], e.tbs[u])
               /\ e.tbs[u].dirty = c.tbs[u].dirty /\ e.tbs[u].code = c.tbs[u].code
               /\ \A n \in 0 .. 1 : \/ e.tbs[u].jmp[n] = c.tbs[u].jmp[n]
                                    \/ chain /\ <<u, n>> = <<w, i>> /\ e.tbs[u].jmp[n] = t
    <3>1. CASE e = c
      BY <3>1 DEF SameBlock
    <3>2. CASE chain /\ JumpAdded(c, e, w, i, t)
      BY <3>2 DEF JumpAdded
    <3> QED
      BY <1>3, <3>1, <3>2
  <2> QED
    BY <1>4, <2>1, <2>2 DEF EnteredFrom
<1>7. \A u : InHash(d, u) <=> InHash(e, u)
  BY <1>4, SameHash
<1> QED
  BY <1>3, <1>4, <1>6, <1>7 DEF SameInHash

-----------------------------------------------------------------------------
(* New blocks *)

\* A new block, of the shape s.
HasShape(tb, a, s, p0, p1, code) ==
    /\ tb \in Blocks /\ tb.pc = a /\ tb.size = s.size /\ tb.icount = s.icount /\ tb.last = s.last
    /\ tb.cut = s.cut /\ tb.trap = s.trap /\ tb.p0 = p0 /\ tb.p1 = p1 /\ tb.dirty = FALSE
    /\ tb.code = code /\ tb.inc = {} /\ \A n \in 0 .. 1 : tb.jmp[n] = NoTb

LEMMA BlockMade ==
    ASSUME NEW a \in Pcs, NEW s, s.size \in Nat, s.icount \in 0 .. Quantum, s.last \in Pcs,
           s.cut \in BOOLEAN, s.trap \in BOOLEAN, NEW p0 \in PPages \cup {0},
           NEW p1 \in PPages \cup {0, NoPage}, NEW code \in Codes,
           NEW tb, tb = [pc |-> a, size |-> s.size, icount |-> s.icount, last |-> s.last,
                         cut |-> s.cut, trap |-> s.trap, p0 |-> p0, p1 |-> p1, dirty |-> FALSE,
                         code |-> code, jmp |-> [n \in 0 .. 1 |-> NoTb], inc |-> {}]
    PROVE  HasShape(tb, a, s, p0, p1, code)
<1>1. [n \in 0 .. 1 |-> NoTb] \in [0 .. 1 -> Nat]
  BY DEF NoTb
<1>2. tb \in Blocks
  BY <1>1 DEF Blocks
<1> QED
  BY <1>2 DEF HasShape

\* A block that no jump leads out of or into.
Unchained(tb) == tb.inc = {} /\ \A n \in 0 .. 1 : tb.jmp[n] = NoTb

\* What tb_gen_code makes of the code at a.
IsNewBlock(tb, a, max) ==
    /\ tb \in Blocks /\ WellShaped(tb) /\ Unchained(tb)
    /\ tb.pc = a /\ tb.icount <= max /\ tb.dirty = FALSE /\ tb.code = "current"
    /\ tb.p0 = vmap[PageOf(a)] /\ \A p \in PagesOf(tb) : p \in PPages
    /\ StopsAtBreakpoints(tb) /\ IsMapped(tb)

LEMMA MappedPage ==
    ASSUME vmap \in Maps, NEW v, Mapped(v)
    PROVE  v \in VPages /\ vmap[v] \in PPages /\ vmap[v] \in Nat
BY TbCacheAssumption DEF Mapped

LEMMA NewBlock ==
    ASSUME WellFormedProgram, bps \subseteq Pcs, vmap \in Maps, NEW a \in Pcs, NEW max \in 1 .. Quantum,
           Mapped(PageOf(a)), ~SpansUnmapped(a, max), NEW tb, tb = NewTb(a, max)
    PROVE  IsNewBlock(tb, a, max)
<1>1. PICK s : s = Shape(a, max)
  OBVIOUS
<1>2. ShapeIs(s, a, max) /\ max \in Nat
  BY <1>1, Shaped, TbCacheAssumption
<1>3. PICK two \in BOOLEAN : two = (PageOf(a + s.size - 1) # PageOf(a) /\ s.size > 0)
  OBVIOUS
<1>4. two => Mapped(PageOf(a) + 1)
  BY <1>1, <1>3 DEF SpansUnmapped
<1>5. PICK p1 : p1 = IF two THEN vmap[PageOf(a) + 1] ELSE NoPage
  OBVIOUS
<1>6. PICK p0 : p0 = vmap[PageOf(a)]
  OBVIOUS
<1>7. /\ p0 \in PPages /\ p0 \in Nat /\ PageOf(a) \in VPages
      /\ (two => p1 \in PPages /\ p1 \in Nat /\ p1 = vmap[PageOf(a) + 1] /\ PageOf(a) + 1 \in VPages)
      /\ (~two => p1 = NoPage)
  BY <1>4, <1>5, <1>6, MappedPage
<1>8. tb = [pc |-> a, size |-> s.size, icount |-> s.icount, last |-> s.last, cut |-> s.cut,
            trap |-> s.trap, p0 |-> p0, p1 |-> p1, dirty |-> FALSE, code |-> "current",
            jmp |-> [n \in 0 .. 1 |-> NoTb], inc |-> {}]
  BY <1>1, <1>3, <1>5, <1>6, Zenon DEF NewTb
<1>9. /\ s.size \in Nat /\ s.icount \in 0 .. Quantum /\ s.icount <= max /\ s.last \in Pcs
      /\ s.cut \in BOOLEAN /\ s.trap \in BOOLEAN
  BY <1>2, TbCacheAssumption DEF ShapeIs
<1>10. p1 \in PPages \cup {0, NoPage} /\ p0 \in PPages \cup {0} /\ "current" \in Codes
  BY <1>7 DEF Codes
<1>110. HasShape(tb, a, s, p0, p1, "current")
  BY <1>8, <1>9, <1>10, BlockMade
<1>11. /\ tb \in Blocks /\ tb.pc = a /\ tb.size = s.size /\ tb.icount = s.icount
       /\ tb.last = s.last /\ tb.cut = s.cut /\ tb.trap = s.trap /\ tb.p0 = p0 /\ tb.p1 = p1
       /\ tb.dirty = FALSE /\ tb.code = "current" /\ tb.inc = {} /\ \A n \in 0 .. 1 : tb.jmp[n] = NoTb
  BY <1>110 DEF HasShape
<1>12. WellShaped(tb)
  BY <1>2, <1>11 DEF ShapeIs, WellShaped, InsnsOf
<1>13. StopsAtBreakpoints(tb)
  BY <1>2, <1>11 DEF ShapeIs, StopsAtBreakpoints
<1>14. (\A p \in PagesOf(tb) : p \in PPages) /\ IsMapped(tb)
  BY <1>6, <1>7, <1>11 DEF PagesOf, IsMapped, TwoPages
<1> QED
  BY <1>6, <1>9, <1>11, <1>12, <1>13, <1>14 DEF IsNewBlock, Unchained

\* The block whose last instruction is not all there.
LEMMA FaultedBlock ==
    ASSUME WellFormedProgram, bps \subseteq Pcs, NEW a \in Pcs, NEW max \in 1 .. Quantum,
           NEW tb, tb = [NewTb(a, max) EXCEPT !.p0 = 0, !.p1 = 0, !.code = "stale"]
    PROVE  /\ tb \in Blocks /\ WellShaped(tb) /\ Unchained(tb) /\ tb.code = "stale"
           /\ tb.dirty = FALSE
<1>1. PICK s : s = Shape(a, max)
  OBVIOUS
<1>2. ShapeIs(s, a, max) /\ max \in Nat
  BY <1>1, Shaped, TbCacheAssumption
<1>3. PICK two : two = (PageOf(a + s.size - 1) # PageOf(a) /\ s.size > 0)
  OBVIOUS
<1>5. PICK p1 : p1 = IF two THEN vmap[PageOf(a) + 1] ELSE NoPage
  OBVIOUS
<1>6. PICK p0 : p0 = vmap[PageOf(a)]
  OBVIOUS
<1>7. PICK z : z = NewTb(a, max)
  OBVIOUS
<1>8. z = [pc |-> a, size |-> s.size, icount |-> s.icount, last |-> s.last, cut |-> s.cut,
            trap |-> s.trap, p0 |-> p0, p1 |-> p1, dirty |-> FALSE, code |-> "current",
            jmp |-> [n \in 0 .. 1 |-> NoTb], inc |-> {}]
  BY <1>1, <1>3, <1>5, <1>6, <1>7, Zenon DEF NewTb
<1>9. /\ s.size \in Nat /\ s.icount \in 0 .. Quantum /\ s.icount <= max /\ s.last \in Pcs
      /\ s.cut \in BOOLEAN /\ s.trap \in BOOLEAN
  BY <1>2, TbCacheAssumption DEF ShapeIs
<1>10. tb = [z EXCEPT !.p0 = 0, !.p1 = 0, !.code = "stale"]
  BY <1>7
<1>100. tb = [pc |-> a, size |-> s.size, icount |-> s.icount, last |-> s.last, cut |-> s.cut,
            trap |-> s.trap, p0 |-> 0, p1 |-> 0, dirty |-> FALSE, code |-> "stale",
            jmp |-> [n \in 0 .. 1 |-> NoTb], inc |-> {}]
  BY <1>8, <1>10
<1>101. "stale" \in Codes /\ 0 \in PPages \cup {0} /\ 0 \in PPages \cup {0, NoPage}
  BY DEF Codes
<1>110. HasShape(tb, a, s, 0, 0, "stale")
  BY <1>100, <1>9, <1>101, BlockMade
<1>11. /\ tb \in Blocks /\ tb.pc = a /\ tb.size = s.size /\ tb.icount = s.icount
       /\ tb.last = s.last /\ tb.cut = s.cut /\ tb.trap = s.trap
       /\ tb.dirty = FALSE /\ tb.code = "stale" /\ tb.inc = {} /\ \A n \in 0 .. 1 : tb.jmp[n] = NoTb
  BY <1>110 DEF HasShape
<1>12. WellShaped(tb)
  BY <1>2, <1>11 DEF ShapeIs, WellShaped, InsnsOf
<1> QED
  BY <1>11, <1>12 DEF Unchained
-----------------------------------------------------------------------------
(* Adding a block *)

\* d is c with the block tb in a slot, its chain and the lists of its pages.
BlockAdded(c, d, tb) ==
    /\ CacheOK(d) /\ Len(d.tbs) = Len(c.tbs) + 1 /\ d.tbs[Len(c.tbs) + 1] = tb /\ d.max = c.max
    /\ \A u \in 1 .. Len(c.tbs) : d.tbs[u] = c.tbs[u]
    /\ \A u : InHash(d, u) <=> InHash(c, u) \/ u = Len(c.tbs) + 1
    /\ \A p \in PPages : d.pages[p] = IF p \in PagesOf(tb) THEN c.pages[p] \cup {Len(c.tbs) + 1}
                                      ELSE c.pages[p]

AddedTo(c, tb, i, t, d) ==
    /\ i \in 1 .. Len(c.hash[Chain(StartOf(tb))]) + 1 /\ t = Len(c.tbs) + 1
    /\ d \in Caches /\ d.tbs = Append(c.tbs, tb) /\ d.max = c.max
    /\ d.hash = [c.hash EXCEPT ![Chain(StartOf(tb))] = InsertAt(c.hash[Chain(StartOf(tb))], i, t)]
    /\ \A p \in PPages : d.pages[p] = IF p \in PagesOf(tb) THEN c.pages[p] \cup {t} ELSE c.pages[p]
    /\ d.jc = c.jc \/ \E a \in Pcs : d.jc = [c.jc EXCEPT ![a] = t]

\* A block that can be added.
IsAddable(tb) ==
    tb \in Blocks /\ WellShaped(tb) /\ Unchained(tb) /\ \A p \in PagesOf(tb) : p \in PPages

LEMMA AddedToChain ==
    ASSUME NEW c, CacheOK(c), Len(c.tbs) < c.max, NEW tb, IsAddable(tb), NEW i, NEW t, NEW d,
           AddedTo(c, tb, i, t, d)
    PROVE  BlockAdded(c, d, tb)
<1> DEFINE b == Chain(StartOf(tb))
<1>0. /\ tb \in Blocks /\ WellShaped(tb) /\ Unchained(tb)
      /\ \A p \in PagesOf(tb) : p \in PPages
      /\ i \in 1 .. Len(c.hash[b]) + 1 /\ t = Len(c.tbs) + 1
      /\ d \in Caches /\ d.tbs = Append(c.tbs, tb) /\ d.max = c.max
      /\ d.hash = [c.hash EXCEPT ![b] = InsertAt(c.hash[b], i, t)]
      /\ \A p \in PPages : d.pages[p] = IF p \in PagesOf(tb) THEN c.pages[p] \cup {t} ELSE c.pages[p]
      /\ d.jc = c.jc \/ \E a \in Pcs : d.jc = [c.jc EXCEPT ![a] = t]
  BY DEF AddedTo, IsAddable
<1>00. b = Chain(StartOf(tb))
  OBVIOUS
<1> HIDE DEF b
<1>1. /\ c \in Caches /\ c.hash \in [0 .. Buckets - 1 -> Seq(Nat)] /\ c.pages \in [PPages -> SUBSET Nat]
      /\ c.jc \in [Pcs -> Nat] /\ c.invalidated \in BOOLEAN /\ c.max \in MinBlocks .. MaxBlocks
      /\ Len(c.tbs) \in Nat
  BY CacheFields DEF CacheOK
<1>2. /\ d.tbs \in Seq(Blocks) /\ d.hash \in [0 .. Buckets - 1 -> Seq(Nat)]
      /\ d.pages \in [PPages -> SUBSET Nat] /\ d.jc \in [Pcs -> Nat]
  BY <1>0, CacheFields
<1>3. PICK e : e = [tbs |-> d.tbs, hash |-> c.hash, pages |-> c.pages, jc |-> c.jc,
                    invalidated |-> c.invalidated, max |-> c.max]
  OBVIOUS
<1>4. /\ e \in Caches /\ e.tbs = d.tbs /\ e.hash = c.hash /\ e.pages = c.pages /\ e.jc = c.jc
      /\ e.invalidated = c.invalidated /\ e.max = c.max
  BY <1>0, <1>00, <1>1, <1>2, <1>3 DEF Caches
<1>5. /\ CacheOK(e) /\ Len(e.tbs) = Len(c.tbs) + 1 /\ e.tbs[Len(c.tbs) + 1] = tb
      /\ \A u \in 1 .. Len(c.tbs) : e.tbs[u] = c.tbs[u]
      /\ \A u : InHash(e, u) <=> InHash(c, u)
      /\ ~InHash(c, Len(c.tbs) + 1)
  <2>1. /\ e.tbs = Append(c.tbs, tb) /\ tb.inc = {} /\ \A n \in 0 .. 1 : tb.jmp[n] = NoTb
    BY <1>0, <1>00, <1>4 DEF Unchained
  <2> QED
    BY <1>0, <1>00, <1>4, <2>1, Appended
<1>6. PICK g : g = [tbs |-> d.tbs, hash |-> d.hash, pages |-> d.pages, jc |-> c.jc,
                    invalidated |-> c.invalidated, max |-> c.max]
  OBVIOUS
<1>7. /\ g \in Caches /\ g.tbs = d.tbs /\ g.hash = d.hash /\ g.pages = d.pages /\ g.jc = c.jc
      /\ g.invalidated = c.invalidated /\ g.max = c.max
  BY <1>0, <1>00, <1>1, <1>2, <1>6 DEF Caches
<1>8. PICK s : s = InsertAt(c.hash[b], i, t)
  OBVIOUS
<1>9. b \in 0 .. Buckets - 1 /\ b \in DOMAIN c.hash /\ c.hash[b] \in Seq(Nat) /\ t \in Nat
  <2>1. b \in 0 .. Buckets - 1
    BY <1>0, <1>00, ChainType
  <2>2. t \in Nat
    BY <1>0, <1>00, <1>1
  <2>3. DOMAIN c.hash = 0 .. Buckets - 1 /\ \A x \in 0 .. Buckets - 1 : c.hash[x] \in Seq(Nat)
    BY <1>0, <1>00, <1>1
  <2> QED
    BY <1>0, <1>00, <2>1, <2>2, <2>3
<1>10. Distinct(c.hash[b]) /\ ~Contains(c.hash[b], t)
  BY <1>0, <1>00, <1>5, <1>9 DEF CacheOK, Chains, InHash
<1>11. s \in Seq(Nat) /\ Distinct(s) /\ \A x : Contains(s, x) <=> Contains(c.hash[b], x) \/ x = t
  <2>1. PICK old : old = c.hash[b]
    OBVIOUS
  <2>2. /\ old \in Seq(Nat) /\ Distinct(old) /\ ~Contains(old, t) /\ i \in 1 .. Len(old) + 1
        /\ s = InsertAt(old, i, t)
    BY <1>0, <1>8, <1>9, <1>10, <2>1
  <2>3. t \in Nat
    BY <1>9
  <2>4. s \in Seq(Nat) /\ Distinct(s) /\ \A x : Contains(s, x) <=> Contains(old, x) \/ x = t
    BY <2>2, <2>3, InsertedIntoChain
  <2> QED
    BY <2>1, <2>4
<1>12. CacheOK(g) /\ HashWith(e, g, t)
  <2>1. t \in 1 .. Len(e.tbs) /\ e.tbs[t] = tb
    BY <1>0, <1>00, <1>1, <1>5
  <2>2. b = Chain(StartOf(e.tbs[t])) /\ (InHash(e, t) \/ \A n \in 0 .. 1 : e.tbs[t].jmp[n] = NoTb)
    BY <1>0, <1>00, <2>1 DEF Unchained
  <2>3. \A p \in PagesOf(e.tbs[t]) : p \in PPages
    BY <1>0, <1>00, <2>1
  <2>4. \A x : Contains(s, x) <=> Contains(e.hash[b], x) \/ x = t
    BY <1>0, <1>00, <1>4, <1>11
  <2>5. g.tbs = e.tbs /\ g.hash = [e.hash EXCEPT ![b] = s] /\ g.jc = e.jc /\ g.max = e.max
    BY <1>0, <1>00, <1>4, <1>7, <1>8
  <2>6. \A p \in PPages : g.pages[p] = IF p \in PagesOf(e.tbs[t]) THEN e.pages[p] \cup {t}
                                       ELSE e.pages[p]
    BY <1>0, <1>00, <1>4, <1>7, <2>1
  <2>7. CacheOK(e) /\ g \in Caches /\ s \in Seq(Nat) /\ Distinct(s)
    BY <1>0, <1>00, <1>5, <1>7, <1>11
  <2>8. t \in 1 .. Len(e.tbs)
    BY <1>0, <1>00, <2>1
  <2>9. LinkedTo(e, t, s, g)
    BY <1>0, <1>00, <2>2, <2>3, <2>4, <2>5, <2>6, <2>7 DEF LinkedTo
  <2> QED
    BY <1>0, <1>00, <2>7, <2>8, <2>9, Linked
<1>13. CacheOK(d) /\ \A u : InHash(d, u) <=> InHash(g, u)
  <2>1. CASE d.jc = c.jc
    <3>1. d.tbs = g.tbs /\ d.hash = g.hash /\ d.pages = g.pages /\ d.jc = g.jc /\ d.max = g.max
      BY <1>0, <1>00, <1>7, <2>1
    <3>2. CacheOK(d)
      BY <1>0, <1>00, <1>12, <3>1, Reflagged
    <3> QED
      BY <1>0, <1>00, <3>1, <3>2, SameHash
  <2>2. ASSUME NEW a \in Pcs, d.jc = [c.jc EXCEPT ![a] = t]
        PROVE  CacheOK(d) /\ \A u : InHash(d, u) <=> InHash(g, u)
    <3>1. /\ d.tbs = g.tbs /\ d.hash = g.hash /\ d.pages = g.pages
          /\ d.jc = [g.jc EXCEPT ![a] = t] /\ d.max = g.max
      BY <1>0, <1>00, <1>7, <2>2
    <3>2. InHash(g, t)
      BY <1>0, <1>00, <1>12 DEF HashWith
    <3>3. RememberedTo(g, t, a, d)
      BY <1>0, <3>1 DEF RememberedTo
    <3> QED
      BY <1>12, <2>2, <3>2, <3>3, Remembered
  <2> QED
    BY <1>0, <1>00, <2>1, <2>2
<1>14. \A u : InHash(d, u) <=> InHash(c, u) \/ u = t
  BY <1>0, <1>00, <1>5, <1>12, <1>13 DEF HashWith
<1> QED
  BY <1>0, <1>00, <1>4, <1>5, <1>13, <1>14 DEF BlockAdded

\* tb_link_page puts the block into a slot and the lists of its pages.
PageLinkedTo(c, tb, d) ==
    /\ d \in Caches /\ d.tbs = Append(c.tbs, tb) /\ d.hash = c.hash /\ d.jc = c.jc
    /\ d.max = c.max /\ d.invalidated = c.invalidated /\ Len(d.tbs) = Len(c.tbs) + 1
    /\ d.tbs[Len(c.tbs) + 1] = tb
    /\ \A p \in PPages : d.pages[p] = IF p \in PagesOf(tb) THEN c.pages[p] \cup {Len(c.tbs) + 1}
                                      ELSE c.pages[p]

LEMMA PageLinked ==
    ASSUME NEW c \in Caches, NEW tb \in Blocks, NEW d, d = tb_link_page(c, tb)
    PROVE  PageLinkedTo(c, tb, d)
<1>1. c.tbs \in Seq(Blocks) /\ Len(c.tbs) \in Nat /\ c.pages \in [PPages -> SUBSET Nat]
  BY CacheFields
<1>2. PICK f : f = [p \in PPages |-> IF p \in {tb.p0, tb.p1} THEN c.pages[p] \cup {Len(c.tbs) + 1}
                                     ELSE c.pages[p]]
  OBVIOUS
<1>3. PICK g : g = Append(c.tbs, tb)
  OBVIOUS
<1>4. d = [c EXCEPT !.tbs = g, !.pages = f]
  BY <1>2, <1>3, Zenon DEF tb_link_page
<1>5. f \in [PPages -> SUBSET Nat] /\ g \in Seq(Blocks)
  BY <1>1, <1>2, <1>3
<1>6. /\ d \in Caches /\ d.tbs = g /\ d.hash = c.hash /\ d.jc = c.jc /\ d.pages = f
      /\ d.max = c.max /\ d.invalidated = c.invalidated
  BY <1>4, <1>5 DEF Caches
<1>7. Len(g) = Len(c.tbs) + 1 /\ g[Len(c.tbs) + 1] = tb
  BY <1>1, <1>3
<1>8. ASSUME NEW p \in PPages
      PROVE  f[p] = IF p \in PagesOf(tb) THEN c.pages[p] \cup {Len(c.tbs) + 1} ELSE c.pages[p]
  <2>1. p # NoPage
    BY TbCacheAssumption DEF NoPage
  <2> QED
    BY <1>2, <2>1 DEF PagesOf
<1> QED
  BY <1>3, <1>6, <1>7, <1>8 DEF PageLinkedTo

ReorderedTo(c, t, s, d) ==
    /\ d \in Caches /\ d.tbs = c.tbs /\ d.hash = [c.hash EXCEPT ![Chain(StartOf(c.tbs[t]))] = s]
    /\ d.jc = [c.jc EXCEPT ![pc] = t] /\ d.pages = c.pages /\ d.max = c.max
    /\ d.invalidated = c.invalidated

LEMMA ReorderedFields ==
    ASSUME pc \in Pcs, NEW c \in Caches, NEW t \in 1 .. Len(c.tbs), NEW rest, NEW prev,
           NEW i, i = (IF ~c.tbs[t].cut \/ prev = 0 THEN 1 ELSE prev + 1),
           NEW s \in Seq(Nat), s = InsertAt(rest, i, t), NEW d, d = Reordered(c, t, rest, prev)
    PROVE  ReorderedTo(c, t, s, d)
<1>1. PICK b : b = Chain(StartOf(c.tbs[t]))
  OBVIOUS
<1>2. b \in 0 .. Buckets - 1 /\ t \in Nat
  BY <1>1, CacheFields, ChainType
<1>3. d = [c EXCEPT !.hash[b] = s, !.jc[pc] = t]
  BY <1>1, Zenon DEF Reordered
<1>4. PICK h : h = [c.hash EXCEPT ![b] = s]
  OBVIOUS
<1>5. PICK j : j = [c.jc EXCEPT ![pc] = t]
  OBVIOUS
<1>6. d = [c EXCEPT !.hash = h, !.jc = j]
  BY <1>3, <1>4, <1>5
<1>7. h \in [0 .. Buckets - 1 -> Seq(Nat)] /\ j \in [Pcs -> Nat]
  BY <1>2, <1>4, <1>5, CacheFields
<1>8. /\ d \in Caches /\ d.tbs = c.tbs /\ d.hash = h /\ d.jc = j /\ d.pages = c.pages
      /\ d.max = c.max /\ d.invalidated = c.invalidated
  BY <1>6, <1>7 DEF Caches
<1> QED
  BY <1>1, <1>4, <1>5, <1>8 DEF ReorderedTo

\* The place of a new block is in the chain.
LEMMA TranslatedAdded ==
    ASSUME pc \in Pcs, NEW c, CacheOK(c), Len(c.tbs) < c.max, NEW tb, IsAddable(tb),
           NEW s, s = c.hash[Chain(StartOf(tb))], NEW prev \in 0 .. Len(s),
           NEW e, e = tb_link_page(c, tb), NEW d, d = Reordered(e, Len(e.tbs), s, prev)
    PROVE  /\ BlockAdded(c, d, tb) /\ d.jc = [c.jc EXCEPT ![pc] = Len(c.tbs) + 1]
           /\ d.invalidated = c.invalidated
<1>1. c \in Caches /\ Len(c.tbs) \in Nat /\ c.hash \in [0 .. Buckets - 1 -> Seq(Nat)]
  BY CacheFields DEF CacheOK
<1>0. tb \in Blocks
  BY DEF IsAddable
<1>2. PICK t \in Nat : t = Len(c.tbs) + 1
  BY <1>1
<1>3. /\ e \in Caches /\ e.tbs = Append(c.tbs, tb) /\ e.hash = c.hash /\ e.jc = c.jc
      /\ e.max = c.max /\ e.invalidated = c.invalidated /\ Len(e.tbs) = Len(c.tbs) + 1
      /\ e.tbs[Len(c.tbs) + 1] = tb
      /\ \A p \in PPages : e.pages[p] = IF p \in PagesOf(tb) THEN c.pages[p] \cup {Len(c.tbs) + 1}
                                        ELSE c.pages[p]
  <2>1. PageLinkedTo(c, tb, e)
    BY <1>0, <1>1, PageLinked
  <2> QED
    BY <2>1 DEF PageLinkedTo
<1>4. PICK i : i = IF ~e.tbs[t].cut \/ prev = 0 THEN 1 ELSE prev + 1
  OBVIOUS
<1>5. PICK b : b = Chain(StartOf(tb))
  OBVIOUS
<1>6. b \in 0 .. Buckets - 1 /\ s \in Seq(Nat) /\ s = c.hash[b]
  BY <1>1, <1>0, <1>5, ChainType
<1>7. i \in 1 .. Len(s) + 1
  BY <1>4, <1>6
<1>8. PICK new : new = InsertAt(s, i, t)
  OBVIOUS
<1>9. Distinct(s) /\ ~Contains(s, t)
  BY <1>1, <1>2, <1>6 DEF CacheOK, Chains
<1>10. new \in Seq(Nat)
  BY <1>2, <1>6, <1>7, <1>8, <1>9, InsertedIntoChain
<1>11. t \in 1 .. Len(e.tbs) /\ e.tbs[t] = tb /\ Len(e.tbs) = t
  BY <1>1, <1>2, <1>3
<1>12. ReorderedTo(e, t, new, d)
  <2>1. d = Reordered(e, t, s, prev)
    BY <1>11
  <2>2. e \in Caches /\ t \in 1 .. Len(e.tbs)
    BY <1>3, <1>11
  <2> QED
    BY <1>4, <1>8, <1>10, <2>1, <2>2, ReorderedFields
<1>13. /\ d \in Caches /\ d.tbs = Append(c.tbs, tb) /\ d.hash = [c.hash EXCEPT ![b] = new]
       /\ d.jc = [c.jc EXCEPT ![pc] = t] /\ d.pages = e.pages /\ d.max = c.max
       /\ d.invalidated = c.invalidated
  BY <1>3, <1>5, <1>11, <1>12 DEF ReorderedTo
<1>14. d.hash = [c.hash EXCEPT ![b] = InsertAt(c.hash[b], i, t)]
  BY <1>6, <1>8, <1>13
<1>15. \A p \in PPages : d.pages[p] = IF p \in PagesOf(tb) THEN c.pages[p] \cup {t} ELSE c.pages[p]
  <2>1. d.pages = e.pages
    BY <1>13
  <2>2. \A p \in PPages : e.pages[p] = IF p \in PagesOf(tb) THEN c.pages[p] \cup {t} ELSE c.pages[p]
    BY <1>2, <1>3
  <2> QED
    BY <2>1, <2>2
<1>16. d.jc = c.jc \/ \E a \in Pcs : d.jc = [c.jc EXCEPT ![a] = t]
  BY <1>13
<1>17. i \in 1 .. Len(c.hash[b]) + 1
  BY <1>6, <1>7
<1>18. BlockAdded(c, d, tb)
  <2>1. AddedTo(c, tb, i, t, d)
    BY <1>2, <1>5, <1>13, <1>14, <1>15, <1>16, <1>17 DEF AddedTo
  <2> QED
    BY <2>1, AddedToChain
<1> QED
  BY <1>2, <1>13, <1>18

\* tb_phys_hash_insert finds a place in the chain.
LEMMA HashInserted ==
    ASSUME NEW c, CacheOK(c), Len(c.tbs) < c.max, NEW tb, IsAddable(tb),
           NEW e, e = tb_link_page(c, tb), NEW d, d = tb_phys_hash_insert(e, Len(e.tbs))
    PROVE  BlockAdded(c, d, tb) /\ d.jc = c.jc /\ d.invalidated = c.invalidated
<1>1. c \in Caches /\ Len(c.tbs) \in Nat /\ c.hash \in [0 .. Buckets - 1 -> Seq(Nat)]
  BY CacheFields DEF CacheOK
<1>0. tb \in Blocks
  BY DEF IsAddable
<1>2. PICK t \in Nat : t = Len(c.tbs) + 1
  BY <1>1
<1>3. /\ e \in Caches /\ e.tbs = Append(c.tbs, tb) /\ e.hash = c.hash /\ e.jc = c.jc
      /\ e.max = c.max /\ e.invalidated = c.invalidated /\ Len(e.tbs) = Len(c.tbs) + 1
      /\ e.tbs[Len(c.tbs) + 1] = tb
      /\ \A p \in PPages : e.pages[p] = IF p \in PagesOf(tb) THEN c.pages[p] \cup {Len(c.tbs) + 1}
                                        ELSE c.pages[p]
  <2>1. PageLinkedTo(c, tb, e)
    BY <1>0, <1>1, PageLinked
  <2> QED
    BY <2>1 DEF PageLinkedTo
<1>11. t \in 1 .. Len(e.tbs) /\ e.tbs[t] = tb /\ Len(e.tbs) = t
  BY <1>1, <1>2, <1>3
<1> DEFINE b == Chain(StartOf(e.tbs[t]))
<1>5. b = Chain(StartOf(tb))
  BY <1>11
<1> HIDE DEF b
<1>6. b \in 0 .. Buckets - 1 /\ c.hash[b] \in Seq(Nat)
  BY <1>1, <1>0, <1>5, ChainType
<1> DEFINE Related(u) == /\ u.pc = e.tbs[t].pc /\ u.p0 = e.tbs[t].p0
                         /\ u.p1 = NoPage \/ u.p1 = e.tbs[t].p1
           before == {i \in DOMAIN e.hash[b] :
                    Related(e.tbs[e.hash[b][i]]) /\ e.tbs[t].icount >= e.tbs[e.hash[b][i]].icount}
<1> DEFINE i == IF before = {} THEN Len(e.hash[b]) + 1
                ELSE CHOOSE k \in before : \A j \in before : k <= j
<1> HIDE DEF before, i
<1>40. d = [e EXCEPT !.hash[b] = InsertAt(e.hash[b], i, t)]
  <2>1. d = tb_phys_hash_insert(e, t)
    BY <1>11
  <2> QED
    BY <2>1, Zenon DEF tb_phys_hash_insert, before, i, b
<1>7. i \in 1 .. Len(c.hash[b]) + 1
  <2>1. DOMAIN e.hash[b] = 1 .. Len(c.hash[b]) /\ e.hash[b] = c.hash[b] /\ Len(c.hash[b]) \in Nat
    BY <1>3, <1>6
  <2>2. \A k \in before : k \in 1 .. Len(c.hash[b])
    BY <2>1 DEF before
  <2>3. CASE before = {}
    BY <2>1, <2>3 DEF i
  <2>4. CASE before # {}
    <3>1. \A k \in before : k \in Nat
      BY <2>2
    <3>2. \E k \in before : \A j \in before : k <= j
      BY <2>4, <3>1, LeastElement
    <3>3. i \in before
      BY <2>4, <3>2 DEF i
    <3> QED
      BY <2>1, <2>2, <3>3
  <2> QED
    BY <2>3, <2>4
<1>8. PICK new : new = InsertAt(c.hash[b], i, t)
  OBVIOUS
<1>9. Distinct(c.hash[b]) /\ ~Contains(c.hash[b], t)
  BY <1>1, <1>2, <1>6 DEF CacheOK, Chains
<1>10. new \in Seq(Nat)
  <2>1. PICK old : old = c.hash[b]
    OBVIOUS
  <2>2. /\ old \in Seq(Nat) /\ Distinct(old) /\ ~Contains(old, t) /\ i \in 1 .. Len(old) + 1
        /\ new = InsertAt(old, i, t)
    BY <1>6, <1>7, <1>8, <1>9, <2>1
  <2>3. t \in Nat
    BY <1>2
  <2> QED
    BY <2>2, <2>3, InsertedIntoChain
<1>12. d = [e EXCEPT !.hash = [e.hash EXCEPT ![b] = new]]
  BY <1>3, <1>8, <1>40
<1>13. /\ d \in Caches /\ d.tbs = e.tbs /\ d.hash = [e.hash EXCEPT ![b] = new] /\ d.jc = e.jc
       /\ d.pages = e.pages /\ d.max = e.max /\ d.invalidated = e.invalidated
  <2>1. PICK h : h = [e.hash EXCEPT ![b] = new]
    OBVIOUS
  <2>2. e \in Caches /\ e.hash \in [0 .. Buckets - 1 -> Seq(Nat)]
    BY <1>3, CacheFields
  <2>3. h \in [0 .. Buckets - 1 -> Seq(Nat)]
    BY <1>10, <2>1, <2>2
  <2>4. d = [e EXCEPT !.hash = h]
    BY <1>12, <2>1
  <2>5. /\ d \in Caches /\ d.tbs = e.tbs /\ d.hash = h /\ d.jc = e.jc
        /\ d.pages = e.pages /\ d.max = e.max /\ d.invalidated = e.invalidated
    BY <2>2, <2>3, <2>4 DEF Caches
  <2> QED
    BY <2>1, <2>5
<1>14. d.hash = [c.hash EXCEPT ![b] = InsertAt(c.hash[b], i, t)] /\ d.tbs = Append(c.tbs, tb) /\ d.max = c.max
  BY <1>3, <1>8, <1>13
<1>15. \A p \in PPages : d.pages[p] = IF p \in PagesOf(tb) THEN c.pages[p] \cup {t} ELSE c.pages[p]
  <2>1. d.pages = e.pages
    BY <1>13
  <2>2. \A p \in PPages : e.pages[p] = IF p \in PagesOf(tb) THEN c.pages[p] \cup {t} ELSE c.pages[p]
    BY <1>2, <1>3
  <2> QED
    BY <2>1, <2>2
<1>16. d.jc = c.jc \/ \E a \in Pcs : d.jc = [c.jc EXCEPT ![a] = t]
  BY <1>3, <1>13
<1>18. BlockAdded(c, d, tb)
  <2>1. AddedTo(c, tb, i, t, d)
    BY <1>2, <1>5, <1>7, <1>13, <1>14, <1>15, <1>16 DEF AddedTo
  <2> QED
    BY <2>1, AddedToChain
<1> QED
  BY <1>3, <1>13, <1>18

\* tb_find_slow moves the block it finds within its chain.
Moved(c, d, t) ==
    /\ d \in Caches /\ d.tbs = c.tbs /\ d.pages = c.pages /\ d.jc = [c.jc EXCEPT ![pc] = t]
    /\ d.max = c.max /\ d.invalidated = c.invalidated
    /\ SameInHash(c, d)

LEMMA FoundMoved ==
    ASSUME pc \in Pcs, NEW c, CacheOK(c), NEW b \in 0 .. Buckets - 1, NEW s, s = c.hash[b],
           NEW k \in 1 .. Len(s), NEW t, t = s[k], NEW prev \in 0 .. k - 1,
           NEW d, d = Reordered(c, t, RemoveAt(s, k), prev)
    PROVE  CacheOK(d) /\ Moved(c, d, t) /\ InHash(c, t)
<1>1. c \in Caches /\ Len(c.tbs) \in Nat /\ c.hash \in [0 .. Buckets - 1 -> Seq(Nat)]
  BY CacheFields DEF CacheOK
<1>2. s \in Seq(Nat) /\ Distinct(s) /\ Contains(s, t) /\ Len(s) \in Nat
  <2>1. s \in Seq(Nat) /\ Distinct(s)
    BY <1>1 DEF CacheOK, Chains
  <2>2. Contains(s, t)
    BY <2>1 DEF Contains
  <2> QED
    BY <2>1, <2>2
<1>3. t \in 1 .. Len(c.tbs) /\ b = Chain(StartOf(c.tbs[t])) /\ InHash(c, t) /\ t \in Nat
  <2>1. t \in 1 .. Len(c.tbs) /\ b = Chain(StartOf(c.tbs[t]))
    BY <1>2 DEF CacheOK, Chains
  <2>2. b \in DOMAIN c.hash
    BY <1>1
  <2>3. InHash(c, t)
    BY <1>2, <2>2 DEF InHash
  <2>4. t \in Nat
    BY <1>2
  <2> QED
    BY <2>1, <2>3, <2>4
<1>4. PICK rest : rest = RemoveAt(s, k)
  OBVIOUS
<1>5. /\ rest \in Seq(Nat) /\ Distinct(rest) /\ Len(rest) = Len(s) - 1
      /\ \A x : Contains(rest, x) <=> Contains(s, x) /\ x # s[k]
  BY <1>2, <1>4, RemovedFromChain
<1>6. PICK i : i = IF ~c.tbs[t].cut \/ prev = 0 THEN 1 ELSE prev + 1
  OBVIOUS
<1>7. i \in 1 .. Len(rest) + 1
  BY <1>2, <1>5, <1>6
<1>8. PICK new : new = InsertAt(rest, i, t)
  OBVIOUS
<1>9. ~Contains(rest, t)
  BY <1>5
<1>10. /\ new \in Seq(Nat) /\ Distinct(new)
       /\ \A x : Contains(new, x) <=> Contains(rest, x) \/ x = t
  BY <1>3, <1>5, <1>7, <1>8, <1>9, InsertedIntoChain
<1>11. ReorderedTo(c, t, new, d)
  <2>1. d = Reordered(c, t, rest, prev)
    BY <1>4
  <2> QED
    BY <1>1, <1>3, <1>6, <1>8, <1>10, <2>1, ReorderedFields
<1>12. \A x : Contains(new, x) <=> Contains(s, x) \/ x = t
  BY <1>5, <1>10
<1>13. /\ c.tbs \in Seq(Blocks) /\ c.pages \in [PPages -> SUBSET Nat] /\ c.jc \in [Pcs -> Nat]
       /\ c.invalidated \in BOOLEAN /\ c.max \in MinBlocks .. MaxBlocks
  BY <1>1, CacheFields
<1>14. /\ d \in Caches /\ d.tbs = c.tbs /\ d.hash = [c.hash EXCEPT ![b] = new]
       /\ d.jc = [c.jc EXCEPT ![pc] = t] /\ d.pages = c.pages /\ d.max = c.max
       /\ d.invalidated = c.invalidated
  BY <1>3, <1>11 DEF ReorderedTo
<1>15. d.hash \in [0 .. Buckets - 1 -> Seq(Nat)]
  BY <1>14, CacheFields
<1>16. PICK g : g = [tbs |-> c.tbs, hash |-> d.hash, pages |-> c.pages, jc |-> c.jc,
                     invalidated |-> c.invalidated, max |-> c.max]
  OBVIOUS
<1>17. /\ g \in Caches /\ g.tbs = c.tbs /\ g.hash = d.hash /\ g.pages = c.pages /\ g.jc = c.jc
       /\ g.max = c.max
  BY <1>13, <1>15, <1>16 DEF Caches
<1>18. LinkedTo(c, t, new, g)
  <2>1. \A x : Contains(new, x) <=> Contains(c.hash[b], x) \/ x = t
    BY <1>12
  <2>2. g.hash = [c.hash EXCEPT ![b] = new]
    BY <1>14, <1>17
  <2>3. \A p \in PagesOf(c.tbs[t]) : p \in PPages /\ t \in c.pages[p]
    BY <1>3 DEF CacheOK, PageLists
  <2>4. \A p \in PPages : g.pages[p] = IF p \in PagesOf(c.tbs[t]) THEN c.pages[p] \cup {t}
                                       ELSE c.pages[p]
    BY <1>17, <2>3
  <2> QED
    BY <1>3, <1>17, <2>1, <2>2, <2>3, <2>4 DEF LinkedTo
<1>19. CacheOK(g) /\ HashWith(c, g, t)
  BY <1>3, <1>10, <1>18, Linked
<1>20. InHash(g, t)
  BY <1>19 DEF HashWith
<1>21. CacheOK(d) /\ \A u : InHash(d, u) <=> InHash(g, u)
  <2>1. /\ d.tbs = g.tbs /\ d.hash = g.hash /\ d.pages = g.pages /\ d.jc = [g.jc EXCEPT ![pc] = t]
        /\ d.max = g.max /\ d \in Caches
    BY <1>14, <1>17
  <2>2. CacheOK(g) /\ InHash(g, t)
    BY <1>19, <1>20
  <2>3. RememberedTo(g, t, pc, d)
    BY <2>1 DEF RememberedTo
  <2> QED
    BY <2>2, <2>3, Remembered
<1>22. \A u : InHash(d, u) <=> InHash(c, u)
  BY <1>3, <1>19, <1>21 DEF HashWith
<1> QED
  BY <1>3, <1>14, <1>21, <1>22 DEF Moved, SameInHash
=============================================================================
