-------------------------- MODULE ExternalMmuProofs -------------------------
(***************************************************************************)
(* Proofs about the windows of the external MMU, for address spaces of any *)
(* size and any number of windows.                                         *)
(***************************************************************************)
EXTENDS ExternalMmu, SequenceTheorems, WellFoundedInduction, TLAPS

\* What the search needs of the array.
Sorted(ws) == \A i, j \in DOMAIN ws : i <= j => ws[i].start <= ws[j].start

\* What the search is after: the windows up to last are the ones that start
\* at or below a.
IsLast(ws, a, last) ==
    /\ last \in 0 .. Len(ws)
    /\ \A i \in 1 .. Len(ws) : i <= last <=> ws[i].start <= a

-----------------------------------------------------------------------------
(* The binary search. *)

\* A nonempty set of numbers has a least element.
LEMMA LeastElement ==
    ASSUME NEW S, \A i \in S : i \in Nat, S # {}
    PROVE  \E k \in S : \A j \in S : k <= j
<1> DEFINE R == OpToRel(<, Nat)
<1>1. \A j, k \in Nat : j < k => <<j, k>> \in R
  BY DEF OpToRel
<1> HIDE DEF R
<1>2. IsWellFoundedOn(R, Nat) /\ S \subseteq Nat
  BY NatLessThanWellFounded DEF R
<1>3. PICK k \in S : \A j \in S : ~ (<<j, k>> \in R)
  BY <1>2, WFMin, Zenon
<1>4. \A j \in S : ~(j < k)
  BY <1>1, <1>3
<1> QED
  BY <1>4

\* The fields of the windows.
LEMMA WindowFields ==
    ASSUME NEW ws \in Seq(Window), NEW a \in Page
    PROVE  /\ Len(ws) \in Nat /\ DOMAIN ws = 1 .. Len(ws) /\ a \in Int
           /\ \A i \in 1 .. Len(ws) : ws[i].start \in Int /\ ws[i].end \in Int
<1>1. \A w \in Window : w.start \in Page /\ w.end \in Ends
  BY DEF Window
<1>2. (\A p \in Page : p \in Int) /\ (\A p \in Ends : p \in Int)
  BY ExternalMmuAssumption DEF Page, Ends
<1>3. Len(ws) \in Nat /\ DOMAIN ws = 1 .. Len(ws) /\ \A i \in 1 .. Len(ws) : ws[i] \in Window
  OBVIOUS
<1> QED
  BY <1>1, <1>2, <1>3

\* In a sorted array the search has an answer.
LEMMA LastExists ==
    ASSUME NEW ws \in Seq(Window), Sorted(ws), NEW a \in Page
    PROVE  \E last : IsLast(ws, a, last)
<1> DEFINE n == Len(ws)
           S == {i \in 1 .. n : ~(ws[i].start <= a)}
<1>1. n \in Nat /\ DOMAIN ws = 1 .. n /\ a \in Int /\ \A i \in 1 .. n : ws[i].start \in Int
  BY WindowFields
<1> HIDE DEF n
<1>2. CASE S = {}
  <2>1. \A i \in 1 .. n : i <= n /\ ws[i].start <= a
    BY <1>1, <1>2
  <2>2. n \in 0 .. n
    BY <1>1
  <2>3. IsLast(ws, a, n)
    BY <2>1, <2>2 DEF IsLast, n
  <2> QED
    BY <2>3
<1>3. CASE S # {}
  <2>0. \A i \in S : i \in Nat
    BY <1>1
  <2>1. PICK k \in S : \A j \in S : k <= j
    BY <1>3, <2>0, LeastElement
  <2>2. \A i \in 1 .. n : i <= k - 1 => ws[i].start <= a
    BY <2>1, <1>1
  <2>3. \A i \in 1 .. n : k <= i => ws[k].start <= ws[i].start
    BY <1>1, <2>1 DEF Sorted
  <2>4. \A i \in 1 .. n : k <= i => ~(ws[i].start <= a)
    BY <1>1, <2>1, <2>3
  <2>5. IsLast(ws, a, k - 1)
    BY <1>1, <2>1, <2>2, <2>4 DEF IsLast, n
  <2> QED
    BY <2>5
<1> QED
  BY <1>2, <1>3

\* The equation that the function search of the definition satisfies.
SearchStep(ws, a, f, range) ==
    LET lo == range[1]
        hi == range[2]
        test == lo + (hi - lo) \div 2
    IN IF lo > hi THEN lo - 1
       ELSE IF ws[test].start <= a THEN f[<<test + 1, hi>>]
       ELSE f[<<lo, test - 1>>]

IsSearch(ws, a, f) ==
    f = [range \in (1 .. Len(ws) + 1) \X (0 .. Len(ws)) |-> SearchStep(ws, a, f, range)]

\* What the search of lo .. hi returns: last, as far as it lies in there.
Clamp(last, lo, hi) ==
    IF lo > hi \/ last < lo THEN lo - 1 ELSE IF last > hi THEN hi ELSE last

\* The middle of a nonempty range.
LEMMA Middle ==
    ASSUME NEW lo \in Nat, NEW hi \in Nat, lo <= hi
    PROVE  /\ lo + (hi - lo) \div 2 \in Nat
           /\ lo <= lo + (hi - lo) \div 2
           /\ lo + (hi - lo) \div 2 <= hi
<1>1. PICK d \in Nat : d = hi - lo
  OBVIOUS
<1>2. d \div 2 \in Nat /\ d \div 2 <= d
  BY <1>1
<1> QED
  BY <1>1, <1>2

LEMMA ClampStep ==
    ASSUME NEW last \in Nat, NEW lo \in Nat, NEW hi \in Nat, NEW test \in Nat,
           lo <= test, test <= hi
    PROVE  Clamp(last, lo, hi) = IF test <= last THEN Clamp(last, test + 1, hi)
                                 ELSE Clamp(last, lo, test - 1)
BY DEF Clamp

\* The ranges a step of the search goes on with are ranges again, and smaller.
LEMMA Halves ==
    ASSUME NEW n \in Nat, NEW lo \in 1 .. n + 1, NEW hi \in 0 .. n, lo <= hi
    PROVE  LET test == lo + (hi - lo) \div 2
           IN /\ test \in 1 .. n
              /\ test + 1 \in 1 .. n + 1 /\ hi - (test + 1) + 1 < hi - lo + 1
              /\ test - 1 \in 0 .. n /\ (test - 1) - lo + 1 < hi - lo + 1
<1> DEFINE test == lo + (hi - lo) \div 2
<1>1. test \in Nat /\ lo <= test /\ test <= hi
  BY Middle
<1> HIDE DEF test
<1>2. /\ test \in 1 .. n
      /\ test + 1 \in 1 .. n + 1 /\ hi - (test + 1) + 1 < hi - lo + 1
      /\ test - 1 \in 0 .. n /\ (test - 1) - lo + 1 < hi - lo + 1
  BY <1>1
<1> QED
  BY <1>2 DEF test

\* The definition by recursion is sound, for any array: there are functions
\* that satisfy its equation on ranges of at most m windows, for every m.
LEMMA SearchExists ==
    ASSUME NEW ws \in Seq(Window), NEW a
    PROVE  \E f : IsSearch(ws, a, f)
<1> DEFINE n == Len(ws)
           D == (1 .. n + 1) \X (0 .. n)
           Upto(f, m) == \A lo \in 1 .. n + 1, hi \in 0 .. n :
                            hi - lo + 1 <= m => f[<<lo, hi>>] = SearchStep(ws, a, f, <<lo, hi>>)
           OnD(f) == f = [range \in D |-> f[range]]
           S == {m \in Nat : ~\E f : OnD(f) /\ Upto(f, m)}
<1>1. n \in Nat
  OBVIOUS
<1> HIDE DEF n
<1>2. 0 \notin S
  <2> DEFINE g == [range \in D |-> range[1] - 1]
  <2>1. \A lo \in 1 .. n + 1, hi \in 0 .. n : g[<<lo, hi>>] = lo - 1
    OBVIOUS
  <2>2. OnD(g)
    OBVIOUS
  <2> HIDE DEF g
  <2>3. \A lo \in 1 .. n + 1, hi \in 0 .. n : hi - lo + 1 <= 0 => lo > hi
    BY <1>1
  <2>4. Upto(g, 0)
    BY <2>1, <2>3 DEF SearchStep
  <2> QED
    BY <2>2, <2>4
<1>3. ASSUME NEW m \in Nat, NEW f, Upto(f, m)
      PROVE  \E g : OnD(g) /\ Upto(g, m + 1)
  <2> DEFINE g == [range \in D |-> SearchStep(ws, a, f, range)]
  <2>1. \A lo \in 1 .. n + 1, hi \in 0 .. n : g[<<lo, hi>>] = SearchStep(ws, a, f, <<lo, hi>>)
    OBVIOUS
  <2>2. OnD(g)
    OBVIOUS
  <2> HIDE DEF g
  <2>3. ASSUME NEW lo \in 1 .. n + 1, NEW hi \in 0 .. n, hi - lo + 1 <= m + 1
        PROVE  SearchStep(ws, a, g, <<lo, hi>>) = SearchStep(ws, a, f, <<lo, hi>>)
    <3>1. CASE lo > hi
      BY <3>1 DEF SearchStep
    <3>2. CASE lo <= hi
      <4> DEFINE test == lo + (hi - lo) \div 2
      <4>1. /\ test + 1 \in 1 .. n + 1 /\ hi - (test + 1) + 1 < hi - lo + 1
            /\ test - 1 \in 0 .. n /\ (test - 1) - lo + 1 < hi - lo + 1
        BY <1>1, <3>2, Halves
      <4>2. ~(lo > hi)
        BY <1>1, <3>2
      <4>3. /\ SearchStep(ws, a, g, <<lo, hi>>) =
                 IF ws[test].start <= a THEN g[<<test + 1, hi>>] ELSE g[<<lo, test - 1>>]
            /\ SearchStep(ws, a, f, <<lo, hi>>) =
                 IF ws[test].start <= a THEN f[<<test + 1, hi>>] ELSE f[<<lo, test - 1>>]
        BY <4>2 DEF SearchStep
      <4> HIDE DEF test
      <4>4. hi - (test + 1) + 1 <= m /\ (test - 1) - lo + 1 <= m
        BY <1>1, <2>3, <4>1
      <4>5. g[<<test + 1, hi>>] = f[<<test + 1, hi>>]
        BY <1>3, <2>1, <4>1, <4>4
      <4>6. g[<<lo, test - 1>>] = f[<<lo, test - 1>>]
        BY <1>3, <2>1, <4>1, <4>4
      <4> QED
        BY <4>3, <4>5, <4>6
    <3> QED
      BY <1>1, <3>1, <3>2
  <2>4. Upto(g, m + 1)
    BY <2>1, <2>3
  <2> QED
    BY <2>2, <2>4
<1>4. S = {}
  <2> HIDE DEF Upto, OnD
  <2> SUFFICES ASSUME S # {} PROVE FALSE
    OBVIOUS
  <2>1. \A i \in S : i \in Nat
    OBVIOUS
  <2>2. \A k \in Nat : k \notin S => \E f : OnD(f) /\ Upto(f, k)
    OBVIOUS
  <2>3. \A k \in S : ~\E f : OnD(f) /\ Upto(f, k)
    OBVIOUS
  <2> HIDE DEF S
  <2>4. PICK m \in S : \A k \in S : m <= k
    BY <2>1, LeastElement
  <2>5. m \in Nat /\ m # 0
    BY <1>2, <2>1, <2>4
  <2>6. PICK k \in Nat : m = k + 1
    BY <2>5
  <2>7. k \notin S
    BY <2>4, <2>5, <2>6
  <2>8. PICK f : Upto(f, k)
    BY <2>2, <2>7
  <2>9. \E g : OnD(g) /\ Upto(g, k + 1)
    BY <1>3, <2>8
  <2> QED
    BY <2>3, <2>4, <2>6, <2>9
<1>5. PICK f : OnD(f) /\ Upto(f, n)
  BY <1>1, <1>4
<1>6. \A lo \in 1 .. n + 1, hi \in 0 .. n : hi - lo + 1 <= n
  BY <1>1
<1>7. \A lo \in 1 .. n + 1, hi \in 0 .. n : f[<<lo, hi>>] = SearchStep(ws, a, f, <<lo, hi>>)
  BY <1>5, <1>6
<1>8. \A range \in D : f[range] = SearchStep(ws, a, f, range)
  <2> SUFFICES ASSUME NEW range \in D PROVE f[range] = SearchStep(ws, a, f, range)
    OBVIOUS
  <2>1. PICK lo \in 1 .. n + 1, hi \in 0 .. n : range = <<lo, hi>>
    OBVIOUS
  <2> QED
    BY <1>7, <2>1
<1>9. f = [range \in D |-> SearchStep(ws, a, f, range)]
  BY <1>5, <1>8
<1>10. IsSearch(ws, a, f)
  BY <1>9 DEF IsSearch, n
<1> QED
  BY <1>10

\* Whatever the order of the windows, the search returns an index or 0.
LEMMA SearchInRange ==
    ASSUME NEW ws \in Seq(Window), NEW a, NEW f, IsSearch(ws, a, f)
    PROVE  f[<<1, Len(ws)>>] \in 0 .. Len(ws)
<1> DEFINE n == Len(ws)
           S == {m \in Nat : \E lo \in 1 .. n + 1, hi \in 0 .. n :
                               m = hi - lo + 1 /\ f[<<lo, hi>>] \notin 0 .. n}
<1>1. n \in Nat
  OBVIOUS
<1>2. \A lo \in 1 .. n + 1, hi \in 0 .. n : f[<<lo, hi>>] = SearchStep(ws, a, f, <<lo, hi>>)
  BY DEF IsSearch
<1> HIDE DEF n
<1>3. \A lo \in 1 .. n + 1, hi \in 0 .. n : lo > hi => f[<<lo, hi>>] \in 0 .. n
  <2>1. \A lo \in 1 .. n + 1, hi \in 0 .. n : lo > hi => f[<<lo, hi>>] = lo - 1
    BY <1>2 DEF SearchStep
  <2> QED
    BY <1>1, <2>1
<1>4. S = {}
  <2> SUFFICES ASSUME S # {} PROVE FALSE
    OBVIOUS
  <2>0. \A i \in S : i \in Nat
    OBVIOUS
  <2>1. PICK m \in S : \A k \in S : m <= k
    BY <2>0, LeastElement
  <2>2. PICK lo \in 1 .. n + 1, hi \in 0 .. n : m = hi - lo + 1 /\ f[<<lo, hi>>] \notin 0 .. n
    BY <2>1
  <2>3. lo <= hi
    BY <1>1, <1>3, <2>2
  <2> DEFINE test == lo + (hi - lo) \div 2
  <2>4. /\ test + 1 \in 1 .. n + 1 /\ hi - (test + 1) + 1 < hi - lo + 1
        /\ test - 1 \in 0 .. n /\ (test - 1) - lo + 1 < hi - lo + 1
    BY <1>1, <2>3, Halves
  <2>5. f[<<lo, hi>>] = f[<<test + 1, hi>>] \/ f[<<lo, hi>>] = f[<<lo, test - 1>>]
    BY <1>2, <2>3 DEF SearchStep
  <2> HIDE DEF test
  <2>6. \A l \in 1 .. n + 1, h \in 0 .. n : h - l + 1 < m => f[<<l, h>>] \in 0 .. n
    <3> SUFFICES ASSUME NEW l \in 1 .. n + 1, NEW h \in 0 .. n, h - l + 1 < m,
                        f[<<l, h>>] \notin 0 .. n
                 PROVE  FALSE
      OBVIOUS
    <3>1. ~(l > h)
      BY <1>3
    <3>2. PICK k \in Nat : k = h - l + 1
      BY <1>1, <3>1
    <3>3. \E x \in 1 .. n + 1, y \in 0 .. n : k = y - x + 1 /\ f[<<x, y>>] \notin 0 .. n
      BY <3>2
    <3>4. k \in S
      BY <3>3
    <3>5. m <= k /\ k < m /\ m \in Nat
      BY <2>1, <3>2, <3>4
    <3> HIDE DEF S
    <3> QED
      BY <3>2, <3>5
  <2> QED
    BY <2>2, <2>4, <2>5, <2>6
<1>5. f[<<1, n>>] \in 0 .. n
  <2>1. n = n - 1 + 1 /\ 1 \in 1 .. n + 1 /\ n \in 0 .. n
    BY <1>1
  <2> QED
    BY <1>1, <1>4, <2>1
<1> QED
  BY <1>5 DEF n

\* In a sorted array the search finds last.
LEMMA SearchFinds ==
    ASSUME NEW ws \in Seq(Window), NEW a \in Page, NEW last, IsLast(ws, a, last),
           NEW f, IsSearch(ws, a, f)
    PROVE  f[<<1, Len(ws)>>] = last
<1> DEFINE n == Len(ws)
           S == {m \in Nat : \E lo \in 1 .. n + 1, hi \in 0 .. n :
                               m = hi - lo + 1 /\ f[<<lo, hi>>] # Clamp(last, lo, hi)}
<1>1. n \in Nat /\ last \in Nat /\ last <= n /\ \A i \in 1 .. n : i <= last <=> ws[i].start <= a
  BY DEF IsLast
<1>2. \A lo \in 1 .. n + 1, hi \in 0 .. n : f[<<lo, hi>>] = SearchStep(ws, a, f, <<lo, hi>>)
  BY DEF IsSearch
<1> HIDE DEF n
<1>3. \A lo \in 1 .. n + 1, hi \in 0 .. n : lo > hi => f[<<lo, hi>>] = Clamp(last, lo, hi)
  BY <1>1, <1>2 DEF SearchStep, Clamp
<1>4. S = {}
  <2> SUFFICES ASSUME S # {} PROVE FALSE
    OBVIOUS
  <2>1. PICK m \in S : \A k \in S : m <= k
    BY LeastElement
  <2>2. PICK lo \in 1 .. n + 1, hi \in 0 .. n :
          m = hi - lo + 1 /\ f[<<lo, hi>>] # Clamp(last, lo, hi)
    BY <2>1
  <2>3. lo <= hi /\ lo \in Nat /\ hi \in Nat
    BY <1>1, <1>3, <2>2
  <2> DEFINE test == lo + (hi - lo) \div 2
  <2>4. test \in Nat /\ lo <= test /\ test <= hi
    BY <2>3, Middle
  <2>5. f[<<lo, hi>>] = IF ws[test].start <= a THEN f[<<test + 1, hi>>] ELSE f[<<lo, test - 1>>]
    BY <1>2, <2>3 DEF SearchStep
  <2> HIDE DEF test
  <2>6. test \in 1 .. n /\ test + 1 \in 1 .. n + 1 /\ test - 1 \in 0 .. n
        /\ (test <= last <=> ws[test].start <= a)
    BY <1>1, <2>3, <2>4
  <2>7. \A l \in 1 .. n + 1, h \in 0 .. n :
          h - l + 1 < m => f[<<l, h>>] = Clamp(last, l, h)
    <3> SUFFICES ASSUME NEW l \in 1 .. n + 1, NEW h \in 0 .. n, h - l + 1 < m,
                        f[<<l, h>>] # Clamp(last, l, h)
                 PROVE  FALSE
      OBVIOUS
    <3>1. ~(l > h)
      BY <1>3
    <3>2. PICK k \in Nat : k = h - l + 1
      BY <1>1, <3>1
    <3>3. \E x \in 1 .. n + 1, y \in 0 .. n : k = y - x + 1 /\ f[<<x, y>>] # Clamp(last, x, y)
      BY <3>2
    <3>4. k \in S
      BY <3>3
    <3>5. m <= k /\ k < m /\ m \in Nat
      BY <2>1, <3>2, <3>4
    <3> HIDE DEF S
    <3> QED
      BY <3>2, <3>5
  <2>8. f[<<test + 1, hi>>] = Clamp(last, test + 1, hi) /\ f[<<lo, test - 1>>] = Clamp(last, lo, test - 1)
    BY <2>2, <2>3, <2>4, <2>6, <2>7
  <2>9. Clamp(last, lo, hi) = IF test <= last THEN Clamp(last, test + 1, hi)
                              ELSE Clamp(last, lo, test - 1)
    BY <1>1, <2>3, <2>4, ClampStep
  <2> QED
    BY <2>2, <2>5, <2>6, <2>8, <2>9
<1>5. f[<<1, n>>] = Clamp(last, 1, n)
  <2>1. n = n - 1 + 1 /\ 1 \in 1 .. n + 1 /\ n \in 0 .. n
    BY <1>1
  <2> QED
    BY <1>1, <1>4, <2>1
<1> QED
  BY <1>1, <1>5 DEF Clamp, n

\* What the definition denotes.
LEMMA SearchDenotes ==
    ASSUME NEW ws \in Seq(Window), NEW a
    PROVE  \E f : /\ IsSearch(ws, a, f)
                  /\ find_last_mmu_window_possibly_covering(ws, a) = f[<<1, Len(ws)>>]
<1> DEFINE f == CHOOSE g : IsSearch(ws, a, g)
<1>1. find_last_mmu_window_possibly_covering(ws, a) = f[<<1, Len(ws)>>]
  BY Zenon DEF find_last_mmu_window_possibly_covering, IsSearch, SearchStep
<1>2. \E g : IsSearch(ws, a, g)
  BY SearchExists
<1>3. IsSearch(ws, a, f)
  BY <1>2, Zenon
<1> HIDE DEF f
<1> QED
  BY <1>1, <1>3

LEMMA SearchReturnsIndex ==
    ASSUME NEW ws \in Seq(Window), NEW a
    PROVE  find_last_mmu_window_possibly_covering(ws, a) \in 0 .. Len(ws)
BY SearchDenotes, SearchInRange

\* find_last_mmu_window_possibly_covering finds the last window that starts
\* at or below the address, in a sorted array of any length.
LEMMA SearchIsRight ==
    ASSUME NEW ws \in Seq(Window), Sorted(ws), NEW a \in Page
    PROVE  IsLast(ws, a, find_last_mmu_window_possibly_covering(ws, a))
<1>1. PICK f : /\ IsSearch(ws, a, f)
               /\ find_last_mmu_window_possibly_covering(ws, a) = f[<<1, Len(ws)>>]
  BY SearchDenotes
<1>2. PICK last : IsLast(ws, a, last)
  BY LastExists
<1>3. f[<<1, Len(ws)>>] = last
  BY <1>1, <1>2, SearchFinds
<1> QED
  BY <1>1, <1>2, <1>3

-----------------------------------------------------------------------------
(* The walks over the windows. *)

\* The windows visited are the last ones up to where the search ends.
LEMMA VisitedUpwards ==
    ASSUME NEW ws \in Seq(Window), NEW a
    PROVE  LET last == find_last_mmu_window_possibly_covering(ws, a)
           IN /\ last \in 0 .. Len(ws)
              /\ \A i \in Visited(ws, a) : i \in 1 .. last /\ \A j \in i .. last : j \in Visited(ws, a)
<1> DEFINE last == find_last_mmu_window_possibly_covering(ws, a)
<1>1. last \in 0 .. Len(ws) /\ Len(ws) \in Nat
  BY SearchReturnsIndex
<1>2. Visited(ws, a) = {i \in 1 .. last : \A j \in i .. last : a < ws[j].end}
  BY DEF Visited
<1> HIDE DEF last
<1>3. ASSUME NEW i \in Visited(ws, a)
      PROVE  i \in 1 .. last /\ \A j \in i .. last : j \in Visited(ws, a)
  <2>1. i \in 1 .. last /\ \A j \in i .. last : a < ws[j].end
    BY <1>2, <1>3
  <2>2. ASSUME NEW j \in i .. last PROVE j \in Visited(ws, a)
    <3>1. j \in 1 .. last /\ \A k \in j .. last : k \in i .. last
      BY <1>1, <2>1, <2>2
    <3> QED
      BY <1>2, <2>1, <3>1
  <2> QED
    BY <2>1, <2>2
<1> QED
  BY <1>1, <1>3 DEF last

\* Every one of them covers the address, in a sorted array.
LEMMA VisitedCover ==
    ASSUME NEW ws \in Seq(Window), Sorted(ws), NEW a \in Page, NEW i \in Visited(ws, a)
    PROVE  i \in DOMAIN ws /\ Covers(ws[i], a)
<1> DEFINE n == Len(ws)
           last == find_last_mmu_window_possibly_covering(ws, a)
<1>1. /\ n \in Nat /\ DOMAIN ws = 1 .. n /\ a \in Int
      /\ \A j \in 1 .. n : ws[j].start \in Int /\ ws[j].end \in Int
  BY WindowFields
<1>2. last \in 0 .. n /\ \A j \in 1 .. n : j <= last <=> ws[j].start <= a
  BY SearchIsRight DEF IsLast
<1>3. i \in 1 .. last /\ \A j \in i .. last : a < ws[j].end
  BY DEF Visited
<1> HIDE DEF n, last
<1>4. i \in 1 .. n /\ i \in i .. last /\ i <= last
  BY <1>1, <1>2, <1>3
<1> QED
  BY <1>1, <1>2, <1>3, <1>4 DEF Covers

\* Where no window starting earlier ends later, they are the ones that cover
\* the address.
LEMMA VisitedCovers ==
    ASSUME NEW ws \in Seq(Window), Sorted(ws), NoneEndsLater(ws), NEW a \in Page
    PROVE  Visited(ws, a) = {i \in DOMAIN ws : Covers(ws[i], a)}
<1> DEFINE n == Len(ws)
           last == find_last_mmu_window_possibly_covering(ws, a)
<1>1. /\ n \in Nat /\ DOMAIN ws = 1 .. n /\ a \in Int
      /\ \A i \in 1 .. n : ws[i].start \in Int /\ ws[i].end \in Int
  BY WindowFields
<1>2. last \in 0 .. n /\ \A i \in 1 .. n : i <= last <=> ws[i].start <= a
  BY SearchIsRight DEF IsLast
<1>3. Visited(ws, a) = {i \in 1 .. last : \A j \in i .. last : a < ws[j].end}
  BY DEF Visited
<1> HIDE DEF n, last
<1>4. ASSUME NEW i \in Visited(ws, a) PROVE i \in DOMAIN ws /\ Covers(ws[i], a)
  BY <1>4, VisitedCover
<1>5. ASSUME NEW i \in DOMAIN ws, Covers(ws[i], a) PROVE i \in Visited(ws, a)
  <2>1. i \in 1 .. n /\ ws[i].start <= a /\ a < ws[i].end
    BY <1>1, <1>5 DEF Covers
  <2>2. i \in 1 .. last
    BY <1>1, <1>2, <2>1
  <2>3. ASSUME NEW j \in i .. last PROVE a < ws[j].end
    <3>1. j \in 1 .. n /\ i <= j
      BY <1>1, <1>2, <2>1, <2>3
    <3>2. ws[i].start <= ws[j].start
      BY <1>1, <2>1, <3>1 DEF Sorted
    <3>3. ws[i].end <= ws[j].end
      BY <1>1, <2>1, <3>1, <3>2 DEF NoneEndsLater
    <3> QED
      BY <1>1, <2>1, <3>1, <3>3
  <2> QED
    BY <1>3, <2>2, <2>3
<1> QED
  BY <1>4, <1>5

\* The walk of get_external_mmu_phys_addr finds a window that fits whenever
\* there is one.
LEMMA DecidingFits ==
    ASSUME NEW ws \in Seq(Window), Sorted(ws), NoneEndsLater(ws), NEW a \in Page, NEW kind
    PROVE  LET fit == {i \in DOMAIN ws : Covers(ws[i], a) /\ kind \in ws[i].type}
           IN IF fit = {} THEN Deciding(ws, a, kind) = 0
              ELSE Deciding(ws, a, kind) \in fit
<1> DEFINE n == Len(ws)
           fit == {i \in DOMAIN ws : Covers(ws[i], a) /\ kind \in ws[i].type}
           hits == {i \in Visited(ws, a) : kind \in ws[i].type}
<1>1. hits = fit
  BY VisitedCovers
<1>2. Deciding(ws, a, kind) = IF hits = {} THEN 0 ELSE CHOOSE i \in hits : \A j \in hits : j <= i
  BY Zenon DEF Deciding
<1>3. n \in Nat /\ \A i \in fit : i \in 1 .. n
  OBVIOUS
<1> HIDE DEF n, fit, hits
<1>4. CASE fit # {}
  <2> DEFINE S == {n - i : i \in fit}
  <2>1. (\A m \in S : m \in Nat) /\ S # {}
    BY <1>3, <1>4
  <2>2. PICK m \in S : \A k \in S : m <= k
    BY <2>1, LeastElement
  <2>3. PICK i \in fit : m = n - i
    BY <2>2
  <2>4. \A j \in fit : m <= n - j
    BY <2>2
  <2>5. \A j \in fit : j <= i
    BY <1>3, <2>3, <2>4
  <2>6. (CHOOSE x \in hits : \A j \in hits : j <= x) \in hits
    BY <1>1, <2>5, Zenon
  <2>7. Deciding(ws, a, kind) = CHOOSE x \in hits : \A j \in hits : j <= x
    BY <1>1, <1>2, <1>4, Zenon
  <2>8. Deciding(ws, a, kind) \in hits
    BY <2>6, <2>7, Zenon
  <2> QED
    BY <1>1, <1>4, <2>8 DEF fit
<1>5. CASE fit = {}
  <2>1. Deciding(ws, a, kind) = 0
    BY <1>1, <1>2, <1>5, Zenon
  <2> QED
    BY <1>5, <2>1 DEF fit
<1> QED
  BY <1>4, <1>5 DEF fit

\* The window the walk stops at covers the address and has the right type, also
\* where windows that start earlier end later.
LEMMA DecidingCovers ==
    ASSUME NEW ws \in Seq(Window), Sorted(ws), NEW a \in Page, NEW kind,
           Deciding(ws, a, kind) # 0
    PROVE  LET i == Deciding(ws, a, kind)
           IN i \in DOMAIN ws /\ Covers(ws[i], a) /\ kind \in ws[i].type
<1> DEFINE n == Len(ws)
           hits == {i \in Visited(ws, a) : kind \in ws[i].type}
<1>1. Deciding(ws, a, kind) = IF hits = {} THEN 0 ELSE CHOOSE i \in hits : \A j \in hits : j <= i
  BY Zenon DEF Deciding
<1>2. n \in Nat /\ \A i \in hits : i \in 1 .. n /\ Covers(ws[i], a) /\ kind \in ws[i].type
  BY VisitedCover
<1>3. hits # {}
  BY <1>1, Zenon
<1> HIDE DEF n, hits
<1>4. \E i \in hits : \A j \in hits : j <= i
  <2> DEFINE S == {n - i : i \in hits}
  <2>1. (\A m \in S : m \in Nat) /\ S # {}
    BY <1>2, <1>3
  <2>2. PICK m \in S : \A k \in S : m <= k
    BY <2>1, LeastElement
  <2>3. PICK i \in hits : m = n - i
    BY <2>2
  <2>4. \A j \in hits : m <= n - j
    BY <2>2
  <2> QED
    BY <1>2, <2>3, <2>4
<1>5. Deciding(ws, a, kind) \in hits
  BY <1>1, <1>3, <1>4, Zenon
<1>6. DOMAIN ws = 1 .. n
  BY DEF n
<1> QED
  BY <1>2, <1>5, <1>6

\* A sequence without a stretch of its elements: what both resets leave.
Without(ws, first, last) == SubSeq(ws, 1, first - 1) \o SubSeq(ws, last + 1, Len(ws))

\* Where its elements come from.
Origin(first, last, k) == IF k < first THEN k ELSE k + (last - first + 1)

LEMMA WithoutElements ==
    ASSUME NEW S, NEW ws \in Seq(S), NEW last \in 0 .. Len(ws), NEW first \in 1 .. last + 1
    PROVE  /\ Without(ws, first, last) \in Seq(S)
           /\ Len(Without(ws, first, last)) = Len(ws) - (last - first + 1)
           /\ \A k \in 1 .. Len(ws) - (last - first + 1) :
                 /\ Origin(first, last, k) \in 1 .. Len(ws)
                 /\ Origin(first, last, k) \notin first .. last
                 /\ Without(ws, first, last)[k] = ws[Origin(first, last, k)]
<1> DEFINE n == Len(ws)
           l == SubSeq(ws, 1, first - 1)
           r == SubSeq(ws, last + 1, n)
<1>1. n \in Nat /\ last \in Nat /\ first \in Nat /\ first >= 1 /\ first <= last + 1 /\ last <= n
  OBVIOUS
<1>2. /\ l \in Seq(S) /\ Len(l) = first - 1
      /\ \A k \in 1 .. first - 1 : l[k] = ws[k]
  BY <1>1
<1>3. /\ r \in Seq(S) /\ Len(r) = n - last
      /\ \A k \in 1 .. n - last : r[k] = ws[last + k]
  BY <1>1
<1>4. Without(ws, first, last) = l \o r
  BY DEF Without
<1> HIDE DEF n, l, r
<1>5. /\ l \o r \in Seq(S) /\ Len(l \o r) = n - (last - first + 1)
      /\ \A k \in 1 .. Len(l) : (l \o r)[k] = l[k]
      /\ \A k \in 1 .. Len(r) : (l \o r)[Len(l) + k] = r[k]
  <2>1. /\ l \o r \in Seq(S) /\ Len(l \o r) = Len(l) + Len(r)
        /\ \A k \in 1 .. Len(l) + Len(r) :
              (l \o r)[k] = IF k <= Len(l) THEN l[k] ELSE r[k - Len(l)]
    BY <1>2, <1>3, ConcatProperties
  <2>2. Len(l) + Len(r) = n - (last - first + 1)
    BY <1>1, <1>2, <1>3
  <2>3. \A k \in 1 .. Len(l) : (l \o r)[k] = l[k]
    BY <1>1, <1>2, <1>3, <2>1
  <2>4. ASSUME NEW k \in 1 .. Len(r) PROVE (l \o r)[Len(l) + k] = r[k]
    <3>1. Len(l) + k \in 1 .. Len(l) + Len(r) /\ ~(Len(l) + k <= Len(l)) /\ Len(l) + k - Len(l) = k
      BY <1>1, <1>2, <1>3
    <3> QED
      BY <2>1, <3>1
  <2> QED
    BY <2>1, <2>2, <2>3, <2>4
<1>6. ASSUME NEW k \in 1 .. n - (last - first + 1)
      PROVE  /\ Origin(first, last, k) \in 1 .. n
             /\ Origin(first, last, k) \notin first .. last
             /\ (l \o r)[k] = ws[Origin(first, last, k)]
  <2>1. CASE k < first
    BY <1>1, <1>2, <1>5, <2>1 DEF Origin
  <2>2. CASE ~(k < first)
    <3>0. k - (first - 1) \in 1 .. n - last /\ k = (first - 1) + (k - (first - 1))
      BY <1>1, <2>2
    <3>1. PICK m \in 1 .. n - last : k = Len(l) + m
      BY <1>2, <3>0
    <3>2. Origin(first, last, k) = last + m
      BY <1>1, <1>2, <2>2, <3>1 DEF Origin
    <3>3. (l \o r)[k] = ws[last + m]
      BY <1>3, <1>5, <3>1
    <3> QED
      BY <1>1, <3>1, <3>2, <3>3
  <2> QED
    BY <2>1, <2>2
<1> QED
  BY <1>4, <1>5, <1>6 DEF n

\* Every other element is still there.
LEMMA WithoutOthers ==
    ASSUME NEW n \in Nat, NEW last \in 0 .. n, NEW first \in 1 .. last + 1,
           NEW i \in 1 .. n, i \notin first .. last
    PROVE  \E k \in 1 .. n - (last - first + 1) : Origin(first, last, k) = i
<1>1. CASE i < first
  BY <1>1 DEF Origin
<1>2. CASE i > last
  <2>1. PICK k \in Nat : k = i - (last - first + 1)
    BY <1>2
  <2>2. k \in 1 .. n - (last - first + 1) /\ ~(k < first) /\ k + (last - first + 1) = i
    BY <1>2, <2>1
  <2> QED
    BY <2>2 DEF Origin
<1> QED
  BY <1>1, <1>2

\* tlib_reset_mmu_windows_covering_address removes a stretch.
LEMMA RemovedStretch ==
    ASSUME NEW ws \in Seq(Window), NEW a
    PROVE  \E last \in 0 .. Len(ws) : \E first \in 1 .. last + 1 :
              /\ RemovedCovering(ws, a) = Without(ws, first, last)
              /\ Visited(ws, a) = first .. last
<1> DEFINE last == find_last_mmu_window_possibly_covering(ws, a)
           S == Visited(ws, a) \cup {last + 1}
           first == Min(S)
<1>1. /\ last \in 0 .. Len(ws)
      /\ \A i \in Visited(ws, a) : i \in 1 .. last /\ \A j \in i .. last : j \in Visited(ws, a)
  BY VisitedUpwards
<1>2. RemovedCovering(ws, a) = Without(ws, first, last)
  BY DEF RemovedCovering, Without
<1> HIDE DEF last
<1>3. first \in S /\ \A j \in S : first <= j
  <2>1. (\A i \in S : i \in Nat) /\ S # {}
    BY <1>1
  <2>2. \E k \in S : \A j \in S : k <= j
    BY <2>1, LeastElement
  <2> HIDE DEF S
  <2> QED
    BY <2>2, Zenon DEF Min
<1> HIDE DEF first
<1>4. first \in 1 .. last + 1
  BY <1>1, <1>3
<1>5. Visited(ws, a) = first .. last
  <2>1. ASSUME NEW i \in Visited(ws, a) PROVE i \in first .. last
    BY <1>1, <1>3, <1>4, <2>1
  <2>2. ASSUME NEW i \in first .. last PROVE i \in Visited(ws, a)
    <3>1. first # last + 1
      BY <1>1, <1>4, <2>2
    <3>2. first \in Visited(ws, a)
      BY <1>3, <3>1
    <3> QED
      BY <1>1, <2>2, <3>2
  <2> QED
    BY <2>1, <2>2
<1> QED
  BY <1>1, <1>2, <1>4, <1>5

\* It takes the windows that cover the address and no others.
LEMMA RemovedRight ==
    ASSUME NEW ws \in Seq(Window), Sorted(ws), NoneEndsLater(ws), NEW a \in Page
    PROVE  ToSet(RemovedCovering(ws, a)) = {w \in ToSet(ws) : ~Covers(w, a)}
<1>0. PICK last \in 0 .. Len(ws) : \E first \in 1 .. last + 1 :
              /\ RemovedCovering(ws, a) = Without(ws, first, last)
              /\ Visited(ws, a) = first .. last
  BY RemovedStretch
<1>1. PICK first \in 1 .. last + 1 : /\ RemovedCovering(ws, a) = Without(ws, first, last)
                                     /\ Visited(ws, a) = first .. last
  BY <1>0
<1> DEFINE n == Len(ws)
           ks == 1 .. n - (last - first + 1)
           u == RemovedCovering(ws, a)
<1>2. /\ n \in Nat /\ DOMAIN ws = 1 .. n
      /\ DOMAIN u = ks
      /\ \A k \in ks : /\ Origin(first, last, k) \in 1 .. n
                       /\ Origin(first, last, k) \notin first .. last
                       /\ u[k] = ws[Origin(first, last, k)]
  <2>1. n \in Nat /\ DOMAIN ws = 1 .. n
    OBVIOUS
  <2>2. u = Without(ws, first, last)
    BY <1>1
  <2>3. /\ DOMAIN Without(ws, first, last) = ks
        /\ \A k \in ks : /\ Origin(first, last, k) \in 1 .. n
                         /\ Origin(first, last, k) \notin first .. last
                         /\ Without(ws, first, last)[k] = ws[Origin(first, last, k)]
    BY WithoutElements
  <2> HIDE DEF u, n, ks
  <2> QED
    BY <2>1, <2>2, <2>3
<1>3. \A i \in 1 .. n : i \notin first .. last <=> ~Covers(ws[i], a)
  BY <1>1, <1>2, VisitedCovers
<1>4. ASSUME NEW i \in 1 .. n, i \notin first .. last
      PROVE  \E k \in ks : Origin(first, last, k) = i
  <2>1. last \in 0 .. n /\ first \in 1 .. last + 1 /\ n \in Nat
    BY <1>2
  <2> HIDE DEF n
  <2>2. \E k \in 1 .. n - (last - first + 1) : Origin(first, last, k) = i
    BY <1>4, <2>1, WithoutOthers
  <2> QED
    BY <2>2
<1> HIDE DEF n, ks, u
<1>5. ASSUME NEW w \in ToSet(u) PROVE w \in ToSet(ws) /\ ~Covers(w, a)
  BY <1>2, <1>3, <1>5 DEF ToSet
<1>6. ASSUME NEW w \in ToSet(ws), ~Covers(w, a) PROVE w \in ToSet(u)
  BY <1>2, <1>3, <1>4, <1>6 DEF ToSet
<1> QED
  BY <1>5, <1>6 DEF u

-----------------------------------------------------------------------------
(* The invariant: the types, with every field of a fill, and the order of  *)
(* the windows unless it is marked as lost.                                *)

Fills == {Idle} \cup [stage : {"lookup", "ask", "report"}, iaddr : Page, kind : Kinds,
                      quiet : BOOLEAN, first_try : BOOLEAN]

\* An array of windows with the ids given out so far.
Good(ws, ids) ==
    /\ ws \in Seq(Window) /\ Len(ws) <= MaxWindows
    /\ \A i, j \in DOMAIN ws : ws[i].id = ws[j].id => i = j
    /\ \A i \in DOMAIN ws : ws[i].id < ids

EmmuInv ==
    /\ Good(windows, next_id)
    /\ next_id \in 0 .. MaxIds
    /\ unsorted \in BOOLEAN
    /\ position \in Positions \cup {"none"}
    /\ fill \in Fills
    /\ ~unsorted => Sorted(windows)

LEMMA InvTypes == EmmuInv => EmmuTypeOK
<1> SUFFICES ASSUME EmmuInv PROVE EmmuTypeOK
  OBVIOUS
<1>1. \A f \in Fills : f.stage \in {"idle", "lookup", "ask", "report"}
  BY DEF Fills, Idle
<1> QED
  BY <1>1 DEF EmmuInv, EmmuTypeOK, Good, Ids

\* Removing a stretch of windows keeps ids and order.
LEMMA WithoutGood ==
    ASSUME NEW ws, NEW ids, Good(ws, ids),
           NEW last \in 0 .. Len(ws), NEW first \in 1 .. last + 1
    PROVE  /\ Good(Without(ws, first, last), ids)
           /\ Sorted(ws) => Sorted(Without(ws, first, last))
<1> DEFINE n == Len(ws)
           u == Without(ws, first, last)
           m == n - (last - first + 1)
<1>1. /\ ws \in Seq(Window) /\ n \in Nat /\ n <= MaxWindows /\ DOMAIN ws = 1 .. n
      /\ last \in Nat /\ first \in Nat /\ first >= 1 /\ first <= last + 1 /\ last <= n
  BY DEF Good
<1>2. /\ u \in Seq(Window) /\ Len(u) = m
      /\ \A k \in 1 .. m : Origin(first, last, k) \in 1 .. n /\ u[k] = ws[Origin(first, last, k)]
  BY <1>1, WithoutElements
<1>3. DOMAIN u = 1 .. m
  BY <1>2
<1>4. m \in Int /\ m <= n
  BY <1>1
<1> HIDE DEF n, u, m
<1>5. \A j, k \in 1 .. m : /\ j # k => Origin(first, last, j) # Origin(first, last, k)
                           /\ j <= k => Origin(first, last, j) <= Origin(first, last, k)
  BY <1>1, <1>4 DEF Origin
<1>6. Len(u) <= MaxWindows
  BY <1>1, <1>2, <1>4, ExternalMmuAssumption
<1>7. \A i, j \in DOMAIN u : u[i].id = u[j].id => i = j
  BY <1>1, <1>2, <1>3, <1>5 DEF Good
<1>8. \A i \in DOMAIN u : u[i].id < ids
  BY <1>1, <1>2, <1>3 DEF Good
<1>9. Sorted(ws) => Sorted(u)
  BY <1>1, <1>2, <1>3, <1>5 DEF Sorted
<1> QED
  BY <1>2, <1>6, <1>7, <1>8, <1>9 DEF Good, u

\* Changing a window in place keeps its id and, if it starts where it did,
\* the order.
LEMMA EditGood ==
    ASSUME NEW ws, NEW ids, Good(ws, ids), NEW i \in DOMAIN ws, NEW w \in Window,
           w.id = ws[i].id, NEW u, u = [ws EXCEPT ![i] = w]
    PROVE  /\ Good(u, ids)
           /\ w.start = ws[i].start /\ Sorted(ws) => Sorted(u)
<1>1. ws \in Seq(Window) /\ Len(ws) <= MaxWindows
  BY DEF Good
<1>2. u \in Seq(Window) /\ Len(u) = Len(ws) /\ DOMAIN u = DOMAIN ws
  BY <1>1
<1>3. \A j \in DOMAIN ws : u[j] = IF j = i THEN w ELSE ws[j]
  BY <1>1
<1>4. \A j \in DOMAIN ws : u[j].id = ws[j].id
  BY <1>3
<1>5. Good(u, ids)
  BY <1>1, <1>2, <1>4 DEF Good
<1>6. ASSUME w.start = ws[i].start, Sorted(ws) PROVE Sorted(u)
  <2>1. \A j \in DOMAIN ws : u[j].start = ws[j].start
    BY <1>3, <1>6
  <2> QED
    BY <1>2, <1>6, <2>1 DEF Sorted
<1> QED
  BY <1>5, <1>6

LEMMA AppendGood ==
    ASSUME NEW ws, NEW ids \in Nat, Good(ws, ids), Len(ws) < MaxWindows,
           NEW w \in Window, w.id = ids
    PROVE  Good(Append(ws, w), ids + 1)
<1> DEFINE n == Len(ws)
           u == Append(ws, w)
<1>1. ws \in Seq(Window) /\ n \in Nat /\ DOMAIN ws = 1 .. n /\ \A i \in 1 .. n : ws[i].id \in Nat
  <2>1. \A v \in Window : v.id \in Nat
    BY DEF Window
  <2>2. ws \in Seq(Window) /\ \A i \in 1 .. n : ws[i] \in Window
    BY DEF Good
  <2> QED
    BY <2>1, <2>2
<1>2. /\ u \in Seq(Window) /\ Len(u) = n + 1
      /\ \A i \in 1 .. n : u[i] = ws[i]
      /\ u[n + 1] = w
  BY <1>1, AppendProperties
<1>3. DOMAIN u = 1 .. n + 1
  BY <1>2
<1>4. Len(u) <= MaxWindows
  BY <1>1, <1>2, ExternalMmuAssumption
<1> HIDE DEF n, u
<1>5. \A i \in 1 .. n + 1 : i = n + 1 \/ i \in 1 .. n
  BY <1>1
<1>6. \A i \in 1 .. n : u[i].id < ids /\ u[i].id \in Nat
  BY <1>1, <1>2 DEF Good
<1>7. \A i, j \in DOMAIN u : u[i].id = u[j].id => i = j
  <2> SUFFICES ASSUME NEW i \in 1 .. n + 1, NEW j \in 1 .. n + 1, u[i].id = u[j].id PROVE i = j
    BY <1>3
  <2>1. CASE i \in 1 .. n /\ j \in 1 .. n
    BY <1>1, <1>2, <2>1 DEF Good
  <2>2. CASE i = n + 1 /\ j \in 1 .. n
    BY <1>2, <1>6, <2>2
  <2>3. CASE i \in 1 .. n /\ j = n + 1
    BY <1>2, <1>6, <2>3
  <2> QED
    BY <1>5, <2>1, <2>2, <2>3
<1>8. \A i \in DOMAIN u : u[i].id < ids + 1
  BY <1>2, <1>3, <1>5, <1>6
<1> QED
  BY <1>2, <1>4, <1>7, <1>8 DEF Good, u

\* ensure_mmu_windows_sorted: whatever qsort does with equal windows.
LEMMA SortingsGood ==
    ASSUME NEW ws, NEW ids, Good(ws, ids), NEW u \in Sortings(ws)
    PROVE  Good(u, ids) /\ Sorted(u)
<1> DEFINE n == Len(ws)
<1>1. ws \in Seq(Window) /\ n \in Nat /\ DOMAIN ws = 1 .. n /\ \A i \in 1 .. n : ws[i] \in Window
  BY DEF Good
<1>2. PICK p \in Bijection(DOMAIN ws, DOMAIN ws) : u = [i \in DOMAIN ws |-> ws[p[i]]]
  BY DEF Sortings
<1>3. \A i, j \in DOMAIN ws : i < j => compare_mmu_windows(u[i], u[j])
  BY DEF Sortings
<1>4. p \in [DOMAIN ws -> DOMAIN ws] /\ \A i, j \in DOMAIN ws : p[i] = p[j] => i = j
  BY <1>2, Zenon DEF Bijection, Injection, IsInjective
<1>5. u \in Seq(Window) /\ Len(u) = n /\ DOMAIN u = 1 .. n
  <2>1. u \in [1 .. n -> Window]
    BY <1>1, <1>2, <1>4
  <2>2. u \in Seq(Window)
    BY <1>1, <2>1, SeqDef
  <2> QED
    BY <1>1, <2>1, <2>2
<1>6. \A i \in 1 .. n : p[i] \in 1 .. n /\ u[i] = ws[p[i]]
  BY <1>1, <1>2, <1>4
<1> HIDE DEF n
<1>7. \A i, j \in 1 .. n : u[i].id = u[j].id => i = j
  <2>1. \A i, j \in 1 .. n : ws[i].id = ws[j].id => i = j
    BY <1>1 DEF Good
  <2>2. \A i, j \in 1 .. n : p[i] = p[j] => i = j
    BY <1>1, <1>4
  <2> QED
    BY <1>6, <2>1, <2>2
<1>8. \A i \in 1 .. n : u[i].id < ids
  BY <1>1, <1>6 DEF Good
<1>9. Len(u) <= MaxWindows
  BY <1>5 DEF Good, n
<1>10. \A i \in 1 .. n : u[i].start \in Int
  <2>1. \A w \in Window : w.start \in Page
    BY DEF Window
  <2>2. \A p_ \in Page : p_ \in Int
    BY ExternalMmuAssumption DEF Page
  <2> QED
    BY <1>1, <1>6, <2>1, <2>2
<1>11. Sorted(u)
  <2> SUFFICES ASSUME NEW i \in 1 .. n, NEW j \in 1 .. n, i <= j PROVE u[i].start <= u[j].start
    BY <1>5 DEF Sorted
  <2>1. CASE i = j
    BY <1>10, <2>1
  <2>2. CASE i < j
    BY <1>1, <1>3, <1>10, <2>2 DEF compare_mmu_windows
  <2> QED
    BY <1>1, <2>1, <2>2
<1> QED
  BY <1>5, <1>7, <1>8, <1>9, <1>11 DEF Good

\* external_mmu_find_window_by_id finds the window it looks for.
LEMMA ByIdFinds ==
    ASSUME NEW id \in Ids
    PROVE  ById(id) \in DOMAIN windows /\ windows[ById(id)].id = id
<1>1. \E i \in DOMAIN windows : windows[i].id = id
  BY DEF Ids
<1> QED
  BY <1>1, Zenon DEF ById

-----------------------------------------------------------------------------
(* The steps. *)

LEMMA EmmuInitInv == EmmuInit => EmmuInv
<1> SUFFICES ASSUME EmmuInit PROVE EmmuInv
  OBVIOUS
<1>1. Good(<<>>, 0) /\ Sorted(<<>>)
  BY ExternalMmuAssumption DEF Good, Sorted
<1>2. 0 \in 0 .. MaxIds /\ "none" \in Positions \cup {"none"} /\ Idle \in Fills
  BY ExternalMmuAssumption DEF Fills
<1>3. windows = <<>> /\ next_id = 0 /\ unsorted = FALSE /\ position = "none" /\ fill = Idle
  BY DEF EmmuInit
<1> QED
  BY <1>1, <1>2, <1>3 DEF EmmuInv

\* A window the host has changed in place.
LEMMA EditStep ==
    ASSUME EmmuInv, NEW id \in Ids, NEW w \in Window, w.id = id,
           windows' = [windows EXCEPT ![ById(id)] = w],
           unsorted' = TRUE \/ (unsorted' = unsorted /\ w.start = windows[ById(id)].start),
           UNCHANGED <<next_id, position, fill>>
    PROVE  EmmuInv'
<1>1. PICK i \in DOMAIN windows : i = ById(id) /\ windows[i].id = id
  BY ByIdFinds
<1>2. Good(windows, next_id)
  BY DEF EmmuInv
<1>3. /\ Good(windows', next_id)
      /\ w.start = windows[i].start /\ Sorted(windows) => Sorted(windows')
  BY <1>1, <1>2, EditGood
<1>4. ~unsorted' => Sorted(windows')
  BY <1>1, <1>3 DEF EmmuInv
<1> QED
  BY <1>3, <1>4 DEF EmmuInv

LEMMA AcquireStep == ASSUME EmmuInv, tlib_acquire_mmu_window PROVE EmmuInv'
<1>1. PICK type \in Types :
        windows' = Append(windows, [id |-> next_id, start |-> 0, end |-> 0,
                                    type |-> type, priv |-> {}])
  BY DEF tlib_acquire_mmu_window
<1>2. /\ Len(windows) < MaxWindows /\ next_id < MaxIds /\ next_id' = next_id + 1
      /\ unsorted' = TRUE /\ UNCHANGED <<position, fill>>
  BY DEF tlib_acquire_mmu_window
<1>3. Good(windows, next_id) /\ next_id \in Nat /\ next_id' \in 0 .. MaxIds
  BY <1>2, ExternalMmuAssumption DEF EmmuInv
<1>4. PICK w : w = [id |-> next_id, start |-> 0, end |-> 0, type |-> type, priv |-> {}]
  OBVIOUS
<1>5. w \in Window /\ w.id = next_id
  <2>1. type \in SUBSET Kinds /\ 0 \in Page /\ 0 \in Ends /\ next_id \in Nat /\ {} \in SUBSET Kinds
    BY <1>3, ExternalMmuAssumption DEF Page, Ends
  <2> QED
    BY <1>4, <2>1 DEF Window
<1>6. Good(windows', next_id')
  BY <1>1, <1>2, <1>3, <1>4, <1>5, AppendGood
<1> QED
  BY <1>2, <1>3, <1>6 DEF EmmuInv

LEMMA SetStep ==
    ASSUME EmmuInv,
           tlib_set_mmu_window_start \/ tlib_set_mmu_window_end \/ tlib_set_window_privileges
    PROVE  EmmuInv'
<1>0. windows \in Seq(Window) /\ UNCHANGED <<next_id, position, fill>>
  BY DEF EmmuInv, Good, tlib_set_mmu_window_start, tlib_set_mmu_window_end, tlib_set_window_privileges
<1>1. ASSUME NEW id \in Ids
      PROVE  /\ windows[ById(id)] \in Window /\ windows[ById(id)].id = id
             /\ \A x : [windows EXCEPT ![ById(id)].start = x]
                          = [windows EXCEPT ![ById(id)] = [windows[ById(id)] EXCEPT !.start = x]]
             /\ \A x : [windows EXCEPT ![ById(id)].end = x]
                          = [windows EXCEPT ![ById(id)] = [windows[ById(id)] EXCEPT !.end = x]]
             /\ \A x : [windows EXCEPT ![ById(id)].priv = x]
                          = [windows EXCEPT ![ById(id)] = [windows[ById(id)] EXCEPT !.priv = x]]
  <2>1. ById(id) \in DOMAIN windows /\ windows[ById(id)].id = id
    BY <1>1, ByIdFinds
  <2> QED
    BY <1>0, <2>1
<1>2. CASE tlib_set_mmu_window_start
  <2>1. PICK id \in Ids, x \in Page : windows' = [windows EXCEPT ![ById(id)].start = x]
    BY <1>2 DEF tlib_set_mmu_window_start
  <2>2. PICK w : w = [windows[ById(id)] EXCEPT !.start = x]
    OBVIOUS
  <2>3. w \in Window /\ w.id = id
    BY <1>1, <2>2 DEF Window
  <2>4. windows' = [windows EXCEPT ![ById(id)] = w] /\ unsorted' = TRUE
    BY <1>1, <1>2, <2>1, <2>2 DEF tlib_set_mmu_window_start
  <2> QED
    BY <1>0, <2>3, <2>4, EditStep
<1>3. CASE tlib_set_mmu_window_end
  <2>1. PICK id \in Ids, x \in Ends :
                                windows' = [windows EXCEPT ![ById(id)].end = x]
    <3>1. PICK id \in Ids, addr \in Page, range_end_inclusive \in BOOLEAN :
            windows' = [windows EXCEPT ![ById(id)].end =
                           IF range_end_inclusive THEN addr + 1 ELSE addr]
      BY <1>3 DEF tlib_set_mmu_window_end
    <3>2. addr \in Ends /\ addr + 1 \in Ends
      BY ExternalMmuAssumption DEF Page, Ends
    <3> QED
      BY <3>1, <3>2
  <2>2. PICK w : w = [windows[ById(id)] EXCEPT !.end = x]
    OBVIOUS
  <2>3. w \in Window /\ w.id = id /\ w.start = windows[ById(id)].start
    BY <1>1, <2>1, <2>2 DEF Window
  <2>4. windows' = [windows EXCEPT ![ById(id)] = w] /\ unsorted' = unsorted
    BY <1>1, <1>3, <2>1, <2>2 DEF tlib_set_mmu_window_end
  <2> QED
    BY <1>0, <2>3, <2>4, EditStep
<1>4. CASE tlib_set_window_privileges
  <2>1. PICK id \in Ids, x \in Privs : windows' = [windows EXCEPT ![ById(id)].priv = x]
    BY <1>4 DEF tlib_set_window_privileges
  <2>2. PICK w : w = [windows[ById(id)] EXCEPT !.priv = x]
    OBVIOUS
  <2>3. w \in Window /\ w.id = id /\ w.start = windows[ById(id)].start
    BY <1>1, <2>1, <2>2, ExternalMmuAssumption DEF Window
  <2>4. windows' = [windows EXCEPT ![ById(id)] = w] /\ unsorted' = unsorted
    BY <1>1, <1>4, <2>1, <2>2 DEF tlib_set_window_privileges
  <2> QED
    BY <1>0, <2>3, <2>4, EditStep
<1> QED
  BY <1>2, <1>3, <1>4

LEMMA ResetStep ==
    ASSUME EmmuInv,
           \/ tlib_reset_mmu_window \/ tlib_reset_mmu_windows_covering_address
           \/ tlib_reset_all_mmu_windows
    PROVE  EmmuInv'
<1>0. /\ Good(windows, next_id) /\ windows \in Seq(Window)
      /\ UNCHANGED <<unsorted, next_id, position, fill>>
  BY DEF EmmuInv, Good, tlib_reset_mmu_window, tlib_reset_mmu_windows_covering_address,
     tlib_reset_all_mmu_windows
<1>1. ASSUME Good(windows', next_id), Sorted(windows) => Sorted(windows') PROVE EmmuInv'
  BY <1>0, <1>1 DEF EmmuInv
<1>2. CASE tlib_reset_mmu_window
  <2>1. PICK id \in Ids : windows' = RemoveAt(windows, ById(id))
    BY <1>2 DEF tlib_reset_mmu_window
  <2>2. PICK i \in DOMAIN windows : i = ById(id)
    BY ByIdFinds
  <2>3. i \in 0 .. Len(windows) /\ i \in 1 .. i + 1
    BY <1>0
  <2>4. windows' = Without(windows, i, i)
    BY <2>1, <2>2 DEF RemoveAt, Without
  <2> QED
    BY <1>0, <1>1, <2>3, <2>4, WithoutGood
<1>3. CASE tlib_reset_mmu_windows_covering_address
  <2>1. PICK a \in Page : windows' = RemovedCovering(windows, a)
    BY <1>3 DEF tlib_reset_mmu_windows_covering_address
  <2>2. PICK last \in 0 .. Len(windows) : \E first \in 1 .. last + 1 :
          RemovedCovering(windows, a) = Without(windows, first, last)
    BY <1>0, RemovedStretch
  <2>3. PICK first \in 1 .. last + 1 : RemovedCovering(windows, a) = Without(windows, first, last)
    BY <2>2
  <2> QED
    BY <1>0, <1>1, <2>1, <2>3, WithoutGood
<1>4. CASE tlib_reset_all_mmu_windows
  <2>1. windows' = <<>>
    BY <1>4 DEF tlib_reset_all_mmu_windows
  <2>2. Good(<<>>, next_id) /\ Sorted(<<>>)
    BY ExternalMmuAssumption DEF Good, Sorted
  <2> QED
    BY <1>1, <2>1, <2>2
<1> QED
  BY <1>2, <1>3, <1>4

LEMMA FillSteps ==
    ASSUME EmmuInv, tlb_fill \/ get_external_mmu_phys_addr \/ HandlerAnswers \/ HandlerReports
    PROVE  fill' \in Fills
<1>0. /\ fill \in Fills
      /\ \A f \in Fills : f.stage # "idle" => f \in [stage : {"lookup", "ask", "report"}, iaddr : Page,
                                                     kind : Kinds, quiet : BOOLEAN, first_try : BOOLEAN]
  BY DEF EmmuInv, Fills, Idle
<1>1. Idle \in Fills
  BY DEF Fills
<1>2. ASSUME fill.stage # "idle", NEW s \in {"lookup", "ask", "report"}
      PROVE  [fill EXCEPT !.stage = s] \in Fills /\ [fill EXCEPT !.stage = s, !.first_try = FALSE] \in Fills
  BY <1>0, <1>2 DEF Fills
<1>3. CASE tlb_fill
  <2>1. PICK a \in Page, kind \in Kinds, quiet \in BOOLEAN :
          LET iaddr == IF position = "after" THEN ArchMap[a] ELSE a
          IN /\ position # "none" /\ iaddr # NoPage
             /\ fill' = [stage |-> "lookup", iaddr |-> iaddr, kind |-> kind, quiet |-> quiet,
                         first_try |-> TRUE]
    BY <1>3 DEF tlb_fill
  <2>2. PICK iaddr \in Page :
          fill' = [stage |-> "lookup", iaddr |-> iaddr, kind |-> kind, quiet |-> quiet, first_try |-> TRUE]
    BY <2>1, ExternalMmuAssumption
  <2> QED
    BY <2>2 DEF Fills
<1>4. CASE get_external_mmu_phys_addr
  <2>1. fill.stage = "lookup"
    BY <1>4 DEF get_external_mmu_phys_addr
  <2>2. [fill EXCEPT !.stage = "ask"] \in Fills /\ [fill EXCEPT !.stage = "report"] \in Fills
    BY <1>2, <2>1
  <2>3. \E granted, b, q \in BOOLEAN :
          fill' = CASE granted -> Idle
                    [] ~granted /\ b -> [fill EXCEPT !.stage = "ask"]
                    [] ~granted /\ ~b /\ ~q -> [fill EXCEPT !.stage = "report"]
                    [] OTHER -> Idle
    <3> DEFINE i == Deciding(windows', fill.iaddr, fill.kind)
               granted == i # 0 /\ fill.kind \in windows'[i].priv
    <3>1. granted \in BOOLEAN
      OBVIOUS
    <3>2. fill.first_try \in BOOLEAN /\ fill.quiet \in BOOLEAN
      BY <1>0, <2>1
    <3>3. fill' = CASE granted -> Idle
                    [] ~granted /\ fill.first_try -> [fill EXCEPT !.stage = "ask"]
                    [] ~granted /\ ~fill.first_try /\ ~fill.quiet -> [fill EXCEPT !.stage = "report"]
                    [] OTHER -> Idle
      BY <1>4 DEF get_external_mmu_phys_addr
    <3> HIDE DEF granted
    <3> QED
      BY <3>1, <3>2, <3>3
  <2> QED
    BY <1>1, <2>2, <2>3
<1>5. CASE HandlerAnswers
  <2>1. fill.stage = "ask"
    BY <1>5 DEF HandlerAnswers
  <2>2. [fill EXCEPT !.stage = "report"] \in Fills /\ [fill EXCEPT !.stage = "lookup", !.first_try = FALSE] \in Fills
    BY <1>2, <2>1
  <2> QED
    BY <1>1, <1>5, <2>2 DEF HandlerAnswers
<1>6. CASE HandlerReports
  BY <1>1, <1>6 DEF HandlerReports
<1> QED
  BY <1>3, <1>4, <1>5, <1>6

LEMMA EmmuNextInv == EmmuInv /\ [EmmuNext]_vars => EmmuInv'
<1> SUFFICES ASSUME EmmuInv, [EmmuNext]_vars PROVE EmmuInv'
  OBVIOUS
<1>1. CASE HostSets
  <2>1. CASE tlib_enable_external_window_mmu
    BY <2>1 DEF tlib_enable_external_window_mmu, table, EmmuInv
  <2> QED
    BY <1>1, <2>1, AcquireStep, SetStep, ResetStep DEF HostSets
<1>2. CASE tlb_fill \/ HandlerAnswers \/ HandlerReports
  <2>1. fill' \in Fills
    BY <1>2, FillSteps
  <2>2. UNCHANGED <<table, position>>
    BY <1>2 DEF tlb_fill, HandlerAnswers, HandlerReports
  <2> QED
    BY <2>1, <2>2 DEF EmmuInv, table
<1>3. CASE get_external_mmu_phys_addr
  <2>1. fill' \in Fills
    BY <1>3, FillSteps
  <2>2. /\ windows' \in IF unsorted THEN Sortings(windows) ELSE {windows}
        /\ unsorted' = FALSE /\ UNCHANGED <<next_id, position>>
    BY <1>3 DEF get_external_mmu_phys_addr
  <2>3. Good(windows', next_id) /\ Sorted(windows')
    BY <2>2, SortingsGood DEF EmmuInv
  <2> QED
    BY <2>1, <2>2, <2>3 DEF EmmuInv
<1>4. CASE UNCHANGED vars
  BY <1>4 DEF vars, table, EmmuInv
<1> QED
  BY <1>1, <1>2, <1>3, <1>4 DEF EmmuNext, FillStep

LEMMA EmmuInvariant == EmmuSpec => []EmmuInv
BY EmmuInitInv, EmmuNextInv, PTL DEF EmmuSpec

\* The variables keep their types, and the ids by which the host names its
\* windows stay distinct, whatever windows it acquires, sets and resets.
THEOREM EmmuTypeCorrect == EmmuSpec => []EmmuTypeOK
BY EmmuInvariant, InvTypes, PTL

\* The binary search and the walk of get_external_mmu_phys_addr find a window
\* of the right type whenever one covers the address, in an array of any
\* length, as long as no window that starts earlier ends later.
THEOREM LookupsFindWindows == EmmuSpec => []LookupFindsWindow
<1>1. EmmuInv => LookupFindsWindow
  BY DecidingFits DEF EmmuInv, Good, LookupFindsWindow
<1> QED
  BY <1>1, EmmuInvariant, PTL

\* Once a lookup has sorted the windows, and until the host acquires or moves one,
\* tlib_reset_mmu_windows_covering_address removes the windows that cover the
\* address and no others, under the same condition.  Nothing in it establishes
\* that: while the windows are unsorted it may remove others, or leave some.
THEOREM SortedResetsTakeCovering == EmmuSpec => [](~unsorted => ResetTakesCovering)
<1>1. EmmuInv => (~unsorted => ResetTakesCovering)
  BY RemovedRight DEF EmmuInv, Good, ResetTakesCovering
<1> QED
  BY <1>1, EmmuInvariant, PTL

\* Without the condition on their ends: an access is let through only if a window
\* covers the address and allows it, whatever the handler and the host did to the
\* windows before the lookup.
THEOREM GrantsCovered == EmmuSpec => GrantsAreCovered
<1>1. ASSUME EmmuInv, [EmmuNext]_vars, fill.stage = "lookup", fill' = Idle,
             fill.first_try \/ ~fill.quiet
      PROVE  \E i \in DOMAIN windows' :
               /\ Covers(windows'[i], fill.iaddr)
               /\ fill.kind \in windows'[i].type \cap windows'[i].priv
  <2>0. fill # Idle /\ fill.stage # "ask" /\ fill.stage # "report" /\ fill.stage # "idle"
    BY <1>1 DEF Idle
  <2>1. get_external_mmu_phys_addr
    <3>1. ~HostSets /\ ~tlb_fill /\ ~HandlerAnswers /\ ~HandlerReports /\ ~UNCHANGED vars
      BY <1>1, <2>0 DEF HostSets, HostMayAct, tlib_acquire_mmu_window, tlib_set_mmu_window_start,
         tlib_set_mmu_window_end, tlib_set_window_privileges, tlib_reset_mmu_window,
         tlib_reset_mmu_windows_covering_address, tlib_reset_all_mmu_windows,
         tlib_enable_external_window_mmu, tlb_fill, HandlerAnswers, HandlerReports, vars, table
    <3> QED
      BY <1>1, <3>1 DEF EmmuNext, FillStep
  <2>2. Good(windows', next_id) /\ Sorted(windows') /\ windows' \in Seq(Window)
    <3>1. windows' \in IF unsorted THEN Sortings(windows) ELSE {windows}
      BY <2>1 DEF get_external_mmu_phys_addr
    <3>2. Good(windows', next_id) /\ Sorted(windows')
      BY <1>1, <3>1, SortingsGood DEF EmmuInv
    <3> QED
      BY <3>2 DEF Good
  <2>3. fill.iaddr \in Page /\ fill.first_try \in BOOLEAN /\ fill.quiet \in BOOLEAN
    BY <1>1, <2>0 DEF EmmuInv, Fills
  <2> DEFINE i == Deciding(windows', fill.iaddr, fill.kind)
  <2>4. i # 0 /\ fill.kind \in windows'[i].priv
    <3>1. \A s : [fill EXCEPT !.stage = s].stage = s
      BY <1>1, <2>0 DEF EmmuInv, Fills
    <3>2. [fill EXCEPT !.stage = "ask"] # Idle /\ [fill EXCEPT !.stage = "report"] # Idle
      BY <3>1 DEF Idle
    <3> DEFINE granted == i # 0 /\ fill.kind \in windows'[i].priv
    <3>3. fill' = CASE granted -> Idle
                    [] ~granted /\ fill.first_try -> [fill EXCEPT !.stage = "ask"]
                    [] ~granted /\ ~fill.first_try /\ ~fill.quiet -> [fill EXCEPT !.stage = "report"]
                    [] OTHER -> Idle
      BY <2>1 DEF get_external_mmu_phys_addr
    <3>4. granted \in BOOLEAN
      OBVIOUS
    <3> HIDE DEF granted
    <3>5. granted
      BY <1>1, <2>3, <3>2, <3>3, <3>4
    <3> QED
      BY <3>5 DEF granted
  <2>5. i \in DOMAIN windows' /\ Covers(windows'[i], fill.iaddr) /\ fill.kind \in windows'[i].type
    BY <2>2, <2>3, <2>4, DecidingCovers
  <2> QED
    BY <2>4, <2>5
<1>2. EmmuInv /\ [EmmuNext]_vars =>
        (fill.stage = "lookup" /\ fill' = Idle /\ (fill.first_try \/ ~fill.quiet)
           => \E i \in DOMAIN windows' :
                 /\ Covers(windows'[i], fill.iaddr)
                 /\ fill.kind \in windows'[i].type \cap windows'[i].priv)
  BY <1>1
<1> QED
  BY <1>2, EmmuInvariant, PTL DEF EmmuSpec, GrantsAreCovered
=============================================================================
