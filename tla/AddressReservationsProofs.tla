---------------------- MODULE AddressReservationsProofs ---------------------
(***************************************************************************)
(* Proofs about the reservation table, for any number of CPUs and any set  *)
(* of addresses.                                                           *)
(***************************************************************************)
EXTENDS AddressReservations, FiniteSetTheorems, WellFoundedInduction, TLAPS

\* A table the operations may start from.
Sound(t) == t \in Tables /\ Consistent(t) /\ ~t.aborted

\* A CPU without a reservation finds a free slot: the slots in use belong to
\* different CPUs, so all of them in use would leave no CPU out.  This is
\* why make_reservation cannot abort with "No more address reservation slots".
LEMMA FreeSlot ==
    ASSUME NEW t, Sound(t), NEW c \in Cpus, t.reservations_by_cpu[c] = NO_RESERVATION
    PROVE  t.reservations_count < MAX_NUMBER_OF_CPUS
<1> SUFFICES ASSUME t.reservations_count = MAX_NUMBER_OF_CPUS PROVE FALSE
  BY MaxCpusAssumption DEF Sound, Tables
<1> DEFINE f == [i \in Slots |-> t.reservations[i].locking_cpu_id]
<1>1. \A i \in Slots : /\ t.reservations[i].locking_cpu_id \in Cpus
                       /\ t.reservations_by_cpu[t.reservations[i].locking_cpu_id] = i
  BY MaxCpusAssumption DEF Sound, Consistent, Slots
<1>2. f \in [Slots -> Cpus \ {c}]
  BY <1>1 DEF Slots, NO_RESERVATION
<1>3. \A i, j \in Slots : f[i] = f[j] => i = j
  BY <1>1
<1>4. f \in Injection(Slots, Cpus \ {c})
  BY <1>2, <1>3, Zenon DEF Injection, IsInjective
<1>5. IsFiniteSet(Cpus) /\ Cardinality(Cpus) = MAX_NUMBER_OF_CPUS
  <2>1. 0 \in Int /\ MAX_NUMBER_OF_CPUS - 1 \in Int /\ ~(0 > MAX_NUMBER_OF_CPUS - 1)
    BY MaxCpusAssumption
  <2>2. /\ IsFiniteSet(0 .. MAX_NUMBER_OF_CPUS - 1)
        /\ Cardinality(0 .. MAX_NUMBER_OF_CPUS - 1) = MAX_NUMBER_OF_CPUS - 1 - 0 + 1
    BY <2>1, FS_Interval
  <2> QED
    BY <2>2, MaxCpusAssumption DEF Cpus
<1>6. IsFiniteSet(Cpus \ {c}) /\ Cardinality(Cpus \ {c}) = MAX_NUMBER_OF_CPUS - 1
  BY <1>5, FS_RemoveElement
<1>7. Cardinality(Slots) <= Cardinality(Cpus \ {c})
  BY <1>4, <1>6, FS_Injection
<1>8. Cardinality(Slots) = MAX_NUMBER_OF_CPUS
  BY <1>5 DEF Slots, Cpus
<1> QED
  BY <1>6, <1>7, <1>8, MaxCpusAssumption

\* What freeing slot i does to the other slots and to the other CPUs: the
\* owner of i loses its reservation and every other CPU keeps its own, the
\* one in the last slot at its new place.
Freed(t, u, i) ==
    LET owner == t.reservations[i].locking_cpu_id
        last == t.reservations_count - 1
    IN /\ u.reservations_count = last
       /\ u.reservations_by_cpu[owner] = NO_RESERVATION
       /\ \A j \in Slots : j < last /\ j # i => u.reservations[j] = t.reservations[j]
       /\ i < last => u.reservations[i] = t.reservations[last]
       /\ \A d \in Cpus \ {owner} :
             u.reservations_by_cpu[d] = IF t.reservations_by_cpu[d] = last
                                        THEN i ELSE t.reservations_by_cpu[d]

\* Freeing a slot in use keeps the table sound: free_reservation's assertion
\* holds, and the swap of the last slot into the hole keeps the index right.
LEMMA FreeSound ==
    ASSUME NEW t, Sound(t), NEW i \in Slots, i < t.reservations_count,
           NEW isManual \in BOOLEAN, IsFreed(t, i, isManual)
    PROVE  /\ Sound(FreeReservation(t, i, isManual))
           /\ Freed(t, FreeReservation(t, i, isManual), i)
<1> DEFINE u == FreeReservation(t, i, isManual)
           last == t.reservations_count - 1
           owner == t.reservations[i].locking_cpu_id
           mover == t.reservations[last].locking_cpu_id
<1>1. /\ t.reservations_count \in 1 .. MAX_NUMBER_OF_CPUS
      /\ last \in Slots
      /\ t.reservations_by_cpu \in [Cpus -> Slots \cup {NO_RESERVATION}]
      /\ t.reservations \in [Slots -> Entries]
      /\ \A j \in Slots : t.reservations[j] \in Entries
  BY MaxCpusAssumption DEF Sound, Tables, Slots
<1>2. /\ owner \in Cpus /\ mover \in Cpus
      /\ t.reservations_by_cpu[owner] = i /\ t.reservations_by_cpu[mover] = last
      /\ t.reservations[i].active_flag = TRUE /\ t.reservations[last].active_flag = TRUE
  <2>1. last < t.reservations_count
    BY <1>1
  <2>2. t.reservations[i].active_flag \in BOOLEAN /\ t.reservations[last].active_flag \in BOOLEAN
    BY <1>1 DEF Entries
  <2> QED
    BY <1>1, <2>1, <2>2 DEF Sound, Consistent
<1> HIDE DEF last, owner, mover
<1>3. CASE i = last
  <2> DEFINE byCpu == [t.reservations_by_cpu EXCEPT ![owner] = NO_RESERVATION]
             slots == [t.reservations EXCEPT ![last].active_flag = FALSE]
  <2>1. u = [t EXCEPT !.reservations_by_cpu = byCpu, !.reservations = slots,
                      !.reservations_count = last]
    BY <1>1, <1>3 DEF FreeReservation, last, owner, Sound, Tables
  <2>2. byCpu \in [Cpus -> Slots \cup {NO_RESERVATION}] /\ slots \in [Slots -> Entries]
    BY <1>1, <1>2 DEF Entries
  <2>3. last \in 0 .. MAX_NUMBER_OF_CPUS
    BY <1>1, MaxCpusAssumption DEF Slots
  <2>4. \A j \in Slots : slots[j].active_flag <=> t.reservations[j].active_flag /\ j # last
    BY <1>1, <1>2 DEF Entries
  <2>5. \A j \in Slots : /\ slots[j].locking_cpu_id = t.reservations[j].locking_cpu_id
                         /\ j # last => slots[j] = t.reservations[j]
    BY <1>1 DEF Entries
  <2> HIDE DEF slots
  <2>6. /\ u.reservations_by_cpu = byCpu
        /\ u.reservations = slots
        /\ u.reservations_count = last
        /\ u.aborted = FALSE
        /\ u \in Tables
    BY <2>1, <2>2, <2>3 DEF Sound, Tables
  <2> HIDE DEF u
  <2>7. Freed(t, u, i)
    BY <1>1, <1>2, <1>3, <2>5, <2>6 DEF Freed, last, owner, Sound, Consistent, Slots, NO_RESERVATION
  <2>8. Consistent(u)
    <3>1. \A j \in Slots : u.reservations[j].active_flag <=> j < u.reservations_count
      BY <1>1, <2>4, <2>6 DEF Sound, Consistent, Slots, last
    <3>2. \A j \in Slots : j < u.reservations_count =>
            /\ u.reservations[j].locking_cpu_id \in Cpus
            /\ u.reservations_by_cpu[u.reservations[j].locking_cpu_id] = j
      BY <1>1, <1>2, <1>3, <2>5, <2>6 DEF Sound, Consistent, Slots, last
    <3>3. \A c \in Cpus : u.reservations_by_cpu[c] # NO_RESERVATION =>
            /\ u.reservations_by_cpu[c] < u.reservations_count
            /\ u.reservations[u.reservations_by_cpu[c]].locking_cpu_id = c
      BY <1>1, <1>2, <1>3, <2>5, <2>6 DEF Sound, Consistent, Slots, last, owner
    <3> QED
      BY <3>1, <3>2, <3>3 DEF Consistent
  <2> QED
    BY <2>6, <2>7, <2>8 DEF Sound, u
<1>4. CASE i # last
  <2> DEFINE byCpu == [[t.reservations_by_cpu EXCEPT ![owner] = NO_RESERVATION] EXCEPT ![mover] = i]
             filled == [t.reservations EXCEPT ![i] = t.reservations[last]]
             slots == [filled EXCEPT ![last].active_flag = FALSE]
  <2>1. [t.reservations[last] EXCEPT !.active_flag = t.reservations[i].active_flag] = t.reservations[last]
    BY <1>1, <1>2 DEF Entries
  <2>2. u = [t EXCEPT !.reservations_by_cpu = byCpu, !.reservations = slots,
                      !.reservations_count = last]
    BY <1>2, <1>4, <2>1 DEF FreeReservation, last, owner, mover
  <2>3. owner # mover /\ i < last
    BY <1>1, <1>2, <1>4 DEF last, Slots
  <2>4. byCpu \in [Cpus -> Slots \cup {NO_RESERVATION}] /\ slots \in [Slots -> Entries]
    <3>1. byCpu \in [Cpus -> Slots \cup {NO_RESERVATION}]
      BY <1>1, <1>2
    <3>2. filled \in [Slots -> Entries]
      BY <1>1
    <3> HIDE DEF filled
    <3>3. slots \in [Slots -> Entries]
      BY <1>1, <3>2 DEF Entries
    <3> QED
      BY <3>1, <3>3
  <2>5. last \in 0 .. MAX_NUMBER_OF_CPUS
    BY <1>1, MaxCpusAssumption DEF Slots
  <2>6. \A j \in Slots : slots[j].active_flag <=> t.reservations[j].active_flag /\ j # last
    BY <1>1, <1>2, <2>3 DEF Entries
  <2>7. \A j \in Slots \ {last} : slots[j] = IF j = i THEN t.reservations[last] ELSE t.reservations[j]
    BY <1>1, <2>3 DEF Entries
  <2> HIDE DEF slots
  <2>8. /\ u.reservations_by_cpu = byCpu
        /\ u.reservations = slots
        /\ u.reservations_count = last
        /\ u.aborted = FALSE
        /\ u \in Tables
    BY <2>2, <2>4, <2>5 DEF Sound, Tables
  <2> HIDE DEF u
  <2>9. Freed(t, u, i)
    <3>1. \A d \in Cpus \ {owner} : t.reservations_by_cpu[d] = last => d = mover
      BY <1>1 DEF Sound, Consistent, last, mover, Slots, NO_RESERVATION
    <3>2. \A d \in Cpus \ {owner} :
            u.reservations_by_cpu[d] = IF t.reservations_by_cpu[d] = last
                                       THEN i ELSE t.reservations_by_cpu[d]
      BY <1>1, <1>2, <2>3, <2>8, <3>1
    <3>3. /\ u.reservations_by_cpu[owner] = NO_RESERVATION
          /\ u.reservations_count = last
          /\ i < last => u.reservations[i] = t.reservations[last]
          /\ \A j \in Slots : j < last /\ j # i => u.reservations[j] = t.reservations[j]
      BY <1>1, <1>2, <2>3, <2>7, <2>8, MaxCpusAssumption DEF Slots
    <3> QED
      BY <3>2, <3>3 DEF Freed, owner, last
  <2>10. Consistent(u)
    <3>1. \A j \in Slots : u.reservations[j].active_flag <=> j < u.reservations_count
      BY <1>1, <2>6, <2>8 DEF Sound, Consistent, Slots, last
    <3>2. \A j \in Slots : j < u.reservations_count =>
            /\ u.reservations[j].locking_cpu_id \in Cpus
            /\ u.reservations_by_cpu[u.reservations[j].locking_cpu_id] = j
      BY <1>1, <1>2, <2>3, <2>7, <2>8 DEF Sound, Consistent, Slots, last, owner, mover
    <3>3. \A c \in Cpus : u.reservations_by_cpu[c] # NO_RESERVATION =>
            /\ u.reservations_by_cpu[c] < u.reservations_count
            /\ u.reservations[u.reservations_by_cpu[c]].locking_cpu_id = c
      BY <1>1, <1>2, <2>3, <2>7, <2>8 DEF Sound, Consistent, Slots, last, owner, mover
    <3> QED
      BY <3>1, <3>2, <3>3 DEF Consistent
  <2> QED
    BY <2>8, <2>9, <2>10 DEF Sound, u
<1> QED
  BY <1>3, <1>4

\* A CPU without a reservation gets one, in the first unused slot, and
\* nothing else changes.
Made(t, u, c, a, manual) ==
    LET n == t.reservations_count
    IN /\ u.reservations_count = n + 1
       /\ n \in Slots
       /\ u.reservations = [t.reservations EXCEPT
                             ![n] = [locking_cpu_id |-> c, address |-> a,
                                     active_flag |-> TRUE, manual_free |-> manual]]
       /\ u.reservations_by_cpu = [t.reservations_by_cpu EXCEPT ![c] = n]

LEMMA MakeSound ==
    ASSUME NEW t, Sound(t), NEW c \in Cpus, t.reservations_by_cpu[c] = NO_RESERVATION,
           NEW a \in Addresses, NEW manual \in BOOLEAN
    PROVE  /\ Sound(MakeReservation(t, c, a, manual))
           /\ Made(t, MakeReservation(t, c, a, manual), c, a, manual)
<1> DEFINE u == MakeReservation(t, c, a, manual)
           n == t.reservations_count
           entry == [locking_cpu_id |-> c, address |-> a,
                     active_flag |-> TRUE, manual_free |-> manual]
           slots == [t.reservations EXCEPT ![n] = entry]
           byCpu == [t.reservations_by_cpu EXCEPT ![c] = n]
<1>1. n < MAX_NUMBER_OF_CPUS
  BY FreeSlot
<1>2. /\ n \in Slots /\ n + 1 \in 0 .. MAX_NUMBER_OF_CPUS
      /\ t.reservations_by_cpu \in [Cpus -> Slots \cup {NO_RESERVATION}]
      /\ t.reservations \in [Slots -> Entries]
  BY <1>1, MaxCpusAssumption DEF Sound, Tables, Slots
<1>3. u = [t EXCEPT !.reservations = slots, !.reservations_by_cpu = byCpu,
                    !.reservations_count = n + 1]
  BY <1>1, <1>2 DEF MakeReservation, Sound, Tables
<1>4. slots \in [Slots -> Entries] /\ byCpu \in [Cpus -> Slots \cup {NO_RESERVATION}]
  BY <1>2 DEF Entries
<1>5. /\ u.reservations_by_cpu = byCpu
      /\ u.reservations = slots
      /\ u.reservations_count = n + 1
      /\ u.aborted = FALSE
      /\ u \in Tables
  BY <1>2, <1>3, <1>4 DEF Sound, Tables
<1>6. Consistent(u)
  <2> HIDE DEF u
  <2>0. /\ slots[n] = entry /\ byCpu[c] = n
        /\ \A j \in Slots \ {n} : slots[j] = t.reservations[j]
        /\ \A d \in Cpus \ {c} : byCpu[d] = t.reservations_by_cpu[d]
    BY <1>2
  <2> HIDE DEF slots, byCpu
  <2>1. \A j \in Slots : u.reservations[j].active_flag <=> j < u.reservations_count
    BY <1>2, <1>5, <2>0 DEF Sound, Consistent, Slots
  <2>2. \A j \in Slots : j < u.reservations_count =>
          /\ u.reservations[j].locking_cpu_id \in Cpus
          /\ u.reservations_by_cpu[u.reservations[j].locking_cpu_id] = j
    BY <1>2, <1>5, <2>0 DEF Sound, Consistent, Slots, NO_RESERVATION
  <2>3. \A d \in Cpus : u.reservations_by_cpu[d] # NO_RESERVATION =>
          /\ u.reservations_by_cpu[d] < u.reservations_count
          /\ u.reservations[u.reservations_by_cpu[d]].locking_cpu_id = d
    BY <1>2, <1>5, <2>0 DEF Sound, Consistent, Slots, NO_RESERVATION
  <2> QED
    BY <2>1, <2>2, <2>3 DEF Consistent
<1>7. Made(t, u, c, a, manual)
  BY <1>2, <1>5 DEF Made
<1> QED
  BY <1>5, <1>6, <1>7 DEF Sound, u

\* A CPU's slot, if it has one, is in use and its own.
LEMMA OwnSlot ==
    ASSUME NEW t, Sound(t), NEW c \in Cpus, FindReservationByCpu(t, c) # NO_RESERVATION
    PROVE  LET i == FindReservationByCpu(t, c)
           IN /\ i \in Slots /\ i < t.reservations_count
              /\ t.reservations[i].locking_cpu_id = c
              /\ IsFreed(t, i, TRUE)
BY DEF Sound, Tables, Consistent, FindReservationByCpu, IsFreed

LEMMA ReserveSound ==
    ASSUME NEW t, Sound(t), NEW c \in Cpus, NEW a \in Addresses, NEW manual \in BOOLEAN
    PROVE  Sound(ReserveAddress(t, c, a, manual))
<1> DEFINE i == FindReservationByCpu(t, c)
           v == FreeReservation(t, i, TRUE)
<1>1. CASE i = NO_RESERVATION
  BY <1>1, MakeSound DEF ReserveAddress, FindReservationByCpu
<1>2. CASE i # NO_RESERVATION /\ t.reservations[i].address = a
  BY <1>2 DEF ReserveAddress
<1>3. CASE i # NO_RESERVATION /\ t.reservations[i].address # a
  <2>1. Sound(v) /\ Freed(t, v, i) /\ t.reservations[i].locking_cpu_id = c
    BY <1>3, OwnSlot, FreeSound
  <2>2. v.reservations_by_cpu[c] = NO_RESERVATION
    BY <2>1 DEF Freed
  <2>3. ReserveAddress(t, c, a, manual) = MakeReservation(v, c, a, manual)
    BY <1>3 DEF ReserveAddress
  <2> HIDE DEF v, i
  <2>4. Sound(MakeReservation(v, c, a, manual))
    BY <2>1, <2>2, MakeSound
  <2> QED
    BY <2>3, <2>4
<1> QED
  BY <1>1, <1>2, <1>3

LEMMA CancelSound ==
    ASSUME NEW t, Sound(t), NEW c \in Cpus
    PROVE  Sound(CancelReservation(t, c))
BY OwnSlot, FreeSound DEF CancelReservation

\* The slot find_reservation_on_address returns: the lowest that matches.
LEMMA FoundSlot ==
    ASSUME NEW t, t \in Tables, NEW a, NEW from \in Nat, OnAddress(t, a, from) # {}
    PROVE  LET i == FindReservationOnAddress(t, a, from)
           IN /\ i \in Slots /\ from <= i /\ i < t.reservations_count
              /\ t.reservations[i].address = a
              /\ \A j \in Slots : from <= j /\ j < i => t.reservations[j].address # a
<1> DEFINE S == OnAddress(t, a, from)
           i == FindReservationOnAddress(t, a, from)
<1>1. S \subseteq Nat /\ S # {}
  BY DEF OnAddress, Tables
<1>2. \E k \in S : \A j \in S : k <= j
  <2> DEFINE R == OpToRel(<, Nat)
  <2>1. \A j, k \in Nat : j < k => <<j, k>> \in R
    BY DEF OpToRel
  <2> HIDE DEF R, S
  <2>2. IsWellFoundedOn(R, Nat)
    BY NatLessThanWellFounded DEF R
  <2>3. PICK k \in S : \A j \in S : ~ (<<j, k>> \in R)
    BY <1>1, <2>2, WFMin, Zenon
  <2>4. ASSUME NEW j \in S PROVE k <= j
    <3>1. j \in Nat /\ k \in Nat
      BY <1>1
    <3>2. ~(j < k)
      BY <2>1, <2>3, <3>1
    <3> QED
      BY <3>1, <3>2
  <2> QED
    BY <2>4
<1>3. i \in S /\ \A j \in S : i <= j
  BY <1>2, Zenon DEF FindReservationOnAddress
<1>4. \A j \in Slots : from <= j /\ j < i => j \notin S
  BY <1>1, <1>3 DEF Slots
<1>5. i \in Slots /\ from <= i /\ i < t.reservations_count /\ t.reservations[i].address = a
  BY <1>3, MaxCpusAssumption DEF OnAddress, Tables, Slots
<1>6. \A j \in Slots : from <= j /\ j < i => t.reservations[j].address # a
  BY <1>4, <1>5, MaxCpusAssumption DEF OnAddress, Tables, Slots
<1> QED
  BY <1>5, <1>6

-----------------------------------------------------------------------------
(***************************************************************************)
(* The inductive invariant.  IndexConsistent makes the walk's frees        *)
(* harmless, OneWalk says that nobody else moves slots under a walk, and   *)
(* WalkMissesNothing is what the walk has already established.             *)
(***************************************************************************)
ResInv == ResTypeOK /\ IndexConsistent /\ NeverAborts /\ OneWalk /\ WalkMissesNothing

LEMMA ResInitInv == ResInit => ResInv
<1> SUFFICES ASSUME ResInit PROVE ResInv
  OBVIOUS
<1>1. PICK a \in Addresses : table = EmptyTable(a)
  BY DEF ResInit
<1>2. table \in Tables
  BY <1>1, MaxCpusAssumption DEF EmptyTable, Tables, Entries, Slots
<1>3. walk = [c \in Cpus |-> None]
  BY DEF ResInit
<1>4. Consistent(table) /\ ~table.aborted
  BY <1>1, MaxCpusAssumption DEF EmptyTable, Consistent, Slots
<1> QED
  BY <1>2, <1>3, <1>4 DEF ResInv, ResTypeOK, IndexConsistent, NeverAborts, OneWalk, WalkMissesNothing

\* With no walk under way, an operation that leaves a sound table and the
\* walks alone keeps the invariant.
LEMMA QuietStep ==
    ASSUME ResInv, Quiet, Sound(table'), UNCHANGED walk
    PROVE  ResInv'
BY DEF ResInv, Quiet, Sound, ResTypeOK, IndexConsistent, NeverAborts, OneWalk, WalkMissesNothing

LEMMA AccessStepInv ==
    ASSUME ResInv, NEW c \in Cpus, AccessStep(c)
    PROVE  ResInv'
<1> DEFINE a == walk[c].address
           from == walk[c].position
           i == FindReservationOnAddress(table, a, from)
           owner == table.reservations[i].locking_cpu_id
<1>1. Sound(table) /\ walk[c] \in Walks /\ a \in Addresses /\ from \in Nat
  BY MaxCpusAssumption DEF ResInv, ResTypeOK, IndexConsistent, NeverAborts, Sound, AccessStep, Walks
<1>2. \A d \in Cpus \ {c} : walk[d] = None
  BY DEF ResInv, OneWalk, AccessStep
<1>3. /\ i \in Slots /\ from <= i /\ i < table.reservations_count
      /\ table.reservations[i].address = a
      /\ \A j \in Slots : from <= j /\ j < i => table.reservations[j].address # a
  BY <1>1, FoundSlot DEF AccessStep, Sound
<1>4. /\ table' = AccessTable(table, c, i)
      /\ walk' = [walk EXCEPT ![c].position = NextPosition(table, c, i)]
  BY DEF AccessStep
<1>5. \A j \in Slots : /\ j < from /\ j < table.reservations_count
                       /\ table.reservations[j].address = a
                       => \/ table.reservations[j].locking_cpu_id = c
                          \/ table.reservations[j].manual_free
  BY DEF ResInv, WalkMissesNothing, AccessStep
<1> HIDE DEF a, from, i
<1>6. /\ Sound(table')
      /\ NextPosition(table, c, i) \in 0 .. MAX_NUMBER_OF_CPUS
      /\ \A j \in Slots : /\ j < NextPosition(table, c, i) /\ j < table'.reservations_count
                           /\ table'.reservations[j].address = a
                           => \/ table'.reservations[j].locking_cpu_id = c
                              \/ table'.reservations[j].manual_free
  <2>1. CASE owner # c /\ IsFreed(table, i, FALSE)
    <3>1. table' = FreeReservation(table, i, FALSE) /\ NextPosition(table, c, i) = i
      BY <1>4, <2>1 DEF AccessTable, NextPosition
    <3>2. Sound(table') /\ Freed(table, table', i)
      BY <1>1, <1>3, <2>1, <3>1, FreeSound
    <3>3. \A j \in Slots : j < i => /\ j < table.reservations_count
                                    /\ j < table'.reservations_count =>
                                          table'.reservations[j] = table.reservations[j]
      BY <1>1, <1>3, <3>2 DEF Freed, Slots, Sound, Tables
    <3>4. \A j \in Slots : j < i => j < from \/ from <= j
      BY <1>1 DEF Slots
    <3>5. i \in 0 .. MAX_NUMBER_OF_CPUS
      BY <1>3, MaxCpusAssumption DEF Slots
    <3> QED
      BY <1>3, <1>5, <3>1, <3>2, <3>3, <3>4, <3>5
  <2>2. CASE ~(owner # c /\ IsFreed(table, i, FALSE))
    <3>1. table' = table /\ NextPosition(table, c, i) = i + 1
      BY <1>4, <2>2 DEF AccessTable, NextPosition, FreeReservation
    <3>2. owner = c \/ table.reservations[i].manual_free
      BY <2>2 DEF IsFreed
    <3>3. i + 1 \in 0 .. MAX_NUMBER_OF_CPUS
      BY <1>3, MaxCpusAssumption DEF Slots
    <3>4. \A j \in Slots : j < i + 1 => j = i \/ j < from \/ (from <= j /\ j < i)
      BY <1>1, <1>3 DEF Slots
    <3> QED
      BY <1>1, <1>3, <1>5, <3>1, <3>2, <3>3, <3>4
  <2> QED
    BY <2>1, <2>2
<1>7. /\ walk' \in [Cpus -> Walks \cup {None}]
      /\ walk'[c] # None /\ walk'[c].address = a
      /\ walk'[c].position = NextPosition(table, c, i)
      /\ \A d \in Cpus \ {c} : walk'[d] = None
  BY <1>1, <1>2, <1>4, <1>6, NoneAssumption DEF ResInv, ResTypeOK, Walks, a
<1> QED
  BY <1>6, <1>7 DEF ResInv, Sound, ResTypeOK, IndexConsistent, NeverAborts, OneWalk, WalkMissesNothing

LEMMA ResNextInv == ResInv /\ [ResNext]_rvars => ResInv'
<1> SUFFICES ASSUME ResInv, [ResNext]_rvars PROVE ResInv'
  OBVIOUS
<1>0. Sound(table)
  BY DEF ResInv, ResTypeOK, IndexConsistent, NeverAborts, Sound
<1>1. ASSUME NEW c \in Cpus, Cancel(c) PROVE ResInv'
  BY <1>0, <1>1, CancelSound, QuietStep DEF Cancel
<1>2. ASSUME NEW c \in Cpus, AccessStep(c) PROVE ResInv'
  BY <1>2, AccessStepInv
<1>3. ASSUME NEW c \in Cpus, AccessDone(c) PROVE ResInv'
  BY <1>3 DEF AccessDone, ResInv, ResTypeOK, IndexConsistent, NeverAborts, OneWalk, WalkMissesNothing
<1>4. ASSUME NEW c \in Cpus, NEW a \in Addresses, RegisterAddressAccess(c, a) PROVE ResInv'
  <2>1. walk' = [walk EXCEPT ![c] = [address |-> a, position |-> 0]] /\ UNCHANGED table
    BY <1>4 DEF RegisterAddressAccess, BeginAccess
  <2>2. [address |-> a, position |-> 0] \in Walks
    BY MaxCpusAssumption DEF Walks
  <2> QED
    BY <1>4, <2>1, <2>2 DEF RegisterAddressAccess, Quiet, Slots, ResInv, ResTypeOK,
                  IndexConsistent, NeverAborts, OneWalk, WalkMissesNothing
<1>5. ASSUME NEW c \in Cpus, NEW a \in Addresses, NEW manual \in BOOLEAN, Reserve(c, a, manual)
      PROVE ResInv'
  BY <1>0, <1>5, ReserveSound, QuietStep DEF Reserve
<1>6. CASE UNCHANGED rvars
  BY <1>6 DEF rvars, ResInv, ResTypeOK, IndexConsistent, NeverAborts, OneWalk, WalkMissesNothing
<1> QED
  BY <1>1, <1>2, <1>3, <1>4, <1>5, <1>6 DEF ResNext

LEMMA ResInvariant == ResSpec => []ResInv
BY ResInitInv, ResNextInv, PTL DEF ResSpec

\* Every field of the table and every walk keeps its type.
THEOREM TypeCorrect == ResSpec => []ResTypeOK
BY ResInvariant, PTL DEF ResInv

\* The array and the index stay inverse to each other whatever reservations,
\* cancellations and accesses the CPUs perform (free_reservation's swap).
THEOREM IndexAlwaysConsistent == ResSpec => []IndexConsistent
BY ResInvariant, PTL DEF ResInv

\* make_reservation never runs out of slots and free_reservation's assertion
\* never fails.
THEOREM NoAbort == ResSpec => []NeverAborts
BY ResInvariant, PTL DEF ResInv

\* register_address_access never leaves a reservation behind that it should
\* have taken away.
THEOREM NothingMissed == ResSpec => []WalkMissesNothing
BY ResInvariant, PTL DEF ResInv

-----------------------------------------------------------------------------
(* What a walk has done when it ends, and the refinement of the monitor. *)

\* The walk has seen every slot in use once no match is left ahead of it.
LEMMA WalkComplete ==
    ASSUME ResInv, NEW c \in Cpus, walk[c] # None,
           OnAddress(table, walk[c].address, walk[c].position) = {},
           NEW d \in Cpus \ {c}, HasReservation(table, d, walk[c].address)
    PROVE  table.reservations[table.reservations_by_cpu[d]].manual_free
<1> DEFINE i == table.reservations_by_cpu[d]
<1>1. Sound(table) /\ walk[c] \in Walks
  BY DEF ResInv, ResTypeOK, IndexConsistent, NeverAborts, Sound
<1>2. i \in Slots /\ i < table.reservations_count /\ table.reservations[i].locking_cpu_id = d
  BY <1>1, OwnSlot DEF HasReservation, FindReservationByCpu
<1>3. table.reservations[i].address = walk[c].address
  BY DEF HasReservation, FindReservationByCpu
<1>4. i < walk[c].position
  BY <1>1, <1>2, <1>3, MaxCpusAssumption DEF OnAddress, Walks, Sound, Tables, Slots
<1> QED
  BY <1>2, <1>3, <1>4 DEF ResInv, WalkMissesNothing

\* register_address_access returns only when no other CPU holds a
\* reservation on the address that an access may take away.
THEOREM AccessClears == ResSpec => AccessClearsOthers
<1>1. ResInv /\ [ResNext]_rvars =>
        [\A c \in Cpus : AccessDone(c) =>
          \A d \in Cpus \ {c} :
             HasReservation(table', d, walk[c].address) =>
                table'.reservations[table'.reservations_by_cpu[d]].manual_free]_rvars
  BY WalkComplete DEF AccessDone
<1> QED
  BY <1>1, ResInvariant, PTL DEF ResSpec, AccessClearsOthers

\* The reservation of d as the abstract monitor sees it, walks apart.
View(t, d) ==
    IF t.reservations_by_cpu[d] = NO_RESERVATION THEN None
    ELSE [address |-> t.reservations[t.reservations_by_cpu[d]].address,
          manual_free |-> t.reservations[t.reservations_by_cpu[d]].manual_free]

LEMMA FreedView ==
    ASSUME NEW t, Sound(t), NEW i \in Slots, i < t.reservations_count,
           NEW u, Sound(u), Freed(t, u, i)
    PROVE  /\ View(u, t.reservations[i].locking_cpu_id) = None
           /\ \A d \in Cpus \ {t.reservations[i].locking_cpu_id} :
                 /\ u.reservations_by_cpu[d] = NO_RESERVATION <=>
                       t.reservations_by_cpu[d] = NO_RESERVATION
                 /\ t.reservations_by_cpu[d] # NO_RESERVATION =>
                       u.reservations[u.reservations_by_cpu[d]] =
                         t.reservations[t.reservations_by_cpu[d]]
                 /\ View(u, d) = View(t, d)
<1> DEFINE owner == t.reservations[i].locking_cpu_id
<1>1. View(u, owner) = None
  BY DEF View, Freed
<1>2. ASSUME NEW d \in Cpus \ {owner}
      PROVE  /\ u.reservations_by_cpu[d] = NO_RESERVATION <=>
                   t.reservations_by_cpu[d] = NO_RESERVATION
             /\ t.reservations_by_cpu[d] # NO_RESERVATION =>
                   u.reservations[u.reservations_by_cpu[d]] =
                     t.reservations[t.reservations_by_cpu[d]]
  <2>1. CASE t.reservations_by_cpu[d] = NO_RESERVATION
    BY <1>2, <2>1 DEF Freed, Sound, Tables, Slots, NO_RESERVATION
  <2>2. CASE t.reservations_by_cpu[d] # NO_RESERVATION
    <3> DEFINE k == t.reservations_by_cpu[d]
    <3>1. k \in Slots /\ k < t.reservations_count /\ t.reservations[k].locking_cpu_id = d
      BY <2>2, OwnSlot DEF FindReservationByCpu
    <3>2. k # i /\ t.reservations_count \in Int
      BY <1>2, <3>1 DEF Sound, Tables
    <3>3. u.reservations_by_cpu[d] = IF k = t.reservations_count - 1 THEN i ELSE k
      BY <1>2 DEF Freed
    <3>4. CASE k = t.reservations_count - 1
      <4>1. i < t.reservations_count - 1
        BY <3>1, <3>2, <3>4 DEF Slots
      <4> QED
        BY <2>2, <3>3, <3>4, <4>1 DEF Freed, Slots, NO_RESERVATION
    <3>5. CASE k # t.reservations_count - 1
      <4>1. k < t.reservations_count - 1
        BY <3>1, <3>2, <3>5 DEF Slots
      <4> QED
        BY <2>2, <3>1, <3>2, <3>3, <3>5, <4>1 DEF Freed
    <3> QED
      BY <3>4, <3>5
  <2> QED
    BY <2>1, <2>2
<1>3. \A d \in Cpus \ {owner} : View(u, d) = View(t, d)
  BY <1>2 DEF View
<1> QED
  BY <1>1, <1>2, <1>3

LEMMA MadeView ==
    ASSUME NEW t, Sound(t), NEW c \in Cpus, t.reservations_by_cpu[c] = NO_RESERVATION,
           NEW u, NEW a, NEW manual, Made(t, u, c, a, manual)
    PROVE  /\ View(u, c) = [address |-> a, manual_free |-> manual]
           /\ \A d \in Cpus \ {c} : View(u, d) = View(t, d)
<1>1. /\ t.reservations_by_cpu \in [Cpus -> Slots \cup {NO_RESERVATION}]
      /\ t.reservations \in [Slots -> Entries]
      /\ t.reservations_count \in Slots
  BY DEF Sound, Tables, Made
<1>2. View(u, c) = [address |-> a, manual_free |-> manual]
  <2>1. u.reservations_by_cpu[c] = t.reservations_count
    BY <1>1 DEF Made
  <2>2. t.reservations_count # NO_RESERVATION
    BY <1>1 DEF Slots, NO_RESERVATION
  <2>3. u.reservations[t.reservations_count] =
          [locking_cpu_id |-> c, address |-> a, active_flag |-> TRUE, manual_free |-> manual]
    BY <1>1 DEF Made
  <2> QED
    BY <2>1, <2>2, <2>3 DEF View
<1>3. ASSUME NEW d \in Cpus \ {c} PROVE View(u, d) = View(t, d)
  <2>1. u.reservations_by_cpu[d] = t.reservations_by_cpu[d]
    BY <1>1, <1>3 DEF Made
  <2>2. t.reservations_by_cpu[d] # NO_RESERVATION =>
           /\ t.reservations_by_cpu[d] \in Slots
           /\ t.reservations_by_cpu[d] # t.reservations_count
    <3> SUFFICES ASSUME t.reservations_by_cpu[d] # NO_RESERVATION
                 PROVE  /\ t.reservations_by_cpu[d] \in Slots
                        /\ t.reservations_by_cpu[d] # t.reservations_count
      OBVIOUS
    <3>1. t.reservations_by_cpu[d] \in Slots /\ t.reservations_by_cpu[d] < t.reservations_count
      BY <1>3, OwnSlot DEF FindReservationByCpu
    <3> QED
      BY <1>1, <3>1 DEF Slots
  <2> QED
    BY <1>1, <2>1, <2>2 DEF View, Made
<1> QED
  BY <1>2, <1>3

\* reserve_address gives c the reservation and leaves the other CPUs theirs.
LEMMA ReserveView ==
    ASSUME NEW t, Sound(t), NEW c \in Cpus, NEW a \in Addresses, NEW manual \in BOOLEAN,
           ~HasReservation(t, c, a)
    PROVE  LET u == ReserveAddress(t, c, a, manual)
           IN /\ View(u, c) = [address |-> a, manual_free |-> manual]
              /\ \A d \in Cpus \ {c} : View(u, d) = View(t, d)
<1> DEFINE i == FindReservationByCpu(t, c)
           v == FreeReservation(t, i, TRUE)
<1>1. CASE i = NO_RESERVATION
  <2>1. ReserveAddress(t, c, a, manual) = MakeReservation(t, c, a, manual)
    BY <1>1 DEF ReserveAddress
  <2> QED
    BY <1>1, <2>1, MakeSound, MadeView DEF FindReservationByCpu
<1>2. CASE i # NO_RESERVATION
  <2>1. t.reservations[i].address # a
    BY <1>2 DEF HasReservation
  <2>2. ReserveAddress(t, c, a, manual) = MakeReservation(v, c, a, manual)
    BY <1>2, <2>1 DEF ReserveAddress
  <2>3. /\ i \in Slots /\ i < t.reservations_count /\ t.reservations[i].locking_cpu_id = c
        /\ IsFreed(t, i, TRUE)
    BY <1>2, OwnSlot
  <2>4. Sound(v) /\ Freed(t, v, i)
    BY <2>3, FreeSound
  <2>5. v.reservations_by_cpu[c] = NO_RESERVATION
    BY <2>3, <2>4 DEF Freed
  <2> HIDE DEF v, i
  <2>6. \A d \in Cpus \ {c} : View(v, d) = View(t, d)
    BY <2>3, <2>4, FreedView
  <2>7. Made(v, MakeReservation(v, c, a, manual), c, a, manual)
    BY <2>4, <2>5, MakeSound
  <2> HIDE DEF v, i
  <2> QED
    BY <2>2, <2>4, <2>5, <2>6, <2>7, MadeView
<1> QED
  BY <1>1, <1>2

LEMMA CancelView ==
    ASSUME NEW t, Sound(t), NEW c \in Cpus
    PROVE  /\ View(CancelReservation(t, c), c) = None
           /\ \A d \in Cpus \ {c} : View(CancelReservation(t, c), d) = View(t, d)
<1> DEFINE i == FindReservationByCpu(t, c)
<1>1. CASE i = NO_RESERVATION
  BY <1>1 DEF CancelReservation, View, FindReservationByCpu
<1>2. CASE i # NO_RESERVATION
  <2>1. /\ i \in Slots /\ i < t.reservations_count /\ t.reservations[i].locking_cpu_id = c
        /\ IsFreed(t, i, TRUE)
    BY <1>2, OwnSlot
  <2>2. CancelReservation(t, c) = FreeReservation(t, i, TRUE)
    BY <1>2 DEF CancelReservation
  <2> DEFINE u == FreeReservation(t, i, TRUE)
  <2>3. Sound(u) /\ Freed(t, u, i)
    BY <2>1, FreeSound
  <2> HIDE DEF u, i
  <2>4. View(u, c) = None /\ \A d \in Cpus \ {c} : View(u, d) = View(t, d)
    BY <2>1, <2>3, FreedView
  <2> QED
    BY <2>2, <2>4 DEF u
<1> QED
  BY <1>1, <1>2

\* Which reservations a walk dooms depends on their views only.
LEMMA DoomedView ==
    ASSUME NEW d \in Cpus
    PROVE  /\ Doomed(d) <=>
                \E c \in Cpus \ {d} : /\ walk[c] # None
                                      /\ table.reservations_by_cpu[d] # NO_RESERVATION
                                      /\ View(table, d).address = walk[c].address
                                      /\ ~View(table, d).manual_free
           /\ MonitorOf(d) = IF Doomed(d) THEN None ELSE View(table, d)
BY DEF Doomed, View, MonitorOf, HasReservation, FindReservationByCpu

\* The abstract state.
Mon == [d \in Cpus |-> MonitorOf(d)]

\* Without a walk the abstract state is the table itself.
LEMMA QuietView ==
    ASSUME Quiet, NEW d \in Cpus
    PROVE  MonitorOf(d) = View(table, d)
BY DoomedView DEF Quiet, Doomed

\* A record of the table is never None.
LEMMA ViewNotNone ==
    ASSUME Sound(table), NEW d \in Cpus
    PROVE  View(table, d) = None <=> table.reservations_by_cpu[d] = NO_RESERVATION
<1>1. CASE table.reservations_by_cpu[d] = NO_RESERVATION
  BY <1>1 DEF View
<1>2. CASE table.reservations_by_cpu[d] # NO_RESERVATION
  <2>1. table.reservations[table.reservations_by_cpu[d]] \in Entries
    BY <1>2 DEF Sound, Tables
  <2>2. View(table, d) \in [address : Addresses, manual_free : BOOLEAN]
    BY <1>2, <2>1 DEF View, Entries
  <2> QED
    BY <1>2, <2>2, NoneAssumption
<1> QED
  BY <1>1, <1>2

LEMMA MonitorInitStep == ResInit => Monitor!MonitorInit
<1> SUFFICES ASSUME ResInit PROVE Mon = [c \in Cpus |-> None]
  BY DEF Monitor!MonitorInit, Mon
<1>1. \A c \in Cpus : table.reservations_by_cpu[c] = NO_RESERVATION
  BY DEF ResInit, EmptyTable
<1> QED
  BY <1>1 DEF Mon, MonitorOf

LEMMA ReserveRefines ==
    ASSUME ResInv, NEW c \in Cpus, NEW a \in Addresses, NEW manual \in BOOLEAN,
           Reserve(c, a, manual)
    PROVE  Monitor!MonitorReserve(c, a, manual) \/ UNCHANGED Mon
<1>1. Sound(table) /\ Quiet /\ Quiet'
  BY DEF ResInv, ResTypeOK, IndexConsistent, NeverAborts, Sound, Reserve, Quiet
<1>2. \A d \in Cpus : MonitorOf(d) = View(table, d)
  BY <1>1, QuietView
<1>3. \A d \in Cpus : MonitorOf(d)' = View(table', d)
  BY <1>1, QuietView DEF Quiet, MonitorOf, Doomed, View
<1>4. CASE HasReservation(table, c, a)
  <2>1. table' = table
    BY <1>4 DEF Reserve, ReserveAddress, HasReservation, FindReservationByCpu
  <2> QED
    BY <1>2, <1>3, <2>1 DEF Mon
<1>5. CASE ~HasReservation(table, c, a)
  <2>1. /\ View(table', c) = [address |-> a, manual_free |-> manual]
        /\ \A d \in Cpus \ {c} : View(table', d) = View(table, d)
    BY <1>1, <1>5, ReserveView DEF Reserve
  <2>2. View(table, c) = None \/ View(table, c).address # a
    BY <1>5 DEF View, HasReservation, FindReservationByCpu
  <2>3. Mon' = [Mon EXCEPT ![c] = [address |-> a, manual_free |-> manual]]
    BY <1>2, <1>3, <2>1 DEF Mon
  <2> QED
    BY <1>2, <2>2, <2>3 DEF Monitor!MonitorReserve, Mon
<1> QED
  BY <1>4, <1>5

LEMMA CancelRefines ==
    ASSUME ResInv, NEW c \in Cpus, Cancel(c)
    PROVE  Monitor!MonitorCancel(c)
<1>1. Sound(table) /\ Quiet
  BY DEF ResInv, ResTypeOK, IndexConsistent, NeverAborts, Sound, Cancel
<1>2. \A d \in Cpus : MonitorOf(d) = View(table, d)
  BY <1>1, QuietView
<1>3. \A d \in Cpus : MonitorOf(d)' = View(table', d)
  BY <1>1 DEF Cancel, Quiet, MonitorOf, Doomed, View
<1>4. View(table', c) = None /\ \A d \in Cpus \ {c} : View(table', d) = View(table, d)
  BY <1>1, CancelView DEF Cancel
<1>5. Mon' = [Mon EXCEPT ![c] = None]
  BY <1>2, <1>3, <1>4 DEF Mon
<1> QED
  BY <1>5 DEF Monitor!MonitorCancel, Mon

\* The abstract access happens when the walk begins.
LEMMA AccessRefines ==
    ASSUME ResInv, NEW c \in Cpus, NEW a \in Addresses, RegisterAddressAccess(c, a)
    PROVE  Monitor!MonitorAccess(c, a)
<1>1. Sound(table) /\ Quiet /\ table' = table
  BY DEF ResInv, ResTypeOK, IndexConsistent, NeverAborts, Sound, RegisterAddressAccess, BeginAccess
<1>2. \A d \in Cpus : MonitorOf(d) = View(table, d)
  BY <1>1, QuietView
<1>3. /\ walk'[c] # None /\ walk'[c].address = a
      /\ \A d \in Cpus \ {c} : walk'[d] = None
  <2>1. walk' = [walk EXCEPT ![c] = [address |-> a, position |-> 0]]
    BY DEF RegisterAddressAccess, BeginAccess
  <2>2. [address |-> a, position |-> 0] \in Walks
    BY MaxCpusAssumption DEF Walks
  <2> QED
    BY <1>1, <2>1, <2>2, NoneAssumption DEF Quiet, ResInv, ResTypeOK
<1>4. ASSUME NEW d \in Cpus
      PROVE  MonitorOf(d)' = IF /\ d # c /\ View(table, d) # None
                                /\ View(table, d).address = a
                                /\ ~View(table, d).manual_free
                             THEN None ELSE View(table, d)
  <2>1. Doomed(d)' <=> /\ d # c /\ HasReservation(table, d, a)
                       /\ ~table.reservations[table.reservations_by_cpu[d]].manual_free
    BY <1>1, <1>3 DEF Doomed
  <2>2. MonitorOf(d)' = IF Doomed(d)' THEN None ELSE View(table, d)
    BY <1>1 DEF MonitorOf, View
  <2>3. View(table, d) = None <=> table.reservations_by_cpu[d] = NO_RESERVATION
    BY <1>1, ViewNotNone
  <2> QED
    BY <2>1, <2>2, <2>3 DEF View, HasReservation, FindReservationByCpu
<1>5. Mon' = [d \in Cpus |-> IF d \in Monitor!Lost(c, a) THEN None ELSE Mon[d]]
  BY <1>2, <1>4 DEF Mon, Monitor!Lost
<1> QED
  BY <1>5 DEF Monitor!MonitorAccess, Mon

\* The walk itself changes nothing the monitor shows: what it frees was
\* doomed, and what it moves keeps its view.
LEMMA AccessStepStutters ==
    ASSUME ResInv, NEW c \in Cpus, AccessStep(c)
    PROVE  UNCHANGED Mon
<1> DEFINE a == walk[c].address
           from == walk[c].position
           i == FindReservationOnAddress(table, a, from)
<1>1. Sound(table) /\ walk[c] \in Walks /\ from \in Nat
  BY MaxCpusAssumption DEF ResInv, ResTypeOK, IndexConsistent, NeverAborts, Sound, AccessStep, Walks
<1>2. i \in Slots /\ i < table.reservations_count /\ table.reservations[i].address = a
  BY <1>1, FoundSlot DEF AccessStep, Sound
<1>3. PICK owner \in Cpus : /\ owner = table.reservations[i].locking_cpu_id
                            /\ table.reservations_by_cpu[owner] = i
                            /\ i # NO_RESERVATION
  BY <1>1, <1>2 DEF Sound, Consistent, Slots, NO_RESERVATION
<1>4. /\ walk[c] # None /\ walk'[c] # None /\ walk'[c].address = a
      /\ \A d \in Cpus \ {c} : walk[d] = None /\ walk'[d] = None
  <2>1. walk' = [walk EXCEPT ![c].position = NextPosition(table, c, i)]
    BY DEF AccessStep
  <2>2. walk'[c] \in Walks \cup {None}
    BY AccessStepInv DEF ResInv, ResTypeOK
  <2>3. walk \in [Cpus -> Walks \cup {None}] /\ \A d \in Cpus \ {c} : walk[d] = None
    BY DEF ResInv, ResTypeOK, OneWalk, AccessStep
  <2>4. NextPosition(table, c, i) \in 0 .. MAX_NUMBER_OF_CPUS
    <3>1. \A k \in Slots : k \in 0 .. MAX_NUMBER_OF_CPUS /\ k + 1 \in 0 .. MAX_NUMBER_OF_CPUS
      BY MaxCpusAssumption DEF Slots
    <3> QED
      BY <1>2, <3>1, Zenon DEF NextPosition
  <2>5. walk'[c] \in Walks /\ walk'[c].address = a
    BY <1>1, <2>1, <2>3, <2>4 DEF Walks
  <2> QED
    BY <2>1, <2>3, <2>5, NoneAssumption DEF AccessStep
<1>5. \A d \in Cpus : Doomed(d) <=> /\ d # c /\ HasReservation(table, d, a)
                                   /\ ~table.reservations[table.reservations_by_cpu[d]].manual_free
  BY <1>4 DEF Doomed
<1>6. \A d \in Cpus : Doomed(d)' <=> /\ d # c /\ HasReservation(table', d, a)
                                    /\ ~table'.reservations[table'.reservations_by_cpu[d]].manual_free
  BY <1>4 DEF Doomed
<1>7. table' = AccessTable(table, c, i)
  BY DEF AccessStep
<1> HIDE DEF i, a, from
<1>8. CASE owner # c /\ IsFreed(table, i, FALSE)
  <2>1. table' = FreeReservation(table, i, FALSE)
    BY <1>3, <1>7, <1>8 DEF AccessTable
  <2>2. Sound(table') /\ Freed(table, table', i)
    BY <1>1, <1>2, <1>8, <2>1, FreeSound
  <2>3. /\ View(table', owner) = None
        /\ \A d \in Cpus \ {owner} :
              /\ table'.reservations_by_cpu[d] = NO_RESERVATION <=>
                    table.reservations_by_cpu[d] = NO_RESERVATION
              /\ table.reservations_by_cpu[d] # NO_RESERVATION =>
                    table'.reservations[table'.reservations_by_cpu[d]] =
                      table.reservations[table.reservations_by_cpu[d]]
              /\ View(table', d) = View(table, d)
    BY <1>1, <1>2, <1>3, <2>2, FreedView
  <2>4. Doomed(owner)
    BY <1>2, <1>3, <1>5, <1>8 DEF HasReservation, FindReservationByCpu, IsFreed
  <2>5. MonitorOf(owner) = None /\ MonitorOf(owner)' = None
    BY <1>3, <2>2, <2>4 DEF MonitorOf, Freed
  <2>6. \A d \in Cpus \ {owner} : Doomed(d)' <=> Doomed(d)
    BY <1>5, <1>6, <2>3 DEF HasReservation, FindReservationByCpu
  <2>7. \A d \in Cpus \ {owner} : MonitorOf(d)' = MonitorOf(d)
    BY <2>3, <2>6 DEF MonitorOf
  <2> QED
    BY <2>5, <2>7 DEF Mon
<1>9. CASE ~(owner # c /\ IsFreed(table, i, FALSE))
  <2>1. table' = table
    BY <1>3, <1>7, <1>9 DEF AccessTable, FreeReservation
  <2>2. \A d \in Cpus : Doomed(d)' <=> Doomed(d)
    BY <1>5, <1>6, <2>1
  <2> QED
    BY <2>1, <2>2 DEF Mon, MonitorOf
<1> QED
  BY <1>8, <1>9

LEMMA AccessStepSpares ==
    ASSUME ResInv, NEW c \in Cpus, NEW d \in Cpus, AccessStep(c), Spared(c, d)
    PROVE  /\ table'.reservations_by_cpu[d] # NO_RESERVATION
           /\ table'.reservations[table'.reservations_by_cpu[d]] =
                 table.reservations[table.reservations_by_cpu[d]]
<1> DEFINE i == FindReservationOnAddress(table, walk[c].address, walk[c].position)
<1>1. Sound(table) /\ walk[c].position \in Nat
  BY MaxCpusAssumption DEF ResInv, ResTypeOK, IndexConsistent, NeverAborts, Sound, AccessStep, Walks
<1>2. i \in Slots /\ i < table.reservations_count /\ table.reservations[i].address = walk[c].address
  BY <1>1, FoundSlot DEF AccessStep, Sound
<1>3. PICK owner \in Cpus : /\ owner = table.reservations[i].locking_cpu_id
                            /\ table.reservations_by_cpu[owner] = i
  BY <1>1, <1>2 DEF Sound, Consistent
<1>4. table' = AccessTable(table, c, i)
  BY DEF AccessStep
<1> HIDE DEF i
<1>5. CASE owner # c /\ IsFreed(table, i, FALSE)
  <2>1. table' = FreeReservation(table, i, FALSE)
    BY <1>3, <1>4, <1>5 DEF AccessTable
  <2>2. Sound(table') /\ Freed(table, table', i)
    BY <1>1, <1>2, <1>5, <2>1, FreeSound
  <2>3. d # owner
    BY <1>2, <1>3, <1>5 DEF Spared, IsFreed
  <2> QED
    BY <1>1, <1>2, <1>3, <2>2, <2>3, FreedView DEF Spared
<1>6. CASE ~(owner # c /\ IsFreed(table, i, FALSE))
  <2>1. table' = table
    BY <1>3, <1>4, <1>6 DEF AccessTable, FreeReservation
  <2> QED
    BY <2>1 DEF Spared
<1> QED
  BY <1>5, <1>6

\* An access takes no reservation away but the ones it is meant to, whatever
\* the swaps move: own, manual_free and foreign ones on other addresses stay.
THEOREM AccessSpares == ResSpec => AccessSparesTheRest
<1>1. ResInv /\ [ResNext]_rvars =>
        [\A c, d \in Cpus : AccessStep(c) /\ Spared(c, d) =>
          /\ table'.reservations_by_cpu[d] # NO_RESERVATION
          /\ table'.reservations[table'.reservations_by_cpu[d]] =
                table.reservations[table.reservations_by_cpu[d]]]_rvars
  BY AccessStepSpares
<1> QED
  BY <1>1, ResInvariant, PTL DEF ResSpec, AccessSparesTheRest

\* At the end of the walk nothing is doomed any more: no reservation comes
\* back in the abstract state.
LEMMA AccessDoneStutters ==
    ASSUME ResInv, NEW c \in Cpus, AccessDone(c)
    PROVE  UNCHANGED Mon
<1>1. table' = table /\ \A d \in Cpus : walk'[d] = None
  BY DEF AccessDone, ResInv, ResTypeOK, OneWalk
<1>2. \A d \in Cpus \ {c} : walk[d] = None
  BY DEF AccessDone, ResInv, OneWalk
<1>3. \A d \in Cpus : ~Doomed(d)
  BY <1>2, WalkComplete DEF Doomed, AccessDone
<1>4. \A d \in Cpus : ~Doomed(d)'
  BY <1>1 DEF Doomed
<1> QED
  BY <1>1, <1>3, <1>4 DEF Mon, MonitorOf

LEMMA StepRefines == ResInv /\ [ResNext]_rvars => [Monitor!MonitorNext]_Mon
<1> SUFFICES ASSUME ResInv, [ResNext]_rvars PROVE Monitor!MonitorNext \/ UNCHANGED Mon
  OBVIOUS
<1>1. ASSUME NEW c \in Cpus, Cancel(c) PROVE Monitor!MonitorNext
  BY <1>1, CancelRefines DEF Monitor!MonitorNext
<1>2. ASSUME NEW c \in Cpus, AccessStep(c) PROVE UNCHANGED Mon
  BY <1>2, AccessStepStutters
<1>3. ASSUME NEW c \in Cpus, AccessDone(c) PROVE UNCHANGED Mon
  BY <1>3, AccessDoneStutters
<1>4. ASSUME NEW c \in Cpus, NEW a \in Addresses, RegisterAddressAccess(c, a)
      PROVE  Monitor!MonitorNext
  BY <1>4, AccessRefines DEF Monitor!MonitorNext
<1>5. ASSUME NEW c \in Cpus, NEW a \in Addresses, NEW manual \in BOOLEAN, Reserve(c, a, manual)
      PROVE  Monitor!MonitorNext \/ UNCHANGED Mon
  BY <1>5, ReserveRefines DEF Monitor!MonitorNext
<1>6. CASE UNCHANGED rvars
  BY <1>6 DEF rvars, Mon, MonitorOf, Doomed
<1> QED
  BY <1>1, <1>2, <1>3, <1>4, <1>5, <1>6 DEF ResNext

\* The packed array with its walk implements the abstract monitor: to the
\* guest, an access takes the other CPUs' reservations away in one step.
THEOREM TableImplementsMonitor == ResSpec => ImplementsMonitor
<1>1. [Monitor!MonitorNext]_Mon <=> [Monitor!MonitorNext]_([d \in Cpus |-> MonitorOf(d)])
  BY DEF Mon
<1> QED
  BY MonitorInitStep, StepRefines, ResInvariant, <1>1, PTL DEF ResSpec, ImplementsMonitor, Monitor!MonitorSpec, Mon
=============================================================================
