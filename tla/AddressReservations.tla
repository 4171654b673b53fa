------------------------- MODULE AddressReservations ------------------------
(***************************************************************************)
(* The reservation table of tlib's global atomic memory state (atomic.c):  *)
(* a packed array of reservations, an index from a CPU's atomic id to its  *)
(* slot, and the operations the exclusive-access instructions and guest    *)
(* stores perform on them.  The comment above reserve_address requires the *)
(* global memory lock around every operation, so this module runs one      *)
(* operation at a time; ExclusiveAccess composes it with the lock itself.  *)
(*                                                                         *)
(* register_address_access is a loop over the table that frees slots while *)
(* it walks: each iteration is a step of its own.                          *)
(***************************************************************************)
EXTENDS Integers, FiniteSets

CONSTANTS MAX_NUMBER_OF_CPUS,  \* slots of the table, and atomic ids
          Addresses,           \* guest addresses that may be reserved
          None                 \* no walk under way; no reservation held

ASSUME MaxCpusAssumption == MAX_NUMBER_OF_CPUS \in Nat \ {0}

Cpus == 0 .. MAX_NUMBER_OF_CPUS - 1
Slots == 0 .. MAX_NUMBER_OF_CPUS - 1

NO_CPU_ID == -1        \* 0xFFFFFFFF in the uint32_t field
NO_RESERVATION == -1

VARIABLES table,  \* the reservation fields of atomic_memory_state_t
          walk    \* per CPU, the locals of its register_address_access

rvars == <<table, walk>>

\* One element of the reservations array.  Its id is its index and never
\* changes.  The address of a slot nobody has used is 0 in the code: any
\* value will do, as no operation reads it.
Entries == [locking_cpu_id : Cpus \cup {NO_CPU_ID}, address : Addresses,
            active_flag : BOOLEAN, manual_free : BOOLEAN]

Tables == [reservations_count : 0 .. MAX_NUMBER_OF_CPUS,
           reservations_by_cpu : [Cpus -> Slots \cup {NO_RESERVATION}],
           reservations : [Slots -> Entries],
           aborted : BOOLEAN]    \* tlib_abort or tlib_assert ended the program

Walks == [address : Addresses, position : 0 .. MAX_NUMBER_OF_CPUS]

ASSUME NoneAssumption == /\ None \notin Walks
                         /\ None \notin [address : Addresses, manual_free : BOOLEAN]

-----------------------------------------------------------------------------
(* The operations, as functions from a table to a table. *)

EmptyTable(a) ==
    [reservations_count |-> 0,
     reservations_by_cpu |-> [c \in Cpus |-> NO_RESERVATION],
     reservations |-> [i \in Slots |-> [locking_cpu_id |-> NO_CPU_ID, address |-> a,
                                        active_flag |-> FALSE, manual_free |-> FALSE]],
     aborted |-> FALSE]

FindReservationByCpu(t, c) == t.reservations_by_cpu[c]

\* The slots find_reservation_on_address may return; it returns the lowest.
OnAddress(t, a, from) ==
    {i \in from .. t.reservations_count - 1 : t.reservations[i].address = a}

FindReservationOnAddress(t, a, from) ==
    CHOOSE i \in OnAddress(t, a, from) : \A j \in OnAddress(t, a, from) : i <= j

MakeReservation(t, c, a, manual) ==
    IF t.reservations_count = MAX_NUMBER_OF_CPUS
    THEN [t EXCEPT !.aborted = TRUE]
    ELSE [t EXCEPT
            !.reservations[t.reservations_count] =
                [locking_cpu_id |-> c, address |-> a,
                 active_flag |-> TRUE, manual_free |-> manual],
            !.reservations_by_cpu[c] = t.reservations_count,
            !.reservations_count = t.reservations_count + 1]

\* free_reservation returns true, and changes the table, iff this holds.
IsFreed(t, i, isManual) == isManual \/ ~t.reservations[i].manual_free

\* Fault seeded: the index of the moved reservation's CPU is not updated.
FreeReservationLosesMover(t, i, isManual) ==
    LET last == t.reservations_count - 1
        owner == t.reservations[i].locking_cpu_id
    IN IF ~IsFreed(t, i, isManual) THEN t
       ELSE [t EXCEPT !.reservations_by_cpu[owner] = NO_RESERVATION,
                      !.reservations = [t.reservations EXCEPT
                            ![i] = t.reservations[last],
                            ![last].active_flag = FALSE],
                      !.reservations_count = last]

\* Fault seeded: the count is decremented twice.
FreeReservationTwice(t, i, isManual) ==
    IF ~IsFreed(t, i, isManual) THEN t
    ELSE [t EXCEPT !.reservations_by_cpu[t.reservations[i].locking_cpu_id] = NO_RESERVATION,
                   !.reservations[i].active_flag = FALSE,
                   !.reservations_count = @ - 2]

\* The last reservation moves into the freed slot, keeping the slot's own
\* active flag, and the index of its CPU follows it.
FreeReservation(t, i, isManual) ==
    LET last == t.reservations_count - 1
        owner == t.reservations[i].locking_cpu_id
        mover == t.reservations[last].locking_cpu_id
        cleared == [t.reservations_by_cpu EXCEPT ![owner] = NO_RESERVATION]
        filled == [t.reservations EXCEPT
                     ![i] = [t.reservations[last] EXCEPT
                               !.active_flag = t.reservations[i].active_flag]]
    IN IF ~IsFreed(t, i, isManual) THEN t
       ELSE IF i = last
       THEN [t EXCEPT !.reservations_by_cpu = cleared,
                      !.reservations[last].active_flag = FALSE,
                      !.reservations_count = last]
       ELSE IF ~(t.reservations[i].active_flag /\ t.reservations[last].active_flag)
       THEN [t EXCEPT !.aborted = TRUE]
       ELSE [t EXCEPT !.reservations_by_cpu = [cleared EXCEPT ![mover] = i],
                      !.reservations = [filled EXCEPT ![last].active_flag = FALSE],
                      !.reservations_count = last]

\* Fault seeded: the CPU's previous reservation is not freed.
ReserveAddressKeepsOld(t, c, a, manual) ==
    IF FindReservationByCpu(t, c) # NO_RESERVATION /\
       t.reservations[FindReservationByCpu(t, c)].address = a
    THEN t
    ELSE MakeReservation(t, c, a, manual)

ReserveAddress(t, c, a, manual) ==
    LET i == FindReservationByCpu(t, c)
    IN IF i = NO_RESERVATION THEN MakeReservation(t, c, a, manual)
       ELSE IF t.reservations[i].address = a THEN t
       ELSE MakeReservation(FreeReservation(t, i, TRUE), c, a, manual)

\* TRUE where the code returns 0: c holds a reservation on a.
HasReservation(t, c, a) ==
    LET i == FindReservationByCpu(t, c)
    IN i # NO_RESERVATION /\ t.reservations[i].address = a

CancelReservation(t, c) ==
    LET i == FindReservationByCpu(t, c)
    IN IF i = NO_RESERVATION THEN t ELSE FreeReservation(t, i, TRUE)

\* One iteration of the loop of register_address_access, for CPU c at slot i.
AccessTable(t, c, i) ==
    IF t.reservations[i].locking_cpu_id # c THEN FreeReservation(t, i, FALSE) ELSE t

\* Fault seeded: the slot that was filled by the swap is skipped.
NextPositionSkips(t, c, i) == i + 1

\* A freed slot holds another reservation now: it is looked at again.
NextPosition(t, c, i) ==
    IF t.reservations[i].locking_cpu_id # c /\ IsFreed(t, i, FALSE) THEN i ELSE i + 1

-----------------------------------------------------------------------------
(* The actions. *)

Running == ~table.aborted

\* The caller holds the global memory lock: no other operation is under way.
Quiet == \A c \in Cpus : walk[c] = None

ResInit == /\ \E a \in Addresses : table = EmptyTable(a)
           /\ walk = [c \in Cpus |-> None]

Reserve(c, a, manual) ==
    /\ Running /\ Quiet
    /\ table' = ReserveAddress(table, c, a, manual)
    /\ UNCHANGED walk

Cancel(c) ==
    /\ Running /\ Quiet
    /\ table' = CancelReservation(table, c)
    /\ UNCHANGED walk

BeginAccess(c, a) ==
    /\ walk' = [walk EXCEPT ![c] = [address |-> a, position |-> 0]]
    /\ UNCHANGED table

RegisterAddressAccess(c, a) == Running /\ Quiet /\ BeginAccess(c, a)

AccessStep(c) ==
    /\ Running /\ walk[c] # None
    /\ OnAddress(table, walk[c].address, walk[c].position) # {}
    /\ LET i == FindReservationOnAddress(table, walk[c].address, walk[c].position)
       IN /\ table' = AccessTable(table, c, i)
          /\ walk' = [walk EXCEPT ![c].position = NextPosition(table, c, i)]

AccessDone(c) ==
    /\ Running /\ walk[c] # None
    /\ OnAddress(table, walk[c].address, walk[c].position) = {}
    /\ walk' = [walk EXCEPT ![c] = None]
    /\ UNCHANGED table

ResNext ==
    \E c \in Cpus : \/ Cancel(c)
                    \/ AccessStep(c)
                    \/ AccessDone(c)
                    \/ \E a \in Addresses :
                          \/ RegisterAddressAccess(c, a)
                          \/ \E manual \in BOOLEAN : Reserve(c, a, manual)

ResSpec == ResInit /\ [][ResNext]_rvars

-----------------------------------------------------------------------------
(* Properties. *)

\* Every field keeps its type: the count stays within the array, the index
\* within the slots and the walk within the table.
ResTypeOK == /\ table \in Tables
             /\ walk \in [Cpus -> Walks \cup {None}]

\* The slots in use are packed below reservations_count and are the active
\* ones, and the index and the owners of those slots are inverse to each
\* other: what the swap of free_reservation must keep true.
Consistent(t) ==
    /\ \A i \in Slots : t.reservations[i].active_flag <=> i < t.reservations_count
    /\ \A i \in Slots : i < t.reservations_count =>
          /\ t.reservations[i].locking_cpu_id \in Cpus
          /\ t.reservations_by_cpu[t.reservations[i].locking_cpu_id] = i
    /\ \A c \in Cpus : t.reservations_by_cpu[c] # NO_RESERVATION =>
          /\ t.reservations_by_cpu[c] < t.reservations_count
          /\ t.reservations[t.reservations_by_cpu[c]].locking_cpu_id = c

\* Consistent holds of the table in every state.
IndexConsistent == Consistent(table)

\* Neither "No more address reservation slots" (make_reservation) nor the
\* assertion on the active flags (free_reservation) ever stops the program.
NeverAborts == ~table.aborted

\* At most one operation is inside the table.
OneWalk == \A c, d \in Cpus : walk[c] # None /\ walk[d] # None => c = d

\* What the walk has passed holds no reservation it had to take away: the
\* swap never carries an unvisited reservation behind the walk's position.
WalkMissesNothing ==
    \A c \in Cpus : walk[c] # None =>
        \A i \in Slots :
            (/\ i < walk[c].position
             /\ i < table.reservations_count
             /\ table.reservations[i].address = walk[c].address)
            => \/ table.reservations[i].locking_cpu_id = c
               \/ table.reservations[i].manual_free

\* When register_address_access returns, no other CPU still holds a
\* reservation on the accessed address that an access may take away.
AccessClearsOthers ==
    [][\A c \in Cpus : AccessDone(c) =>
          \A d \in Cpus \ {c} :
             HasReservation(table', d, walk[c].address) =>
                table'.reservations[table'.reservations_by_cpu[d]].manual_free]_rvars

\* What a walk of c must leave alone: its own reservation, manual_free ones
\* (the comment above reserve_address) and those on other addresses.
Spared(c, d) ==
    LET i == table.reservations_by_cpu[d]
    IN /\ i # NO_RESERVATION
       /\ \/ d = c
          \/ table.reservations[i].manual_free
          \/ table.reservations[i].address # walk[c].address

\* register_address_access takes away no reservation but the ones it is meant
\* to: the swap may move the others, but each keeps its CPU and its contents.
AccessSparesTheRest ==
    [][\A c, d \in Cpus : AccessStep(c) /\ Spared(c, d) =>
          /\ table'.reservations_by_cpu[d] # NO_RESERVATION
          /\ table'.reservations[table'.reservations_by_cpu[d]] =
                table.reservations[table.reservations_by_cpu[d]]]_rvars

-----------------------------------------------------------------------------
(* Refinement of ReservationMonitor. *)

\* The reservations a walk under way is bound to take away are already gone
\* in the abstract state: the abstract access happens when the walk begins.
Doomed(d) ==
    \E c \in Cpus \ {d} :
        /\ walk[c] # None
        /\ HasReservation(table, d, walk[c].address)
        /\ ~table.reservations[table.reservations_by_cpu[d]].manual_free

MonitorOf(d) ==
    IF table.reservations_by_cpu[d] = NO_RESERVATION \/ Doomed(d)
    THEN None
    ELSE [address |-> table.reservations[table.reservations_by_cpu[d]].address,
          manual_free |-> table.reservations[table.reservations_by_cpu[d]].manual_free]

Monitor == INSTANCE ReservationMonitor
             WITH monitor <- [d \in Cpus |-> MonitorOf(d)]

\* The table, seen through MonitorOf, behaves as the abstract monitor.
ImplementsMonitor == Monitor!MonitorSpec
=============================================================================
