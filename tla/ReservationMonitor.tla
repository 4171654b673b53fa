------------------------- MODULE ReservationMonitor -------------------------
(***************************************************************************)
(* What tlib's address reservations promise to a guest, with no table in   *)
(* sight: every CPU has at most one reservation, an access to an address   *)
(* takes the reservations of the other CPUs on that address away at once,  *)
(* and a reservation marked manual_free only goes when its own CPU drops   *)
(* or replaces it.  AddressReservations implements this specification.     *)
(***************************************************************************)
CONSTANTS Cpus,       \* the CPUs that may hold a reservation
          Addresses,  \* the addresses they may reserve
          None        \* "this CPU holds no reservation"

VARIABLE monitor      \* the reservation of every CPU

MonitorInit == monitor = [c \in Cpus |-> None]

\* A CPU that already reserves a keeps the reservation it has.
MonitorReserve(c, a, manual) ==
    /\ monitor[c] = None \/ monitor[c].address # a
    /\ monitor' = [monitor EXCEPT ![c] = [address |-> a, manual_free |-> manual]]

MonitorCancel(c) == monitor' = [monitor EXCEPT ![c] = None]

\* The reservations an access of c to address a takes away.
Lost(c, a) == {d \in Cpus \ {c} : /\ monitor[d] # None
                                  /\ monitor[d].address = a
                                  /\ ~monitor[d].manual_free}

MonitorAccess(c, a) ==
    monitor' = [d \in Cpus |-> IF d \in Lost(c, a) THEN None ELSE monitor[d]]

MonitorNext ==
    \E c \in Cpus : \/ MonitorCancel(c)
                    \/ \E a \in Addresses :
                          \/ MonitorAccess(c, a)
                          \/ \E manual \in BOOLEAN : MonitorReserve(c, a, manual)

MonitorSpec == MonitorInit /\ [][MonitorNext]_monitor
=============================================================================
