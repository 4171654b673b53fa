--------------------------- MODULE ExclusiveAccess --------------------------
(***************************************************************************)
(* The exclusive-access instructions of the ARM guest and guest stores, as *)
(* the generated code performs them on several CPUs: the composition of    *)
(* the global memory lock, the reservation table and guest memory.         *)
(*                                                                         *)
(*   LDREX  acquire; load; reserve_address(manual_free = 1); release       *)
(*   CLREX  acquire; cancel_reservation; release                           *)
(*   STREX  acquire; check_address_reservation; load and compare; store;   *)
(*          cancel_reservation; release                                    *)
(*   store  on a TLB hit, straight to memory; otherwise acquire;           *)
(*          register_address_access; release; and only then to memory      *)
(*                                                                         *)
(* Every call of a helper, every load and every store is a step.  A load   *)
(* or a slow-path store may fault, or call a managed handler that throws.  *)
(***************************************************************************)
EXTENDS AddressReservations

CONSTANTS Values,              \* what a guest word may hold
          MINUS_ONE,           \* the value CLREX and STREX leave in exclusive_val
          ExclusiveAddresses,  \* addresses LDREX and STREX are used on
          PlainAddresses,      \* addresses ordinary stores are used on
          MaxNested, EntriesModulus, RegisterWhileRunning

ASSUME ExclusiveAssumption == /\ ExclusiveAddresses \subseteq Addresses
                              /\ PlainAddresses \subseteq Addresses
                              /\ MINUS_ONE \in Values
                              /\ MaxNested \in Nat
                              /\ EntriesModulus \in Nat /\ EntriesModulus > MaxNested + 1
                              /\ RegisterWhileRunning \in BOOLEAN

VARIABLES registered, locking_cpu_id, entries_count, phase, depth, nested,
          memory,         \* guest memory
          exclusive_val,  \* per CPU, the value of its last LDREX
          pc,             \* per CPU, the next step of its instruction
          insn            \* per CPU, the instruction and its operands

INSTANCE GlobalMemoryLock WITH NoCpu <- NO_CPU_ID

lock == <<registered, locking_cpu_id, entries_count, phase, depth, nested>>
guest == <<memory, exclusive_val>>
vars == <<lock, rvars, guest, pc, insn>>

Steps == {"idle", "ldrex_load", "ldrex_reserve", "clrex_cancel", "strex_check",
          "strex_load", "strex_end", "release", "store", "access", "walk",
          "store_release", "write"}

Insns == [op : {"none", "ldrex", "clrex", "strex", "store"},
          address : Addresses, value : Values]

-----------------------------------------------------------------------------
At(c, step) == phase[c] = "run" /\ pc[c] = step /\ Running

Goto(c, step) == pc' = [pc EXCEPT ![c] = step]

ExclusiveInit ==
    /\ LockInit
    /\ ResInit
    /\ \E v \in Values : memory = [a \in Addresses |-> v]
    /\ \E v \in Values : exclusive_val = [c \in Cpus |-> v]
    /\ pc = [c \in Cpus |-> "idle"]
    /\ \E a \in Addresses, v \in Values :
          insn = [c \in Cpus |-> [op |-> "none", address |-> a, value |-> v]]

\* gen_load_exclusive
LdrexAcquire(c, a) ==
    /\ At(c, "idle")
    /\ insn' = [insn EXCEPT ![c] = [@ EXCEPT !.op = "ldrex", !.address = a]]
    /\ AcquireGlobalMemoryLock(c)
    /\ Goto(c, "ldrex_load")
    /\ UNCHANGED <<rvars, guest>>

LdrexLoad(c) ==
    /\ At(c, "ldrex_load")
    /\ exclusive_val' = [exclusive_val EXCEPT ![c] = memory[insn[c].address]]
    /\ Goto(c, "ldrex_reserve")
    /\ UNCHANGED <<lock, rvars, memory, insn>>

LdrexReserve(c) ==
    /\ At(c, "ldrex_reserve")
    /\ table' = ReserveAddress(table, c, insn[c].address, TRUE)
    /\ Goto(c, "release")
    /\ UNCHANGED <<lock, walk, guest, insn>>

\* gen_clrex
ClrexAcquire(c) ==
    /\ At(c, "idle")
    /\ insn' = [insn EXCEPT ![c].op = "clrex"]
    /\ exclusive_val' = [exclusive_val EXCEPT ![c] = MINUS_ONE]
    /\ AcquireGlobalMemoryLock(c)
    /\ Goto(c, "clrex_cancel")
    /\ UNCHANGED <<rvars, memory>>

ClrexCancel(c) ==
    /\ At(c, "clrex_cancel")
    /\ table' = CancelReservation(table, c)
    /\ Goto(c, "release")
    /\ UNCHANGED <<lock, walk, guest, insn>>

\* gen_store_exclusive
StrexAcquire(c, a, v) ==
    /\ At(c, "idle")
    /\ insn' = [insn EXCEPT ![c] = [op |-> "strex", address |-> a, value |-> v]]
    /\ AcquireGlobalMemoryLock(c)
    /\ Goto(c, "strex_check")
    /\ UNCHANGED <<rvars, guest>>

\* Fault seeded: the result of the reservation check is ignored.
StrexCheckIgnored(c) ==
    /\ At(c, "strex_check")
    /\ Goto(c, "strex_load")
    /\ UNCHANGED <<lock, rvars, guest, insn>>

StrexCheck(c) ==
    /\ At(c, "strex_check")
    /\ IF HasReservation(table, c, insn[c].address)
       THEN Goto(c, "strex_load")
       ELSE Goto(c, "strex_end")
    /\ UNCHANGED <<lock, rvars, guest, insn>>

\* Fault seeded: the loaded value is not compared.
StrexLoadOnly(c) ==
    /\ At(c, "strex_load")
    /\ Goto(c, "store")
    /\ UNCHANGED <<lock, rvars, guest, insn>>

StrexLoad(c) ==
    /\ At(c, "strex_load")
    /\ IF memory[insn[c].address] = exclusive_val[c]
       THEN Goto(c, "store")
       ELSE Goto(c, "strex_end")
    /\ UNCHANGED <<lock, rvars, guest, insn>>

\* Fault seeded: the instruction ends without its release.
StrexEndLocked(c) ==
    /\ At(c, "strex_end")
    /\ exclusive_val' = [exclusive_val EXCEPT ![c] = MINUS_ONE]
    /\ table' = CancelReservation(table, c)
    /\ Goto(c, "idle")
    /\ UNCHANGED <<lock, walk, memory, insn>>

StrexEnd(c) ==
    /\ At(c, "strex_end")
    /\ exclusive_val' = [exclusive_val EXCEPT ![c] = MINUS_ONE]
    /\ table' = CancelReservation(table, c)
    /\ Goto(c, "release")
    /\ UNCHANGED <<lock, walk, memory, insn>>

InsnRelease(c) ==
    /\ At(c, "release")
    /\ ReleaseGlobalMemoryLock(c)
    /\ Goto(c, "idle")
    /\ UNCHANGED <<rvars, guest, insn>>

\* An ordinary store instruction, outside of any section.
BeginStore(c, a, v) ==
    /\ At(c, "idle")
    /\ insn' = [insn EXCEPT ![c] = [op |-> "store", address |-> a, value |-> v]]
    /\ Goto(c, "store")
    /\ UNCHANGED <<lock, rvars, guest>>

\* The store itself; STREX goes on where it left off.
StoreToMemory(c) ==
    /\ memory' = [memory EXCEPT ![insn[c].address] = insn[c].value]
    /\ Goto(c, IF insn[c].op = "strex" THEN "strex_end" ELSE "idle")
    /\ UNCHANGED <<lock, rvars, exclusive_val, insn>>

\* tcg_out_qemu_st: on a TLB hit the generated code writes directly.
FastStore(c) == At(c, "store") /\ StoreToMemory(c)

\* __inner_st: the slow path registers the access under the lock ...
SlowStore(c) ==
    /\ At(c, "store")
    /\ AcquireGlobalMemoryLock(c)
    /\ Goto(c, "access")
    /\ UNCHANGED <<rvars, guest, insn>>

SlowStoreAccess(c) ==
    /\ At(c, "access")
    /\ BeginAccess(c, insn[c].address)
    /\ Goto(c, "walk")
    /\ UNCHANGED <<lock, guest, insn>>

SlowStoreWalk(c) ==
    /\ At(c, "walk")
    /\ \/ AccessStep(c) /\ UNCHANGED pc
       \/ AccessDone(c) /\ Goto(c, "store_release")
    /\ UNCHANGED <<lock, guest, insn>>

SlowStoreRelease(c) ==
    /\ At(c, "store_release")
    /\ ReleaseGlobalMemoryLock(c)
    /\ Goto(c, "write")
    /\ UNCHANGED <<rvars, guest, insn>>

\* ... and writes to memory after it has released it.
SlowStoreWrite(c) == At(c, "write") /\ StoreToMemory(c)

\* A fault, or a managed handler that throws, ends the instruction.
Abandon(c) ==
    /\ pc[c] \in {"ldrex_load", "strex_load", "write"} /\ Running
    /\ LoopExit(c) \/ Unwind(c)
    /\ Goto(c, "idle")
    /\ UNCHANGED <<rvars, guest, insn>>

\* The steps of the lock and of cpu_exec between and around instructions.
Surroundings(c) ==
    /\ \/ Register(c)
       \/ Enter(c)
       \/ UnlockDanglingLocks(c)
       \/ SpuriousWakeup(c)
       \/ Retest(c)
    /\ UNCHANGED <<rvars, guest, pc, insn>>

ExclusiveNext ==
    \E c \in Cpus :
        \/ \E a \in ExclusiveAddresses :
              \/ LdrexAcquire(c, a)
              \/ \E v \in Values : StrexAcquire(c, a, v)
        \/ \E a \in PlainAddresses, v \in Values : BeginStore(c, a, v)
        \/ LdrexLoad(c) \/ LdrexReserve(c)
        \/ ClrexAcquire(c) \/ ClrexCancel(c)
        \/ StrexCheck(c) \/ StrexLoad(c) \/ StrexEnd(c)
        \/ InsnRelease(c)
        \/ FastStore(c) \/ SlowStore(c) \/ SlowStoreAccess(c) \/ SlowStoreWalk(c)
        \/ SlowStoreRelease(c) \/ SlowStoreWrite(c)
        \/ Abandon(c)
        \/ Surroundings(c)

ExclusiveSpec == ExclusiveInit /\ [][ExclusiveNext]_vars

-----------------------------------------------------------------------------
(* Properties. *)

ExclusiveTypeOK ==
    /\ LockTypeOK
    /\ ResTypeOK
    /\ memory \in [Addresses -> Values]
    /\ exclusive_val \in [Cpus -> Values]
    /\ pc \in [Cpus -> Steps]
    /\ insn \in [Cpus -> Insns]

\* The table sees one operation at a time although every CPU calls it: the
\* lock gives what AddressReservations assumes ("this function should be
\* called when holding the mutex"), also after faults and unwindings.
TableIsProtected == ResSpec

\* Every instruction leaves the lock as it found it: between instructions a
\* CPU is in no section, and inside the sections of STREX the nesting is
\* exactly the outer section and the one of its slow-path store.
SectionsAreBalanced ==
    \A c \in Cpus : phase[c] = "run" =>
        depth[c] = CASE pc[c] = "idle" -> 0
                     [] pc[c] \in {"store", "write"} -> IF insn[c].op = "strex" THEN 1 ELSE 0
                     [] pc[c] \in {"access", "walk", "store_release"} ->
                           IF insn[c].op = "strex" THEN 2 ELSE 1
                     [] OTHER -> 1

\* A STREX that is about to store replaces the value that its LDREX loaded:
\* nothing has changed it since the comparison.  With ordinary stores kept
\* to other addresses, the lock makes the comparison and the store atomic.
StrexReplacesLoaded ==
    \A c \in Cpus :
        insn[c].op = "strex" /\ pc[c] \in {"store", "access", "walk", "store_release", "write"}
            => memory[insn[c].address] = exclusive_val[c]

\* A CPU whose STREX passed the reservation check keeps the reservation to
\* the store: no other CPU's access and no nested section takes it away.
ReservationHeldToStore ==
    \A c \in Cpus :
        insn[c].op = "strex" /\ pc[c] \in {"strex_load", "store", "access", "walk", "store_release", "write"}
            => HasReservation(table, c, insn[c].address)
=============================================================================
