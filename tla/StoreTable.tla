----------------------------- MODULE StoreTable -----------------------------
(***************************************************************************)
(* The hash table-based store test (hash-table-store-test.c) behind the    *)
(* atomic instructions and the stores of the RISC-V and ARM64 guests.      *)
(* Every guest address has an entry, which it shares with the addresses of *)
(* the same hash; the entry has a spin lock and names the core that last   *)
(* accessed it.  A store, a load-exclusive and an atomic operation write   *)
(* their core into the entry, so that a store-exclusive that still finds   *)
(* its own core there knows that no other core has come in between.        *)
(*                                                                         *)
(* Each CPU is a thread that runs generated code.  The code of an          *)
(* instruction is a sequence of steps <<what, k>>, each atomic: k is 0 for *)
(* the addressed doubleword and 1 for the next one, the high half of a     *)
(* 128-bit access.  A load or a store may fault, which jumps to the top of *)
(* cpu_exec's loop, or call a managed handler that throws, which unwinds   *)
(* out of tlib_execute; unlock_dangling_locks then frees what is left.     *)
(*                                                                         *)
(* Addresses count doublewords, the granule of an entry.  More than one    *)
(* CPU is registered before any code is translated: with a single one the  *)
(* generators emit none of this.                                           *)
(***************************************************************************)
EXTENDS Integers, Sequences

CONSTANTS Cpus,        \* the core ids
          NoCore,      \* HST_UNLOCKED and HST_NO_CORE, one value in the code
          EntryCount,  \* hst_table_entries_count
          Addresses,   \* the guest addresses the instructions are used on
          LateFaults,  \* those whose next doubleword may fault or throw on its own
          Ops          \* the instructions of the guest, from AllOps

Entries == 0 .. EntryCount - 1
Words == Addresses \cup {a + 1 : a \in Addresses}

\* Fault seeded: an ordinary store does not take the lock.
StoreCodeUnlocked == <<<<"set", 0>>, <<"st", 0>>, <<"unlock", 0>>>>

\* What the generated code of each instruction does, in order.
StoreCode == <<<<"lock", 0>>, <<"set", 0>>, <<"st", 0>>, <<"unlock", 0>>>>

\* RISC-V: gen_atomic takes the lock, sets the entry and unlocks around
\* what gen_atomic_fetch_and_op or gen_atomic_compare_and_swap emits.
LrCode == <<<<"lock", 0>>, <<"reserve", 0>>, <<"ld", 0>>, <<"set", 0>>, <<"unlock", 0>>>>
ScCode == <<<<"lock", 0>>, <<"check", 0>>, <<"stx", 0>>, <<"clear", 0>>, <<"set", 0>>,
            <<"unlock", 0>>>>
AmoCode == <<<<"lock", 0>>, <<"ld", 0>>, <<"cst", 0>>, <<"set", 0>>, <<"unlock", 0>>>>

\* amocas.q is an AMO on two doublewords: only the first one's entry is used.
AmocasQCode == <<<<"lock", 0>>, <<"ld", 0>>, <<"ld", 1>>, <<"cst", 0>>, <<"cst", 1>>,
                 <<"set", 0>>, <<"unlock", 0>>>>

\* sret, mret, clrex and ARM64's exception return drop the reservation.
ClearCode == <<<<"clear", 0>>>>

\* ARM64: single registers and 32-bit pairs, then 128-bit pairs.
LdxrCode == <<<<"lock", 0>>, <<"set", 0>>, <<"ld", 0>>, <<"reserve", 0>>, <<"unlock", 0>>>>
StxrCode == <<<<"lock", 0>>, <<"check", 0>>, <<"stx", 0>>, <<"set", 0>>, <<"unlock", 0>>,
              <<"clear", 0>>>>
LdxpCode == <<<<"lock", 0>>, <<"lock", 1>>, <<"set", 1>>, <<"set", 0>>, <<"ld", 0>>,
              <<"ld", 1>>, <<"reserve", 0>>, <<"unlock", 0>>, <<"unlock", 1>>>>
\* Fault seeded: the high entry is locked first.
StxpCodeHighFirst ==
    <<<<"lock", 1>>, <<"lock", 0>>, <<"check", 0>>, <<"check", 1>>, <<"set", 1>>,
      <<"stx", 0>>, <<"stx", 1>>, <<"set", 0>>, <<"unlock", 0>>, <<"unlock", 1>>,
      <<"clear", 0>>>>

\* Fault seeded: only the low entry is checked.
StxpCodeLowCheck ==
    <<<<"lock", 0>>, <<"lock", 1>>, <<"check", 0>>, <<"check", 0>>, <<"set", 1>>,
      <<"stx", 0>>, <<"stx", 1>>, <<"set", 0>>, <<"unlock", 0>>, <<"unlock", 1>>,
      <<"clear", 0>>>>

StxpCode == <<<<"lock", 0>>, <<"lock", 1>>, <<"check", 0>>, <<"check", 1>>, <<"set", 1>>,
              <<"stx", 0>>, <<"stx", 1>>, <<"set", 0>>, <<"unlock", 0>>, <<"unlock", 1>>,
              <<"clear", 0>>>>

CaspCode == <<<<"lock", 0>>, <<"lock", 1>>, <<"ld", 0>>, <<"ld", 1>>, <<"st", 0>>,
              <<"st", 1>>, <<"set", 0>>, <<"set", 1>>, <<"unlock", 0>>, <<"unlock", 1>>>>

Code == [none |-> <<>>, store |-> StoreCode, clear |-> ClearCode, amo |-> AmoCode,
         lr |-> LrCode, sc |-> ScCode, amocas_q |-> AmocasQCode,
         ldxr |-> LdxrCode, stxr |-> StxrCode,
         ldxp |-> LdxpCode, stxp |-> StxpCode, casp |-> CaspCode]

AllOps == DOMAIN Code \ {"none"}

\* Fault seeded: a failed sc skips the unlocking.
FailTargetEnd == [sc |-> 7, stxr |-> 5, stxp |-> 9]

\* Where a failed check goes on: the fail labels of gen_sc (which only has
\* to drop the reservation) and gen_store_exclusive (which has to unlock).
FailTarget == [sc |-> 4, stxr |-> 5, stxp |-> 9]

ASSUME StoreTableAssumption ==
    /\ EntryCount \in Nat \ {0}
    /\ Addresses \subseteq Nat
    /\ LateFaults \subseteq Addresses
    /\ NoCore \notin Cpus
    /\ Ops \subseteq AllOps

VARIABLES
    last_accessed_by_core_id,  \* per entry
    entry_lock,                \* per entry, the field "lock"
    reserved_address,          \* per CPU; 0 stands for no reservation
    locked_address,            \* per CPU: locked_address (0), locked_address_high (1);
                               \* 0 stands for no lock
    phase,                     \* per CPU, where its thread is
    insn,                      \* per CPU, the instruction under way
    aborted,                   \* a CPU has aborted the program
    stale                      \* history: per CPU, the words under its reservation that
                               \* other CPUs have written and whose entry it has not set
                               \* since, by anything but a store-exclusive

tableVars == <<last_accessed_by_core_id, entry_lock>>
cpuVars == <<reserved_address, locked_address>>
vars == <<tableVars, cpuVars, phase, insn, aborted, stale>>

\* host: returned from tlib_execute; unwound: left it by an exception; top
\* and top_high: in unlock_dangling_locks; run: in generated code.
Phases == {"host", "unwound", "top", "top_high", "run"}
Idle == [op |-> "none", address |-> 0, pc |-> 1]

-----------------------------------------------------------------------------
\* gen_hash_address and address_hash: the low bits of the doubleword.
Hash(a) == a % EntryCount

\* The address of step k of c's instruction, and its entry.
Word(c, k) == insn[c].address + k
EntryOf(c, k) == Hash(Word(c, k))

\* The doublewords the reservation of c may stand for.
Covered(c) == IF reserved_address[c] = 0 THEN {}
              ELSE {reserved_address[c], reserved_address[c] + 1}

At(c, what, k) ==
    /\ phase[c] = "run" /\ ~aborted
    /\ insn[c].pc <= Len(Code[insn[c].op])
    /\ Code[insn[c].op][insn[c].pc] = <<what, k>>

Goto(c, pc) ==
    insn' = [insn EXCEPT ![c] = IF pc > Len(Code[@.op]) THEN Idle ELSE [@ EXCEPT !.pc = pc]]

Advance(c) == Goto(c, insn[c].pc + 1)

\* initialize_store_table, for a new machine.
StoreTableInit ==
    /\ last_accessed_by_core_id = [e \in Entries |-> NoCore]
    /\ entry_lock = [e \in Entries |-> NoCore]
    /\ reserved_address = [c \in Cpus |-> 0]
    /\ locked_address = [c \in Cpus |-> [k \in {0, 1} |-> 0]]
    /\ phase = [c \in Cpus |-> "host"]
    /\ insn = [c \in Cpus |-> Idle]
    /\ aborted = FALSE
    /\ stale = [c \in Cpus |-> {}]

Begin(c, op, a) ==
    /\ phase[c] = "run" /\ insn[c] = Idle /\ ~aborted
    /\ insn' = [insn EXCEPT ![c] = [op |-> op, address |-> a, pc |-> 1]]
    /\ UNCHANGED <<tableVars, cpuVars, phase, aborted, stale>>

\* gen_store_table_lock_address: the compare-and-swap is retried until the
\* entry is free, and a lock that this core holds already aborts.
Lock(c, k) ==
    /\ At(c, "lock", k)
    /\ \/ /\ entry_lock[EntryOf(c, k)] = NoCore
          /\ entry_lock' = [entry_lock EXCEPT ![EntryOf(c, k)] = c]
          /\ locked_address' = [locked_address EXCEPT ![c][k] = Word(c, k)]
          /\ Advance(c)
          /\ UNCHANGED aborted
       \/ /\ entry_lock[EntryOf(c, k)] = c
          /\ aborted' = TRUE
          /\ UNCHANGED <<entry_lock, locked_address, insn>>
    /\ UNCHANGED <<last_accessed_by_core_id, reserved_address, phase, stale>>

\* Fault seeded: the lock is reset to 0 instead of HST_UNLOCKED.
UnlockToZero(c, k) ==
    /\ At(c, "unlock", k)
    /\ entry_lock' = [entry_lock EXCEPT ![EntryOf(c, k)] = 0]
    /\ locked_address' = [locked_address EXCEPT ![c][k] = 0]
    /\ Advance(c)
    /\ UNCHANGED <<last_accessed_by_core_id, reserved_address, phase, aborted, stale>>

\* gen_store_table_unlock_address
Unlock(c, k) ==
    /\ At(c, "unlock", k)
    /\ entry_lock' = [entry_lock EXCEPT ![EntryOf(c, k)] = NoCore]
    /\ locked_address' = [locked_address EXCEPT ![c][k] = 0]
    /\ Advance(c)
    /\ UNCHANGED <<last_accessed_by_core_id, reserved_address, phase, aborted, stale>>

\* gen_store_table_set
Set(c, k) ==
    /\ At(c, "set", k)
    /\ last_accessed_by_core_id' = [last_accessed_by_core_id EXCEPT ![EntryOf(c, k)] = c]
    /\ stale' = [stale EXCEPT ![c] = {w \in @ : \/ Hash(w) # EntryOf(c, k)
                                               \/ insn[c].op \in DOMAIN FailTarget}]
    /\ Advance(c)
    /\ UNCHANGED <<entry_lock, cpuVars, phase, aborted>>

\* Fault seeded: the entry is not looked at.
CheckReservedOnly(c, k) ==
    /\ At(c, "check", k)
    /\ IF reserved_address[c] = insn[c].address
       THEN Advance(c)
       ELSE Goto(c, FailTarget[insn[c].op])
    /\ UNCHANGED <<tableVars, cpuVars, phase, aborted, stale>>

\* gen_store_table_check, for the addressed word after the comparison of
\* reserved_address.
Check(c, k) ==
    /\ At(c, "check", k)
    /\ IF /\ k = 0 => reserved_address[c] = insn[c].address
          /\ last_accessed_by_core_id[EntryOf(c, k)] = c
       THEN Advance(c)
       ELSE Goto(c, FailTarget[insn[c].op])
    /\ UNCHANGED <<tableVars, cpuVars, phase, aborted, stale>>

\* reserved_address takes a new value, and the history starts again.
SetReservation(c, a) ==
    /\ reserved_address' = [reserved_address EXCEPT ![c] = a]
    /\ stale' = [stale EXCEPT ![c] = {}]
    /\ Advance(c)
    /\ UNCHANGED <<tableVars, locked_address, phase, aborted>>

Reserve(c) == At(c, "reserve", 0) /\ SetReservation(c, insn[c].address)

ClearReservation(c) == At(c, "clear", 0) /\ SetReservation(c, 0)

\* A load that completes.
Load(c, k) ==
    /\ At(c, "ld", k)
    /\ Advance(c)
    /\ UNCHANGED <<tableVars, cpuVars, phase, aborted, stale>>

\* A store that completes.
Store(c, k) ==
    /\ \E what \in {"st", "stx", "cst"} : At(c, what, k)
    /\ stale' = [d \in Cpus |-> IF d = c THEN stale[d]
                               ELSE stale[d] \cup ({Word(c, k)} \cap Covered(d))]
    /\ Advance(c)
    /\ UNCHANGED <<tableVars, cpuVars, phase, aborted>>

\* The store of a minimum, a maximum or a compare-and-swap not performed.
SkipStore(c, k) ==
    /\ At(c, "cst", k)
    /\ Advance(c)
    /\ UNCHANGED <<tableVars, cpuVars, phase, aborted, stale>>

\* The access faults (to the top of the loop) or its handler throws.  The second
\* half of a 128-bit access does so at the addresses of LateFaults: where it is on
\* another page, or belongs to a device, whose handler may throw at either half.
Fault(c, k) ==
    /\ k = 1 => insn[c].address \in LateFaults
    /\ \E what \in {"ld", "st", "stx", "cst"} : At(c, what, k)
    /\ \E next \in {"top", "unwound"} : phase' = [phase EXCEPT ![c] = next]
    /\ insn' = [insn EXCEPT ![c] = Idle]
    /\ UNCHANGED <<tableVars, cpuVars, aborted, stale>>

\* Between instructions: an exception, an interrupt or an exit request.
LoopExit(c) ==
    /\ phase[c] = "run" /\ insn[c] = Idle /\ ~aborted
    /\ phase' = [phase EXCEPT ![c] = "top"]
    /\ UNCHANGED <<tableVars, cpuVars, insn, aborted, stale>>

\* tlib_execute calls cpu_exec, which finds work to do.  A call that finds none
\* returns before unlock_dangling_locks, and changes nothing here.
Enter(c) ==
    /\ phase[c] \in {"host", "unwound"} /\ ~aborted
    /\ phase' = [phase EXCEPT ![c] = "top"]
    /\ UNCHANGED <<tableVars, cpuVars, insn, aborted, stale>>

\* Fault seeded: the address is dropped, the entry is not freed.
UnlockDanglingForgets(c, k) ==
    /\ locked_address' = [locked_address EXCEPT ![c][k] = 0]
    /\ UNCHANGED <<tableVars, reserved_address, insn, aborted, stale>>

\* Fault seeded: only locked_address is looked at.
UnlockDanglingLow(c, k) ==
    /\ IF k = 0 /\ locked_address[c][k] # 0
       THEN LET e == Hash(locked_address[c][k])
            IN /\ locked_address' = [locked_address EXCEPT ![c][k] = 0]
               /\ entry_lock' = [entry_lock EXCEPT ![e] = IF @ = c THEN NoCore ELSE @]
       ELSE UNCHANGED <<locked_address, entry_lock>>
    /\ UNCHANGED <<last_accessed_by_core_id, reserved_address, insn, aborted, stale>>

\* unlock_dangling_locks, first for locked_address, then for
\* locked_address_high: the entry is freed if this core holds it.
UnlockDangling(c, k) ==
    /\ IF locked_address[c][k] # 0
       THEN LET e == Hash(locked_address[c][k])
            IN /\ locked_address' = [locked_address EXCEPT ![c][k] = 0]
               /\ entry_lock' = [entry_lock EXCEPT ![e] = IF @ = c THEN NoCore ELSE @]
       ELSE UNCHANGED <<locked_address, entry_lock>>
    /\ UNCHANGED <<last_accessed_by_core_id, reserved_address, insn, aborted, stale>>

UnlockDanglingLocks(c) ==
    /\ ~aborted
    /\ \/ /\ phase[c] = "top"
          /\ phase' = [phase EXCEPT ![c] = "top_high"]
          /\ UnlockDangling(c, 0)
       \/ /\ phase[c] = "top_high"
          /\ \E next \in {"run", "host"} : phase' = [phase EXCEPT ![c] = next]
          /\ UnlockDangling(c, 1)

\* The steps of the instruction under way.
Execute(c) ==
    \/ Reserve(c)
    \/ ClearReservation(c)
    \/ \E k \in {0, 1} :
          \/ Lock(c, k)
          \/ Unlock(c, k)
          \/ Set(c, k)
          \/ Check(c, k)
          \/ Load(c, k)
          \/ Store(c, k)
          \/ SkipStore(c, k)
          \/ Fault(c, k)

StoreTableNext ==
    \E c \in Cpus :
        \/ \E op \in Ops, a \in Addresses : Begin(c, op, a)
        \/ Execute(c)
        \/ LoopExit(c)
        \/ Enter(c)
        \/ UnlockDanglingLocks(c)

StoreTableSpec == StoreTableInit /\ [][StoreTableNext]_vars

\* A thread goes on with its instruction and with cpu_exec, and the host
\* executes every CPU again until it has work to do.  No thread has to begin another instruction.
FairStoreTableSpec ==
    /\ StoreTableSpec
    /\ \A c \in Cpus : /\ WF_vars(Execute(c))
                       /\ WF_vars(UnlockDanglingLocks(c))
                       /\ WF_vars(Enter(c))

-----------------------------------------------------------------------------
(* Properties. *)

StoreTableTypeOK ==
    /\ last_accessed_by_core_id \in [Entries -> Cpus \cup {NoCore}]
    /\ entry_lock \in [Entries -> Cpus \cup {NoCore}]
    /\ reserved_address \in [Cpus -> Addresses \cup {0}]
    /\ locked_address \in [Cpus -> [{0, 1} -> Words \cup {0}]]
    /\ phase \in [Cpus -> Phases]
    /\ insn \in [Cpus -> [op : Ops, address : Addresses, pc : 1 .. 11] \cup {Idle}]
    /\ aborted \in BOOLEAN
    /\ stale \in [Cpus -> SUBSET Words]

\* A core tests and sets an entry, writes a word of it and unlocks it only
\* while it holds the entry's lock: what ensure_entry_locked asserts in debug
\* builds, and what the comments above the generators assume of stores.
EntryHeldInside ==
    \A c \in Cpus, k \in {0, 1} :
        (\E what \in {"set", "check", "st", "stx", "cst", "unlock"} : At(c, what, k))
            => entry_lock[EntryOf(c, k)] = c

\* No core ever tries to lock an entry it holds: "locks are not reentrant",
\* and the attempt aborts the program.
NeverReentrant == ~aborted

\* A core that is between instructions, or has returned to the host, holds
\* no entry, whatever faults and unwindings came before: unlock_dangling_locks
\* has freed every lock an interrupted instruction left.
NoDanglingLocks ==
    \A c \in Cpus :
        phase[c] = "host" \/ (phase[c] = "run" /\ insn[c] = Idle)
            => \A e \in Entries : entry_lock[e] # c

\* A store-exclusive that is about to store has itself set the entry after
\* every write of another core to the word under its reservation: no foreign
\* store goes unnoticed by the check unless the core has covered it itself.
WritesAreNoticed ==
    \A c \in Cpus, k \in {0, 1} : At(c, "stx", k) => Word(c, k) \notin stale[c]

\* No group of cores waits for each other's entries, although a 128-bit
\* access holds one entry while it waits for the next one.
NoWaitCycle ==
    \A group \in (SUBSET Cpus) \ {{}} :
        ~ \A c \in group : \E k \in {0, 1} :
              At(c, "lock", k) /\ entry_lock[EntryOf(c, k)] \in group

\* An entry that is locked is unlocked, also when its instruction was
\* interrupted; nobody spins for ever behind one owner.
EntryIsReleased ==
    \A c \in Cpus, e \in Entries : entry_lock[e] = c ~> entry_lock[e] # c
=============================================================================
