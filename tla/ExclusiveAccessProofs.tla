----------------------- MODULE ExclusiveAccessProofs ------------------------
(***************************************************************************)
(* Proofs about the composition of the lock, the reservation table and     *)
(* guest memory, for any number of CPUs, addresses and values.  A step of  *)
(* an instruction is a step of the lock or leaves it alone, and a step of  *)
(* the table or leaves it alone: the invariants of the two components      *)
(* carry over, and what remains is where each CPU is in its instruction.   *)
(***************************************************************************)
EXTENDS ExclusiveAccess, AddressReservationsProofs

L == INSTANCE GlobalMemoryLockProofs WITH NoCpu <- NO_CPU_ID

\* The sections a CPU is inside of before step p of the instruction op.
DepthAt(p, op) ==
    IF p = "idle" THEN 0
    ELSE IF p \in {"store", "write"} THEN IF op = "strex" THEN 1 ELSE 0
    ELSE IF p \in {"access", "walk", "store_release"} THEN IF op = "strex" THEN 2 ELSE 1
    ELSE 1

StoreSteps == {"store", "access", "walk", "store_release", "write"}

\* Where a CPU's thread is and where its instruction is: it runs at the depth
\* of its step, waits only for the outermost section of an instruction, and is
\* outside of generated code only between instructions.
Control(ph, dp, p, op) ==
    /\ ph = "run" => dp = DepthAt(p, op)
    /\ ph \in {"wait", "woken"} =>
          p \in {"ldrex_load", "clrex_cancel", "strex_check", "access"} /\ DepthAt(p, op) = 1
    /\ ph \in {"host", "top"} => p = "idle"
    /\ p \in {"strex_check", "strex_load", "strex_end"} => op = "strex"
    /\ p \in StoreSteps => op \in {"store", "strex"}

ControlInv == \A c \in Cpus : Control(phase[c], depth[c], pc[c], insn[c].op)

\* A walk over the table is the step of its CPU.
WalkInv == \A c \in Cpus : walk[c] # None <=> pc[c] = "walk"

\* Each kind of instruction keeps to its addresses.
AddressInv ==
    \A c \in Cpus : /\ insn[c].op = "strex" => insn[c].address \in ExclusiveAddresses
                    /\ insn[c].op = "store" => insn[c].address \in PlainAddresses

ExclusiveInv == /\ ExclusiveTypeOK
                /\ L!LockInv
                /\ ResInv
                /\ ControlInv
                /\ WalkInv
                /\ AddressInv
                /\ ReservationHeldToStore

-----------------------------------------------------------------------------
(* The lock. *)

LEMMA LockConstants ==
    /\ NO_CPU_ID \notin Cpus
    /\ MaxNested \in Nat
    /\ EntriesModulus \in Nat /\ EntriesModulus > MaxNested + 1
    /\ RegisterWhileRunning \in BOOLEAN
BY ExclusiveAssumption DEF NO_CPU_ID, Cpus

\* The lock of this composition is the one GlobalMemoryLockProofs is about.
LEMMA LockIsTheLock ==
    ASSUME NEW c \in Cpus
    PROVE  /\ Register(c) <=> L!Register(c)
           /\ Enter(c) <=> L!Enter(c)
           /\ UnlockDanglingLocks(c) <=> L!UnlockDanglingLocks(c)
           /\ LoopExit(c) <=> L!LoopExit(c)
           /\ Unwind(c) <=> L!Unwind(c)
           /\ AcquireGlobalMemoryLock(c) <=> L!AcquireGlobalMemoryLock(c)
           /\ SpuriousWakeup(c) <=> L!SpuriousWakeup(c)
           /\ Retest(c) <=> L!Retest(c)
           /\ ReleaseGlobalMemoryLock(c) <=> L!ReleaseGlobalMemoryLock(c)
<1>1. AreMultipleCpusRegistered <=> L!AreMultipleCpusRegistered
  BY DEF AreMultipleCpusRegistered, L!AreMultipleCpusRegistered
<1>2. \A ph : Signal(ph) <=> L!Signal(ph)
  BY DEF Signal, L!Signal
<1>3. EnterSection(c) <=> L!EnterSection(c)
  BY DEF EnterSection, L!EnterSection
<1>4. lockState = L!lockState /\ (UNCHANGED lockState <=> UNCHANGED L!lockState)
  BY DEF lockState, L!lockState
<1>5. Register(c) <=> L!Register(c)
  BY <1>4 DEF Register, L!Register, lockState, L!lockState
<1>6. /\ Enter(c) <=> L!Enter(c)
      /\ LoopExit(c) <=> L!LoopExit(c)
      /\ Unwind(c) <=> L!Unwind(c)
      /\ SpuriousWakeup(c) <=> L!SpuriousWakeup(c)
  BY DEF Enter, L!Enter, LoopExit, L!LoopExit, Unwind, L!Unwind, SpuriousWakeup, L!SpuriousWakeup, lockState, L!lockState
<1>7. \A next : ClearGlobalMemoryLock(c, next) <=> L!ClearGlobalMemoryLock(c, next)
  BY <1>1, <1>2 DEF ClearGlobalMemoryLock, L!ClearGlobalMemoryLock, lockState, L!lockState
<1>8. UnlockDanglingLocks(c) <=> L!UnlockDanglingLocks(c)
  BY <1>7 DEF UnlockDanglingLocks, L!UnlockDanglingLocks, lockState, L!lockState
<1>9. AcquireGlobalMemoryLock(c) <=> L!AcquireGlobalMemoryLock(c)
  BY <1>1, <1>3 DEF AcquireGlobalMemoryLock, L!AcquireGlobalMemoryLock, lockState, L!lockState
<1>10. Retest(c) <=> L!Retest(c)
  BY <1>3 DEF Retest, L!Retest, lockState, L!lockState
<1>11. ReleaseGlobalMemoryLock(c) <=> L!ReleaseGlobalMemoryLock(c)
  BY <1>1, <1>2 DEF ReleaseGlobalMemoryLock, L!ReleaseGlobalMemoryLock, lockState, L!lockState
<1> QED
  BY <1>5, <1>6, <1>8, <1>9, <1>10, <1>11

\* A step of an instruction takes a step of the lock, or none.
LEMMA LockStep == [ExclusiveNext]_vars => [L!LockNext]_(L!lvars)
<1> SUFFICES ASSUME [ExclusiveNext]_vars PROVE L!LockNext \/ UNCHANGED lock
  BY DEF lock, L!lvars
<1>1. CASE UNCHANGED vars
  BY <1>1 DEF vars
<1>2. CASE ExclusiveNext
  <2>1. PICK c \in Cpus :
          \/ \E a \in ExclusiveAddresses :
                \/ LdrexAcquire(c, a)
                \/ \E v \in Values : StrexAcquire(c, a, v)
          \/ \E a \in PlainAddresses, v \in Values : BeginStore(c, a, v)
          \/ LdrexLoad(c) \/ LdrexReserve(c)
          \/ ClrexAcquire(c) \/ ClrexCancel(c)
          \/ StrexCheck(c) \/ StrexLoad(c) \/ StrexEnd(c)
          \/ InsnRelease(c)
          \/ FastStore(c) \/ SlowStore(c) \/ SlowStoreAccess(c) \/ SlowStoreWalk(c)
          \/ SlowStoreRelease(c) \/ SlowStoreWrite(c)
          \/ Abandon(c)
          \/ Surroundings(c)
    BY <1>2 DEF ExclusiveNext
  <2>2. \/ UNCHANGED lock
        \/ AcquireGlobalMemoryLock(c)
        \/ ReleaseGlobalMemoryLock(c)
        \/ LoopExit(c) \/ Unwind(c)
        \/ Register(c) \/ Enter(c) \/ UnlockDanglingLocks(c)
        \/ SpuriousWakeup(c) \/ Retest(c)
    BY <2>1 DEF LdrexAcquire, StrexAcquire, BeginStore, LdrexLoad, LdrexReserve, ClrexAcquire,
       ClrexCancel, StrexCheck, StrexLoad, StrexEnd, InsnRelease, FastStore, StoreToMemory,
       SlowStore, SlowStoreAccess, SlowStoreWalk, SlowStoreRelease, SlowStoreWrite, Abandon,
       Surroundings
  <2> QED
    BY <2>2, LockIsTheLock DEF L!LockNext
<1> QED
  BY <1>1, <1>2

\* Nobody else is inside a section.
LEMMA Alone ==
    ASSUME L!LockInv, NEW c \in Cpus, NEW d \in Cpus, depth[c] > 0, depth[d] > 0
    PROVE  c = d
<1>1. c \in registered /\ d \in registered
  BY DEF L!LockInv, L!PhaseInv
<1>2. CASE L!AreMultipleCpusRegistered
  BY <1>2 DEF L!LockInv, L!OwnerInv
<1>3. CASE ~L!AreMultipleCpusRegistered
  BY <1>1, <1>3 DEF L!AreMultipleCpusRegistered
<1> QED
  BY <1>2, <1>3

\* What the lock's steps do to where the threads are: the others stay where
\* they are, but for a waiting one that is signalled.
Others(c) ==
    \A d \in Cpus \ {c} :
        /\ depth'[d] = depth[d]
        /\ phase'[d] = phase[d] \/ (phase[d] = "wait" /\ phase'[d] = "woken")

LEMMA SignalMoves ==
    ASSUME NEW ph \in [Cpus -> Phases], Signal(ph)
    PROVE  \A d \in Cpus : phase'[d] = ph[d] \/ (ph[d] = "wait" /\ phase'[d] = "woken")
BY DEF Signal

LEMMA AcquireMoves ==
    ASSUME ExclusiveTypeOK, L!LockInv, NEW c \in Cpus, AcquireGlobalMemoryLock(c)
    PROVE  /\ Others(c)
           /\ \/ phase'[c] = "run" /\ depth'[c] = depth[c] + 1
              \/ phase'[c] = "wait" /\ depth[c] = 0
<1>1. phase \in [Cpus -> Phases] /\ depth \in [Cpus -> 0 .. MaxNested + 1] /\ phase[c] = "run"
  BY DEF ExclusiveTypeOK, LockTypeOK, AcquireGlobalMemoryLock
<1>2. AreMultipleCpusRegistered /\ locking_cpu_id # c => depth[c] = 0
  BY <1>1, LockConstants DEF L!LockInv, L!OwnerInv, AreMultipleCpusRegistered, L!AreMultipleCpusRegistered
<1> QED
  BY <1>1, <1>2 DEF AcquireGlobalMemoryLock, EnterSection, lockState, Others

LEMMA RetestMoves ==
    ASSUME ExclusiveTypeOK, L!LockInv, NEW c \in Cpus, Retest(c)
    PROVE  /\ Others(c)
           /\ \/ phase'[c] = "run" /\ depth'[c] = 1
              \/ phase'[c] = "wait"
<1>1. phase \in [Cpus -> Phases] /\ depth \in [Cpus -> 0 .. MaxNested + 1] /\ phase[c] = "woken"
  BY DEF ExclusiveTypeOK, LockTypeOK, Retest
<1>2. depth[c] = 0
  BY <1>1 DEF L!LockInv, L!PhaseInv
<1> QED
  BY <1>1, <1>2 DEF Retest, EnterSection, lockState, Others

LEMMA ReleaseMoves ==
    ASSUME ExclusiveTypeOK, NEW c \in Cpus, ReleaseGlobalMemoryLock(c)
    PROVE  Others(c) /\ phase'[c] = "run" /\ depth'[c] = depth[c] - 1
<1>1. phase \in [Cpus -> Phases] /\ depth \in [Cpus -> 0 .. MaxNested + 1] /\ phase[c] = "run"
  BY DEF ExclusiveTypeOK, LockTypeOK, ReleaseGlobalMemoryLock
<1>2. \A d \in Cpus : phase'[d] = phase[d] \/ (phase[d] = "wait" /\ phase'[d] = "woken")
  BY <1>1, SignalMoves DEF ReleaseGlobalMemoryLock, lockState
<1>3. depth' = [depth EXCEPT ![c] = depth[c] - 1]
  BY DEF ReleaseGlobalMemoryLock
<1> QED
  BY <1>1, <1>2, <1>3 DEF Others

LEMMA UnlockMoves ==
    ASSUME ExclusiveTypeOK, NEW c \in Cpus, UnlockDanglingLocks(c)
    PROVE  Others(c) /\ phase'[c] \in {"run", "host"} /\ depth'[c] = depth[c] /\ phase[c] = "top"
<1>1. phase \in [Cpus -> Phases] /\ phase[c] = "top" /\ UNCHANGED depth
  BY DEF ExclusiveTypeOK, LockTypeOK, UnlockDanglingLocks
<1>2. PICK next \in {"run", "host"} :
        phase' = [phase EXCEPT ![c] = next] \/ Signal([phase EXCEPT ![c] = next])
  BY DEF UnlockDanglingLocks, ClearGlobalMemoryLock
<1>3. PICK ph \in [Cpus -> Phases] : ph = [phase EXCEPT ![c] = next]
  BY <1>1 DEF Phases
<1>4. \A d \in Cpus : phase'[d] = ph[d] \/ (ph[d] = "wait" /\ phase'[d] = "woken")
  BY <1>2, <1>3, SignalMoves
<1>5. ph[c] = next /\ \A d \in Cpus \ {c} : ph[d] = phase[d]
  BY <1>1, <1>3
<1> QED
  BY <1>1, <1>4, <1>5 DEF Others

LEMMA OtherMoves ==
    ASSUME ExclusiveTypeOK, NEW c \in Cpus
    PROVE  /\ LoopExit(c) \/ Unwind(c) => Others(c) /\ phase'[c] \in {"top", "host"}
           /\ Register(c) => UNCHANGED <<phase, depth>>
           /\ Enter(c) => Others(c) /\ phase'[c] = "top" /\ phase[c] = "host"
           /\ SpuriousWakeup(c) => Others(c) /\ phase'[c] = "woken" /\ phase[c] = "wait"
<1>1. phase \in [Cpus -> Phases] /\ depth \in [Cpus -> 0 .. MaxNested + 1]
  BY DEF ExclusiveTypeOK, LockTypeOK
<1> QED
  BY <1>1 DEF LoopExit, Unwind, Register, Enter, SpuriousWakeup, Others, lockState

-----------------------------------------------------------------------------
(* The table. *)

\* A CPU inside a section is the only one that can be walking the table.
LEMMA OnlyWalker ==
    ASSUME ExclusiveInv, NEW c \in Cpus, depth[c] > 0, NEW d \in Cpus, walk[d] # None
    PROVE  c = d
<1>1. pc[d] = "walk"
  BY DEF ExclusiveInv, WalkInv
<1>2. phase[d] \in Phases
  BY DEF ExclusiveInv, ExclusiveTypeOK, LockTypeOK
<1>3. depth[d] > 0
  BY <1>1, <1>2 DEF ExclusiveInv, ControlInv, Control, DepthAt, Phases
<1> QED
  BY <1>3, Alone DEF ExclusiveInv

\* The depth at a step of the running CPU.
LEMMA DepthHere ==
    ASSUME ExclusiveInv, NEW c \in Cpus, phase[c] = "run"
    PROVE  depth[c] = DepthAt(pc[c], insn[c].op)
BY DEF ExclusiveInv, ControlInv, Control

\* Every call into the table is one operation at a time.
LEMMA TableStep == ExclusiveInv /\ [ExclusiveNext]_vars => [ResNext]_rvars
<1> SUFFICES ASSUME ExclusiveInv, [ExclusiveNext]_vars, ~(UNCHANGED rvars) PROVE ResNext
  OBVIOUS
<1>1. PICK c \in Cpus :
        \/ LdrexReserve(c) \/ ClrexCancel(c) \/ StrexEnd(c)
        \/ SlowStoreAccess(c) \/ SlowStoreWalk(c)
  BY DEF ExclusiveNext, LdrexAcquire, StrexAcquire, BeginStore, LdrexLoad, ClrexAcquire,
     StrexCheck, StrexLoad, InsnRelease, FastStore, StoreToMemory, SlowStore, SlowStoreRelease,
     SlowStoreWrite, Abandon, Surroundings, vars
<1>2. Running /\ insn[c].address \in Addresses
  BY <1>1 DEF LdrexReserve, ClrexCancel, StrexEnd, SlowStoreAccess, SlowStoreWalk, At,
     ExclusiveInv, ExclusiveTypeOK, Insns
<1>3. CASE SlowStoreWalk(c)
  BY <1>3 DEF SlowStoreWalk, ResNext
<1>4. CASE ~SlowStoreWalk(c)
  <2>1. phase[c] = "run" /\ pc[c] \in {"ldrex_reserve", "clrex_cancel", "strex_end", "access"}
    BY <1>1, <1>4 DEF LdrexReserve, ClrexCancel, StrexEnd, SlowStoreAccess, At
  <2>2. depth[c] > 0
    BY <2>1, DepthHere DEF DepthAt
  <2>3. Quiet
    <3> SUFFICES ASSUME NEW d \in Cpus, walk[d] # None PROVE FALSE
      BY DEF Quiet
    <3>1. c = d
      BY <2>2, OnlyWalker
    <3> QED
      BY <2>1, <3>1 DEF ExclusiveInv, WalkInv
  <2>4. LdrexReserve(c) => Reserve(c, insn[c].address, TRUE)
    BY <1>2, <2>3 DEF LdrexReserve, Reserve
  <2>5. ClrexCancel(c) \/ StrexEnd(c) => Cancel(c)
    BY <1>2, <2>3 DEF ClrexCancel, StrexEnd, Cancel
  <2>6. SlowStoreAccess(c) => RegisterAddressAccess(c, insn[c].address)
    BY <1>2, <2>3 DEF SlowStoreAccess, RegisterAddressAccess
  <2> QED
    BY <1>1, <1>2, <1>4, <2>4, <2>5, <2>6 DEF ResNext
<1> QED
  BY <1>3, <1>4

-----------------------------------------------------------------------------
(* The instructions. *)

\* The invariants of the two components carry over.
LEMMA ComponentsStep ==
    ASSUME ~RegisterWhileRunning, ExclusiveInv, [ExclusiveNext]_vars
    PROVE  L!LockInv' /\ ResInv'
<1>1. L!LockInv /\ [L!LockNext]_(L!lvars) => L!LockInv'
  BY L!LockNextInv, LockConstants
<1> QED
  BY <1>1, LockStep, TableStep, ResNextInv DEF ExclusiveInv

LEMMA TypeStep ==
    ASSUME ExclusiveInv, [ExclusiveNext]_vars, L!LockInv', ResInv'
    PROVE  ExclusiveTypeOK'
<1>1. LockTypeOK' /\ ResTypeOK'
  BY DEF L!LockInv, L!LockTypeOK, LockTypeOK, L!Phases, Phases, ResInv
<1>2. /\ memory \in [Addresses -> Values] /\ exclusive_val \in [Cpus -> Values]
      /\ pc \in [Cpus -> Steps] /\ insn \in [Cpus -> Insns]
  BY DEF ExclusiveInv, ExclusiveTypeOK
<1>3. (memory \in [Addresses -> Values])'
  <2>1. memory' = memory \/ \E c \in Cpus : StoreToMemory(c)
    BY DEF ExclusiveNext, LdrexAcquire, StrexAcquire, BeginStore, LdrexLoad, LdrexReserve,
       ClrexAcquire, ClrexCancel, StrexCheck, StrexLoad, StrexEnd, InsnRelease, FastStore,
       SlowStore, SlowStoreAccess, SlowStoreWalk, SlowStoreRelease, SlowStoreWrite, Abandon,
       Surroundings, guest, vars
  <2> QED
    BY <1>2, <2>1 DEF StoreToMemory, Insns
<1>4. (exclusive_val \in [Cpus -> Values])'
  <2>1. \/ exclusive_val' = exclusive_val
        \/ \E c \in Cpus : LdrexLoad(c) \/ ClrexAcquire(c) \/ StrexEnd(c)
    BY DEF ExclusiveNext, LdrexAcquire, StrexAcquire, BeginStore, LdrexReserve,
       ClrexCancel, StrexCheck, StrexLoad, InsnRelease, FastStore, StoreToMemory,
       SlowStore, SlowStoreAccess, SlowStoreWalk, SlowStoreRelease, SlowStoreWrite, Abandon,
       Surroundings, guest, vars
  <2> QED
    BY <1>2, <2>1, ExclusiveAssumption DEF LdrexLoad, ClrexAcquire, StrexEnd, Insns
<1>5. (pc \in [Cpus -> Steps])'
  <2>1. pc' = pc \/ \E c \in Cpus, p \in Steps : pc' = [pc EXCEPT ![c] = p]
    BY DEF ExclusiveNext, LdrexAcquire, StrexAcquire, BeginStore, LdrexLoad, LdrexReserve,
       ClrexAcquire, ClrexCancel, StrexCheck, StrexLoad, StrexEnd, InsnRelease, FastStore, StoreToMemory,
       SlowStore, SlowStoreAccess, SlowStoreWalk, SlowStoreRelease, SlowStoreWrite, Abandon,
       Surroundings, vars, Goto, Steps
  <2> QED
    BY <1>2, <2>1
<1>6. (insn \in [Cpus -> Insns])'
  <2>1. \/ insn' = insn
        \/ \E c \in Cpus : \/ \E a \in ExclusiveAddresses :
                                \/ LdrexAcquire(c, a)
                                \/ \E v \in Values : StrexAcquire(c, a, v)
                           \/ \E a \in PlainAddresses, v \in Values : BeginStore(c, a, v)
                           \/ ClrexAcquire(c)
    BY DEF ExclusiveNext, LdrexLoad, LdrexReserve, ClrexCancel, StrexCheck, StrexLoad, StrexEnd,
       InsnRelease, FastStore, StoreToMemory, SlowStore, SlowStoreAccess, SlowStoreWalk,
       SlowStoreRelease, SlowStoreWrite, Abandon, Surroundings, vars
  <2>2. ASSUME NEW c \in Cpus, NEW a \in ExclusiveAddresses, LdrexAcquire(c, a)
        PROVE  insn' \in [Cpus -> Insns]
    BY <1>2, <2>2, ExclusiveAssumption DEF LdrexAcquire, Insns
  <2>3. ASSUME NEW c \in Cpus, NEW a \in ExclusiveAddresses, NEW v \in Values, StrexAcquire(c, a, v)
        PROVE  insn' \in [Cpus -> Insns]
    BY <1>2, <2>3, ExclusiveAssumption DEF StrexAcquire, Insns
  <2>4. ASSUME NEW c \in Cpus, NEW a \in PlainAddresses, NEW v \in Values, BeginStore(c, a, v)
        PROVE  insn' \in [Cpus -> Insns]
    BY <1>2, <2>4, ExclusiveAssumption DEF BeginStore, Insns
  <2>5. ASSUME NEW c \in Cpus, ClrexAcquire(c) PROVE insn' \in [Cpus -> Insns]
    BY <1>2, <2>5 DEF ClrexAcquire, Insns
  <2> QED
    BY <1>2, <2>1, <2>2, <2>3, <2>4, <2>5
<1> QED
  BY <1>1, <1>3, <1>4, <1>5, <1>6 DEF ExclusiveTypeOK

\* The other CPUs stay where they are in their instructions.
Apart(c) ==
    \A d \in Cpus \ {c} : pc'[d] = pc[d] /\ insn'[d] = insn[d]

\* A step of c keeps the relation for c itself and moves the others at most
\* from waiting to woken.
LEMMA ControlKept ==
    ASSUME ControlInv, NEW c \in Cpus, Apart(c),
           Others(c) \/ UNCHANGED <<phase, depth>>,
           Control(phase'[c], depth'[c], pc'[c], insn'[c].op)
    PROVE  ControlInv'
<1>1. ASSUME NEW d \in Cpus \ {c}
      PROVE  Control(phase'[d], depth'[d], pc'[d], insn'[d].op)
  <2>1. /\ pc'[d] = pc[d] /\ insn'[d] = insn[d] /\ depth'[d] = depth[d]
        /\ phase'[d] = phase[d] \/ (phase[d] = "wait" /\ phase'[d] = "woken")
    BY <1>1 DEF Apart, Others
  <2>2. Control(phase[d], depth[d], pc[d], insn[d].op)
    BY <1>1 DEF ControlInv
  <2> QED
    BY <2>1, <2>2 DEF Control
<1> QED
  BY <1>1 DEF ControlInv

LEMMA ApartStep ==
    ASSUME ExclusiveTypeOK, NEW c \in Cpus
    PROVE  /\ \A p : Goto(c, p) => pc'[c] = p /\ \A d \in Cpus \ {c} : pc'[d] = pc[d]
           /\ \A r : insn' = [insn EXCEPT ![c] = r]
                        => insn'[c] = r /\ \A d \in Cpus \ {c} : insn'[d] = insn[d]
BY DEF ExclusiveTypeOK, Goto

\* Starting a section: the step it leads to is one a CPU may wait before.
LEMMA AcquireControl ==
    ASSUME ExclusiveInv, NEW c \in Cpus, AcquireGlobalMemoryLock(c),
           NEW p \in {"ldrex_load", "clrex_cancel", "strex_check", "access"}, Goto(c, p),
           Apart(c),
           DepthAt(p, insn'[c].op) = depth[c] + 1,
           p = "strex_check" => insn'[c].op = "strex",
           p = "access" => insn'[c].op \in {"store", "strex"}
    PROVE  ControlInv'
<1>1. ExclusiveTypeOK /\ L!LockInv /\ ControlInv
  BY DEF ExclusiveInv
<1>2. pc'[c] = p
  BY <1>1, ApartStep
<1>3. /\ Others(c)
      /\ \/ phase'[c] = "run" /\ depth'[c] = depth[c] + 1
         \/ phase'[c] = "wait" /\ depth[c] = 0
  BY <1>1, AcquireMoves
<1>4. Control(phase'[c], depth'[c], pc'[c], insn'[c].op)
  BY <1>2, <1>3 DEF Control, StoreSteps
<1> QED
  BY <1>1, <1>3, <1>4, ControlKept

LEMMA AcquiringSteps ==
    ASSUME ExclusiveInv, NEW c \in Cpus,
           \/ \E a \in ExclusiveAddresses :
                \/ LdrexAcquire(c, a)
                \/ \E v \in Values : StrexAcquire(c, a, v)
           \/ ClrexAcquire(c)
           \/ SlowStore(c)
    PROVE  ControlInv'
<1>1. ExclusiveTypeOK /\ L!LockInv /\ ControlInv /\ insn \in [Cpus -> Insns] /\ insn[c] \in Insns
  BY DEF ExclusiveInv, ExclusiveTypeOK
<1>2. ASSUME NEW a \in ExclusiveAddresses, LdrexAcquire(c, a) PROVE ControlInv'
  <2>1. AcquireGlobalMemoryLock(c) /\ Goto(c, "ldrex_load") /\ phase[c] = "run" /\ pc[c] = "idle"
    BY <1>2 DEF LdrexAcquire, At
  <2>2. insn' = [insn EXCEPT ![c] = [insn[c] EXCEPT !.op = "ldrex", !.address = a]]
    BY <1>2 DEF LdrexAcquire
  <2>3. Apart(c)
    BY <1>1, <2>1, <2>2, ApartStep DEF Apart
  <2>4. depth[c] = 0
    BY <2>1, DepthHere DEF DepthAt
  <2>5. DepthAt("ldrex_load", insn'[c].op) = depth[c] + 1
    BY <2>4 DEF DepthAt
  <2>6. PICK p \in {"ldrex_load", "clrex_cancel", "strex_check", "access"} : p = "ldrex_load"
    OBVIOUS
  <2> QED
    BY <2>1, <2>3, <2>5, <2>6, AcquireControl
<1>3. ASSUME NEW a \in ExclusiveAddresses, NEW v \in Values, StrexAcquire(c, a, v) PROVE ControlInv'
  <2>1. AcquireGlobalMemoryLock(c) /\ Goto(c, "strex_check") /\ phase[c] = "run" /\ pc[c] = "idle"
    BY <1>3 DEF StrexAcquire, At
  <2>2. insn' = [insn EXCEPT ![c] = [op |-> "strex", address |-> a, value |-> v]]
    BY <1>3 DEF StrexAcquire
  <2>3. Apart(c) /\ insn'[c].op = "strex"
    BY <1>1, <2>1, <2>2, ApartStep DEF Apart
  <2>4. depth[c] = 0
    BY <2>1, DepthHere DEF DepthAt
  <2>5. DepthAt("strex_check", insn'[c].op) = depth[c] + 1
    BY <2>4 DEF DepthAt
  <2>6. PICK p \in {"ldrex_load", "clrex_cancel", "strex_check", "access"} : p = "strex_check"
    OBVIOUS
  <2> QED
    BY <2>1, <2>3, <2>5, <2>6, AcquireControl
<1>4. CASE ClrexAcquire(c)
  <2>1. AcquireGlobalMemoryLock(c) /\ Goto(c, "clrex_cancel") /\ phase[c] = "run" /\ pc[c] = "idle"
    BY <1>4 DEF ClrexAcquire, At
  <2>2. insn' = [insn EXCEPT ![c] = [insn[c] EXCEPT !.op = "clrex"]]
    BY <1>4 DEF ClrexAcquire
  <2>3. Apart(c)
    BY <1>1, <2>1, <2>2, ApartStep DEF Apart
  <2>4. depth[c] = 0
    BY <2>1, DepthHere DEF DepthAt
  <2>5. DepthAt("clrex_cancel", insn'[c].op) = depth[c] + 1
    BY <2>4 DEF DepthAt
  <2>6. PICK p \in {"ldrex_load", "clrex_cancel", "strex_check", "access"} : p = "clrex_cancel"
    OBVIOUS
  <2> QED
    BY <2>1, <2>3, <2>5, <2>6, AcquireControl
<1>5. CASE SlowStore(c)
  <2>1. AcquireGlobalMemoryLock(c) /\ Goto(c, "access") /\ phase[c] = "run" /\ pc[c] = "store"
        /\ insn' = insn
    BY <1>5 DEF SlowStore, At
  <2>2. Apart(c)
    BY <1>1, <2>1, ApartStep DEF Apart
  <2>3. depth[c] = DepthAt("store", insn[c].op) /\ insn[c].op \in {"store", "strex"}
    BY <1>1, <2>1 DEF ControlInv, Control, StoreSteps
  <2>4. DepthAt("access", insn'[c].op) = depth[c] + 1
    BY <2>1, <2>3 DEF DepthAt
  <2>5. PICK p \in {"ldrex_load", "clrex_cancel", "strex_check", "access"} : p = "access"
    OBVIOUS
  <2> QED
    BY <2>1, <2>2, <2>3, <2>4, <2>5, AcquireControl
<1> QED
  BY <1>2, <1>3, <1>4, <1>5

\* The steps that leave the lock alone go on at the same depth.
LEMMA QuietSteps ==
    ASSUME ExclusiveInv, NEW c \in Cpus,
           \/ LdrexLoad(c) \/ LdrexReserve(c) \/ ClrexCancel(c)
           \/ StrexCheck(c) \/ StrexLoad(c) \/ StrexEnd(c)
           \/ FastStore(c) \/ SlowStoreAccess(c) \/ SlowStoreWalk(c) \/ SlowStoreWrite(c)
           \/ \E a \in PlainAddresses, v \in Values : BeginStore(c, a, v)
    PROVE  ControlInv'
<1>1. ExclusiveTypeOK /\ ControlInv /\ insn \in [Cpus -> Insns] /\ pc \in [Cpus -> Steps]
  BY DEF ExclusiveInv, ExclusiveTypeOK
<1>2. UNCHANGED <<phase, depth>> /\ phase[c] = "run"
  BY DEF LdrexLoad, LdrexReserve, ClrexCancel, StrexCheck, StrexLoad, StrexEnd, FastStore,
     SlowStoreAccess, SlowStoreWalk, SlowStoreWrite, StoreToMemory, BeginStore, At, lock
<1>3. Control("run", depth[c], pc[c], insn[c].op)
  BY <1>1, <1>2 DEF ControlInv
<1>4. ASSUME NEW a \in PlainAddresses, NEW v \in Values, BeginStore(c, a, v)
      PROVE  Apart(c) /\ Control("run", depth[c], pc'[c], insn'[c].op)
  <2>1. Goto(c, "store") /\ pc[c] = "idle"
        /\ insn' = [insn EXCEPT ![c] = [op |-> "store", address |-> a, value |-> v]]
    BY <1>4 DEF BeginStore, At
  <2>2. Apart(c) /\ pc'[c] = "store" /\ insn'[c].op = "store"
    BY <1>1, <2>1, ApartStep DEF Apart
  <2> QED
    BY <1>3, <2>1, <2>2 DEF Control, DepthAt, StoreSteps
<1>5. CASE insn' = insn
  <2>1. PICK p : /\ pc' = [pc EXCEPT ![c] = p]
                 /\ \/ pc[c] = "ldrex_load" /\ p = "ldrex_reserve"
                    \/ pc[c] \in {"ldrex_reserve", "clrex_cancel", "strex_end"} /\ p = "release"
                    \/ pc[c] = "strex_check" /\ p \in {"strex_load", "strex_end"}
                    \/ pc[c] = "strex_load" /\ p \in {"store", "strex_end"}
                    \/ pc[c] = "access" /\ p = "walk"
                    \/ pc[c] = "walk" /\ p \in {"walk", "store_release"}
                    \/ pc[c] \in {"store", "write"} /\ p = IF insn[c].op = "strex" THEN "strex_end" ELSE "idle"
                    \/ pc[c] = "idle" /\ p = "store" /\ insn'[c].op = "store"
    <3> USE DEF Goto, At
    <3>1. CASE LdrexLoad(c) \/ LdrexReserve(c) \/ ClrexCancel(c) \/ StrexEnd(c) \/ SlowStoreAccess(c)
      BY <3>1 DEF LdrexLoad, LdrexReserve, ClrexCancel, StrexEnd, SlowStoreAccess
    <3>2. CASE StrexCheck(c) \/ StrexLoad(c)
      BY <3>2 DEF StrexCheck, StrexLoad
    <3>3. CASE FastStore(c) \/ SlowStoreWrite(c)
      BY <3>3 DEF FastStore, SlowStoreWrite, StoreToMemory
    <3>4. CASE SlowStoreWalk(c)
      <4>1. pc = [pc EXCEPT ![c] = "walk"] \/ pc[c] # "walk"
        BY <1>1
      <4> QED
        BY <3>4, <4>1 DEF SlowStoreWalk
    <3>5. ASSUME NEW a \in PlainAddresses, NEW v \in Values, BeginStore(c, a, v)
          PROVE  Goto(c, "store") /\ pc[c] = "idle" /\ insn'[c].op = "store"
      BY <1>1, <3>5 DEF BeginStore
    <3> QED
      BY <3>1, <3>2, <3>3, <3>4, <3>5
  <2>2. Apart(c) /\ pc'[c] = p
    BY <1>1, <1>5, <2>1 DEF Apart
  <2> QED
    BY <1>1, <1>2, <1>3, <1>5, <2>1, <2>2, ControlKept DEF Control, DepthAt, StoreSteps
<1>6. insn' = insn \/ \E a \in PlainAddresses, v \in Values : BeginStore(c, a, v)
  BY DEF LdrexLoad, LdrexReserve, ClrexCancel, StrexCheck, StrexLoad, StrexEnd, FastStore,
     SlowStoreAccess, SlowStoreWalk, SlowStoreWrite, StoreToMemory
<1> QED
  BY <1>1, <1>2, <1>4, <1>5, <1>6, ControlKept

LEMMA ReleasingSteps ==
    ASSUME ExclusiveInv, NEW c \in Cpus, InsnRelease(c) \/ SlowStoreRelease(c)
    PROVE  ControlInv'
<1>1. ExclusiveTypeOK /\ ControlInv /\ pc \in [Cpus -> Steps]
  BY DEF ExclusiveInv, ExclusiveTypeOK
<1>2. ReleaseGlobalMemoryLock(c) /\ insn' = insn /\ phase[c] = "run"
  BY DEF InsnRelease, SlowStoreRelease, At
<1>3. \/ pc[c] = "release" /\ Goto(c, "idle")
      \/ pc[c] = "store_release" /\ Goto(c, "write")
  BY DEF InsnRelease, SlowStoreRelease, At
<1>4. Others(c) /\ phase'[c] = "run" /\ depth'[c] = depth[c] - 1
  BY <1>1, <1>2, ReleaseMoves
<1>5. Apart(c) /\ (\/ pc[c] = "release" /\ pc'[c] = "idle"
                   \/ pc[c] = "store_release" /\ pc'[c] = "write")
  BY <1>1, <1>2, <1>3, ApartStep DEF Apart
<1>6. Control("run", depth[c], pc[c], insn[c].op)
  BY <1>1, <1>2 DEF ControlInv
<1>7. Control(phase'[c], depth'[c], pc'[c], insn'[c].op)
  BY <1>2, <1>4, <1>5, <1>6 DEF Control, DepthAt, StoreSteps
<1> QED
  BY <1>1, <1>4, <1>5, <1>7, ControlKept

LEMMA AbandonControl ==
    ASSUME ExclusiveInv, NEW c \in Cpus, Abandon(c)
    PROVE  ControlInv'
<1>1. ExclusiveTypeOK /\ ControlInv
  BY DEF ExclusiveInv
<1>2. Others(c) /\ phase'[c] \in {"top", "host"}
  BY <1>1, OtherMoves DEF Abandon
<1>3. Apart(c) /\ pc'[c] = "idle"
  BY <1>1, ApartStep DEF Abandon, Apart
<1>4. Control(phase'[c], depth'[c], pc'[c], insn'[c].op)
  BY <1>2, <1>3 DEF Control, StoreSteps
<1> QED
  BY <1>1, <1>2, <1>3, <1>4, ControlKept

LEMMA SurroundingsControl ==
    ASSUME ExclusiveInv, NEW c \in Cpus, Surroundings(c)
    PROVE  ControlInv'
<1>1. ExclusiveTypeOK /\ ControlInv /\ L!LockInv
  BY DEF ExclusiveInv
<1>2. Apart(c) /\ pc' = pc /\ insn' = insn
  BY DEF Surroundings, Apart
<1>3. Control(phase[c], depth[c], pc[c], insn[c].op)
  BY <1>1 DEF ControlInv
<1>4. CASE Register(c)
  BY <1>1, <1>2, <1>3, <1>4, OtherMoves, ControlKept
<1>5. CASE Enter(c)
  <2>1. Others(c) /\ phase'[c] = "top" /\ phase[c] = "host"
    BY <1>1, <1>5, OtherMoves
  <2>2. Control(phase'[c], depth'[c], pc'[c], insn'[c].op)
    BY <1>2, <1>3, <2>1 DEF Control
  <2> QED
    BY <1>1, <1>2, <2>1, <2>2, ControlKept
<1>6. CASE UnlockDanglingLocks(c)
  <2>1. Others(c) /\ phase'[c] \in {"run", "host"} /\ depth'[c] = depth[c] /\ phase[c] = "top"
    BY <1>1, <1>6, UnlockMoves
  <2>2. depth[c] = 0
    BY <1>1, <2>1 DEF L!LockInv, L!PhaseInv
  <2>3. Control(phase'[c], depth'[c], pc'[c], insn'[c].op)
    BY <1>2, <1>3, <2>1, <2>2 DEF Control, DepthAt
  <2> QED
    BY <1>1, <1>2, <2>1, <2>3, ControlKept
<1>7. CASE SpuriousWakeup(c)
  <2>1. Others(c) /\ phase'[c] = "woken" /\ phase[c] = "wait"
    BY <1>1, <1>7, OtherMoves
  <2>2. Control(phase'[c], depth'[c], pc'[c], insn'[c].op)
    BY <1>2, <1>3, <2>1 DEF Control
  <2> QED
    BY <1>1, <1>2, <2>1, <2>2, ControlKept
<1>8. CASE Retest(c)
  <2>1. /\ Others(c)
        /\ \/ phase'[c] = "run" /\ depth'[c] = 1
           \/ phase'[c] = "wait"
    BY <1>1, <1>8, RetestMoves
  <2>2. phase[c] = "woken"
    BY <1>8 DEF Retest
  <2>3. Control(phase'[c], depth'[c], pc'[c], insn'[c].op)
    BY <1>2, <1>3, <2>1, <2>2 DEF Control
  <2> QED
    BY <1>1, <1>2, <2>1, <2>3, ControlKept
<1> QED
  BY <1>4, <1>5, <1>6, <1>7, <1>8 DEF Surroundings

LEMMA ControlStep ==
    ASSUME ExclusiveInv, [ExclusiveNext]_vars
    PROVE  ControlInv'
<1>1. CASE UNCHANGED vars
  BY <1>1 DEF vars, lock, ExclusiveInv, ControlInv
<1>2. CASE ExclusiveNext
  BY <1>2, AcquiringSteps, QuietSteps, ReleasingSteps, AbandonControl, SurroundingsControl
     DEF ExclusiveNext
<1> QED
  BY <1>1, <1>2

\* Every step is a step of one CPU.
StepOf(c) ==
    \/ \E a \in ExclusiveAddresses :
          \/ LdrexAcquire(c, a)
          \/ \E v \in Values : StrexAcquire(c, a, v)
    \/ \E a \in PlainAddresses, v \in Values : BeginStore(c, a, v)
    \/ LdrexLoad(c) \/ LdrexReserve(c)
    \/ ClrexAcquire(c) \/ ClrexCancel(c)
    \/ StrexCheck(c) \/ StrexLoad(c) \/ StrexEnd(c)
    \/ InsnRelease(c)
    \/ FastStore(c) \/ SlowStore(c) \/ SlowStoreAccess(c) \/ SlowStoreWalk(c)
    \/ SlowStoreRelease(c) \/ SlowStoreWrite(c)
    \/ Abandon(c)
    \/ Surroundings(c)

LEMMA StepsApart ==
    ASSUME ExclusiveTypeOK, NEW c \in Cpus, StepOf(c)
    PROVE  Apart(c)
<1>1. \/ pc' = pc
      \/ \E p : Goto(c, p)
  BY DEF StepOf, LdrexAcquire, StrexAcquire, BeginStore, LdrexLoad, LdrexReserve,
     ClrexAcquire, ClrexCancel, StrexCheck, StrexLoad, StrexEnd, InsnRelease, FastStore, StoreToMemory,
     SlowStore, SlowStoreAccess, SlowStoreWalk, SlowStoreRelease, SlowStoreWrite, Abandon,
     Surroundings
<1>2. insn' = insn \/ \E r : insn' = [insn EXCEPT ![c] = r]
  BY DEF StepOf, LdrexAcquire, StrexAcquire, BeginStore, LdrexLoad, LdrexReserve,
     ClrexAcquire, ClrexCancel, StrexCheck, StrexLoad, StrexEnd, InsnRelease, FastStore, StoreToMemory,
     SlowStore, SlowStoreAccess, SlowStoreWalk, SlowStoreRelease, SlowStoreWrite, Abandon,
     Surroundings
<1> QED
  BY <1>1, <1>2, ApartStep DEF Apart

\* How far a step takes its CPU, as far as the table and memory are concerned.
LEMMA StepKinds ==
    ASSUME ExclusiveTypeOK, NEW c \in Cpus, StepOf(c)
    PROVE  \/ SlowStoreAccess(c) \/ SlowStoreWalk(c)
           \/ /\ walk' = walk
              /\ (pc'[c] # "walk" /\ pc[c] # "walk") \/ pc'[c] = pc[c]
<1>1. \A p : Goto(c, p) => pc'[c] = p
  BY ApartStep
<1>2. CASE \/ \E a \in ExclusiveAddresses :
                \/ LdrexAcquire(c, a)
                \/ \E v \in Values : StrexAcquire(c, a, v)
           \/ \E a \in PlainAddresses, v \in Values : BeginStore(c, a, v)
           \/ ClrexAcquire(c) \/ SlowStore(c)
  BY <1>1, <1>2 DEF LdrexAcquire, StrexAcquire, BeginStore, ClrexAcquire, SlowStore, At, rvars
<1>3. CASE LdrexLoad(c) \/ LdrexReserve(c) \/ ClrexCancel(c) \/ StrexEnd(c)
  BY <1>1, <1>3 DEF LdrexLoad, LdrexReserve, ClrexCancel, StrexEnd, At, rvars
<1>4. CASE StrexCheck(c) \/ StrexLoad(c) \/ InsnRelease(c) \/ SlowStoreRelease(c) \/ Abandon(c)
  BY <1>1, <1>4 DEF StrexCheck, StrexLoad, InsnRelease, SlowStoreRelease, Abandon, At, rvars
<1>5. CASE FastStore(c) \/ SlowStoreWrite(c)
  BY <1>1, <1>5 DEF FastStore, SlowStoreWrite, StoreToMemory, At, rvars
<1>6. CASE Surroundings(c)
  BY <1>6 DEF Surroundings, rvars
<1> QED
  BY <1>2, <1>3, <1>4, <1>5, <1>6 DEF StepOf

LEMMA WalkStep ==
    ASSUME ExclusiveInv, [ExclusiveNext]_vars
    PROVE  WalkInv'
<1>0. ExclusiveTypeOK /\ WalkInv /\ walk \in [Cpus -> Walks \cup {None}]
  BY DEF ExclusiveInv, ExclusiveTypeOK, ResTypeOK
<1>1. CASE UNCHANGED vars
  BY <1>0, <1>1 DEF vars, rvars, WalkInv
<1>2. ASSUME NEW c \in Cpus, StepOf(c) PROVE WalkInv'
  <2>1. Apart(c)
    BY <1>0, <1>2, StepsApart
  <2>2. \A p : Goto(c, p) => pc'[c] = p
    BY <1>0, ApartStep
  <2>3. CASE SlowStoreAccess(c)
    <3>1. /\ walk' = [walk EXCEPT ![c] = [address |-> insn[c].address, position |-> 0]]
          /\ pc'[c] = "walk" /\ insn[c].address \in Addresses
      BY <1>0, <2>2, <2>3 DEF SlowStoreAccess, BeginAccess, ExclusiveTypeOK, Insns
    <3>2. [address |-> insn[c].address, position |-> 0] \in Walks
      BY <3>1, MaxCpusAssumption DEF Walks
    <3>3. walk'[c] # None /\ \A d \in Cpus \ {c} : walk'[d] = walk[d]
      BY <1>0, <3>1, <3>2, NoneAssumption
    <3> QED
      BY <1>0, <2>1, <3>1, <3>3 DEF WalkInv, Apart
  <2>4. CASE SlowStoreWalk(c) /\ AccessDone(c)
    <3>1. walk' = [walk EXCEPT ![c] = None]
      BY <2>4 DEF AccessDone
    <3>2. OnAddress(table, walk[c].address, walk[c].position) = {}
      BY <2>4 DEF AccessDone
    <3>3. pc'[c] = "store_release"
      BY <2>2, <2>4, <3>2 DEF SlowStoreWalk, AccessStep
    <3> QED
      BY <1>0, <2>1, <3>1, <3>3 DEF WalkInv, Apart
  <2>5. CASE SlowStoreWalk(c) /\ AccessStep(c)
    <3> DEFINE i == FindReservationOnAddress(table, walk[c].address, walk[c].position)
               n == NextPosition(table, c, i)
    <3>1. walk' = [walk EXCEPT ![c] = [walk[c] EXCEPT !.position = n]] /\ walk[c] \in Walks
      BY <1>0, <2>5 DEF AccessStep
    <3>2. walk[c].position \in Nat /\ table \in Tables
      BY <3>1, MaxCpusAssumption DEF Walks, ExclusiveInv, ResInv, ResTypeOK
    <3>3. i \in Slots
      BY <2>5, <3>2, FoundSlot DEF AccessStep
    <3> HIDE DEF i
    <3>4. n \in 0 .. MAX_NUMBER_OF_CPUS
      <4>1. i \in 0 .. MAX_NUMBER_OF_CPUS /\ i + 1 \in 0 .. MAX_NUMBER_OF_CPUS
        BY <3>3, MaxCpusAssumption DEF Slots
      <4>2. n = i \/ n = i + 1
        BY DEF NextPosition
      <4> HIDE DEF n
      <4> QED
        BY <4>1, <4>2
    <3> HIDE DEF n
    <3>5. [walk[c] EXCEPT !.position = n] \in Walks
      BY <3>1, <3>4 DEF Walks
    <3>6. walk'[c] # None /\ \A d \in Cpus \ {c} : walk'[d] = walk[d]
      BY <1>0, <3>1, <3>5, NoneAssumption
    <3>7. ~AccessDone(c)
      BY <2>5 DEF AccessDone, AccessStep
    <3>8. pc'[c] = "walk"
      BY <2>5, <3>7 DEF SlowStoreWalk, At
    <3> QED
      BY <1>0, <2>1, <3>6, <3>8 DEF WalkInv, Apart
  <2>6. CASE walk' = walk /\ ((pc'[c] # "walk" /\ pc[c] # "walk") \/ pc'[c] = pc[c])
    BY <1>0, <2>1, <2>6 DEF WalkInv, Apart
  <2>7. SlowStoreWalk(c) => AccessDone(c) \/ AccessStep(c)
    BY DEF SlowStoreWalk
  <2> QED
    BY <1>0, <1>2, <2>3, <2>4, <2>5, <2>6, <2>7, StepKinds
<1> QED
  BY <1>1, <1>2 DEF ExclusiveNext, StepOf

LEMMA AddressStep ==
    ASSUME ExclusiveInv, [ExclusiveNext]_vars
    PROVE  AddressInv'
<1>0. ExclusiveTypeOK /\ AddressInv /\ insn \in [Cpus -> Insns]
  BY DEF ExclusiveInv, ExclusiveTypeOK
<1>1. CASE insn' = insn
  BY <1>0, <1>1 DEF AddressInv
<1>2. ASSUME NEW c \in Cpus, NEW r, insn' = [insn EXCEPT ![c] = r],
             r.op = "strex" => r.address \in ExclusiveAddresses,
             r.op = "store" => r.address \in PlainAddresses
      PROVE  AddressInv'
  BY <1>0, <1>2 DEF AddressInv
<1>3. ASSUME NEW c \in Cpus, NEW a \in ExclusiveAddresses, LdrexAcquire(c, a) PROVE AddressInv'
  <2> DEFINE r == [insn[c] EXCEPT !.op = "ldrex", !.address = a]
  <2>1. insn' = [insn EXCEPT ![c] = r] /\ r.op = "ldrex"
    BY <1>0, <1>3 DEF LdrexAcquire, Insns
  <2> HIDE DEF r
  <2> QED
    BY <1>2, <2>1
<1>4. ASSUME NEW c \in Cpus, NEW a \in ExclusiveAddresses, NEW v \in Values, StrexAcquire(c, a, v)
      PROVE  AddressInv'
  <2> DEFINE r == [op |-> "strex", address |-> a, value |-> v]
  <2>1. insn' = [insn EXCEPT ![c] = r] /\ r.op = "strex" /\ r.address = a
    BY <1>4 DEF StrexAcquire
  <2> HIDE DEF r
  <2> QED
    BY <1>2, <2>1
<1>5. ASSUME NEW c \in Cpus, NEW a \in PlainAddresses, NEW v \in Values, BeginStore(c, a, v)
      PROVE  AddressInv'
  <2> DEFINE r == [op |-> "store", address |-> a, value |-> v]
  <2>1. insn' = [insn EXCEPT ![c] = r] /\ r.op = "store" /\ r.address = a
    BY <1>5 DEF BeginStore
  <2> HIDE DEF r
  <2> QED
    BY <1>2, <2>1
<1>6. ASSUME NEW c \in Cpus, ClrexAcquire(c) PROVE AddressInv'
  <2> DEFINE r == [insn[c] EXCEPT !.op = "clrex"]
  <2>1. insn' = [insn EXCEPT ![c] = r] /\ r.op = "clrex"
    BY <1>0, <1>6 DEF ClrexAcquire, Insns
  <2> HIDE DEF r
  <2> QED
    BY <1>2, <2>1
<1>7. \/ insn' = insn
      \/ \E c \in Cpus : \/ \E a \in ExclusiveAddresses :
                              \/ LdrexAcquire(c, a)
                              \/ \E v \in Values : StrexAcquire(c, a, v)
                         \/ \E a \in PlainAddresses, v \in Values : BeginStore(c, a, v)
                         \/ ClrexAcquire(c)
  BY DEF ExclusiveNext, LdrexLoad, LdrexReserve, ClrexCancel, StrexCheck, StrexLoad, StrexEnd,
     InsnRelease, FastStore, StoreToMemory, SlowStore, SlowStoreAccess, SlowStoreWalk,
     SlowStoreRelease, SlowStoreWrite, Abandon, Surroundings, vars
<1> QED
  BY <1>1, <1>3, <1>4, <1>5, <1>6, <1>7

-----------------------------------------------------------------------------
(* STREX. *)

HoldSteps == StoreSteps \cup {"strex_load"}

\* A STREX between its check and its end is inside its section.
LEMMA InSection ==
    ASSUME ExclusiveInv, NEW c \in Cpus, insn[c].op = "strex", pc[c] \in HoldSteps
    PROVE  phase[c] = "run" /\ depth[c] > 0
<1>1. phase[c] \in Phases /\ Control(phase[c], depth[c], pc[c], insn[c].op)
  BY DEF ExclusiveInv, ControlInv, ExclusiveTypeOK, LockTypeOK
<1> QED
  BY <1>1 DEF Control, DepthAt, Phases, HoldSteps, StoreSteps

\* Whoever changes the table is inside a section.
LEMMA TableChanger ==
    ASSUME ExclusiveInv, NEW c \in Cpus, StepOf(c), table' # table
    PROVE  /\ depth[c] > 0
           /\ \/ pc[c] = "walk" /\ AccessStep(c) /\ insn' = insn
              \/ pc'[c] = "release"
<1>0. ExclusiveTypeOK
  BY DEF ExclusiveInv
<1>1. LdrexReserve(c) \/ ClrexCancel(c) \/ StrexEnd(c) \/ SlowStoreWalk(c)
  BY DEF StepOf, LdrexAcquire, StrexAcquire, BeginStore, LdrexLoad, ClrexAcquire,
     StrexCheck, StrexLoad, InsnRelease, FastStore, StoreToMemory, SlowStore, SlowStoreAccess,
     BeginAccess, SlowStoreRelease, SlowStoreWrite, Abandon, Surroundings, rvars
<1>2. phase[c] = "run" /\ pc[c] \in {"ldrex_reserve", "clrex_cancel", "strex_end", "walk"}
  BY <1>1 DEF LdrexReserve, ClrexCancel, StrexEnd, SlowStoreWalk, At
<1>3. depth[c] > 0
  BY <1>2, DepthHere DEF DepthAt
<1>4. SlowStoreWalk(c) => pc[c] = "walk" /\ AccessStep(c) /\ insn' = insn
  BY DEF SlowStoreWalk, AccessDone, At
<1>5. LdrexReserve(c) \/ ClrexCancel(c) \/ StrexEnd(c) => pc'[c] = "release"
  BY <1>0, ApartStep DEF LdrexReserve, ClrexCancel, StrexEnd
<1> QED
  BY <1>1, <1>3, <1>4, <1>5

\* How a CPU gets to a step where it must hold its reservation.
LEMMA HoldersComeFrom ==
    ASSUME ExclusiveInv, NEW c \in Cpus, StepOf(c),
           insn'[c].op = "strex", pc'[c] \in HoldSteps
    PROVE  /\ insn' = insn
           /\ \/ pc[c] \in HoldSteps
              \/ pc[c] = "strex_check" /\ HasReservation(table, c, insn[c].address) /\ table' = table
<1>0. ExclusiveTypeOK /\ insn \in [Cpus -> Insns] /\ insn[c] \in Insns
  BY DEF ExclusiveInv, ExclusiveTypeOK
<1>1. \A p : Goto(c, p) => pc'[c] = p
  BY <1>0, ApartStep
<1>2. ~(\E a \in ExclusiveAddresses : LdrexAcquire(c, a) \/ \E v \in Values : StrexAcquire(c, a, v))
  BY <1>1 DEF LdrexAcquire, StrexAcquire, HoldSteps, StoreSteps
<1>3. ASSUME NEW a \in PlainAddresses, NEW v \in Values, BeginStore(c, a, v) PROVE FALSE
  BY <1>0, <1>3 DEF BeginStore
<1>4. ~LdrexLoad(c) /\ ~LdrexReserve(c) /\ ~ClrexAcquire(c) /\ ~ClrexCancel(c) /\ ~StrexEnd(c)
  BY <1>1 DEF LdrexLoad, LdrexReserve, ClrexAcquire, ClrexCancel, StrexEnd, HoldSteps, StoreSteps
<1>5. ~InsnRelease(c) /\ ~Abandon(c)
  BY <1>1 DEF InsnRelease, Abandon, HoldSteps, StoreSteps
<1>6. ~FastStore(c) /\ ~SlowStoreWrite(c)
  BY <1>1 DEF FastStore, SlowStoreWrite, StoreToMemory, HoldSteps, StoreSteps
<1>7. CASE StrexCheck(c)
  BY <1>1, <1>7 DEF StrexCheck, At, HoldSteps, StoreSteps, rvars
<1>8. CASE StrexLoad(c) \/ SlowStore(c) \/ SlowStoreAccess(c) \/ SlowStoreWalk(c) \/ SlowStoreRelease(c)
  BY <1>8 DEF StrexLoad, SlowStore, SlowStoreAccess, SlowStoreWalk, SlowStoreRelease, At, HoldSteps, StoreSteps
<1>9. CASE Surroundings(c)
  BY <1>9 DEF Surroundings
<1> QED
  BY <1>2, <1>3, <1>4, <1>5, <1>6, <1>7, <1>8, <1>9 DEF StepOf

LEMMA ReservationStep ==
    ASSUME ExclusiveInv, [ExclusiveNext]_vars
    PROVE  ReservationHeldToStore'
<1>0. /\ ExclusiveTypeOK /\ ResInv
      /\ \A d \in Cpus : insn[d].op = "strex" /\ pc[d] \in HoldSteps
                            => HasReservation(table, d, insn[d].address)
  BY DEF ExclusiveInv, ReservationHeldToStore, HoldSteps, StoreSteps
<1>1. CASE UNCHANGED vars
  BY <1>0, <1>1 DEF vars, rvars, ReservationHeldToStore, HoldSteps, StoreSteps
<1>2. ASSUME NEW c \in Cpus, StepOf(c) PROVE ReservationHeldToStore'
  <2> SUFFICES ASSUME NEW d \in Cpus, insn'[d].op = "strex", pc'[d] \in HoldSteps
               PROVE  HasReservation(table', d, insn'[d].address)
    BY DEF ReservationHeldToStore, HoldSteps, StoreSteps
  <2>1. Apart(c)
    BY <1>0, <1>2, StepsApart
  <2>2. CASE d # c
    <3>1. insn[d].op = "strex" /\ pc[d] \in HoldSteps /\ insn'[d] = insn[d]
      BY <2>1, <2>2 DEF Apart
    <3>2. depth[d] > 0
      BY <3>1, InSection
    <3>3. table' = table
      BY <1>2, <2>2, <3>2, TableChanger, Alone DEF ExclusiveInv
    <3> QED
      BY <1>0, <3>1, <3>3
  <2>3. CASE d = c
    <3>1. /\ insn' = insn
          /\ \/ pc[c] \in HoldSteps
             \/ pc[c] = "strex_check" /\ HasReservation(table, c, insn[c].address) /\ table' = table
      BY <1>2, <2>3, HoldersComeFrom
    <3>2. HasReservation(table, c, insn[c].address)
      BY <1>0, <2>3, <3>1
    <3>3. CASE table' = table
      BY <2>3, <3>1, <3>2, <3>3
    <3>4. CASE table' # table
      <4>1. AccessStep(c)
        BY <1>2, <2>3, <3>4, TableChanger DEF HoldSteps, StoreSteps
      <4>2. Spared(c, c)
        BY <3>2 DEF Spared, HasReservation, FindReservationByCpu
      <4>3. /\ table'.reservations_by_cpu[c] # NO_RESERVATION
            /\ table'.reservations[table'.reservations_by_cpu[c]] =
                  table.reservations[table.reservations_by_cpu[c]]
        BY <1>0, <4>1, <4>2, AccessStepSpares
      <4> QED
        BY <2>3, <3>1, <3>2, <4>3 DEF HasReservation, FindReservationByCpu
    <3> QED
      BY <3>3, <3>4
  <2> QED
    BY <2>2, <2>3
<1> QED
  BY <1>1, <1>2 DEF ExclusiveNext, StepOf

LEMMA ExclusiveInitInv == ExclusiveInit => ExclusiveInv
<1> SUFFICES ASSUME ExclusiveInit PROVE ExclusiveInv
  OBVIOUS
<1>1. LockInit <=> L!LockInit
  BY DEF LockInit, L!LockInit
<1>2. L!LockInv /\ ResInv
  BY <1>1, L!LockInitInv, LockConstants, ResInitInv DEF ExclusiveInit
<1>3. /\ pc = [c \in Cpus |-> "idle"] /\ walk = [c \in Cpus |-> None]
      /\ phase = [c \in Cpus |-> "host"]
  BY DEF ExclusiveInit, ResInit, LockInit
<1>4. PICK a \in Addresses, v \in Values :
        insn = [c \in Cpus |-> [op |-> "none", address |-> a, value |-> v]]
  BY DEF ExclusiveInit
<1>5. insn \in [Cpus -> Insns] /\ \A c \in Cpus : insn[c].op = "none"
  BY <1>4 DEF Insns
<1>6. LockTypeOK /\ ResTypeOK
  BY <1>2 DEF L!LockInv, L!LockTypeOK, LockTypeOK, L!Phases, Phases, ResInv
<1>7. memory \in [Addresses -> Values] /\ exclusive_val \in [Cpus -> Values] /\ pc \in [Cpus -> Steps]
  BY <1>3 DEF ExclusiveInit, Steps
<1>8. ControlInv /\ WalkInv /\ AddressInv
  BY <1>3, <1>5 DEF ControlInv, Control, StoreSteps, WalkInv, AddressInv
<1>9. ReservationHeldToStore
  BY <1>3, <1>5 DEF ReservationHeldToStore
<1> QED
  BY <1>2, <1>5, <1>6, <1>7, <1>8, <1>9 DEF ExclusiveInv, ExclusiveTypeOK

LEMMA ExclusiveNextInv ==
    ASSUME ~RegisterWhileRunning
    PROVE  ExclusiveInv /\ [ExclusiveNext]_vars => ExclusiveInv'
<1> SUFFICES ASSUME ExclusiveInv, [ExclusiveNext]_vars PROVE ExclusiveInv'
  OBVIOUS
<1>1. L!LockInv' /\ ResInv'
  BY ComponentsStep
<1>2. ExclusiveTypeOK'
  BY <1>1, TypeStep
<1> QED
  BY <1>1, <1>2, ControlStep, WalkStep, AddressStep, ReservationStep DEF ExclusiveInv

LEMMA ExclusiveInvariant ==
    ASSUME ~RegisterWhileRunning
    PROVE  ExclusiveSpec => []ExclusiveInv
BY ExclusiveInitInv, ExclusiveNextInv, PTL DEF ExclusiveSpec

\* The types of the lock, the table, guest memory and the instructions under
\* way, on any number of CPUs, once all of them have registered.
THEOREM ExclusiveTypeCorrect ==
    ASSUME ~RegisterWhileRunning
    PROVE  ExclusiveSpec => []ExclusiveTypeOK
BY ExclusiveInvariant, PTL DEF ExclusiveInv

\* The instructions of the ARM guest and the slow path of its stores call the
\* table one operation at a time, although no operation of the table takes
\* the lock itself: the composition implements AddressReservations, whose
\* theorems therefore hold of it.
THEOREM LockProtectsTable ==
    ASSUME ~RegisterWhileRunning
    PROVE  ExclusiveSpec => TableIsProtected
<1>1. ExclusiveInit => ResInit
  BY DEF ExclusiveInit
<1> QED
  BY <1>1, TableStep, ExclusiveInvariant, PTL DEF ExclusiveSpec, TableIsProtected, ResSpec

\* Every instruction leaves the lock as it found it, at the depth its steps
\* say, whatever faults, unwindings and waits came before.
THEOREM SectionsBalance ==
    ASSUME ~RegisterWhileRunning
    PROVE  ExclusiveSpec => []SectionsAreBalanced
<1>1. ExclusiveInv => SectionsAreBalanced
  <2> SUFFICES ASSUME ExclusiveInv, NEW c \in Cpus, phase[c] = "run"
               PROVE  depth[c] = CASE pc[c] = "idle" -> 0
                     [] pc[c] \in {"store", "write"} -> IF insn[c].op = "strex" THEN 1 ELSE 0
                     [] pc[c] \in {"access", "walk", "store_release"} ->
                           IF insn[c].op = "strex" THEN 2 ELSE 1
                     [] OTHER -> 1
    BY DEF SectionsAreBalanced
  <2> QED
    BY DepthHere DEF DepthAt
<1> QED
  BY <1>1, ExclusiveInvariant, PTL

\* A STREX that passed its reservation check still holds the reservation when
\* it stores: no other CPU gets at the table, and the accesses its own store
\* registers spare it.
THEOREM ReservationsAreHeld ==
    ASSUME ~RegisterWhileRunning
    PROVE  ExclusiveSpec => []ReservationHeldToStore
BY ExclusiveInvariant, PTL DEF ExclusiveInv

\* The store of one CPU never changes what another CPU's STREX has compared:
\* two of them exclude each other, and ordinary stores go elsewhere.
LEMMA ComparedStep ==
    ASSUME PlainAddresses \cap ExclusiveAddresses = {}
    PROVE  ExclusiveInv /\ StrexReplacesLoaded /\ [ExclusiveNext]_vars => StrexReplacesLoaded'
<1> SUFFICES ASSUME ExclusiveInv, StrexReplacesLoaded, [ExclusiveNext]_vars
             PROVE  StrexReplacesLoaded'
  OBVIOUS
<1>0. /\ ExclusiveTypeOK /\ ControlInv /\ AddressInv
      /\ memory \in [Addresses -> Values] /\ exclusive_val \in [Cpus -> Values]
      /\ \A d \in Cpus : insn[d].op = "strex" /\ pc[d] \in StoreSteps
                            => memory[insn[d].address] = exclusive_val[d]
  BY DEF ExclusiveInv, ExclusiveTypeOK, StrexReplacesLoaded, StoreSteps
<1>1. CASE UNCHANGED vars
  BY <1>0, <1>1 DEF vars, guest, StrexReplacesLoaded, StoreSteps
<1>2. ASSUME NEW c \in Cpus, StepOf(c) PROVE StrexReplacesLoaded'
  <2> SUFFICES ASSUME NEW d \in Cpus, insn'[d].op = "strex", pc'[d] \in StoreSteps
               PROVE  memory'[insn'[d].address] = exclusive_val'[d]
    BY DEF StrexReplacesLoaded, StoreSteps
  <2>1. Apart(c) /\ \A p : Goto(c, p) => pc'[c] = p
    BY <1>0, <1>2, StepsApart, ApartStep
  <2>2. memory' = memory \/ ((FastStore(c) \/ SlowStoreWrite(c)) /\ StoreToMemory(c))
    BY <1>2 DEF StepOf, LdrexAcquire, StrexAcquire, BeginStore, LdrexLoad, LdrexReserve,
       ClrexAcquire, ClrexCancel, StrexCheck, StrexLoad, StrexEnd, InsnRelease, FastStore,
       SlowStore, SlowStoreAccess, SlowStoreWalk, SlowStoreRelease, SlowStoreWrite, Abandon,
       Surroundings, guest
  <2>3. \/ exclusive_val' = exclusive_val
        \/ /\ LdrexLoad(c) \/ ClrexAcquire(c) \/ StrexEnd(c)
           /\ \E v : exclusive_val' = [exclusive_val EXCEPT ![c] = v]
    BY <1>2 DEF StepOf, LdrexAcquire, StrexAcquire, BeginStore, LdrexLoad, LdrexReserve,
       ClrexAcquire, ClrexCancel, StrexCheck, StrexLoad, StrexEnd, InsnRelease, FastStore,
       StoreToMemory, SlowStore, SlowStoreAccess, SlowStoreWalk, SlowStoreRelease,
       SlowStoreWrite, Abandon, Surroundings, guest
  <2>4. CASE d # c
    <3>1. insn[d].op = "strex" /\ pc[d] \in StoreSteps /\ insn'[d] = insn[d]
      BY <2>1, <2>4 DEF Apart
    <3>2. memory[insn[d].address] = exclusive_val[d] /\ exclusive_val'[d] = exclusive_val[d]
      BY <1>0, <2>3, <2>4, <3>1
    <3>3. CASE memory' = memory
      BY <3>1, <3>2, <3>3
    <3>4. CASE (FastStore(c) \/ SlowStoreWrite(c)) /\ StoreToMemory(c)
      <4>1. phase[c] = "run" /\ pc[c] \in {"store", "write"}
        BY <3>4 DEF FastStore, SlowStoreWrite, At
      <4>2. insn[c].op \in {"store", "strex"}
        BY <1>0, <4>1 DEF ControlInv, Control, StoreSteps
      <4>3. insn[c].op # "strex"
        BY <2>4, <3>1, <4>1, InSection, Alone DEF ExclusiveInv, HoldSteps, StoreSteps
      <4>4. insn[c].address \in PlainAddresses /\ insn[d].address \in ExclusiveAddresses
        BY <1>0, <3>1, <4>2, <4>3 DEF AddressInv
      <4>5. insn[c].address # insn[d].address /\ insn[d].address \in Addresses
        BY <4>4, ExclusiveAssumption
      <4>6. memory' = [memory EXCEPT ![insn[c].address] = insn[c].value]
        BY <3>4 DEF StoreToMemory
      <4> QED
        BY <1>0, <3>1, <3>2, <4>5, <4>6
    <3> QED
      BY <2>2, <3>3, <3>4
  <2>5. CASE d = c
    <3>1. /\ insn' = insn
          /\ \/ pc[c] \in HoldSteps
             \/ pc[c] = "strex_check" /\ HasReservation(table, c, insn[c].address) /\ table' = table
      BY <1>2, <2>5, HoldersComeFrom DEF HoldSteps
    <3>2. ~(FastStore(c) \/ SlowStoreWrite(c)) /\ ~LdrexLoad(c) /\ ~ClrexAcquire(c) /\ ~StrexEnd(c)
      BY <2>1, <2>5 DEF FastStore, SlowStoreWrite, StoreToMemory, LdrexLoad, ClrexAcquire, StrexEnd, StoreSteps
    <3>3. memory' = memory /\ exclusive_val' = exclusive_val
      BY <2>2, <2>3, <3>2
    <3>4. CASE pc[c] \in StoreSteps
      BY <1>0, <2>5, <3>1, <3>3, <3>4
    <3>5. CASE pc[c] = "strex_load"
      <4>1. StrexLoad(c)
        <5>1. pc'[c] # "strex_load" /\ pc'[c] # "idle"
          BY <2>5 DEF StoreSteps
        <5> QED
          BY <1>2, <2>1, <3>5, <5>1 DEF StepOf, LdrexAcquire, StrexAcquire, BeginStore, LdrexLoad,
             LdrexReserve, ClrexAcquire, ClrexCancel, StrexCheck, StrexEnd, InsnRelease, FastStore,
             SlowStore, SlowStoreAccess, SlowStoreWalk, SlowStoreRelease, SlowStoreWrite, Abandon,
             Surroundings, At
      <4>2. memory[insn[c].address] = exclusive_val[c]
        BY <2>1, <2>5, <4>1 DEF StrexLoad, StoreSteps
      <4> QED
        BY <2>5, <3>1, <3>3, <4>2
    <3>6. CASE pc[c] = "strex_check"
      <4>1. StrexCheck(c)
        <5>1. pc'[c] # "strex_check" /\ pc'[c] # "idle"
          BY <2>5 DEF StoreSteps
        <5> QED
          BY <1>2, <2>1, <3>6, <5>1 DEF StepOf, LdrexAcquire, StrexAcquire, BeginStore, LdrexLoad,
             LdrexReserve, ClrexAcquire, ClrexCancel, StrexLoad, StrexEnd, InsnRelease, FastStore,
             SlowStore, SlowStoreAccess, SlowStoreWalk, SlowStoreRelease, SlowStoreWrite, Abandon,
             Surroundings, At
      <4> QED
        BY <2>1, <2>5, <4>1 DEF StrexCheck, StoreSteps
    <3> QED
      BY <3>1, <3>4, <3>5, <3>6 DEF HoldSteps
  <2> QED
    BY <2>4, <2>5
<1> QED
  BY <1>1, <1>2 DEF ExclusiveNext, StepOf

\* A STREX that stores replaces the value its LDREX loaded, on any number of
\* CPUs, when ordinary stores are kept to other addresses: the lock makes its
\* comparison and its store atomic with respect to every other STREX.
THEOREM StrexIsAtomic ==
    ASSUME ~RegisterWhileRunning, PlainAddresses \cap ExclusiveAddresses = {}
    PROVE  ExclusiveSpec => []StrexReplacesLoaded
<1>1. ExclusiveInit => StrexReplacesLoaded
  BY DEF ExclusiveInit, StrexReplacesLoaded
<1> QED
  BY <1>1, ComparedStep, ExclusiveInvariant, PTL DEF ExclusiveSpec

\* So, to the instructions of the guest too, the packed array with its index
\* and its walks behaves as one abstract monitor per CPU.
THEOREM GuestSeesMonitors ==
    ASSUME ~RegisterWhileRunning
    PROVE  ExclusiveSpec => ImplementsMonitor
BY LockProtectsTable, TableImplementsMonitor, PTL DEF TableIsProtected
=============================================================================
