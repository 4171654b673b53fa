-------------------------- MODULE GlobalMemoryLock --------------------------
(***************************************************************************)
(* The global memory lock of atomic.c: a reentrant lock built from a       *)
(* pthread mutex and a condition variable, taken by generated code around  *)
(* exclusive accesses and by the slow path of guest stores.  Every CPU is  *)
(* a thread of its own.  A section can end without its release: a fault    *)
(* longjmps to the top of cpu_exec's loop, which calls                     *)
(* unlock_dangling_locks; an exception of a managed callback unwinds out   *)
(* of tlib_execute altogether and leaves the lock behind until the CPU is  *)
(* executed again.                                                         *)
(*                                                                         *)
(* The mutex is held for the whole of acquire, release and clear but for   *)
(* pthread_cond_wait, so each of them is one step and the re-test after a  *)
(* wait is another.                                                        *)
(***************************************************************************)
EXTENDS Integers

CONSTANTS
    Cpus,                  \* the CPUs of the machine (by atomic id)
    NoCpu,                 \* NO_CPU_ID
    MaxNested,             \* nested acquisitions in one section: the slow-path
                           \* stores of one instruction
    EntriesModulus,        \* 2^32: entries_count is a uint32_t
    RegisterWhileRunning   \* may a CPU register while another one executes?

ASSUME LockAssumption ==
    /\ NoCpu \notin Cpus
    /\ MaxNested \in Nat
    /\ EntriesModulus \in Nat /\ EntriesModulus > MaxNested + 1
    /\ RegisterWhileRunning \in BOOLEAN

VARIABLES
    registered,      \* the CPUs counted in number_of_registered_cpus
    locking_cpu_id,
    entries_count,
    phase,           \* per CPU, where its thread is
    depth,           \* per CPU, the sections it is inside of
    nested           \* per CPU, the nested acquisitions of its current section

lockState == <<locking_cpu_id, entries_count>>
lvars == <<registered, locking_cpu_id, entries_count, phase, depth, nested>>

\* host: not inside cpu_exec; top: at unlock_dangling_locks, at the top of
\* cpu_exec's loop; run: in generated code; wait: in pthread_cond_wait;
\* woken: returned from the wait, about to test locking_cpu_id again.
Phases == {"host", "top", "run", "wait", "woken"}

-----------------------------------------------------------------------------
AreMultipleCpusRegistered == \E c, d \in registered : c # d

\* pthread_cond_signal wakes one waiting thread, if there is one; ph holds
\* the phases the step has set so far.
Signal(ph) ==
    LET waiting == {d \in Cpus : ph[d] = "wait"}
    IN \/ waiting = {} /\ phase' = ph
       \/ \E d \in waiting : phase' = [ph EXCEPT ![d] = "woken"]

LockInit ==
    /\ registered = {}
    /\ locking_cpu_id = NoCpu
    /\ entries_count = 0
    /\ phase = [c \in Cpus |-> "host"]
    /\ depth = [c \in Cpus |-> 0]
    /\ nested = [c \in Cpus |-> 0]

\* register_in_atomic_memory_state: the first one initializes the state.
Register(c) ==
    /\ c \notin registered
    /\ phase[c] = "host"
    /\ RegisterWhileRunning \/ \A d \in Cpus : phase[d] = "host"
    /\ registered' = registered \cup {c}
    /\ UNCHANGED <<lockState, phase, depth, nested>>

\* tlib_execute calls cpu_exec.  A call that finds the CPU halted and without work
\* returns to the host at once and changes nothing that is modelled.
Enter(c) ==
    /\ c \in registered
    /\ phase[c] = "host"
    /\ phase' = [phase EXCEPT ![c] = "top"]
    /\ UNCHANGED <<registered, lockState, depth, nested>>

\* Fault seeded: the waiting threads are not signalled.
ClearWithoutSignal(c, next) ==
    /\ locking_cpu_id' = NoCpu
    /\ entries_count' = 0
    /\ phase' = [phase EXCEPT ![c] = next]

\* Fault seeded: the owner is reset to 0 instead of NO_CPU_ID.
ClearToZero(c, next) ==
    /\ locking_cpu_id' = 0
    /\ entries_count' = 0
    /\ Signal([phase EXCEPT ![c] = next])

\* clear_global_memory_lock, by its owner; next is where c goes on.
ClearGlobalMemoryLock(c, next) ==
    IF AreMultipleCpusRegistered
    THEN /\ locking_cpu_id' = NoCpu
         /\ entries_count' = 0
         /\ Signal([phase EXCEPT ![c] = next])
    ELSE /\ UNCHANGED lockState
         /\ phase' = [phase EXCEPT ![c] = next]

\* Fault seeded: the global memory lock is forgotten.
UnlockNothing(c) ==
    /\ phase[c] = "top"
    /\ \E next \in {"run", "host"} : phase' = [phase EXCEPT ![c] = next]
    /\ UNCHANGED <<registered, lockState, depth, nested>>

\* unlock_dangling_locks; cpu_exec then runs on or returns to the host.
UnlockDanglingLocks(c) ==
    /\ phase[c] = "top"
    /\ \E next \in {"run", "host"} :
          IF locking_cpu_id = c
          THEN ClearGlobalMemoryLock(c, next)
          ELSE /\ phase' = [phase EXCEPT ![c] = next]
               /\ UNCHANGED lockState
    /\ UNCHANGED <<registered, depth, nested>>

\* cpu_loop_exit: a fault, an exception or an exit request in any section.
LoopExit(c) ==
    /\ phase[c] = "run"
    /\ phase' = [phase EXCEPT ![c] = "top"]
    /\ depth' = [depth EXCEPT ![c] = 0]
    /\ nested' = [nested EXCEPT ![c] = 0]
    /\ UNCHANGED <<registered, lockState>>

\* A managed callback threw: its EXTERNAL wrapper jumps out of tlib_execute.
Unwind(c) ==
    /\ phase[c] = "run"
    /\ phase' = [phase EXCEPT ![c] = "host"]
    /\ depth' = [depth EXCEPT ![c] = 0]
    /\ nested' = [nested EXCEPT ![c] = 0]
    /\ UNCHANGED <<registered, lockState>>

\* The section c enters when acquire_global_memory_lock returns.
EnterSection(c) ==
    /\ depth' = [depth EXCEPT ![c] = @ + 1]
    /\ nested' = [nested EXCEPT ![c] = IF depth[c] = 0 THEN 0 ELSE @ + 1]

\* Fault seeded: the owner is not tested.
AcquireRegardless(c) ==
    /\ phase[c] = "run"
    /\ depth[c] > 0 => nested[c] < MaxNested
    /\ locking_cpu_id' = c
    /\ entries_count' = (entries_count + 1) % EntriesModulus
    /\ EnterSection(c)
    /\ UNCHANGED <<registered, phase>>

AcquireGlobalMemoryLock(c) ==
    /\ phase[c] = "run"
    /\ depth[c] > 0 => nested[c] < MaxNested
    /\ \/ /\ ~AreMultipleCpusRegistered
          /\ EnterSection(c)
          /\ UNCHANGED <<lockState, phase>>
       \/ /\ AreMultipleCpusRegistered
          /\ locking_cpu_id \in {c, NoCpu}
          /\ locking_cpu_id' = c
          /\ entries_count' = (entries_count + 1) % EntriesModulus
          /\ EnterSection(c)
          /\ UNCHANGED phase
       \/ /\ AreMultipleCpusRegistered
          /\ locking_cpu_id \notin {c, NoCpu}
          /\ phase' = [phase EXCEPT ![c] = "wait"]
          /\ UNCHANGED <<lockState, depth, nested>>
    /\ UNCHANGED registered

\* pthread_cond_wait may return without a signal.
SpuriousWakeup(c) ==
    /\ phase[c] = "wait"
    /\ phase' = [phase EXCEPT ![c] = "woken"]
    /\ UNCHANGED <<registered, lockState, depth, nested>>

\* Fault seeded: "if" instead of "while" around pthread_cond_wait.
RetestNever(c) ==
    /\ phase[c] = "woken"
    /\ locking_cpu_id' = c
    /\ entries_count' = (entries_count + 1) % EntriesModulus
    /\ EnterSection(c)
    /\ phase' = [phase EXCEPT ![c] = "run"]
    /\ UNCHANGED registered

\* The while loop around pthread_cond_wait tests the lock again.
Retest(c) ==
    /\ phase[c] = "woken"
    /\ IF locking_cpu_id = NoCpu
       THEN /\ locking_cpu_id' = c
            /\ entries_count' = (entries_count + 1) % EntriesModulus
            /\ EnterSection(c)
            /\ phase' = [phase EXCEPT ![c] = "run"]
       ELSE /\ phase' = [phase EXCEPT ![c] = "wait"]
            /\ UNCHANGED <<lockState, depth, nested>>
    /\ UNCHANGED registered

ReleaseGlobalMemoryLock(c) ==
    /\ phase[c] = "run"
    /\ depth[c] > 0
    /\ depth' = [depth EXCEPT ![c] = @ - 1]
    /\ IF ~AreMultipleCpusRegistered
       THEN UNCHANGED <<lockState, phase>>
       ELSE /\ entries_count' = (entries_count - 1) % EntriesModulus
            /\ IF entries_count' = 0
               THEN locking_cpu_id' = NoCpu /\ Signal(phase)
               ELSE UNCHANGED <<locking_cpu_id, phase>>
    /\ UNCHANGED <<registered, nested>>

LockNext ==
    \E c \in Cpus :
        \/ Register(c)
        \/ Enter(c)
        \/ UnlockDanglingLocks(c)
        \/ LoopExit(c)
        \/ Unwind(c)
        \/ AcquireGlobalMemoryLock(c)
        \/ SpuriousWakeup(c)
        \/ Retest(c)
        \/ ReleaseGlobalMemoryLock(c)

LockSpec == LockInit /\ [][LockNext]_lvars

\* The threads' own steps go on: a section is straight-line generated code
\* that reaches its release, and a host that has unwound executes the CPU
\* again, sooner or later with work to do.  Nothing makes a CPU start another section.
LockFairness ==
    \A c \in Cpus : /\ WF_lvars(ReleaseGlobalMemoryLock(c))
                    /\ WF_lvars(UnlockDanglingLocks(c))
                    /\ WF_lvars(Retest(c))
                    /\ WF_lvars(Enter(c))

FairLockSpec == LockSpec /\ LockFairness

-----------------------------------------------------------------------------
(* Properties. *)

LockTypeOK ==
    /\ registered \in SUBSET Cpus
    /\ locking_cpu_id \in Cpus \cup {NoCpu}
    /\ entries_count \in 0 .. EntriesModulus - 1
    /\ phase \in [Cpus -> Phases]
    /\ depth \in [Cpus -> 0 .. MaxNested + 1]
    /\ nested \in [Cpus -> 0 .. MaxNested]

\* No two CPUs are inside a section at once, whatever faults, unwindings and
\* spurious wakeups have happened before.
MutualExclusion == \A c, d \in Cpus : depth[c] > 0 /\ depth[d] > 0 => c = d

\* entries_count is the nesting depth of the owner, so that the release that
\* leaves the outermost section is the one that frees the lock; the owner
\* that has left its sections by a jump is the only exception.
EntriesMatchDepth ==
    AreMultipleCpusRegistered =>
        /\ locking_cpu_id = NoCpu <=> entries_count = 0
        /\ \A c \in Cpus : depth[c] > 0 => locking_cpu_id = c /\ entries_count = depth[c]

\* entries_count never wraps around: an acquisition does not lower it, and a
\* release, which decrements without a test of zero, does not raise it.
EntriesNeverWrap ==
    [][\A c \in Cpus :
          /\ AcquireGlobalMemoryLock(c) \/ Retest(c) => entries_count' >= entries_count
          /\ ReleaseGlobalMemoryLock(c) => entries_count' <= entries_count]_lvars

\* A CPU that does not own the lock never releases it: the assertion of
\* ensure_locked_by_me in debug builds.
ReleasedByOwner ==
    \A c \in Cpus :
        phase[c] = "run" /\ depth[c] > 0 /\ AreMultipleCpusRegistered => locking_cpu_id = c

\* A CPU only owns the lock where it will give it up: in a section, at the
\* top of the loop, or back in the host after a jump.  It never waits for,
\* nor runs ordinary code with, the lock it owns.
OwnerWillRelease ==
    \A c \in Cpus : locking_cpu_id = c =>
        \/ phase[c] = "run" /\ depth[c] > 0
        \/ phase[c] \in {"top", "host"}

\* No wakeup is lost: while the lock is free, some waiting thread has been
\* signalled already, though each release signals only one thread.
NoLostWakeup ==
    locking_cpu_id = NoCpu /\ (\E c \in Cpus : phase[c] = "wait")
        => \E c \in Cpus : phase[c] = "woken"

\* A lock that is held is given up, also when its section ended by a jump.
LockIsFreed == \A c \in Cpus : locking_cpu_id = c ~> locking_cpu_id # c
=============================================================================
