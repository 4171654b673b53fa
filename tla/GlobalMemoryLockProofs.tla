----------------------- MODULE GlobalMemoryLockProofs -----------------------
(***************************************************************************)
(* Proofs about the global memory lock, for any set of CPUs and any bound  *)
(* on the nesting, for machines whose CPUs register while none executes.   *)
(***************************************************************************)
EXTENDS GlobalMemoryLock, TLAPS

\* What is known of a CPU outside the lock's own fields: sections are only
\* entered by running threads of registered CPUs, and a thread that waits is
\* in no section.
PhaseInv ==
    /\ \A c \in Cpus : phase[c] # "host" => c \in registered
    /\ \A c \in Cpus : phase[c] # "run" => depth[c] = 0
    /\ \A c \in Cpus : depth[c] <= nested[c] + 1
    /\ \A c \in Cpus : phase[c] \in {"wait", "woken"} => AreMultipleCpusRegistered

\* The lock's fields.  Before a second CPU registers nobody has taken it.
OwnerInv ==
    /\ locking_cpu_id = NoCpu <=> entries_count = 0
    /\ locking_cpu_id # NoCpu => AreMultipleCpusRegistered
    /\ AreMultipleCpusRegistered =>
         \A c \in Cpus : depth[c] > 0 => locking_cpu_id = c /\ entries_count = depth[c]

LockInv == LockTypeOK /\ PhaseInv /\ OwnerInv /\ OwnerWillRelease /\ NoLostWakeup

LEMMA LockInitInv == LockInit => LockInv
BY LockAssumption DEF LockInit, LockInv, LockTypeOK, PhaseInv, OwnerInv, OwnerWillRelease,
   NoLostWakeup, AreMultipleCpusRegistered, Phases

\* The phases pthread_cond_signal leaves behind.
LEMMA SignalEffect ==
    ASSUME NEW ph \in [Cpus -> Phases], Signal(ph)
    PROVE  /\ phase' \in [Cpus -> Phases]
           /\ \A c \in Cpus : ph[c] # "wait" => phase'[c] = ph[c]
           /\ \A c \in Cpus : ph[c] = "wait" => phase'[c] \in {"wait", "woken"}
           /\ (\E c \in Cpus : phase'[c] = "wait") => \E c \in Cpus : phase'[c] = "woken"
<1> DEFINE waiting == {d \in Cpus : ph[d] = "wait"}
<1>1. CASE waiting = {} /\ phase' = ph
  BY <1>1
<1>2. ASSUME NEW d \in waiting, phase' = [ph EXCEPT ![d] = "woken"]
      PROVE  /\ phase' \in [Cpus -> Phases]
             /\ \A c \in Cpus : ph[c] # "wait" => phase'[c] = ph[c]
             /\ \A c \in Cpus : ph[c] = "wait" => phase'[c] \in {"wait", "woken"}
             /\ \E c \in Cpus : phase'[c] = "woken"
  <2>1. d \in Cpus /\ ph[d] = "wait"
    BY <1>2
  <2>2. phase'[d] = "woken" /\ \A c \in Cpus \ {d} : phase'[c] = ph[c]
    BY <1>2, <2>1
  <2>3. phase' \in [Cpus -> Phases]
    BY <1>2, <2>1 DEF Phases
  <2> QED
    BY <2>1, <2>2, <2>3
<1> QED
  BY <1>1, <1>2 DEF Signal

LEMMA RegisterInv ==
    ASSUME LockInv, ~RegisterWhileRunning, NEW c \in Cpus, Register(c)
    PROVE  LockInv'
<1>1. \A d \in Cpus : phase[d] = "host" /\ depth[d] = 0
  BY DEF LockInv, PhaseInv, Register
<1>2. registered \subseteq registered' /\ UNCHANGED <<locking_cpu_id, entries_count, phase, depth, nested>>
  BY DEF Register, lockState
<1>3. AreMultipleCpusRegistered => AreMultipleCpusRegistered'
  BY <1>2 DEF AreMultipleCpusRegistered
<1>4. LockTypeOK'
  BY <1>2 DEF LockInv, LockTypeOK, Register
<1>5. PhaseInv'
  BY <1>1, <1>2 DEF LockInv, PhaseInv, Register
<1>6. OwnerInv'
  BY <1>1, <1>2, <1>3, LockAssumption DEF LockInv, OwnerInv, LockTypeOK
<1>7. OwnerWillRelease' /\ NoLostWakeup'
  BY <1>2 DEF LockInv, OwnerWillRelease, NoLostWakeup
<1> QED
  BY <1>4, <1>5, <1>6, <1>7 DEF LockInv

\* The steps of c that keep the lock's fields: c moves to another phase, and
\* is in no section any more unless it was in one and still runs.
LEMMA MoveInv ==
    ASSUME LockInv, NEW c \in Cpus, NEW next \in {"host", "top", "run"},
           c \in registered, phase[c] \in {"host", "top", "run"},
           phase' = [phase EXCEPT ![c] = next],
           UNCHANGED <<registered, locking_cpu_id, entries_count>>,
           depth' = [depth EXCEPT ![c] = 0],
           nested' = [nested EXCEPT ![c] = 0] \/ nested' = nested,
           next = "run" => locking_cpu_id # c
    PROVE  LockInv'
<1>1. LockTypeOK'
  BY LockAssumption DEF LockInv, LockTypeOK, Phases
<1>2. \A d \in Cpus : /\ d # c => phase'[d] = phase[d] /\ depth'[d] = depth[d] /\ nested'[d] = nested[d]
                     /\ phase'[c] = next /\ depth'[c] = 0 /\ nested'[c] \in Nat
  BY LockAssumption DEF LockInv, LockTypeOK
<1>3. AreMultipleCpusRegistered' <=> AreMultipleCpusRegistered
  BY DEF AreMultipleCpusRegistered
<1>4. PhaseInv'
  BY <1>2, <1>3 DEF LockInv, PhaseInv
<1>5. OwnerInv'
  BY <1>2, <1>3 DEF LockInv, OwnerInv
<1>6. OwnerWillRelease'
  BY <1>2 DEF LockInv, OwnerWillRelease
<1>7. NoLostWakeup'
  BY <1>2 DEF LockInv, NoLostWakeup
<1> QED
  BY <1>1, <1>4, <1>5, <1>6, <1>7 DEF LockInv

LEMMA EnterInv ==
    ASSUME LockInv, NEW c \in Cpus, Enter(c)
    PROVE  LockInv'
<1>1. depth[c] = 0 /\ depth = [depth EXCEPT ![c] = 0]
  BY DEF LockInv, LockTypeOK, PhaseInv, Enter
<1> QED
  BY <1>1, MoveInv DEF Enter, lockState

LEMMA LoopExitInv ==
    ASSUME LockInv, NEW c \in Cpus, LoopExit(c) \/ Unwind(c)
    PROVE  LockInv'
<1>1. c \in registered
  BY DEF LockInv, PhaseInv, LoopExit, Unwind
<1> QED
  BY <1>1, MoveInv DEF LoopExit, Unwind, lockState

\* Giving the lock up altogether: by the outermost release, or by
\* unlock_dangling_locks.
LEMMA GiveUpInv ==
    ASSUME LockInv, NEW c \in Cpus, locking_cpu_id = c, c \in registered,
           phase[c] \in {"top", "run"},
           NEW next \in {"host", "run"}, Signal([phase EXCEPT ![c] = next]),
           locking_cpu_id' = NoCpu, entries_count' = 0,
           depth' = [depth EXCEPT ![c] = 0],
           UNCHANGED <<registered, nested>>
    PROVE  LockInv'
<1> DEFINE ph == [phase EXCEPT ![c] = next]
<1>1. ph \in [Cpus -> Phases] /\ ph[c] = next /\ \A d \in Cpus \ {c} : ph[d] = phase[d]
  BY DEF LockInv, LockTypeOK, Phases
<1> HIDE DEF ph
<1>2. /\ phase' \in [Cpus -> Phases]
      /\ \A d \in Cpus : ph[d] # "wait" => phase'[d] = ph[d]
      /\ \A d \in Cpus : ph[d] = "wait" => phase'[d] \in {"wait", "woken"}
      /\ (\E d \in Cpus : phase'[d] = "wait") => \E d \in Cpus : phase'[d] = "woken"
  <2>1. Signal(ph)
    BY DEF ph
  <2> QED
    BY <1>1, <2>1, SignalEffect
<1>3. depth' \in [Cpus -> 0 .. MaxNested + 1] /\ depth'[c] = 0
      /\ \A d \in Cpus \ {c} : depth'[d] = depth[d]
  BY LockAssumption DEF LockInv, LockTypeOK
<1>4. AreMultipleCpusRegistered /\ AreMultipleCpusRegistered'
  BY LockAssumption DEF LockInv, OwnerInv, AreMultipleCpusRegistered
<1>5. \A d \in Cpus : depth'[d] = 0
  <2>1. \A d \in Cpus \ {c} : ~(depth[d] > 0)
    BY <1>4 DEF LockInv, OwnerInv
  <2> QED
    BY <1>3, <2>1, LockAssumption DEF LockInv, LockTypeOK
<1>6. LockTypeOK'
  BY <1>2, <1>3, LockAssumption DEF LockInv, LockTypeOK
<1>7. PhaseInv'
  BY <1>1, <1>2, <1>4, <1>5, LockAssumption DEF LockInv, PhaseInv, LockTypeOK
<1>8. OwnerInv' /\ OwnerWillRelease'
  BY <1>5, LockAssumption DEF OwnerInv, OwnerWillRelease
<1>9. NoLostWakeup'
  BY <1>2 DEF NoLostWakeup
<1> QED
  BY <1>6, <1>7, <1>8, <1>9 DEF LockInv

LEMMA UnlockDanglingLocksInv ==
    ASSUME LockInv, NEW c \in Cpus, UnlockDanglingLocks(c)
    PROVE  LockInv'
<1>1. PICK next \in {"run", "host"} :
        IF locking_cpu_id = c
        THEN ClearGlobalMemoryLock(c, next)
        ELSE phase' = [phase EXCEPT ![c] = next] /\ UNCHANGED lockState
  BY DEF UnlockDanglingLocks
<1>2. /\ phase[c] = "top" /\ c \in registered /\ depth[c] = 0
      /\ depth' = [depth EXCEPT ![c] = 0] /\ UNCHANGED <<registered, nested>>
  BY DEF LockInv, LockTypeOK, PhaseInv, UnlockDanglingLocks
<1>3. CASE locking_cpu_id = c
  <2>1. AreMultipleCpusRegistered
    BY <1>3, LockAssumption DEF LockInv, OwnerInv
  <2> QED
    BY <1>1, <1>2, <1>3, <2>1, GiveUpInv DEF ClearGlobalMemoryLock
<1>4. CASE locking_cpu_id # c
  BY <1>1, <1>2, <1>4, MoveInv DEF lockState
<1> QED
  BY <1>3, <1>4

\* Entering a section: c, running or just woken, owns the lock afterwards.
LEMMA TakeInv ==
    ASSUME LockInv, NEW c \in Cpus, phase[c] \in {"run", "woken"}, c \in registered,
           AreMultipleCpusRegistered, locking_cpu_id \in {c, NoCpu},
           depth[c] > 0 => nested[c] < MaxNested,
           locking_cpu_id' = c, entries_count' = (entries_count + 1) % EntriesModulus,
           EnterSection(c), phase' = [phase EXCEPT ![c] = "run"], UNCHANGED registered,
           locking_cpu_id = c => phase[c] = "run" /\ depth[c] > 0
    PROVE  LockInv'
<1>1. /\ depth \in [Cpus -> 0 .. MaxNested + 1] /\ nested \in [Cpus -> 0 .. MaxNested]
      /\ phase \in [Cpus -> Phases] /\ entries_count \in 0 .. EntriesModulus - 1
      /\ depth[c] <= nested[c] + 1
  BY DEF LockInv, LockTypeOK, PhaseInv
<1>2. entries_count = depth[c] /\ \A d \in Cpus \ {c} : depth[d] = 0
  <2>1. \A d \in Cpus : depth[d] > 0 => locking_cpu_id = d /\ entries_count = depth[d]
    BY DEF LockInv, OwnerInv
  <2>2. \A d \in Cpus \ {c} : depth[d] = 0
    BY <1>1, <2>1, LockAssumption
  <2>3. locking_cpu_id = NoCpu => depth[c] = 0 /\ entries_count = 0
    BY <1>1, <2>1, LockAssumption DEF LockInv, OwnerInv
  <2> QED
    BY <2>1, <2>2, <2>3
<1>3. depth[c] + 1 \in 1 .. MaxNested + 1
  BY <1>1, LockAssumption
<1>4. entries_count' = depth[c] + 1 /\ entries_count' \in 1 .. EntriesModulus - 1
  BY <1>2, <1>3, LockAssumption
<1>5. depth' = [depth EXCEPT ![c] = depth[c] + 1]
      /\ nested' = [nested EXCEPT ![c] = IF depth[c] = 0 THEN 0 ELSE nested[c] + 1]
  BY DEF EnterSection
<1>6. /\ depth' \in [Cpus -> 0 .. MaxNested + 1] /\ nested' \in [Cpus -> 0 .. MaxNested]
      /\ depth'[c] = depth[c] + 1 /\ depth'[c] <= nested'[c] + 1
      /\ \A d \in Cpus \ {c} : depth'[d] = 0 /\ nested'[d] = nested[d]
  BY <1>1, <1>2, <1>3, <1>5, LockAssumption
<1>7. phase' \in [Cpus -> Phases] /\ phase'[c] = "run"
      /\ \A d \in Cpus \ {c} : phase'[d] = phase[d]
  BY <1>1 DEF Phases
<1>8. LockTypeOK'
  BY <1>4, <1>6, <1>7, LockAssumption DEF LockInv, LockTypeOK
<1>9. AreMultipleCpusRegistered'
  BY DEF AreMultipleCpusRegistered
<1>10. PhaseInv'
  <2>1. \A d \in Cpus \ {c} : depth'[d] <= nested'[d] + 1
    BY <1>1, <1>6, LockAssumption
  <2> QED
    BY <1>6, <1>7, <1>9, <2>1 DEF LockInv, PhaseInv
<1>11. OwnerInv'
  BY <1>4, <1>6, <1>9, LockAssumption DEF OwnerInv
<1>12. OwnerWillRelease' /\ NoLostWakeup'
  BY <1>3, <1>6, <1>7, LockAssumption DEF OwnerWillRelease, NoLostWakeup
<1> QED
  BY <1>8, <1>10, <1>11, <1>12 DEF LockInv

\* Going to wait: somebody else owns the lock.
LEMMA WaitInv ==
    ASSUME LockInv, NEW c \in Cpus, phase[c] \in {"run", "woken"}, c \in registered,
           AreMultipleCpusRegistered, locking_cpu_id \notin {c, NoCpu},
           phase' = [phase EXCEPT ![c] = "wait"],
           UNCHANGED <<registered, locking_cpu_id, entries_count, depth, nested>>
    PROVE  LockInv'
<1>1. phase' \in [Cpus -> Phases] /\ phase'[c] = "wait"
      /\ \A d \in Cpus \ {c} : phase'[d] = phase[d]
  BY DEF LockInv, LockTypeOK, Phases
<1>2. ~(depth[c] > 0)
  BY DEF LockInv, OwnerInv
<1>3. AreMultipleCpusRegistered'
  BY DEF AreMultipleCpusRegistered
<1>4. LockTypeOK'
  BY <1>1 DEF LockInv, LockTypeOK
<1>5. depth[c] = 0
  BY <1>2, LockAssumption DEF LockInv, LockTypeOK
<1>6. PhaseInv'
  BY <1>1, <1>3, <1>5 DEF LockInv, PhaseInv
<1>7. OwnerInv'
  BY <1>3 DEF LockInv, OwnerInv
<1>8. OwnerWillRelease' /\ NoLostWakeup'
  BY <1>1 DEF LockInv, OwnerWillRelease, NoLostWakeup
<1> QED
  BY <1>4, <1>6, <1>7, <1>8 DEF LockInv

LEMMA AcquireInv ==
    ASSUME LockInv, NEW c \in Cpus, AcquireGlobalMemoryLock(c)
    PROVE  LockInv'
<1>1. phase[c] = "run" /\ c \in registered /\ (depth[c] > 0 => nested[c] < MaxNested)
      /\ UNCHANGED registered
  BY DEF AcquireGlobalMemoryLock, LockInv, PhaseInv
<1>2. phase = [phase EXCEPT ![c] = "run"]
  BY <1>1 DEF LockInv, LockTypeOK
<1>3. CASE ~AreMultipleCpusRegistered
  <2>1. EnterSection(c) /\ UNCHANGED <<locking_cpu_id, entries_count, phase>>
    BY <1>3 DEF AcquireGlobalMemoryLock, lockState
  <2>2. /\ depth' \in [Cpus -> 0 .. MaxNested + 1] /\ nested' \in [Cpus -> 0 .. MaxNested]
        /\ \A d \in Cpus : depth'[d] <= nested'[d] + 1
        /\ \A d \in Cpus \ {c} : depth'[d] = depth[d]
    BY <1>1, <2>1, LockAssumption DEF EnterSection, LockInv, LockTypeOK, PhaseInv
  <2>3. ~AreMultipleCpusRegistered'
    BY <1>1, <1>3 DEF AreMultipleCpusRegistered
  <2>4. LockTypeOK'
    BY <1>1, <2>1, <2>2 DEF LockInv, LockTypeOK
  <2>5. PhaseInv'
    BY <1>1, <1>3, <2>1, <2>2 DEF LockInv, PhaseInv
  <2>6. OwnerInv'
    BY <1>3, <2>1, <2>3 DEF LockInv, OwnerInv
  <2>7. OwnerWillRelease' /\ NoLostWakeup'
    BY <1>3, <2>1, LockAssumption DEF LockInv, OwnerInv, OwnerWillRelease, NoLostWakeup
  <2> QED
    BY <2>4, <2>5, <2>6, <2>7 DEF LockInv
<1>4. CASE AreMultipleCpusRegistered /\ locking_cpu_id \in {c, NoCpu}
  <2>1. /\ locking_cpu_id' = c /\ entries_count' = (entries_count + 1) % EntriesModulus
        /\ EnterSection(c) /\ phase' = [phase EXCEPT ![c] = "run"]
    BY <1>2, <1>4 DEF AcquireGlobalMemoryLock
  <2>2. locking_cpu_id = c => depth[c] > 0
    BY <1>1 DEF LockInv, OwnerWillRelease
  <2> QED
    BY <1>1, <1>4, <2>1, <2>2, TakeInv
<1>5. CASE AreMultipleCpusRegistered /\ locking_cpu_id \notin {c, NoCpu}
  BY <1>1, <1>5, WaitInv DEF AcquireGlobalMemoryLock, lockState
<1> QED
  BY <1>3, <1>4, <1>5

LEMMA RetestInv ==
    ASSUME LockInv, NEW c \in Cpus, Retest(c)
    PROVE  LockInv'
<1>1. phase[c] = "woken" /\ c \in registered /\ AreMultipleCpusRegistered /\ depth[c] = 0
      /\ UNCHANGED registered /\ locking_cpu_id # c
  BY DEF Retest, LockInv, PhaseInv, OwnerWillRelease
<1>2. CASE locking_cpu_id = NoCpu
  BY <1>1, <1>2, TakeInv DEF Retest
<1>3. CASE locking_cpu_id # NoCpu
  BY <1>1, <1>3, WaitInv DEF Retest, lockState
<1> QED
  BY <1>2, <1>3

LEMMA SpuriousWakeupInv ==
    ASSUME LockInv, NEW c \in Cpus, SpuriousWakeup(c)
    PROVE  LockInv'
<1>1. phase' \in [Cpus -> Phases] /\ phase'[c] = "woken" /\ phase[c] = "wait"
      /\ \A d \in Cpus \ {c} : phase'[d] = phase[d]
  BY DEF SpuriousWakeup, LockInv, LockTypeOK, Phases
<1>2. UNCHANGED <<registered, locking_cpu_id, entries_count, depth, nested>>
  BY DEF SpuriousWakeup, lockState
<1>3. AreMultipleCpusRegistered' <=> AreMultipleCpusRegistered
  BY <1>2 DEF AreMultipleCpusRegistered
<1>4. LockTypeOK' /\ PhaseInv' /\ OwnerInv'
  BY <1>1, <1>2, <1>3 DEF LockInv, LockTypeOK, PhaseInv, OwnerInv
<1>5. OwnerWillRelease' /\ NoLostWakeup'
  BY <1>1, <1>2 DEF LockInv, OwnerWillRelease, NoLostWakeup
<1> QED
  BY <1>4, <1>5 DEF LockInv

LEMMA ReleaseInv ==
    ASSUME LockInv, NEW c \in Cpus, ReleaseGlobalMemoryLock(c)
    PROVE  LockInv'
<1>1. /\ phase[c] = "run" /\ depth[c] > 0 /\ c \in registered
      /\ depth' = [depth EXCEPT ![c] = depth[c] - 1]
      /\ UNCHANGED <<registered, nested>>
  BY DEF ReleaseGlobalMemoryLock, LockInv, PhaseInv
<1>2. /\ depth' \in [Cpus -> 0 .. MaxNested + 1] /\ depth'[c] = depth[c] - 1
      /\ \A d \in Cpus \ {c} : depth'[d] = depth[d]
      /\ \A d \in Cpus : depth'[d] <= nested[d] + 1
  BY <1>1, LockAssumption DEF LockInv, LockTypeOK, PhaseInv
<1>3. AreMultipleCpusRegistered' <=> AreMultipleCpusRegistered
  BY <1>1 DEF AreMultipleCpusRegistered
<1>4. CASE ~AreMultipleCpusRegistered
  <2>1. UNCHANGED <<locking_cpu_id, entries_count, phase>>
    BY <1>4 DEF ReleaseGlobalMemoryLock, lockState
  <2>2. LockTypeOK' /\ PhaseInv'
    BY <1>1, <1>2, <1>3, <2>1 DEF LockInv, LockTypeOK, PhaseInv
  <2>3. OwnerInv' /\ OwnerWillRelease' /\ NoLostWakeup'
    BY <1>3, <1>4, <2>1, LockAssumption DEF LockInv, OwnerInv, OwnerWillRelease, NoLostWakeup
  <2> QED
    BY <2>2, <2>3 DEF LockInv
<1>5. CASE AreMultipleCpusRegistered
  <2>1. locking_cpu_id = c /\ entries_count = depth[c]
    BY <1>1, <1>5 DEF LockInv, OwnerInv
  <2>2. entries_count' = (entries_count - 1) % EntriesModulus
    BY <1>5 DEF ReleaseGlobalMemoryLock
  <2>3. entries_count' = depth[c] - 1 /\ entries_count' \in 0 .. EntriesModulus - 1
    BY <1>1, <2>1, <2>2, LockAssumption DEF LockInv, LockTypeOK
  <2>4. CASE entries_count' = 0
    <3>1. locking_cpu_id' = NoCpu /\ Signal(phase)
      BY <1>5, <2>4 DEF ReleaseGlobalMemoryLock
    <3>2. phase = [phase EXCEPT ![c] = "run"] /\ depth' = [depth EXCEPT ![c] = 0]
      BY <1>1, <2>3, <2>4 DEF LockInv, LockTypeOK
    <3> QED
      BY <1>1, <2>1, <2>4, <3>1, <3>2, GiveUpInv
  <2>5. CASE entries_count' # 0
    <3>1. UNCHANGED <<locking_cpu_id, phase>>
      BY <1>5, <2>5 DEF ReleaseGlobalMemoryLock
    <3>2. LockTypeOK' /\ PhaseInv'
      BY <1>1, <1>2, <1>3, <2>3, <3>1 DEF LockInv, LockTypeOK, PhaseInv
    <3>3. \A d \in Cpus \ {c} : ~(depth[d] > 0)
      BY <1>5, <2>1 DEF LockInv, OwnerInv
    <3>4. OwnerInv'
      BY <1>2, <1>3, <1>5, <2>1, <2>3, <2>5, <3>1, <3>3, LockAssumption DEF OwnerInv
    <3>5. depth'[c] > 0
      <4>1. depth'[c] = entries_count'
        BY <1>2, <2>3
      <4>2. entries_count' \in Nat
        BY <2>3, LockAssumption
      <4> QED
        BY <2>5, <4>1, <4>2
    <3>6. OwnerWillRelease' /\ NoLostWakeup'
      BY <1>1, <2>1, <3>1, <3>5, LockAssumption DEF OwnerWillRelease, NoLostWakeup
    <3> QED
      BY <3>2, <3>4, <3>6 DEF LockInv
  <2> QED
    BY <2>4, <2>5
<1> QED
  BY <1>4, <1>5

LEMMA LockNextInv ==
    ASSUME ~RegisterWhileRunning
    PROVE  LockInv /\ [LockNext]_lvars => LockInv'
<1> SUFFICES ASSUME LockInv, [LockNext]_lvars PROVE LockInv'
  OBVIOUS
<1>1. ASSUME NEW c \in Cpus, Register(c) PROVE LockInv'
  BY <1>1, RegisterInv
<1>2. ASSUME NEW c \in Cpus, Enter(c) PROVE LockInv'
  BY <1>2, EnterInv
<1>3. ASSUME NEW c \in Cpus, UnlockDanglingLocks(c) PROVE LockInv'
  BY <1>3, UnlockDanglingLocksInv
<1>4. ASSUME NEW c \in Cpus, LoopExit(c) \/ Unwind(c) PROVE LockInv'
  BY <1>4, LoopExitInv
<1>5. ASSUME NEW c \in Cpus, AcquireGlobalMemoryLock(c) PROVE LockInv'
  BY <1>5, AcquireInv
<1>6. ASSUME NEW c \in Cpus, SpuriousWakeup(c) PROVE LockInv'
  BY <1>6, SpuriousWakeupInv
<1>7. ASSUME NEW c \in Cpus, Retest(c) PROVE LockInv'
  BY <1>7, RetestInv
<1>8. ASSUME NEW c \in Cpus, ReleaseGlobalMemoryLock(c) PROVE LockInv'
  BY <1>8, ReleaseInv
<1>9. CASE UNCHANGED lvars
  BY <1>9 DEF lvars, LockInv, LockTypeOK, PhaseInv, OwnerInv, OwnerWillRelease, NoLostWakeup,
     AreMultipleCpusRegistered
<1> QED
  BY <1>1, <1>2, <1>3, <1>4, <1>5, <1>6, <1>7, <1>8, <1>9 DEF LockNext

LEMMA LockInvariant ==
    ASSUME ~RegisterWhileRunning
    PROVE  LockSpec => []LockInv
BY LockInitInv, LockNextInv, PTL DEF LockSpec

\* The modular updates of entries_count compute the depth of the owner, so that
\* neither of them wraps.
LEMMA EntriesStep ==
    ASSUME LockInv, NEW c \in Cpus
    PROVE  /\ AcquireGlobalMemoryLock(c) \/ Retest(c) => entries_count' >= entries_count
           /\ ReleaseGlobalMemoryLock(c) => entries_count' <= entries_count
<1>1. /\ entries_count \in 0 .. EntriesModulus - 1
      /\ depth[c] \in 0 .. MaxNested + 1 /\ nested[c] \in 0 .. MaxNested
      /\ depth[c] <= nested[c] + 1
      /\ AreMultipleCpusRegistered => (depth[c] > 0 => locking_cpu_id = c /\ entries_count = depth[c])
      /\ locking_cpu_id = NoCpu => entries_count = 0
      /\ locking_cpu_id = c /\ phase[c] = "run" => depth[c] > 0
  BY DEF LockInv, LockTypeOK, PhaseInv, OwnerInv, OwnerWillRelease
<1>2. ASSUME AcquireGlobalMemoryLock(c) PROVE entries_count' >= entries_count
  <2>1. CASE UNCHANGED entries_count
    BY <1>1, <2>1, LockAssumption
  <2>2. CASE ~UNCHANGED entries_count
    <3>1. /\ AreMultipleCpusRegistered /\ locking_cpu_id \in {c, NoCpu}
          /\ entries_count' = (entries_count + 1) % EntriesModulus
          /\ phase[c] = "run" /\ (depth[c] > 0 => nested[c] < MaxNested)
      BY <1>2, <2>2 DEF AcquireGlobalMemoryLock, lockState
    <3>2. entries_count + 1 < EntriesModulus
      BY <1>1, <3>1, LockAssumption
    <3> QED
      BY <1>1, <3>1, <3>2, LockAssumption
  <2> QED
    BY <2>1, <2>2
<1>3. ASSUME Retest(c) PROVE entries_count' >= entries_count
  <2>1. CASE locking_cpu_id = NoCpu
    <3>1. entries_count' = (entries_count + 1) % EntriesModulus /\ entries_count = 0
      BY <1>1, <1>3, <2>1 DEF Retest
    <3> QED
      BY <3>1, LockAssumption
  <2>2. CASE locking_cpu_id # NoCpu
    BY <1>1, <1>3, <2>2, LockAssumption DEF Retest, lockState
  <2> QED
    BY <2>1, <2>2
<1>4. ASSUME ReleaseGlobalMemoryLock(c) PROVE entries_count' <= entries_count
  <2>1. CASE ~AreMultipleCpusRegistered
    BY <1>1, <1>4, <2>1, LockAssumption DEF ReleaseGlobalMemoryLock, lockState
  <2>2. CASE AreMultipleCpusRegistered
    <3>1. entries_count' = (entries_count - 1) % EntriesModulus /\ entries_count = depth[c]
          /\ depth[c] > 0
      BY <1>1, <1>4, <2>2 DEF ReleaseGlobalMemoryLock
    <3>2. entries_count - 1 \in 0 .. EntriesModulus - 1
      BY <1>1, <3>1, LockAssumption
    <3> QED
      BY <1>1, <3>1, <3>2, LockAssumption
  <2> QED
    BY <2>1, <2>2
<1> QED
  BY <1>2, <1>3, <1>4

\* Every field keeps its type, and entries_count never wraps around: it is not
\* incremented past the modulus, nor decremented from 0.
THEOREM LockTypeCorrect ==
    ASSUME ~RegisterWhileRunning
    PROVE  LockSpec => []LockTypeOK /\ EntriesNeverWrap
<1>1. LockInv => LockTypeOK
  BY DEF LockInv
<1>2. LockInv => \A c \in Cpus :
          /\ AcquireGlobalMemoryLock(c) \/ Retest(c) => entries_count' >= entries_count
          /\ ReleaseGlobalMemoryLock(c) => entries_count' <= entries_count
  BY EntriesStep
<1> QED
  BY <1>1, <1>2, LockInvariant, PTL DEF EntriesNeverWrap

\* At most one CPU is inside a section, and entries_count is its depth.
THEOREM LockExcludes ==
    ASSUME ~RegisterWhileRunning
    PROVE  LockSpec => [](MutualExclusion /\ EntriesMatchDepth)
<1>1. LockInv => MutualExclusion
  <2> SUFFICES ASSUME LockInv, NEW c \in Cpus, NEW d \in Cpus, depth[c] > 0, depth[d] > 0
               PROVE  c = d
    BY DEF MutualExclusion
  <2>1. c \in registered /\ d \in registered
    BY DEF LockInv, PhaseInv
  <2>2. CASE AreMultipleCpusRegistered
    BY <2>2 DEF LockInv, OwnerInv
  <2>3. CASE ~AreMultipleCpusRegistered
    BY <2>1, <2>3 DEF AreMultipleCpusRegistered
  <2> QED
    BY <2>2, <2>3
<1>2. LockInv => EntriesMatchDepth
  BY DEF LockInv, OwnerInv, EntriesMatchDepth
<1> QED
  BY <1>1, <1>2, LockInvariant, PTL

\* A release comes from the owner, and an owner is always where it will
\* release: ensure_locked_by_me never aborts.
THEOREM OwnersRelease ==
    ASSUME ~RegisterWhileRunning
    PROVE  LockSpec => [](ReleasedByOwner /\ OwnerWillRelease)
<1>1. LockInv => ReleasedByOwner /\ OwnerWillRelease
  BY DEF LockInv, OwnerInv, ReleasedByOwner
<1> QED
  BY <1>1, LockInvariant, PTL

\* The single pthread_cond_signal of a release is enough: a free lock never
\* leaves every waiting thread asleep.
THEOREM WakeupsAreNotLost ==
    ASSUME ~RegisterWhileRunning
    PROVE  LockSpec => []NoLostWakeup
BY LockInvariant, PTL DEF LockInv
=============================================================================
