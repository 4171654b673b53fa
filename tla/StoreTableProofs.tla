------------------------- MODULE StoreTableProofs --------------------------
(***************************************************************************)
(* Proofs about the store test, for any number of cores, any table, any    *)
(* addresses and any selection of the instructions.  What the findings     *)
(* show to be needed is a hypothesis of the theorem that needs it: address *)
(* 0 is not used (it is the mark for "no lock"), amocas.q is not used (it  *)
(* covers one entry and writes two), no pair crosses a page, and there are *)
(* more entries than cores.                                                *)
(***************************************************************************)
EXTENDS StoreTable, FiniteSets, FiniteSetTheorems, NaturalsInduction, WellFoundedInduction, TLAPS

(***************************************************************************)
(* The code of the instructions, as far as the proofs depend on it: at     *)
(* which steps an entry is held, its set is done or still owed for a store *)
(* that has happened, and the entry is known to have passed the check.     *)
(* The functions are for the addressed doubleword (low) and for the next   *)
(* one (high); LockFacts and EntryFacts tie them to the sequences.         *)
(***************************************************************************)
Nowhere == [op \in AllOps \cup {"none"} |-> {}]

HeldLow == [none |-> {}, store |-> 2 .. 4, clear |-> {}, amo |-> 2 .. 5, lr |-> 2 .. 5,
            sc |-> 2 .. 6, amocas_q |-> 2 .. 7, ldxr |-> 2 .. 5, stxr |-> 2 .. 5,
            ldxp |-> 2 .. 8, stxp |-> 2 .. 9, casp |-> 2 .. 9]

HeldHigh == [Nowhere EXCEPT !["ldxp"] = 3 .. 9, !["stxp"] = 3 .. 10, !["casp"] = 3 .. 10]

SetLow == [Nowhere EXCEPT !["store"] = {3}]

SetHigh == [Nowhere EXCEPT !["stxp"] = 6 .. 7]

OwedLow == [Nowhere EXCEPT !["sc"] = 4 .. 5, !["amo"] = {4}, !["stxr"] = {4},
                           !["stxp"] = 7 .. 8, !["casp"] = 6 .. 7]

OwedHigh == [Nowhere EXCEPT !["casp"] = 7 .. 8]

CheckedLow == [Nowhere EXCEPT !["sc"] = {3, 5}, !["stxr"] = 3 .. 4, !["stxp"] = 4 .. 8]

CheckedHigh == [Nowhere EXCEPT !["stxp"] = 5 .. 7]

Held(op, i, k) == i \in IF k = 0 THEN HeldLow[op] ELSE HeldHigh[op]
IsSet(op, i, k) == i \in IF k = 0 THEN SetLow[op] ELSE SetHigh[op]
Owed(op, i, k) == i \in IF k = 0 THEN OwedLow[op] ELSE OwedHigh[op]
Checked(op, i, k) == i \in IF k = 0 THEN CheckedLow[op] ELSE CheckedHigh[op]

Access == {"ld", "st", "stx", "cst"}

\* Locks: each step locks or unlocks what it says, and nothing else does.
LockFacts(op) ==
    /\ Len(Code[op]) \in 0 .. 11
    /\ \A k \in {0, 1} : ~Held(op, 1, k) /\ ~Held(op, Len(Code[op]) + 1, k)
    /\ \A i \in 1 .. Len(Code[op]), k \in {0, 1} :
          /\ Code[op][i] = <<"lock", k>> => ~Held(op, i, k) /\ Held(op, i + 1, k)
          /\ Code[op][i] = <<"lock", k>> => (Held(op, i, 1 - k) <=> k = 1)
          /\ Code[op][i] = <<"unlock", k>> => Held(op, i, k) /\ ~Held(op, i + 1, k)
          /\ Code[op][i] \notin {<<"lock", k>>, <<"unlock", k>>} =>
                (Held(op, i + 1, k) <=> Held(op, i, k))
          /\ \A j \in {0, 1} : Code[op][i] = <<"check", j>> =>
                /\ op \in DOMAIN FailTarget /\ FailTarget[op] \in 1 .. Len(Code[op])
                /\ Held(op, FailTarget[op], k) <=> Held(op, i, k)

\* What is done under the locks; amocas.q leaves the second entry out.
EntryFacts(op) ==
    /\ \A k \in {0, 1} : ~IsSet(op, 1, k) /\ ~Owed(op, 1, k) /\ ~Checked(op, 1, k)
    /\ \A k \in {0, 1} : LET end == Len(Code[op]) + 1
                         IN ~IsSet(op, end, k) /\ ~Owed(op, end, k) /\ ~Checked(op, end, k)
    /\ \A i \in 1 .. Len(Code[op]), k \in {0, 1} :
          /\ Code[op][i] \in {"set", "check", "st", "stx", "cst", "unlock"} \X {k} => Held(op, i, k)
          /\ IsSet(op, i, k) \/ Owed(op, i, k) \/ Checked(op, i, k) => Held(op, i, k)
          /\ IsSet(op, i + 1, k) => IsSet(op, i, k) \/ Code[op][i] = <<"set", k>>
          /\ Owed(op, i, k) => /\ Code[op][i] = <<"set", k>> \/ Owed(op, i + 1, k)
                               /\ Code[op][i] \notin Access \X {0}
                               /\ Code[op][i] \notin {"check"} \X {0, 1}
          /\ Code[op][i] \in {"st", "stx", "cst"} \X {k} => IsSet(op, i, k) \/ Owed(op, i + 1, k)
          /\ Checked(op, i + 1, k) => \/ Checked(op, i, k)
                                      \/ Code[op][i] \in {<<"check", k>>, <<"clear", 0>>}
          /\ Code[op][i] = <<"stx", k>> => Checked(op, i, k)
          /\ Code[op][i] = <<"set", k>> /\ op \in DOMAIN FailTarget => Checked(op, i, k)
          /\ \A j \in {0, 1} : Code[op][i] = <<"check", j>> =>
                ~IsSet(op, FailTarget[op], k) /\ ~Checked(op, FailTarget[op], k)

HeldBy(c, k) == Held(insn[c].op, insn[c].pc, k)
SetBy(c, k) == IsSet(insn[c].op, insn[c].pc, k)
OwedBy(c, k) == Owed(insn[c].op, insn[c].pc, k)
CheckedBy(c, k) == Checked(insn[c].op, insn[c].pc, k)

\* The locks of c are those of its instruction; outside of generated code
\* they are what a fault left of them, until unlock_dangling_locks.
OwnLocks(c) ==
    /\ phase[c] = "run" =>
          \A k \in {0, 1} : locked_address[c][k] = IF HeldBy(c, k) THEN Word(c, k) ELSE 0
    /\ phase[c] # "run" => insn[c] = Idle
    /\ phase[c] = "host" => locked_address[c][0] = 0 /\ locked_address[c][1] = 0
    /\ phase[c] = "top_high" => locked_address[c][0] = 0
    /\ locked_address[c][0] # 0 /\ locked_address[c][1] # 0 =>
          Hash(locked_address[c][0]) # Hash(locked_address[c][1])

\* An entry is locked by c exactly if c has noted one of its addresses.
Noted(c, e) == \E k \in {0, 1} : locked_address[c][k] # 0 /\ Hash(locked_address[c][k]) = e

LocksInv ==
    /\ ~aborted
    /\ \A c \in Cpus : OwnLocks(c)
    /\ \A c \in Cpus, e \in Entries : entry_lock[e] = c <=> Noted(c, e)

\* What the entries say of the words under a reservation.
NoticeInv ==
    /\ \A c \in Cpus, k \in {0, 1} : SetBy(c, k) => last_accessed_by_core_id[EntryOf(c, k)] = c
    /\ \A c \in Cpus, k \in {0, 1} :
          CheckedBy(c, k) => \A w \in stale[c] : Hash(w) # EntryOf(c, k)
    /\ \A c \in Cpus : \A w \in stale[c] :
          last_accessed_by_core_id[Hash(w)] = c =>
             \E d \in Cpus \ {c}, k \in {0, 1} : OwedBy(d, k) /\ EntryOf(d, k) = Hash(w)

-----------------------------------------------------------------------------
(* Lemmas about the code *)

LEMMA OpCases ==
    ASSUME NEW op \in AllOps \cup {"none"}
    PROVE  op \in {"none", "store", "clear", "amo", "lr", "sc", "amocas_q", "ldxr", "stxr",
                   "ldxp", "stxp", "casp"}
BY DEF AllOps, Code

LEMMA LockFactsHold == \A op \in AllOps \cup {"none"} : LockFacts(op)
<1> USE DEF Code, Nowhere, AllOps, HeldLow, HeldHigh, Held, FailTarget, LockFacts
<1>1. LockFacts("none")
  OBVIOUS
<1>2. LockFacts("store")
  BY DEF StoreCode
<1>3. LockFacts("clear")
  BY DEF ClearCode
<1>4. LockFacts("amo")
  BY DEF AmoCode
<1>5. LockFacts("lr")
  BY DEF LrCode
<1>6. LockFacts("sc")
  BY DEF ScCode
<1>7. LockFacts("amocas_q")
  BY DEF AmocasQCode
<1>8. LockFacts("ldxr")
  BY DEF LdxrCode
<1>9. LockFacts("stxr")
  BY DEF StxrCode
<1>10. LockFacts("ldxp")
  BY DEF LdxpCode
<1>11. LockFacts("stxp")
  BY DEF StxpCode
<1>12. LockFacts("casp")
  BY DEF CaspCode
<1> HIDE DEF Code, Nowhere, AllOps, HeldLow, HeldHigh, Held, FailTarget, LockFacts
<1> QED
  BY <1>1, <1>2, <1>3, <1>4, <1>5, <1>6, <1>7, <1>8, <1>9, <1>10, <1>11, <1>12, OpCases

LEMMA EntryFactsHold == \A op \in AllOps \cup {"none"} : op # "amocas_q" => EntryFacts(op)
<1> USE DEF Code, Nowhere, AllOps, HeldLow, HeldHigh, Held, SetLow, SetHigh, IsSet, OwedLow,
        OwedHigh, Owed, CheckedLow, CheckedHigh, Checked, Access, FailTarget, EntryFacts
<1>1. EntryFacts("none")
  OBVIOUS
<1>2. EntryFacts("store")
  BY DEF StoreCode
<1>3. EntryFacts("clear")
  BY DEF ClearCode
<1>4. EntryFacts("amo")
  BY DEF AmoCode
<1>5. EntryFacts("lr")
  BY DEF LrCode
<1>6. EntryFacts("sc")
  BY DEF ScCode
<1>8. EntryFacts("ldxr")
  BY DEF LdxrCode
<1>9. EntryFacts("stxr")
  BY DEF StxrCode
<1>10. EntryFacts("ldxp")
  BY DEF LdxpCode
<1>11. EntryFacts("stxp")
  BY DEF StxpCode
<1>12. EntryFacts("casp")
  BY DEF CaspCode
<1> HIDE DEF Code, Nowhere, AllOps, HeldLow, HeldHigh, Held, SetLow, SetHigh, IsSet, OwedLow,
        OwedHigh, Owed, CheckedLow, CheckedHigh, Checked, Access, FailTarget, EntryFacts
<1> QED
  BY <1>1, <1>2, <1>3, <1>4, <1>5, <1>6, <1>8, <1>9, <1>10, <1>11, <1>12, OpCases

-----------------------------------------------------------------------------
(* Steps of an instruction, and types *)

InsnStates == [op : Ops, address : Addresses, pc : 1 .. 11] \cup {Idle}

LEMMA OpOf ==
    ASSUME StoreTableTypeOK, NEW c \in Cpus
    PROVE  /\ insn[c].op \in AllOps \cup {"none"} /\ insn[c].pc \in 1 .. 11
           /\ insn[c].op \in Ops => insn[c].address \in Addresses
           /\ insn[c].op = "none" => insn[c] = Idle
           /\ insn[c].op # "none" => insn[c].op \in Ops
           /\ insn[c].address \in Nat
<1>1. insn[c] \in InsnStates
  BY DEF StoreTableTypeOK, InsnStates
<1>2. "none" \notin Ops /\ Ops \subseteq AllOps
  BY StoreTableAssumption DEF AllOps
<1>3. CASE insn[c] = Idle
  BY <1>2, <1>3 DEF Idle
<1>4. CASE insn[c] \in [op : Ops, address : Addresses, pc : 1 .. 11]
  BY <1>2, <1>4, StoreTableAssumption
<1> QED
  BY <1>1, <1>3, <1>4 DEF InsnStates

LEMMA GotoEffect ==
    ASSUME StoreTableTypeOK, NEW c \in Cpus, NEW pc \in 1 .. 12, Goto(c, pc)
    PROVE  /\ insn' \in [Cpus -> InsnStates]
           /\ \A d \in Cpus \ {c} : insn'[d] = insn[d]
           /\ pc <= Len(Code[insn[c].op]) =>
                 insn'[c] = [op |-> insn[c].op, address |-> insn[c].address, pc |-> pc]
           /\ pc > Len(Code[insn[c].op]) => insn'[c] = Idle
<1>1. insn \in [Cpus -> InsnStates] /\ insn[c].op \in AllOps \cup {"none"}
  BY OpOf DEF StoreTableTypeOK, InsnStates
<1>2. Len(Code[insn[c].op]) \in 0 .. 11
  BY <1>1, LockFactsHold DEF LockFacts
<1>3. Idle \in InsnStates
  BY DEF InsnStates
<1>4. insn' = [insn EXCEPT ![c] = IF pc > Len(Code[insn[c].op]) THEN Idle
                                  ELSE [insn[c] EXCEPT !.pc = pc]]
  BY DEF Goto
<1>5. CASE pc > Len(Code[insn[c].op])
  BY <1>1, <1>2, <1>3, <1>4, <1>5
<1>6. CASE pc <= Len(Code[insn[c].op])
  <2>1. insn[c].op # "none"
    BY <1>6 DEF Code
  <2>2. insn[c] \in [op : Ops, address : Addresses, pc : 1 .. 11]
    BY <1>1, <2>1 DEF InsnStates, Idle
  <2>3. [insn[c] EXCEPT !.pc = pc] = [op |-> insn[c].op, address |-> insn[c].address, pc |-> pc]
    BY <2>2
  <2> DEFINE n == Len(Code[insn[c].op])
  <2>a. n \in 0 .. 11 /\ pc <= n
    BY <1>2, <1>6
  <2> HIDE DEF n
  <2>b. pc \in 1 .. 11 /\ ~(pc > n)
    BY <2>a
  <2>4. pc \in 1 .. 11
    BY <2>b
  <2>5. [insn[c] EXCEPT !.pc = pc] \in InsnStates
    BY <2>2, <2>3, <2>4 DEF InsnStates
  <2>6. ~(pc > Len(Code[insn[c].op]))
    BY <2>b DEF n
  <2> QED
    BY <1>1, <1>4, <1>6, <2>3, <2>5, <2>6
<1> QED
  BY <1>2, <1>5, <1>6

\* The instruction that is at a step.
LEMMA AtFacts ==
    ASSUME StoreTableTypeOK, NEW c \in Cpus, NEW what, NEW k, At(c, what, k)
    PROVE  /\ phase[c] = "run" /\ insn[c].op \in Ops /\ insn[c].op \in AllOps
           /\ insn[c].address \in Addresses
           /\ insn[c].pc \in 1 .. Len(Code[insn[c].op])
           /\ Len(Code[insn[c].op]) \in 0 .. 11
           /\ Code[insn[c].op][insn[c].pc] = <<what, k>>
           /\ insn[c].pc + 1 \in 1 .. 12
<1>1. insn[c].op \in AllOps \cup {"none"} /\ insn[c].pc \in 1 .. 11
  BY OpOf
<1>2. Len(Code[insn[c].op]) \in 0 .. 11
  BY <1>1, LockFactsHold DEF LockFacts
<1>3. insn[c].pc <= Len(Code[insn[c].op]) /\ Code[insn[c].op][insn[c].pc] = <<what, k>>
  BY DEF At
<1>4. insn[c].op # "none"
  BY <1>1, <1>3 DEF Code
<1>5. phase[c] = "run"
  BY DEF At
<1>6. insn[c].op \in Ops /\ insn[c].address \in Addresses
  BY <1>4, OpOf
<1> QED
  BY <1>1, <1>2, <1>3, <1>4, <1>5, <1>6

LEMMA CheckTarget ==
    ASSUME StoreTableTypeOK, NEW c \in Cpus, NEW k \in {0, 1}, At(c, "check", k)
    PROVE  /\ insn[c].op \in DOMAIN FailTarget
           /\ FailTarget[insn[c].op] \in 1 .. Len(Code[insn[c].op])
           /\ FailTarget[insn[c].op] \in 1 .. 12
<1>1. LockFacts(insn[c].op)
  BY OpOf, LockFactsHold
<1>2. /\ insn[c].pc \in 1 .. Len(Code[insn[c].op]) /\ Len(Code[insn[c].op]) \in 0 .. 11
      /\ Code[insn[c].op][insn[c].pc] = <<"check", k>>
  BY AtFacts
<1>3. /\ insn[c].op \in DOMAIN FailTarget
      /\ FailTarget[insn[c].op] \in 1 .. Len(Code[insn[c].op])
  BY <1>1, <1>2 DEF LockFacts
<1>4. FailTarget[insn[c].op] \in 1 .. 12
  BY <1>3 DEF FailTarget
<1> QED
  BY <1>3, <1>4

LEMMA HashType == \A w \in Nat : Hash(w) \in Entries
<1> SUFFICES ASSUME NEW w \in Nat PROVE w % EntryCount \in 0 .. EntryCount - 1
  BY DEF Hash, Entries
<1> QED
  BY StoreTableAssumption

LEMMA WordType ==
    ASSUME StoreTableTypeOK, NEW c \in Cpus, NEW k \in {0, 1}
    PROVE  /\ Word(c, k) \in Nat /\ EntryOf(c, k) \in Entries
           /\ insn[c].op \in Ops => Word(c, k) \in Words
<1>1. insn[c].address \in Nat
  BY OpOf
<1>2. Word(c, k) \in Nat
  BY <1>1 DEF Word
<1>3. insn[c].op \in Ops => Word(c, k) \in Words
  BY OpOf, <1>1 DEF Word, Words
<1> QED
  BY <1>2, <1>3, HashType DEF EntryOf

LEMMA WordsNat == \A w \in Words : w \in Nat
BY StoreTableAssumption DEF Words

LEMMA TypeInit == StoreTableInit => StoreTableTypeOK
BY DEF StoreTableInit, StoreTableTypeOK, Phases

LEMMA TypeStep == StoreTableTypeOK /\ [StoreTableNext]_vars => StoreTableTypeOK'
<1> SUFFICES ASSUME StoreTableTypeOK, [StoreTableNext]_vars PROVE StoreTableTypeOK'
  OBVIOUS
<1> DEFINE Rest == /\ last_accessed_by_core_id \in [Entries -> Cpus \cup {NoCore}]
                   /\ entry_lock \in [Entries -> Cpus \cup {NoCore}]
                   /\ reserved_address \in [Cpus -> Addresses \cup {0}]
                   /\ locked_address \in [Cpus -> [{0, 1} -> Words \cup {0}]]
                   /\ phase \in [Cpus -> Phases]
                   /\ aborted \in BOOLEAN
                   /\ stale \in [Cpus -> SUBSET Words]
<1>a. Rest
  BY DEF StoreTableTypeOK
<1>b. ASSUME Rest', insn' \in [Cpus -> InsnStates] PROVE StoreTableTypeOK'
  BY <1>b DEF StoreTableTypeOK, InsnStates
<1>c. ASSUME NEW c \in Cpus, NEW what, NEW k, At(c, what, k), Advance(c)
      PROVE  insn' \in [Cpus -> InsnStates]
  <2>1. insn[c].pc + 1 \in 1 .. 12
    BY <1>c, AtFacts
  <2> QED
    BY <1>c, <2>1, GotoEffect DEF Advance
<1>d. insn \in [Cpus -> InsnStates]
  BY DEF StoreTableTypeOK, InsnStates
<1>1. ASSUME NEW c \in Cpus, NEW op \in Ops, NEW a \in Addresses, Begin(c, op, a)
      PROVE  StoreTableTypeOK'
  <2>1. [op |-> op, address |-> a, pc |-> 1] \in InsnStates
    BY DEF InsnStates
  <2>2. insn' \in [Cpus -> InsnStates]
    BY <1>1, <1>d, <2>1 DEF Begin
  <2> QED
    BY <1>1, <1>a, <1>b, <2>2 DEF Begin, tableVars, cpuVars
<1>2. ASSUME NEW c \in Cpus, Reserve(c) PROVE StoreTableTypeOK'
  BY <1>2, <1>a, <1>b, <1>c, AtFacts DEF Reserve, SetReservation, tableVars
<1>3. ASSUME NEW c \in Cpus, ClearReservation(c) PROVE StoreTableTypeOK'
  BY <1>3, <1>a, <1>b, <1>c DEF ClearReservation, SetReservation, tableVars
<1>4. ASSUME NEW c \in Cpus, NEW k \in {0, 1}, Lock(c, k) PROVE StoreTableTypeOK'
  <2>1. EntryOf(c, k) \in Entries /\ Word(c, k) \in Words
    BY <1>4, AtFacts, WordType DEF Lock
  <2>2. CASE /\ entry_lock' = [entry_lock EXCEPT ![EntryOf(c, k)] = c]
             /\ locked_address' = [locked_address EXCEPT ![c][k] = Word(c, k)]
             /\ Advance(c) /\ UNCHANGED aborted
    <3>1. insn' \in [Cpus -> InsnStates]
      BY <1>4, <1>c, <2>2 DEF Lock
    <3>2. entry_lock' \in [Entries -> Cpus \cup {NoCore}]
      BY <1>a, <2>1, <2>2
    <3>3. locked_address' \in [Cpus -> [{0, 1} -> Words \cup {0}]]
      BY <1>a, <2>1, <2>2
    <3> QED
      BY <1>4, <1>a, <1>b, <2>2, <3>1, <3>2, <3>3 DEF Lock
  <2>3. CASE aborted' = TRUE /\ UNCHANGED <<entry_lock, locked_address, insn>>
    BY <1>4, <1>a, <1>b, <1>d, <2>3 DEF Lock
  <2> QED
    BY <1>4, <2>2, <2>3 DEF Lock
<1>5. ASSUME NEW c \in Cpus, NEW k \in {0, 1}, Unlock(c, k) PROVE StoreTableTypeOK'
  BY <1>5, <1>a, <1>b, <1>c DEF Unlock
<1>6. ASSUME NEW c \in Cpus, NEW k \in {0, 1}, Set(c, k) PROVE StoreTableTypeOK'
  BY <1>6, <1>a, <1>b, <1>c DEF Set, cpuVars
<1>7. ASSUME NEW c \in Cpus, NEW k \in {0, 1}, Check(c, k) PROVE StoreTableTypeOK'
  <2>1. insn' \in [Cpus -> InsnStates]
    BY <1>7, <1>c, CheckTarget, GotoEffect DEF Check
  <2> QED
    BY <1>7, <1>a, <1>b, <2>1 DEF Check, tableVars, cpuVars
<1>8. ASSUME NEW c \in Cpus, NEW k \in {0, 1}, Load(c, k) \/ SkipStore(c, k) PROVE StoreTableTypeOK'
  BY <1>8, <1>a, <1>b, <1>c DEF Load, SkipStore, tableVars, cpuVars
<1>9. ASSUME NEW c \in Cpus, NEW k \in {0, 1}, Store(c, k) PROVE StoreTableTypeOK'
  <2>1. Word(c, k) \in Words
    BY <1>9, AtFacts, WordType DEF Store
  <2>2. stale' \in [Cpus -> SUBSET Words]
    BY <1>9, <1>a, <2>1 DEF Store
  <2> QED
    BY <1>9, <1>a, <1>b, <1>c, <2>2 DEF Store, tableVars, cpuVars
<1>10. ASSUME NEW c \in Cpus, NEW k \in {0, 1}, Fault(c, k) PROVE StoreTableTypeOK'
  <2>1. Idle \in InsnStates
    BY DEF InsnStates
  <2> QED
    BY <1>10, <1>a, <1>b, <1>d, <2>1 DEF Fault, tableVars, cpuVars, Phases
<1>11. ASSUME NEW c \in Cpus, LoopExit(c) \/ Enter(c) PROVE StoreTableTypeOK'
  BY <1>11, <1>a, <1>b, <1>d DEF LoopExit, Enter, tableVars, cpuVars, Phases
<1>12. ASSUME NEW c \in Cpus, NEW k \in {0, 1}, UnlockDangling(c, k), phase' \in [Cpus -> Phases]
       PROVE  StoreTableTypeOK'
  <2>1. CASE locked_address[c][k] # 0
    <3>1. locked_address[c] \in [{0, 1} -> Words \cup {0}]
      BY <1>a
    <3>2. locked_address' \in [Cpus -> [{0, 1} -> Words \cup {0}]]
      BY <1>12, <1>a, <2>1 DEF UnlockDangling
    <3>3. entry_lock' \in [Entries -> Cpus \cup {NoCore}]
      BY <1>12, <1>a, <2>1 DEF UnlockDangling
    <3> QED
      BY <1>12, <1>a, <1>b, <1>d, <2>1, <3>2, <3>3 DEF UnlockDangling
  <2>2. CASE locked_address[c][k] = 0
    BY <1>12, <1>a, <1>b, <1>d, <2>2 DEF UnlockDangling
  <2> QED
    BY <2>1, <2>2
<1>13. ASSUME NEW c \in Cpus, UnlockDanglingLocks(c) PROVE StoreTableTypeOK'
  <2>1. phase' \in [Cpus -> Phases]
    BY <1>13, <1>a DEF UnlockDanglingLocks, Phases
  <2> QED
    BY <1>12, <1>13, <2>1 DEF UnlockDanglingLocks
<1>14. CASE UNCHANGED vars
  BY <1>14, <1>a, <1>b, <1>d DEF vars, tableVars, cpuVars
<1> QED
  BY <1>1, <1>2, <1>3, <1>4, <1>5, <1>6, <1>7, <1>8, <1>9, <1>10, <1>11, <1>13, <1>14
     DEF StoreTableNext, Execute

-----------------------------------------------------------------------------
(* The entry of the next doubleword *)

LEMMA DivisionUnique ==
    ASSUME NEW n \in Nat \ {0}, NEW q \in Nat, NEW s \in Nat, NEW r \in 0 .. n - 1,
           NEW t \in 0 .. n - 1, n * q + r = n * s + t
    PROVE  r = t
<1>1. n * (q - s) = t - r
  OBVIOUS
<1>2. CASE q - s >= 1
  <2>1. n * (q - s) >= n
    BY <1>2
  <2> QED
    BY <1>1, <2>1
<1>3. CASE q - s <= -1
  <2>1. n * (q - s) <= -n
    BY <1>3
  <2> QED
    BY <1>1, <2>1
<1>4. CASE q - s = 0
  BY <1>1, <1>4
<1> QED
  BY <1>2, <1>3, <1>4

LEMMA Division ==
    ASSUME NEW n \in Nat \ {0}, NEW a \in Nat
    PROVE  a = n * (a \div n) + (a % n) /\ a % n \in 0 .. n - 1 /\ a \div n \in Nat
OBVIOUS

LEMMA NextEntry ==
    ASSUME NEW a \in Nat
    PROVE  Hash(a + 1) = IF Hash(a) = EntryCount - 1 THEN 0 ELSE Hash(a) + 1
<1> DEFINE n == EntryCount
           b == a + 1
           q == a \div n
           r == a % n
           s == b \div n
           t == b % n
<1>1. n \in Nat \ {0} /\ b \in Nat
  BY StoreTableAssumption
<1> HIDE DEF n, b
<1>2. a = n * q + r /\ r \in 0 .. n - 1 /\ q \in Nat
  BY <1>1, Division
<1>3. b = n * s + t /\ t \in 0 .. n - 1 /\ s \in Nat
  BY <1>1, Division
<1> HIDE DEF q, r, s, t
<1>4. CASE r = n - 1
  <2>1. a + 1 = n * (q + 1) + 0 /\ q + 1 \in Nat /\ 0 \in 0 .. n - 1
    BY <1>1, <1>2, <1>4
  <2>2. t = 0
    BY <1>1, <1>3, <2>1, DivisionUnique DEF b
  <2> QED
    BY <1>4, <2>2 DEF r, t, n, b, Hash
<1>5. CASE r # n - 1
  <2>1. a + 1 = n * q + (r + 1) /\ r + 1 \in 0 .. n - 1
    BY <1>1, <1>2, <1>5
  <2>2. t = r + 1
    BY <1>1, <1>2, <1>3, <2>1, DivisionUnique DEF b
  <2> QED
    BY <1>5, <2>2 DEF r, t, n, b, Hash
<1> QED
  BY <1>4, <1>5

LEMMA NextEntryDiffers ==
    ASSUME EntryCount > 1, NEW a \in Nat
    PROVE  Hash(a + 1) # Hash(a)
<1>1. Hash(a) \in 0 .. EntryCount - 1
  BY HashType DEF Entries
<1> QED
  BY <1>1, NextEntry, StoreTableAssumption

-----------------------------------------------------------------------------
(* The locks.  An entry is locked by the core that has noted its address, and *)
(* an instruction has noted the addresses its position in the code says.      *)

\* What a step to pc does to the locks the instruction holds by its code.
LEMMA HeldAfter ==
    ASSUME StoreTableTypeOK, NEW c \in Cpus, NEW pc \in 1 .. 12,
           insn[c].op \in AllOps, pc <= Len(Code[insn[c].op]) + 1, Goto(c, pc)
    PROVE  /\ \A k \in {0, 1} : HeldBy(c, k)' <=> Held(insn[c].op, pc, k)
           /\ \A k \in {0, 1} : HeldBy(c, k)' => Word(c, k)' = Word(c, k)
           /\ \A d \in Cpus \ {c} : insn'[d] = insn[d]
<1> DEFINE n == Len(Code[insn[c].op])
<1>1. n \in 0 .. 11
  BY LockFactsHold DEF LockFacts
<1>2. \A k \in {0, 1} : ~Held("none", 1, k) /\ ~Held(insn[c].op, n + 1, k)
  BY LockFactsHold DEF LockFacts
<1>3. /\ \A d \in Cpus \ {c} : insn'[d] = insn[d]
      /\ pc <= n => insn'[c] = [op |-> insn[c].op, address |-> insn[c].address, pc |-> pc]
      /\ pc > n => insn'[c] = Idle
  BY GotoEffect
<1>4. pc <= n + 1
  OBVIOUS
<1> HIDE DEF n
<1>5. CASE pc <= n
  BY <1>3, <1>5 DEF HeldBy, Word
<1>6. CASE pc > n
  <2>1. pc = n + 1
    BY <1>1, <1>4, <1>6
  <2>2. insn'[c].op = "none" /\ insn'[c].pc = 1
    BY <1>3, <1>6 DEF Idle
  <2> QED
    BY <1>2, <1>3, <2>1, <2>2 DEF HeldBy
<1> QED
  BY <1>1, <1>5, <1>6

LEMMA HeldAtStep ==
    ASSUME StoreTableTypeOK, NEW c \in Cpus, NEW what, NEW j \in {0, 1}, At(c, what, j), Advance(c)
    PROVE  /\ \A k \in {0, 1} : HeldBy(c, k)' <=> Held(insn[c].op, insn[c].pc + 1, k)
           /\ \A k \in {0, 1} : HeldBy(c, k)' => Word(c, k)' = Word(c, k)
           /\ \A d \in Cpus \ {c} : insn'[d] = insn[d]
           /\ LockFacts(insn[c].op) /\ insn[c].pc \in 1 .. Len(Code[insn[c].op])
           /\ Code[insn[c].op][insn[c].pc] = <<what, j>>
           /\ phase[c] = "run"
<1>1. /\ insn[c].pc + 1 \in 1 .. 12 /\ insn[c].pc \in 1 .. Len(Code[insn[c].op])
      /\ Len(Code[insn[c].op]) \in 0 .. 11
      /\ insn[c].op \in AllOps /\ phase[c] = "run"
      /\ Code[insn[c].op][insn[c].pc] = <<what, j>>
  BY AtFacts
<1>2. insn[c].pc + 1 <= Len(Code[insn[c].op]) + 1
  BY <1>1
<1> QED
  BY <1>1, <1>2, HeldAfter, LockFactsHold DEF Advance

\* A step that neither locks nor unlocks.
LEMMA KeepLocks ==
    ASSUME StoreTableTypeOK, LocksInv, NEW c \in Cpus, phase[c] = "run",
           UNCHANGED <<entry_lock, locked_address, phase, aborted>>,
           \A k \in {0, 1} : HeldBy(c, k)' <=> HeldBy(c, k),
           \A k \in {0, 1} : HeldBy(c, k)' => Word(c, k)' = Word(c, k),
           \A d \in Cpus \ {c} : insn'[d] = insn[d]
    PROVE  LocksInv'
<1>1. ~aborted' /\ \A d \in Cpus, e \in Entries : entry_lock'[e] = d <=> Noted(d, e)'
  BY DEF LocksInv, Noted
<1>2. OwnLocks(c)'
  BY DEF LocksInv, OwnLocks
<1>3. ASSUME NEW d \in Cpus \ {c} PROVE OwnLocks(d)'
  BY <1>3 DEF LocksInv, OwnLocks, HeldBy, Word
<1> QED
  BY <1>1, <1>2, <1>3 DEF LocksInv

LEMMA LockedType ==
    ASSUME StoreTableTypeOK, NEW c \in Cpus, NEW k \in {0, 1}
    PROVE  locked_address[c] \in [{0, 1} -> Words \cup {0}] /\ locked_address[c][k] \in Nat
<1>1. locked_address[c] \in [{0, 1} -> Words \cup {0}]
  BY DEF StoreTableTypeOK
<1>2. locked_address[c][k] \in Words \cup {0}
  BY <1>1
<1> QED
  BY <1>1, <1>2, WordsNat

\* Freeing the entry of an address that c has noted.
LEMMA FreeEntry ==
    ASSUME StoreTableTypeOK, LocksInv, NEW c \in Cpus, NEW k \in {0, 1}, locked_address[c][k] # 0,
           locked_address' = [locked_address EXCEPT ![c][k] = 0],
           entry_lock' = [entry_lock EXCEPT ![Hash(locked_address[c][k])] = NoCore]
    PROVE  \A d \in Cpus, e \in Entries : entry_lock'[e] = d <=> Noted(d, e)'
<1> DEFINE freed == Hash(locked_address[c][k])
<1>1. locked_address[c][k] \in Nat
  BY LockedType
<1>2. freed \in Entries /\ entry_lock \in [Entries -> Cpus \cup {NoCore}]
  BY <1>1, HashType DEF StoreTableTypeOK
<1>3. entry_lock[freed] = c
  BY <1>2 DEF LocksInv, Noted
<1>4. /\ \A j \in {0, 1} : locked_address'[c][j] = IF j = k THEN 0 ELSE locked_address[c][j]
      /\ \A d \in Cpus \ {c} : locked_address'[d] = locked_address[d]
  BY DEF StoreTableTypeOK
<1>5. \A j \in {0, 1} : j # k /\ locked_address[c][j] # 0 => Hash(locked_address[c][j]) # freed
  BY DEF LocksInv, OwnLocks
<1> HIDE DEF freed
<1>6. \A e \in Entries : entry_lock'[e] = IF e = freed THEN NoCore ELSE entry_lock[e]
  BY <1>2 DEF freed
<1>7. ASSUME NEW e \in Entries PROVE Noted(c, e)' <=> Noted(c, e) /\ e # freed
  BY <1>4, <1>5 DEF Noted, freed
<1>8. ASSUME NEW d \in Cpus \ {c}, NEW e \in Entries PROVE Noted(d, e)' <=> Noted(d, e)
  BY <1>4 DEF Noted
<1>9. \A d \in Cpus, e \in Entries : entry_lock[e] = d <=> Noted(d, e)
  BY DEF LocksInv
<1>10. ASSUME NEW d \in Cpus, NEW e \in Entries PROVE entry_lock'[e] = d <=> Noted(d, e)'
  <2>1. CASE e = freed
    BY <1>2, <1>3, <1>6, <1>7, <1>8, <1>9, <2>1, StoreTableAssumption
  <2>2. CASE e # freed
    BY <1>6, <1>7, <1>8, <1>9, <2>2
  <2> QED
    BY <2>1, <2>2
<1> QED
  BY <1>10

\* What the steps of an instruction do to the entries it holds.
LEMMA HeldAtLock ==
    ASSUME NEW op, LockFacts(op), NEW i \in 1 .. Len(Code[op]), NEW k \in {0, 1},
           Code[op][i] = <<"lock", k>>
    PROVE  ~Held(op, i, k) /\ Held(op, i + 1, k) /\ (Held(op, i, 1 - k) <=> k = 1)
BY DEF LockFacts

LEMMA HeldAtUnlock ==
    ASSUME NEW op, LockFacts(op), NEW i \in 1 .. Len(Code[op]), NEW k \in {0, 1},
           Code[op][i] = <<"unlock", k>>
    PROVE  Held(op, i, k) /\ ~Held(op, i + 1, k)
BY DEF LockFacts

LEMMA HeldElsewhere ==
    ASSUME NEW op, LockFacts(op), NEW i \in 1 .. Len(Code[op]), NEW k \in {0, 1},
           NEW what, NEW j, Code[op][i] = <<what, j>>,
           what \notin {"lock", "unlock"} \/ j # k
    PROVE  Held(op, i + 1, k) <=> Held(op, i, k)
<1>1. Code[op][i] \notin {<<"lock", k>>, <<"unlock", k>>}
  OBVIOUS
<1> QED
  BY <1>1 DEF LockFacts

LEMMA LockKeepsLocks ==
    ASSUME StoreTableTypeOK, LocksInv, EntryCount > 1, 0 \notin Addresses,
           NEW c \in Cpus, NEW k \in {0, 1}, Lock(c, k)
    PROVE  LocksInv'
<1> DEFINE e == EntryOf(c, k)
<1>0. At(c, "lock", k)
  BY DEF Lock
<1>1. /\ e \in Entries /\ Word(c, k) \in Words /\ Word(c, k) \in Nat /\ Word(c, k) # 0
      /\ insn[c].address \in Nat /\ insn[c].address # 0
  <2>1. insn[c].address \in Nat /\ insn[c].address # 0
    BY <1>0, AtFacts, StoreTableAssumption
  <2>2. Word(c, k) \in Nat /\ Word(c, k) # 0
    BY <2>1 DEF Word
  <2>3. e \in Entries /\ Word(c, k) \in Words
    BY <1>0, AtFacts, WordType
  <2> QED
    BY <2>1, <2>2, <2>3
<1>2. /\ LockFacts(insn[c].op) /\ insn[c].pc \in 1 .. Len(Code[insn[c].op])
      /\ Code[insn[c].op][insn[c].pc] = <<"lock", k>> /\ phase[c] = "run"
  BY <1>0, AtFacts, LockFactsHold
<1>3. ~HeldBy(c, k) /\ (HeldBy(c, 1 - k) <=> k = 1)
  BY <1>2, HeldAtLock DEF HeldBy
<1>4. locked_address[c][k] = 0
  BY <1>2, <1>3 DEF LocksInv, OwnLocks
<1>5. entry_lock[e] # c
  <2> SUFFICES ASSUME entry_lock[e] = c PROVE FALSE
    OBVIOUS
  <2>1. Noted(c, e)
    BY <1>1 DEF LocksInv
  <2>2. locked_address[c][1 - k] # 0 /\ Hash(locked_address[c][1 - k]) = e
    BY <1>4, <2>1 DEF Noted
  <2>3. HeldBy(c, 1 - k) /\ locked_address[c][1 - k] = Word(c, 1 - k)
    BY <1>2, <2>2 DEF LocksInv, OwnLocks
  <2>4. k = 1
    BY <1>3, <2>3
  <2>5. Hash(insn[c].address) = Hash(insn[c].address + 1)
    BY <1>1, <2>2, <2>3, <2>4 DEF EntryOf, Word
  <2> QED
    BY <1>1, <2>5, NextEntryDiffers
<1>6. /\ entry_lock[e] = NoCore
      /\ entry_lock' = [entry_lock EXCEPT ![e] = c]
      /\ locked_address' = [locked_address EXCEPT ![c][k] = Word(c, k)]
      /\ Advance(c)
      /\ UNCHANGED <<aborted, phase>>
  BY <1>5 DEF Lock
<1>7. /\ \A j \in {0, 1} : locked_address'[c][j] = IF j = k THEN Word(c, k) ELSE locked_address[c][j]
      /\ \A d \in Cpus \ {c} : locked_address'[d] = locked_address[d]
  BY <1>6 DEF StoreTableTypeOK
<1>8. \A d \in Cpus : ~Noted(d, e)
  BY <1>1, <1>6, StoreTableAssumption DEF LocksInv
<1>9. /\ \A j \in {0, 1} : HeldBy(c, j)' <=> (j = k \/ HeldBy(c, j))
      /\ \A j \in {0, 1} : HeldBy(c, j)' => Word(c, j)' = Word(c, j)
      /\ \A d \in Cpus \ {c} : insn'[d] = insn[d]
  <2>1. /\ \A j \in {0, 1} : HeldBy(c, j)' <=> Held(insn[c].op, insn[c].pc + 1, j)
        /\ \A j \in {0, 1} : HeldBy(c, j)' => Word(c, j)' = Word(c, j)
        /\ \A d \in Cpus \ {c} : insn'[d] = insn[d]
    BY <1>0, <1>6, HeldAtStep
  <2>2. ASSUME NEW j \in {0, 1}
        PROVE  Held(insn[c].op, insn[c].pc + 1, j) <=> (j = k \/ HeldBy(c, j))
    <3>1. CASE j = k
      BY <1>2, <3>1, HeldAtLock
    <3>2. CASE j # k
      BY <1>2, <3>2, HeldElsewhere DEF HeldBy
    <3> QED
      BY <3>1, <3>2
  <2> QED
    BY <2>1, <2>2
<1>10. OwnLocks(c)'
  <2>1. \A j \in {0, 1} : j # k /\ locked_address[c][j] # 0 => Hash(locked_address[c][j]) # e
    BY <1>8 DEF Noted
  <2>2. \A j \in {0, 1} : locked_address[c][j] = IF HeldBy(c, j) THEN Word(c, j) ELSE 0
    BY <1>2 DEF LocksInv, OwnLocks
  <2>3. \A j \in {0, 1} : locked_address'[c][j] = IF HeldBy(c, j)' THEN Word(c, j)' ELSE 0
    BY <1>7, <1>9, <2>2
  <2>4. locked_address'[c][0] # 0 /\ locked_address'[c][1] # 0 =>
           Hash(locked_address'[c][0]) # Hash(locked_address'[c][1])
    <3>1. CASE k = 0
      BY <1>7, <2>1, <3>1 DEF EntryOf
    <3>2. CASE k = 1
      BY <1>7, <2>1, <3>2 DEF EntryOf
    <3> QED
      BY <3>1, <3>2
  <2>5. phase'[c] = "run"
    BY <1>2, <1>6
  <2> QED
    BY <2>3, <2>4, <2>5 DEF OwnLocks
<1>11. ASSUME NEW d \in Cpus \ {c} PROVE OwnLocks(d)'
  BY <1>6, <1>7, <1>9, <1>11 DEF LocksInv, OwnLocks, HeldBy, Word
<1>12. ASSUME NEW d \in Cpus, NEW f \in Entries PROVE entry_lock'[f] = d <=> Noted(d, f)'
  <2>1. entry_lock'[f] = IF f = e THEN c ELSE entry_lock[f]
    BY <1>1, <1>6 DEF StoreTableTypeOK
  <2>2. entry_lock[f] = d <=> Noted(d, f)
    BY DEF LocksInv
  <2>3. CASE d = c
    <3>1. Noted(c, f)' <=> Noted(c, f) \/ f = e
      BY <1>1, <1>4, <1>7 DEF Noted, EntryOf
    <3> QED
      BY <2>1, <2>2, <2>3, <3>1
  <2>4. CASE d # c
    <3>1. Noted(d, f)' <=> Noted(d, f)
      BY <1>7, <2>4 DEF Noted
    <3> QED
      BY <1>8, <2>1, <2>2, <2>4, <3>1
  <2> QED
    BY <2>3, <2>4
<1>13. ~aborted'
  BY <1>6 DEF LocksInv
<1> QED
  BY <1>10, <1>11, <1>12, <1>13 DEF LocksInv

LEMMA UnlockKeepsLocks ==
    ASSUME StoreTableTypeOK, LocksInv, 0 \notin Addresses,
           NEW c \in Cpus, NEW k \in {0, 1}, Unlock(c, k)
    PROVE  LocksInv'
<1>0. At(c, "unlock", k) /\ Advance(c) /\ UNCHANGED <<phase, aborted>>
  BY DEF Unlock
<1>1. Word(c, k) \in Nat /\ Word(c, k) # 0
  <2>1. insn[c].address \in Nat /\ insn[c].address # 0
    BY <1>0, AtFacts, StoreTableAssumption
  <2> QED
    BY <2>1 DEF Word
<1>2. /\ \A j \in {0, 1} : HeldBy(c, j)' <=> Held(insn[c].op, insn[c].pc + 1, j)
      /\ \A j \in {0, 1} : HeldBy(c, j)' => Word(c, j)' = Word(c, j)
      /\ \A d \in Cpus \ {c} : insn'[d] = insn[d]
      /\ LockFacts(insn[c].op) /\ insn[c].pc \in 1 .. Len(Code[insn[c].op])
      /\ Code[insn[c].op][insn[c].pc] = <<"unlock", k>> /\ phase[c] = "run"
  BY <1>0, HeldAtStep
<1>3. HeldBy(c, k)
  BY <1>2, HeldAtUnlock DEF HeldBy
<1>4. locked_address[c][k] = Word(c, k)
  BY <1>2, <1>3 DEF LocksInv, OwnLocks
<1>5. /\ locked_address' = [locked_address EXCEPT ![c][k] = 0]
      /\ entry_lock' = [entry_lock EXCEPT ![Hash(locked_address[c][k])] = NoCore]
  BY <1>4 DEF Unlock, EntryOf
<1>6. \A d \in Cpus, e \in Entries : entry_lock'[e] = d <=> Noted(d, e)'
  BY <1>1, <1>4, <1>5, FreeEntry
<1>7. /\ \A j \in {0, 1} : locked_address'[c][j] = IF j = k THEN 0 ELSE locked_address[c][j]
      /\ \A d \in Cpus \ {c} : locked_address'[d] = locked_address[d]
  BY <1>5 DEF StoreTableTypeOK
<1>8. ASSUME NEW j \in {0, 1} PROVE HeldBy(c, j)' <=> (j # k /\ HeldBy(c, j))
  <2>1. CASE j = k
    <3>1. Code[insn[c].op][insn[c].pc] = <<"unlock", j>>
      BY <1>2, <2>1
    <3>2. ~Held(insn[c].op, insn[c].pc + 1, j)
      BY <1>2, <3>1, HeldAtUnlock
    <3>3. ~HeldBy(c, j)'
      BY <1>2, <3>2
    <3> QED
      BY <2>1, <3>3
  <2>2. CASE j # k
    BY <1>2, <2>2, HeldElsewhere DEF HeldBy
  <2> QED
    BY <2>1, <2>2
<1>9. OwnLocks(c)'
  <2>1. \A j \in {0, 1} : locked_address[c][j] = IF HeldBy(c, j) THEN Word(c, j) ELSE 0
    BY <1>2 DEF LocksInv, OwnLocks
  <2>2. \A j \in {0, 1} : locked_address'[c][j] = IF HeldBy(c, j)' THEN Word(c, j)' ELSE 0
    BY <1>2, <1>7, <1>8, <2>1
  <2>3. phase'[c] = "run" /\ (locked_address'[c][0] = 0 \/ locked_address'[c][1] = 0)
    BY <1>0, <1>2, <1>7
  <2> QED
    BY <2>2, <2>3 DEF OwnLocks
<1>10. ASSUME NEW d \in Cpus \ {c} PROVE OwnLocks(d)'
  BY <1>0, <1>2, <1>7, <1>10 DEF LocksInv, OwnLocks, HeldBy, Word
<1> QED
  BY <1>0, <1>6, <1>9, <1>10 DEF LocksInv

LEMMA DanglingKeepsLocks ==
    ASSUME StoreTableTypeOK, LocksInv, NEW c \in Cpus, UnlockDanglingLocks(c)
    PROVE  LocksInv'
<1>1. PICK k \in {0, 1} :
         /\ UnlockDangling(c, k) /\ ~aborted
         /\ \/ k = 0 /\ phase[c] = "top" /\ phase' = [phase EXCEPT ![c] = "top_high"]
            \/ /\ k = 1 /\ phase[c] = "top_high"
               /\ \E next \in {"run", "host"} : phase' = [phase EXCEPT ![c] = next]
  BY DEF UnlockDanglingLocks
<1>2. UNCHANGED <<insn, aborted>> /\ insn[c] = Idle
  BY <1>1 DEF UnlockDangling, LocksInv, OwnLocks
<1>3. entry_lock \in [Entries -> Cpus \cup {NoCore}] /\ phase \in [Cpus -> Phases]
  BY DEF StoreTableTypeOK
<1>4. /\ \A j \in {0, 1} : locked_address'[c][j] = IF j = k THEN 0 ELSE locked_address[c][j]
      /\ \A d \in Cpus \ {c} : locked_address'[d] = locked_address[d]
  <2>1. CASE locked_address[c][k] # 0
    BY <1>1, <2>1 DEF UnlockDangling, StoreTableTypeOK
  <2>2. CASE locked_address[c][k] = 0
    BY <1>1, <2>2 DEF UnlockDangling
  <2> QED
    BY <2>1, <2>2
<1>5. \A d \in Cpus, e \in Entries : entry_lock'[e] = d <=> Noted(d, e)'
  <2>1. CASE locked_address[c][k] # 0
    <3> DEFINE e == Hash(locked_address[c][k])
    <3>1. e \in Entries
      BY LockedType, HashType
    <3>2. entry_lock[e] = c
      BY <2>1, <3>1 DEF LocksInv, Noted
    <3>3. /\ entry_lock' = [entry_lock EXCEPT ![e] = NoCore]
          /\ locked_address' = [locked_address EXCEPT ![c][k] = 0]
      BY <1>1, <2>1, <3>2 DEF UnlockDangling
    <3> QED
      BY <2>1, <3>3, FreeEntry
  <2>2. CASE locked_address[c][k] = 0
    BY <1>1, <2>2 DEF UnlockDangling, LocksInv, Noted
  <2> QED
    BY <2>1, <2>2
<1>6. OwnLocks(c)'
  <2>1. locked_address'[c][0] = 0
    BY <1>1, <1>4 DEF LocksInv, OwnLocks
  <2>2. phase'[c] \in {"run", "host"} => locked_address'[c][1] = 0
    BY <1>1, <1>3, <1>4
  <2>3. insn'[c] = Idle
    BY <1>2
  <2>4. \A j \in {0, 1} : ~HeldBy(c, j)'
    BY <2>3, LockFactsHold DEF HeldBy, LockFacts, Idle
  <2>5. phase'[c] \in {"run", "host", "top_high"}
    BY <1>1, <1>3
  <2> QED
    BY <2>1, <2>2, <2>3, <2>4, <2>5 DEF OwnLocks
<1>7. ASSUME NEW d \in Cpus \ {c} PROVE OwnLocks(d)'
  <2>1. phase'[d] = phase[d] /\ insn'[d] = insn[d] /\ locked_address'[d] = locked_address[d]
    BY <1>1, <1>2, <1>3, <1>4, <1>7
  <2> QED
    BY <2>1 DEF LocksInv, OwnLocks, HeldBy, Word
<1> QED
  BY <1>2, <1>5, <1>6, <1>7 DEF LocksInv

\* The steps of an instruction that go to the next one and leave the locks.
LEMMA PlainStepKeepsLocks ==
    ASSUME StoreTableTypeOK, LocksInv, NEW c \in Cpus, NEW what, NEW j \in {0, 1}, At(c, what, j),
           what \notin {"lock", "unlock"}, Advance(c),
           UNCHANGED <<entry_lock, locked_address, phase, aborted>>
    PROVE  LocksInv'
<1>1. /\ \A k \in {0, 1} : HeldBy(c, k)' <=> Held(insn[c].op, insn[c].pc + 1, k)
      /\ \A k \in {0, 1} : HeldBy(c, k)' => Word(c, k)' = Word(c, k)
      /\ \A d \in Cpus \ {c} : insn'[d] = insn[d]
      /\ LockFacts(insn[c].op) /\ insn[c].pc \in 1 .. Len(Code[insn[c].op])
      /\ Code[insn[c].op][insn[c].pc] = <<what, j>> /\ phase[c] = "run"
  BY HeldAtStep
<1>2. ASSUME NEW k \in {0, 1} PROVE HeldBy(c, k)' <=> HeldBy(c, k)
  BY <1>1, <1>2, HeldElsewhere DEF HeldBy
<1> QED
  BY <1>1, <1>2, KeepLocks

LEMMA CheckKeepsLocks ==
    ASSUME StoreTableTypeOK, LocksInv, NEW c \in Cpus, NEW j \in {0, 1}, Check(c, j)
    PROVE  LocksInv'
<1>1. At(c, "check", j) /\ UNCHANGED <<entry_lock, locked_address, phase, aborted>>
  BY DEF Check, tableVars, cpuVars
<1>2. CASE Advance(c)
  BY <1>1, <1>2, PlainStepKeepsLocks
<1>3. CASE Goto(c, FailTarget[insn[c].op])
  <2> DEFINE pc == FailTarget[insn[c].op]
             n == Len(Code[insn[c].op])
  <2>1. /\ pc \in 1 .. 12 /\ pc \in 1 .. n
        /\ insn[c].op \in AllOps /\ phase[c] = "run" /\ n \in 0 .. 11
        /\ insn[c].pc \in 1 .. n
        /\ Code[insn[c].op][insn[c].pc] = <<"check", j>>
    <3>1. pc \in 1 .. 12 /\ pc \in 1 .. n
      BY <1>1, CheckTarget
    <3>2. /\ insn[c].op \in AllOps /\ phase[c] = "run" /\ n \in 0 .. 11
          /\ insn[c].pc \in 1 .. n
          /\ Code[insn[c].op][insn[c].pc] = <<"check", j>>
      BY <1>1, AtFacts
    <3> QED
      BY <3>1, <3>2
  <2>a. LockFacts(insn[c].op)
    BY <2>1, LockFactsHold
  <2>3. \A k \in {0, 1} : Held(insn[c].op, pc, k) <=> HeldBy(c, k)
    <3>1. \A i \in 1 .. n, k \in {0, 1} :
             Code[insn[c].op][i] = <<"check", j>> => (Held(insn[c].op, pc, k) <=> Held(insn[c].op, i, k))
      BY <2>a DEF LockFacts
    <3> HIDE DEF n, pc
    <3> QED
      BY <2>1, <3>1 DEF HeldBy
  <2> HIDE DEF n, pc
  <2>b. pc <= n + 1
    BY <2>1
  <2>2. pc <= Len(Code[insn[c].op]) + 1
    BY <2>b DEF n
  <2>4. Goto(c, pc)
    BY <1>3 DEF pc
  <2>5. /\ \A k \in {0, 1} : HeldBy(c, k)' <=> Held(insn[c].op, pc, k)
        /\ \A k \in {0, 1} : HeldBy(c, k)' => Word(c, k)' = Word(c, k)
        /\ \A d \in Cpus \ {c} : insn'[d] = insn[d]
    BY <2>1, <2>2, <2>4, HeldAfter
  <2> QED
    BY <1>1, <2>1, <2>3, <2>5, KeepLocks
<1> QED
  BY <1>2, <1>3 DEF Check

\* A core that changes its phase outside of instructions, or leaves one.
LEMMA PhaseKeepsLocks ==
    ASSUME StoreTableTypeOK, LocksInv, NEW c \in Cpus, NEW next \in {"top", "unwound"},
           phase' = [phase EXCEPT ![c] = next], insn' = [insn EXCEPT ![c] = Idle],
           UNCHANGED <<entry_lock, locked_address, aborted>>
    PROVE  LocksInv'
<1>1. /\ phase'[c] = next /\ insn'[c] = Idle
      /\ \A d \in Cpus \ {c} : phase'[d] = phase[d] /\ insn'[d] = insn[d]
  BY DEF StoreTableTypeOK
<1>2. OwnLocks(c)'
  BY <1>1 DEF LocksInv, OwnLocks
<1>3. ASSUME NEW d \in Cpus \ {c} PROVE OwnLocks(d)'
  BY <1>1, <1>3 DEF LocksInv, OwnLocks, HeldBy, Word
<1> QED
  BY <1>2, <1>3 DEF LocksInv, Noted

LEMMA BeginKeepsLocks ==
    ASSUME StoreTableTypeOK, LocksInv, NEW c \in Cpus, NEW op \in Ops, NEW a \in Addresses,
           Begin(c, op, a)
    PROVE  LocksInv'
<1>1. /\ phase[c] = "run" /\ insn[c] = Idle
      /\ UNCHANGED <<entry_lock, locked_address, phase, aborted>>
      /\ insn'[c] = [op |-> op, address |-> a, pc |-> 1]
      /\ \A d \in Cpus \ {c} : insn'[d] = insn[d]
  BY DEF Begin, tableVars, cpuVars, StoreTableTypeOK
<1>2. \A k \in {0, 1} : ~HeldBy(c, k)
  BY <1>1, LockFactsHold DEF HeldBy, LockFacts, Idle
<1>3. \A k \in {0, 1} : ~HeldBy(c, k)'
  BY <1>1, LockFactsHold, StoreTableAssumption DEF HeldBy, LockFacts
<1> QED
  BY <1>1, <1>2, <1>3, KeepLocks

LEMMA LocksInit == StoreTableInit => LocksInv
<1> SUFFICES ASSUME StoreTableInit PROVE LocksInv
  OBVIOUS
<1>1. \A c \in Cpus : /\ phase[c] = "host" /\ insn[c] = Idle
                      /\ locked_address[c][0] = 0 /\ locked_address[c][1] = 0
  BY DEF StoreTableInit
<1>2. \A e \in Entries : entry_lock[e] = NoCore
  BY DEF StoreTableInit
<1> QED
  BY <1>1, <1>2, StoreTableAssumption DEF LocksInv, OwnLocks, Noted, StoreTableInit

LEMMA LocksStep ==
    ASSUME EntryCount > 1, 0 \notin Addresses
    PROVE  StoreTableTypeOK /\ LocksInv /\ [StoreTableNext]_vars => LocksInv'
<1> SUFFICES ASSUME StoreTableTypeOK, LocksInv, [StoreTableNext]_vars PROVE LocksInv'
  OBVIOUS
<1>1. ASSUME NEW c \in Cpus, NEW op \in Ops, NEW a \in Addresses, Begin(c, op, a) PROVE LocksInv'
  BY <1>1, BeginKeepsLocks
<1>2. ASSUME NEW c \in Cpus, Reserve(c) PROVE LocksInv'
  BY <1>2, PlainStepKeepsLocks DEF Reserve, SetReservation, tableVars
<1>3. ASSUME NEW c \in Cpus, ClearReservation(c) PROVE LocksInv'
  BY <1>3, PlainStepKeepsLocks DEF ClearReservation, SetReservation, tableVars
<1>4. ASSUME NEW c \in Cpus, NEW k \in {0, 1}, Lock(c, k) PROVE LocksInv'
  BY <1>4, LockKeepsLocks
<1>5. ASSUME NEW c \in Cpus, NEW k \in {0, 1}, Unlock(c, k) PROVE LocksInv'
  BY <1>5, UnlockKeepsLocks
<1>6. ASSUME NEW c \in Cpus, NEW k \in {0, 1}, Set(c, k) PROVE LocksInv'
  BY <1>6, PlainStepKeepsLocks DEF Set, cpuVars
<1>7. ASSUME NEW c \in Cpus, NEW k \in {0, 1}, Check(c, k) PROVE LocksInv'
  BY <1>7, CheckKeepsLocks
<1>8. ASSUME NEW c \in Cpus, NEW k \in {0, 1}, Load(c, k) \/ SkipStore(c, k) PROVE LocksInv'
  BY <1>8, PlainStepKeepsLocks DEF Load, SkipStore, tableVars, cpuVars
<1>9. ASSUME NEW c \in Cpus, NEW k \in {0, 1}, Store(c, k) PROVE LocksInv'
  BY <1>9, PlainStepKeepsLocks DEF Store, tableVars, cpuVars
<1>10. ASSUME NEW c \in Cpus, NEW k \in {0, 1}, Fault(c, k) PROVE LocksInv'
  BY <1>10, PhaseKeepsLocks DEF Fault, tableVars, cpuVars
<1>11. ASSUME NEW c \in Cpus, LoopExit(c) \/ Enter(c) PROVE LocksInv'
  <2>1. insn[c] = Idle
    BY <1>11 DEF LoopExit, Enter, LocksInv, OwnLocks
  <2>2. insn' = [insn EXCEPT ![c] = Idle]
    BY <1>11, <2>1 DEF LoopExit, Enter, StoreTableTypeOK
  <2> QED
    BY <1>11, <2>2, PhaseKeepsLocks DEF LoopExit, Enter, tableVars, cpuVars
<1>12. ASSUME NEW c \in Cpus, UnlockDanglingLocks(c) PROVE LocksInv'
  BY <1>12, DanglingKeepsLocks
<1>13. CASE UNCHANGED vars
  BY <1>13 DEF vars, tableVars, cpuVars, LocksInv, OwnLocks, Noted, HeldBy, Word
<1> QED
  BY <1>1, <1>2, <1>3, <1>4, <1>5, <1>6, <1>7, <1>8, <1>9, <1>10, <1>11, <1>12, <1>13
     DEF StoreTableNext, Execute

-----------------------------------------------------------------------------
(* Theorems about the locks *)

\* The variables of the store test keep their types, whatever instructions
\* and addresses are used.
THEOREM StoreTableTypeCorrect == StoreTableSpec => []StoreTableTypeOK
BY TypeInit, TypeStep, PTL DEF StoreTableSpec

LEMMA LocksInvariant ==
    ASSUME EntryCount > 1, 0 \notin Addresses
    PROVE  StoreTableSpec => [](StoreTableTypeOK /\ LocksInv)
<1>1. StoreTableInit => StoreTableTypeOK /\ LocksInv
  BY TypeInit, LocksInit
<1>2. StoreTableTypeOK /\ LocksInv /\ [StoreTableNext]_vars => (StoreTableTypeOK /\ LocksInv)'
  BY TypeStep, LocksStep
<1> QED
  BY <1>1, <1>2, PTL DEF StoreTableSpec

\* No core ever locks an entry that it holds, for all instructions: the code of
\* gen_store_table_lock would abort the program.
THEOREM NoneIsReentrant ==
    ASSUME EntryCount > 1, 0 \notin Addresses
    PROVE  StoreTableSpec => []NeverReentrant
<1>1. StoreTableTypeOK /\ LocksInv => NeverReentrant
  BY DEF LocksInv, NeverReentrant
<1> QED
  BY <1>1, LocksInvariant, PTL

\* A core that runs ordinary code or has returned to the host holds no entry, for all
\* instructions and also where the second half of a pair faults.
THEOREM LocksAreReleased ==
    ASSUME EntryCount > 1, 0 \notin Addresses
    PROVE  StoreTableSpec => []NoDanglingLocks
<1>1. StoreTableTypeOK /\ LocksInv => NoDanglingLocks
  <2> SUFFICES ASSUME StoreTableTypeOK, LocksInv, NEW c \in Cpus, NEW e \in Entries,
                      phase[c] = "host" \/ (phase[c] = "run" /\ insn[c] = Idle)
               PROVE  ~Noted(c, e)
    BY DEF NoDanglingLocks, LocksInv
  <2>1. CASE phase[c] = "host"
    BY <2>1 DEF LocksInv, OwnLocks, Noted
  <2>2. CASE phase[c] = "run" /\ insn[c] = Idle
    <3>1. \A k \in {0, 1} : ~HeldBy(c, k)
      BY <2>2, LockFactsHold DEF HeldBy, LockFacts, Idle
    <3> QED
      BY <2>2, <3>1 DEF LocksInv, OwnLocks, Noted
  <2> QED
    BY <2>1, <2>2
<1> QED
  BY <1>1, LocksInvariant, PTL

-----------------------------------------------------------------------------
(* The entries under the locks *)

\* A core holds the entries its instruction has locked, and no other core does.
LEMMA HeldEntry ==
    ASSUME StoreTableTypeOK, LocksInv, 0 \notin Addresses, NEW c \in Cpus, NEW k \in {0, 1},
           HeldBy(c, k)
    PROVE  entry_lock[EntryOf(c, k)] = c /\ phase[c] = "run"
<1>1. insn[c].op # "none"
  BY DEF HeldBy, Held, HeldLow, HeldHigh, Nowhere
<1>2. insn[c].address \in Nat /\ insn[c].address # 0
  BY <1>1, OpOf
<1>3. phase[c] = "run"
  BY <1>1 DEF LocksInv, OwnLocks, Idle
<1>4. locked_address[c][k] = Word(c, k) /\ Word(c, k) # 0
  BY <1>2, <1>3 DEF LocksInv, OwnLocks, Word
<1>5. EntryOf(c, k) \in Entries
  BY WordType
<1> QED
  BY <1>3, <1>4, <1>5 DEF LocksInv, Noted, EntryOf

LEMMA HeldApart ==
    ASSUME StoreTableTypeOK, LocksInv, 0 \notin Addresses, NEW c \in Cpus, NEW d \in Cpus, c # d,
           NEW k \in {0, 1}, NEW j \in {0, 1}, HeldBy(c, k), HeldBy(d, j)
    PROVE  EntryOf(c, k) # EntryOf(d, j)
BY HeldEntry

\* Where amocas.q is not used, the facts hold for every instruction.
LEMMA FactsOf ==
    ASSUME StoreTableTypeOK, "amocas_q" \notin Ops, NEW c \in Cpus
    PROVE  EntryFacts(insn[c].op)
<1>1. insn[c].op \in AllOps \cup {"none"} /\ (insn[c].op # "none" => insn[c].op \in Ops)
  BY OpOf
<1>2. insn[c].op # "amocas_q"
  BY <1>1
<1> QED
  BY <1>1, <1>2, EntryFactsHold

\* What a step to pc does to the entries of the instruction.
LEMMA EntryAfter ==
    ASSUME StoreTableTypeOK, "amocas_q" \notin Ops, NEW c \in Cpus, NEW pc \in 1 .. 12,
           insn[c].op \in AllOps, pc <= Len(Code[insn[c].op]) + 1, Goto(c, pc)
    PROVE  /\ \A k \in {0, 1} : SetBy(c, k)' <=> IsSet(insn[c].op, pc, k)
           /\ \A k \in {0, 1} : OwedBy(c, k)' <=> Owed(insn[c].op, pc, k)
           /\ \A k \in {0, 1} : CheckedBy(c, k)' <=> Checked(insn[c].op, pc, k)
           /\ \A k \in {0, 1} : SetBy(c, k)' \/ OwedBy(c, k)' \/ CheckedBy(c, k)' =>
                 EntryOf(c, k)' = EntryOf(c, k)
           /\ \A d \in Cpus \ {c} : insn'[d] = insn[d]
<1> DEFINE n == Len(Code[insn[c].op])
<1>1. n \in 0 .. 11
  BY LockFactsHold DEF LockFacts
<1>2. \A k \in {0, 1} : /\ ~IsSet("none", 1, k) /\ ~Owed("none", 1, k) /\ ~Checked("none", 1, k)
                        /\ ~IsSet(insn[c].op, n + 1, k) /\ ~Owed(insn[c].op, n + 1, k)
                        /\ ~Checked(insn[c].op, n + 1, k)
  BY FactsOf, EntryFactsHold DEF EntryFacts
<1>3. /\ \A d \in Cpus \ {c} : insn'[d] = insn[d]
      /\ pc <= n => insn'[c] = [op |-> insn[c].op, address |-> insn[c].address, pc |-> pc]
      /\ pc > n => insn'[c] = Idle
  BY GotoEffect
<1>4. pc <= n + 1
  OBVIOUS
<1> HIDE DEF n
<1>5. CASE pc <= n
  BY <1>3, <1>5 DEF SetBy, OwedBy, CheckedBy, EntryOf, Word
<1>6. CASE pc > n
  <2>1. pc = n + 1
    BY <1>1, <1>4, <1>6
  <2>2. insn'[c].op = "none" /\ insn'[c].pc = 1
    BY <1>3, <1>6 DEF Idle
  <2> QED
    BY <1>2, <1>3, <2>1, <2>2 DEF SetBy, OwedBy, CheckedBy
<1> QED
  BY <1>1, <1>5, <1>6

LEMMA EntryAtStep ==
    ASSUME StoreTableTypeOK, "amocas_q" \notin Ops, NEW c \in Cpus, NEW what, NEW j \in {0, 1},
           At(c, what, j), Advance(c)
    PROVE  /\ \A k \in {0, 1} : SetBy(c, k)' <=> IsSet(insn[c].op, insn[c].pc + 1, k)
           /\ \A k \in {0, 1} : OwedBy(c, k)' <=> Owed(insn[c].op, insn[c].pc + 1, k)
           /\ \A k \in {0, 1} : CheckedBy(c, k)' <=> Checked(insn[c].op, insn[c].pc + 1, k)
           /\ \A k \in {0, 1} : SetBy(c, k)' \/ OwedBy(c, k)' \/ CheckedBy(c, k)' =>
                 EntryOf(c, k)' = EntryOf(c, k)
           /\ \A d \in Cpus \ {c} : insn'[d] = insn[d]
<1>1. /\ insn[c].pc + 1 \in 1 .. 12 /\ insn[c].pc \in 1 .. Len(Code[insn[c].op])
      /\ Len(Code[insn[c].op]) \in 0 .. 11 /\ insn[c].op \in AllOps
  BY AtFacts
<1>2. insn[c].pc + 1 <= Len(Code[insn[c].op]) + 1
  BY <1>1
<1> QED
  BY <1>1, <1>2, EntryAfter DEF Advance

\* The facts of the code at the step under way.
LEMMA StepFacts ==
    ASSUME StoreTableTypeOK, "amocas_q" \notin Ops, NEW c \in Cpus, NEW what, NEW j \in {0, 1},
           At(c, what, j), NEW k \in {0, 1}
    PROVE  LET op == insn[c].op
               i == insn[c].pc
           IN /\ what \in {"set", "check", "st", "stx", "cst", "unlock"} => HeldBy(c, j)
              /\ IsSet(op, i + 1, k) => SetBy(c, k) \/ (what = "set" /\ j = k)
              /\ OwedBy(c, k) => \/ what = "set" /\ j = k
                                 \/ Owed(op, i + 1, k)
              /\ OwedBy(c, k) => what # "check" /\ ~(what \in Access /\ j = 0)
              /\ what \in {"st", "stx", "cst"} => SetBy(c, j) \/ Owed(op, i + 1, j)
              /\ Checked(op, i + 1, k) => \/ CheckedBy(c, k)
                                          \/ what = "check" /\ j = k
                                          \/ what = "clear"
              /\ what = "stx" => CheckedBy(c, j)
              /\ what = "set" /\ op \in DOMAIN FailTarget => CheckedBy(c, j)
              /\ what = "check" => ~IsSet(op, FailTarget[op], k) /\ ~Checked(op, FailTarget[op], k)
<1> DEFINE op == insn[c].op
           i == insn[c].pc
<1>1. /\ i \in 1 .. Len(Code[op]) /\ Code[op][i] = <<what, j>> /\ EntryFacts(op)
  BY AtFacts, FactsOf
<1> DEFINE step == Code[op][i]
<1> HIDE DEF op, i
<1>2. \A m \in {0, 1} :
        /\ step \in {"set", "check", "st", "stx", "cst", "unlock"} \X {m} => Held(op, i, m)
        /\ IsSet(op, i + 1, m) => IsSet(op, i, m) \/ step = <<"set", m>>
        /\ Owed(op, i, m) => /\ step = <<"set", m>> \/ Owed(op, i + 1, m)
                             /\ step \notin Access \X {0}
                             /\ step \notin {"check"} \X {0, 1}
        /\ step \in {"st", "stx", "cst"} \X {m} => IsSet(op, i, m) \/ Owed(op, i + 1, m)
        /\ Checked(op, i + 1, m) => \/ Checked(op, i, m)
                                    \/ step \in {<<"check", m>>, <<"clear", 0>>}
        /\ step = <<"stx", m>> => Checked(op, i, m)
        /\ step = <<"set", m>> /\ op \in DOMAIN FailTarget => Checked(op, i, m)
        /\ \A l \in {0, 1} : step = <<"check", l>> =>
              ~IsSet(op, FailTarget[op], m) /\ ~Checked(op, FailTarget[op], m)
  BY <1>1 DEF EntryFacts
<1>3. step = <<what, j>>
  BY <1>1
<1> HIDE DEF step
<1>4. Held(op, i, j) <=> HeldBy(c, j)
  BY DEF op, i, HeldBy
<1>5. \A m \in {0, 1} : /\ IsSet(op, i, m) <=> SetBy(c, m)
                        /\ Owed(op, i, m) <=> OwedBy(c, m)
                        /\ Checked(op, i, m) <=> CheckedBy(c, m)
  BY DEF op, i, SetBy, OwedBy, CheckedBy
<1>6. /\ what \in {"set", "check", "st", "stx", "cst", "unlock"} => HeldBy(c, j)
      /\ IsSet(op, i + 1, k) => SetBy(c, k) \/ (what = "set" /\ j = k)
      /\ OwedBy(c, k) => \/ what = "set" /\ j = k
                         \/ Owed(op, i + 1, k)
      /\ OwedBy(c, k) => what # "check" /\ ~(what \in Access /\ j = 0)
      /\ what \in {"st", "stx", "cst"} => SetBy(c, j) \/ Owed(op, i + 1, j)
      /\ Checked(op, i + 1, k) => \/ CheckedBy(c, k)
                                  \/ what = "check" /\ j = k
                                  \/ what = "clear"
      /\ what = "stx" => CheckedBy(c, j)
      /\ what = "set" /\ op \in DOMAIN FailTarget => CheckedBy(c, j)
      /\ what = "check" => ~IsSet(op, FailTarget[op], k) /\ ~Checked(op, FailTarget[op], k)
  BY <1>2, <1>3, <1>4, <1>5
<1> QED
  BY <1>6 DEF op, i

LEMMA FlagsAreHeld ==
    ASSUME StoreTableTypeOK, "amocas_q" \notin Ops, NEW c \in Cpus, NEW k \in {0, 1},
           SetBy(c, k) \/ OwedBy(c, k) \/ CheckedBy(c, k)
    PROVE  HeldBy(c, k)
<1>1. insn[c].op \in AllOps \cup {"none"}
  BY OpOf
<1>2. insn[c].op # "amocas_q"
  BY <1>1, OpOf
<1> QED
  BY <1>1, <1>2 DEF SetBy, OwedBy, CheckedBy, HeldBy, IsSet, Owed, Checked, Held, SetLow, SetHigh, OwedLow,
     OwedHigh, CheckedLow, CheckedHigh, HeldLow, HeldHigh, Nowhere, AllOps, Code

\* A core tests, sets, writes and unlocks an entry only while it holds it.
THEOREM EntriesAreHeld ==
    ASSUME EntryCount > 1, 0 \notin Addresses, "amocas_q" \notin Ops
    PROVE  StoreTableSpec => []EntryHeldInside
<1>1. StoreTableTypeOK /\ LocksInv => EntryHeldInside
  <2> SUFFICES ASSUME StoreTableTypeOK, LocksInv, NEW c \in Cpus, NEW k \in {0, 1},
                      NEW what \in {"set", "check", "st", "stx", "cst", "unlock"}, At(c, what, k)
               PROVE  entry_lock[EntryOf(c, k)] = c
    BY DEF EntryHeldInside
  <2>1. HeldBy(c, k)
    BY StepFacts
  <2> QED
    BY <2>1, HeldEntry
<1> QED
  BY <1>1, LocksInvariant, PTL


-----------------------------------------------------------------------------
(* The reservation.  Whoever writes a word sets its entry while it holds it: *)
(* before the store or, where the code has it the other way round, after it, *)
(* without a fault in between.                                               *)

\* A step of c that leaves the table's owners and adds nothing to stale.
LEMMA QuietStep ==
    ASSUME StoreTableTypeOK, NoticeInv, NEW c \in Cpus,
           UNCHANGED last_accessed_by_core_id,
           \A d \in Cpus \ {c} : insn'[d] = insn[d],
           \A d \in Cpus : \A w \in stale'[d] : w \in stale[d],
           \A k \in {0, 1} : SetBy(c, k)' => SetBy(c, k) /\ EntryOf(c, k)' = EntryOf(c, k),
           \A k \in {0, 1} : CheckedBy(c, k)' => \A w \in stale'[c] : Hash(w) # EntryOf(c, k)',
           \A k \in {0, 1} : OwedBy(c, k) => OwedBy(c, k)' /\ EntryOf(c, k)' = EntryOf(c, k)
    PROVE  NoticeInv'
<1>1. \A d \in Cpus \ {c}, k \in {0, 1} :
         /\ SetBy(d, k)' <=> SetBy(d, k)
         /\ OwedBy(d, k)' <=> OwedBy(d, k)
         /\ CheckedBy(d, k)' <=> CheckedBy(d, k)
         /\ EntryOf(d, k)' = EntryOf(d, k)
  BY DEF SetBy, OwedBy, CheckedBy, EntryOf, Word
<1>2. ASSUME NEW d \in Cpus, NEW k \in {0, 1}, SetBy(d, k)'
      PROVE  last_accessed_by_core_id'[EntryOf(d, k)'] = d
  BY <1>1, <1>2 DEF NoticeInv
<1>3. ASSUME NEW d \in Cpus, NEW k \in {0, 1}, CheckedBy(d, k)', NEW w \in stale'[d]
      PROVE  Hash(w) # EntryOf(d, k)'
  <2>1. CASE d = c
    BY <1>3, <2>1
  <2>2. CASE d # c
    BY <1>1, <1>3, <2>2 DEF NoticeInv
  <2> QED
    BY <2>1, <2>2
<1>4. ASSUME NEW d \in Cpus, NEW w \in stale'[d], last_accessed_by_core_id'[Hash(w)] = d
      PROVE  \E x \in Cpus \ {d}, k \in {0, 1} : OwedBy(x, k)' /\ EntryOf(x, k)' = Hash(w)
  <2>1. PICK x \in Cpus \ {d}, k \in {0, 1} : OwedBy(x, k) /\ EntryOf(x, k) = Hash(w)
    BY <1>4 DEF NoticeInv
  <2>2. OwedBy(x, k)' /\ EntryOf(x, k)' = EntryOf(x, k)
    <3>1. CASE x = c
      BY <2>1, <3>1
    <3>2. CASE x # c
      BY <1>1, <2>1, <3>2
    <3> QED
      BY <3>1, <3>2
  <2> QED
    BY <2>1, <2>2
<1>5. \A d \in Cpus, k \in {0, 1} : CheckedBy(d, k)' => \A w \in stale'[d] : Hash(w) # EntryOf(d, k)'
  BY <1>3
<1> QED
  BY <1>2, <1>4, <1>5 DEF NoticeInv, Hash

\* A step of an instruction that goes to the next one and neither sets,
\* checks nor drops anything.
LEMMA PlainStepKeepsNotice ==
    ASSUME StoreTableTypeOK, NoticeInv, "amocas_q" \notin Ops, NEW c \in Cpus, NEW what,
           NEW j \in {0, 1}, At(c, what, j), what \notin {"set", "check", "clear"}, Advance(c),
           UNCHANGED <<last_accessed_by_core_id, stale>>
    PROVE  NoticeInv'
<1>1. /\ \A k \in {0, 1} : SetBy(c, k)' <=> IsSet(insn[c].op, insn[c].pc + 1, k)
      /\ \A k \in {0, 1} : OwedBy(c, k)' <=> Owed(insn[c].op, insn[c].pc + 1, k)
      /\ \A k \in {0, 1} : CheckedBy(c, k)' <=> Checked(insn[c].op, insn[c].pc + 1, k)
      /\ \A k \in {0, 1} : SetBy(c, k)' \/ OwedBy(c, k)' \/ CheckedBy(c, k)' =>
            EntryOf(c, k)' = EntryOf(c, k)
      /\ \A d \in Cpus \ {c} : insn'[d] = insn[d]
  BY EntryAtStep
<1>2. \A k \in {0, 1} : SetBy(c, k)' => SetBy(c, k) /\ EntryOf(c, k)' = EntryOf(c, k)
  BY <1>1, StepFacts
<1>3. \A k \in {0, 1} : OwedBy(c, k) => OwedBy(c, k)' /\ EntryOf(c, k)' = EntryOf(c, k)
  BY <1>1, StepFacts
<1>4. \A k \in {0, 1} : CheckedBy(c, k)' => \A w \in stale'[c] : Hash(w) # EntryOf(c, k)'
  BY <1>1, StepFacts DEF NoticeInv
<1> QED
  BY <1>1, <1>2, <1>3, <1>4, QuietStep

\* The reservation changes and the history starts again.
LEMMA ReservationKeepsNotice ==
    ASSUME StoreTableTypeOK, NoticeInv, "amocas_q" \notin Ops, NEW c \in Cpus, NEW a,
           NEW what \in {"reserve", "clear"}, At(c, what, 0), SetReservation(c, a)
    PROVE  NoticeInv'
<1>0. /\ Advance(c) /\ UNCHANGED last_accessed_by_core_id
      /\ stale'[c] = {} /\ \A d \in Cpus \ {c} : stale'[d] = stale[d]
  BY DEF SetReservation, tableVars, StoreTableTypeOK
<1>1. /\ \A k \in {0, 1} : SetBy(c, k)' <=> IsSet(insn[c].op, insn[c].pc + 1, k)
      /\ \A k \in {0, 1} : OwedBy(c, k)' <=> Owed(insn[c].op, insn[c].pc + 1, k)
      /\ \A k \in {0, 1} : SetBy(c, k)' \/ OwedBy(c, k)' \/ CheckedBy(c, k)' =>
            EntryOf(c, k)' = EntryOf(c, k)
      /\ \A d \in Cpus \ {c} : insn'[d] = insn[d]
  BY <1>0, EntryAtStep
<1>2. \A k \in {0, 1} : SetBy(c, k)' => SetBy(c, k) /\ EntryOf(c, k)' = EntryOf(c, k)
  BY <1>1, StepFacts
<1>3. \A k \in {0, 1} : OwedBy(c, k) => OwedBy(c, k)' /\ EntryOf(c, k)' = EntryOf(c, k)
  BY <1>1, StepFacts
<1>4. \A d \in Cpus : \A w \in stale'[d] : w \in stale[d]
  BY <1>0
<1> QED
  BY <1>0, <1>1, <1>2, <1>3, <1>4, QuietStep

\* An entry that c holds and was the last to access has no write of another
\* core behind it.
LEMMA PassedCheck ==
    ASSUME StoreTableTypeOK, LocksInv, NoticeInv, 0 \notin Addresses, "amocas_q" \notin Ops,
           NEW c \in Cpus, NEW k \in {0, 1}, HeldBy(c, k),
           last_accessed_by_core_id[EntryOf(c, k)] = c
    PROVE  \A w \in stale[c] : Hash(w) # EntryOf(c, k)
<1> SUFFICES ASSUME NEW w \in stale[c], Hash(w) = EntryOf(c, k) PROVE FALSE
  OBVIOUS
<1>1. PICK d \in Cpus \ {c}, j \in {0, 1} : OwedBy(d, j) /\ EntryOf(d, j) = Hash(w)
  BY DEF NoticeInv
<1>2. HeldBy(d, j)
  BY <1>1, FlagsAreHeld
<1> QED
  BY <1>1, <1>2, HeldApart

LEMMA CheckKeepsNotice ==
    ASSUME StoreTableTypeOK, LocksInv, NoticeInv, 0 \notin Addresses, "amocas_q" \notin Ops,
           NEW c \in Cpus, NEW j \in {0, 1}, Check(c, j)
    PROVE  NoticeInv'
<1>1. At(c, "check", j) /\ UNCHANGED <<last_accessed_by_core_id, stale>>
  BY DEF Check, tableVars
<1>2. \A k \in {0, 1} : ~OwedBy(c, k)
  BY <1>1, StepFacts
<1>3. CASE Advance(c) /\ last_accessed_by_core_id[EntryOf(c, j)] = c
  <2>1. /\ \A k \in {0, 1} : SetBy(c, k)' <=> IsSet(insn[c].op, insn[c].pc + 1, k)
        /\ \A k \in {0, 1} : CheckedBy(c, k)' <=> Checked(insn[c].op, insn[c].pc + 1, k)
        /\ \A k \in {0, 1} : SetBy(c, k)' \/ OwedBy(c, k)' \/ CheckedBy(c, k)' =>
              EntryOf(c, k)' = EntryOf(c, k)
        /\ \A d \in Cpus \ {c} : insn'[d] = insn[d]
    BY <1>1, <1>3, EntryAtStep
  <2>2. \A k \in {0, 1} : SetBy(c, k)' => SetBy(c, k) /\ EntryOf(c, k)' = EntryOf(c, k)
    BY <1>1, <2>1, StepFacts
  <2>3. HeldBy(c, j)
    BY <1>1, StepFacts
  <2>4. \A w \in stale[c] : Hash(w) # EntryOf(c, j)
    BY <1>3, <2>3, PassedCheck
  <2>5. ASSUME NEW k \in {0, 1}, CheckedBy(c, k)'
        PROVE  \A w \in stale'[c] : Hash(w) # EntryOf(c, k)'
    <3>1. CheckedBy(c, k) \/ j = k
      BY <1>1, <2>1, <2>5, StepFacts
    <3>2. EntryOf(c, k)' = EntryOf(c, k) /\ stale'[c] = stale[c]
      BY <1>1, <2>1, <2>5
    <3> QED
      BY <2>4, <3>1, <3>2 DEF NoticeInv
  <2> QED
    BY <1>1, <1>2, <2>1, <2>2, <2>5, QuietStep
<1>4. CASE Goto(c, FailTarget[insn[c].op])
  <2> DEFINE pc == FailTarget[insn[c].op]
             n == Len(Code[insn[c].op])
  <2>1. pc \in 1 .. 12 /\ pc \in 1 .. n
    BY <1>1, CheckTarget
  <2>2. insn[c].op \in AllOps /\ n \in 0 .. 11
    BY <1>1, AtFacts
  <2>3. \A k \in {0, 1} : ~IsSet(insn[c].op, pc, k) /\ ~Checked(insn[c].op, pc, k)
    BY <1>1, StepFacts
  <2>4. Goto(c, pc)
    BY <1>4
  <2> HIDE DEF n, pc
  <2>5. pc <= n + 1
    BY <2>1, <2>2
  <2>6. /\ \A k \in {0, 1} : SetBy(c, k)' <=> IsSet(insn[c].op, pc, k)
        /\ \A k \in {0, 1} : CheckedBy(c, k)' <=> Checked(insn[c].op, pc, k)
        /\ \A d \in Cpus \ {c} : insn'[d] = insn[d]
    BY <2>1, <2>2, <2>4, <2>5, EntryAfter DEF n
  <2> QED
    BY <1>1, <1>2, <2>3, <2>6, QuietStep
<1> QED
  BY <1>3, <1>4 DEF Check

\* An instruction begins, or is left where no set is owed.
LEMMA JumpKeepsNotice ==
    ASSUME StoreTableTypeOK, NoticeInv, NEW c \in Cpus, \A k \in {0, 1} : ~OwedBy(c, k),
           UNCHANGED <<last_accessed_by_core_id, stale>>,
           NEW op \in AllOps \cup {"none"}, op # "amocas_q", NEW a,
           insn' = [insn EXCEPT ![c] = [op |-> op, address |-> a, pc |-> 1]]
    PROVE  NoticeInv'
<1>1. insn'[c].op = op /\ insn'[c].pc = 1 /\ \A d \in Cpus \ {c} : insn'[d] = insn[d]
  BY DEF StoreTableTypeOK
<1>2. \A k \in {0, 1} : ~IsSet(op, 1, k) /\ ~Owed(op, 1, k) /\ ~Checked(op, 1, k)
  BY EntryFactsHold DEF EntryFacts
<1>3. \A k \in {0, 1} : ~SetBy(c, k)' /\ ~OwedBy(c, k)' /\ ~CheckedBy(c, k)'
  BY <1>1, <1>2 DEF SetBy, OwedBy, CheckedBy
<1> QED
  BY <1>1, <1>3, QuietStep

LEMMA SetKeepsNotice ==
    ASSUME StoreTableTypeOK, LocksInv, NoticeInv, 0 \notin Addresses, "amocas_q" \notin Ops,
           NEW c \in Cpus, NEW j \in {0, 1}, Set(c, j)
    PROVE  NoticeInv'
<1> DEFINE e == EntryOf(c, j)
           last == last_accessed_by_core_id
<1>1. At(c, "set", j) /\ Advance(c)
  BY DEF Set
<1>2. /\ \A k \in {0, 1} : SetBy(c, k)' <=> IsSet(insn[c].op, insn[c].pc + 1, k)
      /\ \A k \in {0, 1} : OwedBy(c, k)' <=> Owed(insn[c].op, insn[c].pc + 1, k)
      /\ \A k \in {0, 1} : CheckedBy(c, k)' <=> Checked(insn[c].op, insn[c].pc + 1, k)
      /\ \A k \in {0, 1} : SetBy(c, k)' \/ OwedBy(c, k)' \/ CheckedBy(c, k)' =>
            EntryOf(c, k)' = EntryOf(c, k)
      /\ \A d \in Cpus \ {c} : insn'[d] = insn[d]
  BY <1>1, EntryAtStep
<1>3. HeldBy(c, j)
  BY <1>1, StepFacts
<1>4. e \in Entries /\ \A d \in Cpus, k \in {0, 1} : EntryOf(d, k) \in Entries
  BY WordType
<1>5. \A f \in Entries : last'[f] = IF f = e THEN c ELSE last[f]
  BY <1>4 DEF Set, StoreTableTypeOK
<1>6. /\ \A d \in Cpus \ {c} : stale'[d] = stale[d]
      /\ stale'[c] = {w \in stale[c] : Hash(w) # e \/ insn[c].op \in DOMAIN FailTarget}
  BY DEF Set, StoreTableTypeOK
<1>7. \A d \in Cpus \ {c}, k \in {0, 1} :
         /\ SetBy(d, k)' <=> SetBy(d, k)
         /\ OwedBy(d, k)' <=> OwedBy(d, k)
         /\ CheckedBy(d, k)' <=> CheckedBy(d, k)
         /\ EntryOf(d, k)' = EntryOf(d, k)
  BY <1>2 DEF SetBy, OwedBy, CheckedBy, EntryOf, Word
<1>8. ASSUME NEW d \in Cpus, NEW w \in stale'[d] PROVE w \in stale[d] /\ Hash(w) \in Entries
  <2>1. w \in stale[d]
    BY <1>6
  <2>2. w \in Words
    BY <2>1 DEF StoreTableTypeOK
  <2> QED
    BY <2>1, <2>2, WordsNat, HashType
<1> HIDE DEF e, last
<1>9. ASSUME NEW d \in Cpus, NEW k \in {0, 1}, SetBy(d, k)' PROVE last'[EntryOf(d, k)'] = d
  <2>1. CASE d = c
    <3>1. SetBy(c, k) \/ k = j
      BY <1>1, <1>2, <1>9, <2>1, StepFacts
    <3>2. EntryOf(c, k)' = EntryOf(c, k)
      BY <1>2, <1>9, <2>1
    <3>3. SetBy(c, k) => last[EntryOf(c, k)] = c
      BY DEF NoticeInv, last
    <3> QED
      BY <1>4, <1>5, <2>1, <3>1, <3>2, <3>3 DEF e
  <2>2. CASE d # c
    <3>1. SetBy(d, k) /\ EntryOf(d, k)' = EntryOf(d, k)
      BY <1>7, <1>9, <2>2
    <3>2. EntryOf(d, k) # e
      BY <1>3, <2>2, <3>1, FlagsAreHeld, HeldApart DEF e
    <3> QED
      BY <1>4, <1>5, <3>1, <3>2 DEF NoticeInv, last
  <2> QED
    BY <2>1, <2>2
<1>10. ASSUME NEW d \in Cpus, NEW k \in {0, 1}, CheckedBy(d, k)', NEW w \in stale'[d]
       PROVE  Hash(w) # EntryOf(d, k)'
  <2>1. CheckedBy(d, k) /\ EntryOf(d, k)' = EntryOf(d, k)
    <3>1. CASE d = c
      BY <1>1, <1>2, <1>10, <3>1, StepFacts
    <3>2. CASE d # c
      BY <1>7, <1>10, <3>2
    <3> QED
      BY <3>1, <3>2
  <2> QED
    BY <1>8, <2>1 DEF NoticeInv
<1>11. ASSUME NEW d \in Cpus, NEW w \in stale'[d], last'[Hash(w)] = d
       PROVE  \E x \in Cpus \ {d}, k \in {0, 1} : OwedBy(x, k)' /\ EntryOf(x, k)' = Hash(w)
  <2>1. w \in stale[d] /\ Hash(w) \in Entries
    BY <1>8
  <2>2. Hash(w) # e
    <3>1. CASE d = c
      <4> SUFFICES ASSUME Hash(w) = e PROVE FALSE
        OBVIOUS
      <4>1. insn[c].op \in DOMAIN FailTarget
        BY <1>6, <3>1
      <4>2. CheckedBy(c, j)
        BY <1>1, <4>1, StepFacts
      <4> QED
        BY <2>1, <3>1, <4>2 DEF NoticeInv, e
    <3>2. CASE d # c
      BY <1>5, <1>11, <2>1, <3>2
    <3> QED
      BY <3>1, <3>2
  <2>3. last[Hash(w)] = d
    BY <1>5, <1>11, <2>1, <2>2
  <2>4. PICK x \in Cpus \ {d}, k \in {0, 1} : OwedBy(x, k) /\ EntryOf(x, k) = Hash(w)
    BY <2>1, <2>3 DEF NoticeInv, last
  <2>5. OwedBy(x, k)' /\ EntryOf(x, k)' = EntryOf(x, k)
    <3>1. CASE x = c
      <4>1. k # j
        BY <2>2, <2>4, <3>1 DEF e
      <4>2. Owed(insn[c].op, insn[c].pc + 1, k)
        BY <1>1, <2>4, <3>1, <4>1, StepFacts
      <4> QED
        BY <1>2, <3>1, <4>2
    <3>2. CASE x # c
      BY <1>7, <2>4, <3>2
    <3> QED
      BY <3>1, <3>2
  <2> QED
    BY <2>4, <2>5
<1>12. \A d \in Cpus, k \in {0, 1} : CheckedBy(d, k)' => \A w \in stale'[d] : Hash(w) # EntryOf(d, k)'
  BY <1>10
<1> QED
  BY <1>9, <1>11, <1>12 DEF NoticeInv, last, Hash

LEMMA StoreKeepsNotice ==
    ASSUME StoreTableTypeOK, LocksInv, NoticeInv, 0 \notin Addresses, "amocas_q" \notin Ops,
           NEW c \in Cpus, NEW j \in {0, 1}, Store(c, j)
    PROVE  NoticeInv'
<1> DEFINE e == EntryOf(c, j)
           last == last_accessed_by_core_id
<1>1. PICK what \in {"st", "stx", "cst"} : At(c, what, j)
  BY DEF Store
<1>2. Advance(c) /\ last' = last
  BY DEF Store, tableVars
<1>3. /\ \A k \in {0, 1} : SetBy(c, k)' <=> IsSet(insn[c].op, insn[c].pc + 1, k)
      /\ \A k \in {0, 1} : OwedBy(c, k)' <=> Owed(insn[c].op, insn[c].pc + 1, k)
      /\ \A k \in {0, 1} : CheckedBy(c, k)' <=> Checked(insn[c].op, insn[c].pc + 1, k)
      /\ \A k \in {0, 1} : SetBy(c, k)' \/ OwedBy(c, k)' \/ CheckedBy(c, k)' =>
            EntryOf(c, k)' = EntryOf(c, k)
      /\ \A d \in Cpus \ {c} : insn'[d] = insn[d]
  BY <1>1, <1>2, EntryAtStep
<1>4. HeldBy(c, j)
  BY <1>1, StepFacts
<1>5. \A d \in Cpus \ {c}, k \in {0, 1} :
         /\ SetBy(d, k)' <=> SetBy(d, k)
         /\ OwedBy(d, k)' <=> OwedBy(d, k)
         /\ CheckedBy(d, k)' <=> CheckedBy(d, k)
         /\ EntryOf(d, k)' = EntryOf(d, k)
  BY <1>3 DEF SetBy, OwedBy, CheckedBy, EntryOf, Word
<1>6. /\ stale'[c] = stale[c]
      /\ \A d \in Cpus \ {c} : \A w \in stale'[d] : w \in stale[d] \/ w = Word(c, j)
  BY DEF Store
<1>7. Hash(Word(c, j)) = e
  BY DEF EntryOf
<1>8. ASSUME NEW k \in {0, 1}
      PROVE  /\ SetBy(c, k)' => SetBy(c, k)
             /\ CheckedBy(c, k)' => CheckedBy(c, k)
             /\ OwedBy(c, k) => OwedBy(c, k)' /\ EntryOf(c, k)' = EntryOf(c, k)
  BY <1>1, <1>3, StepFacts
<1> HIDE DEF e, last
<1>9. ASSUME NEW d \in Cpus, NEW k \in {0, 1}, SetBy(d, k)' PROVE last'[EntryOf(d, k)'] = d
  BY <1>2, <1>3, <1>5, <1>8, <1>9 DEF NoticeInv, last
<1>10. ASSUME NEW d \in Cpus, NEW k \in {0, 1}, CheckedBy(d, k)', NEW w \in stale'[d]
       PROVE  Hash(w) # EntryOf(d, k)'
  <2>1. CheckedBy(d, k) /\ EntryOf(d, k)' = EntryOf(d, k)
    BY <1>3, <1>5, <1>8, <1>10
  <2>2. CASE w \in stale[d]
    BY <2>1, <2>2 DEF NoticeInv
  <2>3. CASE d # c /\ w = Word(c, j)
    BY <1>4, <1>7, <2>1, <2>3, FlagsAreHeld, HeldApart DEF e
  <2> QED
    BY <1>6, <1>10, <2>2, <2>3
<1>11. ASSUME NEW d \in Cpus, NEW w \in stale'[d], last'[Hash(w)] = d
       PROVE  \E x \in Cpus \ {d}, k \in {0, 1} : OwedBy(x, k)' /\ EntryOf(x, k)' = Hash(w)
  <2>1. CASE w \in stale[d]
    <3>1. PICK x \in Cpus \ {d}, k \in {0, 1} : OwedBy(x, k) /\ EntryOf(x, k) = Hash(w)
      BY <1>2, <1>11, <2>1 DEF NoticeInv, last
    <3> QED
      BY <1>5, <1>8, <3>1
  <2>2. CASE d # c /\ w = Word(c, j)
    <3>1. ~SetBy(c, j)
      BY <1>2, <1>7, <1>11, <2>2 DEF NoticeInv, last, e
    <3>2. OwedBy(c, j)'
      BY <1>1, <1>3, <3>1, StepFacts
    <3> QED
      BY <1>3, <1>7, <2>2, <3>2 DEF e
  <2> QED
    BY <1>6, <1>11, <2>1, <2>2
<1>12. \A d \in Cpus, k \in {0, 1} : CheckedBy(d, k)' => \A w \in stale'[d] : Hash(w) # EntryOf(d, k)'
  BY <1>10
<1> QED
  BY <1>9, <1>11, <1>12 DEF NoticeInv, last, Hash

LEMMA NoticeInit == StoreTableInit => NoticeInv
<1> SUFFICES ASSUME StoreTableInit PROVE NoticeInv
  OBVIOUS
<1>1. \A c \in Cpus : insn[c].op = "none" /\ insn[c].pc = 1 /\ stale[c] = {}
  BY DEF StoreTableInit, Idle
<1>2. \A c \in Cpus, k \in {0, 1} : ~SetBy(c, k)
  BY <1>1, EntryFactsHold DEF EntryFacts, SetBy
<1> QED
  BY <1>1, <1>2 DEF NoticeInv

LEMMA NoticeStep ==
    ASSUME 0 \notin Addresses, "amocas_q" \notin Ops, LateFaults = {}
    PROVE  StoreTableTypeOK /\ LocksInv /\ NoticeInv /\ [StoreTableNext]_vars => NoticeInv'
<1> SUFFICES ASSUME StoreTableTypeOK, LocksInv, NoticeInv, [StoreTableNext]_vars PROVE NoticeInv'
  OBVIOUS
<1>0. ASSUME NEW c \in Cpus, insn[c] = Idle PROVE \A k \in {0, 1} : ~OwedBy(c, k)
  BY <1>0, EntryFactsHold DEF EntryFacts, OwedBy, Idle
<1>1. ASSUME NEW c \in Cpus, NEW op \in Ops, NEW a \in Addresses, Begin(c, op, a) PROVE NoticeInv'
  <2>1. \A k \in {0, 1} : ~OwedBy(c, k)
    BY <1>0, <1>1 DEF Begin
  <2>2. op \in AllOps \cup {"none"} /\ op # "amocas_q"
    BY StoreTableAssumption
  <2> QED
    BY <1>1, <2>1, <2>2, JumpKeepsNotice DEF Begin, tableVars
<1>2. ASSUME NEW c \in Cpus, Reserve(c) PROVE NoticeInv'
  BY <1>2, ReservationKeepsNotice DEF Reserve
<1>3. ASSUME NEW c \in Cpus, ClearReservation(c) PROVE NoticeInv'
  BY <1>3, ReservationKeepsNotice DEF ClearReservation
<1>4. ASSUME NEW c \in Cpus, NEW k \in {0, 1}, Lock(c, k) PROVE NoticeInv'
  <2>1. CASE Advance(c)
    BY <1>4, <2>1, PlainStepKeepsNotice DEF Lock
  <2>2. CASE UNCHANGED insn
    BY <1>4, <2>2 DEF Lock, NoticeInv, SetBy, OwedBy, CheckedBy, EntryOf, Word
  <2> QED
    BY <1>4, <2>1, <2>2 DEF Lock
<1>5. ASSUME NEW c \in Cpus, NEW k \in {0, 1}, Unlock(c, k) PROVE NoticeInv'
  BY <1>5, PlainStepKeepsNotice DEF Unlock
<1>6. ASSUME NEW c \in Cpus, NEW k \in {0, 1}, Set(c, k) PROVE NoticeInv'
  BY <1>6, SetKeepsNotice
<1>7. ASSUME NEW c \in Cpus, NEW k \in {0, 1}, Check(c, k) PROVE NoticeInv'
  BY <1>7, CheckKeepsNotice
<1>8. ASSUME NEW c \in Cpus, NEW k \in {0, 1}, Load(c, k) \/ SkipStore(c, k) PROVE NoticeInv'
  BY <1>8, PlainStepKeepsNotice DEF Load, SkipStore, tableVars
<1>9. ASSUME NEW c \in Cpus, NEW k \in {0, 1}, Store(c, k) PROVE NoticeInv'
  BY <1>9, StoreKeepsNotice
<1>10. ASSUME NEW c \in Cpus, NEW k \in {0, 1}, Fault(c, k) PROVE NoticeInv'
  <2>1. k = 0
    BY <1>10 DEF Fault
  <2>2. PICK what \in Access : At(c, what, 0)
    BY <1>10, <2>1 DEF Fault, Access
  <2>3. \A m \in {0, 1} : ~OwedBy(c, m)
    BY <2>2, StepFacts
  <2>4. insn' = [insn EXCEPT ![c] = [op |-> "none", address |-> 0, pc |-> 1]]
    BY <1>10 DEF Fault, Idle
  <2>5. UNCHANGED <<last_accessed_by_core_id, stale>>
    BY <1>10 DEF Fault, tableVars
  <2> QED
    BY <2>3, <2>4, <2>5, JumpKeepsNotice
<1>11. CASE UNCHANGED <<last_accessed_by_core_id, stale, insn>>
  BY <1>11 DEF NoticeInv, SetBy, OwedBy, CheckedBy, EntryOf, Word
<1>12. ASSUME NEW c \in Cpus, LoopExit(c) \/ Enter(c) \/ UnlockDanglingLocks(c) PROVE NoticeInv'
  BY <1>11, <1>12 DEF LoopExit, Enter, UnlockDanglingLocks, UnlockDangling, tableVars
<1>13. CASE UNCHANGED vars
  BY <1>11, <1>13 DEF vars, tableVars
<1> QED
  BY <1>1, <1>2, <1>3, <1>4, <1>5, <1>6, <1>7, <1>8, <1>9, <1>10, <1>12, <1>13
     DEF StoreTableNext, Execute

\* A store-exclusive that is about to store has itself set the entry after
\* every write of another core to the word, for any number of cores and
\* however many addresses share an entry.
THEOREM ForeignWritesAreNoticed ==
    ASSUME EntryCount > 1, 0 \notin Addresses, "amocas_q" \notin Ops, LateFaults = {}
    PROVE  StoreTableSpec => []WritesAreNoticed
<1>1. StoreTableInit => StoreTableTypeOK /\ LocksInv /\ NoticeInv
  BY TypeInit, LocksInit, NoticeInit
<1>2. StoreTableTypeOK /\ LocksInv /\ NoticeInv /\ [StoreTableNext]_vars =>
         (StoreTableTypeOK /\ LocksInv /\ NoticeInv)'
  BY TypeStep, LocksStep, NoticeStep
<1>3. StoreTableTypeOK /\ LocksInv /\ NoticeInv => WritesAreNoticed
  <2> SUFFICES ASSUME StoreTableTypeOK, LocksInv, NoticeInv, NEW c \in Cpus, NEW k \in {0, 1},
                      At(c, "stx", k), Word(c, k) \in stale[c]
               PROVE  FALSE
    BY DEF WritesAreNoticed
  <2>1. CheckedBy(c, k)
    BY StepFacts
  <2> QED
    BY <2>1 DEF NoticeInv, EntryOf
<1> QED
  BY <1>1, <1>2, <1>3, PTL DEF StoreTableSpec

-----------------------------------------------------------------------------
(* Waiting *)

\* Induction over the entries from e on, through a least counterexample.
LEMMA Upwards ==
    ASSUME NEW H, NEW n \in Nat, NEW e \in Nat, e \in H,
           \A f \in Nat : f \in H /\ f < n => f + 1 \in H
    PROVE  \A m \in Nat : e <= m /\ m <= n => m \in H
<1> DEFINE S == {m \in Nat : e <= m /\ m <= n /\ m \notin H}
           R == OpToRel(<, Nat)
<1> SUFFICES ASSUME S # {} PROVE FALSE
  OBVIOUS
<1>1. \A j, k \in Nat : j < k => <<j, k>> \in R
  BY DEF OpToRel
<1>2. IsWellFoundedOn(R, Nat)
  BY NatLessThanWellFounded
<1>3. S \subseteq Nat
  OBVIOUS
<1> HIDE DEF R, S
<1>4. PICK m \in S : \A j \in S : ~(<<j, m>> \in R)
  BY <1>2, <1>3, WFMin, Zenon
<1>5. m \in Nat /\ e <= m /\ m <= n /\ m \notin H
  BY DEF S
<1>6. m # e /\ m - 1 \in Nat /\ m - 1 < m /\ e <= m - 1 /\ m - 1 < n
  BY <1>5
<1>7. m - 1 \notin S
  BY <1>1, <1>4, <1>5, <1>6
<1>8. m - 1 \in H
  BY <1>5, <1>6, <1>7 DEF S
<1>9. (m - 1) + 1 \in H
  BY <1>6, <1>8
<1> QED
  BY <1>5, <1>9

\* A core that waits for an entry and holds one waits for the entry that
\* follows the only one it holds.
LEMMA WaitingHolds ==
    ASSUME StoreTableTypeOK, LocksInv, 0 \notin Addresses, NEW c \in Cpus, NEW k \in {0, 1},
           At(c, "lock", k), NEW e \in Entries, entry_lock[e] = c
    PROVE  k = 1 /\ e = Hash(insn[c].address) /\ insn[c].address \in Nat
<1>1. /\ insn[c].pc \in 1 .. Len(Code[insn[c].op]) /\ insn[c].op \in AllOps
      /\ Code[insn[c].op][insn[c].pc] = <<"lock", k>> /\ phase[c] = "run"
  BY AtFacts
<1>2. LockFacts(insn[c].op)
  BY <1>1, LockFactsHold
<1>3. ~HeldBy(c, k) /\ (HeldBy(c, 1 - k) <=> k = 1)
  BY <1>1, <1>2 DEF LockFacts, HeldBy
<1>4. PICK m \in {0, 1} : locked_address[c][m] # 0 /\ Hash(locked_address[c][m]) = e
  BY DEF LocksInv, Noted
<1>5. HeldBy(c, m) /\ locked_address[c][m] = Word(c, m)
  BY <1>1, <1>4 DEF LocksInv, OwnLocks
<1>6. m = 1 - k
  BY <1>3, <1>5
<1>7. k = 1 /\ m = 0
  BY <1>3, <1>5, <1>6
<1>8. insn[c].address \in Nat
  BY OpOf
<1> QED
  BY <1>4, <1>5, <1>7, <1>8 DEF Word

\* No cores wait for each other in a cycle: the entry a pair waits for is the
\* one after the entry it holds, so a cycle would need a core for every entry
\* of the table.  There are fewer cores than entries.
THEOREM WaitsAreAcyclic ==
    ASSUME EntryCount > 1, 0 \notin Addresses, IsFiniteSet(Cpus), Cardinality(Cpus) < EntryCount
    PROVE  StoreTableSpec => []NoWaitCycle
<1>1. StoreTableTypeOK /\ LocksInv => NoWaitCycle
  <2> SUFFICES ASSUME StoreTableTypeOK, LocksInv, NEW group \in SUBSET Cpus, group # {},
                      \A c \in group : \E k \in {0, 1} :
                          At(c, "lock", k) /\ entry_lock[EntryOf(c, k)] \in group
               PROVE  FALSE
    BY DEF NoWaitCycle
  <2> DEFINE H == {e \in Entries : entry_lock[e] \in group}
             n == EntryCount - 1
  <2>1. EntryCount \in Nat /\ n \in Nat /\ Entries = 0 .. n
    BY StoreTableAssumption DEF Entries
  <2>2. ASSUME NEW e \in H
        PROVE  /\ e = Hash(insn[entry_lock[e]].address)
               /\ (IF e = n THEN 0 ELSE e + 1) \in H
    <3> DEFINE c == entry_lock[e]
    <3>1. c \in group /\ c \in Cpus /\ e \in Entries
      BY <2>2
    <3>2. PICK k \in {0, 1} : At(c, "lock", k) /\ entry_lock[EntryOf(c, k)] \in group
      BY <3>1
    <3>3. k = 1 /\ e = Hash(insn[c].address) /\ insn[c].address \in Nat
      BY <3>1, <3>2, WaitingHolds
    <3>4. EntryOf(c, 1) \in H
      BY <3>1, <3>2, <3>3, WordType
    <3>5. EntryOf(c, 1) = IF e = n THEN 0 ELSE e + 1
      BY <3>3, NextEntry DEF EntryOf, Word
    <3> QED
      BY <3>3, <3>4, <3>5
  <2>3. PICK e \in H : TRUE
    <3>1. PICK c \in group : TRUE
      OBVIOUS
    <3>2. PICK k \in {0, 1} : entry_lock[EntryOf(c, k)] \in group
      BY <3>1
    <3>3. EntryOf(c, k) \in Entries
      BY WordType
    <3> QED
      BY <3>2, <3>3
  <2>4. \A f \in H : f \in 0 .. n /\ f \in Nat
    BY <2>1
  <2>5. \A f \in Nat : f \in H /\ f < n => f + 1 \in H
    BY <2>1, <2>2
  <2>6. n \in H => 0 \in H
    BY <2>2
  <2> HIDE DEF H, n
  <2>7. n \in H
    <3>1. \A m \in Nat : e <= m /\ m <= n => m \in H
      BY <2>1, <2>3, <2>4, <2>5, Upwards
    <3> QED
      BY <2>1, <2>4, <3>1
  <2>8. \A f \in Entries : f \in H
    <3>1. \A m \in Nat : 0 <= m /\ m <= n => m \in H
      BY <2>1, <2>5, <2>6, <2>7, Upwards
    <3> QED
      BY <2>1, <3>1
  <2>9. \A e1, e2 \in Entries : entry_lock[e1] = entry_lock[e2] => e1 = e2
    BY <2>2, <2>8
  <2>10. entry_lock \in [Entries -> group]
    BY <2>8 DEF H, StoreTableTypeOK
  <2>11. IsFiniteSet(group) /\ Cardinality(group) <= Cardinality(Cpus)
    BY FS_Subset
  <2>12. IsFiniteSet(Entries) /\ Cardinality(Entries) = EntryCount
    <3>1. IsFiniteSet(0 .. EntryCount - 1) /\ Cardinality(0 .. EntryCount - 1) = EntryCount
      BY <2>1, FS_Interval
    <3> QED
      BY <3>1 DEF Entries
  <2>13. Cardinality(group) \in Nat /\ Cardinality(Cpus) \in Nat
    BY <2>11, FS_CardinalityType
  <2>14. Cardinality(group) < Cardinality(Entries)
    BY <2>1, <2>11, <2>12, <2>13
  <2> QED
    BY <2>9, <2>10, <2>11, <2>12, <2>14, FS_PigeonHole
<1> QED
  BY <1>1, LocksInvariant, PTL
=============================================================================
