------------------------- MODULE Rl78ExecutionProofs ------------------------
(***************************************************************************)
(* Proofs about the execution of RL78 code, for every program whose skips  *)
(* are not adjacent (the finding AdjacentSkips shows what happens to the   *)
(* others), any quantum, page size and nesting of interrupts.              *)
(***************************************************************************)
EXTENDS Rl78Execution, SequenceTheorems, TLAPS

\* No execution leaves the program: an instruction that may be followed by
\* the next one is, also when it is skipped.
StaysInside(P) ==
    /\ \A p \in Pcs : P[p] \notin {"br", "reti"} => p + 1 \in Pcs
    /\ \A p \in Pcs : P[p] = "skip" => p + 2 \in Pcs

NoAdjacentSkips(P) == \A p \in Pcs : P[p] = "skip" => P[p + 1] # "skip"

WellFormedPrograms == \A P \in Programs : StaysInside(P) /\ NoAdjacentSkips(P)

\* The block behind an exit: one for every exit, which is why it may be
\* patched for good.  With adjacent skips there would be two.
Target(x) == [pc |-> IF x[3] = 0 THEN x[1] + 1 ELSE 0,
              flags |-> IF program[x[1]] = "skip" THEN 1 ELSE 0]

ProgramInv ==
    /\ program \in [Pcs -> Kinds] /\ StaysInside(program) /\ NoAdjacentSkips(program)
    /\ at \in Pcs
    /\ jmp \in [Exits -> Blocks \cup {NoBlock}]
    /\ exit_request \in BOOLEAN /\ tb_restart_request \in BOOLEAN /\ hard \in BOOLEAN

\* The skip state, the instruction it is about and the one in front of it.
SkipInv ==
    /\ guest.skip_en = 1 => at - 1 \in Pcs /\ program[at - 1] = "skip"
    /\ guest.skip_req = 1 => guest.skip_en = 1
    /\ due = IF guest.skip_req = 1 THEN at ELSE NoPc

ChainInv ==
    /\ loc \in {"enter", "block"} => tb = [pc |-> at, flags |-> guest.skip_en]
    /\ loc # "block" => guest.pc = at
    /\ \A x \in Exits : jmp[x] # NoBlock => jmp[x] = Target(x)
    /\ loc \in {"loop", "checks", "enter"} /\ next_tb # NoBlock =>
          Target(next_tb) = [pc |-> at, flags |-> guest.skip_en]

\* What is left of the quantum and what has run of it make it up.
CountInv ==
    /\ ran \in [run : Nat, read : Nat]
    /\ loc = "host" => count.declaration = 0 /\ count.local = 0
    /\ loc # "host" => /\ ran.run + count.limit - count.value - count.declaration = Quantum
                       /\ count.value + count.declaration <= count.limit

RequestInv == wanted \in Irqs \cup {-1} /\ RequestIsKept

Registers == [pc : Pcs, ie : {0, 1}, isp : 0 .. 3, skip_en : {0, 1}, skip_req : {0, 1},
              stack : Seq(Frames)]
Counters == [limit : 0 .. Quantum, value : 0 .. Quantum, declaration : {0, 1}, local : 0 .. Quantum]

IInv == Rl78TypeOK /\ ProgramInv /\ SkipInv /\ ChainInv /\ CountInv /\ CountIsExact

-----------------------------------------------------------------------------
(* Lemmas about the code of a block *)

\* What leaving a block for dest does, through whichever exit.
Left(dest, registers) ==
    /\ at' = dest
    /\ guest' \in Registers
    /\ \A f \in {"ie", "isp", "skip_en", "skip_req", "stack"} : guest'[f] = registers[f]
    /\ loc' \in {"loop", "block"}
    /\ loc' = "loop" => guest'.pc = dest
    /\ loc' = "block" => tb' = [pc |-> dest, flags |-> registers.skip_en]
    /\ jmp' = jmp
    /\ tb' \in Blocks \cup {NoBlock} /\ next_tb' \in Exits \cup {NoBlock}
    /\ loc' = "loop" /\ next_tb' # NoBlock =>
          Target(next_tb') = [pc |-> dest, flags |-> registers.skip_en]

LEMMA LeftNoChaining ==
    ASSUME IInv, NEW dest \in Pcs, NEW registers \in Registers, ExitNoChaining(dest, registers)
    PROVE  Left(dest, registers)
<1>1. guest' = [registers EXCEPT !.pc = dest] /\ at' = dest /\ next_tb' = NoBlock
      /\ loc' = "loop" /\ tb' = tb /\ jmp' = jmp
  BY DEF ExitNoChaining
<1>2. guest' \in Registers /\ guest'.pc = dest
  BY <1>1 DEF Registers
<1>3. \A f \in {"ie", "isp", "skip_en", "skip_req", "stack"} : guest'[f] = registers[f]
  BY <1>1 DEF Registers
<1>4. tb \in Blocks \cup {NoBlock}
  BY DEF IInv, Rl78TypeOK
<1> QED
  BY <1>1, <1>2, <1>3, <1>4 DEF Left

LEMMA LeftByExit ==
    ASSUME IInv, loc = "block", NEW dest \in Pcs, NEW registers \in Registers, NEW slot \in {0, 1},
           Target(<<tb.pc, tb.flags, slot>>) = [pc |-> dest, flags |-> registers.skip_en],
           Exit(slot, dest, registers)
    PROVE  Left(dest, registers)
<1> DEFINE x == <<tb.pc, tb.flags, slot>>
<1>1. tb \in Blocks /\ tb.pc \in Pcs /\ tb.flags \in {0, 1}
  BY DEF IInv, ChainInv, ProgramInv, Rl78TypeOK, Blocks
<1>2. x \in Exits
  BY <1>1 DEF Exits
<1>3. [pc |-> dest, flags |-> registers.skip_en] \in Blocks
  BY DEF Blocks, Registers
<1>4. CASE tb.pc \div PageSize # dest \div PageSize
  BY <1>4, LeftNoChaining DEF Exit
<1>5. CASE tb.pc \div PageSize = dest \div PageSize /\ jmp[x] = NoBlock
  <2>1. /\ guest' = [registers EXCEPT !.pc = dest] /\ at' = dest /\ next_tb' = x
        /\ loc' = "loop" /\ tb' = tb /\ jmp' = jmp
    BY <1>5 DEF Exit
  <2>2. guest' \in Registers /\ guest'.pc = dest
    BY <2>1 DEF Registers
  <2>3. \A f \in {"ie", "isp", "skip_en", "skip_req", "stack"} : guest'[f] = registers[f]
    BY <2>1 DEF Registers
  <2> QED
    BY <1>1, <1>2, <2>1, <2>2, <2>3 DEF Left
<1>6. CASE tb.pc \div PageSize = dest \div PageSize /\ jmp[x] # NoBlock
  <2>1. /\ guest' = registers /\ at' = dest /\ tb' = jmp[x] /\ loc' = "block"
        /\ next_tb' = next_tb /\ jmp' = jmp
    BY <1>6 DEF Exit
  <2>2. tb' = [pc |-> dest, flags |-> registers.skip_en]
    BY <1>2, <1>6, <2>1 DEF IInv, ChainInv
  <2>3. next_tb \in Exits \cup {NoBlock}
    BY DEF IInv, Rl78TypeOK
  <2> QED
    BY <1>3, <2>1, <2>2, <2>3 DEF Left
<1> QED
  BY <1>4, <1>5, <1>6

\* The registers behind the code of a block with TB_FLAG_SKIP: no skip is
\* pending any more, in the others none was.
LEMMA ConsumedFacts ==
    ASSUME IInv, loc = "block"
    PROVE  /\ Consumed \in Registers /\ Consumed.skip_en = 0 /\ Consumed.skip_req = 0
           /\ Consumed.stack = guest.stack /\ Consumed.ie = guest.ie /\ Consumed.isp = guest.isp
           /\ tb = [pc |-> at, flags |-> guest.skip_en] /\ tb.pc = at /\ tb.flags = guest.skip_en
           /\ at \in Pcs /\ guest \in Registers
<1>1. /\ tb = [pc |-> at, flags |-> guest.skip_en] /\ guest \in Registers /\ at \in Pcs
      /\ (guest.skip_req = 1 => guest.skip_en = 1)
  BY DEF IInv, ChainInv, Rl78TypeOK, Registers, ProgramInv, SkipInv
<1>2. tb.pc = at /\ tb.flags = guest.skip_en
  BY <1>1
<1>3. CASE tb.flags = 1
  BY <1>1, <1>2, <1>3 DEF Consumed, Registers
<1>4. CASE tb.flags = 0
  BY <1>1, <1>2, <1>4 DEF Consumed, Registers
<1> QED
  BY <1>1, <1>2, <1>3, <1>4 DEF Registers

LEMMA CountersExcept ==
    ASSUME NEW n \in [limit : Nat, value : Nat, declaration : Nat, local : Nat], NEW v \in Nat,
           NEW m, m = [n EXCEPT !.value = v, !.declaration = 0]
    PROVE  m = [limit |-> n.limit, value |-> v, declaration |-> 0, local |-> n.local]
<1>1. m \in [limit : Nat, value : Nat, declaration : Nat, local : Nat]
  OBVIOUS
<1> QED
  BY <1>1

LEMMA SyncFacts ==
    ASSUME IInv
    PROVE  /\ count \in Counters
           /\ Sync(count) = [limit |-> count.limit, value |-> count.value + count.declaration,
                             declaration |-> 0, local |-> count.local]
           /\ loc # "host" => Sync(count) \in Counters
<1>1. count \in Counters
  BY DEF IInv, Rl78TypeOK, Counters
<1>2. Sync(count) = [limit |-> count.limit, value |-> count.value + count.declaration,
                     declaration |-> 0, local |-> count.local]
  <2> DEFINE v == count.value + count.declaration
             Wide == [limit : Nat, value : Nat, declaration : Nat, local : Nat]
  <2>1. count \in Wide /\ v \in Nat
    BY <1>1 DEF Counters
  <2> HIDE DEF v
  <2>2. [count EXCEPT !.value = v, !.declaration = 0] =
           [limit |-> count.limit, value |-> v, declaration |-> 0, local |-> count.local]
    BY <2>1, CountersExcept, Zenon
  <2> QED
    BY <2>2 DEF v, Sync
<1>3. ASSUME loc # "host" PROVE count.value + count.declaration \in 0 .. Quantum
  BY <1>1, <1>3, Rl78Assumption DEF IInv, CountInv, Counters
<1> QED
  BY <1>1, <1>2, <1>3 DEF Counters

\* A block that has run and is left for dest.
LEMMA BlockKeeps ==
    ASSUME IInv, NEW kind, InBlock(kind), NEW dest \in Pcs, NEW registers \in Registers,
           Left(dest, registers),
           registers.skip_en = 1 => dest - 1 \in Pcs /\ program[dest - 1] = "skip",
           registers.skip_req = 1 => registers.skip_en = 1,
           due' = IF registers.skip_req = 1 THEN dest ELSE NoPc
    PROVE  IInv'
<1>1. /\ loc = "block" /\ ~HeaderLimit(Sync(count)) /\ count' = Declare(count)
      /\ ran' = [ran EXCEPT !.run = @ + 1]
      /\ UNCHANGED <<program, irqVars, requests>>
  BY DEF InBlock
<1>2. /\ count \in Counters
      /\ Sync(count) = [limit |-> count.limit, value |-> count.value + count.declaration,
                        declaration |-> 0, local |-> count.local]
      /\ Sync(count) \in Counters
  BY <1>1, SyncFacts
<1>3. count' = [limit |-> count.limit, value |-> count.value + count.declaration,
                declaration |-> 1, local |-> count.local]
  BY <1>1, <1>2 DEF Declare
<1>4. count.value + count.declaration < count.limit
  <2>1. count.value + count.declaration # count.limit
    BY <1>1, <1>2 DEF HeaderLimit
  <2>2. count.value + count.declaration <= count.limit
    BY <1>1 DEF IInv, CountInv
  <2> QED
    BY <1>2, <2>1, <2>2 DEF Counters
<1>5. ran \in [run : Nat, read : Nat] /\ Quantum \in Nat
  BY Rl78Assumption DEF IInv, CountInv
<1>6. ran' = [run |-> ran.run + 1, read |-> ran.read]
  BY <1>1, <1>5
<1>7. count' \in Counters
  BY <1>2, <1>3 DEF Counters
<1>8. CountInv'
  <2>1. ran'.run + count'.limit - count'.value - count'.declaration = Quantum
    BY <1>1, <1>2, <1>3, <1>5, <1>6 DEF IInv, CountInv, Counters
  <2>2. count'.value + count'.declaration <= count'.limit
    BY <1>2, <1>3, <1>4 DEF Counters
  <2>3. ran' \in [run : Nat, read : Nat]
    BY <1>5, <1>6
  <2>4. loc' # "host"
    BY DEF Left
  <2> QED
    BY <2>1, <2>2, <2>3, <2>4 DEF CountInv
<1>9. CountIsExact'
  <2>1. count'.local + count'.value + count'.declaration = ran'.run - ran'.read
    BY <1>2, <1>3, <1>5, <1>6 DEF IInv, CountIsExact, Counters
  <2>2. ran'.run <= Quantum
    BY <1>1, <1>2, <1>4, <1>5, <1>6 DEF IInv, CountInv, Counters
  <2> QED
    BY <2>1, <2>2 DEF CountIsExact
<1>10. Rl78TypeOK'
  <2>1. irq_index' \in Irqs \cup {-1} /\ irq_priority' \in 0 .. 3
    BY <1>1 DEF irqVars, IInv, Rl78TypeOK
  <2>2. jmp' = jmp /\ loc' \in Locations
    BY DEF Left, Locations
  <2> QED
    BY <1>7, <2>1, <2>2 DEF Left, IInv, Rl78TypeOK, Registers, Counters
<1>11. ProgramInv'
  BY <1>1 DEF irqVars, requests, Left, IInv, ProgramInv
<1>12. guest'.skip_en = registers.skip_en /\ guest'.skip_req = registers.skip_req
  BY DEF Left
<1>13. SkipInv'
  BY <1>1, <1>12 DEF Left, SkipInv
<1>14. ChainInv'
  <2>1. \A x : Target(x)' = Target(x)
    BY <1>1 DEF Target
  <2>2. \A x \in Exits : jmp'[x] # NoBlock => jmp'[x] = Target(x)'
    BY <2>1 DEF Left, IInv, ChainInv
  <2>3. Target(next_tb)' = Target(next_tb')
    BY <1>1 DEF Target
  <2> QED
    BY <1>12, <2>2, <2>3 DEF Left, ChainInv
<1> QED
  BY <1>8, <1>9, <1>10, <1>11, <1>13, <1>14 DEF IInv

-----------------------------------------------------------------------------
(* The steps outside of blocks *)

LEMMA CountSame ==
    ASSUME IInv, UNCHANGED <<count, ran>>, loc = "host" <=> loc' = "host"
    PROVE  count' \in Counters /\ CountInv' /\ CountIsExact'
BY SyncFacts DEF IInv, CountInv, CountIsExact

LEMMA CountSync ==
    ASSUME IInv, loc # "host", loc' # "host", count' = Sync(count), UNCHANGED ran
    PROVE  count' \in Counters /\ CountInv' /\ CountIsExact'
<1>1. /\ count \in Counters /\ count' \in Counters
      /\ count' = [limit |-> count.limit, value |-> count.value + count.declaration,
                   declaration |-> 0, local |-> count.local]
  BY SyncFacts
<1>2. /\ count'.limit = count.limit /\ count'.value = count.value + count.declaration
      /\ count'.declaration = 0 /\ count'.local = count.local
  BY <1>1
<1>3. ran \in [run : Nat, read : Nat] /\ Quantum \in Nat
  BY Rl78Assumption DEF IInv, CountInv
<1>4. CountInv'
  BY <1>1, <1>2, <1>3 DEF IInv, CountInv, Counters
<1>5. CountIsExact'
  BY <1>1, <1>2, <1>3 DEF IInv, CountIsExact, Counters
<1> QED
  BY <1>1, <1>4, <1>5

\* The latched request and the flags of the loop have their types.
FlagTypes ==
    /\ irq_index \in Irqs \cup {-1} /\ irq_priority \in 0 .. 3
    /\ exit_request \in BOOLEAN /\ tb_restart_request \in BOOLEAN /\ hard \in BOOLEAN
    /\ loc \in Locations

LEMMA FlagsOf == IInv => FlagTypes
BY DEF IInv, Rl78TypeOK, ProgramInv, FlagTypes

\* A step that leaves the guest and the patched exits alone.
LEMMA GuestSame ==
    ASSUME IInv, UNCHANGED <<program, guest, jmp, at, due>>, FlagTypes',
           count' \in Counters, CountInv', CountIsExact',
           tb' \in Blocks \cup {NoBlock}, next_tb' \in Exits \cup {NoBlock},
           loc' \in {"enter", "block"} => tb' = [pc |-> at, flags |-> guest.skip_en],
           loc' # "block" => guest.pc = at,
           loc' \in {"loop", "checks", "enter"} /\ next_tb' # NoBlock =>
              Target(next_tb') = [pc |-> at, flags |-> guest.skip_en]
    PROVE  IInv'
<1>1. Rl78TypeOK'
  BY DEF FlagTypes, IInv, Rl78TypeOK, Counters
<1>2. ProgramInv' /\ SkipInv'
  BY DEF FlagTypes, IInv, ProgramInv, SkipInv
<1>3. ChainInv'
  <2>1. \A x : Target(x)' = Target(x)
    BY DEF Target
  <2>2. Target(next_tb)' = Target(next_tb')
    BY DEF Target
  <2> QED
    BY <2>1, <2>2 DEF IInv, ChainInv
<1> QED
  BY <1>1, <1>2, <1>3 DEF IInv

LEMMA ExecuteKeeps == IInv /\ Execute => IInv'
<1> SUFFICES ASSUME IInv, Execute PROVE IInv'
  OBVIOUS
<1>1. /\ loc = "host" /\ count.value = 0 /\ count' = [count EXCEPT !.limit = Quantum, !.local = 0]
      /\ next_tb' = NoBlock /\ loc' = "loop" /\ ran' = [run |-> 0, read |-> 0]
      /\ UNCHANGED <<program, guest, irqVars, requests, tb, jmp, at, due>>
  BY DEF Execute
<1>2. count \in Counters /\ count.declaration = 0 /\ Quantum \in Nat
  BY <1>1, SyncFacts, Rl78Assumption DEF IInv, CountInv
<1>3. /\ count' \in Counters /\ count'.limit = Quantum /\ count'.value = 0
      /\ count'.declaration = 0 /\ count'.local = 0
  <2>1. count' = [limit |-> Quantum, value |-> 0, declaration |-> 0, local |-> 0]
    BY <1>1, <1>2 DEF Counters
  <2> QED
    BY <1>2, <2>1 DEF Counters
<1>4. ran'.run = 0 /\ ran'.read = 0 /\ ran' \in [run : Nat, read : Nat]
  BY <1>1
<1>5. CountInv' /\ CountIsExact'
  BY <1>1, <1>2, <1>3, <1>4 DEF CountInv, CountIsExact
<1>6. FlagTypes' /\ tb \in Blocks \cup {NoBlock} /\ guest.pc = at
  BY <1>1, FlagsOf DEF FlagTypes, irqVars, requests, Locations, IInv, Rl78TypeOK, ChainInv
<1> QED
  BY <1>1, <1>3, <1>5, <1>6, GuestSame

LEMMA GetExecutedInstructionsKeeps == IInv /\ GetExecutedInstructions => IInv'
<1> SUFFICES ASSUME IInv, GetExecutedInstructions PROVE IInv'
  OBVIOUS
<1> DEFINE v == count.value
           l == IF loc = "host" THEN 0 ELSE count.limit - v
<1>1. /\ count.value > 0 /\ count' = [count EXCEPT !.value = 0, !.limit = l]
      /\ ran' = [ran EXCEPT !.read = @ + v]
      /\ UNCHANGED <<program, guest, irqVars, requests, loc, blocks, at, due>>
  BY DEF GetExecutedInstructions
<1>2. count \in Counters /\ Quantum \in Nat /\ ran \in [run : Nat, read : Nat]
  BY SyncFacts, Rl78Assumption DEF IInv, CountInv
<1>3. l \in 0 .. Quantum
  BY <1>2 DEF IInv, CountInv, Counters
<1>4. v \in Nat
  BY <1>2 DEF Counters
<1>5. ran'.run = ran.run /\ ran'.read = ran.read + v /\ ran' \in [run : Nat, read : Nat]
  BY <1>1, <1>2, <1>4
<1>6. /\ count'.limit = l /\ count'.value = 0
      /\ count'.declaration = count.declaration /\ count'.local = count.local
  BY <1>1, <1>2 DEF Counters
<1>7. count' \in Counters
  <2> HIDE DEF l
  <2>1. count' = [limit |-> l, value |-> 0, declaration |-> count.declaration, local |-> count.local]
    BY <1>1, <1>2 DEF Counters
  <2> QED
    BY <1>2, <1>3, <2>1 DEF Counters
<1>8. CountInv'
  BY <1>1, <1>2, <1>5, <1>6 DEF IInv, CountInv, Counters
<1>9. CountIsExact'
  BY <1>1, <1>2, <1>5, <1>6 DEF IInv, CountIsExact, Counters
<1>10. FlagTypes'
  BY <1>1, FlagsOf DEF FlagTypes, irqVars, requests
<1> QED
  BY <1>1, <1>7, <1>8, <1>9, <1>10, GuestSame DEF blocks, IInv, Rl78TypeOK, ChainInv

\* The controller's calls and the steps of the loop that neither count nor
\* change the guest.
LEMMA HostAndLoopKeep ==
    ASSUME IInv, \/ \E i \in Irqs, p \in Priorities : RaiseIrq(i, p)
                 \/ WithdrawIrq \/ AckReturns \/ LeaveLoop \/ RestartLoop \/ EnterBlock
    PROVE  IInv'
<1>1. UNCHANGED <<program, guest, jmp, at, due, count, ran, tb>>
  BY DEF RaiseIrq, WithdrawIrq, AckReturns, LeaveLoop, RestartLoop, EnterBlock, irqVars,
         requests, blocks
<1>2. FlagTypes'
  <2>1. FlagTypes
    BY FlagsOf
  <2>2. ASSUME NEW i \in Irqs, NEW p \in Priorities, RaiseIrq(i, p) PROVE FlagTypes'
    <3>1. p \in 0 .. 3
      BY Rl78Assumption
    <3>2. /\ irq_index' = i /\ irq_priority' = p /\ hard' = TRUE /\ exit_request' = TRUE
          /\ UNCHANGED <<tb_restart_request, loc>>
      BY <2>2 DEF RaiseIrq
    <3> QED
      BY <2>1, <3>1, <3>2 DEF FlagTypes
  <2>3. ASSUME WithdrawIrq PROVE FlagTypes'
    <3>1. /\ irq_index' = -1 /\ irq_priority' = 0 /\ hard' = FALSE
          /\ UNCHANGED <<exit_request, tb_restart_request, loc>>
      BY <2>3 DEF WithdrawIrq, requests
    <3>2. irq_index' \in Irqs \cup {-1}
      BY <3>1
    <3>3. irq_priority' \in 0 .. 3
      BY <3>1
    <3>4. hard' \in BOOLEAN
      BY <3>1
    <3> QED
      BY <2>1, <3>1, <3>2, <3>3, <3>4 DEF FlagTypes
  <2>4. ASSUME AckReturns PROVE FlagTypes'
    BY <2>1, <2>4 DEF AckReturns, FlagTypes, requests, irqVars, Locations
  <2>5. ASSUME LeaveLoop \/ RestartLoop PROVE FlagTypes'
    BY <2>1, <2>5 DEF LeaveLoop, RestartLoop, FlagTypes, irqVars, Locations
  <2>6. ASSUME EnterBlock PROVE FlagTypes'
    BY <2>1, <2>6 DEF EnterBlock, FlagTypes, requests, irqVars, Locations
  <2> QED
    BY <2>2, <2>3, <2>4, <2>5, <2>6
<1>3. loc = "host" <=> loc' = "host"
  BY DEF RaiseIrq, WithdrawIrq, AckReturns, LeaveLoop, RestartLoop, EnterBlock, irqVars, requests
<1>4. count' \in Counters /\ CountInv' /\ CountIsExact'
  BY <1>1, <1>3, CountSame
<1>5. /\ tb' \in Blocks \cup {NoBlock} /\ next_tb' \in Exits \cup {NoBlock}
      /\ next_tb' # NoBlock => next_tb' = next_tb
  BY <1>1 DEF RaiseIrq, WithdrawIrq, AckReturns, LeaveLoop, RestartLoop, EnterBlock, blocks,
     IInv, Rl78TypeOK
<1>6. /\ loc' = loc \/ loc \in {"ack", "checks", "enter"}
      /\ loc' \in {"enter", "block"} => loc \in {"enter", "block"}
      /\ loc' # "block" => loc # "block"
      /\ loc' \in {"loop", "checks", "enter"} /\ next_tb' # NoBlock =>
            loc \in {"loop", "checks", "enter"}
  BY DEF RaiseIrq, WithdrawIrq, AckReturns, LeaveLoop, RestartLoop, EnterBlock, requests, blocks
<1>7. /\ loc' \in {"enter", "block"} => tb' = [pc |-> at, flags |-> guest.skip_en]
      /\ loc' # "block" => guest.pc = at
      /\ loc' \in {"loop", "checks", "enter"} /\ next_tb' # NoBlock =>
            Target(next_tb') = [pc |-> at, flags |-> guest.skip_en]
  BY <1>1, <1>5, <1>6 DEF IInv, ChainInv
<1> QED
  BY <1>1, <1>2, <1>4, <1>5, <1>7, GuestSame

LEMMA LoopKeeps == IInv /\ Loop => IInv'
<1> SUFFICES ASSUME IInv, Loop PROVE IInv'
  OBVIOUS
<1>1. /\ loc = "loop" /\ loc' = "checks" /\ count' = Sync(count)
      /\ UNCHANGED <<program, guest, irq_index, irq_priority, requests, blocks, at, due, ran>>
  BY DEF Loop
<1>2. count' \in Counters /\ CountInv' /\ CountIsExact'
  BY <1>1, CountSync
<1>3. hard' \in BOOLEAN
  BY DEF Loop
<1>4. FlagTypes'
  BY <1>1, <1>3, FlagsOf DEF FlagTypes, requests, Locations
<1> QED
  BY <1>1, <1>2, <1>4, GuestSame DEF blocks, IInv, Rl78TypeOK, ChainInv

LEMMA FindBlockKeeps == IInv /\ FindBlock => IInv'
<1> SUFFICES ASSUME IInv, FindBlock PROVE IInv'
  OBVIOUS
<1> DEFINE b == [pc |-> guest.pc, flags |-> guest.skip_en]
<1>1. /\ loc = "checks" /\ loc' = "enter" /\ tb' = b
      /\ UNCHANGED <<program, guest, irqVars, requests, count, next_tb, at, due, ran>>
      /\ jmp' = IF next_tb # NoBlock /\ jmp[next_tb] = NoBlock
                THEN [jmp EXCEPT ![next_tb] = b] ELSE jmp
  BY DEF FindBlock
<1>2. count' \in Counters /\ CountInv' /\ CountIsExact'
  BY <1>1, CountSame
<1>3. FlagTypes'
  BY <1>1, FlagsOf DEF FlagTypes, irqVars, requests, Locations
<1>4. guest.pc = at /\ b \in Blocks /\ jmp \in [Exits -> Blocks \cup {NoBlock}]
  BY <1>1 DEF IInv, ChainInv, Rl78TypeOK, Blocks, ProgramInv
<1>5. next_tb \in Exits \cup {NoBlock} /\ (next_tb # NoBlock => b = Target(next_tb))
  BY <1>1, <1>4 DEF IInv, Rl78TypeOK, ChainInv
<1>6. jmp' \in [Exits -> Blocks \cup {NoBlock}]
  BY <1>1, <1>4
<1>7. \A x \in Exits : jmp'[x] # NoBlock => jmp'[x] = Target(x)
  <2> SUFFICES ASSUME NEW x \in Exits, jmp'[x] # NoBlock PROVE jmp'[x] = Target(x)
    OBVIOUS
  <2> HIDE DEF b
  <2>1. jmp[x] # NoBlock => jmp[x] = Target(x)
    BY DEF IInv, ChainInv
  <2>2. jmp'[x] = jmp[x] \/ (x = next_tb /\ next_tb # NoBlock /\ jmp'[x] = b)
    BY <1>1, <1>4
  <2> QED
    BY <1>5, <2>1, <2>2
<1>8. \A x : Target(x)' = Target(x)
  BY <1>1 DEF Target
<1>9. Target(next_tb)' = Target(next_tb)
  BY <1>1 DEF Target
<1>10. Rl78TypeOK'
  BY <1>1, <1>2, <1>3, <1>4, <1>5, <1>6 DEF FlagTypes, IInv, Rl78TypeOK, Counters
<1>11. ProgramInv' /\ SkipInv'
  BY <1>1, <1>3, <1>6 DEF FlagTypes, IInv, ProgramInv, SkipInv
<1>12. ChainInv'
  BY <1>1, <1>4, <1>5, <1>7, <1>8, <1>9 DEF ChainInv
<1> QED
  BY <1>2, <1>10, <1>11, <1>12 DEF IInv

\* A step that changes the registers outside of a block.
LEMMA GuestChanges ==
    ASSUME IInv, UNCHANGED program, FlagTypes', count' \in Counters, CountInv', CountIsExact',
           tb' \in Blocks \cup {NoBlock}, next_tb' \in Exits \cup {NoBlock},
           loc' \notin {"loop", "checks", "enter", "block"},
           guest' \in Registers, guest'.pc = at', SkipInv',
           UNCHANGED jmp \/ jmp' = [x \in Exits |-> NoBlock]
    PROVE  IInv'
<1>1. jmp' \in [Exits -> Blocks \cup {NoBlock}]
  BY DEF IInv, ProgramInv
<1>2. Rl78TypeOK'
  BY <1>1 DEF FlagTypes, Rl78TypeOK, Counters, Registers
<1>3. at' \in Pcs
  BY DEF Registers
<1>4. ProgramInv'
  BY <1>1, <1>3 DEF FlagTypes, IInv, ProgramInv
<1>5. \A x : Target(x)' = Target(x)
  BY DEF Target
<1>6. \A x \in Exits : jmp'[x] # NoBlock => jmp'[x] = Target(x)'
  BY <1>5 DEF IInv, ChainInv
<1>7. ChainInv'
  BY <1>6 DEF ChainInv
<1> QED
  BY <1>2, <1>4, <1>7 DEF IInv

LEMMA ResetKeeps == IInv /\ Reset => IInv'
<1> SUFFICES ASSUME IInv, Reset PROVE IInv'
  OBVIOUS
<1>1. /\ loc = "host" /\ guest' = ResetGuest /\ irq_index' = -1 /\ irq_priority' = 0
      /\ jmp' = [x \in Exits |-> NoBlock] /\ at' = 0 /\ due' = NoPc
      /\ UNCHANGED <<program, hard, requests, count, loc, tb, next_tb, ran>>
  BY DEF Reset
<1>2. count' \in Counters /\ CountInv' /\ CountIsExact'
  BY <1>1, CountSame
<1>3. FlagTypes'
  BY <1>1, FlagsOf DEF FlagTypes, requests
<1>4. 0 \in Pcs /\ <<>> \in Seq(Frames)
  BY Rl78Assumption DEF Pcs
<1>5. ResetGuest \in Registers
  BY <1>4 DEF ResetGuest, Registers
<1>6. guest'.pc = 0 /\ guest'.skip_en = 0 /\ guest'.skip_req = 0
  BY <1>1 DEF ResetGuest
<1>7. SkipInv'
  BY <1>1, <1>6 DEF SkipInv
<1> QED
  BY <1>1, <1>2, <1>3, <1>5, <1>6, <1>7, GuestChanges DEF IInv, Rl78TypeOK

LEMMA DoInterruptKeeps == IInv /\ DoInterrupt => IInv'
<1> SUFFICES ASSUME IInv, DoInterrupt PROVE IInv'
  OBVIOUS
<1> DEFINE frame == [pc |-> guest.pc, ie |-> guest.ie, isp |-> guest.isp]
<1>1. /\ loc = "loop" /\ loc' = "ack" /\ guest.skip_en = 0 /\ count' = Sync(count)
      /\ guest' = [guest EXCEPT !.stack = Append(@, frame), !.ie = 0, !.isp = irq_priority,
                                !.pc = Handler]
      /\ irq_index' = -1 /\ at' = Handler
      /\ UNCHANGED <<program, irq_priority, hard, requests, blocks, due, ran>>
  BY DEF DoInterrupt, Acceptable
<1>2. count' \in Counters /\ CountInv' /\ CountIsExact'
  BY <1>1, CountSync
<1>3. FlagTypes'
  BY <1>1, FlagsOf DEF FlagTypes, requests, Locations
<1>4. guest \in Registers /\ Handler \in Pcs /\ irq_priority \in 0 .. 3
  BY Rl78Assumption DEF IInv, Rl78TypeOK, Registers
<1>5. frame \in Frames
  BY <1>4 DEF Registers, Frames
<1>6. guest.stack \in Seq(Frames)
  BY <1>4 DEF Registers
<1> DEFINE stack == Append(guest.stack, frame)
<1>7. stack \in Seq(Frames)
  BY <1>5, <1>6
<1> HIDE DEF stack
<1>8. guest' = [pc |-> Handler, ie |-> 0, isp |-> irq_priority, skip_en |-> guest.skip_en,
                skip_req |-> guest.skip_req, stack |-> stack]
  BY <1>1, <1>4 DEF Registers, stack
<1>9. guest' \in Registers
  BY <1>4, <1>7, <1>8 DEF Registers
<1>10. SkipInv'
  BY <1>1, <1>8 DEF IInv, SkipInv
<1> QED
  BY <1>1, <1>2, <1>3, <1>8, <1>9, <1>10, GuestChanges DEF blocks, IInv, Rl78TypeOK

LEMMA LeaveHeaderKeeps == IInv /\ LeaveHeader => IInv'
<1> SUFFICES ASSUME IInv, LeaveHeader PROVE IInv'
  OBVIOUS
<1>1. /\ loc = "block" /\ loc' = "return" /\ guest' = [guest EXCEPT !.pc = tb.pc]
      /\ UNCHANGED <<program, irqVars, exit_request, blocks, at, due, ran>>
      /\ \/ UNCHANGED <<tb_restart_request, count>>
         \/ tb_restart_request' = TRUE /\ count' = Sync(count)
  BY DEF LeaveHeader
<1>2. count' \in Counters /\ CountInv' /\ CountIsExact'
  BY <1>1, CountSame, CountSync
<1>3. FlagTypes'
  BY <1>1, FlagsOf DEF FlagTypes, irqVars, Locations
<1>4. tb.pc = at /\ at \in Pcs /\ guest \in Registers
  BY <1>1, ConsumedFacts
<1>5. /\ guest' \in Registers /\ guest'.pc = at
      /\ guest'.skip_en = guest.skip_en /\ guest'.skip_req = guest.skip_req
  BY <1>1, <1>4 DEF Registers
<1>6. SkipInv'
  BY <1>1, <1>5 DEF IInv, SkipInv
<1> QED
  BY <1>1, <1>2, <1>3, <1>5, <1>6, GuestChanges DEF blocks, IInv, Rl78TypeOK

LEMMA ReturnKeeps == IInv /\ Return => IInv'
<1> SUFFICES ASSUME IInv, Return PROVE IInv'
  OBVIOUS
<1> DEFINE n == Sync(count)
           total == n.local + n.value
           left == n.limit - n.value
<1>1. /\ loc = "return" /\ exit_request' = FALSE /\ next_tb' = NoBlock
      /\ UNCHANGED <<program, guest, irqVars, tb_restart_request, tb, jmp, at, due, ran>>
      /\ \/ /\ count' = [limit |-> left, value |-> total, declaration |-> 0, local |-> 0]
            /\ loc' = "host"
         \/ /\ count' = [limit |-> left, value |-> 0, declaration |-> 0, local |-> total]
            /\ loc' = "loop"
  BY DEF Return
<1>2. /\ n.limit = count.limit /\ n.value = count.value + count.declaration
      /\ n.local = count.local /\ count \in Counters
  BY SyncFacts
<1>3. ran \in [run : Nat, read : Nat] /\ Quantum \in Nat
  BY Rl78Assumption DEF IInv, CountInv
<1>4. /\ count.local + count.value + count.declaration = ran.run - ran.read /\ ran.run <= Quantum
      /\ ran.run + count.limit - count.value - count.declaration = Quantum
      /\ count.value + count.declaration <= count.limit
  BY <1>1 DEF IInv, CountIsExact, CountInv
<1>5. /\ left \in 0 .. Quantum /\ total \in 0 .. Quantum
      /\ total = ran.run - ran.read /\ ran.run + left = Quantum
  BY <1>2, <1>3, <1>4 DEF Counters
<1> HIDE DEF left, total
<1>6. count' \in Counters
  BY <1>1, <1>3, <1>5 DEF Counters
<1>7. /\ count'.limit = left /\ count'.declaration = 0 /\ count'.local + count'.value = total
      /\ loc' = "host" => count'.local = 0
      /\ loc' # "host" => count'.value = 0
  <2>1. CASE count' = [limit |-> left, value |-> total, declaration |-> 0, local |-> 0] /\ loc' = "host"
    BY <1>5, <2>1
  <2>2. CASE count' = [limit |-> left, value |-> 0, declaration |-> 0, local |-> total] /\ loc' = "loop"
    BY <1>5, <2>2
  <2> QED
    BY <1>1, <2>1, <2>2
<1>8. CountInv'
  BY <1>1, <1>3, <1>5, <1>6, <1>7 DEF CountInv, Counters
<1>9. CountIsExact'
  BY <1>1, <1>3, <1>4, <1>5, <1>6, <1>7 DEF CountIsExact, Counters
<1>10. FlagTypes'
  BY <1>1, FlagsOf DEF FlagTypes, irqVars, Locations
<1> QED
  BY <1>1, <1>6, <1>8, <1>9, <1>10, GuestSame DEF IInv, Rl78TypeOK, ChainInv

-----------------------------------------------------------------------------
(* The blocks *)

\* What the code of a block does to the frames of the interrupts.
FramesKept(registers) == registers.stack = guest.stack /\ registers.isp = guest.isp
FramePopped(registers) ==
    /\ guest.stack # <<>>
    /\ registers.stack = SubSeq(guest.stack, 1, Len(guest.stack) - 1)
    /\ registers.isp = guest.stack[Len(guest.stack)].isp

LEMMA LeftFrames ==
    ASSUME NEW dest, NEW registers, Left(dest, registers)
    PROVE  /\ FramesKept(registers) => FramesKept(guest')
           /\ FramePopped(registers) => FramePopped(guest')
<1>1. guest'.stack = registers.stack /\ guest'.isp = registers.isp
  BY DEF Left
<1> QED
  BY <1>1 DEF FramesKept, FramePopped

\* Where the instruction at the program counter goes on.
LEMMA NextPc ==
    ASSUME IInv, loc = "block"
    PROVE  /\ 0 \in Pcs /\ program[at] \in Kinds
           /\ program[at] \notin {"br", "reti"} => at + 1 \in Pcs
           /\ guest.skip_en = 1 => at + 1 \in Pcs /\ program[at] # "skip"
           /\ \A slot \in {0, 1} :
                 Target(<<tb.pc, tb.flags, slot>>) =
                    [pc |-> IF slot = 0 THEN at + 1 ELSE 0,
                     flags |-> IF program[at] = "skip" THEN 1 ELSE 0]
<1>1. at \in Pcs /\ tb.pc = at /\ at \in Nat
  BY ConsumedFacts, Rl78Assumption DEF Pcs
<1>2. 0 \in Pcs
  BY Rl78Assumption DEF Pcs
<1>3. program \in [Pcs -> Kinds] /\ StaysInside(program) /\ NoAdjacentSkips(program)
  BY DEF IInv, ProgramInv
<1>4. ASSUME guest.skip_en = 1 PROVE at + 1 \in Pcs /\ program[at] # "skip"
  <2> DEFINE p == at - 1
  <2>1. p \in Pcs /\ program[p] = "skip"
    BY <1>4 DEF IInv, SkipInv
  <2>2. p + 2 = at + 1 /\ p + 1 = at
    BY <1>1
  <2> HIDE DEF p
  <2>3. p + 2 \in Pcs /\ program[p + 1] # "skip"
    BY <1>3, <2>1 DEF StaysInside, NoAdjacentSkips
  <2> QED
    BY <2>2, <2>3
<1> QED
  BY <1>1, <1>2, <1>3, <1>4 DEF StaysInside, Target

LEMMA RunSkippedKeeps ==
    ASSUME IInv, RunSkipped
    PROVE  IInv' /\ FramesKept(guest')
<1>1. PICK kind \in Kinds : InBlock(kind)
  BY DEF RunSkipped
<1>2. loc = "block" /\ Exit(0, tb.pc + 1, Consumed) /\ IsSkipped /\ due' = NoPc
  BY <1>1 DEF RunSkipped, InBlock
<1>3. /\ Consumed \in Registers /\ Consumed.skip_en = 0 /\ Consumed.skip_req = 0
      /\ FramesKept(Consumed) /\ tb.pc = at /\ tb.flags = guest.skip_en
  BY <1>2, ConsumedFacts DEF FramesKept
<1>4. guest.skip_en = 1
  BY <1>2, <1>3 DEF IsSkipped
<1>5. at + 1 \in Pcs /\ Target(<<tb.pc, tb.flags, 0>>) = [pc |-> at + 1, flags |-> Consumed.skip_en]
  BY <1>2, <1>3, <1>4, NextPc
<1>6. Left(at + 1, Consumed)
  BY <1>2, <1>3, <1>5, LeftByExit
<1> QED
  BY <1>1, <1>2, <1>3, <1>5, <1>6, BlockKeeps, LeftFrames

LEMMA RunOpKeeps ==
    ASSUME IInv, RunOp
    PROVE  IInv' /\ FramesKept(guest')
<1>1. InBlock("op") /\ loc = "block" /\ Exit(0, tb.pc + 1, Consumed) /\ due' = NoPc
  BY DEF RunOp, InBlock
<1>2. /\ Consumed \in Registers /\ Consumed.skip_en = 0 /\ Consumed.skip_req = 0
      /\ FramesKept(Consumed) /\ tb.pc = at
  BY <1>1, ConsumedFacts DEF FramesKept
<1>3. program[at] = "op"
  BY <1>1, <1>2 DEF InBlock
<1>4. at + 1 \in Pcs /\ Target(<<tb.pc, tb.flags, 0>>) = [pc |-> at + 1, flags |-> Consumed.skip_en]
  BY <1>1, <1>2, <1>3, NextPc
<1>5. Left(at + 1, Consumed)
  BY <1>1, <1>2, <1>4, LeftByExit
<1> QED
  BY <1>1, <1>2, <1>4, <1>5, BlockKeeps, LeftFrames

LEMMA RunSkipKeeps ==
    ASSUME IInv, NEW taken \in {0, 1}, RunSkip(taken)
    PROVE  IInv' /\ FramesKept(guest')
<1> DEFINE registers == [Consumed EXCEPT !.skip_en = 1, !.skip_req = taken]
<1>1. /\ InBlock("skip") /\ loc = "block" /\ Exit(0, tb.pc + 1, registers)
      /\ due' = IF taken = 1 THEN tb.pc + 1 ELSE NoPc
  BY DEF RunSkip, InBlock
<1>2. /\ Consumed \in Registers /\ FramesKept(Consumed) /\ tb.pc = at /\ at \in Pcs
  BY <1>1, ConsumedFacts DEF FramesKept
<1>3. program[at] = "skip"
  BY <1>1, <1>2 DEF InBlock
<1>4. /\ registers \in Registers /\ registers.skip_en = 1 /\ registers.skip_req = taken
      /\ FramesKept(registers)
  BY <1>2 DEF Registers, FramesKept
<1> HIDE DEF registers
<1>5. at + 1 \in Pcs /\ Target(<<tb.pc, tb.flags, 0>>) = [pc |-> at + 1, flags |-> registers.skip_en]
  BY <1>1, <1>2, <1>3, <1>4, NextPc
<1>6. Left(at + 1, registers)
  BY <1>1, <1>2, <1>4, <1>5, LeftByExit
<1>7. (at + 1) - 1 = at
  BY <1>2, Rl78Assumption DEF Pcs
<1>8. (at + 1) - 1 \in Pcs /\ program[(at + 1) - 1] = "skip"
  BY <1>2, <1>3, <1>7
<1>9. due' = IF registers.skip_req = 1 THEN at + 1 ELSE NoPc
  BY <1>1, <1>2, <1>4
<1> QED
  BY <1>1, <1>4, <1>5, <1>6, <1>8, <1>9, BlockKeeps, LeftFrames

LEMMA RunStorePswKeeps ==
    ASSUME IInv, NEW kind \in {"ei", "di"}, NEW ie \in {0, 1}, RunStorePsw(kind, ie)
    PROVE  IInv' /\ FramesKept(guest')
<1> DEFINE registers == [Consumed EXCEPT !.ie = ie]
<1>1. /\ InBlock(kind) /\ loc = "block" /\ due' = NoPc
      /\ Exit(0, tb.pc + 1, registers) \/ ExitNoChaining(tb.pc + 1, registers)
  BY DEF RunStorePsw, InBlock
<1>2. /\ Consumed \in Registers /\ Consumed.skip_en = 0 /\ Consumed.skip_req = 0
      /\ FramesKept(Consumed) /\ tb.pc = at
  BY <1>1, ConsumedFacts DEF FramesKept
<1>3. program[at] \in {"ei", "di"}
  BY <1>1, <1>2 DEF InBlock
<1>4. /\ registers \in Registers /\ registers.skip_en = 0 /\ registers.skip_req = 0
      /\ FramesKept(registers)
  BY <1>2 DEF Registers, FramesKept
<1> HIDE DEF registers
<1>5. at + 1 \in Pcs /\ Target(<<tb.pc, tb.flags, 0>>) = [pc |-> at + 1, flags |-> registers.skip_en]
  BY <1>1, <1>3, <1>4, NextPc
<1>6. Left(at + 1, registers)
  BY <1>1, <1>2, <1>4, <1>5, LeftByExit, LeftNoChaining
<1> QED
  BY <1>1, <1>4, <1>5, <1>6, BlockKeeps, LeftFrames

LEMMA RunBranchKeeps ==
    ASSUME IInv, NEW kind \in {"br", "bc"}, NEW slot \in {0, 1}, kind = "br" => slot = 1,
           NEW dest, dest = IF slot = 1 THEN 0 ELSE tb.pc + 1, RunBranch(kind, dest, slot)
    PROVE  IInv' /\ FramesKept(guest')
<1>1. InBlock(kind) /\ loc = "block" /\ Exit(slot, dest, Consumed) /\ due' = NoPc
  BY DEF RunBranch, InBlock
<1>2. /\ Consumed \in Registers /\ Consumed.skip_en = 0 /\ Consumed.skip_req = 0
      /\ FramesKept(Consumed) /\ tb.pc = at
  BY <1>1, ConsumedFacts DEF FramesKept
<1>3. program[at] = kind
  BY <1>1, <1>2 DEF InBlock
<1>4. /\ dest \in Pcs
      /\ Target(<<tb.pc, tb.flags, slot>>) = [pc |-> dest, flags |-> Consumed.skip_en]
  BY <1>1, <1>2, <1>3, NextPc
<1>5. Left(dest, Consumed)
  BY <1>1, <1>2, <1>4, LeftByExit
<1> QED
  BY <1>1, <1>2, <1>4, <1>5, BlockKeeps, LeftFrames

LEMMA RunRetiKeeps ==
    ASSUME IInv, RunReti
    PROVE  IInv' /\ FramePopped(guest')
<1> DEFINE frame == guest.stack[Len(guest.stack)]
           stack == SubSeq(guest.stack, 1, Len(guest.stack) - 1)
           registers == [Consumed EXCEPT !.ie = frame.ie, !.isp = frame.isp, !.stack = stack]
<1>1. InBlock("reti") /\ loc = "block" /\ guest.stack # <<>> /\ due' = NoPc
  BY DEF RunReti, InBlock
<1>2. /\ Consumed \in Registers /\ Consumed.skip_en = 0 /\ Consumed.skip_req = 0
      /\ Consumed.stack = guest.stack /\ guest \in Registers
  BY <1>1, ConsumedFacts
<1>3. ExitNoChaining(frame.pc, registers)
  BY <1>2 DEF RunReti
<1>4. guest.stack \in Seq(Frames)
  BY <1>2 DEF Registers
<1>5. frame \in Frames /\ stack \in Seq(Frames)
  BY <1>1, <1>4
<1>6. frame.pc \in Pcs /\ frame.ie \in {0, 1} /\ frame.isp \in 0 .. 3
  BY <1>5 DEF Frames
<1>a. registers = [Consumed EXCEPT !.ie = frame.ie, !.isp = frame.isp, !.stack = stack]
  OBVIOUS
<1> HIDE DEF stack, frame, registers
<1>7. /\ registers \in Registers /\ registers.skip_en = 0 /\ registers.skip_req = 0
      /\ registers.stack = stack /\ registers.isp = frame.isp
  <2>1. PICK r, i, p, s, m : /\ r = Consumed /\ i = frame.ie /\ p = frame.isp /\ s = stack
                             /\ m = registers
    OBVIOUS
  <2>2. r \in Registers /\ i \in {0, 1} /\ p \in 0 .. 3 /\ s \in Seq(Frames)
    BY <1>2, <1>5, <1>6, <2>1
  <2>3. m = [r EXCEPT !.ie = i, !.isp = p, !.stack = s]
    BY <1>a, <2>1
  <2>4. /\ m \in Registers /\ m.stack = s /\ m.isp = p
        /\ m.skip_en = r.skip_en /\ m.skip_req = r.skip_req
    BY <2>2, <2>3 DEF Registers
  <2> QED
    BY <1>2, <2>1, <2>4
<1>8. Left(frame.pc, registers)
  BY <1>3, <1>6, <1>7, LeftNoChaining
<1>9. FramePopped(registers)
  BY <1>1, <1>7 DEF FramePopped, stack, frame
<1>10. IInv'
  <2>1. /\ registers.skip_en = 1 => frame.pc - 1 \in Pcs /\ program[frame.pc - 1] = "skip"
        /\ registers.skip_req = 1 => registers.skip_en = 1
        /\ due' = IF registers.skip_req = 1 THEN frame.pc ELSE NoPc
    BY <1>1, <1>7
  <2> QED
    BY <1>1, <1>6, <1>7, <1>8, <2>1, BlockKeeps
<1>11. FramePopped(guest')
  BY <1>8, <1>9, LeftFrames
<1> QED
  BY <1>10, <1>11

LEMMA RunBlockKeeps ==
    ASSUME IInv, RunBlock
    PROVE  IInv' /\ (FramesKept(guest') \/ FramePopped(guest')) /\ UNCHANGED irqVars
<1>1. UNCHANGED irqVars
  BY DEF RunBlock, RunSkipped, RunOp, RunSkip, RunStorePsw, RunBranch, RunReti, InBlock
<1>2. CASE RunSkipped
  BY <1>1, <1>2, RunSkippedKeeps
<1>3. CASE RunOp
  BY <1>1, <1>3, RunOpKeeps
<1>4. CASE \E taken \in {0, 1} : RunSkip(taken)
  BY <1>1, <1>4, RunSkipKeeps
<1>5. CASE RunStorePsw("ei", 1) \/ RunStorePsw("di", 0)
  BY <1>1, <1>5, RunStorePswKeeps
<1>6. ASSUME NEW kind \in {"br", "bc"}, RunBranch(kind, 0, 1)
      PROVE  IInv' /\ FramesKept(guest')
  <2>1. PICK slot \in {0, 1}, dest \in {0} : slot = 1 /\ dest = 0
    OBVIOUS
  <2>2. RunBranch(kind, dest, slot)
    BY <1>6, <2>1
  <2> QED
    BY <2>1, <2>2, RunBranchKeeps
<1>7. CASE RunBranch("bc", tb.pc + 1, 0)
  BY <1>1, <1>7, RunBranchKeeps
<1>8. CASE RunReti
  BY <1>1, <1>8, RunRetiKeeps
<1> QED
  BY <1>1, <1>2, <1>3, <1>4, <1>5, <1>6, <1>7, <1>8 DEF RunBlock

-----------------------------------------------------------------------------
(* The invariant *)

LEMMA InvInit == WellFormedPrograms /\ Rl78Init => IInv
<1> SUFFICES ASSUME WellFormedPrograms, Rl78Init PROVE IInv
  OBVIOUS
<1>1. /\ guest = ResetGuest /\ irq_index = -1 /\ irq_priority = 0 /\ hard = FALSE
      /\ exit_request = FALSE /\ tb_restart_request = FALSE /\ loc = "host"
      /\ tb = NoBlock /\ next_tb = NoBlock /\ jmp = [x \in Exits |-> NoBlock]
      /\ at = 0 /\ due = NoPc
      /\ count = [limit |-> 0, value |-> 0, declaration |-> 0, local |-> 0]
      /\ ran = [run |-> 0, read |-> 0]
  BY DEF Rl78Init
<1>2. program \in [Pcs -> Kinds] /\ StaysInside(program) /\ NoAdjacentSkips(program)
  BY Rl78Assumption DEF Rl78Init, WellFormedPrograms
<1>3. 0 \in Pcs /\ <<>> \in Seq(Frames) /\ Quantum \in Nat
  BY Rl78Assumption DEF Pcs
<1>4. guest \in Registers /\ guest.pc = 0 /\ guest.skip_en = 0 /\ guest.skip_req = 0
  BY <1>1, <1>3 DEF ResetGuest, Registers
<1>5. count \in Counters
  BY <1>1, <1>3 DEF Counters
<1>6. CountInv /\ CountIsExact
  BY <1>1, <1>3 DEF CountInv, CountIsExact
<1>7. irq_index \in Irqs \cup {-1} /\ irq_priority \in 0 .. 3
  BY <1>1
<1>8. Rl78TypeOK
  BY <1>1, <1>4, <1>5, <1>7 DEF Rl78TypeOK, Registers, Counters, Locations
<1>9. hard \in BOOLEAN /\ exit_request \in BOOLEAN /\ tb_restart_request \in BOOLEAN
  BY <1>1
<1>10. ProgramInv
  BY <1>1, <1>2, <1>3, <1>9 DEF ProgramInv
<1>11. SkipInv /\ ChainInv
  BY <1>1, <1>4 DEF SkipInv, ChainInv
<1> QED
  BY <1>6, <1>8, <1>10, <1>11 DEF IInv

LEMMA InvStep == IInv /\ [Rl78Next]_vars => IInv'
<1> SUFFICES ASSUME IInv, [Rl78Next]_vars PROVE IInv'
  OBVIOUS
<1>1. CASE UNCHANGED vars
  <2>1. count' \in Counters /\ CountInv' /\ CountIsExact'
    BY <1>1, CountSame DEF vars
  <2>2. FlagTypes'
    BY <1>1, FlagsOf DEF vars, FlagTypes, irqVars, requests
  <2> QED
    BY <1>1, <2>1, <2>2, GuestSame DEF vars, blocks, IInv, Rl78TypeOK, ChainInv
<1>2. CASE Step
  BY <1>2, LoopKeeps, DoInterruptKeeps, HostAndLoopKeep, FindBlockKeeps, LeaveHeaderKeeps,
     RunBlockKeeps, ReturnKeeps DEF Step
<1> QED
  BY <1>1, <1>2, ExecuteKeeps, GetExecutedInstructionsKeeps, ResetKeeps, HostAndLoopKeep
     DEF Rl78Next

LEMMA Invariance == WellFormedPrograms => (Rl78Spec => []IInv)
<1> SUFFICES ASSUME WellFormedPrograms PROVE Rl78Spec => []IInv
  OBVIOUS
<1>1. Rl78Init => IInv
  BY InvInit
<1> QED
  BY <1>1, InvStep, PTL DEF Rl78Spec

-----------------------------------------------------------------------------
(* Theorems *)

\* The registers, blocks and exits have their types; the counters of
\* tlib_execute stay within the quantum, through every read and every return.
THEOREM Rl78TypeCorrect ==
    ASSUME WellFormedPrograms
    PROVE  Rl78Spec => []Rl78TypeOK
<1>1. IInv => Rl78TypeOK
  BY DEF IInv
<1> QED
  BY <1>1, Invariance, PTL

\* A block is entered, by a look-up or through a patched exit, only for the
\* guest's next instruction and in the skip state it was translated for.
THEOREM ChainedBlocksMatch ==
    ASSUME WellFormedPrograms
    PROVE  Rl78Spec => []BlockMatchesState
<1>1. IInv => BlockMatchesState
  BY DEF IInv, ChainInv, BlockMatchesState
<1> QED
  BY <1>1, Invariance, PTL

\* Outside of blocks the stored pc is that of the next instruction.
THEOREM PcIsUpToDate ==
    ASSUME WellFormedPrograms
    PROVE  Rl78Spec => []PcIsStored
<1>1. IInv => PcIsStored
  BY DEF IInv, ChainInv, PcIsStored
<1> QED
  BY <1>1, Invariance, PTL

\* Exactly the instruction after a skip whose condition held is left out.
THEOREM SkipsAreHonoured ==
    ASSUME WellFormedPrograms
    PROVE  Rl78Spec => []SkipIsHonoured
<1>1. IInv => SkipIsHonoured
  <2> SUFFICES ASSUME IInv, loc = "block" PROVE IsSkipped <=> due = tb.pc
    BY DEF SkipIsHonoured
  <2>1. tb.pc = at /\ tb.flags = guest.skip_en /\ at \in Pcs
    BY ConsumedFacts
  <2>2. at # NoPc
    BY <2>1, Rl78Assumption DEF Pcs, NoPc
  <2> QED
    BY <2>1, <2>2 DEF IsSkipped, IInv, SkipInv
<1> QED
  BY <1>1, Invariance, PTL

\* The host reads as many instructions as have run since it last read, and
\* tlib_execute never runs more than the quantum.
THEOREM CountsAreExact ==
    ASSUME WellFormedPrograms
    PROVE  Rl78Spec => []CountIsExact
<1>1. IInv => CountIsExact
  BY DEF IInv
<1> QED
  BY <1>1, Invariance, PTL

-----------------------------------------------------------------------------
(* Interrupts *)

LEMMA RequestStep == RequestInv /\ [Rl78Next]_vars => RequestInv'
<1> SUFFICES ASSUME RequestInv, [Rl78Next]_vars PROVE RequestInv'
  OBVIOUS
<1>1. wanted \in Irqs \cup {-1} /\ (wanted # -1 => irq_index = wanted /\ hard)
  BY DEF RequestInv, RequestIsKept
<1>2. ASSUME NEW i \in Irqs, NEW p \in Priorities, RaiseIrq(i, p) PROVE RequestInv'
  BY <1>2 DEF RaiseIrq, RequestInv, RequestIsKept
<1>3. CASE Reset \/ WithdrawIrq \/ DoInterrupt
  <2>1. wanted' = -1
    BY <1>3 DEF Reset, WithdrawIrq, DoInterrupt
  <2> QED
    BY <2>1 DEF RequestInv, RequestIsKept
<1>4. CASE Loop
  <2>1. UNCHANGED <<wanted, irq_index>> /\ hard' = (hard /\ ~(Acceptable /\ irq_index < 0))
    BY <1>4 DEF Loop
  <2>2. wanted # -1 => ~(irq_index < 0)
    BY <1>1, Rl78Assumption
  <2> QED
    BY <1>1, <2>1, <2>2 DEF RequestInv, RequestIsKept
<1>5. CASE UNCHANGED irqVars
  BY <1>5 DEF RequestInv, RequestIsKept, irqVars
<1>6. CASE RunBlock
  BY <1>5, <1>6 DEF RunBlock, RunSkipped, RunOp, RunSkip, RunStorePsw, RunBranch, RunReti, InBlock
<1> QED
  BY <1>2, <1>3, <1>4, <1>5, <1>6 DEF Rl78Next, Step, vars, Execute, GetExecutedInstructions,
     AckReturns, LeaveLoop, RestartLoop, FindBlock, EnterBlock, LeaveHeader, Return

\* A request that was presented stays latched and asserted until it is
\* accepted or withdrawn, whatever the program.
THEOREM RequestsAreKept == Rl78Spec => []RequestIsKept
<1>1. Rl78Init => RequestInv
  BY DEF Rl78Init, RequestInv, RequestIsKept
<1>2. RequestInv => RequestIsKept
  BY DEF RequestInv
<1> QED
  BY <1>1, <1>2, RequestStep, PTL DEF Rl78Spec

\* NoPriorityInversion, of a stack and the level of the running code.
Rising(stack, isp) ==
    \A i \in 1 .. Len(stack) :
        /\ stack[i].ie = 1
        /\ stack[i].isp >= IF i = Len(stack) THEN isp ELSE stack[i + 1].isp

LEMMA RisingLevels ==
    ASSUME NEW g \in Registers
    PROVE  (LET levels == Append([i \in DOMAIN g.stack |-> g.stack[i].isp], g.isp)
            IN \A i \in DOMAIN g.stack : g.stack[i].ie = 1 /\ levels[i] >= levels[i + 1])
           <=> Rising(g.stack, g.isp)
<1> DEFINE s == g.stack
           n == Len(s)
           lower == [i \in DOMAIN s |-> s[i].isp]
           levels == Append(lower, g.isp)
<1>1. s \in Seq(Frames) /\ g.isp \in 0 .. 3
  BY DEF Registers
<1>2. n \in Nat /\ DOMAIN s = 1 .. n /\ \A i \in 1 .. n : s[i] \in Frames
  BY <1>1
<1>3. \A i \in 1 .. n : s[i].isp \in 0 .. 3
  BY <1>2 DEF Frames
<1>4. lower \in Seq(0 .. 3) /\ Len(lower) = n /\ \A i \in 1 .. n : lower[i] = s[i].isp
  BY <1>2, <1>3
<1> HIDE DEF s, n, lower
<1>5. /\ \A i \in 1 .. n : levels[i] = s[i].isp
      /\ levels[n + 1] = g.isp
  BY <1>1, <1>2, <1>4
<1> HIDE DEF levels
<1>6. \A i \in 1 .. n : levels[i + 1] = IF i = n THEN g.isp ELSE s[i + 1].isp
  BY <1>2, <1>5
<1>7. (\A i \in DOMAIN s : s[i].ie = 1 /\ levels[i] >= levels[i + 1]) <=> Rising(s, g.isp)
  BY <1>2, <1>5, <1>6 DEF Rising, n
<1> QED
  BY <1>7 DEF s, levels, lower

LEMMA PriorityStep == IInv /\ NoPriorityInversion /\ [Rl78Next]_vars => NoPriorityInversion'
<1> SUFFICES ASSUME IInv, NoPriorityInversion, [Rl78Next]_vars PROVE NoPriorityInversion'
  OBVIOUS
<1>1. IInv'
  BY InvStep
<1>2. guest \in Registers /\ guest' \in Registers
  BY <1>1 DEF IInv, Rl78TypeOK, Registers
<1>3. Rising(guest.stack, guest.isp)
  BY <1>2, RisingLevels, Zenon DEF NoPriorityInversion
<1>4. Rising(guest'.stack, guest'.isp) => NoPriorityInversion'
  BY <1>2, RisingLevels, Zenon DEF NoPriorityInversion
<1>5. guest.stack \in Seq(Frames) /\ guest.isp \in 0 .. 3
  BY <1>2 DEF Registers
<1>6. CASE FramesKept(guest')
  BY <1>3, <1>4, <1>6 DEF FramesKept
<1>7. CASE FramePopped(guest')
  <2> DEFINE s == guest.stack
             n == Len(s)
             t == SubSeq(s, 1, n - 1)
  <2>1. guest'.stack = t /\ guest'.isp = s[n].isp /\ s # <<>>
    BY <1>7 DEF FramePopped
  <2>2. n \in Nat \ {0} /\ Len(t) = n - 1 /\ \A i \in 1 .. n - 1 : t[i] = s[i]
    BY <1>5, <2>1
  <2>3. \A i \in 1 .. n : /\ s[i].ie = 1
                          /\ s[i].isp >= IF i = n THEN guest.isp ELSE s[i + 1].isp
    BY <1>3 DEF Rising
  <2> HIDE DEF s, n, t
  <2>4. ASSUME NEW i \in 1 .. n - 1
        PROVE  t[i].ie = 1 /\ t[i].isp >= IF i = n - 1 THEN s[n].isp ELSE t[i + 1].isp
    <3>1. i \in 1 .. n /\ i # n /\ t[i] = s[i]
      BY <2>2
    <3>2. s[i].ie = 1 /\ s[i].isp >= s[i + 1].isp
      BY <2>3, <3>1
    <3>3. CASE i = n - 1
      <4>1. i + 1 = n
        BY <2>2, <3>3
      <4> QED
        BY <3>1, <3>2, <3>3, <4>1
    <3>4. CASE i # n - 1
      <4>1. i + 1 \in 1 .. n - 1
        BY <2>2, <3>4
      <4> QED
        BY <2>2, <3>1, <3>2, <3>4, <4>1
    <3> QED
      BY <3>3, <3>4
  <2>5. Rising(t, s[n].isp)
    BY <2>2, <2>4 DEF Rising
  <2> QED
    BY <1>4, <2>1, <2>5
<1>8. CASE DoInterrupt
  <2> DEFINE s == guest.stack
             n == Len(s)
             frame == [pc |-> guest.pc, ie |-> guest.ie, isp |-> guest.isp]
             t == Append(s, frame)
  <2>1. /\ guest' = [guest EXCEPT !.stack = Append(@, frame), !.ie = 0, !.isp = irq_priority,
                                  !.pc = Handler]
        /\ guest.ie = 1 /\ irq_priority < guest.isp + 1
    BY <1>8 DEF DoInterrupt, Acceptable, Wins
  <2>2. guest'.stack = t /\ guest'.isp = irq_priority
    BY <1>2, <2>1 DEF Registers
  <2>3. irq_priority \in 0 .. 3
    BY DEF IInv, Rl78TypeOK
  <2>4. frame.ie = 1 /\ frame.isp = guest.isp
    BY <2>1
  <2>5. frame \in Frames
    BY <1>2 DEF Registers, Frames
  <2> HIDE DEF frame
  <2>6. n \in Nat /\ Len(t) = n + 1 /\ t[n + 1] = frame /\ \A i \in 1 .. n : t[i] = s[i]
    BY <1>5, <2>5
  <2>7. \A i \in 1 .. n : /\ s[i].ie = 1
                          /\ s[i].isp >= IF i = n THEN guest.isp ELSE s[i + 1].isp
    BY <1>3 DEF Rising
  <2> HIDE DEF s, n, t
  <2>8. ASSUME NEW i \in 1 .. n + 1
        PROVE  t[i].ie = 1 /\ t[i].isp >= IF i = n + 1 THEN irq_priority ELSE t[i + 1].isp
    <3>1. CASE i = n + 1
      <4>1. t[i] = frame
        BY <2>6, <3>1
      <4>2. t[i].ie = 1 /\ t[i].isp = guest.isp
        BY <2>4, <4>1
      <4>3. guest.isp >= irq_priority
        BY <1>5, <2>1, <2>3
      <4> QED
        BY <3>1, <4>2, <4>3
    <3>2. CASE i # n + 1
      <4>1. i \in 1 .. n /\ t[i] = s[i]
        BY <2>6, <3>2
      <4>2. CASE i = n
        <5>1. t[i + 1].isp = guest.isp
          BY <2>4, <2>6, <4>2
        <5> QED
          BY <2>7, <3>2, <4>1, <4>2, <5>1
      <4>3. CASE i # n
        <5>1. i + 1 \in 1 .. n
          BY <2>6, <4>1, <4>3
        <5> QED
          BY <2>6, <2>7, <3>2, <4>1, <4>3, <5>1
      <4> QED
        BY <4>2, <4>3
    <3> QED
      BY <3>1, <3>2
  <2>9. Rising(t, irq_priority)
    BY <2>6, <2>8 DEF Rising
  <2> QED
    BY <1>4, <2>2, <2>9
<1>9. CASE Reset
  <2>1. guest'.stack = <<>>
    BY <1>9 DEF Reset, ResetGuest
  <2>2. Rising(guest'.stack, guest'.isp)
    BY <2>1 DEF Rising
  <2> QED
    BY <1>4, <2>2
<1>10. CASE LeaveHeader
  BY <1>2, <1>6, <1>10 DEF LeaveHeader, FramesKept, Registers
<1>11. CASE RunBlock
  BY <1>6, <1>7, <1>11, RunBlockKeeps
<1>12. CASE UNCHANGED guest
  BY <1>6, <1>12 DEF FramesKept
<1> QED
  BY <1>8, <1>9, <1>10, <1>11, <1>12 DEF Rl78Next, Step, vars, Execute, GetExecutedInstructions,
     RaiseIrq, WithdrawIrq, Loop, AckReturns, LeaveLoop, RestartLoop, FindBlock, EnterBlock, Return

\* An interrupt never preempts code of a higher priority, and only code that
\* had interrupts enabled, at any depth of nesting.
THEOREM PrioritiesAreRespected ==
    ASSUME WellFormedPrograms
    PROVE  Rl78Spec => []NoPriorityInversion
<1>1. Rl78Init => NoPriorityInversion
  BY DEF Rl78Init, ResetGuest, NoPriorityInversion
<1>2. Rl78Init => IInv
  BY InvInit
<1> QED
  BY <1>1, <1>2, InvStep, PriorityStep, PTL DEF Rl78Spec
=============================================================================
