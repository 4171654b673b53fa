---------------------------- MODULE Rl78Execution ---------------------------
(***************************************************************************)
(* The RL78 guest as cpu_exec runs it: blocks of one instruction, found    *)
(* by pc and by the flag TB_FLAG_SKIP and chained by patched jumps, which  *)
(* do not store the pc; skip instructions, whose effect is passed to the   *)
(* next block in skip_en and skip_req; interrupts with priorities, latched *)
(* by tlib_set_rl78_irq and accepted between blocks; and the instruction   *)
(* limit of tlib_execute.                                                  *)
(*                                                                         *)
(* gen_intermediate_code returns 0, which ends the block after every       *)
(* instruction.  A block is [pc, flags]; blocks are never invalidated      *)
(* here except by a reset.  The controller is the interrupt controller of  *)
(* the host; its calls fall between two steps of the CPU, the callback of  *)
(* an accepted interrupt included.                                         *)
(***************************************************************************)
EXTENDS Integers, Sequences

CONSTANTS
    ProgramSize,  \* addresses of the guest's program
    Programs,     \* the programs considered
    PageSize,     \* instructions on a page of guest code
    Handler,      \* where every interrupt vector points
    Irqs,         \* vector indices
    Priorities,   \* priorities of requests, 0 the highest
    Quantum,      \* max_insns of tlib_execute
    MaxDepth      \* bound on the nesting of interrupts: no request beyond it

Pcs == 0 .. ProgramSize - 1
Kinds == {"op", "skip", "ei", "di", "br", "bc", "reti"}

ASSUME Rl78Assumption ==
    /\ ProgramSize \in Nat \ {0} /\ PageSize \in Nat \ {0} /\ Quantum \in Nat \ {0}
    /\ MaxDepth \in Nat
    /\ Handler \in Pcs /\ Irqs \subseteq Nat /\ Priorities \subseteq 0 .. 3
    /\ Programs \subseteq [Pcs -> Kinds]

VARIABLES
    program,
    guest,               \* registers: pc, psw.ie, psw.isp, skip_en, skip_req, and the
                         \* frames that interrupts have pushed
    irq_index, irq_priority,
    hard,                \* CPU_INTERRUPT_HARD of interrupt_request
    exit_request, tb_restart_request,
    count,               \* instructions_count_limit, _value and _declaration, and
                         \* local_counter of tlib_execute
    loc,                 \* where the CPU is
    tb,                  \* the block it is about to enter
    next_tb,             \* the exit it left the last block by, if it may be patched
    jmp,                 \* the patched exits
    at,                  \* history: address of the guest's next instruction
    due,                 \* history: the instruction that is to be skipped
    wanted,              \* history: the request that the controller has presented and
                         \* that was neither withdrawn nor acknowledged
    ran                  \* history: instructions run, and read by the host, since
                         \* tlib_execute was called

irqVars == <<irq_index, irq_priority, hard, wanted>>
requests == <<exit_request, tb_restart_request>>
blocks == <<tb, next_tb, jmp>>
vars == <<program, guest, irqVars, requests, count, loc, blocks, at, due, ran>>

Blocks == [pc : Pcs, flags : {0, 1}]
Exits == Pcs \X {0, 1} \X {0, 1}    \* pc and flags of the block, slot
NoBlock == <<>>
NoPc == -1

Frames == [pc : Pcs, ie : {0, 1}, isp : 0 .. 3]
Locations == {"host", "loop", "ack", "checks", "enter", "block", "return"}

-----------------------------------------------------------------------------
\* cpu_reset
ResetGuest == [pc |-> 0, ie |-> 0, isp |-> 3, skip_en |-> 0, skip_req |-> 0, stack |-> <<>>]

Rl78Init ==
    /\ program \in Programs
    /\ guest = ResetGuest
    /\ irq_index = -1 /\ irq_priority = 0 /\ hard = FALSE /\ wanted = -1
    /\ exit_request = FALSE /\ tb_restart_request = FALSE
    /\ count = [limit |-> 0, value |-> 0, declaration |-> 0, local |-> 0]
    /\ loc = "host"
    /\ tb = NoBlock /\ next_tb = NoBlock
    /\ jmp = [x \in Exits |-> NoBlock]
    /\ at = 0 /\ due = NoPc
    /\ ran = [run |-> 0, read |-> 0]

(* The host. *)

\* tlib_execute, up to the loop of cpu_exec; RL78 never sets wfi.
Execute ==
    /\ loc = "host" /\ count.value = 0
    /\ count' = [count EXCEPT !.limit = Quantum, !.local = 0]
    /\ next_tb' = NoBlock
    /\ loc' = "loop"
    /\ ran' = [run |-> 0, read |-> 0]
    /\ UNCHANGED <<program, guest, irqVars, requests, tb, jmp, at, due>>

\* tlib_get_executed_instructions, after tlib_execute or in a callback while
\* it runs.  Outside of tlib_execute the limit may wrap; nothing reads it
\* before tlib_execute sets it.
GetExecutedInstructions ==
    /\ count.value > 0
    /\ count' = [count EXCEPT !.value = 0, !.limit = IF loc = "host" THEN 0 ELSE @ - count.value]
    /\ ran' = [ran EXCEPT !.read = @ + count.value]
    /\ UNCHANGED <<program, guest, irqVars, requests, loc, blocks, at, due>>

\* tlib_reset: tb_flush and cpu_reset; the controller is reset with the CPU.
Reset ==
    /\ loc = "host"
    /\ guest' = ResetGuest
    /\ irq_index' = -1 /\ irq_priority' = 0 /\ wanted' = -1
    /\ jmp' = [x \in Exits |-> NoBlock]
    /\ at' = 0 /\ due' = NoPc
    /\ UNCHANGED <<program, hard, requests, count, loc, tb, next_tb, ran>>

\* tlib_set_rl78_irq.  The controller calls it when it has a candidate, and
\* again for one of a higher priority.
RaiseIrq(i, p) ==
    /\ Len(guest.stack) < MaxDepth
    /\ irq_index = -1 \/ p < irq_priority
    /\ irq_index' = i /\ irq_priority' = p /\ wanted' = i
    /\ hard' = TRUE /\ exit_request' = TRUE
    /\ UNCHANGED <<program, guest, tb_restart_request, count, loc, blocks, at, due, ran>>

\* tlib_set_rl78_irq with enable = 0.  It also resets exception_index, which
\* is -1 in the callback already, and is set to -1 when cpu_exec is entered.
WithdrawIrq ==
    /\ irq_index # -1
    /\ irq_index' = -1 /\ irq_priority' = 0 /\ wanted' = -1 /\ hard' = FALSE
    /\ UNCHANGED <<program, guest, requests, count, loc, blocks, at, due, ran>>

(* cpu_exec. *)

\* cpu_sync_instructions_count
Sync(n) == [n EXCEPT !.value = n.value + n.declaration, !.declaration = 0]

\* Fault seeded: interrupts are accepted between a skip and what it skips.
AcceptableInSkip == guest.ie = 1

\* process_interrupt: interrupts are enabled and no skip is pending.
Acceptable == guest.ie = 1 /\ guest.skip_en = 0

\* Fault seeded: the priority of the code that is running is not looked at.
WinsAlways == TRUE

Wins == irq_priority < guest.isp + 1

\* Fault seeded: a request that cannot be accepted now is taken back.
LoopTakesBack ==
    /\ loc = "loop"
    /\ ~(hard /\ Acceptable /\ irq_index >= 0 /\ Wins)
    /\ hard' = FALSE
    /\ count' = Sync(count)
    /\ loc' = "checks"
    /\ UNCHANGED <<program, guest, irq_index, irq_priority, wanted, requests, blocks, at, due, ran>>

\* The top of the inner loop, when no interrupt is accepted.  A request
\* without a candidate is taken back.
Loop ==
    /\ loc = "loop"
    /\ ~(hard /\ Acceptable /\ irq_index >= 0 /\ Wins)
    /\ hard' = (hard /\ ~(Acceptable /\ irq_index < 0))
    /\ count' = Sync(count)
    /\ loc' = "checks"
    /\ UNCHANGED <<program, guest, irq_index, irq_priority, wanted, requests, blocks, at, due, ran>>

\* do_interrupt pushes pc and psw, goes to the handler, drops the candidate
\* and then tells the controller.
DoInterrupt ==
    /\ loc = "loop"
    /\ hard /\ Acceptable /\ irq_index >= 0 /\ Wins
    /\ count' = Sync(count)
    /\ guest' = [guest EXCEPT
                   !.stack = Append(@, [pc |-> guest.pc, ie |-> guest.ie, isp |-> guest.isp]),
                   !.ie = 0, !.isp = irq_priority, !.pc = Handler]
    /\ irq_index' = -1 /\ wanted' = -1
    /\ at' = Handler
    /\ loc' = "ack"
    /\ UNCHANGED <<program, irq_priority, hard, requests, blocks, due, ran>>

\* Fault seeded: the jump of the interrupted block is still patched.
AckReturnsChains ==
    /\ loc = "ack"
    /\ loc' = "checks"
    /\ UNCHANGED <<program, guest, irqVars, requests, count, blocks, at, due, ran>>

\* Fault seeded: the candidate is dropped after the callback.
AckReturnsDrops ==
    /\ loc = "ack"
    /\ irq_index' = -1
    /\ next_tb' = NoBlock
    /\ loc' = "checks"
    /\ UNCHANGED <<program, guest, irq_priority, hard, wanted, requests, count, tb, jmp, at, due, ran>>

\* tlib_on_rl78_irq_ack returns; back in the loop no jump may be patched.
AckReturns ==
    /\ loc = "ack"
    /\ next_tb' = NoBlock
    /\ loc' = "checks"
    /\ UNCHANGED <<program, guest, irqVars, requests, count, tb, jmp, at, due, ran>>

LimitReached == count.value = count.limit

\* The loop leaves because of a request or of the limit ...
LeaveLoop ==
    /\ loc = "checks"
    /\ exit_request \/ LimitReached
    /\ exit_request' = TRUE
    /\ loc' = "return"
    /\ UNCHANGED <<program, guest, irqVars, tb_restart_request, count, blocks, at, due, ran>>

\* ... starts again ...
RestartLoop ==
    /\ loc = "checks"
    /\ ~exit_request /\ ~LimitReached /\ tb_restart_request
    /\ tb_restart_request' = FALSE
    /\ next_tb' = NoBlock
    /\ loc' = "loop"
    /\ UNCHANGED <<program, guest, irqVars, exit_request, count, tb, jmp, at, due, ran>>

\* ... or looks the next block up by the guest's state (tb_find_fast) and
\* patches the exit of the last one (tb_add_jump) ...
FindBlock ==
    /\ loc = "checks"
    /\ ~exit_request /\ ~LimitReached /\ ~tb_restart_request
    /\ tb' = [pc |-> guest.pc, flags |-> guest.skip_en]
    /\ jmp' = IF next_tb # NoBlock /\ jmp[next_tb] = NoBlock
              THEN [jmp EXCEPT ![next_tb] = tb'] ELSE jmp
    /\ loc' = "enter"
    /\ UNCHANGED <<program, guest, irqVars, requests, count, next_tb, at, due, ran>>

\* ... which is entered unless a request came while it was translated.
EnterBlock ==
    /\ loc = "enter"
    /\ loc' = IF exit_request THEN "loop" ELSE "block"
    /\ UNCHANGED <<program, guest, irqVars, requests, count, blocks, at, due, ran>>

(* Blocks. *)

\* Fault seeded: the limit is only looked at in the loop of cpu_exec.
HeaderLimitIgnored(n) == FALSE

\* prepare_block_for_execution finds no instructions left.
HeaderLimit(n) == n.value = n.limit

\* Fault seeded: the pc is taken to be up to date.
LeaveHeaderKeepsPc ==
    /\ loc = "block"
    /\ \/ exit_request /\ UNCHANGED <<tb_restart_request, count>>
       \/ /\ ~exit_request /\ HeaderLimit(Sync(count))
          /\ tb_restart_request' = TRUE
          /\ count' = Sync(count)
    /\ loc' = "return"
    /\ UNCHANGED <<program, guest, irqVars, exit_request, blocks, at, due, ran>>

\* The header of a block leaves it; cpu_exec takes the pc from the block.
LeaveHeader ==
    /\ loc = "block"
    /\ \/ exit_request /\ UNCHANGED <<tb_restart_request, count>>
       \/ /\ ~exit_request /\ HeaderLimit(Sync(count))
          /\ tb_restart_request' = TRUE
          /\ count' = Sync(count)
    /\ guest' = [guest EXCEPT !.pc = tb.pc]
    /\ loc' = "return"
    /\ UNCHANGED <<program, irqVars, exit_request, blocks, at, due, ran>>

\* Fault seeded: the declaration of the previous block is overwritten.
DeclareOnly(n) == [n EXCEPT !.declaration = 1]

\* The header declares the block's instruction after counting the last one's.
Declare(n) == [Sync(n) EXCEPT !.declaration = 1]

\* gen_exit_tb_no_chaining, after the pc is stored
ExitNoChaining(dest, registers) ==
    /\ guest' = [registers EXCEPT !.pc = dest]
    /\ at' = dest
    /\ next_tb' = NoBlock
    /\ loc' = "loop"
    /\ UNCHANGED <<tb, jmp>>

\* gen_goto_tb: on its own page a block jumps through a slot, straight into
\* the next block once the slot is patched, past the store of the pc.
Exit(slot, dest, registers) ==
    LET x == <<tb.pc, tb.flags, slot>>
    IN IF tb.pc \div PageSize # dest \div PageSize THEN ExitNoChaining(dest, registers)
       ELSE /\ at' = dest
            /\ UNCHANGED jmp
            /\ IF jmp[x] = NoBlock
               THEN /\ guest' = [registers EXCEPT !.pc = dest]
                    /\ next_tb' = x /\ loc' = "loop" /\ UNCHANGED tb
               ELSE /\ guest' = registers
                    /\ tb' = jmp[x] /\ loc' = "block" /\ UNCHANGED next_tb

\* The code in front of an instruction in a block with TB_FLAG_SKIP.
Consumed == IF tb.flags = 1 THEN [guest EXCEPT !.skip_en = 0, !.skip_req = 0] ELSE guest
IsSkipped == tb.flags = 1 /\ guest.skip_req = 1

InBlock(kind) ==
    /\ loc = "block" /\ ~exit_request /\ ~HeaderLimit(Sync(count))
    /\ program[tb.pc] = kind
    /\ count' = Declare(count)
    /\ ran' = [ran EXCEPT !.run = @ + 1]
    /\ UNCHANGED <<program, irqVars, requests>>

\* The branch to the skip label: all that is behind it is the slot.
RunSkipped ==
    /\ \E kind \in Kinds : InBlock(kind)
    /\ IsSkipped
    /\ Exit(0, tb.pc + 1, Consumed)
    /\ due' = NoPc

RunOp ==
    /\ InBlock("op") /\ ~IsSkipped
    /\ Exit(0, tb.pc + 1, Consumed)
    /\ due' = NoPc

\* rl78_gen_skip: the flags of the guest decide.
RunSkip(taken) ==
    /\ InBlock("skip") /\ ~IsSkipped
    /\ Exit(0, tb.pc + 1, [Consumed EXCEPT !.skip_en = 1, !.skip_req = taken])
    /\ due' = IF taken = 1 THEN tb.pc + 1 ELSE NoPc

\* store_psw: the block ends without chaining, but one with TB_FLAG_SKIP has
\* a patched exit behind its skip label.
RunStorePsw(kind, ie) ==
    /\ InBlock(kind) /\ ~IsSkipped
    /\ LET registers == [Consumed EXCEPT !.ie = ie]
       IN IF tb.flags = 1 THEN Exit(0, tb.pc + 1, registers)
          ELSE ExitNoChaining(tb.pc + 1, registers)
    /\ due' = NoPc

RunBranch(kind, dest, slot) ==
    /\ InBlock(kind) /\ ~IsSkipped
    /\ Exit(slot, dest, Consumed)
    /\ due' = NoPc

\* rl78_gen_ret with restore_psw; only handlers execute it.
RunReti ==
    /\ InBlock("reti") /\ ~IsSkipped
    /\ guest.stack # <<>>
    /\ LET frame == guest.stack[Len(guest.stack)]
       IN ExitNoChaining(frame.pc, [Consumed EXCEPT !.ie = frame.ie, !.isp = frame.isp,
                                                    !.stack = SubSeq(@, 1, Len(@) - 1)])
    /\ due' = NoPc

\* cpu_exec has returned EXCP_INTERRUPT: tlib_execute goes on while there is
\* something left to execute and nobody has asked it to return.
Return ==
    /\ loc = "return"
    /\ LET n == Sync(count)
           total == n.local + n.value
           left == n.limit - n.value
       IN IF exit_request \/ left = 0
          THEN /\ count' = [limit |-> left, value |-> total, declaration |-> 0, local |-> 0]
               /\ loc' = "host"
          ELSE /\ count' = [limit |-> left, value |-> 0, declaration |-> 0, local |-> total]
               /\ loc' = "loop"
    /\ exit_request' = FALSE
    /\ next_tb' = NoBlock
    /\ UNCHANGED <<program, guest, irqVars, tb_restart_request, tb, jmp, at, due, ran>>

RunBlock ==
    \/ RunSkipped
    \/ RunOp
    \/ \E taken \in {0, 1} : RunSkip(taken)
    \/ RunStorePsw("ei", 1) \/ RunStorePsw("di", 0)
    \/ RunBranch("br", 0, 1)
    \/ RunBranch("bc", 0, 1) \/ RunBranch("bc", tb.pc + 1, 0)
    \/ RunReti

\* What the CPU does next, inside tlib_execute.
Step ==
    \/ Loop \/ DoInterrupt \/ AckReturns
    \/ LeaveLoop \/ RestartLoop \/ FindBlock \/ EnterBlock
    \/ LeaveHeader \/ RunBlock \/ Return

Rl78Next ==
    \/ Execute \/ GetExecutedInstructions \/ Reset
    \/ \E i \in Irqs, p \in Priorities : RaiseIrq(i, p)
    \/ WithdrawIrq
    \/ Step

Rl78Spec == Rl78Init /\ [][Rl78Next]_vars

\* The CPU goes on, and the host reads the count and executes the CPU again
\* and again.
FairRl78Spec ==
    /\ Rl78Spec
    /\ WF_vars(Step) /\ WF_vars(Execute) /\ WF_vars(loc = "host" /\ GetExecutedInstructions)

-----------------------------------------------------------------------------
(* Properties. *)

\* The registers, counters, blocks and exits of cpu_exec have their types; the
\* counters stay within what tlib_execute was asked for.
Rl78TypeOK ==
    /\ guest \in [pc : Pcs, ie : {0, 1}, isp : 0 .. 3, skip_en : {0, 1}, skip_req : {0, 1},
                  stack : Seq(Frames)]
    /\ irq_index \in Irqs \cup {-1} /\ irq_priority \in 0 .. 3
    /\ count \in [limit : 0 .. Quantum, value : 0 .. Quantum, declaration : {0, 1},
                  local : 0 .. Quantum]
    /\ loc \in Locations
    /\ tb \in Blocks \cup {NoBlock} /\ next_tb \in Exits \cup {NoBlock}
    /\ \A x \in Exits : jmp[x] \in Blocks \cup {NoBlock}

\* Every block, looked up or jumped into through a patched exit, is the
\* guest's next instruction and was translated for its skip state: "It will
\* always be the same before a given translated block is executed"
\* (tb_find_fast).
BlockMatchesState ==
    loc = "block" => tb.pc = at /\ tb.flags = guest.skip_en

\* Chained blocks do not store the pc, yet wherever cpu_exec may look a block
\* up, push a return address or return to the host, the pc is that of the
\* next instruction.
PcIsStored == loc # "block" => guest.pc = at

\* Exactly the instruction after a skip whose condition held is left out,
\* whatever exits, interrupts, limits and patched jumps lie in between.
SkipIsHonoured ==
    loc = "block" /\ ~exit_request /\ ~HeaderLimit(Sync(count))
        => (IsSkipped <=> due = tb.pc)

\* An interrupt never preempts code of a higher priority: along the pushed
\* frames to the running code the admitted priorities only rise, and only
\* code with interrupts enabled was interrupted.
NoPriorityInversion ==
    LET levels == Append([i \in DOMAIN guest.stack |-> guest.stack[i].isp], guest.isp)
    IN \A i \in DOMAIN guest.stack : guest.stack[i].ie = 1 /\ levels[i] >= levels[i + 1]

\* A request that the controller has presented, in the callback of another
\* one too, stays latched and asserted until it is accepted or withdrawn
\* ("latch (index, priority) and assert CPU_INTERRUPT_HARD"), also while the
\* code that runs has too high a priority for it.
RequestIsKept == wanted # -1 => irq_index = wanted /\ hard

\* The count the host reads is the number of instructions run since it last
\* read it, skipped ones included, and tlib_execute never runs more than it
\* was asked for, however blocks were chained and left.
CountIsExact ==
    /\ count.local + count.value + count.declaration = ran.run - ran.read
    /\ ran.run <= Quantum

\* A request that the running code admits does not stay pending: also in a
\* chain of patched blocks, which does not come back to the loop by itself,
\* and although no request is accepted in front of a skipped instruction.
InterruptIsTaken ==
    LET Admitted == irq_index # -1 /\ guest.ie = 1 /\ Wins IN Admitted ~> ~Admitted
=============================================================================
