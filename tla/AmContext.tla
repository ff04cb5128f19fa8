------------------------------ MODULE AmContext ------------------------------
(***************************************************************************)
(* The context extension of the abstract machine on riscv: kcontext and    *)
(* __am_irq_handle (cte.c), the trap entry and return (trap.S), and the    *)
(* instructions ecall and mret of NEMU with the trap CSRs (inst.c,         *)
(* intr.c).  Memory is word addressed; a Context is a block of words, and  *)
(* its members are found by the offsets trap.S and struct Context share.   *)
(***************************************************************************)
EXTENDS Integers, Sequences

CONSTANTS Thread, Boot,
          GprSeq,       \* the registers trap.S saves, in order, sp left out
          CallerSaved,  \* those a C function may overwrite
          Value,        \* values a thread computes
          CodeLen,      \* instruction slots of the code of a thread
          StackStart,   \* where the stack of each thread begins
          StackWords,   \* and its size
          HandlerWords, \* words of stack __am_irq_handle uses
          Junk          \* what it leaves there

Gpr == {GprSeq[i] : i \in DOMAIN GprSeq}
NR_REGS == Len(GprSeq) + 2
CONTEXT_SIZE == NR_REGS + 4
OFFSET_CAUSE == NR_REGS
OFFSET_STATUS == NR_REGS + 1
OFFSET_EPC == NR_REGS + 2
Offset(r) == CHOOSE i \in 0 .. NR_REGS - 1 : i > 1 /\ GprSeq[i - 1] = r

End(t) == StackStart[t] + StackWords[t]
StackTop(t) == IF t = Boot THEN End(t) ELSE End(t) - 1
Room == CONTEXT_SIZE + HandlerWords    \* what a trap needs below sp

ASSUME ContextAssumption ==
  /\ Boot \in Thread /\ CodeLen \in Nat \ {0} /\ HandlerWords \in Nat
  /\ GprSeq \in Seq(STRING) /\ "a0" \in Gpr /\ CallerSaved \subseteq Gpr
  /\ \A t \in Thread : StackStart[t] \in Nat /\ StackWords[t] \in Nat
  /\ \A t, u \in Thread : t # u => StackStart[t] >= End(u) \/ StackStart[u] >= End(t)
  /\ \A t \in Thread : StackTop(t) - Room >= StackStart[t]

\* Places in the trap code, as values of the pc after those of the threads.
__am_asm_trap == CodeLen + 1
irq_handle == CodeLen + 2
trap_return == CodeLen + 3

MachineMode == 6144    \* 0x1800
MPRV == 131072         \* 1 << 17
YieldCause == 11       \* 0xb

VARIABLES pc, sp, gpr,                    \* the processor
          mcause, mepc, mstatus, mtvec,   \* its CSRs
          mem,                            \* memory
          current, cp                     \* the scheduler: who runs, saved contexts

csrs == <<mcause, mepc, mstatus>>
vars == <<pc, sp, gpr, mcause, mepc, mstatus, mtvec, mem, current, cp>>

Addr == UNION {StackStart[t] .. End(t) - 1 : t \in Thread}
Created == {Boot} \cup DOMAIN cp
InThread == pc \in 0 .. CodeLen

Init ==
  /\ pc = 0 /\ sp = StackTop(Boot) /\ gpr = [r \in Gpr |-> 0]
  /\ mcause = 0 /\ mepc = 0 /\ mstatus = MachineMode /\ mtvec = 0
  /\ mem = [a \in Addr |-> 0]
  /\ current = Boot /\ cp = [t \in {} |-> 0]

-----------------------------------------------------------------------------
\* What the program of a thread does between two yields.
Compute(r, v) ==
  /\ pc \in 0 .. CodeLen - 1
  /\ pc' = pc + 1 /\ gpr' = [gpr EXCEPT ![r] = v]
  /\ UNCHANGED <<sp, csrs, mtvec, mem, current, cp>>

\* A thread leaves room for one trap on its stack.
Push(r) ==
  /\ pc \in 0 .. CodeLen - 1 /\ sp - 1 - Room >= StackStart[current]
  /\ pc' = pc + 1 /\ sp' = sp - 1 /\ mem' = [mem EXCEPT ![sp - 1] = gpr[r]]
  /\ UNCHANGED <<gpr, csrs, mtvec, current, cp>>

Pop(r) ==
  /\ pc \in 0 .. CodeLen - 1 /\ sp < StackTop(current)
  /\ pc' = pc + 1 /\ sp' = sp + 1 /\ gpr' = [gpr EXCEPT ![r] = mem[sp]]
  /\ UNCHANGED <<csrs, mtvec, mem, current, cp>>

Jump ==
  /\ pc = CodeLen /\ pc' = 0
  /\ UNCHANGED <<sp, gpr, csrs, mtvec, mem, current, cp>>

\* Registers the event handler and the trap entry; programs do it before a yield.
cte_init ==
  /\ InThread /\ mtvec = 0 /\ mtvec' = __am_asm_trap
  /\ UNCHANGED <<pc, sp, gpr, csrs, mem, current, cp>>

\* The new context, with the members kcontext leaves alone as memory has them.
NewContext(c, entry, arg) ==
  [a \in Addr |->
     CASE a = c + Offset("a0") -> arg
       [] a \in c .. c + NR_REGS - 1 /\ a # c + Offset("a0") -> 0
       [] a = c + OFFSET_CAUSE -> YieldCause
       [] a = c + OFFSET_STATUS -> MachineMode
       [] a = c + OFFSET_EPC -> entry
       [] OTHER -> mem[a]]

\* Mutant: the context begins where it should end.
ContextAt_AtEnd(t) == End(t) - 1

\* Where kcontext puts the context: below one unused word.
ContextAt(t) == End(t) - 1 - CONTEXT_SIZE

kcontext(t, entry, arg) ==
  LET c == ContextAt(t) IN
  /\ InThread /\ t \notin Created
  /\ mem' = NewContext(c, entry, arg)
  /\ cp' = [u \in DOMAIN cp \cup {t} |-> IF u = t THEN c ELSE cp[u]]
  /\ UNCHANGED <<pc, sp, gpr, csrs, mtvec, current>>

\* yield: the ecall, and what isa_raise_intr does with the CSRs.
yield ==
  /\ pc \in 0 .. CodeLen - 1 /\ mtvec # 0
  /\ mcause' = YieldCause /\ mepc' = pc /\ pc' = mtvec
  /\ UNCHANGED <<sp, gpr, mstatus, mtvec, mem, current, cp>>

-----------------------------------------------------------------------------
Or(status, bit) == IF status >= bit THEN status ELSE status + bit

\* The words trap.S stores into the frame that begins at c.
Saved(c) ==
  [a \in Addr |->
     CASE \E r \in Gpr : a = c + Offset(r) -> gpr[CHOOSE r \in Gpr : a = c + Offset(r)]
       [] a = c + OFFSET_CAUSE -> mcause
       [] a = c + OFFSET_STATUS -> mstatus
       [] a = c + OFFSET_EPC -> mepc
       [] OTHER -> mem[a]]

trap_save ==
  LET c == sp - CONTEXT_SIZE IN
  /\ pc = __am_asm_trap /\ pc' = irq_handle
  /\ sp' = c /\ mem' = Saved(c)
  /\ mstatus' = Or(mstatus, MPRV)
  /\ gpr' = [r \in Gpr |-> CASE r = "a0" -> c [] r = "t0" -> mcause [] OTHER -> gpr[r]]
  /\ UNCHANGED <<mcause, mepc, mtvec, current, cp>>

\* Mutant: the ecall is executed again.
ReturnPc_Same(c) == mem[c + OFFSET_EPC]

\* The epc __am_irq_handle leaves in the frame of the thread that trapped.
ReturnPc(c) == IF mem[c + OFFSET_CAUSE] = YieldCause THEN mem[c + OFFSET_EPC] + 1
                                                     ELSE mem[c + OFFSET_EPC]

\* The event handler of the program keeps the frame and picks another one.
handler(c, t) ==
  /\ t \in Created
  /\ cp' = [u \in DOMAIN cp \cup {current} |-> IF u = current THEN c ELSE cp[u]]
  /\ current' = t

am_irq_handle ==
  LET c == gpr["a0"] IN
  /\ pc = irq_handle /\ pc' = trap_return
  /\ \E t \in Thread :
       /\ handler(c, t)
       /\ gpr' = [r \in Gpr |-> IF r = "a0" THEN cp'[t]
                                ELSE IF r \in CallerSaved THEN Junk ELSE gpr[r]]
  /\ mem' = [a \in Addr |-> CASE a = c + OFFSET_EPC -> ReturnPc(c)
                              [] a \in sp - HandlerWords .. sp - 1 -> Junk
                              [] OTHER -> mem[a]]
  /\ UNCHANGED <<sp, csrs, mtvec>>

\* Mutant: mstatus is not restored.
trap_restore_KeepsMprv ==
  LET c == gpr["a0"] IN
  /\ pc = trap_return /\ pc' = mem[c + OFFSET_EPC]
  /\ mepc' = mem[c + OFFSET_EPC]
  /\ gpr' = [r \in Gpr |-> mem[c + Offset(r)]]
  /\ sp' = c + CONTEXT_SIZE
  /\ UNCHANGED <<mcause, mstatus, mtvec, mem, current, cp>>

\* The rest of trap.S and mret.
trap_restore ==
  LET c == gpr["a0"] IN
  /\ pc = trap_return /\ pc' = mem[c + OFFSET_EPC]
  /\ mstatus' = mem[c + OFFSET_STATUS]
  /\ mepc' = mem[c + OFFSET_EPC]
  /\ gpr' = [r \in Gpr |-> mem[c + Offset(r)]]
  /\ sp' = c + CONTEXT_SIZE
  /\ UNCHANGED <<mcause, mtvec, mem, current, cp>>

Next ==
  \/ \E r \in Gpr, v \in Value : Compute(r, v)
  \/ \E r \in Gpr : Push(r) \/ Pop(r)
  \/ Jump
  \/ cte_init
  \/ \E t \in Thread, entry \in 0 .. CodeLen, arg \in Value : kcontext(t, entry, arg)
  \/ yield
  \/ trap_save \/ am_irq_handle \/ trap_restore

Spec == Init /\ [][Next]_vars

-----------------------------------------------------------------------------
(* What is checked: that the processor, the memory and the trap code together *)
(* are the threads of module Threads.                                         *)

\* Words of a stack from its top down to the stack pointer s.
StackFrom(t, s) == [i \in 1 .. StackTop(t) - s |-> mem[StackTop(t) - i]]

OnProcessor(t, at) == [pc |-> at, gpr |-> gpr, stack |-> StackFrom(t, sp)]
InMemory(t, c) ==
  [pc |-> mem[c + OFFSET_EPC], gpr |-> [r \in Gpr |-> mem[c + Offset(r)]],
   stack |-> StackFrom(t, c + CONTEXT_SIZE)]

\* Where the context of thread t is: on the processor, in the frame the trap
\* has just written, or where the scheduler keeps it.
ContextOf(t) ==
  IF t # current \/ pc = trap_return THEN InMemory(t, cp[t])
  ELSE IF pc = __am_asm_trap THEN OnProcessor(t, mepc)
  ELSE IF pc = irq_handle THEN InMemory(t, gpr["a0"])
  ELSE OnProcessor(t, pc)

ctxBar == [t \in Created |-> ContextOf(t)]

T == INSTANCE Threads WITH running <- current, created <- Created, ctx <- ctxBar

\* Every step of the processor is a step of the running thread, the creation of
\* a thread that starts at its entry with its argument and an empty stack, a
\* yield, or none of them: no thread sees a register, a stack word or a place
\* in its code changed by the trap (trap.S, __am_irq_handle, kcontext).
RefinesThreads == T!Spec

\* A saved context lies in the stack of its thread, with room for the next
\* trap below it, and threads run with the mstatus of machine mode: the bit
\* trap.S sets while it handles a trap is gone after the return, which the
\* comparison with the reference asks for ("set mstatus.MPRV to pass difftest").
ContextInOwnStack ==
  /\ InThread => mstatus = MachineMode
  /\ \A t \in DOMAIN cp :
       t # current => /\ cp[t] - HandlerWords >= StackStart[t]
                      /\ cp[t] + CONTEXT_SIZE <= StackTop(t)
=============================================================================
