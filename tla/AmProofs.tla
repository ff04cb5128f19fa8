------------------------------ MODULE AmProofs ------------------------------
(***************************************************************************)
(* Proofs, for any threads, registers, values and sizes of stacks, about   *)
(* the context extension.                                                  *)
(***************************************************************************)
EXTENDS AmContext, TLAPS

\* The words of the stack of t.
Stack(t) == StackStart[t] .. End(t) - 1

\* A complete context of thread t lies at c in the memory m, within the stack of
\* t, with room for the handler below it; the return from it is to a place in the
\* code of the thread, in machine mode.
FrameIn(m, t, c) ==
  /\ c \in Int /\ StackStart[t] + HandlerWords <= c /\ c + CONTEXT_SIZE <= StackTop(t)
  /\ m[c + OFFSET_EPC] \in 0 .. CodeLen /\ m[c + OFFSET_STATUS] = MachineMode

\* The thread that runs has room on its stack for a trap.
SpInStack == sp \in Int /\ StackStart[current] + Room <= sp /\ sp <= StackTop(current)

AmType ==
  /\ current \in Created /\ DOMAIN cp \subseteq Thread
  /\ current # Boot => Boot \in DOMAIN cp
  /\ mem = [a \in Addr |-> mem[a]] /\ gpr = [r \in Gpr |-> gpr[r]]
  /\ mtvec \in {0, __am_asm_trap}

\* The places of the processor: in the code of a thread, and before each of the
\* three parts of a trap.
InProgram == pc \in 0 .. CodeLen /\ mstatus = MachineMode /\ SpInStack
AtTrap    == pc = __am_asm_trap /\ mstatus = MachineMode /\ SpInStack /\ mepc \in 0 .. CodeLen - 1
AtHandler == pc = irq_handle /\ gpr["a0"] = sp /\ FrameIn(mem, current, sp)
             /\ mem[sp + OFFSET_EPC] < CodeLen
AtReturn  == pc = trap_return /\ current \in DOMAIN cp /\ gpr["a0"] = cp[current]
             /\ FrameIn(mem, current, cp[current])

Others == \A t \in DOMAIN cp : t # current => FrameIn(mem, t, cp[t])

AmInv == AmType /\ (InProgram \/ AtTrap \/ AtHandler \/ AtReturn) /\ Others

-----------------------------------------------------------------------------
LEMMA Sizes ==
  /\ NR_REGS \in Nat /\ NR_REGS >= 3 /\ CONTEXT_SIZE = NR_REGS + 4
  /\ OFFSET_CAUSE = NR_REGS /\ OFFSET_STATUS = NR_REGS + 1 /\ OFFSET_EPC = NR_REGS + 2
  /\ HandlerWords \in Nat /\ Room = CONTEXT_SIZE + HandlerWords
  /\ CodeLen \in Nat /\ CodeLen > 0
<1>1. Len(GprSeq) \in Nat /\ DOMAIN GprSeq = 1 .. Len(GprSeq) /\ "a0" \in Gpr
  BY ContextAssumption
<1>2. Len(GprSeq) >= 1
  BY <1>1 DEF Gpr
<1>3. QED BY <1>1, <1>2, ContextAssumption DEF NR_REGS, CONTEXT_SIZE, OFFSET_CAUSE,
               OFFSET_STATUS, OFFSET_EPC, Room

LEMMA OffsetNames ==
  ASSUME NEW r \in Gpr PROVE Offset(r) \in 2 .. NR_REGS - 1 /\ GprSeq[Offset(r) - 1] = r
<1>1. PICK j \in DOMAIN GprSeq : GprSeq[j] = r
  BY DEF Gpr
<1>2. j \in 1 .. Len(GprSeq) /\ Len(GprSeq) \in Nat
  BY ContextAssumption
<1>3. \E i \in 0 .. NR_REGS - 1 : i > 1 /\ GprSeq[i - 1] = r
  <2>1. j + 1 \in 0 .. NR_REGS - 1 /\ j + 1 > 1 /\ (j + 1) - 1 = j
    BY <1>2 DEF NR_REGS
  <2>2. QED BY <1>1, <2>1
<1>4. QED BY <1>3, <1>2 DEF Offset, NR_REGS

LEMMA OffsetIs == ASSUME NEW r \in Gpr PROVE Offset(r) \in 2 .. NR_REGS - 1
BY OffsetNames

LEMMA Stacks ==
  /\ \A t \in Thread : /\ StackStart[t] \in Int /\ End(t) \in Int /\ StackTop(t) \in Int
                       /\ StackTop(t) <= End(t) /\ StackStart[t] + Room <= StackTop(t)
                       /\ Stack(t) \subseteq Addr
  /\ \A t, u \in Thread : t # u => Stack(t) \cap Stack(u) = {}
<1>1. \A t \in Thread : /\ StackStart[t] \in Int /\ End(t) \in Int /\ StackTop(t) \in Int
                        /\ StackTop(t) <= End(t) /\ StackStart[t] + Room <= StackTop(t)
  <2> TAKE t \in Thread
  <2>1. StackStart[t] \in Nat /\ StackWords[t] \in Nat /\ StackTop(t) - Room >= StackStart[t]
    BY ContextAssumption
  <2>2. End(t) \in Int /\ Room \in Int
    BY <2>1, Sizes DEF End
  <2>3. StackTop(t) \in Int /\ StackTop(t) <= End(t)
    BY <2>2 DEF StackTop
  <2>4. QED BY <2>1, <2>2, <2>3
<1>2. \A t \in Thread : Stack(t) \subseteq Addr
  BY DEF Stack, Addr
<1>3. \A t, u \in Thread : t # u => StackStart[t] >= End(u) \/ StackStart[u] >= End(t)
  BY ContextAssumption
<1>4. \A t, u \in Thread : t # u => Stack(t) \cap Stack(u) = {}
  BY <1>1, <1>3 DEF Stack
<1>5. QED BY <1>1, <1>2, <1>4

\* The words of a context are words of the stack it lies in.
LEMMA FrameWords ==
  ASSUME NEW t \in Thread, NEW c \in Int, StackStart[t] + HandlerWords <= c,
         c + CONTEXT_SIZE <= StackTop(t)
  PROVE  /\ \A k \in 0 .. CONTEXT_SIZE - 1 : c + k \in Stack(t) /\ c + k \in Addr
         /\ c + OFFSET_EPC \in Stack(t) /\ c + OFFSET_STATUS \in Stack(t)
         /\ c + OFFSET_EPC \in Addr /\ c + OFFSET_STATUS \in Addr
         /\ \A a \in c - HandlerWords .. c - 1 : a \in Stack(t)
<1>1. \A k \in Int : k >= -HandlerWords /\ k < CONTEXT_SIZE => c + k \in Stack(t)
  BY Stacks, Sizes DEF Stack
<1>2. \A k \in 0 .. CONTEXT_SIZE - 1 : c + k \in Stack(t)
  BY <1>1, Sizes
<1>3. c + OFFSET_EPC \in Stack(t) /\ c + OFFSET_STATUS \in Stack(t)
  BY <1>1, Sizes
<1>4. \A a \in c - HandlerWords .. c - 1 : a \in Stack(t)
  BY Stacks, Sizes DEF Stack
<1>5. QED BY <1>2, <1>3, <1>4, Stacks

\* What is written to the stack of u leaves the contexts of the others alone.
LEMMA FrameKept ==
  ASSUME NEW t \in Thread, NEW u \in Thread, t # u, NEW c, NEW m, NEW n, FrameIn(m, t, c),
         \A a \in Addr : a \notin Stack(u) => n[a] = m[a]
  PROVE  FrameIn(n, t, c)
<1>1. /\ c + OFFSET_EPC \in Stack(t) /\ c + OFFSET_STATUS \in Stack(t)
      /\ c + OFFSET_EPC \in Addr /\ c + OFFSET_STATUS \in Addr
  BY FrameWords DEF FrameIn
<1>2. c + OFFSET_EPC \notin Stack(u) /\ c + OFFSET_STATUS \notin Stack(u)
  BY <1>1, Stacks
<1>3. QED BY <1>1, <1>2 DEF FrameIn

LEMMA Running == AmType => current \in Thread
BY ContextAssumption DEF AmType, Created

\* A step of the running thread that writes at most to its own stack.
LEMMA OthersKept ==
  ASSUME AmInv, UNCHANGED <<cp, current>>,
         \A a \in Addr : a \notin Stack(current) => mem'[a] = mem[a]
  PROVE  Others'
<1>1. ASSUME NEW t \in DOMAIN cp, t # current PROVE FrameIn(mem', t, cp[t])
  BY <1>1, FrameKept, Running DEF AmInv, AmType, Others
<1>2. QED BY <1>1 DEF Others

-----------------------------------------------------------------------------
LEMMA AmInvInit == Init => AmInv
BY Stacks, ContextAssumption, Sizes
   DEF Init, AmInv, AmType, Created, InProgram, SpInStack, Others

LEMMA ProgramSteps ==
  ASSUME AmInv,
         \/ \E r \in Gpr, v \in Value : Compute(r, v)
         \/ \E r \in Gpr : Push(r) \/ Pop(r)
         \/ Jump \/ cte_init
  PROVE  AmInv'
<1>1. pc \in 0 .. CodeLen /\ UNCHANGED <<mcause, mepc, mstatus, current, cp>>
  BY Sizes DEF Compute, Push, Pop, Jump, cte_init, csrs, InThread
<1>2. mtvec' \in {0, __am_asm_trap}
  <2>1. mtvec' = mtvec \/ mtvec' = __am_asm_trap
    BY DEF Compute, Push, Pop, Jump, cte_init
  <2>2. QED BY <2>1 DEF AmInv, AmType, __am_asm_trap
<1>3. InProgram
  BY <1>1, Sizes DEF AmInv, AtTrap, AtHandler, AtReturn, __am_asm_trap, irq_handle, trap_return
<1>4. current \in Thread
  BY Running DEF AmInv
<1>5. pc' \in 0 .. CodeLen
  BY <1>1, Sizes DEF Compute, Push, Pop, Jump, cte_init
<1>6. SpInStack'
  BY <1>1, <1>3, <1>4, Stacks, Sizes DEF InProgram, SpInStack, Compute, Push, Pop, Jump, cte_init
<1>7. mem' = [a \in Addr |-> mem'[a]] /\ gpr' = [r \in Gpr |-> gpr'[r]]
  BY DEF AmInv, AmType, Compute, Push, Pop, Jump, cte_init
<1>8. \A a \in Addr : a \notin Stack(current) => mem'[a] = mem[a]
  <2>1. CASE \E r \in Gpr : Push(r)
    <3>1. sp - 1 \in Stack(current)
      BY <1>3, <1>4, <2>1, Stacks, Sizes DEF InProgram, SpInStack, Push, Stack
    <3>2. QED BY <2>1, <3>1 DEF Push, AmInv, AmType
  <2>2. CASE mem' = mem
    BY <2>2
  <2>3. QED BY <2>1, <2>2 DEF Compute, Pop, Jump, cte_init
<1>9. QED BY <1>1, <1>3, <1>5, <1>6, <1>7, <1>8, <1>2, OthersKept
         DEF AmInv, AmType, Created, InProgram, __am_asm_trap

LEMMA CreateStep ==
  ASSUME AmInv, NEW t \in Thread, NEW entry \in 0 .. CodeLen, NEW arg \in Value,
         kcontext(t, entry, arg)
  PROVE  AmInv'
<1> DEFINE c == ContextAt(t)
<1>1. /\ pc \in 0 .. CodeLen /\ t \notin Created /\ mem' = NewContext(c, entry, arg)
      /\ cp' = [u \in DOMAIN cp \cup {t} |-> IF u = t THEN c ELSE cp[u]]
      /\ UNCHANGED <<pc, sp, gpr, mcause, mepc, mstatus, mtvec, current>>
  BY DEF kcontext, InThread, csrs
<1>2. t # Boot /\ t # current /\ current \in Thread
  BY <1>1, Running DEF Created, AmInv, AmType
<1>3. c \in Int /\ StackStart[t] + HandlerWords <= c /\ c + CONTEXT_SIZE <= StackTop(t)
  BY <1>2, Stacks, Sizes DEF ContextAt, StackTop
<1> HIDE DEF c
<1>4. FrameIn(mem', t, c)
  <2>1. c + OFFSET_EPC \in Addr /\ c + OFFSET_STATUS \in Addr
    BY <1>3, FrameWords
  <2>2. Offset("a0") \in 2 .. NR_REGS - 1
    BY OffsetIs, ContextAssumption
  <2>3. mem'[c + OFFSET_EPC] = entry /\ mem'[c + OFFSET_STATUS] = MachineMode
    BY <1>1, <1>3, <2>1, <2>2, Sizes DEF NewContext
  <2>4. QED BY <1>3, <2>3 DEF FrameIn
<1>5. \A a \in Addr : a \notin Stack(t) => mem'[a] = mem[a]
  <2> SUFFICES ASSUME NEW a \in Addr, a \notin Stack(t) PROVE mem'[a] = mem[a]
    OBVIOUS
  <2>1. \A k \in 0 .. CONTEXT_SIZE - 1 : a # c + k
    BY <1>3, FrameWords
  <2>2. Offset("a0") \in 0 .. CONTEXT_SIZE - 1
    BY OffsetIs, ContextAssumption, Sizes
  <2>3. a \notin c .. c + NR_REGS - 1
    <3> SUFFICES ASSUME a \in c .. c + NR_REGS - 1 PROVE FALSE
      OBVIOUS
    <3>1. a - c \in 0 .. CONTEXT_SIZE - 1 /\ a = c + (a - c)
      BY <1>3, Sizes
    <3>2. QED BY <2>1, <3>1
  <2>4. a # c + OFFSET_CAUSE /\ a # c + OFFSET_STATUS /\ a # c + OFFSET_EPC
    BY <2>1, Sizes
  <2>5. QED BY <1>1, <2>1, <2>2, <2>3, <2>4 DEF NewContext
<1>6. Others'
  <2>1. ASSUME NEW u \in DOMAIN cp', u # current PROVE FrameIn(mem', u, cp'[u])
    <3>1. CASE u = t
      BY <1>1, <1>4, <3>1
    <3>2. CASE u # t
      <4>1. u \in DOMAIN cp /\ cp'[u] = cp[u] /\ u \in Thread
        BY <1>1, <3>2 DEF AmInv, AmType
      <4>2. FrameIn(mem, u, cp[u])
        BY <2>1, <4>1 DEF AmInv, Others
      <4>3. QED BY <1>5, <3>2, <4>1, <4>2, FrameKept
    <3>3. QED BY <3>1, <3>2
  <2>2. QED BY <1>1, <2>1 DEF Others
<1>7. InProgram'
  BY <1>1, Sizes DEF AmInv, InProgram, SpInStack, AtTrap, AtHandler, AtReturn, __am_asm_trap,
       irq_handle, trap_return
<1>8. AmType'
  <2>1. mem' = [a \in Addr |-> mem'[a]]
    BY <1>1 DEF NewContext
  <2>2. DOMAIN cp' = DOMAIN cp \cup {t}
    BY <1>1
  <2>3. QED BY <1>1, <2>1, <2>2 DEF AmInv, AmType, Created
<1>9. QED BY <1>6, <1>7, <1>8 DEF AmInv

LEMMA YieldStep == ASSUME AmInv, yield PROVE AmInv'
<1>1. /\ pc \in 0 .. CodeLen - 1 /\ mepc' = pc /\ pc' = __am_asm_trap
      /\ UNCHANGED <<sp, gpr, mstatus, mtvec, mem, current, cp>>
  BY DEF yield, AmInv, AmType
<1>2. InProgram
  BY <1>1, Sizes DEF AmInv, AtTrap, AtHandler, AtReturn, __am_asm_trap, irq_handle, trap_return
<1>3. AtTrap'
  BY <1>1, <1>2 DEF InProgram, AtTrap, SpInStack, __am_asm_trap
<1>4. AmType' /\ Others'
  BY <1>1 DEF AmInv, AmType, Others, Created, __am_asm_trap
<1>5. QED BY <1>3, <1>4 DEF AmInv

LEMMA SaveStep == ASSUME AmInv, trap_save PROVE AmInv'
<1> DEFINE c == sp - CONTEXT_SIZE
<1>1. /\ pc = __am_asm_trap /\ pc' = irq_handle /\ sp' = c /\ mem' = Saved(c)
      /\ gpr' = [r \in Gpr |-> CASE r = "a0" -> c [] r = "t0" -> mcause [] OTHER -> gpr[r]]
      /\ UNCHANGED <<mtvec, current, cp>>
  BY DEF trap_save
<1>2. AtTrap /\ current \in Thread
  BY <1>1, Sizes, Running DEF AmInv, InProgram, AtHandler, AtReturn, __am_asm_trap, irq_handle, trap_return
<1>3. c \in Int /\ StackStart[current] + HandlerWords <= c /\ c + CONTEXT_SIZE <= StackTop(current)
  BY <1>2, Stacks, Sizes DEF AtTrap, SpInStack
<1>4. gpr'["a0"] = c
  BY <1>1, ContextAssumption
<1> HIDE DEF c
<1>5. \A r \in Gpr : Offset(r) \in 0 .. NR_REGS - 1
  BY OffsetIs, Sizes
<1>6. FrameIn(mem', current, c) /\ mem'[c + OFFSET_EPC] < CodeLen
  <2>1. c + OFFSET_EPC \in Addr /\ c + OFFSET_STATUS \in Addr
    BY <1>2, <1>3, FrameWords
  <2>2. \A r \in Gpr : c + OFFSET_EPC # c + Offset(r) /\ c + OFFSET_STATUS # c + Offset(r)
    BY <1>3, <1>5, Sizes
  <2>3. c + OFFSET_STATUS # c + OFFSET_CAUSE /\ c + OFFSET_EPC # c + OFFSET_CAUSE
        /\ c + OFFSET_STATUS # c + OFFSET_EPC
    BY <1>3, Sizes
  <2>4. mem'[c + OFFSET_EPC] = mepc /\ mem'[c + OFFSET_STATUS] = mstatus
    BY <1>1, <2>1, <2>2, <2>3 DEF Saved
  <2>5. QED BY <1>2, <1>3, <2>4, Sizes DEF AtTrap, FrameIn
<1>7. \A a \in Addr : a \notin Stack(current) => mem'[a] = mem[a]
  <2> SUFFICES ASSUME NEW a \in Addr, a \notin Stack(current) PROVE mem'[a] = mem[a]
    OBVIOUS
  <2>1. \A k \in 0 .. CONTEXT_SIZE - 1 : a # c + k
    BY <1>2, <1>3, FrameWords
  <2>2. \A r \in Gpr : a # c + Offset(r)
    BY <1>5, <2>1, Sizes
  <2>3. a # c + OFFSET_CAUSE /\ a # c + OFFSET_STATUS /\ a # c + OFFSET_EPC
    BY <2>1, Sizes
  <2>4. QED BY <1>1, <2>2, <2>3 DEF Saved
<1>8. mem' = [a \in Addr |-> mem'[a]] /\ gpr' = [r \in Gpr |-> gpr'[r]]
  BY <1>1 DEF Saved
<1>9. Others'
  BY <1>1, <1>7, OthersKept
<1>10. QED BY <1>1, <1>4, <1>6, <1>8, <1>9 DEF AmInv, AmType, Created, AtHandler

LEMMA HandlerStep == ASSUME AmInv, am_irq_handle PROVE AmInv'
<1> DEFINE c == gpr["a0"]
<1>1. PICK t \in Thread :
        /\ handler(c, t)
        /\ gpr' = [r \in Gpr |-> IF r = "a0" THEN cp'[t]
                                 ELSE IF r \in CallerSaved THEN Junk ELSE gpr[r]]
  BY DEF am_irq_handle
<1>2. /\ pc = irq_handle /\ pc' = trap_return
      /\ mem' = [a \in Addr |-> CASE a = c + OFFSET_EPC -> ReturnPc(c)
                                  [] a \in sp - HandlerWords .. sp - 1 -> Junk
                                  [] OTHER -> mem[a]]
      /\ UNCHANGED <<sp, mtvec>>
  BY DEF am_irq_handle
<1>3. AtHandler /\ current \in Thread /\ c = sp
  BY <1>2, Sizes, Running DEF AmInv, InProgram, AtTrap, AtReturn, AtHandler, __am_asm_trap,
       irq_handle, trap_return
<1>4. c \in Int /\ FrameIn(mem, current, c)
  BY <1>3 DEF AtHandler, FrameIn
<1>5. /\ t \in Created /\ current' = t
      /\ cp' = [u \in DOMAIN cp \cup {current} |-> IF u = current THEN c ELSE cp[u]]
  BY <1>1 DEF handler
<1>6. ReturnPc(c) \in 0 .. CodeLen
  BY <1>3, <1>4, Sizes DEF ReturnPc, AtHandler, FrameIn
<1> HIDE DEF c
<1>7. FrameIn(mem', current, c)
  <2>1. c + OFFSET_EPC \in Addr /\ c + OFFSET_STATUS \in Addr
    BY <1>3, <1>4, FrameWords DEF FrameIn
  <2>2. c + OFFSET_STATUS # c + OFFSET_EPC /\ c + OFFSET_STATUS \notin c - HandlerWords .. c - 1
    BY <1>4, Sizes
  <2>3. mem'[c + OFFSET_EPC] = ReturnPc(c) /\ mem'[c + OFFSET_STATUS] = mem[c + OFFSET_STATUS]
    <3>1. c + OFFSET_EPC \notin sp - HandlerWords .. sp - 1
      BY <1>3, <1>4, Sizes
    <3>2. mem'[c + OFFSET_EPC] = ReturnPc(c)
      BY <1>2, <2>1, <3>1
    <3>3. c + OFFSET_STATUS \notin sp - HandlerWords .. sp - 1
      BY <1>3, <2>2
    <3>4. mem'[c + OFFSET_STATUS] = mem[c + OFFSET_STATUS]
      BY <1>2, <2>1, <2>2, <3>3
    <3>5. QED BY <3>2, <3>4
  <2>4. QED BY <1>4, <1>6, <2>3 DEF FrameIn
<1>8. \A a \in Addr : a \notin Stack(current) => mem'[a] = mem[a]
  <2> SUFFICES ASSUME NEW a \in Addr, a \notin Stack(current) PROVE mem'[a] = mem[a]
    OBVIOUS
  <2>1. a # c + OFFSET_EPC /\ a \notin c - HandlerWords .. c - 1
    BY <1>3, <1>4, FrameWords DEF FrameIn
  <2>2. QED BY <1>2, <1>3, <2>1
<1>9. \A u \in DOMAIN cp' : u \in Thread /\ FrameIn(mem', u, cp'[u])
  <2> SUFFICES ASSUME NEW u \in DOMAIN cp' PROVE u \in Thread /\ FrameIn(mem', u, cp'[u])
    OBVIOUS
  <2>1. CASE u = current
    BY <1>3, <1>5, <1>7, <2>1
  <2>2. CASE u # current
    <3>1. u \in DOMAIN cp /\ cp'[u] = cp[u] /\ u \in Thread
      BY <1>5, <2>2 DEF AmInv, AmType
    <3>2. FrameIn(mem, u, cp[u])
      BY <2>2, <3>1 DEF AmInv, Others
    <3>3. QED BY <1>3, <1>8, <2>2, <3>1, <3>2, FrameKept
  <2>3. QED BY <2>1, <2>2
<1>10. DOMAIN cp' = DOMAIN cp \cup {current}
  BY <1>5
<1>11. t \in DOMAIN cp'
  BY <1>5, <1>10 DEF AmInv, AmType, Created
<1>12. AtReturn'
  <2>1. gpr'["a0"] = cp'[t]
    BY <1>1, ContextAssumption
  <2>2. QED BY <1>2, <1>5, <1>9, <1>11, <2>1 DEF AtReturn, trap_return
<1>13. AmType'
  <2>1. mem' = [a \in Addr |-> mem'[a]] /\ gpr' = [r \in Gpr |-> gpr'[r]]
    BY <1>1, <1>2
  <2>2. current' \in Created' /\ DOMAIN cp' \subseteq Thread /\ Boot \in DOMAIN cp'
    BY <1>5, <1>9, <1>10, <1>11 DEF AmInv, AmType, Created
  <2>3. QED BY <1>2, <2>1, <2>2 DEF AmInv, AmType, __am_asm_trap
<1>14. Others'
  BY <1>9 DEF Others
<1>15. QED BY <1>12, <1>13, <1>14 DEF AmInv

LEMMA RestoreStep == ASSUME AmInv, trap_restore PROVE AmInv'
<1> DEFINE c == gpr["a0"]
<1>1. /\ pc = trap_return /\ pc' = mem[c + OFFSET_EPC] /\ mstatus' = mem[c + OFFSET_STATUS]
      /\ gpr' = [r \in Gpr |-> mem[c + Offset(r)]] /\ sp' = c + CONTEXT_SIZE
      /\ UNCHANGED <<mtvec, mem, current, cp>>
  BY DEF trap_restore
<1>2. AtReturn /\ current \in Thread /\ FrameIn(mem, current, c)
  BY <1>1, Sizes, Running DEF AmInv, InProgram, AtTrap, AtReturn, AtHandler, __am_asm_trap,
       irq_handle, trap_return
<1> HIDE DEF c
<1>3. InProgram'
  BY <1>1, <1>2, Stacks, Sizes DEF FrameIn, InProgram, SpInStack
<1>4. gpr' = [r \in Gpr |-> gpr'[r]]
  BY <1>1
<1>5. AmType' /\ Others'
  BY <1>1, <1>4 DEF AmInv, AmType, Others, Created
<1>6. QED BY <1>3, <1>5 DEF AmInv

LEMMA AmInvNext == AmInv /\ [Next]_vars => AmInv'
<1> SUFFICES ASSUME AmInv, [Next]_vars PROVE AmInv'
  OBVIOUS
<1>1. CASE UNCHANGED vars
  BY <1>1 DEF vars, AmInv, AmType, Others, Created, InProgram, AtTrap, AtHandler, AtReturn, SpInStack
<1>2. QED BY <1>1, ProgramSteps, CreateStep, YieldStep, SaveStep, HandlerStep, RestoreStep DEF Next

\* A saved context lies in the stack of its thread, with room for the next trap
\* below it, and threads run with the mstatus of machine mode, for any threads,
\* registers, values and sizes of stacks (kcontext, trap.S, __am_irq_handle).
THEOREM ContextsAreApart == Spec => []ContextInOwnStack
<1>1. AmInv => ContextInOwnStack
  <2> SUFFICES ASSUME AmInv PROVE ContextInOwnStack
    OBVIOUS
  <2>1. InThread => mstatus = MachineMode
    BY Sizes DEF AmInv, InThread, InProgram, AtTrap, AtHandler, AtReturn, __am_asm_trap,
         irq_handle, trap_return
  <2>2. ASSUME NEW t \in DOMAIN cp, t # current
        PROVE  cp[t] - HandlerWords >= StackStart[t] /\ cp[t] + CONTEXT_SIZE <= StackTop(t)
    <3>1. FrameIn(mem, t, cp[t]) /\ t \in Thread
      BY <2>2 DEF AmInv, AmType, Others
    <3>2. QED BY <3>1, Stacks, Sizes DEF FrameIn
  <2>3. QED BY <2>1, <2>2 DEF ContextInOwnStack
<1>2. QED BY <1>1, AmInvInit, AmInvNext, PTL DEF Spec

-----------------------------------------------------------------------------
(* The threads of module Threads.                                          *)

\* The stack and the saved context of a thread in the memory m.
StackIn(m, t, s) == [i \in 1 .. StackTop(t) - s |-> m[StackTop(t) - i]]
ContextIn(m, t, c) ==
  [pc |-> m[c + OFFSET_EPC], gpr |-> [r \in Gpr |-> m[c + Offset(r)]],
   stack |-> StackIn(m, t, c + CONTEXT_SIZE)]
OnCpu(at, g, s) == [pc |-> at, gpr |-> g, stack |-> s]

\* The cause the handler looks at is the one of the yield.
Cause == /\ pc = __am_asm_trap => mcause = YieldCause
         /\ pc = irq_handle => mem[sp + OFFSET_CAUSE] = YieldCause

LEMMA CauseNext == AmInv /\ Cause /\ [Next]_vars => Cause'
<1> SUFFICES ASSUME AmInv, Cause, [Next]_vars PROVE Cause'
  OBVIOUS
<1>1. CASE UNCHANGED vars
  BY <1>1 DEF vars, Cause
<1>2. CASE \/ \E r \in Gpr, v \in Value : Compute(r, v)
           \/ \E r \in Gpr : Push(r) \/ Pop(r)
           \/ Jump \/ cte_init
           \/ \E t \in Thread, entry \in 0 .. CodeLen, arg \in Value : kcontext(t, entry, arg)
  <2>1. pc' \in 0 .. CodeLen
    <3>1. CASE \E t \in Thread, entry \in 0 .. CodeLen, arg \in Value : kcontext(t, entry, arg)
      BY <3>1 DEF kcontext, InThread
    <3>2. CASE cte_init
      BY <3>2 DEF cte_init, InThread
    <3>3. CASE \/ \E r \in Gpr, v \in Value : Compute(r, v)
               \/ \E r \in Gpr : Push(r) \/ Pop(r)
               \/ Jump
      BY <3>3, Sizes DEF Compute, Push, Pop, Jump
    <3>4. QED BY <1>2, <3>1, <3>2, <3>3
  <2>2. QED BY <2>1, Sizes DEF Cause, __am_asm_trap, irq_handle
<1>3. CASE yield
  BY <1>3, Sizes DEF yield, AmInv, AmType, Cause, __am_asm_trap, irq_handle
<1>4. CASE trap_save
  <2> DEFINE c == sp - CONTEXT_SIZE
  <2>1. /\ pc = __am_asm_trap /\ pc' = irq_handle /\ sp' = c /\ mem' = Saved(c) /\ UNCHANGED mcause
    BY <1>4 DEF trap_save
  <2>2. AtTrap /\ current \in Thread
    BY <2>1, Sizes, Running DEF AmInv, InProgram, AtHandler, AtReturn, __am_asm_trap, irq_handle,
         trap_return
  <2>3. c \in Int /\ StackStart[current] + HandlerWords <= c /\ c + CONTEXT_SIZE <= StackTop(current)
    BY <2>2, Stacks, Sizes DEF AtTrap, SpInStack
  <2> HIDE DEF c
  <2>4. c + OFFSET_CAUSE \in Addr
    BY <2>2, <2>3, FrameWords, Sizes
  <2>5. \A r \in Gpr : c + OFFSET_CAUSE # c + Offset(r)
    BY <2>3, OffsetIs, Sizes
  <2>6. c + OFFSET_CAUSE # c + OFFSET_STATUS /\ c + OFFSET_CAUSE # c + OFFSET_EPC
    BY <2>3, Sizes
  <2>7. mem'[c + OFFSET_CAUSE] = mcause
    BY <2>1, <2>4, <2>5, <2>6 DEF Saved
  <2>8. QED BY <2>1, <2>7 DEF Cause, __am_asm_trap, irq_handle
<1>5. CASE am_irq_handle
  BY <1>5, Sizes DEF am_irq_handle, Cause, __am_asm_trap, irq_handle, trap_return
<1>6. CASE trap_restore
  <2>1. pc = trap_return /\ pc' = mem[gpr["a0"] + OFFSET_EPC]
    BY <1>6 DEF trap_restore
  <2>2. AtReturn
    BY <2>1, Sizes DEF AmInv, InProgram, AtTrap, AtHandler, __am_asm_trap, irq_handle, trap_return
  <2>3. pc' \in 0 .. CodeLen
    BY <2>1, <2>2 DEF AtReturn, FrameIn
  <2>4. QED BY <2>3, Sizes DEF Cause, __am_asm_trap, irq_handle
<1>7. QED BY <1>1, <1>2, <1>3, <1>4, <1>5, <1>6 DEF Next

-----------------------------------------------------------------------------
WordsOf(m, t) == {m[a] : a \in Stack(t)}

\* A stack is a sequence of words of the memory.
LEMMA StackIsSeq ==
  ASSUME NEW m, NEW t \in Thread, NEW s \in Int, StackStart[t] <= s, s <= StackTop(t)
  PROVE  /\ StackIn(m, t, s) \in Seq(WordsOf(m, t))
         /\ Len(StackIn(m, t, s)) = StackTop(t) - s
         /\ \A i \in 1 .. StackTop(t) - s : StackIn(m, t, s)[i] = m[StackTop(t) - i]
<1>1. StackTop(t) - s \in Nat /\ StackTop(t) \in Int
  BY Stacks
<1>2. \A i \in 1 .. StackTop(t) - s : StackTop(t) - i \in Stack(t)
  BY <1>1, Stacks DEF Stack
<1>3. StackIn(m, t, s) \in [1 .. StackTop(t) - s -> WordsOf(m, t)]
  BY <1>2 DEF StackIn, WordsOf
<1>4. \A i \in 1 .. StackTop(t) - s : StackIn(m, t, s)[i] = m[StackTop(t) - i]
  BY DEF StackIn
<1>5. StackIn(m, t, s) \in Seq(WordsOf(m, t)) /\ Len(StackIn(m, t, s)) = StackTop(t) - s
  BY <1>1, <1>3
<1>6. QED BY <1>4, <1>5

\* The words above the stack pointer make the stack.
LEMMA StackSame ==
  ASSUME NEW m, NEW n, NEW t \in Thread, NEW s \in Int, StackStart[t] <= s, s <= StackTop(t),
         \A a \in Stack(t) : a >= s => n[a] = m[a]
  PROVE  StackIn(n, t, s) = StackIn(m, t, s)
<1>1. \A i \in 1 .. StackTop(t) - s : StackTop(t) - i \in Stack(t) /\ StackTop(t) - i >= s
  BY Stacks DEF Stack
<1>2. QED BY <1>1 DEF StackIn

\* The words from its beginning on make the context.
LEMMA ContextSame ==
  ASSUME NEW m, NEW n, NEW t \in Thread, NEW c \in Int, StackStart[t] + HandlerWords <= c,
         c + CONTEXT_SIZE <= StackTop(t), \A a \in Stack(t) : a >= c => n[a] = m[a]
  PROVE  ContextIn(n, t, c) = ContextIn(m, t, c)
<1>1. \A k \in 0 .. CONTEXT_SIZE - 1 : c + k \in Stack(t) /\ c + k >= c
  BY FrameWords
<1>2. \A k \in 0 .. CONTEXT_SIZE - 1 : n[c + k] = m[c + k]
  BY <1>1
<1>3. n[c + OFFSET_EPC] = m[c + OFFSET_EPC]
  BY <1>2, Sizes
<1>4. \A r \in Gpr : n[c + Offset(r)] = m[c + Offset(r)]
  BY <1>2, OffsetIs, Sizes
<1>5. StackIn(n, t, c + CONTEXT_SIZE) = StackIn(m, t, c + CONTEXT_SIZE)
  <2>1. c + CONTEXT_SIZE \in Int /\ StackStart[t] <= c + CONTEXT_SIZE /\ c + CONTEXT_SIZE >= c
    BY Sizes, Stacks
  <2>2. \A a \in Stack(t) : a >= c + CONTEXT_SIZE => a >= c
    BY <2>1, Stacks, Sizes DEF Stack
  <2>3. QED BY <2>1, <2>2, StackSame
<1>6. QED BY <1>3, <1>4, <1>5 DEF ContextIn

\* Where the contexts are.
Where ==
  /\ \A t \in Created : t # current => ContextOf(t) = ContextIn(mem, t, cp[t])
  /\ InProgram => ContextOf(current) = OnCpu(pc, gpr, StackIn(mem, current, sp))
  /\ AtTrap => ContextOf(current) = OnCpu(mepc, gpr, StackIn(mem, current, sp))
  /\ AtHandler => ContextOf(current) = ContextIn(mem, current, gpr["a0"])
  /\ AtReturn => ContextOf(current) = ContextIn(mem, current, cp[current])

LEMMA WhereContexts == AmInv => Where
BY Sizes DEF Where, ContextOf, ContextIn, OnCpu, InMemory, OnProcessor, StackFrom, StackIn,
     InProgram, AtTrap, AtHandler, AtReturn, __am_asm_trap, irq_handle, trap_return

LEMMA WhereNext == AmInv' => Where'
BY WhereContexts, PTL

\* The contexts of the threads that do not run, in a step that writes at most to
\* the stack of u.
LEMMA OthersSame ==
  ASSUME AmInv, NEW u \in Thread, NEW t \in DOMAIN cp, t # u, t # current,
         \A a \in Addr : a \notin Stack(u) => mem'[a] = mem[a]
  PROVE  ContextIn(mem', t, cp[t]) = ContextIn(mem, t, cp[t])
<1>1. t \in Thread /\ FrameIn(mem, t, cp[t])
  BY DEF AmInv, AmType, Others
<1>2. \A a \in Stack(t) : mem'[a] = mem[a]
  BY <1>1, Stacks
<1>3. QED BY <1>1, <1>2, ContextSame DEF FrameIn

\* A step in which no other thread is chosen: its effect on the threads is the
\* one on the context of the thread that runs.
LEMMA OnlyCurrent ==
  ASSUME AmInv, AmInv', UNCHANGED <<current, cp>>,
         \A a \in Addr : a \notin Stack(current) => mem'[a] = mem[a]
  PROVE  ctxBar' = [ctxBar EXCEPT ![current] = ContextOf(current)']
<1>1. Created' = Created /\ current \in Created /\ current \in Thread
  BY Running DEF Created, AmInv, AmType
<1>2. ASSUME NEW t \in Created, t # current PROVE ContextOf(t)' = ContextOf(t)
  <2>1. t \in DOMAIN cp
    BY <1>2 DEF Created, AmInv, AmType
  <2>2. ContextOf(t) = ContextIn(mem, t, cp[t])
    BY <1>2, WhereContexts DEF Where
  <2>3. ContextOf(t)' = ContextIn(mem', t, cp[t])
    <3>1. ContextOf(t)' = ContextIn(mem', t, cp'[t])
      BY <1>1, <1>2, WhereNext DEF Where
    <3>2. QED BY <3>1
  <2>4. QED BY <1>1, <1>2, <2>1, <2>2, <2>3, OthersSame
<1>3. QED BY <1>1, <1>2 DEF ctxBar

LEMMA IsAppend ==
  ASSUME NEW S, NEW s \in Seq(S), NEW R, NEW n \in Seq(R), NEW v, Len(n) = Len(s) + 1,
         \A i \in 1 .. Len(s) : n[i] = s[i], n[Len(s) + 1] = v
  PROVE  n = Append(s, v)
OBVIOUS

LEMMA IsFront ==
  ASSUME NEW S, NEW s \in Seq(S), NEW R, NEW n \in Seq(R), Len(s) > 0, Len(n) = Len(s) - 1,
         \A i \in 1 .. Len(s) - 1 : n[i] = s[i]
  PROVE  n = SubSeq(s, 1, Len(s) - 1)
OBVIOUS

\* What an instruction of a thread does to its context.
WithReg(c, r, v)     == [c EXCEPT !.pc = @ + 1, !.gpr[r] = v]
WithStack(c, w)      == [c EXCEPT !.pc = @ + 1, !.stack = w]
WithBoth(c, r, v, w) == [c EXCEPT !.pc = @ + 1, !.gpr[r] = v, !.stack = w]

LEMMA Parts ==
  ASSUME NEW p, NEW g, NEW s
  PROVE  OnCpu(p, g, s).pc = p /\ OnCpu(p, g, s).gpr = g /\ OnCpu(p, g, s).stack = s
BY DEF OnCpu

LEMMA MovedReg ==
  ASSUME NEW p, NEW g, NEW s, NEW r, NEW v
  PROVE  WithReg(OnCpu(p, g, s), r, v) = OnCpu(p + 1, [g EXCEPT ![r] = v], s)
<1> DEFINE c == OnCpu(p, g, s)
           d == OnCpu(p + 1, g, s)
<1>1. c.pc = p /\ c.gpr = g
  BY Parts
<1>2. [c EXCEPT !.pc = @ + 1] = d
  BY <1>1 DEF OnCpu
<1>3. [d EXCEPT !.gpr = [g EXCEPT ![r] = v]] = OnCpu(p + 1, [g EXCEPT ![r] = v], s)
  BY DEF OnCpu
<1> HIDE DEF c, d
<1>4. WithReg(c, r, v) = [[c EXCEPT !.pc = @ + 1] EXCEPT !.gpr = [g EXCEPT ![r] = v]]
  BY <1>1 DEF WithReg
<1>5. QED BY <1>2, <1>3, <1>4 DEF c

LEMMA MovedStack ==
  ASSUME NEW p, NEW g, NEW s, NEW w
  PROVE  WithStack(OnCpu(p, g, s), w) = OnCpu(p + 1, g, w)
<1> DEFINE c == OnCpu(p, g, s)
           d == OnCpu(p + 1, g, s)
<1>1. [c EXCEPT !.pc = @ + 1] = d
  BY DEF OnCpu
<1>2. [d EXCEPT !.stack = w] = OnCpu(p + 1, g, w)
  BY DEF OnCpu
<1> HIDE DEF c, d
<1>3. WithStack(c, w) = [[c EXCEPT !.pc = @ + 1] EXCEPT !.stack = w]
  BY DEF WithStack
<1>4. QED BY <1>1, <1>2, <1>3 DEF c

LEMMA MovedBoth ==
  ASSUME NEW p, NEW g, NEW s, NEW r, NEW v, NEW w
  PROVE  WithBoth(OnCpu(p, g, s), r, v, w) = OnCpu(p + 1, [g EXCEPT ![r] = v], w)
<1> DEFINE c == OnCpu(p, g, s)
           e == OnCpu(p + 1, [g EXCEPT ![r] = v], s)
<1>1. WithReg(c, r, v) = e
  BY MovedReg
<1>2. [e EXCEPT !.stack = w] = OnCpu(p + 1, [g EXCEPT ![r] = v], w)
  BY DEF OnCpu
<1> HIDE DEF c, e
<1>3. WithBoth(c, r, v, w) = [WithReg(c, r, v) EXCEPT !.stack = w]
  BY DEF WithBoth, WithReg
<1>4. QED BY <1>1, <1>2, <1>3 DEF c

\* The thread that runs, as module Threads sees it.
LEMMA ProgramView ==
  ASSUME AmInv, pc \in 0 .. CodeLen
  PROVE  /\ InProgram /\ current \in Thread /\ current \in Created
         /\ ctxBar[current] = OnCpu(pc, gpr, StackIn(mem, current, sp))
<1>1. InProgram
  BY Sizes DEF AmInv, AtTrap, AtHandler, AtReturn, __am_asm_trap, irq_handle, trap_return
<1>2. QED BY <1>1, Running, WhereContexts DEF AmInv, AmType, Where, ctxBar

\* The thread that runs, after a step of its program.
LEMMA ProgramStep ==
  ASSUME AmInv, AmInv', pc' \in 0 .. CodeLen, UNCHANGED <<current, cp>>,
         \A a \in Addr : a \notin Stack(current) => mem'[a] = mem[a]
  PROVE  ctxBar' = [ctxBar EXCEPT ![current] =
                      OnCpu(pc', gpr', StackIn(mem', current, sp'))]
<1>1. InProgram'
  BY Sizes DEF AmInv, InProgram, AtTrap, AtHandler, AtReturn, __am_asm_trap, irq_handle, trap_return
<1>2. ContextOf(current)' = OnCpu(pc', gpr', StackIn(mem', current, sp'))
  BY <1>1, WhereNext DEF Where
<1>3. QED BY <1>2, OnlyCurrent

LEMMA ComputeRefines ==
  ASSUME AmInv, AmInv', NEW r \in Gpr, NEW v \in Value, Compute(r, v)
  PROVE  T!Compute(r, v)
<1>1. /\ pc \in 0 .. CodeLen - 1 /\ pc' = pc + 1 /\ gpr' = [gpr EXCEPT ![r] = v]
      /\ UNCHANGED <<sp, mem, current, cp>>
  BY DEF Compute
<1>2. pc \in 0 .. CodeLen /\ pc' \in 0 .. CodeLen
  BY <1>1, Sizes
<1> DEFINE s == StackIn(mem, current, sp)
<1>3. ctxBar[current] = OnCpu(pc, gpr, s)
  BY <1>2, ProgramView
<1>4. ctxBar' = [ctxBar EXCEPT ![current] = OnCpu(pc', gpr', s)]
  BY <1>1, <1>2, ProgramStep
<1> HIDE DEF s
<1>5. WithReg(ctxBar[current], r, v) = OnCpu(pc', gpr', s)
  <2>1. WithReg(OnCpu(pc, gpr, s), r, v) = OnCpu(pc + 1, [gpr EXCEPT ![r] = v], s)
    BY MovedReg
  <2>2. QED BY <1>1, <1>3, <2>1, Zenon
<1>6. T!Become(WithReg(ctxBar[current], r, v))
  BY <1>4, <1>5 DEF T!Become
<1>7. ctxBar[current].pc < CodeLen
  BY <1>1, <1>3, Parts, Sizes
<1>8. Created' = Created
  BY <1>1 DEF Created
<1>9. QED BY <1>1, <1>6, <1>7, <1>8, Zenon DEF T!Compute, WithReg

LEMMA JumpRefines ==
  ASSUME AmInv, AmInv', Jump
  PROVE  T!Jump
<1>1. pc = CodeLen /\ pc' = 0 /\ UNCHANGED <<gpr, sp, mem, current, cp>>
  BY DEF Jump
<1>2. pc \in 0 .. CodeLen /\ pc' \in 0 .. CodeLen
  BY <1>1, Sizes
<1> DEFINE s == StackIn(mem, current, sp)
<1>3. ctxBar[current] = OnCpu(pc, gpr, s)
  BY <1>2, ProgramView
<1>4. ctxBar' = [ctxBar EXCEPT ![current] = OnCpu(0, gpr, s)]
  BY <1>1, <1>2, ProgramStep
<1> HIDE DEF s
<1>5. ctxBar[current].pc = CodeLen /\ [ctxBar[current] EXCEPT !.pc = 0] = OnCpu(0, gpr, s)
  BY <1>1, <1>3 DEF OnCpu
<1>6. Created' = Created
  BY <1>1 DEF Created
<1>7. QED BY <1>1, <1>4, <1>5, <1>6 DEF T!Jump

LEMMA PushRefines ==
  ASSUME AmInv, AmInv', NEW r \in Gpr, Push(r)
  PROVE  T!Push(r)
<1>1. /\ pc \in 0 .. CodeLen - 1 /\ pc' = pc + 1 /\ sp' = sp - 1
      /\ mem' = [mem EXCEPT ![sp - 1] = gpr[r]]
      /\ UNCHANGED <<gpr, current, cp>> /\ sp - 1 - Room >= StackStart[current]
  BY DEF Push
<1>2. pc \in 0 .. CodeLen /\ pc' \in 0 .. CodeLen
  BY <1>1, Sizes
<1> DEFINE top == StackTop(current)
           s == StackIn(mem, current, sp)
           n == StackIn(mem', current, sp - 1)
<1>3. ctxBar[current] = OnCpu(pc, gpr, s) /\ InProgram /\ current \in Thread
  BY <1>2, ProgramView
<1>4. /\ sp \in Int /\ top \in Int /\ sp <= top /\ sp - 1 <= top
      /\ StackStart[current] <= sp - 1 /\ StackStart[current] <= sp /\ sp - 1 \in Stack(current)
  BY <1>1, <1>3, Stacks, Sizes DEF InProgram, SpInStack, Stack
<1>5. \A a \in Addr : a # sp - 1 => mem'[a] = mem[a]
  BY <1>1 DEF AmInv, AmType
<1>6. mem'[sp - 1] = gpr[r]
  BY <1>1, <1>3, <1>4, Stacks DEF AmInv, AmType
<1>7. ctxBar' = [ctxBar EXCEPT ![current] = OnCpu(pc', gpr, n)]
  BY <1>1, <1>2, <1>4, <1>5, ProgramStep
<1>8. /\ s \in Seq(WordsOf(mem, current)) /\ Len(s) = top - sp
      /\ \A i \in 1 .. top - sp : s[i] = mem[top - i]
  BY <1>3, <1>4, StackIsSeq
<1>9. /\ n \in Seq(WordsOf(mem', current)) /\ Len(n) = top - (sp - 1)
      /\ \A i \in 1 .. top - (sp - 1) : n[i] = mem'[top - i]
  <2> DEFINE m == mem'
             low == sp - 1
  <2>1. low \in Int /\ StackStart[current] <= low /\ low <= StackTop(current)
    BY <1>4
  <2> HIDE DEF low
  <2>2. /\ StackIn(m, current, low) \in Seq(WordsOf(m, current))
        /\ Len(StackIn(m, current, low)) = StackTop(current) - low
        /\ \A i \in 1 .. StackTop(current) - low : StackIn(m, current, low)[i] = m[StackTop(current) - i]
    BY <1>3, <2>1, StackIsSeq
  <2>3. QED BY <2>2 DEF low
<1> HIDE DEF s, n
<1>10. n = Append(s, gpr[r])
  <2>1. ASSUME NEW i \in 1 .. top - sp PROVE n[i] = s[i]
    <3>1. top - i \in Stack(current) /\ top - i # sp - 1
      BY <1>3, <1>4, Stacks DEF Stack
    <3>2. top - i \in Addr
      BY <1>3, <3>1, Stacks
    <3>3. i \in 1 .. top - (sp - 1)
      BY <1>4
    <3>4. QED BY <1>5, <1>8, <1>9, <3>1, <3>2, <3>3
  <2>2. n[Len(s) + 1] = gpr[r]
    <3>1. Len(s) + 1 \in 1 .. top - (sp - 1) /\ top - (Len(s) + 1) = sp - 1
      BY <1>4, <1>8
    <3>2. QED BY <1>6, <1>9, <3>1
  <2>3. Len(n) = Len(s) + 1
    BY <1>4, <1>8, <1>9
  <2>4. QED BY <1>8, <1>9, <2>1, <2>2, <2>3, IsAppend
<1>11. /\ ctxBar[current].gpr = gpr /\ ctxBar[current].stack = s /\ ctxBar[current].pc = pc
       /\ WithStack(ctxBar[current], n) = OnCpu(pc', gpr, n)
  BY <1>1, <1>3, Parts, MovedStack
<1>12. T!Become(WithStack(ctxBar[current], Append(ctxBar[current].stack, ctxBar[current].gpr[r])))
  BY <1>7, <1>10, <1>11 DEF T!Become
<1>13. ctxBar[current].pc < CodeLen
  BY <1>1, <1>11, Sizes
<1>14. Created' = Created
  BY <1>1 DEF Created
<1>15. QED BY <1>1, <1>12, <1>13, <1>14, Zenon DEF T!Push, WithStack

LEMMA PopRefines ==
  ASSUME AmInv, AmInv', NEW r \in Gpr, Pop(r)
  PROVE  T!Pop(r)
<1>1. /\ pc \in 0 .. CodeLen - 1 /\ pc' = pc + 1 /\ sp' = sp + 1 /\ sp < StackTop(current)
      /\ gpr' = [gpr EXCEPT ![r] = mem[sp]] /\ UNCHANGED <<mem, current, cp>>
  BY DEF Pop
<1>2. pc \in 0 .. CodeLen /\ pc' \in 0 .. CodeLen
  BY <1>1, Sizes
<1> DEFINE top == StackTop(current)
           s == StackIn(mem, current, sp)
           n == StackIn(mem, current, sp + 1)
<1>3. ctxBar[current] = OnCpu(pc, gpr, s) /\ InProgram /\ current \in Thread
  BY <1>2, ProgramView
<1>4. /\ sp \in Int /\ top \in Int /\ sp <= top /\ sp + 1 <= top
      /\ StackStart[current] <= sp /\ StackStart[current] <= sp + 1
  BY <1>1, <1>3, Stacks, Sizes DEF InProgram, SpInStack, Stack
<1>5. ctxBar' = [ctxBar EXCEPT ![current] = OnCpu(pc', gpr', n)]
  BY <1>1, <1>2, ProgramStep
<1>6. /\ s \in Seq(WordsOf(mem, current)) /\ Len(s) = top - sp
      /\ \A i \in 1 .. top - sp : s[i] = mem[top - i]
  BY <1>3, <1>4, StackIsSeq
<1>7. /\ n \in Seq(WordsOf(mem, current)) /\ Len(n) = top - (sp + 1)
      /\ \A i \in 1 .. top - (sp + 1) : n[i] = mem[top - i]
  BY <1>3, <1>4, StackIsSeq
<1> HIDE DEF s, n
<1>8. Len(s) > 0 /\ s[Len(s)] = mem[sp]
  <2>1. top - sp \in 1 .. top - sp /\ top - (top - sp) = sp
    BY <1>1, <1>4
  <2>2. QED BY <1>1, <1>4, <1>6, <2>1
<1>9. n = SubSeq(s, 1, Len(s) - 1)
  <2>1. \A i \in 1 .. Len(s) - 1 : i \in 1 .. top - sp /\ i \in 1 .. top - (sp + 1)
    BY <1>4, <1>6
  <2>2. \A i \in 1 .. Len(s) - 1 : n[i] = s[i]
    BY <1>6, <1>7, <2>1
  <2>3. Len(n) = Len(s) - 1
    BY <1>4, <1>6, <1>7
  <2>4. QED BY <1>6, <1>7, <1>8, <2>2, <2>3, IsFront
<1>10. ctxBar[current].gpr = gpr /\ ctxBar[current].stack = s /\ ctxBar[current].pc = pc
  BY <1>3, Parts
<1>11. WithBoth(ctxBar[current], r, mem[sp], n) = OnCpu(pc', gpr', n)
  <2>1. WithBoth(OnCpu(pc, gpr, s), r, mem[sp], n) = OnCpu(pc + 1, [gpr EXCEPT ![r] = mem[sp]], n)
    BY MovedBoth
  <2>2. QED BY <1>1, <1>3, <2>1, Zenon
<1> DEFINE b == ctxBar[current]
<1>12. T!Become(WithBoth(b, r, b.stack[Len(b.stack)], SubSeq(b.stack, 1, Len(b.stack) - 1)))
  <2>1. b.stack[Len(b.stack)] = mem[sp] /\ SubSeq(b.stack, 1, Len(b.stack) - 1) = n
    BY <1>8, <1>9, <1>10, Zenon
  <2>2. T!Become(WithBoth(b, r, mem[sp], n))
    BY <1>5, <1>11 DEF T!Become
  <2>3. QED BY <2>1, <2>2, Zenon
<1>13. b.pc < CodeLen /\ Len(b.stack) > 0
  BY <1>1, <1>8, <1>10, Sizes
<1>14. Created' = Created
  BY <1>1 DEF Created
<1>15. QED BY <1>1, <1>12, <1>13, <1>14, Zenon DEF T!Pop, WithBoth

-----------------------------------------------------------------------------
\* What the abstract threads see of the other steps.
Unseen == UNCHANGED <<current, Created, ctxBar>>

LEMMA InitRefines == Init => T!Init
<1> SUFFICES ASSUME Init PROVE T!Init
  OBVIOUS
<1>1. AmInv /\ current = Boot /\ Created = {Boot} /\ pc = 0 /\ pc \in 0 .. CodeLen
      /\ sp = StackTop(Boot) /\ gpr = [r \in Gpr |-> 0] /\ Boot \in Thread
  BY AmInvInit, Sizes, ContextAssumption DEF Init, Created
<1>2. ctxBar[Boot] = OnCpu(0, gpr, StackIn(mem, Boot, StackTop(Boot)))
  BY <1>1, ProgramView
<1>3. StackIn(mem, Boot, StackTop(Boot)) = <<>>
  <2>1. StackTop(Boot) \in Int /\ StackStart[Boot] <= StackTop(Boot)
    BY <1>1, Stacks, Sizes
  <2>2. /\ StackIn(mem, Boot, StackTop(Boot)) \in Seq(WordsOf(mem, Boot))
        /\ Len(StackIn(mem, Boot, StackTop(Boot))) = StackTop(Boot) - StackTop(Boot)
    BY <1>1, <2>1, StackIsSeq
  <2>3. QED BY <2>1, <2>2
<1>4. T!Start(0, 0) = OnCpu(0, gpr, <<>>)
  BY <1>1 DEF T!Start, OnCpu
<1>5. ctxBar = [t \in {Boot} |-> ctxBar[t]]
  BY <1>1 DEF ctxBar
<1>6. ctxBar = [t \in {Boot} |-> T!Start(0, 0)]
  BY <1>2, <1>3, <1>4, <1>5
<1>7. QED BY <1>1, <1>6 DEF T!Init

LEMMA RegisterSeen ==
  ASSUME AmInv, AmInv', cte_init
  PROVE  Unseen
<1>1. pc \in 0 .. CodeLen /\ UNCHANGED <<pc, gpr, sp, mem, current, cp>>
  BY DEF cte_init, InThread
<1>2. ctxBar[current] = OnCpu(pc, gpr, StackIn(mem, current, sp))
  BY <1>1, ProgramView
<1>3. ctxBar' = [ctxBar EXCEPT ![current] = OnCpu(pc, gpr, StackIn(mem, current, sp))]
  BY <1>1, ProgramStep
<1>4. ctxBar' = ctxBar
  BY <1>2, <1>3 DEF ctxBar
<1>5. QED BY <1>1, <1>4 DEF Unseen, Created

\* A step after which the running thread has the context it had.
LEMMA CurrentSeen ==
  ASSUME AmInv, AmInv', UNCHANGED <<current, cp>>, ContextOf(current)' = ContextOf(current),
         \A a \in Addr : a \notin Stack(current) => mem'[a] = mem[a]
  PROVE  Unseen
<1>1. ctxBar' = [ctxBar EXCEPT ![current] = ContextOf(current)]
  BY OnlyCurrent
<1>2. ctxBar[current] = ContextOf(current)
  BY DEF ctxBar, AmInv, AmType
<1>3. ctxBar' = ctxBar
  BY <1>1, <1>2 DEF ctxBar
<1>4. QED BY <1>3 DEF Unseen, Created

LEMMA YieldSeen ==
  ASSUME AmInv, AmInv', yield
  PROVE  Unseen
<1>1. /\ pc \in 0 .. CodeLen - 1 /\ mepc' = pc /\ pc' = __am_asm_trap
      /\ UNCHANGED <<sp, gpr, mem, current, cp>>
  BY DEF yield, AmInv, AmType
<1>2. InProgram /\ pc \in 0 .. CodeLen
  BY <1>1, Sizes, ProgramView
<1>3. AtTrap'
  BY <1>1, Sizes DEF AmInv, InProgram, AtTrap, AtHandler, AtReturn, __am_asm_trap, irq_handle,
       trap_return
<1>4. ContextOf(current) = OnCpu(pc, gpr, StackIn(mem, current, sp))
  BY <1>2, WhereContexts DEF Where
<1>5. ContextOf(current)' = OnCpu(pc, gpr, StackIn(mem, current, sp))
  BY <1>1, <1>3, WhereNext DEF Where
<1>6. QED BY <1>1, <1>4, <1>5, CurrentSeen

\* The frame that trap.S writes holds the context of the thread.
LEMMA SaveSeen ==
  ASSUME AmInv, AmInv', trap_save
  PROVE  Unseen
<1> DEFINE c == sp - CONTEXT_SIZE
<1>1. /\ pc = __am_asm_trap /\ pc' = irq_handle /\ sp' = c /\ mem' = Saved(c)
      /\ gpr' = [r \in Gpr |-> CASE r = "a0" -> c [] r = "t0" -> mcause [] OTHER -> gpr[r]]
      /\ UNCHANGED <<current, cp>>
  BY DEF trap_save
<1>2. AtTrap /\ current \in Thread
  BY <1>1, Sizes, Running DEF AmInv, InProgram, AtHandler, AtReturn, __am_asm_trap, irq_handle,
       trap_return
<1>3. /\ c \in Int /\ StackStart[current] + HandlerWords <= c
      /\ c + CONTEXT_SIZE <= StackTop(current) /\ c + CONTEXT_SIZE = sp
  BY <1>2, Stacks, Sizes DEF AtTrap, SpInStack
<1>4. gpr'["a0"] = c
  BY <1>1, ContextAssumption
<1> HIDE DEF c
<1>5. AtHandler'
  BY <1>1, Sizes DEF AmInv, InProgram, AtTrap, AtHandler, AtReturn, __am_asm_trap, irq_handle,
       trap_return
<1>6. \A k \in 0 .. CONTEXT_SIZE - 1 : c + k \in Addr
  BY <1>2, <1>3, FrameWords
<1>7. \A r \in Gpr : Offset(r) \in 0 .. NR_REGS - 1 /\ GprSeq[Offset(r) - 1] = r
  BY OffsetNames, Sizes
<1>8. ASSUME NEW r \in Gpr PROVE mem'[c + Offset(r)] = gpr[r]
  <2>1. c + Offset(r) \in Addr
    BY <1>6, <1>7, Sizes
  <2>2. \A q \in Gpr : c + Offset(r) = c + Offset(q) => q = r
    BY <1>3, <1>7, Sizes
  <2>3. (CHOOSE q \in Gpr : c + Offset(r) = c + Offset(q)) = r
    BY <2>2
  <2>4. /\ c + Offset(r) # c + OFFSET_CAUSE /\ c + Offset(r) # c + OFFSET_STATUS
        /\ c + Offset(r) # c + OFFSET_EPC
    BY <1>3, <1>7, Sizes
  <2>5. \E q \in Gpr : c + Offset(r) = c + Offset(q)
    OBVIOUS
  <2>6. QED BY <1>1, <2>1, <2>3, <2>4, <2>5 DEF Saved
<1>9. mem'[c + OFFSET_EPC] = mepc
  <2>1. c + OFFSET_EPC \in Addr
    BY <1>6, Sizes
  <2>2. \A r \in Gpr : c + OFFSET_EPC # c + Offset(r)
    BY <1>3, <1>7, Sizes
  <2>3. c + OFFSET_EPC # c + OFFSET_CAUSE /\ c + OFFSET_EPC # c + OFFSET_STATUS
    BY <1>3, Sizes
  <2>4. QED BY <1>1, <2>1, <2>2, <2>3 DEF Saved
<1>10. \A a \in Addr : a \notin c .. c + CONTEXT_SIZE - 1 => mem'[a] = mem[a]
  <2> SUFFICES ASSUME NEW a \in Addr, a \notin c .. c + CONTEXT_SIZE - 1 PROVE mem'[a] = mem[a]
    OBVIOUS
  <2>1. \A k \in 0 .. CONTEXT_SIZE - 1 : c + k \in c .. c + CONTEXT_SIZE - 1
    BY <1>3, Sizes
  <2>2. \A r \in Gpr : a # c + Offset(r)
    BY <1>7, <2>1, Sizes
  <2>3. a # c + OFFSET_CAUSE /\ a # c + OFFSET_STATUS /\ a # c + OFFSET_EPC
    BY <2>1, Sizes
  <2>4. QED BY <1>1, <2>2, <2>3 DEF Saved
<1>11. StackIn(mem', current, sp) = StackIn(mem, current, sp)
  <2>1. sp \in Int /\ StackStart[current] <= sp /\ sp <= StackTop(current)
    BY <1>2, Stacks, Sizes DEF AtTrap, SpInStack
  <2>2. \A a \in Stack(current) : a >= sp => a \in Addr /\ a \notin c .. c + CONTEXT_SIZE - 1
    BY <1>2, <1>3, <2>1, Stacks, Sizes DEF Stack
  <2>3. QED BY <1>2, <1>10, <2>1, <2>2, StackSame
<1>12. ContextOf(current) = OnCpu(mepc, gpr, StackIn(mem, current, sp))
  BY <1>2, WhereContexts DEF Where
<1>13. ContextOf(current)' = ContextIn(mem', current, c)
  BY <1>1, <1>4, <1>5, WhereNext DEF Where
<1>14. ContextIn(mem', current, c) = OnCpu(mepc, gpr, StackIn(mem, current, sp))
  <2>1. gpr = [r \in Gpr |-> gpr[r]]
    BY DEF AmInv, AmType
  <2>2. [r \in Gpr |-> mem'[c + Offset(r)]] = gpr
    BY <1>8, <2>1
  <2>3. QED BY <1>3, <1>9, <1>11, <2>2 DEF ContextIn, OnCpu
<1>15. \A a \in Addr : a \notin Stack(current) => mem'[a] = mem[a]
  <2>1. \A a \in c .. c + CONTEXT_SIZE - 1 : a \in Stack(current)
    BY <1>2, <1>3, Stacks, Sizes DEF Stack
  <2>2. QED BY <1>10, <2>1
<1>16. QED BY <1>1, <1>12, <1>13, <1>14, <1>15, CurrentSeen

LEMMA RestoreSeen ==
  ASSUME AmInv, AmInv', trap_restore
  PROVE  Unseen
<1> DEFINE c == gpr["a0"]
<1>1. /\ pc = trap_return /\ pc' = mem[c + OFFSET_EPC]
      /\ gpr' = [r \in Gpr |-> mem[c + Offset(r)]] /\ sp' = c + CONTEXT_SIZE
      /\ UNCHANGED <<mem, current, cp>>
  BY DEF trap_restore
<1>2. AtReturn
  BY <1>1, Sizes DEF AmInv, InProgram, AtTrap, AtHandler, __am_asm_trap, irq_handle, trap_return
<1>3. c = cp[current] /\ pc' \in 0 .. CodeLen
  BY <1>1, <1>2 DEF AtReturn, FrameIn
<1>4. InProgram'
  BY <1>3, Sizes DEF AmInv, InProgram, AtTrap, AtHandler, AtReturn, __am_asm_trap, irq_handle,
       trap_return
<1> HIDE DEF c
<1>5. ContextOf(current) = ContextIn(mem, current, c)
  BY <1>2, <1>3, WhereContexts DEF Where
<1>6. ContextOf(current)' = OnCpu(pc', gpr', StackIn(mem', current, sp'))
  BY <1>1, <1>4, WhereNext DEF Where
<1>7. OnCpu(pc', gpr', StackIn(mem', current, sp')) = ContextIn(mem, current, c)
  BY <1>1 DEF OnCpu, ContextIn
<1>8. QED BY <1>1, <1>5, <1>6, <1>7, CurrentSeen

-----------------------------------------------------------------------------
\* kcontext is the creation of a thread with an empty stack.
LEMMA CreateRefines ==
  ASSUME AmInv, AmInv', NEW t \in Thread, NEW entry \in 0 .. CodeLen, NEW arg \in Value,
         kcontext(t, entry, arg)
  PROVE  T!Create(t, entry, arg)
<1> DEFINE c == ContextAt(t)
<1>1. /\ pc \in 0 .. CodeLen /\ t \notin Created /\ mem' = NewContext(c, entry, arg)
      /\ cp' = [u \in DOMAIN cp \cup {t} |-> IF u = t THEN c ELSE cp[u]]
      /\ UNCHANGED <<pc, sp, gpr, current>>
  BY DEF kcontext, InThread
<1>2. t # Boot /\ t # current /\ current \in Thread /\ current \in Created
  BY <1>1, Running DEF Created, AmInv, AmType
<1>3. /\ c \in Int /\ StackStart[t] + HandlerWords <= c /\ c + CONTEXT_SIZE <= StackTop(t)
      /\ c + CONTEXT_SIZE = StackTop(t)
  BY <1>2, Stacks, Sizes DEF ContextAt, StackTop
<1> HIDE DEF c
<1>4. \A k \in 0 .. CONTEXT_SIZE - 1 : c + k \in Addr /\ c + k \in Stack(t)
  BY <1>3, FrameWords
<1>5. Offset("a0") \in 2 .. NR_REGS - 1
  BY OffsetIs, ContextAssumption
<1>6. mem'[c + OFFSET_EPC] = entry
  <2>1. c + OFFSET_EPC \in Addr /\ c + OFFSET_EPC \notin c .. c + NR_REGS - 1
    BY <1>3, <1>4, Sizes
  <2>2. /\ c + OFFSET_EPC # c + Offset("a0") /\ c + OFFSET_EPC # c + OFFSET_CAUSE
        /\ c + OFFSET_EPC # c + OFFSET_STATUS
    BY <1>3, <1>5, Sizes
  <2>3. QED BY <1>1, <2>1, <2>2 DEF NewContext
<1>7. ASSUME NEW r \in Gpr PROVE mem'[c + Offset(r)] = IF r = "a0" THEN arg ELSE 0
  <2>1. Offset(r) \in 2 .. NR_REGS - 1 /\ c + Offset(r) \in Addr
    BY <1>4, OffsetIs, Sizes
  <2>2. /\ c + Offset(r) # c + OFFSET_CAUSE /\ c + Offset(r) # c + OFFSET_EPC
        /\ c + Offset(r) # c + OFFSET_STATUS /\ c + Offset(r) \in c .. c + NR_REGS - 1
    BY <1>3, <2>1, Sizes
  <2>3. CASE r = "a0"
    BY <1>1, <2>1, <2>2, <2>3 DEF NewContext
  <2>4. CASE r # "a0"
    <3>1. Offset(r) # Offset("a0")
      BY <2>4, OffsetNames, ContextAssumption
    <3>2. c + Offset(r) # c + Offset("a0")
      BY <1>3, <1>5, <2>1, <3>1
    <3>3. QED BY <1>1, <2>1, <2>2, <2>4, <3>2 DEF NewContext
  <2>5. QED BY <2>3, <2>4
<1>8. \A a \in Addr : a \notin Stack(t) => mem'[a] = mem[a]
  <2> SUFFICES ASSUME NEW a \in Addr, a \notin Stack(t) PROVE mem'[a] = mem[a]
    OBVIOUS
  <2>1. \A k \in 0 .. CONTEXT_SIZE - 1 : a # c + k
    BY <1>4
  <2>2. a \notin c .. c + NR_REGS - 1
    <3> SUFFICES ASSUME a \in c .. c + NR_REGS - 1 PROVE FALSE
      OBVIOUS
    <3>1. a - c \in 0 .. CONTEXT_SIZE - 1 /\ a = c + (a - c)
      BY <1>3, Sizes
    <3>2. QED BY <2>1, <3>1
  <2>3. a # c + OFFSET_CAUSE /\ a # c + OFFSET_STATUS /\ a # c + OFFSET_EPC /\ a # c + Offset("a0")
    BY <1>5, <2>1, Sizes
  <2>4. QED BY <1>1, <2>2, <2>3 DEF NewContext
<1>9. ContextIn(mem', t, c) = T!Start(entry, arg)
  <2>1. StackIn(mem', t, c + CONTEXT_SIZE) = <<>>
    <3>1. StackTop(t) \in Int /\ StackStart[t] <= StackTop(t)
      BY Stacks, Sizes
    <3>2. /\ StackIn(mem', t, StackTop(t)) \in Seq(WordsOf(mem', t))
          /\ Len(StackIn(mem', t, StackTop(t))) = StackTop(t) - StackTop(t)
      BY <3>1, StackIsSeq
    <3>3. QED BY <1>3, <3>1, <3>2
  <2>2. [r \in Gpr |-> mem'[c + Offset(r)]] = [r \in Gpr |-> IF r = "a0" THEN arg ELSE 0]
    BY <1>7
  <2>3. QED BY <1>6, <2>1, <2>2 DEF ContextIn, T!Start
<1>10. Created' = Created \cup {t}
  BY <1>1 DEF Created
<1>11. ctxBar'[t] = T!Start(entry, arg)
  <2>1. ContextOf(t)' = ContextIn(mem', t, cp'[t])
    BY <1>1, <1>2, <1>10, WhereNext DEF Where
  <2>2. cp'[t] = c
    BY <1>1
  <2>3. QED BY <1>9, <1>10, <2>1, <2>2 DEF ctxBar
<1>12. ASSUME NEW u \in Created PROVE ContextOf(u)' = ContextOf(u)
  <2>1. CASE u = current
    <3>1. InProgram /\ InProgram'
      BY <1>1, Sizes DEF AmInv, InProgram, AtTrap, AtHandler, AtReturn, __am_asm_trap, irq_handle,
           trap_return
    <3>2. StackIn(mem', current, sp) = StackIn(mem, current, sp)
      <4>1. sp \in Int /\ StackStart[current] <= sp /\ sp <= StackTop(current)
        BY <1>2, <3>1, Stacks, Sizes DEF InProgram, SpInStack
      <4>2. \A a \in Stack(current) : mem'[a] = mem[a]
        BY <1>2, <1>8, Stacks
      <4>3. QED BY <1>2, <4>1, <4>2, StackSame
    <3>3. ContextOf(current) = OnCpu(pc, gpr, StackIn(mem, current, sp))
      BY <3>1, WhereContexts DEF Where
    <3>4. ContextOf(current)' = OnCpu(pc', gpr', StackIn(mem', current', sp'))
      BY <3>1, WhereNext DEF Where
    <3>5. QED BY <1>1, <2>1, <3>2, <3>3, <3>4
  <2>2. CASE u # current
    <3>1. u \in DOMAIN cp /\ u # t /\ cp'[u] = cp[u]
      BY <1>1, <2>2 DEF Created, AmInv, AmType
    <3>2. ContextOf(u) = ContextIn(mem, u, cp[u])
      BY <2>2, WhereContexts DEF Where
    <3>3. u \in Created' /\ u # current'
      BY <1>1, <1>10, <2>2
    <3>4. ContextOf(u)' = ContextIn(mem', u, cp'[u])
      BY <3>3, WhereNext DEF Where
    <3>5. ContextIn(mem', u, cp[u]) = ContextIn(mem, u, cp[u])
      BY <1>8, <2>2, <3>1, OthersSame
    <3>6. QED BY <3>1, <3>2, <3>4, <3>5
  <2>3. QED BY <2>1, <2>2
<1>13. \A u \in Created : ctxBar'[u] = ctxBar[u] /\ u # t
  BY <1>1, <1>10, <1>12 DEF ctxBar
<1>14. ctxBar' = [u \in Created \cup {t} |-> ctxBar'[u]]
  BY <1>10 DEF ctxBar
<1>15. ctxBar' = [u \in Created \cup {t} |-> IF u = t THEN T!Start(entry, arg) ELSE ctxBar[u]]
  BY <1>11, <1>13, <1>14
<1>16. QED BY <1>1, <1>10, <1>15 DEF T!Create

\* The handler ends a yield: the context of the thread that trapped moves past the
\* ecall, and the thread that is chosen becomes the running one.
LEMMA HandlerRefines ==
  ASSUME AmInv, AmInv', Cause, am_irq_handle
  PROVE  \E t \in Thread : T!Yield(t)
<1> DEFINE c == gpr["a0"]
<1>1. PICK t \in Thread : handler(c, t)
  BY DEF am_irq_handle
<1>2. /\ pc = irq_handle /\ pc' = trap_return
      /\ mem' = [a \in Addr |-> CASE a = c + OFFSET_EPC -> ReturnPc(c)
                                  [] a \in sp - HandlerWords .. sp - 1 -> Junk
                                  [] OTHER -> mem[a]]
  BY DEF am_irq_handle
<1>3. AtHandler /\ current \in Thread /\ c = sp
  BY <1>2, Sizes, Running DEF AmInv, InProgram, AtTrap, AtReturn, AtHandler, __am_asm_trap,
       irq_handle, trap_return
<1>4. /\ c \in Int /\ FrameIn(mem, current, c) /\ StackStart[current] + HandlerWords <= c
      /\ c + CONTEXT_SIZE <= StackTop(current)
      /\ mem[c + OFFSET_EPC] \in 0 .. CodeLen /\ mem[c + OFFSET_EPC] < CodeLen
  BY <1>3 DEF AtHandler, FrameIn
<1>5. /\ t \in Created /\ current' = t /\ current \in Created
      /\ cp' = [u \in DOMAIN cp \cup {current} |-> IF u = current THEN c ELSE cp[u]]
  BY <1>1 DEF handler, AmInv, AmType
<1>6. ReturnPc(c) = mem[c + OFFSET_EPC] + 1
  BY <1>2, <1>3 DEF ReturnPc, Cause
<1>7. AtReturn'
  BY <1>2, Sizes DEF AmInv, InProgram, AtTrap, AtHandler, __am_asm_trap, irq_handle, trap_return
<1> HIDE DEF c
<1>8. \A k \in 0 .. CONTEXT_SIZE - 1 : c + k \in Addr /\ c + k \in Stack(current)
  BY <1>3, <1>4, FrameWords
<1>9. mem'[c + OFFSET_EPC] = mem[c + OFFSET_EPC] + 1
  <2>1. c + OFFSET_EPC \in Addr /\ c + OFFSET_EPC \notin sp - HandlerWords .. sp - 1
    BY <1>3, <1>4, <1>8, Sizes
  <2>2. QED BY <1>2, <1>6, <2>1
<1>10. \A a \in Addr : a # c + OFFSET_EPC /\ a >= c => mem'[a] = mem[a]
  <2> SUFFICES ASSUME NEW a \in Addr, a # c + OFFSET_EPC, a >= c PROVE mem'[a] = mem[a]
    OBVIOUS
  <2>1. a \notin sp - HandlerWords .. sp - 1
    BY <1>3, <1>4, Sizes
  <2>2. QED BY <1>2, <2>1
<1>11. \A a \in Addr : a \notin Stack(current) => mem'[a] = mem[a]
  <2> SUFFICES ASSUME NEW a \in Addr, a \notin Stack(current) PROVE mem'[a] = mem[a]
    OBVIOUS
  <2>1. a # c + OFFSET_EPC /\ a \notin c - HandlerWords .. c - 1
    BY <1>3, <1>4, FrameWords DEF FrameIn
  <2>2. QED BY <1>2, <1>3, <2>1
<1> DEFINE p == mem[c + OFFSET_EPC]
           g == [r \in Gpr |-> mem[c + Offset(r)]]
           s == StackIn(mem, current, c + CONTEXT_SIZE)
<1>12. ctxBar[current] = OnCpu(p, g, s)
  BY <1>3, <1>5, WhereContexts DEF Where, ctxBar, OnCpu, ContextIn, c
<1>13. ContextIn(mem', current, c) = OnCpu(p + 1, g, s)
  <2>1. ASSUME NEW r \in Gpr PROVE mem'[c + Offset(r)] = mem[c + Offset(r)]
    <3>1. Offset(r) \in 2 .. NR_REGS - 1
      BY OffsetIs
    <3>2. c + Offset(r) \in Addr
      BY <1>8, <3>1, Sizes
    <3>3. c + Offset(r) # c + OFFSET_EPC /\ c + Offset(r) >= c
      BY <1>4, <3>1, Sizes
    <3>4. QED BY <1>10, <3>2, <3>3
  <2>2. StackIn(mem', current, c + CONTEXT_SIZE) = s
    <3>1. c + CONTEXT_SIZE \in Int /\ StackStart[current] <= c + CONTEXT_SIZE
      BY <1>3, <1>4, Stacks, Sizes
    <3>2. \A a \in Stack(current) : a >= c + CONTEXT_SIZE => a \in Addr /\ a # c + OFFSET_EPC /\ a >= c
      BY <1>3, <1>4, Stacks, Sizes DEF Stack
    <3>3. QED BY <1>3, <1>4, <1>10, <3>1, <3>2, StackSame
  <2>3. QED BY <1>9, <2>1, <2>2 DEF ContextIn, OnCpu
<1>14. Created' = Created
  BY <1>5 DEF Created
<1>15. \A u \in Created : ContextOf(u)' = ContextIn(mem', u, cp'[u])
  BY <1>5, <1>7, <1>14, WhereNext DEF Where
<1>16. ASSUME NEW u \in Created, u # current PROVE ContextOf(u)' = ContextOf(u)
  <2>1. u \in DOMAIN cp /\ cp'[u] = cp[u]
    BY <1>5, <1>16 DEF Created, AmInv, AmType
  <2>2. ContextOf(u) = ContextIn(mem, u, cp[u])
    BY <1>16, WhereContexts DEF Where
  <2>3. QED BY <1>3, <1>11, <1>15, <1>16, <2>1, <2>2, OthersSame
<1>17. ASSUME NEW u \in Created, u = current PROVE ContextOf(u)' = OnCpu(p + 1, g, s)
  <2>1. cp'[u] = c
    BY <1>5, <1>17
  <2>2. QED BY <1>13, <1>15, <1>17, <2>1
<1> HIDE DEF p, g, s
<1>18. [ctxBar[current] EXCEPT !.pc = @ + 1] = OnCpu(p + 1, g, s) /\ ctxBar[current].pc = p
  BY <1>12 DEF OnCpu
<1>19. ctxBar' = [ctxBar EXCEPT ![current] = OnCpu(p + 1, g, s)]
  BY <1>14, <1>16, <1>17 DEF ctxBar
<1>20. ctxBar' = [ctxBar EXCEPT ![current].pc = @ + 1]
  <2>1. [ctxBar EXCEPT ![current].pc = @ + 1]
          = [ctxBar EXCEPT ![current] = [ctxBar[current] EXCEPT !.pc = @ + 1]]
    OBVIOUS
  <2>2. QED BY <1>18, <1>19, <2>1
<1>21. ctxBar[current].pc < CodeLen
  BY <1>4, <1>18 DEF p
<1>22. T!Yield(t)
  BY <1>5, <1>14, <1>20, <1>21, Zenon DEF T!Yield
<1>23. QED BY <1>22

-----------------------------------------------------------------------------
LEMMA UnseenStep == Unseen => UNCHANGED T!vars
BY DEF Unseen, T!vars

\* The processor, the memory and the trap code together are the threads of module
\* Threads: no thread sees a register, a stack word or a place in its code changed
\* by a trap, for any threads, registers, values and sizes of stacks (trap.S,
\* __am_irq_handle, kcontext).
THEOREM ThreadsAreKept == Spec => RefinesThreads
<1>1. AmInv /\ AmInv' /\ Cause /\ [Next]_vars => [T!Next]_(T!vars)
  <2> SUFFICES ASSUME AmInv, AmInv', Cause, [Next]_vars PROVE T!Next \/ UNCHANGED T!vars
    OBVIOUS
  <2>1. CASE UNCHANGED vars
    <3>1. \A t \in Created : ContextOf(t)' = ContextOf(t)
      BY <2>1 DEF vars, ContextOf, InMemory, OnProcessor, StackFrom
    <3>2. Created' = Created /\ current' = current
      BY <2>1 DEF vars, Created
    <3>3. QED BY <3>1, <3>2, UnseenStep DEF Unseen, ctxBar
  <2>2. CASE \E r \in Gpr, v \in Value : Compute(r, v)
    BY <2>2, ComputeRefines DEF T!Next
  <2>3. CASE \E r \in Gpr : Push(r) \/ Pop(r)
    BY <2>3, PushRefines, PopRefines DEF T!Next
  <2>4. CASE Jump
    BY <2>4, JumpRefines DEF T!Next
  <2>5. CASE \E t \in Thread, entry \in 0 .. CodeLen, arg \in Value : kcontext(t, entry, arg)
    BY <2>5, CreateRefines DEF T!Next
  <2>6. CASE am_irq_handle
    BY <2>6, HandlerRefines DEF T!Next
  <2>7. CASE cte_init \/ yield \/ trap_save \/ trap_restore
    BY <2>7, RegisterSeen, YieldSeen, SaveSeen, RestoreSeen, UnseenStep
  <2>8. QED BY <2>1, <2>2, <2>3, <2>4, <2>5, <2>6, <2>7 DEF Next
<1>2. Init => Cause
  BY Sizes DEF Init, Cause, __am_asm_trap, irq_handle
<1>3. QED BY <1>1, <1>2, InitRefines, AmInvInit, AmInvNext, CauseNext, PTL
          DEF Spec, RefinesThreads, T!Spec
=============================================================================
