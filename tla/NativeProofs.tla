---------------------------- MODULE NativeProofs ----------------------------
(***************************************************************************)
(* Proofs about the native platform and the SD card, for every set of      *)
(* contexts, address spaces and pages, length of the key queue, size of    *)
(* the audio pipe, set of buffers, number of processors, size of the card  *)
(* and set of requests.                                                    *)
(***************************************************************************)
EXTENDS NativeContexts, NativeIo, SdHost, FiniteSetTheorems, SequenceTheorems,
        WellFoundedInduction, TLAPS

----------------------------------------------------------------------------
(* Contexts.  Every task has one kernel stack for its frames, and whoever  *)
(* runs has its address space in the processor's struct; that is what      *)
(* setup_stack relies on when it chooses a stack.                          *)

Events == {"NULL", "ERROR", "YIELD", "SYSCALL", "PAGEFAULT"} \cup IRQs
RegsSet  == [at : {"kernel", "library", "user"}, pc : Nat, sp : Tasks \cup {"ustack"}, masked : BOOLEAN]
FrameSet == [regs : RegsSet, ksp : Tasks \cup {Junk}, vm_head : User \cup {NULL, Junk}]
Space(t) == IF t \in User THEN t ELSE NULL

CtxTypeOK ==
  /\ mode \in {"task", "irq", "return", "hung"}
  /\ running \in Tasks /\ c = running /\ pcb = [t \in Tasks |-> t]
  /\ cpu \in RegsSet /\ own \in [Tasks -> RegsSet] /\ frame \in [Tasks -> FrameSet]
  /\ thiscpu \in [ev : Events, ksp : Tasks \cup {Junk}, vm_head : User \cup {NULL}]

\* Where the code of a task is and the stack it is on.
InPlace(t, x) == IF t \in User THEN x.at = "user" /\ x.sp = "ustack"
                 ELSE x.at # "user" /\ x.sp = t

CtxInv ==
  /\ CtxTypeOK
  /\ \A t \in Tasks : InPlace(t, own[t])
  /\ \A t \in Tasks : t # running \/ mode # "task" => frame[t].regs = own[t] /\ own[t].at # "library"
  /\ \A t \in Tasks : t # running \/ mode \in {"return", "hung"} =>
       frame[t].vm_head = Space(t) /\ (t \in User => frame[t].ksp = t)
  /\ mode = "task" => cpu = own[running]
  /\ mode = "irq" => cpu.masked /\ thiscpu.ev = cause
  /\ mode # "hung" => thiscpu.vm_head = Space(running)
  /\ mode \in {"task", "irq"} => (running \in User => thiscpu.ksp = running)

LEMMA TasksAre ==
  /\ Boot \in Tasks /\ Boot \notin User /\ NULL \notin Tasks
  /\ User \subseteq Tasks /\ Kernel \subseteq Tasks
  /\ \A t \in Tasks : Space(t) \in User \cup {NULL}
BY NativeAssumption DEF Tasks, Space

LEMMA CtxStarts == NativeInit => CtxInv
<1> SUFFICES ASSUME NativeInit PROVE CtxInv
  OBVIOUS
<1> USE TasksAre DEF NativeInit, NativeState, Regs, Frame, kcontext, ucontext
<1>1. /\ cpu = [at |-> "kernel", pc |-> 0, sp |-> Boot, masked |-> TRUE]
      /\ thiscpu = [ev |-> "NULL", ksp |-> Junk, vm_head |-> NULL]
      /\ frame = [t \in Tasks |-> IF t \in User THEN ucontext(t) ELSE kcontext(t)]
      /\ own = [t \in Tasks |-> IF t = Boot THEN cpu ELSE frame[t].regs]
      /\ mode = "task" /\ running = Boot /\ c = Boot /\ pcb = [t \in Tasks |-> t]
  OBVIOUS
<1>2. \A t \in Tasks : kcontext(t) \in FrameSet
  BY DEF FrameSet, RegsSet
<1>3. \A t \in User : ucontext(t) \in FrameSet
  BY DEF FrameSet, RegsSet
<1>4. frame \in [Tasks -> FrameSet] /\ cpu \in RegsSet
  BY <1>1, <1>2, <1>3 DEF RegsSet
<1>5. \A t \in Tasks : frame[t].regs \in RegsSet
  BY <1>4 DEF FrameSet
<1>6. own \in [Tasks -> RegsSet]
  BY <1>1, <1>4, <1>5
<1>7. CtxTypeOK
  <2>1. thiscpu \in [ev : Events, ksp : Tasks \cup {Junk}, vm_head : User \cup {NULL}]
    BY <1>1 DEF Events
  <2>2. mode \in {"task", "irq", "return", "hung"} /\ running \in Tasks /\ c = running
    BY <1>1
  <2> QED
    BY <1>1, <1>4, <1>6, <2>1, <2>2 DEF CtxTypeOK
<1>8. \A t \in Tasks : InPlace(t, own[t])
  BY <1>1 DEF InPlace
<1>9. \A t \in Tasks : t # Boot =>
        /\ frame[t].regs = own[t] /\ own[t].at # "library"
        /\ frame[t].vm_head = Space(t) /\ (t \in User => frame[t].ksp = t)
  BY <1>1 DEF Space
<1>10. mode = "task" /\ running = Boot /\ cpu = own[running] /\ thiscpu.vm_head = Space(running)
       /\ running \notin User
  BY <1>1 DEF Space
<1> HIDE DEF NativeInit
<1> QED
  BY <1>7, <1>8, <1>9, <1>10 DEF CtxInv

\* What a task does between two traps is its own.
LEMMA CtxRuns ==
  ASSUME CtxInv, NEW x \in RegsSet, x.at \in {"kernel", "library", "user"}, Runs(x),
         x.sp = cpu.sp, x.at = "user" <=> cpu.at = "user"
  PROVE  CtxInv'
<1> USE TasksAre
<1>1. /\ mode = "task" /\ cpu' = x /\ own' = [own EXCEPT ![running] = x]
      /\ mode' = mode /\ thiscpu' = thiscpu /\ frame' = frame /\ c' = c
      /\ running' = running /\ pcb' = pcb /\ cause' = cause
  BY DEF Runs
<1>2. running \in Tasks /\ own \in [Tasks -> RegsSet] /\ cpu = own[running] /\ InPlace(running, cpu)
  BY <1>1 DEF CtxInv, CtxTypeOK
<1>3. own' \in [Tasks -> RegsSet] /\ own'[running] = x
      /\ \A t \in Tasks : t # running => own'[t] = own[t]
  BY <1>1, <1>2
<1>4. InPlace(running, x)
  BY <1>2 DEF InPlace
<1>5. CtxTypeOK'
  BY <1>1, <1>3 DEF CtxInv, CtxTypeOK
<1>6. \A t \in Tasks : InPlace(t, own'[t])
  BY <1>3, <1>4 DEF CtxInv
<1> QED
  BY <1>1, <1>2, <1>3, <1>5, <1>6 DEF CtxInv, InPlace, Space

\* The stack of a trap is that of the running task.
LEMMA OwnStack ==
  ASSUME CtxInv, mode = "task" PROVE TrapStack(cpu) = running
<1> USE TasksAre
<1>1. running \in Tasks /\ InPlace(running, cpu) /\ thiscpu.vm_head = Space(running)
      /\ (running \in User => thiscpu.ksp = running)
  BY DEF CtxInv, CtxTypeOK
<1>2. CASE running \in User
  BY <1>1, <1>2 DEF InPlace, Space, TrapStack, InUserspace
<1>3. CASE running \notin User
  BY <1>1, <1>3 DEF InPlace, Space, TrapStack, InUserspace
<1> QED
  BY <1>2, <1>3

LEMMA CtxTraps ==
  ASSUME CtxInv, mode = "task", NEW ev \in Events, sig_handler(ev),
         ev \notin IRQs => cpu.at # "library"
  PROVE  CtxInv'
<1> USE TasksAre
<1>0. /\ running \in Tasks /\ own \in [Tasks -> RegsSet] /\ cpu = own[running] /\ InPlace(running, cpu)
      /\ cpu \in RegsSet /\ frame \in [Tasks -> FrameSet] /\ c = running
      /\ thiscpu \in [ev : Events, ksp : Tasks \cup {Junk}, vm_head : User \cup {NULL}]
  BY DEF CtxInv, CtxTypeOK
<1>1. /\ thiscpu' = [thiscpu EXCEPT !.ev = ev] /\ running' = running /\ pcb' = pcb
  BY DEF sig_handler
<1>2. /\ thiscpu' \in [ev : Events, ksp : Tasks \cup {Junk}, vm_head : User \cup {NULL}]
      /\ thiscpu'.ev = ev /\ thiscpu'.ksp = thiscpu.ksp /\ thiscpu'.vm_head = thiscpu.vm_head
  BY <1>0, <1>1
<1>3. CASE ev \in IRQs /\ ~signal_safe(cpu)
  <2>1. mode' = mode /\ cpu' = cpu /\ frame' = frame /\ c' = c /\ own' = own /\ cause' = cause
    BY <1>3 DEF sig_handler, setup_stack
  <2>2. CtxTypeOK'
    BY <2>1, <1>1, <1>2 DEF CtxInv, CtxTypeOK
  <2> QED
    BY <2>1, <2>2, <1>1, <1>2 DEF CtxInv, InPlace, Space
<1>4. CASE ~(ev \in IRQs /\ ~signal_safe(cpu))
  <2> DEFINE x == [cpu EXCEPT !.pc = @ + Skip(ev)]
             y == Frame(x, Junk, Junk)
             z == Regs("kernel", 0, running, TRUE)
  <2>1. /\ frame' = [frame EXCEPT ![running] = y] /\ c' = running
        /\ cpu' = z /\ mode' = "irq" /\ cause' = ev
        /\ own' = [own EXCEPT ![running] = x]
    BY <1>4, OwnStack DEF sig_handler, setup_stack, IrqMask
  <2>2. /\ x \in RegsSet /\ x.at = cpu.at /\ x.sp = cpu.sp
    BY <1>0 DEF RegsSet, Skip
  <2>3. z \in RegsSet /\ z.masked
    BY <1>0 DEF Regs, RegsSet
  <2>4. y \in FrameSet /\ y.regs = x
    BY <2>2 DEF Frame, FrameSet, Junk
  <2>5. x.at # "library"
    BY <1>4, <2>2 DEF signal_safe
  <2> HIDE DEF x, y, z
  <2>6. /\ own' \in [Tasks -> RegsSet] /\ own'[running] = x
        /\ \A t \in Tasks : t # running => own'[t] = own[t]
    BY <2>1, <2>2, <1>0
  <2>7. /\ frame' \in [Tasks -> FrameSet] /\ frame'[running] = y
        /\ \A t \in Tasks : t # running => frame'[t] = frame[t]
    BY <2>1, <2>4, <1>0
  <2>8. CtxTypeOK'
    BY <2>1, <2>3, <2>6, <2>7, <1>0, <1>1, <1>2 DEF CtxInv, CtxTypeOK
  <2>9. \A t \in Tasks : InPlace(t, own'[t])
    BY <2>6, <2>2, <1>0 DEF CtxInv, InPlace
  <2>10. \A t \in Tasks : frame'[t].regs = own'[t] /\ own'[t].at # "library"
    BY <2>6, <2>7, <2>4, <2>5 DEF CtxInv
  <2>11. \A t \in Tasks : t # running => frame'[t].vm_head = Space(t) /\ (t \in User => frame'[t].ksp = t)
    BY <2>7 DEF CtxInv
  <2> QED
    BY <2>1, <2>3, <2>8, <2>9, <2>10, <2>11, <1>1, <1>2 DEF CtxInv, Space
<1> QED
  BY <1>3, <1>4

\* irq_handle saves the address space and the kernel stack of the task that
\* trapped, and takes those of the one the handler chose.
LEMMA CtxSwitches ==
  ASSUME CtxInv, NEW t \in Tasks, irq_handle(t) PROVE CtxInv'
<1> USE TasksAre
<1>0. /\ running \in Tasks /\ own \in [Tasks -> RegsSet] /\ c = running /\ mode = "irq"
      /\ cpu \in RegsSet /\ frame \in [Tasks -> FrameSet] /\ pcb = [k \in Tasks |-> k]
      /\ thiscpu \in [ev : Events, ksp : Tasks \cup {Junk}, vm_head : User \cup {NULL}]
      /\ thiscpu.vm_head = Space(running) /\ (running \in User => thiscpu.ksp = running)
  BY DEF CtxInv, CtxTypeOK, irq_handle
<1> DEFINE y == SavedFrame(frame[running])
<1>1. /\ frame' = [frame EXCEPT ![running] = y] /\ pcb' = [pcb EXCEPT ![running] = running]
      /\ running' = t /\ c' = pcb'[t] /\ cpu' = cpu /\ own' = own /\ cause' = cause
  BY <1>0 DEF irq_handle
<1>2. pcb' = pcb /\ c' = t
  BY <1>0, <1>1
<1>3. frame[running] \in FrameSet
  BY <1>0
<1>4. /\ y \in FrameSet /\ y.regs = frame[running].regs
      /\ y.vm_head = thiscpu.vm_head /\ y.ksp = thiscpu.ksp
  BY <1>0, <1>3 DEF SavedFrame, FrameSet
<1> HIDE DEF y
<1>5. /\ frame' \in [Tasks -> FrameSet] /\ frame'[running] = y
      /\ \A k \in Tasks : k # running => frame'[k] = frame[k]
  BY <1>0, <1>1, <1>4
<1>6. \A k \in Tasks : frame'[k].regs = own[k] /\ own[k].at # "library"
  BY <1>0, <1>4, <1>5 DEF CtxInv
<1>7. \A k \in Tasks : frame'[k].vm_head = Space(k) /\ (k \in User => frame'[k].ksp = k)
  BY <1>0, <1>4, <1>5 DEF CtxInv
<1>8. /\ mode' \in {"return", "hung"}
      /\ thiscpu' \in [ev : Events, ksp : Tasks \cup {Junk}, vm_head : User \cup {NULL}]
      /\ mode' = "return" => thiscpu'.vm_head = Space(t)
  <2>1. CASE SwitchEnds(frame'[c'].vm_head)
    <3>1. mode' = "return" /\ thiscpu' = [thiscpu EXCEPT !.vm_head = frame'[c'].vm_head]
      BY <2>1 DEF irq_handle
    <3>2. frame'[c'].vm_head = Space(t) /\ Space(t) \in User \cup {NULL}
      BY <1>2, <1>7
    <3> QED
      BY <3>1, <3>2, <1>0
  <2>2. CASE ~SwitchEnds(frame'[c'].vm_head)
    BY <2>2, <1>0 DEF irq_handle
  <2> QED
    BY <2>1, <2>2
<1>9. CtxTypeOK'
  BY <1>0, <1>1, <1>2, <1>5, <1>8 DEF CtxTypeOK
<1> QED
  BY <1>1, <1>6, <1>7, <1>8, <1>9 DEF CtxInv

LEMMA CtxReturns ==
  ASSUME CtxInv, iret PROVE CtxInv'
<1> USE TasksAre
<1>0. /\ running \in Tasks /\ own \in [Tasks -> RegsSet] /\ c = running /\ mode = "return"
      /\ frame \in [Tasks -> FrameSet]
      /\ thiscpu \in [ev : Events, ksp : Tasks \cup {Junk}, vm_head : User \cup {NULL}]
  BY DEF CtxInv, CtxTypeOK, iret
<1>1. frame[running] \in FrameSet
  BY <1>0
<1>2. /\ frame[running].ksp \in Tasks \cup {Junk} /\ frame[running].regs \in RegsSet
  BY <1>1 DEF FrameSet
<1>3. /\ cpu' = frame[running].regs /\ mode' = "task"
      /\ thiscpu' = [thiscpu EXCEPT !.ev = "ERROR", !.ksp = frame[running].ksp]
      /\ frame' = frame /\ c' = c /\ running' = running /\ pcb' = pcb /\ own' = own /\ cause' = cause
  BY <1>0 DEF iret
<1>4. /\ thiscpu' \in [ev : Events, ksp : Tasks \cup {Junk}, vm_head : User \cup {NULL}]
      /\ thiscpu'.ksp = frame[running].ksp /\ thiscpu'.vm_head = thiscpu.vm_head
  <2> DEFINE d == [thiscpu EXCEPT !.ev = "ERROR"]
             k == frame[running].ksp
  <2>1. d \in [ev : Events, ksp : Tasks \cup {Junk}, vm_head : User \cup {NULL}]
        /\ d.vm_head = thiscpu.vm_head
    BY <1>0 DEF Events
  <2>2. thiscpu' = [d EXCEPT !.ksp = k] /\ k \in Tasks \cup {Junk}
    BY <1>2, <1>3
  <2> HIDE DEF d, k
  <2>3. /\ thiscpu' \in [ev : Events, ksp : Tasks \cup {Junk}, vm_head : User \cup {NULL}]
        /\ thiscpu'.ksp = k /\ thiscpu'.vm_head = d.vm_head
    BY <2>1, <2>2
  <2> QED
    BY <2>1, <2>3 DEF k
<1>5. CtxTypeOK'
  BY <1>2, <1>3, <1>4 DEF CtxInv, CtxTypeOK
<1> QED
  BY <1>0, <1>3, <1>4, <1>5 DEF CtxInv

LEMMA CtxSteps ==
  CtxInv /\ [NativeNext]_nativeVars => CtxInv'
<1> SUFFICES ASSUME CtxInv, [NativeNext]_nativeVars PROVE CtxInv'
  OBVIOUS
<1> USE TasksAre
<1>0. cpu \in RegsSet
  BY DEF CtxInv, CtxTypeOK
<1>1. CASE UNCHANGED nativeVars
  BY <1>1 DEF nativeVars, CtxInv, CtxTypeOK, InPlace, Space
<1>2. CASE compute
  <2> DEFINE x == [cpu EXCEPT !.pc = @ + 1]
  <2>1. Runs(x)
    BY <1>2 DEF compute
  <2>2. x \in RegsSet /\ x.sp = cpu.sp /\ x.at = cpu.at
    BY <1>0 DEF RegsSet
  <2> QED
    BY <2>1, <2>2, CtxRuns DEF RegsSet
<1>3. CASE enter_library
  <2> DEFINE x == [cpu EXCEPT !.at = "library"]
  <2>1. Runs(x) /\ cpu.at = "kernel"
    BY <1>3 DEF enter_library
  <2>2. x \in RegsSet /\ x.sp = cpu.sp /\ x.at = "library"
    BY <1>0 DEF RegsSet
  <2> QED
    BY <2>1, <2>2, CtxRuns
<1>4. CASE leave_library
  <2> DEFINE x == [cpu EXCEPT !.at = "kernel"]
  <2>1. Runs(x) /\ cpu.at = "library"
    BY <1>4 DEF leave_library
  <2>2. x \in RegsSet /\ x.sp = cpu.sp /\ x.at = "kernel"
    BY <1>0 DEF RegsSet
  <2> QED
    BY <2>1, <2>2, CtxRuns
<1>5. ASSUME NEW b \in BOOLEAN, iset(b) PROVE CtxInv'
  <2> DEFINE x == [cpu EXCEPT !.masked = ~b]
  <2>1. Runs(x)
    BY <1>5 DEF iset
  <2>2. x \in RegsSet /\ x.sp = cpu.sp /\ x.at = cpu.at
    BY <1>0 DEF RegsSet
  <2> QED
    BY <2>1, <2>2, CtxRuns DEF RegsSet
<1>6. ASSUME NEW s \in IRQs, Raised(s) PROVE CtxInv'
  BY <1>6 DEF Raised, CtxInv, CtxTypeOK, InPlace, Space
<1>7. ASSUME NEW s \in IRQs, interrupt(s) PROVE CtxInv'
  <2>1. mode = "task" /\ sig_handler(s)
    BY <1>7 DEF interrupt, CtxInv
  <2>2. s \in Events
    BY DEF Events
  <2> QED
    BY <2>1, <2>2, CtxTraps
<1>8. CASE yield
  <2>1. mode = "task" /\ cpu.at # "library" /\ sig_handler("YIELD") /\ "YIELD" \in Events
    BY <1>8 DEF yield, Events
  <2> QED
    BY <2>1, CtxTraps
<1>9. CASE syscall
  <2>1. mode = "task" /\ cpu.at # "library" /\ sig_handler("SYSCALL") /\ "SYSCALL" \in Events
    BY <1>9 DEF syscall, Events
  <2> QED
    BY <2>1, CtxTraps
<1>10. ASSUME NEW va \in Pages, NEW w \in BOOLEAN, page_fault(va, w) PROVE CtxInv'
  <2>1. mode = "task" /\ cpu.at # "library" /\ sig_handler("PAGEFAULT") /\ "PAGEFAULT" \in Events
    BY <1>10 DEF page_fault, Events
  <2> QED
    BY <2>1, CtxTraps
<1>11. ASSUME NEW u \in User, NEW va \in Pages, NEW pa \in Frames, NEW p \in Prots,
              handler_maps(u, va, pa, p)
       PROVE  CtxInv'
  BY <1>11 DEF handler_maps, CtxInv, CtxTypeOK, InPlace, Space
<1> QED
  BY <1>1, <1>2, <1>3, <1>4, <1>5, <1>6, <1>7, <1>8, <1>9, <1>10, <1>11, CtxSwitches, CtxReturns
  DEF NativeNext

LEMMA CtxInvariant == NativeSpec => []CtxInv
BY CtxStarts, CtxSteps, PTL DEF NativeSpec

\* Every task finds its registers, stack and signal mask as the trap left
\* them, and the event passed to the handler is that of the trap, for any tasks,
\* traps and choices of the handler (sig_handler, setup_stack, irq_handle,
\* iret).
THEOREM FramesAreKept == NativeSpec => []ContextsKept
<1>1. CtxInv => ContextsKept
  <2> SUFFICES ASSUME CtxInv PROVE ContextsKept
    OBVIOUS
  <2>1. \A t \in Tasks : FrameOf(t) = frame[t]
    BY DEF CtxInv, CtxTypeOK, FrameOf
  <2> QED
    BY <2>1 DEF CtxInv, CtxTypeOK, ContextsKept
<1> QED
  BY <1>1, CtxInvariant, PTL

----------------------------------------------------------------------------
(* Address spaces.  As long as no page was mapped twice, the PageMaps of a *)
(* space form a list, so that __am_switch finds all of them.               *)

PageSet  == [pa : Frames \cup {NULL}, prot : Prots \cup {"none"}, next : Pages \cup {NULL}, is_mapped : BOOLEAN]
SpaceSet == [head : Pages \cup {NULL}, page : [Pages -> PageSet]]
MapSet   == [pa : Frames \cup {NULL}, prot : Prots \cup {"none"}]

Known(sp, va) == sp.page[va].prot # "none"
KnownOf(sp)   == { va \in Pages : Known(sp, va) }

\* s is the list of the k pages a space knows.
IsPageList(sp, k, s) ==
  /\ k \in Nat /\ s \in [1 .. k -> Pages]
  /\ sp.head = IF k = 0 THEN NULL ELSE s[1]
  /\ \A i \in 1 .. k : sp.page[s[i]].next = IF i = k THEN NULL ELSE s[i + 1]
  /\ \A i, j \in 1 .. k : s[i] = s[j] => i = j
  /\ \A va \in Pages : (\E i \in 1 .. k : s[i] = va) <=> Known(sp, va)

\* One step of a walk.
Goes(u, f, j) ==
  IF j = 0 THEN vm[u].head ELSE IF f[j - 1] = NULL THEN NULL ELSE vm[u].page[f[j - 1]].next
IsPageWalk(u, n, f) == f = [j \in 0 .. n |-> Goes(u, f, j)]

LEMMA LeastOf ==
  ASSUME NEW T, T \subseteq Nat, T # {}
  PROVE  \E x \in T : \A y \in T : x <= y
<1>1. \E x \in T : \A y \in T : ~ (<<y, x>> \in OpToRel(<, Nat))
  BY NatLessThanWellFounded, WFMin
<1>2. PICK x \in T : \A y \in T : ~ (<<y, x>> \in OpToRel(<, Nat))
  BY <1>1
<1>3. \A y \in T : ~ (y < x)
  BY <1>2 DEF OpToRel
<1>4. \A y \in T : y \in Nat /\ x \in Nat
  OBVIOUS
<1> QED
  BY <1>3, <1>4

LEMMA PageWalkIs ==
  ASSUME NEW u, NEW n, NEW f, IsPageWalk(u, n, f)
  PROVE  \E g : IsPageWalk(u, n, g) /\ Walk(u, n) = g[n]
BY DEF Walk, IsPageWalk, Goes

\* A walk along a list visits it and then stays at its end.
LEMMA PageWalkOfList ==
  ASSUME NEW u, NEW k, NEW s, IsPageList(vm[u], k, s), NEW n \in Nat
  PROVE  Walk(u, n) = IF n < k THEN s[n + 1] ELSE NULL
<1> DEFINE w == [j \in 0 .. n |-> IF j < k THEN s[j + 1] ELSE NULL]
<1>0. \A i \in 1 .. k : s[i] \in Pages /\ s[i] # NULL /\ k \in Nat
  BY NativeAssumption DEF IsPageList
<1>1. ASSUME NEW j \in 0 .. n PROVE w[j] = Goes(u, w, j)
  <2>1. CASE j = 0
    BY <2>1 DEF Goes, IsPageList
  <2>2. CASE j # 0
    <3>1. j - 1 \in 0 .. n /\ w[j - 1] = IF j - 1 < k THEN s[j] ELSE NULL
      BY <2>2
    <3>2. CASE j <= k
      <4>1. j \in 1 .. k /\ w[j - 1] = s[j] /\ s[j] # NULL
        BY <3>1, <3>2, <2>2, <1>0 DEF IsPageList
      <4>2. vm[u].page[s[j]].next = IF j = k THEN NULL ELSE s[j + 1]
        BY <4>1 DEF IsPageList
      <4>3. w[j] = IF j = k THEN NULL ELSE s[j + 1]
        BY <4>1, <3>2 DEF IsPageList
      <4> HIDE DEF w
      <4> QED
        BY <4>1, <4>2, <4>3, <2>2 DEF Goes
    <3>3. CASE ~(j <= k)
      <4>1. w[j - 1] = NULL /\ w[j] = NULL
        BY <3>1, <3>3 DEF IsPageList
      <4> HIDE DEF w
      <4> QED
        BY <4>1, <2>2 DEF Goes
    <3> QED
      BY <3>2, <3>3
  <2> QED
    BY <2>1, <2>2
<1>2. IsPageWalk(u, n, w)
  BY <1>1 DEF IsPageWalk
<1>3. PICK g : IsPageWalk(u, n, g) /\ Walk(u, n) = g[n]
  BY <1>2, PageWalkIs
<1> HIDE DEF w
<1> DEFINE T == { j \in 0 .. n : g[j] # w[j] }
<1>4. ASSUME T # {} PROVE FALSE
  <2>1. T \subseteq Nat
    OBVIOUS
  <2>2. PICK j \in T : \A i \in T : j <= i
    BY <1>4, <2>1, LeastOf
  <2>3. g[j] = Goes(u, g, j)
    BY <1>3 DEF IsPageWalk
  <2>4. Goes(u, g, j) = Goes(u, w, j)
    <3>1. CASE j = 0
      BY <3>1 DEF Goes
    <3>2. CASE j # 0
      <4>1. j - 1 \in 0 .. n /\ ~(j <= j - 1)
        BY <3>2
      <4>2. g[j - 1] = w[j - 1]
        BY <4>1, <2>2
      <4> QED
        BY <4>2, <3>2 DEF Goes
    <3> QED
      BY <3>1, <3>2
  <2> QED
    BY <2>2, <2>3, <2>4, <1>1
<1>5. g[n] = w[n]
  BY <1>4
<1> QED
  BY <1>3, <1>5 DEF w

\* The pages that __am_switch walks over are those the space knows.
LEMMA ListedAreKnown ==
  ASSUME NEW u, NEW k, NEW s, IsPageList(vm[u], k, s)
  PROVE  Listed(u) = KnownOf(vm[u])
<1>1. k \in Nat /\ s \in [1 .. k -> Pages] /\ NULL \notin Pages /\ IsFiniteSet(Pages)
  BY NativeAssumption DEF IsPageList
<1>2. k <= Cardinality(Pages) /\ Cardinality(Pages) \in Nat
  <2>1. s \in Injection(1 .. k, Pages)
    BY <1>1 DEF IsPageList, Injection, IsInjective
  <2>2. Cardinality(1 .. k) = k
    BY <1>1, FS_Interval
  <2> QED
    BY <1>1, <2>1, <2>2, FS_Injection, FS_CardinalityType
<1>3. \A n \in Nat : Walk(u, n) = IF n < k THEN s[n + 1] ELSE NULL
  BY PageWalkOfList
<1>4. ASSUME NEW va \in Listed(u) PROVE va \in KnownOf(vm[u])
  <2>1. PICK n \in 0 .. Cardinality(Pages) : va = Walk(u, n) /\ va # NULL
    BY <1>4 DEF Listed
  <2>2. n \in Nat /\ n + 1 \in 1 .. k /\ va = s[n + 1]
    BY <2>1, <1>1, <1>2, <1>3
  <2> QED
    BY <2>2, <1>1 DEF IsPageList, KnownOf
<1>5. ASSUME NEW va \in KnownOf(vm[u]) PROVE va \in Listed(u)
  <2>1. va \in Pages /\ Known(vm[u], va)
    BY DEF KnownOf
  <2>2. PICK i \in 1 .. k : s[i] = va
    BY <2>1 DEF IsPageList
  <2>3. i - 1 \in 0 .. Cardinality(Pages) /\ i - 1 \in Nat /\ i - 1 < k /\ (i - 1) + 1 = i
    BY <1>1, <1>2
  <2>4. Walk(u, i - 1) = va /\ va # NULL
    BY <2>1, <2>2, <2>3, <1>1, <1>3
  <2> QED
    BY <2>3, <2>4 DEF Listed
<1> QED
  BY <1>4, <1>5

\* What the host shows of the pages: those of the address space in the
\* processor's struct, and nothing without one.
Shown(sp, va) == [pa |-> sp.page[va].pa, prot |-> sp.page[va].prot]
VmTypeOK ==
  vm \in [User -> SpaceSet] /\ mmap \in [Pages -> MapSet]
VmOK ==
  /\ \A u \in User, va \in Pages : ~Known(vm[u], va) => vm[u].page[va] = NoPage
  /\ \A u \in User : \E k, s : IsPageList(vm[u], k, s)
  /\ \A u \in User, va \in Pages :
       vm[u].page[va].is_mapped = (u = thiscpu.vm_head /\ Known(vm[u], va))
  /\ \A va \in Pages : mmap[va] = IF thiscpu.vm_head = NULL THEN Unmapped
                                  ELSE Shown(vm[thiscpu.vm_head], va)
VmInv == VmTypeOK /\ (remapped = {} => VmOK)

LEMMA VmStarts == NativeInit => VmInv
<1> SUFFICES ASSUME NativeInit PROVE VmInv
  OBVIOUS
<1>1. /\ vm = [u \in User |-> [head |-> NULL, page |-> [va \in Pages |-> NoPage]]]
      /\ mmap = [va \in Pages |-> Unmapped] /\ thiscpu.vm_head = NULL
  BY DEF NativeInit, NativeState
<1>2. NoPage \in PageSet /\ NoPage.prot = "none" /\ NoPage.is_mapped = FALSE
  BY DEF NoPage, PageSet
<1>3. Unmapped \in MapSet
  BY DEF Unmapped, MapSet
<1>4. \A u \in User, va \in Pages : vm[u].page[va] = NoPage /\ ~Known(vm[u], va) /\ vm[u].head = NULL
  BY <1>1, <1>2 DEF Known
<1>5. VmTypeOK
  BY <1>1, <1>2, <1>3, <1>4 DEF VmTypeOK, SpaceSet
<1>6. ASSUME NEW u \in User PROVE IsPageList(vm[u], 0, [i \in 1 .. 0 |-> NULL])
  <2>1. \A i \in 1 .. 0 : FALSE
    OBVIOUS
  <2>2. [i \in 1 .. 0 |-> NULL] \in [1 .. 0 -> Pages]
    BY <2>1
  <2> DEFINE s0 == [i \in 1 .. 0 |-> NULL]
  <2>3. vm[u].head = NULL /\ \A va \in Pages : ~Known(vm[u], va)
    BY <1>1, <1>4
  <2> HIDE DEF s0
  <2>4. IsPageList(vm[u], 0, s0) <=> s0 \in [1 .. 0 -> Pages]
    BY <2>1, <2>3 DEF IsPageList
  <2> QED
    BY <2>2, <2>4 DEF s0
<1>7. \A u \in User, va \in Pages :
        vm[u].page[va].is_mapped = (u = thiscpu.vm_head /\ Known(vm[u], va))
  BY <1>2, <1>4
<1>8. VmOK
  BY <1>1, <1>4, <1>6, <1>7 DEF VmOK
<1> QED
  BY <1>5, <1>8 DEF VmInv

\* A step that leaves the address spaces alone.
LEMMA VmKept ==
  ASSUME VmInv, vm' = vm, mmap' = mmap, remapped' = remapped, thiscpu'.vm_head = thiscpu.vm_head
  PROVE  VmInv'
BY DEF VmInv, VmTypeOK, VmOK

\* A list depends on the pointers and on which pages are known.
LEMMA SameList ==
  ASSUME NEW sp, NEW sq, NEW k, NEW s, IsPageList(sp, k, s), sq.head = sp.head,
         \A va \in Pages : sq.page[va].next = sp.page[va].next /\ sq.page[va].prot = sp.page[va].prot
  PROVE  IsPageList(sq, k, s)
<1>1. \A i \in 1 .. k : s[i] \in Pages
  BY DEF IsPageList
<1> QED
  BY <1>1 DEF IsPageList, Known

\* A new page is linked at the head of its list.
LEMMA LongerList ==
  ASSUME NEW sp, NEW sq, NEW k, NEW s, IsPageList(sp, k, s), NEW va \in Pages, ~Known(sp, va),
         sq.head = va, sq.page[va].next = sp.head, Known(sq, va),
         \A w \in Pages : w # va => sq.page[w] = sp.page[w]
  PROVE  \E t : IsPageList(sq, k + 1, t)
<1> DEFINE t == [i \in 1 .. (k + 1) |-> IF i = 1 THEN va ELSE s[i - 1]]
<1>1. k \in Nat /\ k + 1 \in Nat /\ \A i \in 1 .. k : s[i] \in Pages /\ s[i] # va
  BY DEF IsPageList
<1>2. \A i \in 1 .. (k + 1) : i # 1 => i - 1 \in 1 .. k /\ t[i] = s[i - 1]
  BY <1>1
<1>3. t[1] = va /\ t \in [1 .. (k + 1) -> Pages]
  BY <1>1
<1> HIDE DEF t
<1>4. ASSUME NEW i \in 1 .. (k + 1)
      PROVE  sq.page[t[i]].next = IF i = k + 1 THEN NULL ELSE t[i + 1]
  <2>1. CASE i = 1
    <3>1. CASE k = 0
      BY <2>1, <3>1, <1>3 DEF IsPageList
    <3>2. CASE k # 0
      <4>1. 2 \in 1 .. (k + 1) /\ t[2] = s[1] /\ sp.head = s[1] /\ i # k + 1
        BY <3>2, <1>1, <1>2, <2>1 DEF IsPageList
      <4> QED
        BY <4>1, <2>1, <1>3
    <3> QED
      BY <3>1, <3>2
  <2>2. CASE i # 1
    <3>1. i - 1 \in 1 .. k /\ t[i] = s[i - 1] /\ s[i - 1] # va /\ s[i - 1] \in Pages
      BY <2>2, <1>1, <1>2
    <3>2. sq.page[t[i]].next = IF i - 1 = k THEN NULL ELSE s[(i - 1) + 1]
      BY <3>1 DEF IsPageList
    <3>3. i - 1 = k <=> i = k + 1
      BY <1>1
    <3>4. i # k + 1 => i + 1 \in 1 .. (k + 1) /\ i + 1 # 1 /\ (i - 1) + 1 = (i + 1) - 1
      BY <1>1
    <3>5. i # k + 1 => t[i + 1] = s[(i - 1) + 1]
      BY <3>4, <1>2
    <3> QED
      BY <3>2, <3>3, <3>5
  <2> QED
    BY <2>1, <2>2
<1>5. ASSUME NEW i \in 1 .. (k + 1), NEW j \in 1 .. (k + 1), t[i] = t[j] PROVE i = j
  <2>1. CASE i = 1 \/ j = 1
    BY <1>1, <1>2, <1>3, <1>5, <2>1
  <2>2. CASE i # 1 /\ j # 1
    <3>1. i - 1 \in 1 .. k /\ j - 1 \in 1 .. k /\ s[i - 1] = s[j - 1]
      BY <1>2, <1>5, <2>2
    <3>2. i - 1 = j - 1
      BY <3>1 DEF IsPageList
    <3> QED
      BY <3>2, <1>1
  <2> QED
    BY <2>1, <2>2
<1>6. ASSUME NEW w \in Pages PROVE (\E i \in 1 .. (k + 1) : t[i] = w) <=> Known(sq, w)
  <2>1. CASE w = va
    <3>1. 1 \in 1 .. (k + 1)
      BY <1>1
    <3> QED
      BY <2>1, <3>1, <1>3
  <2>2. CASE w # va
    <3>1. Known(sq, w) <=> Known(sp, w)
      BY <2>2 DEF Known
    <3>2. ASSUME NEW i \in 1 .. (k + 1), t[i] = w PROVE \E j \in 1 .. k : s[j] = w
      BY <3>2, <1>2, <1>3, <2>2
    <3>3. ASSUME NEW j \in 1 .. k, s[j] = w PROVE \E i \in 1 .. (k + 1) : t[i] = w
      <4>1. j + 1 \in 1 .. (k + 1) /\ j + 1 # 1 /\ (j + 1) - 1 = j
        BY <1>1
      <4> QED
        BY <4>1, <3>3, <1>2
    <3> QED
      BY <3>1, <3>2, <3>3 DEF IsPageList
  <2> QED
    BY <2>1, <2>2
<1> QED
  BY <1>1, <1>3, <1>4, <1>5, <1>6 DEF IsPageList

LEMMA VmMaps ==
  ASSUME VmInv, CtxInv, NEW u \in User, NEW va \in Pages, NEW pa \in Frames, NEW p \in Prots,
         handler_maps(u, va, pa, p)
  PROVE  VmInv'
<1> DEFINE rec == [pa |-> pa, prot |-> p, next |-> vm[u].head, is_mapped |-> u = thiscpu.vm_head]
           new == [head |-> va, page |-> [vm[u].page EXCEPT ![va] = rec]]
<1>0. /\ vm \in [User -> SpaceSet] /\ mmap \in [Pages -> MapSet]
      /\ NULL \notin Pages /\ NULL \notin User
  BY TasksAre, NativeAssumption DEF VmInv, VmTypeOK
<1>1. /\ thiscpu' = thiscpu
      /\ remapped' = IF vm[u].page[va] # NoPage THEN remapped \cup {u} ELSE remapped
      /\ mmap' = IF u = thiscpu.vm_head THEN [mmap EXCEPT ![va] = [pa |-> pa, prot |-> p]] ELSE mmap
  BY DEF handler_maps, map
<1>2. vm[u] \in SpaceSet
  BY <1>0
<1>3. vm[u] = [head |-> vm[u].head, page |-> vm[u].page] /\ vm[u].head \in Pages \cup {NULL}
      /\ vm[u].page \in [Pages -> PageSet]
  BY <1>2 DEF SpaceSet
<1>4. rec \in PageSet /\ rec.prot # "none" /\ rec.next = vm[u].head
      /\ rec.pa = pa /\ rec.prot = p /\ rec.is_mapped = (u = thiscpu.vm_head)
  BY <1>3 DEF PageSet, Prots
<1>5. vm' = [vm EXCEPT ![u] = new]
  <2>1. vm' = [vm EXCEPT ![u].head = va, ![u].page[va] = rec]
    BY DEF handler_maps, map
  <2> HIDE DEF rec
  <2> DEFINE v1 == [vm EXCEPT ![u].head = va]
             half == [head |-> va, page |-> vm[u].page]
  <2>2. vm' = [v1 EXCEPT ![u].page[va] = rec]
    BY <2>1
  <2>3. [vm[u] EXCEPT !.head = va] = half
    BY <1>3
  <2>4. v1 = [vm EXCEPT ![u] = half]
    BY <2>3
  <2>5. [half EXCEPT !.page[va] = rec] = new
    OBVIOUS
  <2>6. v1[u] = half /\ v1 = [vm EXCEPT ![u] = half] /\ v1 \in [User -> {vm[w] : w \in User} \cup {half}]
    BY <2>4, <1>0
  <2> HIDE DEF v1, half
  <2>7. [v1 EXCEPT ![u].page[va] = rec] = [v1 EXCEPT ![u] = [half EXCEPT !.page[va] = rec]]
    BY <2>6
  <2>8. [v1 EXCEPT ![u] = new] = [vm EXCEPT ![u] = new]
    BY <2>6, <1>0
  <2> QED
    BY <2>2, <2>5, <2>7, <2>8
<1> HIDE DEF rec
<1>6. new \in SpaceSet /\ new.head = va /\ new.page[va] = rec
      /\ \A x \in Pages : x # va => new.page[x] = vm[u].page[x]
  BY <1>3, <1>4 DEF SpaceSet
<1> HIDE DEF new
<1>7. vm' \in [User -> SpaceSet] /\ vm'[u] = new /\ \A w \in User : w # u => vm'[w] = vm[w]
  BY <1>0, <1>5, <1>6
<1>8. [pa |-> pa, prot |-> p] \in MapSet
  BY DEF MapSet
<1>9. mmap' \in [Pages -> MapSet]
  BY <1>0, <1>1, <1>8
<1>11. VmTypeOK'
  BY <1>7, <1>9 DEF VmTypeOK
<1>12. ASSUME remapped' = {} PROVE VmOK'
  <2>1. remapped = {} /\ vm[u].page[va] = NoPage
    BY <1>12, <1>1
  <2>2. VmOK /\ ~Known(vm[u], va) /\ Known(new, va)
    BY <2>1, <1>4, <1>6 DEF VmInv, Known, NoPage
  <2>6. \A w \in User, x \in Pages : ~Known(vm'[w], x) => vm'[w].page[x] = NoPage
    BY <2>2, <1>4, <1>6, <1>7 DEF VmOK, Known
  <2>3. \A w \in User : \E k, s : IsPageList(vm'[w], k, s)
    <3>1. PICK k, s : IsPageList(vm[u], k, s)
      BY <2>2 DEF VmOK
    <3>2. \E t : IsPageList(new, k + 1, t)
      BY <3>1, <2>2, <1>4, <1>6, LongerList
    <3>3. \A w \in User : w # u => \E l, s2 : IsPageList(vm[w], l, s2)
      BY <2>2 DEF VmOK
    <3> QED
      BY <3>2, <3>3, <1>7
  <2>4. ASSUME NEW w \in User, NEW x \in Pages
        PROVE  vm'[w].page[x].is_mapped = (w = thiscpu'.vm_head /\ Known(vm'[w], x))
    <3>1. vm[w].page[x].is_mapped = (w = thiscpu.vm_head /\ Known(vm[w], x))
      BY <2>2 DEF VmOK
    <3>2. CASE w = u /\ x = va
      BY <3>2, <2>2, <1>1, <1>4, <1>6, <1>7
    <3>3. CASE ~(w = u /\ x = va)
      <4>1. vm'[w].page[x] = vm[w].page[x]
        BY <3>3, <1>6, <1>7
      <4> QED
        BY <3>1, <4>1, <1>1 DEF Known
    <3> QED
      BY <3>2, <3>3
  <2>5. ASSUME NEW x \in Pages
        PROVE  mmap'[x] = IF thiscpu'.vm_head = NULL THEN Unmapped
                          ELSE Shown(vm'[thiscpu'.vm_head], x)
    <3>1. mmap[x] = IF thiscpu.vm_head = NULL THEN Unmapped ELSE Shown(vm[thiscpu.vm_head], x)
      BY <2>2 DEF VmOK
    <3>2. thiscpu.vm_head \in User \cup {NULL}
      BY DEF CtxInv, CtxTypeOK
    <3>3. CASE u = thiscpu.vm_head
      <4>1. u # NULL
        BY <1>0
      <4>2. CASE x = va
        <5>1. mmap'[x] = [pa |-> pa, prot |-> p]
          BY <4>2, <3>3, <1>0, <1>1
        <5> QED
          BY <5>1, <4>1, <4>2, <3>3, <1>1, <1>4, <1>6, <1>7 DEF Shown
      <4>3. CASE x # va
        <5>1. mmap'[x] = mmap[x]
          BY <4>3, <3>3, <1>0, <1>1
        <5> QED
          BY <5>1, <4>1, <4>3, <3>1, <3>3, <1>1, <1>6, <1>7 DEF Shown
      <4> QED
        BY <4>2, <4>3
    <3>4. CASE u # thiscpu.vm_head
      <4>1. mmap'[x] = mmap[x]
        BY <3>4, <1>1
      <4>2. thiscpu.vm_head # NULL => vm'[thiscpu.vm_head] = vm[thiscpu.vm_head]
        BY <3>2, <3>4, <1>7
      <4> QED
        BY <4>1, <4>2, <3>1, <1>1
    <3> QED
      BY <3>3, <3>4
  <2> QED
    BY <2>3, <2>4, <2>5, <2>6 DEF VmOK
<1> QED
  BY <1>11, <1>12 DEF VmInv

\* What __am_switch does to one page of one space.
Switched(u, va, head) ==
  LET now == thiscpu.vm_head
      old == IF now = NULL THEN {} ELSE { x \in Listed(now) : vm[now].page[x].is_mapped }
      new == IF head = NULL THEN {} ELSE Listed(head)
  IN  IF u = head /\ va \in new THEN [vm[u].page[va] EXCEPT !.is_mapped = TRUE]
      ELSE IF u = now /\ va \in old THEN [vm[u].page[va] EXCEPT !.is_mapped = FALSE]
      ELSE vm[u].page[va]

LEMMA SwitchedIs ==
  ASSUME VmTypeOK, NEW u \in User, NEW va \in Pages, NEW head
  PROVE  LET r == Switched(u, va, head) IN
         /\ r \in PageSet /\ r.pa = vm[u].page[va].pa /\ r.prot = vm[u].page[va].prot
         /\ r.next = vm[u].page[va].next
<1>1. vm[u] \in SpaceSet
  BY DEF VmTypeOK
<1>2. vm[u].page[va] \in PageSet
  BY <1>1 DEF SpaceSet
<1> DEFINE x == vm[u].page[va]
<1>3. /\ [x EXCEPT !.is_mapped = TRUE] \in PageSet /\ [x EXCEPT !.is_mapped = TRUE].pa = x.pa
      /\ [x EXCEPT !.is_mapped = TRUE].prot = x.prot /\ [x EXCEPT !.is_mapped = TRUE].next = x.next
  BY <1>2 DEF PageSet
<1>4. /\ [x EXCEPT !.is_mapped = FALSE] \in PageSet /\ [x EXCEPT !.is_mapped = FALSE].pa = x.pa
      /\ [x EXCEPT !.is_mapped = FALSE].prot = x.prot /\ [x EXCEPT !.is_mapped = FALSE].next = x.next
  BY <1>2 DEF PageSet
<1>5. \/ Switched(u, va, head) = [x EXCEPT !.is_mapped = TRUE]
      \/ Switched(u, va, head) = [x EXCEPT !.is_mapped = FALSE]
      \/ Switched(u, va, head) = x
  BY DEF Switched
<1> QED
  BY <1>2, <1>3, <1>4, <1>5

LEMMA VmSwitches ==
  ASSUME VmInv, NEW head \in User \cup {NULL}, thiscpu.vm_head \in User \cup {NULL},
         am_switch(head), thiscpu'.vm_head = head, remapped' = remapped
  PROVE  VmInv'
<1> DEFINE now == thiscpu.vm_head
           old == IF now = NULL THEN {} ELSE { x \in Listed(now) : vm[now].page[x].is_mapped }
           new == IF head = NULL THEN {} ELSE Listed(head)
<1>0. /\ VmTypeOK /\ vm \in [User -> SpaceSet] /\ mmap \in [Pages -> MapSet]
      /\ NULL \notin Pages /\ NULL \notin User
  BY TasksAre, NativeAssumption DEF VmInv, VmTypeOK
<1>1. CASE head = now
  BY <1>1, VmKept DEF am_switch
<1>2. CASE head # now
  <2>1. /\ mmap' = [x \in Pages |-> IF x \in new THEN Shown(vm[head], x)
                                    ELSE IF x \in old THEN Unmapped ELSE mmap[x]]
        /\ vm' = [u \in User |-> [vm[u] EXCEPT !.page = [x \in Pages |-> Switched(u, x, head)]]]
    BY <1>2 DEF am_switch, Switched, Shown
  <2>2. \A u \in User, x \in Pages :
          Switched(u, x, head) = IF u = head /\ x \in new THEN [vm[u].page[x] EXCEPT !.is_mapped = TRUE]
                                 ELSE IF u = now /\ x \in old THEN [vm[u].page[x] EXCEPT !.is_mapped = FALSE]
                                 ELSE vm[u].page[x]
    BY DEF Switched
  <2>3. \A u \in User, x \in Pages :
          LET r == Switched(u, x, head) IN
          /\ r \in PageSet /\ r.pa = vm[u].page[x].pa /\ r.prot = vm[u].page[x].prot
          /\ r.next = vm[u].page[x].next
    BY <1>0, SwitchedIs
  <2> HIDE DEF now, old, new
  <2>4. ASSUME NEW u \in User
        PROVE  /\ vm'[u] = [head |-> vm[u].head, page |-> [x \in Pages |-> Switched(u, x, head)]]
               /\ vm'[u] \in SpaceSet
    <3>1. vm[u] \in SpaceSet
      BY <1>0
    <3>2. vm[u] = [head |-> vm[u].head, page |-> vm[u].page] /\ vm[u].head \in Pages \cup {NULL}
      BY <3>1 DEF SpaceSet
    <3> DEFINE q == [x \in Pages |-> Switched(u, x, head)]
    <3>3. q \in [Pages -> PageSet]
      BY <2>3
    <3>4. vm'[u] = [vm[u] EXCEPT !.page = q]
      BY <2>1
    <3> HIDE DEF q
    <3>5. vm'[u] = [head |-> vm[u].head, page |-> q]
      BY <3>2, <3>4
    <3>6. vm'[u] \in SpaceSet
      BY <3>2, <3>3, <3>5 DEF SpaceSet
    <3> QED
      BY <3>5, <3>6 DEF q
  <2>5. ASSUME NEW u \in User
        PROVE  vm'[u].head = vm[u].head /\ \A x \in Pages : vm'[u].page[x] = Switched(u, x, head)
    <3> DEFINE q == [x \in Pages |-> Switched(u, x, head)]
    <3>1. \A x \in Pages : q[x] = Switched(u, x, head)
      OBVIOUS
    <3>2. vm'[u] = [head |-> vm[u].head, page |-> q]
      BY <2>4
    <3> HIDE DEF q
    <3> QED
      BY <3>1, <3>2
  <2>6. vm' \in [User -> SpaceSet]
    BY <2>1, <2>4
  <2>7. \A u \in User, x \in Pages : Known(vm'[u], x) <=> Known(vm[u], x)
    BY <2>3, <2>5 DEF Known
  <2>8. \A u \in User, x \in Pages : Shown(vm'[u], x) = Shown(vm[u], x)
    BY <2>3, <2>5 DEF Shown
  <2>9. \A u \in User, x \in Pages : Shown(vm[u], x) \in MapSet
    <3> TAKE u \in User, x \in Pages
    <3>1. vm[u] \in SpaceSet
      BY <1>0
    <3>2. vm[u].page[x] \in PageSet
      BY <3>1 DEF SpaceSet
    <3> QED
      BY <3>2 DEF PageSet, MapSet, Shown
  <2>10. mmap' \in [Pages -> MapSet]
    <3>1. Unmapped \in MapSet
      BY DEF Unmapped, MapSet
    <3>2. head = NULL => new = {}
      BY DEF new
    <3>3. \A x \in Pages : mmap'[x] \in MapSet
      BY <2>1, <2>9, <3>1, <3>2, <1>0
    <3> QED
      BY <2>1, <3>3
  <2>11. VmTypeOK'
    BY <2>6, <2>10 DEF VmTypeOK
  <2>12. ASSUME remapped' = {} PROVE VmOK'
    <3>1. VmOK
      BY <2>12 DEF VmInv
    <3>2. \A u \in User : Listed(u) = KnownOf(vm[u])
      BY <3>1, ListedAreKnown DEF VmOK
    <3>3. \A x \in Pages : x \in new <=> head # NULL /\ Known(vm[head], x)
      BY <3>2 DEF new, KnownOf
    <3>4. \A x \in Pages : x \in old <=> now # NULL /\ Known(vm[now], x)
      <4>1. \A u \in User, x \in Pages : vm[u].page[x].is_mapped = (u = now /\ Known(vm[u], x))
        BY <3>1 DEF VmOK, now
      <4>2. now \in User \cup {NULL}
        BY DEF now
      <4> QED
        BY <3>2, <4>1, <4>2 DEF old, KnownOf
    <3>5. ASSUME NEW u \in User, NEW x \in Pages
          PROVE  /\ ~Known(vm'[u], x) => vm'[u].page[x] = NoPage
                 /\ vm'[u].page[x].is_mapped = (u = head /\ Known(vm'[u], x))
      <4>0. /\ vm'[u].page[x] = Switched(u, x, head) /\ u # NULL
            /\ (Known(vm'[u], x) <=> Known(vm[u], x))
            /\ vm[u].page[x].is_mapped = (u = now /\ Known(vm[u], x))
        BY <1>0, <2>5, <2>7, <3>1 DEF VmOK, now
      <4>1. vm[u].page[x] \in PageSet
        <5>1. vm[u] \in SpaceSet
          BY <1>0
        <5> QED
          BY <5>1 DEF SpaceSet
      <4>2. CASE ~Known(vm[u], x)
        <5>1. vm'[u].page[x] = vm[u].page[x]
          BY <2>2, <3>3, <3>4, <4>0, <4>2
        <5>2. vm[u].page[x] = NoPage
          BY <3>1, <4>2 DEF VmOK
        <5> QED
          BY <5>1, <5>2, <4>0, <4>2 DEF NoPage
      <4>3. CASE Known(vm[u], x) /\ u = head
        <5>1. vm'[u].page[x] = [vm[u].page[x] EXCEPT !.is_mapped = TRUE]
          BY <2>2, <3>3, <4>0, <4>3
        <5>2. vm'[u].page[x].is_mapped = TRUE
          BY <5>1, <4>1 DEF PageSet
        <5> QED
          BY <5>2, <4>0, <4>3
      <4>4. CASE Known(vm[u], x) /\ u # head /\ u = now
        <5>1. vm'[u].page[x] = [vm[u].page[x] EXCEPT !.is_mapped = FALSE]
          BY <2>2, <3>4, <4>0, <4>4
        <5>2. vm'[u].page[x].is_mapped = FALSE
          BY <5>1, <4>1 DEF PageSet
        <5> QED
          BY <5>2, <4>0, <4>4
      <4>5. CASE Known(vm[u], x) /\ u # head /\ u # now
        <5>1. vm'[u].page[x] = vm[u].page[x]
          BY <2>2, <4>0, <4>5
        <5> QED
          BY <5>1, <4>0, <4>5
      <4> QED
        BY <4>2, <4>3, <4>4, <4>5
    <3>6. \A u \in User : \E k, s : IsPageList(vm'[u], k, s)
      <4> TAKE u \in User
      <4>1. PICK k, s : IsPageList(vm[u], k, s)
        BY <3>1 DEF VmOK
      <4>2. \A x \in Pages : vm'[u].page[x].next = vm[u].page[x].next /\ vm'[u].page[x].prot = vm[u].page[x].prot
        BY <2>3, <2>5
      <4>3. vm'[u].head = vm[u].head
        BY <2>5
      <4>4. IsPageList(vm'[u], k, s)
        BY <4>1, <4>2, <4>3, SameList
      <4> QED
        BY <4>4
    <3>7. ASSUME NEW x \in Pages
          PROVE  mmap'[x] = IF head = NULL THEN Unmapped ELSE Shown(vm'[head], x)
      <4>1. mmap'[x] = IF x \in new THEN Shown(vm[head], x) ELSE IF x \in old THEN Unmapped ELSE mmap[x]
        BY <2>1
      <4>2. mmap[x] = IF now = NULL THEN Unmapped ELSE Shown(vm[now], x)
        BY <3>1 DEF VmOK, now
      <4>3. \A u \in User : ~Known(vm[u], x) => Shown(vm[u], x) = Unmapped
        BY <3>1 DEF VmOK, Shown, Unmapped, NoPage
      <4>4. now \in User \cup {NULL}
        BY DEF now
      <4>5. x \notin new => mmap'[x] = Unmapped
        BY <3>4, <4>1, <4>2, <4>3, <4>4
      <4> QED
        BY <2>8, <3>3, <4>1, <4>3, <4>5
    <3> QED
      BY <3>5, <3>6, <3>7 DEF VmOK
  <2> QED
    BY <2>11, <2>12 DEF VmInv
<1> QED
  BY <1>1, <1>2 DEF now

LEMMA VmSteps ==
  CtxInv /\ VmInv /\ [NativeNext]_nativeVars => VmInv'
<1> SUFFICES ASSUME CtxInv, VmInv, [NativeNext]_nativeVars PROVE VmInv'
  OBVIOUS
<1> DEFINE Same == vm' = vm /\ mmap' = mmap /\ remapped' = remapped /\ thiscpu'.vm_head = thiscpu.vm_head
<1>0. thiscpu \in [ev : Events, ksp : Tasks \cup {Junk}, vm_head : User \cup {NULL}]
  BY DEF CtxInv, CtxTypeOK
<1>1. ASSUME NEW ev, sig_handler(ev) PROVE Same
  BY <1>0, <1>1 DEF sig_handler
<1>2. CASE UNCHANGED nativeVars
  BY <1>2, VmKept DEF nativeVars
<1>3. ASSUME NEW x, Runs(x) PROVE Same
  BY <1>3 DEF Runs
<1>4. ASSUME \/ compute \/ enter_library \/ leave_library \/ (\E b \in BOOLEAN : iset(b))
      PROVE  Same
  BY <1>3, <1>4 DEF compute, enter_library, leave_library, iset
<1>5. ASSUME NEW s \in IRQs, Raised(s) \/ interrupt(s) PROVE Same
  BY <1>1, <1>5 DEF Raised, interrupt
<1>6. ASSUME yield \/ syscall \/ (\E va \in Pages, w \in BOOLEAN : page_fault(va, w)) PROVE Same
  BY <1>1, <1>6 DEF yield, syscall, page_fault
<1>7. CASE iret
  <2>1. vm' = vm /\ mmap' = mmap /\ remapped' = remapped
        /\ thiscpu' = [thiscpu EXCEPT !.ev = "ERROR", !.ksp = frame[c].ksp]
    BY <1>7 DEF iret
  <2>2. thiscpu'.vm_head = thiscpu.vm_head
    BY <2>1, <1>0
  <2> QED
    BY <2>1, <2>2, VmKept
<1>8. ASSUME NEW t \in Tasks, irq_handle(t) PROVE VmInv'
  <2> DEFINE head == frame'[c'].vm_head
  <2>1. CASE SwitchEnds(head)
    <3>1. am_switch(head) /\ thiscpu' = [thiscpu EXCEPT !.vm_head = head] /\ remapped' = remapped
          /\ mode' = "return"
      BY <1>8, <2>1 DEF irq_handle
    <3>2. CtxInv'
      BY <1>8, CtxSwitches
    <3>3. head = Space(running') /\ Space(running') \in User \cup {NULL}
      BY <3>1, <3>2, TasksAre DEF CtxInv, CtxTypeOK
    <3> HIDE DEF head
    <3>4. thiscpu'.vm_head = head /\ thiscpu.vm_head \in User \cup {NULL} /\ head \in User \cup {NULL}
      BY <3>1, <3>3, <1>0
    <3> QED
      BY <3>1, <3>4, VmSwitches
  <2>2. CASE ~SwitchEnds(head)
    <3>1. vm' = vm /\ mmap' = mmap /\ remapped' = remapped /\ thiscpu' = thiscpu
      BY <1>8, <2>2 DEF irq_handle
    <3> QED
      BY <3>1, VmKept
  <2> QED
    BY <2>1, <2>2
<1>9. CASE Same
  BY <1>9, VmKept
<1> HIDE DEF Same
<1> QED
  BY <1>2, <1>4, <1>5, <1>6, <1>7, <1>8, <1>9, VmMaps DEF NativeNext

LEMMA VmInvariant == NativeSpec => [](CtxInv /\ VmInv)
<1>1. NativeInit => CtxInv /\ VmInv
  BY CtxStarts, VmStarts
<1>2. CtxInv /\ VmInv /\ [NativeNext]_nativeVars => (CtxInv /\ VmInv)'
  BY CtxSteps, VmSteps
<1> QED
  BY <1>1, <1>2, PTL DEF NativeSpec

\* User code runs on the mappings of its own address space and no others, for
\* any processes, pages and maps of them, until a page is mapped twice (map,
\* __am_switch).
THEOREM SpacesAreOwn == NativeSpec => []SeesOwnPages
<1>1. CtxInv /\ VmInv => SeesOwnPages
  <2> SUFFICES ASSUME CtxInv, VmInv, mode = "task", cpu.at = "user", remapped = {}
               PROVE  \A va \in Pages : mmap[va] = Shown(vm[running], va)
    BY DEF SeesOwnPages, Shown
  <2>1. running \in User /\ thiscpu.vm_head = running
    BY DEF CtxInv, CtxTypeOK, InPlace, Space
  <2>2. running # NULL
    BY <2>1, TasksAre
  <2> QED
    BY <2>1, <2>2 DEF VmInv, VmOK
<1> QED
  BY <1>1, VmInvariant, PTL


----------------------------------------------------------------------------
(* The processors. *)

\* Who has been started, and what has become of the devices meanwhile.
CpuTypeOK ==
  /\ cpus \in [0 .. (Ncpu - 1) -> {"main", "fork", "write", "none", "read", "entry", "halted"}]
  /\ sync \in Int
  /\ ioe \in [has : BOOLEAN, done : BOOLEAN, inits : Int, early : BOOLEAN]
CpuInv ==
  /\ CpuTypeOK
  /\ cpus[0] \in {"main", "fork", "write", "entry", "halted"}
  /\ cpus[0] = "main" => sync = 0 /\ \A i \in Others : cpus[i] = "none"
  /\ cpus[0] = "fork" => sync = 0 /\ \A i \in Others : cpus[i] \in {"none", "read"}
  /\ cpus[0] = "write" => sync = 0 /\ \A i \in Others : cpus[i] = "read"
  /\ cpus[0] = "entry" => /\ \A i \in Others : cpus[i] \in {"read", "entry"}
                          /\ sync = Cardinality({ i \in Others : cpus[i] = "read" })
  /\ cpus[0] = "halted" => \A i \in Others : cpus[i] = "halted"
  /\ ~ioe.done => ioe.inits = 0
  /\ cpus[0] \in {"main", "fork"} /\ ~ioe.early => ~ioe.done
  /\ cpus[0] \in {"write", "entry", "halted"} /\ ioe.has => ioe.done
  /\ ~ioe.has => ~ioe.done
  /\ ~ioe.early => ioe.inits <= 1

LEMMA CpusAre ==
  /\ Ncpu \in Nat \ {0} /\ 0 \in 0 .. (Ncpu - 1) /\ 0 \notin Others
  /\ 0 .. (Ncpu - 1) = Others \cup {0}
  /\ IsFiniteSet(Others) /\ Cardinality(Others) = Ncpu - 1
<1>1. Ncpu \in Nat \ {0}
  BY NativeIoAssumption
<1>2. IsFiniteSet(1 .. (Ncpu - 1)) /\ Cardinality(1 .. (Ncpu - 1)) = Ncpu - 1
  <2>1. 1 \in Int /\ Ncpu - 1 \in Int
    BY <1>1
  <2>2. /\ IsFiniteSet(1 .. (Ncpu - 1))
        /\ Cardinality(1 .. (Ncpu - 1)) = IF 1 > Ncpu - 1 THEN 0 ELSE (Ncpu - 1) - 1 + 1
    BY <2>1, FS_Interval
  <2> QED
    BY <1>1, <2>2
<1> QED
  BY <1>1, <1>2 DEF Others

\* A process that has read its byte is no longer waiting.
LEMMA OneLessWaits ==
  ASSUME NEW i \in Others, cpus[i] = "read", CpuTypeOK, cpus' = [cpus EXCEPT ![i] = "entry"]
  PROVE  /\ Cardinality({ j \in Others : cpus'[j] = "read" })
              = Cardinality({ j \in Others : cpus[j] = "read" }) - 1
<1> DEFINE S == { j \in Others : cpus[j] = "read" }
           T == { j \in Others : cpus'[j] = "read" }
<1>1. IsFiniteSet(S)
  <2>1. S \subseteq Others
    OBVIOUS
  <2> QED
    BY <2>1, CpusAre, FS_Subset
<1>2. i \in S /\ T = S \ {i}
  BY CpusAre DEF CpuTypeOK
<1> HIDE DEF S, T
<1>3. Cardinality(T) = Cardinality(S) - 1
  BY <1>1, <1>2, FS_RemoveElement
<1> QED
  BY <1>3 DEF S, T

LEMMA CpuSteps ==
  ASSUME CpuInv, [CpuNext]_cpuVars
  PROVE  CpuInv'
<1> USE CpusAre
<1>0. /\ cpus \in [0 .. (Ncpu - 1) -> {"main", "fork", "write", "none", "read", "entry", "halted"}]
      /\ DOMAIN cpus = Others \cup {0}
      /\ ioe.has \in BOOLEAN /\ ioe.done \in BOOLEAN /\ ioe.early \in BOOLEAN /\ ioe.inits \in Int
      /\ ioe = [has |-> ioe.has, done |-> ioe.done, inits |-> ioe.inits, early |-> ioe.early]
  BY DEF CpuInv, CpuTypeOK
<1>1. CASE UNCHANGED cpuVars
  BY <1>1 DEF CpuInv, CpuTypeOK, cpuVars
<1>2. CASE ioe_init
  <2>1. ioe' = [has |-> TRUE, done |-> ioe.done, inits |-> ioe.inits, early |-> ioe.early]
    BY <1>0, <1>2 DEF ioe_init
  <2> QED
    BY <1>2, <2>1 DEF ioe_init, CpuInv, CpuTypeOK
<1>3. CASE mpe_ioe
  <2>1. /\ cpus[0] = "fork" /\ (\A i \in Others : cpus[i] = "read") /\ sync' = sync
        /\ cpus' = [cpus EXCEPT ![0] = "write"]
    BY <1>3 DEF mpe_ioe, CpuInv
  <2>2. cpus'[0] = "write" /\ \A i \in Others : cpus'[i] = cpus[i]
    BY <1>0, <2>1
  <2>3. cpus' \in [0 .. (Ncpu - 1) -> {"main", "fork", "write", "none", "read", "entry", "halted"}]
    BY <1>0, <2>1
  <2>4. CASE ioe.has
    <3>1. ioe' = [has |-> ioe.has, done |-> TRUE, inits |-> ioe.inits + 1, early |-> ioe.early]
      BY <1>0, <1>3, <2>4 DEF mpe_ioe, Initialised
    <3>2. ~ioe.early => ioe.inits = 0
      BY <2>1 DEF CpuInv
    <3> QED
      BY <1>0, <2>1, <2>2, <2>3, <2>4, <3>1, <3>2 DEF CpuInv, CpuTypeOK
  <2>5. CASE ~ioe.has
    <3>1. ioe' = ioe
      BY <1>3, <2>5 DEF mpe_ioe
    <3> QED
      BY <1>0, <2>1, <2>2, <2>3, <2>5, <3>1 DEF CpuInv, CpuTypeOK
  <2> QED
    BY <1>0, <2>4, <2>5
<1>4. CASE mpe_write
  <2>1. /\ cpus[0] = "write" /\ (\A i \in Others : cpus[i] = "read") /\ sync' = Ncpu - 1
        /\ cpus' = [cpus EXCEPT ![0] = "entry"] /\ ioe' = ioe
    BY <1>4 DEF mpe_write, CpuInv
  <2>2. cpus'[0] = "entry" /\ \A i \in Others : cpus'[i] = "read"
    BY <1>0, <2>1
  <2>3. cpus' \in [0 .. (Ncpu - 1) -> {"main", "fork", "write", "none", "read", "entry", "halted"}]
    BY <1>0, <2>1
  <2> DEFINE T == { i \in Others : cpus'[i] = "read" }
  <2>4. T = Others
    BY <2>2
  <2> HIDE DEF T
  <2>5. sync' = Cardinality(T) /\ sync' \in Int
    BY <2>1, <2>4
  <2> USE DEF T
  <2> QED
    BY <1>0, <2>1, <2>2, <2>3, <2>5 DEF CpuInv, CpuTypeOK
<1>5. ASSUME NEW i \in DOMAIN cpus, do_io(i) PROVE CpuInv'
  <2>1. cpus[i] \in {"main", "entry"} /\ ioe.has /\ cpus' = cpus /\ sync' = sync
    BY <1>5 DEF do_io
  <2>2. CASE ioe.done
    <3>1. ioe' = ioe
      BY <1>5, <2>2 DEF do_io
    <3> QED
      BY <2>1, <3>1 DEF CpuInv, CpuTypeOK
  <2>3. CASE ~ioe.done
    <3>1. cpus[0] \in {"main", "fork"}
      BY <2>1, <2>3 DEF CpuInv
    <3>2. cpus[i] = "main"
      BY <1>0, <2>1, <3>1 DEF CpuInv
    <3>3. ioe' = [has |-> ioe.has, done |-> TRUE, inits |-> ioe.inits + 1, early |-> TRUE]
      BY <1>0, <1>5, <2>3, <3>2 DEF do_io, Initialised
    <3> QED
      BY <1>0, <2>1, <2>3, <3>1, <3>3 DEF CpuInv, CpuTypeOK
  <2> QED
    BY <1>0, <2>2, <2>3
<1>6. ASSUME NEW i \in DOMAIN cpus, mpe_fork(i) PROVE CpuInv'
  <2>1. /\ cpus[0] \in {"main", "fork"} /\ i \in Others /\ cpus[i] = "none"
        /\ cpus' = [cpus EXCEPT ![0] = "fork", ![i] = "read"] /\ sync' = sync /\ ioe' = ioe
    BY <1>6 DEF mpe_fork
  <2>2. /\ cpus'[0] = "fork" /\ cpus'[i] = "read" /\ \A j \in Others \ {i} : cpus'[j] = cpus[j]
        /\ cpus' \in [0 .. (Ncpu - 1) -> {"main", "fork", "write", "none", "read", "entry", "halted"}]
    BY <1>0, <2>1
  <2> QED
    BY <1>0, <2>1, <2>2 DEF CpuInv, CpuTypeOK
<1>7. ASSUME NEW i \in DOMAIN cpus, child_read(i) PROVE CpuInv'
  <2>1. /\ i \in Others /\ cpus[i] = "read" /\ sync > 0 /\ sync' = sync - 1 /\ ioe' = ioe
        /\ cpus' = [cpus EXCEPT ![i] = "entry"]
    BY <1>7 DEF child_read
  <2>2. cpus[0] = "entry"
    BY <2>1 DEF CpuInv
  <2>3. /\ cpus'[0] = "entry" /\ cpus'[i] = "entry" /\ \A j \in Others \ {i} : cpus'[j] = cpus[j]
        /\ cpus' \in [0 .. (Ncpu - 1) -> {"main", "fork", "write", "none", "read", "entry", "halted"}]
    BY <1>0, <2>1, <2>2
  <2>4. sync' = Cardinality({ j \in Others : cpus'[j] = "read" }) /\ sync' \in Int
    <3> DEFINE S == { j \in Others : cpus[j] = "read" }
               T == { j \in Others : cpus'[j] = "read" }
    <3>1. Cardinality(T) = Cardinality(S) - 1
      BY <2>1, OneLessWaits DEF CpuInv
    <3>2. sync = Cardinality(S) /\ sync \in Int
      BY <2>2 DEF CpuInv, CpuTypeOK
    <3> HIDE DEF S, T
    <3>3. sync' = Cardinality(T) /\ sync' \in Int
      BY <2>1, <3>1, <3>2
    <3> QED
      BY <3>3 DEF T
  <2>5. \A j \in Others : cpus'[j] \in {"read", "entry"}
    BY <2>2, <2>3 DEF CpuInv
  <2> QED
    BY <1>0, <2>1, <2>2, <2>3, <2>4, <2>5 DEF CpuInv, CpuTypeOK
<1>8. ASSUME NEW i \in DOMAIN cpus, halt(i) PROVE CpuInv'
  <2>1. cpus[i] = "entry" /\ cpus' = [j \in DOMAIN cpus |-> "halted"] /\ sync' = sync /\ ioe' = ioe
    BY <1>8 DEF halt
  <2>2. /\ \A j \in Others \cup {0} : cpus'[j] = "halted"
        /\ cpus' \in [0 .. (Ncpu - 1) -> {"main", "fork", "write", "none", "read", "entry", "halted"}]
    BY <1>0, <2>1
  <2>3. cpus[0] \in {"entry", "halted"}
    BY <1>0, <2>1 DEF CpuInv
  <2> QED
    BY <1>0, <2>1, <2>2, <2>3 DEF CpuInv, CpuTypeOK
<1> QED
  BY <1>1, <1>2, <1>3, <1>4, <1>5, <1>6, <1>7, <1>8 DEF CpuNext

LEMMA CpuStarts == ASSUME CpuInit PROVE CpuInv
BY CpusAre DEF CpuInit, CpuInv, CpuTypeOK, Others

----------------------------------------------------------------------------
(* The key queue. *)

Slots == 0 .. (QLEN - 1)

KeyTypeOK ==
  /\ queue \in [Slots -> Nat] /\ key_f \in Slots /\ key_r \in Slots
  /\ typed \in Seq(Nat) /\ got \in Seq(Nat) /\ lapped \in BOOLEAN

\* The key that is being typed is in its slot before the queue grows to it.
KeyInv ==
  /\ KeyTypeOK
  /\ event = "advance" => queue[key_r] = Len(typed) + 1
  /\ ~lapped => typed = got \o InQueue

\* The slot of the i-th key, and how many keys there are.
SlotOf(f, i) == IF f + i - 1 < QLEN THEN f + i - 1 ELSE f + i - 1 - QLEN
Waiting(f, r) == IF f <= r THEN r - f ELSE r - f + QLEN
QueueOf(q, f, r) == [i \in 1 .. Waiting(f, r) |-> q[SlotOf(f, i)]]

\* An index less than one turn away wraps around once.
LEMMA TurnsOnce ==
  ASSUME NEW a \in Int, -QLEN <= a, a < 2 * QLEN
  PROVE  a % QLEN = IF a < 0 THEN a + QLEN ELSE IF a < QLEN THEN a ELSE a - QLEN
<1>0. QLEN \in Nat \ {0}
  BY NativeIoAssumption
<1>1. /\ a = QLEN * (a \div QLEN) + (a % QLEN) /\ a % QLEN \in 0 .. (QLEN - 1)
      /\ a \div QLEN \in Int
  BY <1>0, Z3
<1>2. a \div QLEN \in {-1, 0, 1}
  BY <1>0, <1>1, Z3
<1>3. CASE a \div QLEN = -1
  BY <1>0, <1>1, <1>3
<1>4. CASE a \div QLEN = 0
  BY <1>0, <1>1, <1>4
<1>5. CASE a \div QLEN = 1
  BY <1>0, <1>1, <1>5
<1> QED
  BY <1>2, <1>3, <1>4, <1>5

LEMMA AdvanceIs ==
  ASSUME NEW i \in Slots
  PROVE  Advance(i) \in Slots /\ Advance(i) = IF i = QLEN - 1 THEN 0 ELSE i + 1
<1> DEFINE a == i + 1
<1>1. QLEN \in Nat \ {0} /\ a \in Int /\ 0 <= a /\ a < 2 * QLEN /\ -QLEN <= a
  BY NativeIoAssumption DEF Slots
<1> HIDE DEF a
<1>2. a % QLEN = IF a < 0 THEN a + QLEN ELSE IF a < QLEN THEN a ELSE a - QLEN
  BY <1>1, TurnsOnce
<1>3. a = i + 1
  BY DEF a
<1> QED
  BY <1>1, <1>2, <1>3 DEF Advance, Slots, a

LEMMA SlotsAre ==
  ASSUME NEW f \in Slots, NEW r \in Slots
  PROVE  /\ (r - f) % QLEN = Waiting(f, r) /\ Waiting(f, r) \in Slots
         /\ \A i \in 1 .. Waiting(f, r) :
              (f + i - 1) % QLEN = SlotOf(f, i) /\ SlotOf(f, i) \in Slots
<1> DEFINE a == r - f
<1>1. QLEN \in Nat \ {0} /\ a \in Int /\ a < QLEN /\ -QLEN < a /\ f \in Nat /\ r \in Nat
  BY NativeIoAssumption DEF Slots
<1>2. (r - f) % QLEN = Waiting(f, r) /\ Waiting(f, r) \in Slots
  <2>1. a = r - f
    OBVIOUS
  <2> HIDE DEF a
  <2>2. a % QLEN = IF a < 0 THEN a + QLEN ELSE IF a < QLEN THEN a ELSE a - QLEN
    BY <1>1, TurnsOnce
  <2>3. (IF a < 0 THEN a + QLEN ELSE IF a < QLEN THEN a ELSE a - QLEN) = Waiting(f, r)
    BY <1>1, <2>1 DEF Waiting
  <2>4. Waiting(f, r) \in Slots
    BY <1>1, <2>1 DEF Waiting, Slots
  <2> QED
    BY <2>2, <2>3, <2>4 DEF a
<1>3. ASSUME NEW i \in 1 .. Waiting(f, r)
      PROVE  (f + i - 1) % QLEN = SlotOf(f, i) /\ SlotOf(f, i) \in Slots
  <2> DEFINE b == f + i - 1
  <2>1. i \in Int /\ 1 <= i /\ i < QLEN /\ f < QLEN
    BY <1>1, <1>2 DEF Slots
  <2>2. b = f + i - 1 /\ b \in Int /\ b < 2 * QLEN /\ 0 <= b /\ -QLEN <= b
    BY <1>1, <2>1
  <2> HIDE DEF b
  <2>3. b % QLEN = IF b < 0 THEN b + QLEN ELSE IF b < QLEN THEN b ELSE b - QLEN
    BY <2>2, TurnsOnce
  <2>4. SlotOf(f, i) = (IF b < QLEN THEN b ELSE b - QLEN)
    BY <1>1, <2>1, <2>2 DEF SlotOf
  <2>5. SlotOf(f, i) \in Slots
    BY <1>1, <2>2, <2>4 DEF Slots
  <2> QED
    BY <1>1, <2>2, <2>3, <2>4, <2>5 DEF b
<1> QED
  BY <1>2, <1>3

QueueIsSlots == KeyTypeOK =>
  InQueue = QueueOf(queue, key_f, key_r) /\ InQueue \in Seq(Nat)
    /\ Len(InQueue) = Waiting(key_f, key_r)
LEMMA QueueIs == QueueIsSlots
<1> SUFFICES ASSUME KeyTypeOK
             PROVE  InQueue = QueueOf(queue, key_f, key_r) /\ InQueue \in Seq(Nat)
                      /\ Len(InQueue) = Waiting(key_f, key_r)
  BY DEF QueueIsSlots
<1> DEFINE n == Waiting(key_f, key_r)
<1>1. /\ (key_r - key_f) % QLEN = n /\ n \in Nat
      /\ \A i \in 1 .. n : (key_f + i - 1) % QLEN = SlotOf(key_f, i) /\ SlotOf(key_f, i) \in Slots
  <2>1. key_f \in Slots /\ key_r \in Slots
    BY DEF KeyTypeOK
  <2>2. n \in Slots
    BY <2>1, SlotsAre
  <2> HIDE DEF n
  <2>3. n \in Nat
    BY <2>2, NativeIoAssumption DEF Slots
  <2> USE DEF n
  <2> QED
    BY <2>1, <2>3, SlotsAre
<1>2. InQueue = [i \in 1 .. n |-> queue[SlotOf(key_f, i)]]
  BY <1>1 DEF InQueue
<1> HIDE DEF n
<1>3. \A i \in 1 .. n : queue[SlotOf(key_f, i)] \in Nat
  BY <1>1 DEF KeyTypeOK
<1> QED
  BY <1>1, <1>2, <1>3 DEF QueueOf, n
LEMMA QueueIsNext == QueueIsSlots'
BY QueueIs, PTL

\* Concatenation is associative.
Grouped(p, s, q) == (p \o s) \o q = p \o (s \o q)
LEMMA Regrouped ==
  ASSUME NEW S, NEW p \in Seq(S), NEW s \in Seq(S), NEW q \in Seq(S)
  PROVE  Grouped(p, s, q)
<1>1. (p \o s) \o q = p \o (s \o q)
  BY ConcatAssociative
<1> QED
  BY <1>1 DEF Grouped

\* A list is known from its length and its elements.
LEMMA GrowsByOne ==
  ASSUME NEW S, NEW s \in Seq(S), NEW t \in Seq(S), NEW x \in S, Len(t) = Len(s) + 1,
         \A i \in 1 .. Len(s) : t[i] = s[i], t[Len(s) + 1] = x
  PROVE  t = Append(s, x)
OBVIOUS

LEMMA HeadAndRest ==
  ASSUME NEW S, NEW s \in Seq(S), NEW t \in Seq(S), Len(s) = Len(t) + 1,
         \A i \in 1 .. Len(t) : t[i] = s[i + 1]
  PROVE  s = <<s[1]>> \o t
<1> DEFINE h == <<s[1]>>
           ht == h \o t
<1>1. s[1] \in S /\ h \in Seq(S) /\ Len(h) = 1 /\ h[1] = s[1]
  OBVIOUS
<1> HIDE DEF h
<1>2. /\ ht \in Seq(S) /\ Len(ht) = Len(h) + Len(t)
      /\ \A i \in 1 .. Len(h) + Len(t) : ht[i] = IF i <= Len(h) THEN h[i] ELSE t[i - Len(h)]
  <2>1. h \in Seq(S) /\ t \in Seq(S)
    BY <1>1
  <2> QED
    BY <2>1, ConcatProperties, Zenon
<1> HIDE DEF ht
<1>3. ASSUME NEW i \in 1 .. Len(s) PROVE ht[i] = s[i]
  <2>1. CASE i = 1
    BY <1>1, <1>2, <2>1
  <2>2. CASE i # 1
    <3>1. i - 1 \in 1 .. Len(t) /\ (i - 1) + 1 = i
      BY <2>2
    <3>2. t[i - 1] = s[i]
      BY <3>1
    <3>3. ht[i] = t[i - 1]
      BY <1>1, <1>2, <2>2
    <3> QED
      BY <3>2, <3>3
  <2> QED
    BY <2>1, <2>2
<1>4. ht = s
  BY <1>1, <1>2, <1>3
<1> QED
  BY <1>4 DEF ht, h

LEMMA QueueUnchanged ==
  ASSUME KeyInv, UNCHANGED <<queue, key_f, key_r, typed, got, lapped>>, event' # "advance"
  PROVE  KeyInv'
BY DEF KeyInv, KeyTypeOK, InQueue

\* The event thread writes into a slot that the queue does not hold yet.
LEMMA EventWrites ==
  ASSUME KeyInv, event_write
  PROVE  KeyInv'
<1>1. /\ queue' = [queue EXCEPT ![key_r] = Len(typed) + 1]
      /\ UNCHANGED <<key_f, key_r, typed, got, lapped>>
  BY DEF event_write
<1>2. KeyTypeOK
  BY DEF KeyInv
<1>3. KeyTypeOK' /\ queue'[key_r] = Len(typed) + 1
  BY <1>1, <1>2 DEF KeyTypeOK
<1> DEFINE n == Waiting(key_f, key_r)
<1>4. /\ InQueue = [i \in 1 .. n |-> queue[SlotOf(key_f, i)]]
      /\ InQueue' = [i \in 1 .. n |-> queue'[SlotOf(key_f, i)]]
  BY <1>1, <1>2, <1>3, QueueIs, QueueIsNext DEF QueueIsSlots, QueueOf, Waiting, SlotOf
<1>5. \A i \in 1 .. n : SlotOf(key_f, i) \in Slots /\ SlotOf(key_f, i) # key_r
  <2>1. QLEN \in Nat \ {0} /\ key_f \in 0 .. (QLEN - 1) /\ key_r \in 0 .. (QLEN - 1)
    BY <1>2, NativeIoAssumption DEF KeyTypeOK, Slots
  <2>2. \A i \in 1 .. n : SlotOf(key_f, i) # key_r
    BY <2>1 DEF SlotOf, Waiting
  <2> QED
    BY <1>2, <2>2, SlotsAre DEF KeyTypeOK
<1> HIDE DEF n
<1>6. \A i \in 1 .. n : queue'[SlotOf(key_f, i)] = queue[SlotOf(key_f, i)]
  BY <1>1, <1>2, <1>5 DEF KeyTypeOK
<1>7. InQueue' = InQueue
  BY <1>4, <1>6
<1> QED
  BY <1>1, <1>3, <1>7 DEF KeyInv

LEMMA EventAdvances ==
  ASSUME KeyInv, event_advance
  PROVE  KeyInv'
<1>1. /\ key_r' = Advance(key_r) /\ event' = "unlock" /\ typed' = Append(typed, Len(typed) + 1)
      /\ lapped' = (lapped \/ key_r' = key_f) /\ UNCHANGED <<queue, key_f, got>>
      /\ event = "advance"
  BY DEF event_advance
<1>2. KeyTypeOK /\ queue[key_r] = Len(typed) + 1
  BY <1>1 DEF KeyInv
<1>3. KeyTypeOK'
  <2>1. key_r' \in Slots
    BY <1>1, <1>2, AdvanceIs DEF KeyTypeOK
  <2>2. typed' \in Seq(Nat)
    BY <1>1, <1>2 DEF KeyTypeOK
  <2>3. lapped' \in BOOLEAN
    BY <1>1, Zenon
  <2> QED
    BY <1>1, <1>2, <2>1, <2>2, <2>3 DEF KeyTypeOK
<1>4. ASSUME ~lapped' PROVE typed' = got' \o InQueue'
  <2> DEFINE n == Waiting(key_f, key_r)
             m == Waiting(key_f, key_r')
             x == Len(typed) + 1
  <2>1. ~lapped /\ key_r' # key_f
    BY <1>1, <1>4, Zenon
  <2>2. typed = got \o InQueue
    BY <2>1 DEF KeyInv
  <2>3. /\ InQueue = [i \in 1 .. n |-> queue[SlotOf(key_f, i)]]
        /\ InQueue' = [i \in 1 .. m |-> queue[SlotOf(key_f, i)]]
        /\ InQueue \in Seq(Nat) /\ InQueue' \in Seq(Nat) /\ Len(InQueue) = n /\ Len(InQueue') = m
    BY <1>1, <1>2, <1>3, QueueIs, QueueIsNext DEF QueueIsSlots, QueueOf, Waiting, SlotOf
  <2>4. m = n + 1 /\ SlotOf(key_f, n + 1) = key_r /\ n \in Nat
    <3>1. QLEN \in Nat \ {0} /\ key_f \in 0 .. (QLEN - 1) /\ key_r \in 0 .. (QLEN - 1)
            /\ key_r' = IF key_r = QLEN - 1 THEN 0 ELSE key_r + 1
      BY <1>1, <1>2, AdvanceIs, NativeIoAssumption DEF KeyTypeOK, Slots
    <3> QED
      BY <2>1, <3>1 DEF Waiting, SlotOf
  <2> HIDE DEF n, m
  <2>5. \A i \in 1 .. n : InQueue'[i] = InQueue[i]
    BY <2>3, <2>4
  <2>6. InQueue'[n + 1] = x
    BY <1>2, <2>3, <2>4
  <2>7. x \in Nat /\ got \in Seq(Nat) /\ typed \in Seq(Nat)
    BY <1>2 DEF KeyTypeOK
  <2>8. InQueue' = Append(InQueue, x)
    BY <2>3, <2>4, <2>5, <2>6, <2>7, GrowsByOne
  <2> DEFINE y == <<x>>
  <2>9. typed' = Append(typed, x)
    BY <1>1
  <2> HIDE DEF x
  <2>10. y \in Seq(Nat)
    BY <2>7
  <2>11. typed' = typed \o y /\ InQueue' = InQueue \o y
    <3>1. typed \in Seq(Nat) /\ InQueue \in Seq(Nat) /\ x \in Nat
      BY <2>3, <2>7
    <3>2. Append(typed, x) = typed \o y
      BY <3>1, AppendIsConcat, Zenon
    <3>3. Append(InQueue, x) = InQueue \o y
      BY <3>1, AppendIsConcat, Zenon
    <3> QED
      BY <2>8, <2>9, <3>2, <3>3, Zenon
  <2> HIDE DEF y
  <2>12. (got \o InQueue) \o y = got \o (InQueue \o y)
    <3>1. got \in Seq(Nat) /\ InQueue \in Seq(Nat) /\ y \in Seq(Nat)
      BY <2>3, <2>7, <2>10
    <3>2. Grouped(got, InQueue, y)
      BY <3>1, Regrouped
    <3> QED
      BY <3>2, Zenon DEF Grouped
  <2> QED
    BY <1>1, <2>2, <2>11, <2>12, Zenon
<1> QED
  BY <1>1, <1>3, <1>4 DEF KeyInv

LEMMA ReaderTakes ==
  ASSUME KeyInv, reader_take
  PROVE  KeyInv'
<1>1. /\ key_f # key_r /\ got' = Append(got, queue[key_f]) /\ key_f' = Advance(key_f)
      /\ UNCHANGED <<queue, key_r, event, typed, lapped>>
  BY DEF reader_take
<1>2. KeyTypeOK
  BY DEF KeyInv
<1> DEFINE x == queue[key_f]
<1>3. x \in Nat
  BY <1>2 DEF KeyTypeOK
<1>4. KeyTypeOK'
  <2>1. key_f' \in Slots
    BY <1>1, <1>2, AdvanceIs DEF KeyTypeOK
  <2>2. got' \in Seq(Nat)
    BY <1>1, <1>2, <1>3 DEF KeyTypeOK
  <2> QED
    BY <1>1, <1>2, <2>1, <2>2 DEF KeyTypeOK
<1>5. ASSUME ~lapped' PROVE typed' = got' \o InQueue'
  <2> DEFINE n == Waiting(key_f, key_r)
             m == Waiting(key_f', key_r)
  <2>1. typed = got \o InQueue
    BY <1>1, <1>5 DEF KeyInv
  <2>2. /\ InQueue = [i \in 1 .. n |-> queue[SlotOf(key_f, i)]]
        /\ InQueue' = [i \in 1 .. m |-> queue[SlotOf(key_f', i)]]
        /\ InQueue \in Seq(Nat) /\ InQueue' \in Seq(Nat) /\ Len(InQueue) = n /\ Len(InQueue') = m
    BY <1>1, <1>2, <1>4, QueueIs, QueueIsNext DEF QueueIsSlots, QueueOf, Waiting, SlotOf
  <2>3. /\ n = m + 1 /\ m \in Nat /\ SlotOf(key_f, 1) = key_f
        /\ \A i \in 1 .. m : SlotOf(key_f', i) = SlotOf(key_f, i + 1)
    <3>1. QLEN \in Nat \ {0} /\ key_f \in 0 .. (QLEN - 1) /\ key_r \in 0 .. (QLEN - 1)
            /\ key_f' = IF key_f = QLEN - 1 THEN 0 ELSE key_f + 1
      BY <1>1, <1>2, AdvanceIs, NativeIoAssumption DEF KeyTypeOK, Slots
    <3>2. n = m + 1 /\ m \in Nat /\ m < QLEN
      BY <1>1, <3>1 DEF Waiting
    <3> HIDE DEF n, m
    <3>3. SlotOf(key_f, 1) = key_f
      BY <3>1 DEF SlotOf
    <3>4. \A i \in 1 .. m : SlotOf(key_f', i) = SlotOf(key_f, i + 1)
      BY <3>1, <3>2 DEF SlotOf
    <3> QED
      BY <3>2, <3>3, <3>4
  <2> HIDE DEF n, m
  <2>4. \A i \in 1 .. m : InQueue'[i] = InQueue[i + 1]
    BY <2>2, <2>3
  <2>5. InQueue[1] = x
    BY <2>2, <2>3
  <2> DEFINE y == <<x>>
  <2>6. InQueue = y \o InQueue'
    <3>1. InQueue = <<InQueue[1]>> \o InQueue'
      BY <2>2, <2>3, <2>4, HeadAndRest
    <3> HIDE DEF x
    <3> QED
      BY <2>5, <3>1
  <2>7. got' = got \o y /\ got \in Seq(Nat) /\ y \in Seq(Nat)
    <3>1. got' = Append(got, x) /\ got \in Seq(Nat)
      BY <1>1, <1>2 DEF KeyTypeOK
    <3> HIDE DEF x
    <3>2. y \in Seq(Nat)
      BY <1>3
    <3> QED
      BY <1>3, <3>1, <3>2, AppendIsConcat, Zenon
  <2> HIDE DEF y
  <2>8. (got \o y) \o InQueue' = got \o (y \o InQueue')
    <3>1. got \in Seq(Nat) /\ InQueue' \in Seq(Nat) /\ y \in Seq(Nat)
      BY <2>2, <2>7
    <3>2. Grouped(got, y, InQueue')
      BY <3>1, Regrouped
    <3> QED
      BY <3>2, Zenon DEF Grouped
  <2> QED
    BY <1>1, <2>1, <2>6, <2>7, <2>8, Zenon
<1> QED
  BY <1>1, <1>4, <1>5 DEF KeyInv

LEMMA KeySteps ==
  ASSUME KeyInv, [KeyNext]_keyVars
  PROVE  KeyInv'
<1>1. CASE UNCHANGED keyVars
  BY <1>1 DEF keyVars, KeyInv, KeyTypeOK, InQueue
<1>2. CASE event_key \/ event_lock \/ event_unlock \/ reader_lock \/ reader_none \/ reader_unlock
  <2>1. UNCHANGED <<queue, key_f, key_r, typed, got, lapped>>
    BY <1>2 DEF event_key, event_lock, event_unlock, reader_lock, reader_none, reader_unlock
  <2>2. event' = event \/ event' # "advance"
    BY <1>2 DEF event_key, event_lock, event_unlock, reader_lock, reader_none, reader_unlock
  <2> QED
    BY <2>1, <2>2 DEF KeyInv, KeyTypeOK, InQueue
<1> QED
  BY <1>1, <1>2, EventWrites, EventAdvances, ReaderTakes DEF KeyNext

LEMMA KeyStarts == ASSUME KeyInit PROVE KeyInv
<1>1. QLEN \in Nat \ {0}
  BY NativeIoAssumption
<1>2. KeyTypeOK
  <2>1. queue = [i \in Slots |-> 0] /\ key_f = 0 /\ key_r = 0 /\ typed = <<>> /\ got = <<>>
          /\ lapped = FALSE
    BY DEF KeyInit, Slots
  <2>2. 0 \in Slots
    BY <1>1 DEF Slots
  <2>3. typed \in Seq(Nat) /\ got \in Seq(Nat)
    BY <2>1
  <2>4. lapped \in BOOLEAN
    BY <2>1, Zenon
  <2> QED
    BY <2>1, <2>2, <2>3, <2>4 DEF KeyTypeOK
<1>3. Len(InQueue) = 0 /\ InQueue \in Seq(Nat)
  BY <1>1, <1>2, QueueIs DEF QueueIsSlots, Waiting, KeyInit
<1>4. InQueue = <<>> /\ got = <<>> /\ typed = <<>>
  BY <1>3 DEF KeyInit
<1>5. <<>> \o <<>> = <<>>
  OBVIOUS
<1> QED
  BY <1>2, <1>4, <1>5 DEF KeyInit, KeyInv

----------------------------------------------------------------------------
(* The audio pipe. *)

AudioTypeOK ==
  /\ pipe \in Seq(Nat) /\ written \in Seq(Nat) /\ played \in Seq(Nat) /\ count \in Int
  /\ play = [at |-> play.at, nread |-> play.nread, b |-> play.b, tmp |-> play.tmp,
             stream |-> play.stream]
  /\ play.at \in {"idle", "ask", "read", "store"} /\ play.stream \in Seq(Nat)
  /\ play.nread \in Int /\ play.b \in Nat /\ play.tmp \in Int
  /\ write = [at |-> write.at, buf |-> write.buf, nwrite |-> write.nwrite, n |-> write.n,
              tmp |-> write.tmp]
  /\ write.at \in {"idle", "write", "load", "store"} /\ write.buf \in Seq(Nat)
  /\ write.nwrite \in Nat /\ write.n \in Nat /\ write.tmp \in Int
  /\ raced \in BOOLEAN /\ over \in BOOLEAN /\ short \in BOOLEAN

\* Bytes that have left the pipe, and are in it, without being counted yet.
Taken == IF play.at = "idle" THEN 0 ELSE play.b
Added == IF write.at \in {"load", "store"} THEN write.n ELSE 0

\* What count says, as long as no two updates of it have overlapped.
CountOK ==
  /\ play.at = "ask" => play.b = 0
  /\ play.at \in {"read", "store"} =>
       0 <= play.nread /\ play.nread <= count /\ play.b \in {0, play.nread}
  /\ play.at = "store" => play.b = play.nread
  /\ write.at = "write" =>
       /\ write.nwrite \in {0, Len(write.buf)}
       /\ write.nwrite < Len(write.buf) => Len(write.buf) <= PipeSize - Len(pipe)
  /\ write.at \in {"load", "store"} => write.nwrite = 0 /\ write.n = Len(write.buf)
  /\ 0 <= count /\ count = (Len(pipe) + Taken) - Added
  /\ ~short

\* Where the bytes are that were written: some have been played, some are in
\* the stream, some in the pipe, and the rest is still in the writer's buffer.
InStream == IF play.at = "idle" THEN <<>> ELSE play.stream
Rest == IF write.at = "write" /\ write.nwrite < Len(write.buf) THEN write.buf ELSE <<>>
InOrder(p, s, q, r) == ((p \o s) \o q) \o r

\* The same whatever count says, as long as no read and no write is cut short and
\* the callback has not asked for more than SDL does.
BytesOK ==
  /\ play.at = "ask" => play.b = 0 /\ play.stream = <<>>
  /\ play.at \in {"read", "store"} =>
       play.b \in {0, play.nread} /\ Len(play.stream) = play.b /\ play.nread <= StreamLen
  /\ write.at = "write" => write.nwrite \in {0, Len(write.buf)}
  /\ write.at \in {"load", "store"} => write.nwrite = 0 /\ write.n = Len(write.buf)
  /\ InOrder(played, InStream, pipe, Rest) = written

AudioInv ==
  /\ AudioTypeOK
  /\ ~raced => CountOK
  /\ ~short /\ ~over => BytesOK

\* How bytes move on.
LEMMA Joined ==
  ASSUME NEW S, NEW p \in Seq(S), NEW s \in Seq(S)
  PROVE  p \o s \in Seq(S) /\ p \o <<>> = p
<1>1. p \o s \in Seq(S)
  BY ConcatProperties
<1>2. p \o <<>> = p
  BY ConcatEmptySeq
<1> QED
  BY <1>1, <1>2

LEMMA Plays ==
  ASSUME NEW S, NEW p \in Seq(S), NEW s \in Seq(S), NEW q \in Seq(S), NEW r \in Seq(S)
  PROVE  InOrder(p \o s, <<>>, q, r) = InOrder(p, s, q, r)
<1>1. p \o s \in Seq(S)
  BY Joined
<1>2. (p \o s) \o <<>> = p \o s
  BY <1>1, Joined
<1> QED
  BY <1>2, Zenon DEF InOrder

LEMMA Streams ==
  ASSUME NEW S, NEW p \in Seq(S), NEW s \in Seq(S), NEW q \in Seq(S), NEW r \in Seq(S)
  PROVE  InOrder(p, <<>>, s \o q, r) = InOrder(p, s, q, r)
<1>1. p \o <<>> = p
  BY Joined
<1>2. Grouped(p, s, q)
  BY Regrouped
<1> QED
  BY <1>1, <1>2, Zenon DEF InOrder, Grouped

LEMMA Pipes ==
  ASSUME NEW S, NEW p \in Seq(S), NEW s \in Seq(S), NEW q \in Seq(S), NEW r \in Seq(S)
  PROVE  InOrder(p, s, q \o r, <<>>) = InOrder(p, s, q, r)
<1> DEFINE ps == p \o s
<1>1. ps \in Seq(S)
  BY Joined
<1> HIDE DEF ps
<1>2. ps \o (q \o r) \in Seq(S)
  <2>1. q \o r \in Seq(S)
    BY Joined
  <2> QED
    BY <1>1, <2>1, Joined
<1>3. Grouped(ps, q, r)
  BY <1>1, Regrouped
<1>4. (ps \o (q \o r)) \o <<>> = ps \o (q \o r)
  BY <1>2, Joined
<1> QED
  BY <1>3, <1>4, Zenon DEF InOrder, Grouped, ps

Begun(p, s, q, r) == InOrder(p, s, q, <<>>) \o r = InOrder(p, s, q, r)
LEMMA Begins ==
  ASSUME NEW S, NEW p \in Seq(S), NEW s \in Seq(S), NEW q \in Seq(S), NEW r \in Seq(S)
  PROVE  Begun(p, s, q, r)
<1> DEFINE ps == p \o s
<1>1. ps \in Seq(S)
  BY Joined
<1> HIDE DEF ps
<1>2. ps \o q \in Seq(S)
  BY <1>1, Joined
<1>3. (ps \o q) \o <<>> = ps \o q
  BY <1>2, Joined
<1> QED
  BY <1>3, Zenon DEF InOrder, Begun, ps

\* Bytes at the start of the pipe, and the others.
LEMMA Splits ==
  ASSUME NEW q \in Seq(Nat), NEW n \in Nat, n <= Len(q)
  PROVE  /\ SubSeq(q, 1, n) \in Seq(Nat) /\ SubSeq(q, n + 1, Len(q)) \in Seq(Nat)
         /\ Len(SubSeq(q, n + 1, Len(q))) = Len(q) - n
         /\ q = SubSeq(q, 1, n) \o SubSeq(q, n + 1, Len(q))
<1> DEFINE l == Len(q)
<1>1. SubSeq(q, 1, n) \in Seq(Nat)
  OBVIOUS
<1>2. SubSeq(q, n + 1, Len(q)) \in Seq(Nat) /\ Len(SubSeq(q, n + 1, Len(q))) = Len(q) - n
  OBVIOUS
<1>3. 1 \in 1 .. l + 1 /\ n \in 1 - 1 .. l /\ l \in n .. l
  OBVIOUS
<1>4. SubSeq(q, 1, n) \o SubSeq(q, n + 1, l) = SubSeq(q, 1, l)
  <2> HIDE DEF l
  <2>1. l = Len(q)
    BY DEF l
  <2> QED
    BY <1>3, <2>1, ConcatAdjacentSubSeq
<1>5. SubSeq(q, 1, l) = q
  BY SubSeqFull
<1> QED
  BY <1>1, <1>2, <1>4, <1>5, Zenon

LEMMA PlayAsks ==
  ASSUME AudioInv, audio_play
  PROVE  AudioInv'
<1> DEFINE at == IF count < StreamLen THEN "ask" ELSE "read"
<1>1. /\ UNCHANGED <<pipe, count, write, written, played, raced, over, short>> /\ play.at = "idle"
      /\ play' = [play EXCEPT !.at = at, !.b = 0, !.stream = <<>>, !.nread = StreamLen]
  BY DEF audio_play
<1>2. /\ AudioTypeOK /\ StreamLen \in Nat /\ at \in {"ask", "read"}
      /\ at = "read" => StreamLen <= count
  <2>1. AudioTypeOK
    BY DEF AudioInv
  <2>2. StreamLen \in Nat
    BY NativeIoAssumption
  <2>3. count \in Int
    BY <2>1 DEF AudioTypeOK
  <2>4. /\ at \in {"ask", "read"}
        /\ at = "read" => StreamLen <= count
    BY <2>2, <2>3
  <2> QED
    BY <2>1, <2>2, <2>4
<1> HIDE DEF at
<1>3. play' = [at |-> at, nread |-> StreamLen, b |-> 0, tmp |-> play.tmp, stream |-> <<>>]
  BY <1>1, <1>2 DEF AudioTypeOK
<1>4. /\ play'.at = at /\ play'.nread = StreamLen /\ play'.b = 0 /\ play'.stream = <<>>
      /\ play'.tmp = play.tmp /\ <<>> \in Seq(Nat) /\ Len(<<>>) = 0
      /\ play' = [at |-> play'.at, nread |-> play'.nread, b |-> play'.b, tmp |-> play'.tmp,
                  stream |-> play'.stream]
  BY <1>3
<1>5. AudioTypeOK'
  BY <1>1, <1>2, <1>4 DEF AudioTypeOK
<1>6. InStream' = InStream /\ Rest' = Rest /\ Taken' = Taken /\ Added' = Added
  BY <1>1, <1>2, <1>4 DEF InStream, Rest, Taken, Added
<1>7. ~raced' => CountOK'
  BY <1>1, <1>2, <1>4, <1>6 DEF AudioInv, CountOK
<1>8. ~short' /\ ~over' => BytesOK'
  BY <1>1, <1>2, <1>4, <1>6 DEF AudioInv, BytesOK
<1> QED
  BY <1>5, <1>7, <1>8 DEF AudioInv

LEMMA PlayCounts ==
  ASSUME AudioInv, play_ask
  PROVE  AudioInv'
<1>1. /\ UNCHANGED <<pipe, count, write, written, played, raced, short>> /\ play.at = "ask"
      /\ play' = [play EXCEPT !.at = "read", !.nread = count]
      /\ over' = (over \/ count > StreamLen)
  BY DEF play_ask
<1>2. AudioTypeOK /\ count \in Int /\ StreamLen \in Nat
  <2>1. AudioTypeOK
    BY DEF AudioInv
  <2>2. count \in Int /\ StreamLen \in Nat
    BY <2>1, NativeIoAssumption DEF AudioTypeOK
  <2> QED
    BY <2>1, <2>2
<1>3. play' = [at |-> "read", nread |-> count, b |-> play.b, tmp |-> play.tmp,
               stream |-> play.stream]
  BY <1>1, <1>2 DEF AudioTypeOK
<1>4. /\ play'.at = "read" /\ play'.nread = count /\ play'.b = play.b
      /\ play'.stream = play.stream /\ play'.tmp = play.tmp
      /\ play' = [at |-> play'.at, nread |-> play'.nread, b |-> play'.b, tmp |-> play'.tmp,
                  stream |-> play'.stream]
  BY <1>3
<1>5. AudioTypeOK'
  BY <1>1, <1>2, <1>4 DEF AudioTypeOK
<1>6. InStream' = InStream /\ Rest' = Rest /\ Taken' = Taken /\ Added' = Added
  BY <1>1, <1>4 DEF InStream, Rest, Taken, Added
<1>7. ~raced' => CountOK'
  BY <1>1, <1>2, <1>4, <1>6 DEF AudioInv, CountOK
<1>8. ~short' /\ ~over' => BytesOK'
  <2>1. ~over' => ~over /\ ~(count > StreamLen)
    BY <1>1, Zenon
  <2>2. ~over' => count <= StreamLen
    BY <1>2, <2>1
  <2>3. <<>> \in Seq(Nat) /\ Len(<<>>) = 0
    OBVIOUS
  <2> QED
    BY <1>1, <1>4, <1>6, <2>1, <2>2, <2>3 DEF AudioInv, BytesOK
<1> QED
  BY <1>5, <1>7, <1>8 DEF AudioInv

LEMMA PlayReads ==
  ASSUME AudioInv, play_read
  PROVE  AudioInv'
<1> DEFINE n == IF Len(pipe) < play.nread THEN Len(pipe) ELSE play.nread
           a == SubSeq(pipe, 1, n)
           z == SubSeq(play.stream, n + 1, Len(play.stream))
<1>1. /\ play.at = "read" /\ play.b < play.nread /\ pipe' = SubSeq(pipe, n + 1, Len(pipe))
      /\ play' = [play EXCEPT !.b = @ + n, !.stream = a \o SubSeq(@, n + 1, Len(@))]
      /\ short' = (short \/ n < play.nread)
      /\ UNCHANGED <<count, write, written, played, raced, over>>
  BY Zenon DEF play_read
<1>2. /\ AudioTypeOK /\ pipe \in Seq(Nat) /\ Len(pipe) \in Nat /\ play.stream \in Seq(Nat)
      /\ play.nread \in Int /\ play.b \in Nat /\ count \in Int /\ PipeSize \in Nat
      /\ write.buf \in Seq(Nat) /\ write.n \in Nat /\ played \in Seq(Nat)
  <2>1. AudioTypeOK
    BY DEF AudioInv
  <2>2. /\ pipe \in Seq(Nat) /\ Len(pipe) \in Nat /\ play.stream \in Seq(Nat)
        /\ play.nread \in Int /\ play.b \in Nat /\ count \in Int /\ PipeSize \in Nat
        /\ write.buf \in Seq(Nat) /\ write.n \in Nat /\ played \in Seq(Nat)
    BY <2>1, NativeIoAssumption DEF AudioTypeOK
  <2> QED
    BY <2>1, <2>2
<1>3. n \in Nat /\ n <= Len(pipe) /\ n <= play.nread /\ n \in Int
  BY <1>1, <1>2
<1> HIDE DEF n
<1>4. /\ a \in Seq(Nat) /\ pipe' \in Seq(Nat) /\ Len(pipe') = Len(pipe) - n
      /\ pipe = a \o pipe' /\ Len(a) = n
  <2>1. Len(SubSeq(pipe, 1, n)) = n
    BY <1>2, <1>3
  <2> QED
    BY <1>1, <1>2, <1>3, <2>1, Splits
<1>5. z \in Seq(Nat) /\ (play.stream = <<>> => z = <<>>)
  BY <1>2, <1>3
<1> HIDE DEF a, z
<1>6. a \o z \in Seq(Nat) /\ (play.stream = <<>> => a \o z = a)
  BY <1>4, <1>5, ConcatEmptySeq
<1>7. play' = [at |-> "read", nread |-> play.nread, b |-> play.b + n, tmp |-> play.tmp,
               stream |-> a \o z]
  <2>1. play' = [play EXCEPT !.b = play.b + n, !.stream = a \o z]
    BY <1>1, Zenon DEF z
  <2> QED
    BY <1>1, <1>2, <2>1 DEF AudioTypeOK
<1>8. /\ play'.at = "read" /\ play'.nread = play.nread /\ play'.b = play.b + n
      /\ play'.stream = a \o z /\ play'.tmp = play.tmp /\ play.b + n \in Nat
      /\ play' = [at |-> play'.at, nread |-> play'.nread, b |-> play'.b, tmp |-> play'.tmp,
                  stream |-> play'.stream]
  BY <1>2, <1>3, <1>7
<1>9. AudioTypeOK'
  <2>1. short' \in BOOLEAN
    BY <1>1
  <2> QED
    BY <1>1, <1>2, <1>4, <1>6, <1>8, <2>1 DEF AudioTypeOK
<1>10. Rest' = Rest /\ Added' = Added /\ Added \in Nat /\ Rest \in Seq(Nat)
  BY <1>1, <1>2 DEF Rest, Added
<1>11. ~raced' => CountOK'
  <2> SUFFICES ASSUME ~raced PROVE CountOK'
    BY <1>1
  <2>1. CountOK
    BY DEF AudioInv
  <2>2. play.b = 0 /\ 0 < play.nread /\ play.nread <= count
    BY <1>1, <1>2, <2>1 DEF CountOK
  <2>3. n = play.nread
    <3>1. count = (Len(pipe) + 0) - Added
      BY <1>1, <2>1, <2>2 DEF CountOK, Taken
    <3>2. play.nread <= Len(pipe)
      BY <1>2, <1>10, <2>2, <3>1
    <3>3. n = IF Len(pipe) < play.nread THEN Len(pipe) ELSE play.nread
      BY DEF n
    <3>4. play.nread \in Int /\ Len(pipe) \in Nat
      BY <1>2
    <3> HIDE DEF n
    <3> QED
      BY <3>2, <3>3, <3>4
  <2>4. play'.b = play.nread /\ Taken' = play.nread /\ Taken = 0
    <3>1. play'.b = play.b + n /\ play.at = "read" /\ play'.at = "read"
      BY <1>1, <1>8
    <3>2. play.b + n = play.nread
      BY <1>2, <2>2, <2>3
    <3> QED
      BY <2>2, <3>1, <3>2 DEF Taken
  <2>5. count' = (Len(pipe') + Taken') - Added' /\ 0 <= count'
    <3>1. count = (Len(pipe) + Taken) - Added /\ 0 <= count
      BY <2>1 DEF CountOK
    <3> QED
      BY <1>1, <1>2, <1>4, <1>10, <2>3, <2>4, <3>1
  <2>6. ~short'
    <3>1. ~(n < play.nread)
      BY <1>2, <2>3
    <3> QED
      BY <1>1, <2>1, <3>1 DEF CountOK
  <2>7. Len(pipe') <= Len(pipe) /\ Len(pipe') \in Nat
    BY <1>2, <1>3, <1>4
  <2>8. write'.at = "write" =>
          /\ write'.nwrite \in {0, Len(write'.buf)}
          /\ write'.nwrite < Len(write'.buf) => Len(write'.buf) <= PipeSize - Len(pipe')
    <3> SUFFICES ASSUME write.at = "write"
                 PROVE  /\ write.nwrite \in {0, Len(write.buf)}
                        /\ write.nwrite < Len(write.buf) =>
                             Len(write.buf) <= PipeSize - Len(pipe')
      BY <1>1
    <3>1. /\ write.nwrite \in {0, Len(write.buf)}
          /\ write.nwrite < Len(write.buf) => Len(write.buf) <= PipeSize - Len(pipe)
      BY <2>1 DEF CountOK
    <3>2. Len(write.buf) <= PipeSize - Len(pipe) => Len(write.buf) <= PipeSize - Len(pipe')
      <4>1. Len(write.buf) \in Nat
        BY <1>2
      <4> QED
        BY <1>2, <2>7, <4>1
    <3> QED
      BY <3>1, <3>2
  <2> QED
    BY <1>1, <1>8, <2>1, <2>2, <2>4, <2>5, <2>6, <2>8 DEF CountOK
<1>12. ~short' /\ ~over' => BytesOK'
  <2> SUFFICES ASSUME ~short', ~over' PROVE BytesOK'
    OBVIOUS
  <2>1. BytesOK /\ ~(n < play.nread)
    BY <1>1 DEF AudioInv
  <2>2. play.b = 0 /\ play.nread <= StreamLen /\ play.stream = <<>> /\ n = play.nread
    <3>1. play.b \in {0, play.nread} /\ Len(play.stream) = play.b /\ play.nread <= StreamLen
      BY <1>1, <2>1 DEF BytesOK
    <3>2. play.b = 0
      BY <1>1, <1>2, <3>1
    <3> QED
      BY <1>2, <1>3, <2>1, <3>1, <3>2, EmptySeq
  <2>3. play'.b = play.nread /\ Len(play'.stream) = play'.b /\ play'.stream = a
    BY <1>2, <1>4, <1>6, <1>8, <2>2
  <2>4. InOrder(played, InStream, pipe, Rest)' = written'
    <3>1. InStream = <<>> /\ InStream' = a
      BY <1>1, <1>8, <2>2, <2>3 DEF InStream
    <3>2. InOrder(played, <<>>, a \o pipe', Rest) = InOrder(played, a, pipe', Rest)
      BY <1>2, <1>4, <1>10, Streams
    <3> QED
      BY <1>1, <1>4, <1>10, <2>1, <3>1, <3>2 DEF BytesOK
  <2> QED
    BY <1>1, <1>8, <2>1, <2>2, <2>3, <2>4 DEF BytesOK
<1> QED
  BY <1>9, <1>11, <1>12 DEF AudioInv

LEMMA PlayLoads ==
  ASSUME AudioInv, play_load
  PROVE  AudioInv'
<1>1. /\ UNCHANGED <<pipe, count, write, written, played, raced, over, short>>
      /\ play.at = "read" /\ play.b >= play.nread
      /\ play' = [play EXCEPT !.at = "store", !.tmp = count]
  BY DEF play_load
<1>2. AudioTypeOK
  BY DEF AudioInv
<1>3. play' = [at |-> "store", nread |-> play.nread, b |-> play.b, tmp |-> count,
               stream |-> play.stream]
  BY <1>1, <1>2 DEF AudioTypeOK
<1>4. /\ play'.at = "store" /\ play'.nread = play.nread /\ play'.b = play.b
      /\ play'.stream = play.stream /\ play'.tmp = count
      /\ play' = [at |-> play'.at, nread |-> play'.nread, b |-> play'.b, tmp |-> play'.tmp,
                  stream |-> play'.stream]
  BY <1>3
<1>5. AudioTypeOK'
  BY <1>1, <1>2, <1>4 DEF AudioTypeOK
<1>6. InStream' = InStream /\ Rest' = Rest /\ Taken' = Taken /\ Added' = Added
  BY <1>1, <1>4 DEF InStream, Rest, Taken, Added
<1>7. ~raced' => CountOK'
  <2>1. play.b \in Nat /\ play.nread \in Int
    BY <1>2 DEF AudioTypeOK
  <2> QED
    BY <1>1, <1>4, <1>6, <2>1 DEF AudioInv, CountOK
<1>8. ~short' /\ ~over' => BytesOK'
  BY <1>1, <1>4, <1>6 DEF AudioInv, BytesOK
<1> QED
  BY <1>5, <1>7, <1>8 DEF AudioInv

LEMMA PlayStores ==
  ASSUME AudioInv, play_store
  PROVE  AudioInv'
<1> DEFINE s == play.stream
           t == SubSeq(s, 1, InSound(s))
<1>1. /\ UNCHANGED <<pipe, write, written, over, short>> /\ play.at = "store"
      /\ count' = play.tmp - play.nread /\ played' = played \o t
      /\ raced' = (raced \/ play.tmp # count)
      /\ play' = [play EXCEPT !.at = "idle"]
  BY DEF play_store
<1>2. /\ AudioTypeOK /\ played \in Seq(Nat) /\ s \in Seq(Nat) /\ Len(s) \in Nat /\ count \in Int
      /\ pipe \in Seq(Nat) /\ write.buf \in Seq(Nat) /\ StreamLen \in Nat
      /\ play.tmp \in Int /\ play.nread \in Int /\ write.n \in Nat /\ Len(pipe) \in Nat
  <2>1. AudioTypeOK
    BY DEF AudioInv
  <2>2. /\ played \in Seq(Nat) /\ s \in Seq(Nat) /\ Len(s) \in Nat /\ count \in Int
        /\ pipe \in Seq(Nat) /\ write.buf \in Seq(Nat)
        /\ play.tmp \in Int /\ play.nread \in Int /\ write.n \in Nat /\ Len(pipe) \in Nat
    BY <2>1 DEF AudioTypeOK
  <2>3. StreamLen \in Nat
    BY NativeIoAssumption
  <2> QED
    BY <2>1, <2>2, <2>3
<1>3. play' = [at |-> "idle", nread |-> play.nread, b |-> play.b, tmp |-> play.tmp,
               stream |-> play.stream]
  BY <1>1, <1>2 DEF AudioTypeOK
<1>4. /\ play'.at = "idle" /\ play'.nread = play.nread /\ play'.b = play.b
      /\ play'.stream = play.stream /\ play'.tmp = play.tmp
      /\ play' = [at |-> play'.at, nread |-> play'.nread, b |-> play'.b, tmp |-> play'.tmp,
                  stream |-> play'.stream]
  BY <1>3
<1> HIDE DEF s
<1>5. t \in Seq(Nat) /\ (Len(s) <= StreamLen => t = s)
  <2>1. InSound(s) \in 0 .. Len(s)
    BY <1>2 DEF InSound
  <2>2. Len(s) <= StreamLen => InSound(s) = Len(s)
    BY <1>2 DEF InSound
  <2> QED
    BY <1>2, <2>1, <2>2, SubSeqFull
<1> HIDE DEF t
<1>6. AudioTypeOK'
  <2>1. played' \in Seq(Nat) /\ count' \in Int
    BY <1>1, <1>2, <1>5
  <2>2. raced' \in BOOLEAN
    BY <1>1
  <2> QED
    BY <1>1, <1>2, <1>4, <2>1, <2>2 DEF AudioTypeOK
<1>7. Rest' = Rest /\ Added' = Added /\ Rest \in Seq(Nat) /\ Added \in Nat
  BY <1>1, <1>2 DEF Rest, Added
<1>8. ~raced' => CountOK'
  <2> SUFFICES ASSUME ~raced' PROVE CountOK'
    OBVIOUS
  <2>1. CountOK /\ play.tmp = count
    BY <1>1, Zenon DEF AudioInv
  <2>2. /\ play.b = play.nread /\ 0 <= play.nread /\ play.nread <= count
        /\ count = (Len(pipe) + Taken) - Added
    BY <1>1, <2>1 DEF CountOK
  <2>3. Taken' = 0 /\ Taken = play.nread
    BY <1>1, <1>4, <2>2 DEF Taken
  <2>4. 0 <= count' /\ count' = (Len(pipe') + Taken') - Added'
    BY <1>1, <1>2, <1>7, <2>1, <2>2, <2>3
  <2> QED
    BY <1>1, <1>4, <2>1, <2>4 DEF CountOK
<1>9. ~short' /\ ~over' => BytesOK'
  <2> SUFFICES ASSUME ~short', ~over' PROVE BytesOK'
    OBVIOUS
  <2>1. BytesOK
    BY <1>1 DEF AudioInv
  <2>2. Len(s) <= StreamLen
    <3>1. play.b \in {0, play.nread} /\ Len(s) = play.b /\ play.nread <= StreamLen
      BY <1>1, <2>1 DEF BytesOK, s
    <3> QED
      BY <1>2, <3>1
  <2>3. InStream = s /\ InStream' = <<>> /\ t = s
    BY <1>1, <1>4, <1>5, <2>2 DEF InStream, s
  <2>4. InOrder(played \o s, <<>>, pipe, Rest) = InOrder(played, s, pipe, Rest)
    BY <1>2, <1>7, Plays
  <2>5. InOrder(played, InStream, pipe, Rest)' = written'
    BY <1>1, <1>7, <2>1, <2>3, <2>4 DEF BytesOK
  <2> QED
    BY <1>1, <1>4, <2>1, <2>5 DEF BytesOK
<1> QED
  BY <1>6, <1>8, <1>9 DEF AudioInv

LEMMA WriteBegins ==
  ASSUME AudioInv, NEW b \in Buffers, audio_write(b)
  PROVE  AudioInv'
<1>1. /\ UNCHANGED <<pipe, count, play, played, raced, over, short>>
      /\ write.at = "idle" /\ Len(b) <= PipeSize - count /\ written' = written \o b
      /\ write' = [write EXCEPT !.at = "write", !.buf = b, !.nwrite = 0]
  BY DEF audio_write, Fits
<1>2. /\ AudioTypeOK /\ b \in Seq(Nat) /\ Len(b) \in Nat /\ PipeSize \in Nat /\ count \in Int
      /\ pipe \in Seq(Nat) /\ Len(pipe) \in Nat /\ played \in Seq(Nat) /\ written \in Seq(Nat)
      /\ play.stream \in Seq(Nat) /\ play.b \in Nat
  <2>1. AudioTypeOK
    BY DEF AudioInv
  <2>2. /\ pipe \in Seq(Nat) /\ Len(pipe) \in Nat /\ played \in Seq(Nat)
        /\ written \in Seq(Nat) /\ play.stream \in Seq(Nat) /\ play.b \in Nat /\ count \in Int
    BY <2>1 DEF AudioTypeOK
  <2>3. b \in Seq(Nat) /\ PipeSize \in Nat
    BY NativeIoAssumption
  <2>4. Len(b) \in Nat
    BY <2>3
  <2> QED
    BY <2>1, <2>2, <2>3, <2>4
<1>3. write' = [at |-> "write", buf |-> b, nwrite |-> 0, n |-> write.n, tmp |-> write.tmp]
  BY <1>1, <1>2 DEF AudioTypeOK
<1>4. /\ write'.at = "write" /\ write'.buf = b /\ write'.nwrite = 0 /\ write'.n = write.n
      /\ write'.tmp = write.tmp
      /\ write' = [at |-> write'.at, buf |-> write'.buf, nwrite |-> write'.nwrite,
                   n |-> write'.n, tmp |-> write'.tmp]
  BY <1>3
<1>5. AudioTypeOK'
  <2>1. written' \in Seq(Nat)
    BY <1>1, <1>2
  <2> QED
    BY <1>1, <1>2, <1>4, <2>1 DEF AudioTypeOK
<1>6. /\ InStream' = InStream /\ Taken' = Taken /\ Added' = Added /\ Added = 0 /\ Rest = <<>>
      /\ InStream \in Seq(Nat) /\ Taken \in Nat
  BY <1>1, <1>2, <1>4 DEF InStream, Taken, Added, Rest
<1>7. ~raced' => CountOK'
  <2> SUFFICES ASSUME ~raced PROVE CountOK'
    BY <1>1
  <2>1. CountOK
    BY DEF AudioInv
  <2>2. Len(b) <= PipeSize - Len(pipe)
    <3>1. count = (Len(pipe) + Taken) - Added
      BY <2>1 DEF CountOK
    <3> QED
      BY <1>1, <1>2, <1>6, <3>1
  <2> QED
    BY <1>1, <1>4, <1>6, <2>1, <2>2 DEF CountOK
<1>8. ~short' /\ ~over' => BytesOK'
  <2> SUFFICES ASSUME ~short, ~over PROVE BytesOK'
    BY <1>1
  <2>1. BytesOK
    BY DEF AudioInv
  <2>2. Rest' = b
    <3>1. Rest' = IF 0 < Len(b) THEN b ELSE <<>>
      BY <1>4 DEF Rest
    <3>2. Len(b) = 0 => b = <<>>
      BY <1>2
    <3> QED
      BY <1>2, <3>1, <3>2
  <2>3. InOrder(played, InStream, pipe, <<>>) \o b = InOrder(played, InStream, pipe, b)
    <3>1. Begun(played, InStream, pipe, b)
      BY <1>2, <1>6, Begins
    <3> QED
      BY <3>1, Zenon DEF Begun
  <2>4. InOrder(played, InStream, pipe, Rest)' = written'
    BY <1>1, <1>6, <2>1, <2>2, <2>3 DEF BytesOK
  <2> QED
    BY <1>1, <1>4, <2>1, <2>4 DEF BytesOK
<1> QED
  BY <1>5, <1>7, <1>8 DEF AudioInv

LEMMA WritePipes ==
  ASSUME AudioInv, write_pipe
  PROVE  AudioInv'
<1> DEFINE r == write.buf
           n == PipeTakes(Len(r))
           a == SubSeq(r, 1, n)
<1>1. /\ UNCHANGED <<count, play, written, played, raced, over>>
      /\ write.at = "write" /\ write.nwrite < Len(r) /\ n > 0 /\ pipe' = pipe \o a
      /\ write' = [write EXCEPT !.at = "load", !.n = n]
      /\ short' = (short \/ n < Len(r))
  BY DEF write_pipe
<1>2. /\ AudioTypeOK /\ r \in Seq(Nat) /\ Len(r) \in Nat /\ pipe \in Seq(Nat)
      /\ Len(pipe) \in Nat /\ played \in Seq(Nat) /\ count \in Int /\ play.stream \in Seq(Nat)
      /\ play.b \in Nat /\ PipeSize \in Nat
  <2>1. AudioTypeOK
    BY DEF AudioInv
  <2>2. /\ r \in Seq(Nat) /\ Len(r) \in Nat /\ pipe \in Seq(Nat)
        /\ Len(pipe) \in Nat /\ played \in Seq(Nat) /\ count \in Int /\ play.stream \in Seq(Nat)
        /\ play.b \in Nat
    BY <2>1 DEF AudioTypeOK
  <2>3. PipeSize \in Nat
    BY NativeIoAssumption
  <2> QED
    BY <2>1, <2>2, <2>3
<1> HIDE DEF r
<1>3. /\ n \in Int /\ n <= Len(r)
      /\ Len(r) <= PipeSize - Len(pipe) => n = Len(r)
  <2> DEFINE free == PipeSize - Len(pipe)
  <2>1. n = IF Len(r) <= free THEN Len(r) ELSE IF Len(r) <= PIPE_BUF THEN 0 ELSE free
    BY DEF PipeTakes
  <2>2. free \in Int /\ Len(r) \in Nat
    BY <1>2
  <2> HIDE DEF n, free
  <2>3. n \in Int /\ n <= Len(r) /\ (Len(r) <= free => n = Len(r))
    <3>1. CASE Len(r) <= free
      BY <2>1, <2>2, <3>1
    <3>2. CASE ~(Len(r) <= free)
      <4>1. n = 0 \/ n = free
        BY <2>1, <3>2
      <4> QED
        BY <2>2, <3>2, <4>1
    <3> QED
      BY <3>1, <3>2
  <2> QED
    BY <2>3 DEF free
<1> HIDE DEF n
<1>4. n \in Nat /\ a \in Seq(Nat) /\ Len(a) = n /\ (n = Len(r) => a = r)
  <2>1. n > 0
    BY <1>1
  <2>2. n \in 0 .. Len(r)
    BY <1>2, <1>3, <2>1
  <2>3. SubSeq(r, 1, n) \in Seq(Nat) /\ Len(SubSeq(r, 1, n)) = n
    BY <1>2, <2>2
  <2>4. SubSeq(r, 1, Len(r)) = r
    BY <1>2, SubSeqFull
  <2>5. n \in Nat
    BY <1>2, <2>2
  <2>6. n = Len(r) => SubSeq(r, 1, n) = r
    BY <2>4, Zenon
  <2> QED
    BY <2>3, <2>5, <2>6, Zenon DEF a
<1> HIDE DEF a
<1>5. write' = [at |-> "load", buf |-> r, nwrite |-> write.nwrite, n |-> n, tmp |-> write.tmp]
  BY <1>1, <1>2 DEF AudioTypeOK, r
<1>6. /\ write'.at = "load" /\ write'.buf = r /\ write'.nwrite = write.nwrite /\ write'.n = n
      /\ write'.tmp = write.tmp
      /\ write' = [at |-> write'.at, buf |-> write'.buf, nwrite |-> write'.nwrite,
                   n |-> write'.n, tmp |-> write'.tmp]
  BY <1>5
<1>7. pipe' \in Seq(Nat) /\ Len(pipe') = Len(pipe) + n
  <2>1. pipe' = pipe \o a
    BY <1>1
  <2>2. pipe \in Seq(Nat) /\ a \in Seq(Nat) /\ Len(a) = n
    BY <1>2, <1>4
  <2>3. pipe \o a \in Seq(Nat) /\ Len(pipe \o a) = Len(pipe) + Len(a)
    BY <2>2, ConcatProperties
  <2> QED
    BY <2>1, <2>2, <2>3
<1>8. AudioTypeOK'
  <2>1. short' \in BOOLEAN
    BY <1>1
  <2> QED
    BY <1>1, <1>2, <1>4, <1>6, <1>7, <2>1 DEF AudioTypeOK
<1>9. /\ Added' = n /\ Added = 0 /\ Taken' = Taken /\ InStream' = InStream /\ Rest = r
      /\ Rest' = <<>> /\ InStream \in Seq(Nat) /\ Taken \in Nat
  BY <1>1, <1>2, <1>6 DEF Added, Taken, InStream, Rest, r
<1>10. ~raced' => CountOK'
  <2> SUFFICES ASSUME ~raced PROVE CountOK'
    BY <1>1
  <2>1. CountOK
    BY DEF AudioInv
  <2>2. write.nwrite = 0 /\ Len(r) <= PipeSize - Len(pipe)
    <3>1. write.nwrite \in {0, Len(r)} /\ Len(r) <= PipeSize - Len(pipe)
      BY <1>1, <2>1 DEF CountOK, r
    <3> QED
      BY <1>1, <1>2, <3>1
  <2>3. n = Len(r)
    BY <1>3, <2>2
  <2>4. ~short'
    <3>1. ~(n < Len(r))
      BY <1>2, <2>3
    <3> QED
      BY <1>1, <2>1, <3>1 DEF CountOK
  <2>5. 0 <= count' /\ count' = (Len(pipe') + Taken') - Added'
    <3>1. count = (Len(pipe) + Taken) - Added /\ 0 <= count
      BY <2>1 DEF CountOK
    <3> QED
      BY <1>1, <1>2, <1>4, <1>7, <1>9, <3>1
  <2> QED
    BY <1>1, <1>6, <2>1, <2>2, <2>3, <2>4, <2>5 DEF CountOK
<1>11. ~short' /\ ~over' => BytesOK'
  <2> SUFFICES ASSUME ~short', ~over' PROVE BytesOK'
    OBVIOUS
  <2>1. BytesOK /\ ~(n < Len(r))
    BY <1>1 DEF AudioInv
  <2>2. n = Len(r) /\ a = r
    BY <1>2, <1>3, <1>4, <2>1
  <2>3. write.nwrite = 0
    <3>1. write.nwrite \in {0, Len(r)}
      BY <1>1, <2>1 DEF BytesOK, r
    <3> QED
      BY <1>1, <1>2, <3>1
  <2>4. InOrder(played, InStream, pipe \o r, <<>>) = InOrder(played, InStream, pipe, r)
    BY <1>2, <1>9, Pipes
  <2>5. InOrder(played, InStream, pipe, Rest)' = written'
    BY <1>1, <1>9, <2>1, <2>2, <2>4 DEF BytesOK
  <2> QED
    BY <1>1, <1>6, <2>1, <2>2, <2>3, <2>5 DEF BytesOK
<1> QED
  BY <1>8, <1>10, <1>11 DEF AudioInv

LEMMA WriteLoads ==
  ASSUME AudioInv, write_load
  PROVE  AudioInv'
<1>1. /\ UNCHANGED <<pipe, count, play, written, played, raced, over, short>>
      /\ write.at = "load" /\ write' = [write EXCEPT !.at = "store", !.tmp = count]
  BY DEF write_load
<1>2. AudioTypeOK
  BY DEF AudioInv
<1>3. write' = [at |-> "store", buf |-> write.buf, nwrite |-> write.nwrite, n |-> write.n,
                tmp |-> count]
  BY <1>1, <1>2 DEF AudioTypeOK
<1>4. /\ write'.at = "store" /\ write'.buf = write.buf /\ write'.nwrite = write.nwrite
      /\ write'.n = write.n /\ write'.tmp = count
      /\ write' = [at |-> write'.at, buf |-> write'.buf, nwrite |-> write'.nwrite,
                   n |-> write'.n, tmp |-> write'.tmp]
  BY <1>3
<1>5. AudioTypeOK'
  BY <1>1, <1>2, <1>4 DEF AudioTypeOK
<1>6. InStream' = InStream /\ Rest' = Rest /\ Taken' = Taken /\ Added' = Added
  BY <1>1, <1>4 DEF InStream, Rest, Taken, Added
<1>7. ~raced' => CountOK'
  BY <1>1, <1>4, <1>6 DEF AudioInv, CountOK
<1>8. ~short' /\ ~over' => BytesOK'
  BY <1>1, <1>4, <1>6 DEF AudioInv, BytesOK
<1> QED
  BY <1>5, <1>7, <1>8 DEF AudioInv

LEMMA WriteStores ==
  ASSUME AudioInv, write_store
  PROVE  AudioInv'
<1> DEFINE l == Len(write.buf)
<1>1. /\ UNCHANGED <<pipe, play, written, played, over, short>> /\ write.at = "store"
      /\ count' = write.tmp + write.n /\ raced' = (raced \/ write.tmp # count)
      /\ write' = [write EXCEPT !.at = "write", !.nwrite = @ + write.n]
  BY DEF write_store
<1>2. /\ AudioTypeOK /\ l \in Nat /\ count \in Int /\ pipe \in Seq(Nat) /\ Len(pipe) \in Nat
      /\ write.n \in Nat /\ write.nwrite \in Nat /\ write.tmp \in Int /\ play.nread \in Int
      /\ play.b \in Nat
  <2>1. AudioTypeOK
    BY DEF AudioInv
  <2>2. /\ l \in Nat /\ count \in Int /\ pipe \in Seq(Nat) /\ Len(pipe) \in Nat
        /\ write.n \in Nat /\ write.nwrite \in Nat /\ write.tmp \in Int /\ play.nread \in Int
        /\ play.b \in Nat
    BY <2>1 DEF AudioTypeOK
  <2> QED
    BY <2>1, <2>2
<1> HIDE DEF l
<1>3. write' = [at |-> "write", buf |-> write.buf, nwrite |-> write.nwrite + write.n,
                n |-> write.n, tmp |-> write.tmp]
  BY <1>1, <1>2 DEF AudioTypeOK
<1>4. /\ write'.at = "write" /\ write'.buf = write.buf
      /\ write'.nwrite = write.nwrite + write.n /\ write'.n = write.n
      /\ write'.tmp = write.tmp /\ write.nwrite + write.n \in Nat
      /\ write' = [at |-> write'.at, buf |-> write'.buf, nwrite |-> write'.nwrite,
                   n |-> write'.n, tmp |-> write'.tmp]
  BY <1>2, <1>3
<1>5. AudioTypeOK'
  <2>1. count' \in Int
    BY <1>1, <1>2
  <2>2. raced' \in BOOLEAN
    BY <1>1
  <2> QED
    BY <1>1, <1>2, <1>4, <2>1, <2>2 DEF AudioTypeOK
<1>6. /\ InStream' = InStream /\ Taken' = Taken /\ Taken \in Nat /\ Rest = <<>>
      /\ Added = write.n /\ Added' = 0
  BY <1>1, <1>2, <1>4 DEF InStream, Taken, Rest, Added
<1>7. write.nwrite = 0 /\ write.n = l => write'.nwrite = l /\ Rest' = <<>>
  <2>1. write.nwrite = 0 /\ write.n = l => write'.nwrite = l
    BY <1>2, <1>4
  <2>2. ~(l < l)
    BY <1>2
  <2> QED
    BY <1>4, <2>1, <2>2 DEF Rest, l
<1>8. ~raced' => CountOK'
  <2> SUFFICES ASSUME ~raced' PROVE CountOK'
    OBVIOUS
  <2>1. CountOK /\ write.tmp = count
    BY <1>1, Zenon DEF AudioInv
  <2>2. write.nwrite = 0 /\ write.n = l /\ count = (Len(pipe) + Taken) - Added /\ 0 <= count
    BY <1>1, <2>1 DEF CountOK, l
  <2>3. 0 <= count' /\ count' = (Len(pipe') + Taken') - Added' /\ count <= count'
    BY <1>1, <1>2, <1>6, <2>1, <2>2
  <2>4. write'.nwrite = Len(write'.buf) /\ ~(write'.nwrite < Len(write'.buf))
    BY <1>2, <1>4, <1>7, <2>2 DEF l
  <2>5. play'.at \in {"read", "store"} =>
          0 <= play'.nread /\ play'.nread <= count' /\ play'.b \in {0, play'.nread}
    <3> SUFFICES ASSUME play.at \in {"read", "store"}
                 PROVE  0 <= play.nread /\ play.nread <= count' /\ play.b \in {0, play.nread}
      BY <1>1
    <3>1. 0 <= play.nread /\ play.nread <= count /\ play.b \in {0, play.nread}
      BY <2>1 DEF CountOK
    <3>2. count' \in Int
      BY <1>1, <1>2
    <3> QED
      BY <1>2, <2>3, <3>1, <3>2
  <2> QED
    BY <1>1, <1>4, <2>1, <2>3, <2>4, <2>5 DEF CountOK
<1>9. ~short' /\ ~over' => BytesOK'
  <2> SUFFICES ASSUME ~short, ~over PROVE BytesOK'
    BY <1>1
  <2>1. BytesOK
    BY DEF AudioInv
  <2>2. write.nwrite = 0 /\ write.n = l
    BY <1>1, <2>1 DEF BytesOK, l
  <2> QED
    BY <1>1, <1>4, <1>6, <1>7, <2>1, <2>2 DEF BytesOK, l
<1> QED
  BY <1>5, <1>8, <1>9 DEF AudioInv

LEMMA WriteReturns ==
  ASSUME AudioInv, write_return
  PROVE  AudioInv'
<1>1. /\ UNCHANGED <<pipe, count, play, written, played, raced, over, short>>
      /\ write.at = "write" /\ write.nwrite >= Len(write.buf)
      /\ write' = [write EXCEPT !.at = "idle"]
  BY DEF write_return
<1>2. AudioTypeOK /\ write.nwrite \in Nat /\ Len(write.buf) \in Nat
  <2>1. AudioTypeOK
    BY DEF AudioInv
  <2>2. write.nwrite \in Nat /\ Len(write.buf) \in Nat
    BY <2>1 DEF AudioTypeOK
  <2> QED
    BY <2>1, <2>2
<1>3. write' = [at |-> "idle", buf |-> write.buf, nwrite |-> write.nwrite, n |-> write.n,
                tmp |-> write.tmp]
  BY <1>1, <1>2 DEF AudioTypeOK
<1>4. /\ write'.at = "idle" /\ write'.buf = write.buf /\ write'.nwrite = write.nwrite
      /\ write'.n = write.n /\ write'.tmp = write.tmp
      /\ write' = [at |-> write'.at, buf |-> write'.buf, nwrite |-> write'.nwrite,
                   n |-> write'.n, tmp |-> write'.tmp]
  BY <1>3
<1>5. AudioTypeOK'
  BY <1>1, <1>2, <1>4 DEF AudioTypeOK
<1>6. ~(write.nwrite < Len(write.buf))
  BY <1>1, <1>2
<1>7. InStream' = InStream /\ Rest' = Rest /\ Taken' = Taken /\ Added' = Added
  BY <1>1, <1>4, <1>6 DEF InStream, Rest, Taken, Added
<1>8. ~raced' => CountOK'
  BY <1>1, <1>4, <1>7 DEF AudioInv, CountOK
<1>9. ~short' /\ ~over' => BytesOK'
  BY <1>1, <1>4, <1>7 DEF AudioInv, BytesOK
<1> QED
  BY <1>5, <1>8, <1>9 DEF AudioInv

LEMMA AudioSteps ==
  ASSUME AudioInv, [AudioNext]_audioVars
  PROVE  AudioInv'
<1>1. CASE UNCHANGED audioVars
  BY <1>1 DEF audioVars, AudioInv, AudioTypeOK, CountOK, BytesOK, Taken, Added, InStream, Rest
<1> QED
  BY <1>1, PlayAsks, PlayCounts, PlayReads, PlayLoads, PlayStores, WriteBegins, WritePipes,
     WriteLoads, WriteStores, WriteReturns DEF AudioNext

LEMMA AudioStarts == ASSUME AudioInit PROVE AudioInv
<1>1. /\ pipe = <<>> /\ count = 0 /\ written = <<>> /\ played = <<>>
      /\ raced = FALSE /\ over = FALSE /\ short = FALSE
      /\ play = [at |-> "idle", nread |-> 0, b |-> 0, tmp |-> 0, stream |-> <<>>]
      /\ write = [at |-> "idle", buf |-> <<>>, nwrite |-> 0, n |-> 0, tmp |-> 0]
  BY DEF AudioInit
<1>2. AudioTypeOK
  <2>1. /\ play = [at |-> play.at, nread |-> play.nread, b |-> play.b, tmp |-> play.tmp,
                   stream |-> play.stream]
        /\ play.at = "idle" /\ play.nread = 0 /\ play.b = 0 /\ play.tmp = 0
        /\ play.stream = <<>>
    BY <1>1
  <2>2. /\ write = [at |-> write.at, buf |-> write.buf, nwrite |-> write.nwrite,
                    n |-> write.n, tmp |-> write.tmp]
        /\ write.at = "idle" /\ write.buf = <<>> /\ write.nwrite = 0 /\ write.n = 0
        /\ write.tmp = 0
    BY <1>1
  <2>3. raced \in BOOLEAN /\ over \in BOOLEAN /\ short \in BOOLEAN
    BY <1>1, Zenon
  <2> QED
    BY <1>1, <2>1, <2>2, <2>3 DEF AudioTypeOK
<1>3. Taken = 0 /\ Added = 0 /\ InStream = <<>> /\ Rest = <<>> /\ Len(pipe) = 0
  BY <1>1 DEF Taken, Added, InStream, Rest
<1>4. <<>> \o <<>> = <<>>
  OBVIOUS
<1>5. CountOK
  BY <1>1, <1>3 DEF CountOK
<1>6. BytesOK
  BY <1>1, <1>3, <1>4 DEF BytesOK, InOrder
<1> QED
  BY <1>2, <1>5, <1>6 DEF AudioInv

----------------------------------------------------------------------------
IoInv == KeyInv /\ AudioInv /\ CpuInv

LEMMA IoInvariant == IoSpec => []IoInv
<1>1. IoInit => IoInv
  BY KeyStarts, AudioStarts, CpuStarts DEF IoInit, IoState, IoInv
<1>2. IoInv /\ [IoNext]_ioVars => IoInv'
  <2> SUFFICES ASSUME IoInv, [IoNext]_ioVars PROVE IoInv'
    OBVIOUS
  <2>1. [KeyNext]_keyVars /\ [AudioNext]_audioVars /\ [CpuNext]_cpuVars
    BY DEF IoNext, ioVars
  <2> QED
    BY <2>1, KeySteps, AudioSteps, CpuSteps DEF IoInv
<1> QED
  BY <1>1, <1>2, PTL DEF IoSpec

\* The program on the native platform gets the keys in the order in which they
\* were typed, none twice and none left out, until the event thread laps the
\* reader, for every length of the key queue (event_thread, __am_input_keybrd).
THEOREM KeysInOrder == IoSpec => []NativeKeys
<1>1. IoInv => NativeKeys
  BY DEF IoInv, KeyInv, NativeKeys
<1> QED
  BY <1>1, IoInvariant, PTL

\* As long as no two updates of count have overlapped, no read or write of the
\* pipe of a program that asks for the free space first is cut short, and count
\* is what the pipe holds.  And whatever overlaps, the sound is played as written
\* until a read or write is cut short or the callback asks for more than SDL
\* does; for every size of the pipe and of what SDL asks for (audio_play,
\* audio_write).
THEOREM SoundIsExact == IoSpec => []AudioExact
<1>1. IoInv => AudioExact
  <2> SUFFICES ASSUME AudioInv PROVE AudioExact
    BY DEF IoInv
  <2>1. pipe \in Seq(Nat) /\ played \in Seq(Nat) /\ Len(pipe) \in Nat
    BY DEF AudioInv, AudioTypeOK
  <2>2. ASSUME play.at = "idle", write.at = "idle"
        PROVE  Taken = 0 /\ Added = 0 /\ InStream = <<>> /\ Rest = <<>>
    BY <2>2 DEF Taken, Added, InStream, Rest
  <2>3. ASSUME ~raced
        PROVE  ~short /\ (play.at = "idle" /\ write.at = "idle" => count = Len(pipe))
    BY <2>1, <2>2, <2>3 DEF AudioInv, CountOK
  <2>4. ASSUME ~short, ~over, play.at = "idle", write.at = "idle"
        PROVE  played \o pipe = written
    <3>1. InOrder(played, <<>>, pipe, <<>>) = played \o pipe
      BY <2>1, ConcatProperties, ConcatEmptySeq DEF InOrder
    <3> QED
      BY <2>2, <2>4, <3>1 DEF AudioInv, BytesOK
  <2> QED
    BY <2>3, <2>4 DEF AudioExact
<1> QED
  BY <1>1, IoInvariant, PTL

\* However many processors mpe_init starts, none enters the program before the
\* devices are set up, they are set up once, and every process gets its byte.
THEOREM ProcessorsStartOnce == IoSpec => []StartsOnce
<1>1. IoInv => StartsOnce
  <2> SUFFICES ASSUME CpuInv PROVE StartsOnce
    BY DEF IoInv
  <2>1. DOMAIN cpus = Others \cup {0}
    BY CpusAre DEF CpuInv, CpuTypeOK
  <2>2. ASSUME NEW i \in DOMAIN cpus, cpus[i] = "entry" PROVE ioe.has => ioe.done
    <3>1. cpus[0] \in {"entry", "halted"}
      BY <2>1, <2>2 DEF CpuInv
    <3> QED
      BY <3>1 DEF CpuInv
  <2> QED
    BY <2>2 DEF CpuInv, StartsOnce
<1> QED
  BY <1>1, IoInvariant, PTL


----------------------------------------------------------------------------
(* The card and its driver. *)

CardSet == [arg : Nat, data : Values, pos : Nat, addr : Nat, write_cmd : BOOLEAN, read_ext_csd : BOOLEAN]
HostSet == [mrq : Requests \cup {NoRequest}, cmd : {"none", "sbc", "cmd", "stop"}, data : BOOLEAN,
            data_complete : BOOLEAN, use_sbc : BOOLEAN, left : Nat, blocks : Nat, moved : Nat,
            buf : Seq(Values), error : BOOLEAN, warned : BOOLEAN]
SdTypeOK ==
  /\ card \in CardSet /\ file \in [Image -> Values] /\ host \in HostSet
  /\ step \in {"idle", "transfer", "finish_command", "panic"}
  /\ answer \in RequestSet \cup {NoRequest} /\ disk \in [Image -> Values] /\ csd_cut \in BOOLEAN

\* How far the transfer of a request is.
Progress(h) ==
  /\ h.left <= SectorWords /\ (h.blocks = 0 => h.left = SectorWords)
  /\ h.moved + h.left + (h.blocks * SectorWords) <= (h.mrq.blocks * SectorWords) + SectorWords
  /\ ~h.error => h.moved + h.left + (h.blocks * SectorWords) = (h.mrq.blocks * SectorWords) + SectorWords
  /\ h.error => h.moved >= h.mrq.sg

\* Where the driver is in its request, and what its struct says of that.
Resting(h)  == h.mrq = NoRequest /\ h.cmd = "none" /\ ~h.data
Counted(h)  == h.cmd = "sbc" /\ ~h.data /\ HasData(h.mrq) /\ ~h.error /\ h.moved = 0 /\ h.buf = h.mrq.buf
Sent(h)     == h.cmd = "cmd" /\ ~h.data /\ ~HasData(h.mrq)
Moving(h)   == h.cmd = "cmd" /\ h.data /\ HasData(h.mrq) /\ ~h.data_complete /\ Progress(h)
Moved(h)    == h.cmd = "cmd" /\ h.data /\ HasData(h.mrq) /\ h.data_complete /\ Progress(h) /\ h.blocks = 0
Stopped(h)  == h.cmd = "stop" /\ ~h.data /\ HasData(h.mrq) /\ Progress(h) /\ h.blocks = 0
ProtInv ==
  /\ ~host.warned
  /\ card.read_ext_csd => card.addr < SectorWords
  /\ step = "idle" => Resting(host)
  /\ step # "idle" => host.mrq \in Requests /\ host.moved <= host.mrq.sg
  /\ step = "transfer" => Moving(host)
  /\ step = "finish_command" => Counted(host) \/ Sent(host) \/ Moved(host) \/ Stopped(host)
  /\ step \in {"transfer", "finish_command"} /\ ~Counted(host) => host.mrq.op # "read_one"

\* What a transfer has moved so far.
ReadSoFar(h) ==
  /\ file = disk /\ ~card.read_ext_csd /\ ~card.write_cmd
  /\ card.pos = (h.mrq.sector * SectorWords) + h.moved /\ Len(h.buf) = h.moved
  /\ \A i \in 1 .. h.moved : h.buf[i] = disk[(h.mrq.sector * SectorWords) + i - 1]
WrittenSoFar(h) ==
  LET first == h.mrq.sector * SectorWords
  IN  /\ ~card.read_ext_csd /\ card.write_cmd /\ card.pos = first + h.moved
      /\ \A w \in Image :
           file[w] = IF w \in first .. (first + h.moved - 1) THEN h.mrq.buf[w - first + 1] ELSE disk[w]
CsdSoFar(h) ==
  /\ file = disk /\ Len(h.buf) = h.moved
  /\ card.read_ext_csd = (h.moved < SectorWords)
  /\ card.read_ext_csd => card.addr = h.moved
  /\ h.moved <= SectorWords /\ \A i \in 1 .. h.moved : h.buf[i] = ext_csd[i]
SoFar(h) ==
  /\ h.mrq.op = "read" => ReadSoFar(h)
  /\ h.mrq.op = "write" => WrittenSoFar(h)
  /\ h.mrq.op = "ext_csd" => CsdSoFar(h)
Still == file = disk /\ ~card.read_ext_csd
DataInv ==
  ~csd_cut =>
    /\ step = "idle" => Still
    /\ step = "finish_command" /\ (Counted(host) \/ Sent(host)) => Still
    /\ step = "transfer" => SoFar(host)
    /\ step = "finish_command" /\ (Moved(host) \/ Stopped(host)) => SoFar(host)
SdInv == SdTypeOK /\ ProtInv /\ DataInv /\ ReadsAreExact

\* Blocks in words.
LEMMA BlocksOf ==
  /\ SectorWords \in Nat /\ SectorWords > 0
  /\ \A n \in Nat : n * SectorWords \in Nat /\ (n > 0 => n * SectorWords >= SectorWords)
  /\ \A n \in Nat : n > 0 => n - 1 \in Nat /\ (n - 1) * SectorWords = (n * SectorWords) - SectorWords
  /\ 0 * SectorWords = 0 /\ 1 * SectorWords = SectorWords
<1>1. SectorWords \in Nat /\ SectorWords > 0
  BY SdAssumption
<1>2. \A n \in Nat : n > 0 => n - 1 \in Nat /\ (n - 1) * SectorWords = (n * SectorWords) - SectorWords
  BY <1>1
<1>3. \A n \in Nat : n * SectorWords \in Nat
  BY <1>1
<1>4. ASSUME NEW n \in Nat, n > 0 PROVE n * SectorWords >= SectorWords
  <2>1. n - 1 \in Nat /\ (n - 1) * SectorWords \in Nat /\ (n - 1) * SectorWords = (n * SectorWords) - SectorWords
    BY <1>2, <1>3, <1>4
  <2>2. n * SectorWords \in Nat
    BY <1>3
  <2> DEFINE a == (n - 1) * SectorWords
             b == n * SectorWords
  <2> HIDE DEF a, b
  <2>3. a \in Nat /\ b \in Nat /\ a = b - SectorWords
    BY <2>1, <2>2 DEF a, b
  <2>4. b >= SectorWords
    BY <2>3, <1>1
  <2> QED
    BY <2>4 DEF b
<1>5. 0 * SectorWords = 0 /\ 1 * SectorWords = SectorWords
  BY <1>1
<1> QED
  BY <1>1, <1>2, <1>3, <1>4, <1>5

\* A request stays within the image.
LEMMA InImage ==
  ASSUME NEW r \in Requests
  PROVE  /\ r.sector * SectorWords \in Nat /\ r.blocks * SectorWords \in Nat
         /\ \A n \in Nat : n < r.blocks * SectorWords => (r.sector * SectorWords) + n \in Image
<1>1. r.sector \in Nat /\ r.blocks \in Nat /\ r.sector + r.blocks <= NrSectors
      /\ NrSectors \in Nat /\ SectorWords \in Nat
  BY SdAssumption DEF RequestSet
<1> DEFINE a == r.sector
           b == r.blocks
           w == SectorWords
           m == NrSectors
<1>2. a \in Nat /\ b \in Nat /\ a + b <= m /\ m \in Nat /\ w \in Nat
  BY <1>1
<1> HIDE DEF a, b, w, m
<1>3. a * w \in Nat /\ b * w \in Nat /\ m * w \in Nat /\ m - (a + b) \in Nat
  BY <1>2
<1>4. (m - (a + b)) * w \in Nat
  BY <1>2, <1>3
<1>5. (m - (a + b)) * w = (m * w) - ((a * w) + (b * w))
  BY <1>2
<1>6. (a * w) + (b * w) <= m * w
  <2> DEFINE x == a * w
             y == b * w
             z == m * w
             d == (m - (a + b)) * w
  <2>1. x \in Nat /\ y \in Nat /\ z \in Nat /\ d \in Nat /\ d = z - (x + y)
    BY <1>3, <1>4, <1>5
  <2> HIDE DEF x, y, z, d
  <2>2. x + y <= z
    BY <2>1
  <2> QED
    BY <2>2 DEF x, y, z
<1>7. ASSUME NEW n \in Nat, n < b * w PROVE (a * w) + n \in 0 .. ((m * w) - 1)
  <2> DEFINE x == a * w
             y == b * w
             z == m * w
  <2>1. x \in Nat /\ y \in Nat /\ z \in Nat /\ x + y <= z /\ n < y
    BY <1>3, <1>6, <1>7
  <2> HIDE DEF x, y, z
  <2>2. x + n \in 0 .. (z - 1)
    BY <2>1
  <2> QED
    BY <2>2 DEF x, z
<1> QED
  BY <1>3, <1>7 DEF a, b, w, m, Image

LEMMA RequestsAre ==
  /\ NoRequest \notin RequestSet /\ NoRequest.op = "none"
  /\ \A r \in Requests :
       /\ r \in RequestSet /\ r # NoRequest
       /\ r.sg \in Nat /\ r.blocks \in Nat /\ r.sector \in Nat /\ r.buf \in Seq(Values) /\ r.op \in Operations
       /\ r.op = "write" => r.sg <= Len(r.buf)
       /\ r.op # "write" => r.buf = <<>>
       /\ r.op = "ext_csd" => r.blocks = 1
<1>1. NoRequest.op = "none"
  BY DEF NoRequest
<1>2. \A r \in RequestSet : r.op \in Operations
  BY DEF RequestSet
<1>3. NoRequest \notin RequestSet
  BY <1>1, <1>2 DEF Operations
<1>4. \A r \in RequestSet : r.sg \in Nat /\ r.blocks \in Nat /\ r.sector \in Nat /\ r.buf \in Seq(Values)
  BY DEF RequestSet
<1> QED
  BY <1>1, <1>2, <1>3, <1>4, SdAssumption

\* The operators of the driver and of the card, field by field.
LEMMA SendCommandIs ==
  ASSUME NEW h \in HostSet, h.mrq \in Requests, NEW which \in {"sbc", "cmd", "stop"}
  PROVE  LET g == send_command(h, which)
             d == which = "cmd" /\ HasData(h.mrq)
         IN  /\ g \in HostSet
             /\ g.mrq = h.mrq /\ g.buf = h.buf /\ g.moved = h.moved /\ g.error = h.error
             /\ g.use_sbc = h.use_sbc /\ g.cmd = which /\ g.data = d
             /\ g.data_complete = (h.data_complete /\ ~d)
             /\ g.warned = (h.warned \/ h.cmd # "none" \/ h.data)
             /\ g.blocks = IF which = "cmd" THEN h.mrq.blocks ELSE h.blocks
             /\ g.left = IF which = "cmd" THEN SectorWords ELSE h.left
<1> DEFINE d == which = "cmd" /\ HasData(h.mrq)
           w == h.warned \/ h.cmd # "none" \/ h.data
           k == h.data_complete /\ ~d
           b == IF which = "cmd" THEN h.mrq.blocks ELSE h.blocks
           l == IF which = "cmd" THEN SectorWords ELSE h.left
           g == [mrq |-> h.mrq, cmd |-> which, data |-> d, data_complete |-> k, use_sbc |-> h.use_sbc,
                 left |-> l, blocks |-> b, moved |-> h.moved, buf |-> h.buf, error |-> h.error, warned |-> w]
<1>1. h = [mrq |-> h.mrq, cmd |-> h.cmd, data |-> h.data, data_complete |-> h.data_complete,
           use_sbc |-> h.use_sbc, left |-> h.left, blocks |-> h.blocks, moved |-> h.moved,
           buf |-> h.buf, error |-> h.error, warned |-> h.warned]
  BY DEF HostSet
<1>2. send_command(h, which) = [h EXCEPT !.warned = w, !.cmd = which, !.data = d, !.data_complete = k,
                                         !.blocks = b, !.left = l]
  BY DEF send_command
<1>3. d \in BOOLEAN /\ w \in BOOLEAN /\ k \in BOOLEAN
  OBVIOUS
<1>4. b \in Nat /\ l \in Nat
  BY RequestsAre, BlocksOf DEF HostSet
<1>5. /\ h.mrq \in Requests \cup {NoRequest} /\ h.use_sbc \in BOOLEAN /\ h.moved \in Nat
      /\ h.buf \in Seq(Values) /\ h.error \in BOOLEAN
  BY DEF HostSet
<1> HIDE DEF d, w, k, b, l
<1>6. send_command(h, which) = g
  BY <1>1, <1>2
<1>7. g \in HostSet
  BY <1>3, <1>4, <1>5 DEF HostSet
<1>8. /\ g.mrq = h.mrq /\ g.buf = h.buf /\ g.moved = h.moved /\ g.error = h.error
      /\ g.use_sbc = h.use_sbc /\ g.cmd = which /\ g.data = d /\ g.data_complete = k /\ g.warned = w
      /\ g.blocks = b /\ g.left = l
  OBVIOUS
<1> HIDE DEF g
<1> QED
  BY <1>6, <1>7, <1>8 DEF d, w, k, b, l

LEMMA CardCommandIs ==
  ASSUME NEW k \in CardSet, NEW a \in Nat, NEW command
  PROVE  LET d == sdcard_handle_cmd([k EXCEPT !.arg = a], command)
         IN  /\ d \in CardSet
             /\ command \in {"read", "write"} =>
                  /\ d.pos = a * SectorWords /\ d.addr = 0 /\ d.write_cmd = (command = "write")
                  /\ d.read_ext_csd = k.read_ext_csd
             /\ command = "ext_csd" => d.read_ext_csd /\ d.addr = 0
             /\ command \notin {"read", "write", "ext_csd"} =>
                  /\ d.read_ext_csd = k.read_ext_csd /\ d.addr = k.addr
                  /\ d.pos = k.pos /\ d.write_cmd = k.write_cmd
<1> DEFINE q == [k EXCEPT !.arg = a]
<1>1. q \in CardSet /\ q.arg = a /\ q.read_ext_csd = k.read_ext_csd /\ q.addr = k.addr
      /\ q.pos = k.pos /\ q.write_cmd = k.write_cmd
  BY DEF CardSet
<1>2. a * SectorWords \in Nat
  BY BlocksOf
<1> HIDE DEF q
<1>3. ASSUME NEW w \in BOOLEAN
      PROVE  LET d == prepare_rw(q, w) IN
             /\ d \in CardSet /\ d.pos = a * SectorWords /\ d.addr = 0 /\ d.write_cmd = w
             /\ d.read_ext_csd = k.read_ext_csd
  <2> DEFINE m == a * SectorWords
  <2>1. prepare_rw(q, w) = [q EXCEPT !.pos = m, !.addr = 0, !.write_cmd = w] /\ m \in Nat
    BY <1>1, <1>2 DEF prepare_rw
  <2> HIDE DEF m
  <2>2. q = [arg |-> q.arg, data |-> q.data, pos |-> q.pos, addr |-> q.addr, write_cmd |-> q.write_cmd,
             read_ext_csd |-> q.read_ext_csd]
    BY <1>1 DEF CardSet
  <2>3. prepare_rw(q, w) = [arg |-> q.arg, data |-> q.data, pos |-> m, addr |-> 0, write_cmd |-> w,
             read_ext_csd |-> q.read_ext_csd]
    BY <2>1, <2>2
  <2>4. prepare_rw(q, w) \in CardSet
    BY <1>1, <2>1, <2>3 DEF CardSet
  <2> QED
    BY <1>1, <2>3, <2>4 DEF m
<1>4. CASE command = "read"
  <2>1. sdcard_handle_cmd(q, command) = prepare_rw(q, FALSE)
    BY <1>4 DEF sdcard_handle_cmd
  <2> QED
    BY <2>1, <1>3, <1>4 DEF q
<1>5. CASE command = "write"
  <2>1. sdcard_handle_cmd(q, command) = prepare_rw(q, TRUE)
    BY <1>5 DEF sdcard_handle_cmd
  <2> QED
    BY <2>1, <1>3, <1>5 DEF q
<1>6. CASE command = "ext_csd"
  <2>1. sdcard_handle_cmd(q, command) = [q EXCEPT !.read_ext_csd = TRUE, !.addr = 0]
    BY <1>6 DEF sdcard_handle_cmd
  <2>2. [q EXCEPT !.read_ext_csd = TRUE, !.addr = 0] \in CardSet
    BY <1>1 DEF CardSet
  <2>3. [q EXCEPT !.read_ext_csd = TRUE, !.addr = 0].read_ext_csd /\ [q EXCEPT !.read_ext_csd = TRUE, !.addr = 0].addr = 0
    BY <1>1 DEF CardSet
  <2> QED
    BY <2>1, <2>2, <2>3, <1>6 DEF q
<1>7. CASE command \notin {"read", "write", "ext_csd"}
  <2>1. sdcard_handle_cmd(q, command) = q
    BY <1>7 DEF sdcard_handle_cmd
  <2> QED
    BY <2>1, <1>1, <1>7 DEF q
<1> QED
  BY <1>4, <1>5, <1>6, <1>7

LEMMA DataAccessIs ==
  ASSUME NEW k \in CardSet, file \in [Image -> Values], k.read_ext_csd => k.addr < SectorWords
  PROVE  LET d == DataAccess(k)
         IN  /\ d \in CardSet
             /\ d.write_cmd = k.write_cmd
             /\ k.read_ext_csd => /\ d.data = ext_csd[k.addr + 1] /\ d.addr = k.addr + 1
                                  /\ d.read_ext_csd = (k.addr # SectorWords - 1)
             /\ ~k.read_ext_csd => /\ ~d.read_ext_csd /\ d.pos = k.pos + 1
                                   /\ k.pos \in Image /\ ~k.write_cmd => d.data = file[k.pos]
<1>0. /\ k = [arg |-> k.arg, data |-> k.data, pos |-> k.pos, addr |-> k.addr, write_cmd |-> k.write_cmd,
              read_ext_csd |-> k.read_ext_csd]
      /\ k.arg \in Nat /\ k.data \in Values /\ k.pos \in Nat /\ k.addr \in Nat
      /\ k.write_cmd \in BOOLEAN /\ k.read_ext_csd \in BOOLEAN
  BY DEF CardSet
<1>1. CASE k.read_ext_csd
  <2> DEFINE v == ext_csd[k.addr + 1]
             b == (k.addr # SectorWords - 1)
             d == [arg |-> k.arg, data |-> v, pos |-> k.pos, addr |-> k.addr + 1, write_cmd |-> k.write_cmd,
                   read_ext_csd |-> b]
  <2>1. v \in Values /\ b \in BOOLEAN
    <3>1. k.addr + 1 \in 1 .. SectorWords
      BY <1>0, <1>1, BlocksOf
    <3> QED
      BY <3>1, SdAssumption
  <2>2. DataAccess(k) = [k EXCEPT !.data = v, !.addr = k.addr + 1, !.read_ext_csd = b]
    BY <1>1 DEF DataAccess, csd_word
  <2> HIDE DEF v, b
  <2>3. DataAccess(k) = d
    BY <2>2, <1>0
  <2>4. d \in CardSet
    BY <2>1, <1>0 DEF CardSet
  <2> QED
    BY <2>3, <2>4, <1>1 DEF v, b
<1>2. CASE ~k.read_ext_csd
  <2> DEFINE v == IF k.pos \in Image /\ ~k.write_cmd THEN file[k.pos] ELSE k.data
             d == [arg |-> k.arg, data |-> v, pos |-> k.pos + 1, addr |-> k.addr + 1, write_cmd |-> k.write_cmd,
                   read_ext_csd |-> k.read_ext_csd]
  <2>1. v \in Values
    BY <1>0
  <2>2. DataAccess(k) = [k EXCEPT !.data = v, !.pos = k.pos + 1, !.addr = k.addr + 1]
    BY <1>2 DEF DataAccess
  <2>3. k.pos \in Image /\ ~k.write_cmd => v = file[k.pos]
    OBVIOUS
  <2> HIDE DEF v
  <2>4. DataAccess(k) = d
    BY <2>2, <1>0
  <2>5. d \in CardSet
    BY <2>1, <1>0 DEF CardSet
  <2> QED
    BY <2>3, <2>4, <2>5, <1>2
<1> QED
  BY <1>1, <1>2

\* What holds of the next state when a command has been sent.
LEMMA CommandSent ==
  ASSUME SdTypeOK, ProtInv, NEW h \in HostSet, h.mrq \in Requests, NEW which \in {"sbc", "cmd", "stop"},
         h.cmd = "none", ~h.data, ~h.warned, Send(h, which)
  PROVE  /\ host' = send_command(h, which) /\ host' \in HostSet /\ ~host'.warned
         /\ host'.mrq = h.mrq /\ host'.buf = h.buf /\ host'.moved = h.moved /\ host'.error = h.error
         /\ host'.cmd = which /\ host'.data = (which = "cmd" /\ HasData(h.mrq))
         /\ host'.data_complete = (h.data_complete /\ ~host'.data)
         /\ host'.blocks = IF which = "cmd" THEN h.mrq.blocks ELSE h.blocks
         /\ host'.left = IF which = "cmd" THEN SectorWords ELSE h.left
         /\ step' = IF which = "cmd" /\ h.mrq.op = "read_one" THEN "panic"
                    ELSE IF host'.data THEN "transfer" ELSE "finish_command"
         /\ card' \in CardSet
         /\ card'.read_ext_csd => card'.addr < SectorWords
         /\ ~card.read_ext_csd /\ ~(which = "cmd" /\ h.mrq.op = "ext_csd") => ~card'.read_ext_csd
         /\ which = "cmd" /\ h.mrq.op \in {"read", "write"} =>
              /\ card'.pos = h.mrq.sector * SectorWords /\ card'.write_cmd = (h.mrq.op = "write")
         /\ which = "cmd" /\ h.mrq.op = "ext_csd" => card'.read_ext_csd /\ card'.addr = 0
         /\ which # "cmd" => /\ card'.read_ext_csd = card.read_ext_csd /\ card'.addr = card.addr
                             /\ card'.pos = card.pos /\ card'.write_cmd = card.write_cmd
<1> DEFINE command == CommandOf(h, which)
           a == ArgumentOf(h, which)
<1>1. host' = send_command(h, which)
      /\ card' = sdcard_handle_cmd([card EXCEPT !.arg = a], command)
      /\ step' = IF Unhandled(command) THEN "panic" ELSE IF host'.data THEN "transfer" ELSE "finish_command"
  BY DEF Send
<1>2. a \in Nat
  BY RequestsAre DEF ArgumentOf
<1>3. which # "cmd" => command \in {"sbc", "stop"}
  BY DEF CommandOf
<1>4. which = "cmd" => command = h.mrq.op /\ a = h.mrq.sector
  BY DEF CommandOf, ArgumentOf
<1>5. Unhandled(command) <=> which = "cmd" /\ h.mrq.op = "read_one"
  BY <1>3, <1>4 DEF Unhandled
<1> HIDE DEF command, a
<1>6. card \in CardSet /\ (card.read_ext_csd => card.addr < SectorWords)
  BY DEF SdTypeOK, ProtInv
<1>7. /\ card' \in CardSet
      /\ command \in {"read", "write"} =>
           /\ card'.pos = a * SectorWords /\ card'.addr = 0 /\ card'.write_cmd = (command = "write")
           /\ card'.read_ext_csd = card.read_ext_csd
      /\ command = "ext_csd" => card'.read_ext_csd /\ card'.addr = 0
      /\ command \notin {"read", "write", "ext_csd"} =>
           /\ card'.read_ext_csd = card.read_ext_csd /\ card'.addr = card.addr
           /\ card'.pos = card.pos /\ card'.write_cmd = card.write_cmd
  BY <1>1, <1>2, <1>6, CardCommandIs
<1>8. /\ host' \in HostSet
      /\ host'.mrq = h.mrq /\ host'.buf = h.buf /\ host'.moved = h.moved /\ host'.error = h.error
      /\ host'.cmd = which /\ host'.data = (which = "cmd" /\ HasData(h.mrq))
      /\ host'.data_complete = (h.data_complete /\ ~(which = "cmd" /\ HasData(h.mrq)))
      /\ host'.warned = (h.warned \/ h.cmd # "none" \/ h.data)
      /\ host'.blocks = IF which = "cmd" THEN h.mrq.blocks ELSE h.blocks
      /\ host'.left = IF which = "cmd" THEN SectorWords ELSE h.left
  BY <1>1, SendCommandIs
<1>9. card'.read_ext_csd => card'.addr < SectorWords
  BY <1>6, <1>7, BlocksOf
<1>10. ~host'.warned
  BY <1>8
<1>11. ~card.read_ext_csd /\ ~(which = "cmd" /\ h.mrq.op = "ext_csd") => ~card'.read_ext_csd
  BY <1>3, <1>4, <1>7
<1>12. which # "cmd" => /\ card'.read_ext_csd = card.read_ext_csd /\ card'.addr = card.addr
                        /\ card'.pos = card.pos /\ card'.write_cmd = card.write_cmd
  BY <1>3, <1>7
<1>13. /\ which = "cmd" /\ h.mrq.op \in {"read", "write"} =>
              /\ card'.pos = h.mrq.sector * SectorWords /\ card'.write_cmd = (h.mrq.op = "write")
       /\ which = "cmd" /\ h.mrq.op = "ext_csd" => card'.read_ext_csd /\ card'.addr = 0
  BY <1>4, <1>7
<1> QED
  BY <1>1, <1>5, <1>7, <1>8, <1>9, <1>10, <1>11, <1>12, <1>13

LEMMA BlockCount ==
  ASSUME SdTypeOK, ProtInv, NEW h \in HostSet, h.mrq \in Requests, h.cmd = "none", ~h.data, ~h.warned,
         ~h.error, h.moved = 0, h.buf = h.mrq.buf, HasData(h.mrq), ~csd_cut => Still, Send(h, "sbc"),
         file' = file, disk' = disk, csd_cut' = csd_cut, answer' \in RequestSet \cup {NoRequest}
  PROVE  SdInv'
<1>1. /\ host' \in HostSet /\ ~host'.warned /\ card' \in CardSet /\ step' = "finish_command"
      /\ host'.mrq = h.mrq /\ host'.buf = h.buf /\ host'.moved = 0 /\ ~host'.error
      /\ host'.cmd = "sbc" /\ ~host'.data
      /\ card'.read_ext_csd => card'.addr < SectorWords
      /\ card'.read_ext_csd = card.read_ext_csd
  BY CommandSent
<1>2. SdTypeOK'
  BY <1>1 DEF SdTypeOK
<1>3. Counted(host')
  BY <1>1 DEF Counted
<1>4. ProtInv'
  BY <1>1, <1>3, RequestsAre DEF ProtInv
<1>5. DataInv'
  BY <1>1, <1>3 DEF DataInv, Still, Moved, Stopped, Counted
<1>6. ReadsAreExact'
  BY <1>1 DEF ReadsAreExact
<1> QED
  BY <1>2, <1>4, <1>5, <1>6 DEF SdInv

LEMMA ActualCommand ==
  ASSUME SdTypeOK, ProtInv, NEW h \in HostSet, h.mrq \in Requests, h.cmd = "none", ~h.data, ~h.warned,
         ~h.error, h.moved = 0, h.buf = h.mrq.buf, ~csd_cut => Still, Send(h, "cmd"),
         file' = file, disk' = disk, csd_cut' = csd_cut, answer' \in RequestSet \cup {NoRequest}
  PROVE  SdInv'
<1>0. h.mrq \in RequestSet /\ h.mrq.sg \in Nat /\ h.mrq.blocks \in Nat
      /\ (h.mrq.op # "write" => h.mrq.buf = <<>>)
  BY RequestsAre
<1>1. /\ host' \in HostSet /\ ~host'.warned /\ card' \in CardSet
      /\ host'.mrq = h.mrq /\ host'.buf = h.buf /\ host'.moved = 0 /\ ~host'.error
      /\ host'.cmd = "cmd" /\ host'.data = HasData(h.mrq)
      /\ host'.data_complete = (h.data_complete /\ ~host'.data)
      /\ host'.blocks = h.mrq.blocks /\ host'.left = SectorWords
      /\ step' = IF h.mrq.op = "read_one" THEN "panic"
                 ELSE IF host'.data THEN "transfer" ELSE "finish_command"
  <2>1. /\ host' \in HostSet /\ ~host'.warned /\ card' \in CardSet
        /\ host'.mrq = h.mrq /\ host'.buf = h.buf /\ host'.moved = h.moved /\ host'.error = h.error
        /\ host'.cmd = "cmd" /\ host'.data = HasData(h.mrq)
        /\ host'.data_complete = (h.data_complete /\ ~host'.data)
        /\ host'.blocks = h.mrq.blocks /\ host'.left = SectorWords
    BY CommandSent DEF HasData
  <2>2. step' = IF h.mrq.op = "read_one" THEN "panic"
                ELSE IF host'.data THEN "transfer" ELSE "finish_command"
    BY CommandSent
  <2> QED
    BY <2>1, <2>2
<1>2. /\ card'.read_ext_csd => card'.addr < SectorWords
      /\ ~card.read_ext_csd /\ h.mrq.op # "ext_csd" => ~card'.read_ext_csd
      /\ h.mrq.op \in {"read", "write"} =>
           card'.pos = h.mrq.sector * SectorWords /\ card'.write_cmd = (h.mrq.op = "write")
      /\ h.mrq.op = "ext_csd" => card'.read_ext_csd /\ card'.addr = 0
  BY CommandSent
<1>3. SdTypeOK'
  BY <1>1 DEF SdTypeOK
<1>4. Progress(host')
  <2> DEFINE m == h.mrq.blocks * SectorWords
  <2>1. m \in Nat /\ SectorWords \in Nat /\ (h.mrq.blocks = 0 => m = 0)
    BY <1>0, BlocksOf
  <2>2. host'.blocks * SectorWords = m /\ host'.mrq.blocks * SectorWords = m
    BY <1>1
  <2> HIDE DEF m
  <2>3. host'.moved + host'.left + m = m + SectorWords
    BY <1>1, <2>1
  <2> QED
    BY <1>0, <1>1, <2>1, <2>2, <2>3 DEF Progress
<1>5. step' = "transfer" => Moving(host') /\ host'.mrq.op # "read_one"
  BY <1>1, <1>4 DEF Moving
<1>6. step' = "finish_command" => Sent(host') /\ host'.mrq.op # "read_one"
  BY <1>1 DEF Sent
<1>7. ProtInv'
  BY <1>0, <1>1, <1>2, <1>5, <1>6 DEF ProtInv
<1>8. ASSUME ~csd_cut', step' = "transfer" PROVE SoFar(host)'
  <2>0. file' = disk' /\ ~card.read_ext_csd
    BY <1>8 DEF Still
  <2>1. \A i \in 1 .. 0 : FALSE
    OBVIOUS
  <2>2. CASE h.mrq.op = "read"
    <3>1. host'.buf = <<>> /\ Len(host'.buf) = 0
      BY <1>0, <1>1, <2>2
    <3> DEFINE first == h.mrq.sector * SectorWords
    <3>3. first \in Nat /\ card'.pos = first /\ host'.mrq.sector * SectorWords = first
      BY <1>1, <1>2, <2>2, InImage
    <3>4. ~card'.read_ext_csd /\ ~card'.write_cmd
      BY <1>2, <2>0, <2>2
    <3> HIDE DEF first
    <3>2. ~card'.read_ext_csd /\ ~card'.write_cmd /\ card'.pos = (host'.mrq.sector * SectorWords) + host'.moved
      BY <1>1, <3>3, <3>4
    <3> QED
      BY <1>1, <2>0, <2>1, <2>2, <3>1, <3>2 DEF SoFar, ReadSoFar
  <2>3. CASE h.mrq.op = "write"
    <3> DEFINE first == h.mrq.sector * SectorWords
    <3>1. first \in Nat
      BY InImage
    <3>2. ~card'.read_ext_csd /\ card'.write_cmd /\ card'.pos = first
      BY <1>2, <2>0, <2>3
    <3>3. host'.mrq.sector * SectorWords = first
      BY <1>1
    <3> HIDE DEF first
    <3>4. \A w : w \notin first .. (first + 0 - 1)
      BY <3>1
    <3> QED
      BY <1>1, <2>0, <2>3, <3>1, <3>2, <3>3, <3>4 DEF SoFar, WrittenSoFar
  <2>4. CASE h.mrq.op = "ext_csd"
    <3>1. host'.buf = <<>> /\ Len(host'.buf) = 0
      BY <1>0, <1>1, <2>4
    <3>2. card'.read_ext_csd /\ card'.addr = 0
      BY <1>2, <2>4
    <3>3. card'.read_ext_csd \in BOOLEAN
      BY <1>1 DEF CardSet
    <3>4. host'.moved < SectorWords /\ host'.moved <= SectorWords
      BY <1>1, BlocksOf
    <3>5. card'.read_ext_csd = (host'.moved < SectorWords)
      BY <3>2, <3>3, <3>4
    <3>6. \A i \in 1 .. host'.moved : FALSE
      BY <1>1, <2>1
    <3>7. CsdSoFar(host)'
      BY <1>1, <2>0, <3>1, <3>2, <3>4, <3>5, <3>6 DEF CsdSoFar
    <3> QED
      BY <1>1, <2>4, <3>7 DEF SoFar
  <2> QED
    BY <2>2, <2>3, <2>4, <1>1 DEF SoFar
<1>9. ASSUME ~csd_cut', step' = "finish_command" PROVE Still'
  <2>1. h.mrq.op # "ext_csd"
    BY <1>1, <1>9 DEF HasData
  <2> QED
    BY <2>1, <1>2, <1>9 DEF Still
<1>10. DataInv'
  BY <1>1, <1>6, <1>8, <1>9 DEF DataInv, Moved, Stopped, Sent
<1>11. ReadsAreExact'
  BY <1>1 DEF ReadsAreExact
<1> QED
  BY <1>3, <1>7, <1>10, <1>11 DEF SdInv

\* The request goes back to the core.
LEMMA FinishedType ==
  ASSUME SdTypeOK, NEW h \in HostSet, h.mrq \in Requests, ~h.warned, h.moved <= h.mrq.sg,
         HasData(h.mrq) => Progress(h) /\ h.blocks = 0, finish_request(h), file' = file
  PROVE  /\ SdTypeOK' /\ step' = "idle" /\ Resting(host') /\ ~host'.warned /\ card' = card
         /\ answer'.op = h.mrq.op /\ answer'.error = h.error /\ answer'.buf = h.buf
         /\ answer'.sector = h.mrq.sector /\ answer'.blocks = h.mrq.blocks
         /\ HasData(h.mrq) /\ ~h.error => h.moved = h.mrq.blocks * SectorWords
<1>0. h.mrq \in RequestSet /\ h.mrq.sg \in Nat /\ h.mrq.blocks \in Nat /\ h.mrq.buf \in Seq(Values)
      /\ (h.mrq.op = "write" => h.mrq.sg <= Len(h.mrq.buf))
  BY RequestsAre
<1>1. /\ host' = [h EXCEPT !.mrq = NoRequest, !.cmd = "none", !.data = FALSE] /\ card' = card
      /\ answer' = [h.mrq EXCEPT !.error = h.error, !.buf = h.buf] /\ step' = "idle"
      /\ csd_cut' = (csd_cut \/ (h.mrq.op = "ext_csd" /\ h.error))
  BY DEF finish_request
<1>2. host' \in HostSet /\ Resting(host') /\ ~host'.warned
  BY <1>1 DEF HostSet, Resting
<1>3. h.error \in BOOLEAN /\ h.buf \in Seq(Values) /\ h.moved \in Nat /\ h.left \in Nat
  BY DEF HostSet
<1>4. /\ answer' \in RequestSet /\ answer'.op = h.mrq.op /\ answer'.error = h.error /\ answer'.buf = h.buf
      /\ answer'.sector = h.mrq.sector /\ answer'.blocks = h.mrq.blocks
  <2> DEFINE e == h.error
             b == h.buf
             m == h.mrq
  <2>1. answer' = [m EXCEPT !.error = e, !.buf = b] /\ e \in BOOLEAN /\ b \in Seq(Values) /\ m \in RequestSet
    BY <1>0, <1>1, <1>3
  <2> HIDE DEF e, b, m
  <2>2. m = [op |-> m.op, sector |-> m.sector, blocks |-> m.blocks, sbc |-> m.sbc, stop |-> m.stop,
             sg |-> m.sg, buf |-> m.buf, oddsize |-> m.oddsize, error |-> m.error]
    BY <2>1 DEF RequestSet
  <2>3. answer' = [op |-> m.op, sector |-> m.sector, blocks |-> m.blocks, sbc |-> m.sbc, stop |-> m.stop,
             sg |-> m.sg, buf |-> b, oddsize |-> m.oddsize, error |-> e]
    BY <2>1, <2>2
  <2>4. answer' \in RequestSet
    BY <2>1, <2>3 DEF RequestSet
  <2> QED
    BY <2>3, <2>4 DEF e, b, m
<1>5. HasData(h.mrq) /\ ~h.error => h.moved = h.mrq.blocks * SectorWords
  <2> SUFFICES ASSUME HasData(h.mrq), ~h.error PROVE h.moved = h.mrq.blocks * SectorWords
    OBVIOUS
  <2> DEFINE m == h.mrq.blocks * SectorWords
  <2>1. m \in Nat /\ SectorWords \in Nat /\ h.blocks * SectorWords = 0
    BY <1>0, BlocksOf
  <2>2. h.left = SectorWords /\ h.moved + h.left + (h.blocks * SectorWords) = m + SectorWords
    BY DEF Progress
  <2> HIDE DEF m
  <2>3. h.moved = m
    BY <1>3, <2>1, <2>2
  <2> QED
    BY <2>3 DEF m
<1>6. disk' \in [Image -> Values]
  <2> DEFINE first == h.mrq.sector * SectorWords
             n == h.mrq.blocks * SectorWords
  <2>1. CASE h.mrq.op # "write"
    BY <2>1 DEF finish_request, SdTypeOK
  <2>2. CASE h.mrq.op = "write"
    <3>1. disk' = [w \in Image |-> IF w \notin first .. (first + n - 1) THEN disk[w]
                                   ELSE IF h.error THEN file[w] ELSE h.mrq.buf[w - first + 1]]
      BY <2>2 DEF finish_request
    <3>2. first \in Nat /\ n \in Nat
      BY InImage
    <3>3. ~h.error => n <= Len(h.mrq.buf)
      BY <1>0, <1>3, <1>5, <2>2, <3>2 DEF HasData
    <3> HIDE DEF first, n
    <3>4. ASSUME NEW w \in first .. (first + n - 1), ~h.error PROVE h.mrq.buf[w - first + 1] \in Values
      <4>1. w - first + 1 \in 1 .. Len(h.mrq.buf)
        BY <1>0, <3>2, <3>3, <3>4
      <4> QED
        BY <4>1, <1>0
    <3>5. \A w \in Image : disk[w] \in Values /\ file[w] \in Values
      BY DEF SdTypeOK
    <3> QED
      BY <3>1, <3>4, <3>5
  <2> QED
    BY <2>1, <2>2
<1>7. SdTypeOK'
  BY <1>1, <1>2, <1>4, <1>6 DEF SdTypeOK
<1> QED
  BY <1>1, <1>2, <1>4, <1>5, <1>7

LEMMA Finished ==
  ASSUME SdTypeOK, ProtInv, NEW h \in HostSet, h.mrq \in Requests, ~h.warned, h.moved <= h.mrq.sg,
         HasData(h.mrq) => Progress(h) /\ h.blocks = 0, HasData(h.mrq) /\ ~csd_cut => SoFar(h),
         ~HasData(h.mrq) /\ ~csd_cut => Still, h.mrq.op # "read_one",
         finish_request(h), file' = file
  PROVE  SdInv'
<1>1. /\ SdTypeOK' /\ step' = "idle" /\ Resting(host') /\ ~host'.warned /\ card' = card
      /\ answer'.op = h.mrq.op /\ answer'.error = h.error /\ answer'.buf = h.buf
      /\ answer'.sector = h.mrq.sector /\ answer'.blocks = h.mrq.blocks
      /\ HasData(h.mrq) /\ ~h.error => h.moved = h.mrq.blocks * SectorWords
  BY FinishedType
<1>2. ProtInv'
  BY <1>1 DEF ProtInv
<1> DEFINE first == h.mrq.sector * SectorWords
           n == h.mrq.blocks * SectorWords
<1>3. first \in Nat /\ n \in Nat /\ h.moved \in Nat /\ h.left \in Nat /\ h.buf \in Seq(Values)
      /\ h.error \in BOOLEAN /\ SectorWords \in Nat /\ SectorWords > 0
  BY InImage, BlocksOf DEF HostSet
<1>4. HasData(h.mrq) => h.moved <= n
  <2> SUFFICES ASSUME HasData(h.mrq) PROVE h.moved <= n
    OBVIOUS
  <2>1. h.left = SectorWords /\ h.blocks * SectorWords = 0 /\ h.moved + h.left + (h.blocks * SectorWords) <= n + SectorWords
    BY BlocksOf DEF Progress
  <2> HIDE DEF n
  <2> QED
    BY <1>3, <2>1
<1>5. csd_cut' = (csd_cut \/ (h.mrq.op = "ext_csd" /\ h.error))
  BY DEF finish_request
<1>6. h.mrq.op # "write" => disk' = disk
  BY DEF finish_request
<1>7. ASSUME ~csd_cut', h.mrq.op = "write" PROVE file' = disk'
  <2>1. WrittenSoFar(h)
    BY <1>5, <1>7 DEF SoFar, HasData
  <2>2. disk' = [w \in Image |-> IF w \notin first .. (first + n - 1) THEN disk[w]
                                 ELSE IF h.error THEN file[w] ELSE h.mrq.buf[w - first + 1]]
    BY <1>7 DEF finish_request
  <2>3. h.moved <= n /\ (~h.error => h.moved = n)
    BY <1>1, <1>4, <1>7 DEF HasData
  <2>4. \A w \in Image : file[w] = IF w \in first .. (first + h.moved - 1) THEN h.mrq.buf[w - first + 1] ELSE disk[w]
    BY <2>1 DEF WrittenSoFar
  <2> HIDE DEF first, n
  <2>5. ASSUME NEW w \in Image PROVE file[w] = disk'[w]
    <3>1. w \notin first .. (first + n - 1) => w \notin first .. (first + h.moved - 1)
      BY <1>3, <2>3
    <3>2. h.error \/ h.moved = n
      BY <2>3
    <3> QED
      BY <2>2, <2>4, <3>1, <3>2
  <2>6. file = [w \in Image |-> file[w]] /\ disk' = [w \in Image |-> disk'[w]]
    BY <1>1 DEF SdTypeOK
  <2> QED
    BY <2>5, <2>6
<1>8. ASSUME ~csd_cut' PROVE Still'
  <2>1. CASE ~HasData(h.mrq)
    <3>1. h.mrq.op = "status"
      BY <2>1 DEF HasData
    <3>2. Still /\ disk' = disk
      BY <1>5, <1>6, <1>8, <2>1, <3>1
    <3> QED
      BY <1>1, <3>2 DEF Still
  <2>2. CASE h.mrq.op = "write"
    <3>1. ~card.read_ext_csd
      BY <1>5, <1>8, <2>2 DEF SoFar, WrittenSoFar, HasData
    <3> QED
      BY <1>1, <1>7, <1>8, <2>2, <3>1 DEF Still
  <2>3. CASE h.mrq.op = "read"
    BY <1>1, <1>5, <1>6, <1>8, <2>3 DEF SoFar, ReadSoFar, Still, HasData
  <2>4. CASE h.mrq.op = "ext_csd"
    <3>1. ~h.error /\ CsdSoFar(h)
      BY <1>5, <1>8, <2>4 DEF SoFar, HasData
    <3>2. h.moved = SectorWords
      BY <1>1, <3>1, <2>4, RequestsAre, BlocksOf DEF HasData
    <3>3. file = disk /\ ~card.read_ext_csd
      BY <1>3, <3>1, <3>2 DEF CsdSoFar
    <3> QED
      BY <1>1, <1>6, <2>4, <3>3 DEF Still
  <2>5. ~HasData(h.mrq) \/ h.mrq.op \in {"read", "write", "ext_csd"}
    BY RequestsAre DEF Operations, HasData
  <2> QED
    BY <2>1, <2>2, <2>3, <2>4, <2>5
<1>9. DataInv'
  BY <1>1, <1>8 DEF DataInv
<1>10. ASSUME ~csd_cut', h.mrq.op = "read", ~h.error PROVE h.buf = Slice(h.mrq.sector, n)'
  <2>1. ReadSoFar(h) /\ h.moved = n /\ disk' = disk
    BY <1>1, <1>5, <1>6, <1>10 DEF SoFar, HasData
  <2>2. Len(h.buf) = n /\ \A i \in 1 .. n : h.buf[i] = disk[first + i - 1]
    BY <2>1 DEF ReadSoFar
  <2>3. Slice(h.mrq.sector, n)' = [i \in 1 .. n |-> disk[first + i - 1]]
    BY <2>1 DEF Slice
  <2> HIDE DEF n, first
  <2>4. h.buf = [i \in 1 .. n |-> h.buf[i]]
    <3>1. h.buf \in [1 .. Len(h.buf) -> Values]
      BY <1>3, LenProperties
    <3>2. Len(h.buf) = n
      BY <2>2
    <3> QED
      BY <3>1, <3>2
  <2> QED
    BY <2>2, <2>3, <2>4
<1>11. ASSUME ~csd_cut', h.mrq.op = "ext_csd", ~h.error PROVE h.buf = ext_csd
  <2>1. CsdSoFar(h)
    BY <1>5, <1>11 DEF SoFar, HasData
  <2>2. h.moved = SectorWords
    BY <1>1, <1>11, RequestsAre, BlocksOf DEF HasData
  <2>3. Len(h.buf) = SectorWords /\ \A i \in 1 .. SectorWords : h.buf[i] = ext_csd[i]
    BY <2>1, <2>2 DEF CsdSoFar
  <2>4. h.buf = [i \in 1 .. SectorWords |-> h.buf[i]] /\ ext_csd = [i \in 1 .. SectorWords |-> ext_csd[i]]
    BY <1>3, <2>3, SdAssumption
  <2> QED
    BY <2>3, <2>4
<1>12. ReadsAreExact'
  <2> SUFFICES ASSUME ~csd_cut', h.mrq.op \in {"read", "ext_csd"}, ~h.error
               PROVE  h.buf = IF h.mrq.op = "read" THEN Slice(h.mrq.sector, n)' ELSE ext_csd
    BY <1>1 DEF ReadsAreExact, Slice
  <2> QED
    BY <1>10, <1>11
<1> QED
  BY <1>1, <1>2, <1>9, <1>12 DEF SdInv

\* One word moves: between the scatter list and the data register of the card.
LEMMA WordMoves ==
  ASSUME SdInv, transfer_word PROVE SdInv'
<1>0. /\ SdTypeOK /\ ProtInv /\ step = "transfer" /\ host.blocks > 0 /\ host.left > 0
      /\ host.moved < host.mrq.sg /\ host.mrq \in Requests /\ Moving(host) /\ Progress(host)
      /\ host.mrq.op # "read_one" /\ ~host.warned
  BY DEF SdInv, ProtInv, transfer_word, Moving, Counted
<1>1. /\ host \in HostSet /\ card \in CardSet /\ file \in [Image -> Values] /\ disk \in [Image -> Values]
      /\ host.moved \in Nat /\ host.left \in Nat /\ host.blocks \in Nat /\ host.buf \in Seq(Values)
      /\ host.error \in BOOLEAN /\ host.mrq.sg \in Nat /\ (card.read_ext_csd => card.addr < SectorWords)
  BY <1>0, RequestsAre DEF SdTypeOK, HostSet, ProtInv
<1> DEFINE k == IF Reads(host.mrq) THEN card ELSE [card EXCEPT !.data = host.mrq.buf[host.moved + 1]]
           d == DataAccess(k)
           b == IF Reads(host.mrq) THEN Append(host.buf, d.data) ELSE host.buf
           first == host.mrq.sector * SectorWords
           n == host.mrq.blocks * SectorWords
<1>2. /\ card' = d /\ file' = FileAfter(k)
      /\ host' = [host EXCEPT !.left = @ - 1, !.moved = @ + 1, !.buf = b]
      /\ step' = step /\ answer' = answer /\ disk' = disk /\ csd_cut' = csd_cut
  <2>1. CASE Reads(host.mrq)
    BY <2>1 DEF transfer_word
  <2>2. CASE ~Reads(host.mrq)
    <3>1. host' = [host EXCEPT !.left = @ - 1, !.moved = @ + 1] /\ b = host.buf
          /\ card' = d /\ file' = FileAfter(k)
          /\ step' = step /\ answer' = answer /\ disk' = disk /\ csd_cut' = csd_cut
      BY <2>2 DEF transfer_word
    <3> HIDE DEF b, d, k
    <3>2. [host EXCEPT !.left = @ - 1, !.moved = @ + 1] = [host EXCEPT !.left = @ - 1, !.moved = @ + 1, !.buf = b]
      BY <1>1, <3>1 DEF HostSet
    <3> QED
      BY <3>1, <3>2
  <2> QED
    BY <2>1, <2>2
<1>3. /\ k \in CardSet /\ k.read_ext_csd = card.read_ext_csd /\ k.addr = card.addr /\ k.pos = card.pos
      /\ k.write_cmd = card.write_cmd
      /\ ~Reads(host.mrq) => k.data = host.mrq.buf[host.moved + 1]
  <2>1. CASE Reads(host.mrq)
    BY <2>1, <1>1
  <2>2. CASE ~Reads(host.mrq)
    <3> DEFINE v == host.mrq.buf[host.moved + 1]
    <3>1. host.mrq.op = "write"
      BY <1>0, <2>2, RequestsAre DEF Moving, HasData, Reads, Operations
    <3>2. host.moved + 1 \in 1 .. Len(host.mrq.buf) /\ host.mrq.buf \in Seq(Values)
      BY <1>0, <1>1, <3>1, RequestsAre
    <3>3. v \in Values
      BY <3>2
    <3>4. k = [card EXCEPT !.data = v]
      BY <2>2
    <3> HIDE DEF v, k
    <3>5. /\ k \in CardSet /\ k.read_ext_csd = card.read_ext_csd /\ k.addr = card.addr /\ k.pos = card.pos
          /\ k.write_cmd = card.write_cmd /\ k.data = v
      BY <1>1, <3>3, <3>4 DEF CardSet
    <3> QED
      BY <3>5 DEF v
  <2> QED
    BY <2>1, <2>2
<1> HIDE DEF k
<1>4. /\ d \in CardSet /\ d.write_cmd = card.write_cmd
      /\ card.read_ext_csd => /\ d.data = ext_csd[card.addr + 1] /\ d.addr = card.addr + 1
                              /\ d.read_ext_csd = (card.addr # SectorWords - 1)
      /\ ~card.read_ext_csd => /\ ~d.read_ext_csd /\ d.pos = card.pos + 1
                               /\ card.pos \in Image /\ ~card.write_cmd => d.data = file[card.pos]
  BY <1>1, <1>3, DataAccessIs
<1> HIDE DEF d
<1>5. d.data \in Values /\ d.addr \in Nat
  BY <1>4 DEF CardSet
<1>6. b \in Seq(Values) /\ (Reads(host.mrq) => /\ Len(b) = Len(host.buf) + 1 /\ b[Len(host.buf) + 1] = d.data
                                                /\ \A i \in 1 .. Len(host.buf) : b[i] = host.buf[i])
  BY <1>1, <1>5
<1>7. file' \in [Image -> Values]
  BY <1>1, <1>2, <1>3 DEF FileAfter, CardSet
<1> HIDE DEF b
<1>8. /\ host' \in HostSet /\ host'.left = host.left - 1 /\ host'.moved = host.moved + 1 /\ host'.buf = b
      /\ host'.mrq = host.mrq /\ host'.cmd = host.cmd /\ host'.data = host.data /\ host'.error = host.error
      /\ host'.data_complete = host.data_complete /\ host'.blocks = host.blocks /\ host'.warned = host.warned
  <2> DEFINE l == host.left - 1
             m == host.moved + 1
  <2>1. l \in Nat /\ m \in Nat
    BY <1>0, <1>1
  <2>2. host' = [host EXCEPT !.left = l, !.moved = m, !.buf = b]
    BY <1>2
  <2> HIDE DEF l, m
  <2>3. /\ host' \in HostSet /\ host'.left = l /\ host'.moved = m /\ host'.buf = b
        /\ host'.mrq = host.mrq /\ host'.cmd = host.cmd /\ host'.data = host.data /\ host'.error = host.error
        /\ host'.data_complete = host.data_complete /\ host'.blocks = host.blocks /\ host'.warned = host.warned
    BY <1>1, <1>6, <2>1, <2>2 DEF HostSet
  <2> QED
    BY <2>3 DEF l, m
<1>9. SdTypeOK'
  BY <1>0, <1>2, <1>4, <1>7, <1>8 DEF SdTypeOK
<1>10. Progress(host') /\ host'.moved <= host'.mrq.sg
  <2> DEFINE x == host.blocks * SectorWords
             a == host.moved
             l == host.left
             a1 == host'.moved
             l1 == host'.left
  <2>1. x \in Nat /\ n \in Nat /\ SectorWords \in Nat /\ a \in Nat /\ l \in Nat /\ l > 0
    BY <1>0, <1>1, BlocksOf, InImage
  <2>2. host'.blocks * SectorWords = x /\ host'.mrq.blocks * SectorWords = n
    BY <1>8
  <2>3. l <= SectorWords /\ (~host.error => a + l + x = n + SectorWords)
        /\ (host.error => a >= host.mrq.sg)
    BY <1>0 DEF Progress
  <2>4. a1 = a + 1 /\ l1 = l - 1
    BY <1>8
  <2>5. ~host.error /\ a < host.mrq.sg /\ host.mrq.sg \in Nat
    BY <1>0, <1>1, <2>1, <2>3
  <2>6. ~host'.error /\ host'.blocks = host.blocks /\ host'.mrq = host.mrq /\ host.blocks > 0
    BY <1>0, <1>8, <2>5
  <2>7. host'.blocks # 0
    BY <1>1, <2>6
  <2>8. a + l + x = n + SectorWords
    BY <2>3, <2>5
  <2> HIDE DEF x, n, a, l
  <2>9. l1 <= SectorWords /\ a1 <= host.mrq.sg
    <3> HIDE DEF a1, l1
    <3>1. l1 <= SectorWords
      BY <2>1, <2>3, <2>4
    <3>2. a1 <= host.mrq.sg
      BY <2>1, <2>4, <2>5
    <3> QED
      BY <3>1, <3>2
  <2>10. a1 + l1 + x = n + SectorWords
    <3> HIDE DEF a1, l1
    <3>1. a1 + l1 = a + l
      BY <2>1, <2>4
    <3> QED
      BY <2>8, <3>1
  <2>11. a1 + l1 + x <= n + SectorWords
    <3> HIDE DEF a1, l1
    <3> QED
      BY <2>1, <2>10
  <2> HIDE DEF a1, l1
  <2>12. /\ host'.moved + host'.left + (host'.blocks * SectorWords) = (host'.mrq.blocks * SectorWords) + SectorWords
         /\ host'.moved + host'.left + (host'.blocks * SectorWords) <= (host'.mrq.blocks * SectorWords) + SectorWords
    BY <2>2, <2>10, <2>11 DEF a1, l1
  <2> QED
    BY <2>6, <2>7, <2>9, <2>12 DEF Progress, a1, l1
<1>11. Moving(host')
  BY <1>0, <1>8, <1>10 DEF Moving
<1>12. card'.read_ext_csd => card'.addr < SectorWords
  <2> SUFFICES ASSUME d.read_ext_csd PROVE d.addr < SectorWords
    BY <1>2
  <2>1. card.read_ext_csd
    BY <1>4
  <2>2. d.addr = card.addr + 1 /\ card.addr # SectorWords - 1 /\ card.addr < SectorWords /\ card.addr \in Nat
    BY <1>1, <1>4, <2>1 DEF CardSet
  <2> QED
    BY <2>2, BlocksOf
<1>13. ProtInv'
  BY <1>0, <1>2, <1>8, <1>10, <1>11, <1>12 DEF ProtInv
<1>14. /\ first \in Nat /\ n \in Nat /\ host.moved < n /\ first + host.moved \in Image
       /\ host.mrq.op = "ext_csd" => n = SectorWords
  <2> DEFINE x == host.blocks * SectorWords
  <2>1. x \in Nat /\ x >= SectorWords /\ n \in Nat /\ first \in Nat /\ SectorWords \in Nat
    BY <1>0, <1>1, BlocksOf, InImage
  <2>2. host.moved + host.left + x <= n + SectorWords
    BY <1>0 DEF Progress
  <2>4. host.mrq.op = "ext_csd" => n = SectorWords
    BY <1>0, RequestsAre, BlocksOf
  <2> HIDE DEF x
  <2>3. host.moved < n
    <3> HIDE DEF n
    <3> QED
      BY <1>0, <1>1, <2>1, <2>2
  <2> QED
    BY <1>0, <1>1, <2>1, <2>3, <2>4, InImage
<1>15. host'.mrq.sector * SectorWords = first
  BY <1>8
<1>16. SoFar(host) \/ csd_cut
  BY <1>0 DEF SdInv, DataInv
<1>17. ASSUME ~csd_cut, host.mrq.op = "read" PROVE ReadSoFar(host)'
  <2>1. ReadSoFar(host) /\ Reads(host.mrq)
    BY <1>16, <1>17 DEF SoFar, Reads
  <2>2. /\ file = disk /\ ~card.read_ext_csd /\ ~card.write_cmd /\ card.pos = first + host.moved
        /\ Len(host.buf) = host.moved /\ \A i \in 1 .. host.moved : host.buf[i] = disk[first + i - 1]
    BY <2>1 DEF ReadSoFar
  <2>3. file' = file
    BY <1>2, <1>3, <2>2 DEF FileAfter
  <2>4. /\ ~card'.read_ext_csd /\ ~card'.write_cmd /\ card'.pos = card.pos + 1 /\ d.data = file[card.pos]
    BY <1>2, <1>4, <1>14, <2>2
  <2> HIDE DEF first
  <2>5. card'.pos = first + host'.moved /\ Len(host'.buf) = host'.moved
    BY <1>1, <1>6, <1>8, <1>14, <2>1, <2>2, <2>4
  <2>6. ASSUME NEW i \in 1 .. host'.moved PROVE host'.buf[i] = disk[first + i - 1]
    <3>1. CASE i = host.moved + 1
      <4>1. first + i - 1 = card.pos
        BY <1>1, <1>14, <2>2, <3>1
      <4> QED
        BY <4>1, <1>6, <1>8, <2>1, <2>2, <2>4, <3>1
    <3>2. CASE i # host.moved + 1
      <4>1. i \in 1 .. host.moved
        BY <1>1, <1>8, <3>2
      <4> QED
        BY <4>1, <1>6, <1>8, <2>1, <2>2
    <3> QED
      BY <3>1, <3>2
  <2> QED
    BY <1>2, <1>15, <2>2, <2>3, <2>4, <2>5, <2>6 DEF ReadSoFar
<1>18. ASSUME ~csd_cut, host.mrq.op = "write" PROVE WrittenSoFar(host)'
  <2>1. WrittenSoFar(host) /\ ~Reads(host.mrq)
    BY <1>16, <1>18 DEF SoFar, Reads
  <2>2. /\ ~card.read_ext_csd /\ card.write_cmd /\ card.pos = first + host.moved
        /\ \A w \in Image : file[w] = IF w \in first .. (first + host.moved - 1)
                                      THEN host.mrq.buf[w - first + 1] ELSE disk[w]
    BY <2>1 DEF WrittenSoFar
  <2>3. file' = [file EXCEPT ![card.pos] = host.mrq.buf[host.moved + 1]]
    BY <1>2, <1>3, <1>14, <2>1, <2>2 DEF FileAfter
  <2>4. /\ ~card'.read_ext_csd /\ card'.write_cmd /\ card'.pos = card.pos + 1
    BY <1>2, <1>4, <2>2
  <2> HIDE DEF first
  <2>5. card'.pos = first + host'.moved
    BY <1>1, <1>8, <1>14, <2>2, <2>4
  <2>6. ASSUME NEW w \in Image
        PROVE  file'[w] = IF w \in first .. (first + host'.moved - 1) THEN host.mrq.buf[w - first + 1] ELSE disk[w]
    <3>0. w \in Int /\ first + host'.moved - 1 = first + host.moved
      BY <1>1, <1>8, <1>14, SdAssumption DEF Image
    <3>1. CASE w = card.pos
      <4>1. w \in first .. (first + host.moved) /\ w - first + 1 = host.moved + 1
        BY <1>1, <1>14, <2>2, <3>1
      <4>2. file'[w] = host.mrq.buf[host.moved + 1]
        BY <2>3, <3>1, <1>1
      <4> QED
        BY <4>1, <4>2, <3>0
    <3>2. CASE w # card.pos
      <4>1. w \in first .. (first + host.moved) <=> w \in first .. (first + host.moved - 1)
        BY <1>1, <1>14, <2>2, <3>0, <3>2
      <4>2. file'[w] = file[w]
        BY <2>3, <3>2, <1>1
      <4> QED
        BY <4>1, <4>2, <2>2, <3>0
    <3> QED
      BY <3>1, <3>2
  <2> QED
    BY <1>2, <1>8, <1>15, <2>4, <2>5, <2>6 DEF WrittenSoFar
<1>19. ASSUME ~csd_cut, host.mrq.op = "ext_csd" PROVE CsdSoFar(host)'
  <2>1. CsdSoFar(host) /\ Reads(host.mrq) /\ host.moved < SectorWords
    BY <1>14, <1>16, <1>19 DEF SoFar, Reads
  <2>2. /\ file = disk /\ Len(host.buf) = host.moved /\ card.read_ext_csd /\ card.addr = host.moved
        /\ \A i \in 1 .. host.moved : host.buf[i] = ext_csd[i]
    BY <1>1, <2>1 DEF CsdSoFar
  <2>3. file' = file
    BY <1>2, <1>3, <2>2 DEF FileAfter
  <2>4. /\ card'.read_ext_csd = (host'.moved < SectorWords) /\ card'.addr = host'.moved
        /\ host'.moved <= SectorWords
    <3>1. /\ host'.moved = host.moved + 1 /\ host.moved < SectorWords /\ host.moved \in Nat
          /\ SectorWords \in Nat \ {0}
      BY <1>1, <1>8, <2>1, BlocksOf
    <3>2. card'.addr = host.moved + 1 /\ card'.read_ext_csd = (host.moved # SectorWords - 1)
      BY <1>2, <1>4, <2>2
    <3>3. (host.moved # SectorWords - 1) = (host.moved + 1 < SectorWords) /\ host.moved + 1 <= SectorWords
      BY <3>1
    <3> QED
      BY <3>1, <3>2, <3>3
  <2>5. Len(host'.buf) = host'.moved
    BY <1>6, <1>8, <2>1, <2>2
  <2>6. ASSUME NEW i \in 1 .. host'.moved PROVE host'.buf[i] = ext_csd[i]
    <3>1. CASE i = host.moved + 1
      BY <1>4, <1>6, <1>8, <2>1, <2>2, <3>1
    <3>2. CASE i # host.moved + 1
      <4>1. i \in 1 .. host.moved
        BY <1>1, <1>8, <3>2
      <4> QED
        BY <4>1, <1>6, <1>8, <2>1, <2>2
    <3> QED
      BY <3>1, <3>2
  <2> QED
    BY <1>2, <2>2, <2>3, <2>4, <2>5, <2>6 DEF CsdSoFar
<1>20. ~csd_cut' => SoFar(host)'
  BY <1>2, <1>8, <1>17, <1>18, <1>19 DEF SoFar
<1>21. DataInv'
  BY <1>0, <1>2, <1>20 DEF DataInv
<1>22. ReadsAreExact'
  BY <1>0, <1>2 DEF ReadsAreExact
<1> QED
  BY <1>9, <1>13, <1>21, <1>22 DEF SdInv

\* A step that changes only the driver's count of what is left to move.
LEMMA SkipsOn ==
  ASSUME SdInv, step = "transfer", card' = card, file' = file, step' = step, answer' = answer,
         disk' = disk, csd_cut' = csd_cut, host' \in HostSet, host'.mrq = host.mrq, host'.cmd = host.cmd,
         host'.data = host.data, host'.data_complete = host.data_complete, host'.warned = host.warned,
         host'.moved = host.moved, host'.buf = host.buf, Progress(host')
  PROVE  SdInv'
<1>0. SdTypeOK /\ ProtInv /\ Moving(host) /\ ~Counted(host) /\ (~csd_cut => SoFar(host))
  BY DEF SdInv, ProtInv, DataInv, Moving, Counted
<1>1. SdTypeOK'
  BY <1>0 DEF SdTypeOK
<1>2. Moving(host')
  BY <1>0 DEF Moving
<1>3. ProtInv'
  BY <1>0, <1>2 DEF ProtInv
<1>4. ~csd_cut' => SoFar(host)'
  BY <1>0 DEF SoFar, ReadSoFar, WrittenSoFar, CsdSoFar
<1>5. DataInv'
  BY <1>4 DEF DataInv
<1>6. ReadsAreExact'
  BY DEF ReadsAreExact
<1> QED
  BY <1>1, <1>3, <1>5, <1>6 DEF SdInv

LEMMA BlockFails == ASSUME SdInv, transfer_fails PROVE SdInv'
<1>0. /\ step = "transfer" /\ host.blocks > 0 /\ host.left > 0 /\ host.moved >= host.mrq.sg
      /\ host \in HostSet /\ Progress(host) /\ host.mrq \in Requests
  BY DEF transfer_fails, SdInv, SdTypeOK, ProtInv, Moving
<1>1. host' = [host EXCEPT !.left = 0, !.error = TRUE] /\ card' = card /\ file' = file /\ step' = step
      /\ answer' = answer /\ disk' = disk /\ csd_cut' = csd_cut
  BY DEF transfer_fails
<1>2. /\ host' \in HostSet /\ host'.left = 0 /\ host'.error /\ host'.mrq = host.mrq /\ host'.cmd = host.cmd
      /\ host'.data = host.data /\ host'.data_complete = host.data_complete /\ host'.warned = host.warned
      /\ host'.moved = host.moved /\ host'.buf = host.buf /\ host'.blocks = host.blocks
  BY <1>0, <1>1 DEF HostSet
<1>3. /\ host.left \in Nat /\ host.blocks \in Nat /\ host.moved \in Nat
  BY <1>0 DEF HostSet
<1>4. Progress(host')
  <2> DEFINE x == host.blocks * SectorWords
             n == host.mrq.blocks * SectorWords
  <2>1. x \in Nat /\ n \in Nat /\ SectorWords \in Nat
    BY <1>0, <1>3, BlocksOf, InImage
  <2>2. host.moved + host.left + x <= n + SectorWords
    BY <1>0 DEF Progress
  <2>3. host'.blocks * SectorWords = x /\ host'.mrq.blocks * SectorWords = n
    BY <1>2
  <2> HIDE DEF x, n
  <2>4. host'.moved + host'.left + x <= n + SectorWords
    BY <1>2, <1>3, <2>1, <2>2
  <2> QED
    BY <1>0, <1>2, <1>3, <2>1, <2>3, <2>4 DEF Progress
<1> QED
  BY <1>0, <1>1, <1>2, <1>4, SkipsOn

LEMMA NextBlock == ASSUME SdInv, transfer_next_block PROVE SdInv'
<1>0. /\ step = "transfer" /\ host.blocks > 0 /\ host.left = 0
      /\ host \in HostSet /\ Progress(host) /\ host.mrq \in Requests
  BY DEF transfer_next_block, SdInv, SdTypeOK, ProtInv, Moving
<1>3. /\ host.left \in Nat /\ host.blocks \in Nat /\ host.moved \in Nat
  BY <1>0 DEF HostSet
<1> DEFINE b == host.blocks - 1
<1>1. host' = [host EXCEPT !.blocks = b, !.left = SectorWords] /\ card' = card /\ file' = file /\ step' = step
      /\ answer' = answer /\ disk' = disk /\ csd_cut' = csd_cut
  BY DEF transfer_next_block
<1>4. b \in Nat /\ SectorWords \in Nat /\ b * SectorWords = (host.blocks * SectorWords) - SectorWords
  BY <1>0, <1>3, BlocksOf
<1> HIDE DEF b
<1>2. /\ host' \in HostSet /\ host'.left = SectorWords /\ host'.error = host.error /\ host'.mrq = host.mrq
      /\ host'.cmd = host.cmd
      /\ host'.data = host.data /\ host'.data_complete = host.data_complete /\ host'.warned = host.warned
      /\ host'.moved = host.moved /\ host'.buf = host.buf /\ host'.blocks = b
  BY <1>0, <1>1, <1>4 DEF HostSet
<1>5. Progress(host')
  <2> DEFINE x == host.blocks * SectorWords
             n == host.mrq.blocks * SectorWords
             y == b * SectorWords
  <2>1. x \in Nat /\ n \in Nat /\ y \in Nat /\ y = x - SectorWords
    BY <1>0, <1>3, <1>4, BlocksOf, InImage
  <2>2. /\ host.moved + host.left + x <= n + SectorWords
        /\ ~host.error => host.moved + host.left + x = n + SectorWords
    BY <1>0 DEF Progress
  <2>3. host'.blocks * SectorWords = y /\ host'.mrq.blocks * SectorWords = n
    BY <1>2
  <2> HIDE DEF x, n, y
  <2>4. /\ host'.moved + host'.left + y <= n + SectorWords
        /\ ~host.error => host'.moved + host'.left + y = n + SectorWords
    BY <1>0, <1>2, <1>3, <1>4, <2>1, <2>2
  <2> QED
    BY <1>0, <1>2, <1>3, <1>4, <2>3, <2>4 DEF Progress
<1> QED
  BY <1>0, <1>1, <1>2, <1>5, SkipsOn

\* All blocks are done while the command is not.
LEMMA DataDone == ASSUME SdInv, finish_data PROVE SdInv'
<1>0. /\ step = "transfer" /\ host.blocks = 0 /\ SdTypeOK /\ ProtInv /\ Moving(host) /\ host.cmd = "cmd"
      /\ host \in HostSet /\ (~csd_cut => SoFar(host)) /\ host.mrq.op # "read_one" /\ host.mrq \in Requests
      /\ host.moved <= host.mrq.sg
  BY DEF finish_data, SdInv, SdTypeOK, ProtInv, DataInv, Moving, Counted
<1>1. /\ host' = [host EXCEPT !.data_complete = TRUE] /\ step' = "finish_command"
      /\ card' = card /\ file' = file /\ answer' = answer /\ disk' = disk /\ csd_cut' = csd_cut
  <2>1. [host EXCEPT !.data_complete = TRUE].cmd = host.cmd
    BY <1>0 DEF HostSet
  <2> QED
    BY <2>1, <1>0 DEF finish_data
<1>2. /\ host' \in HostSet /\ host'.data_complete /\ host'.left = host.left /\ host'.error = host.error
      /\ host'.mrq = host.mrq /\ host'.cmd = host.cmd /\ host'.data = host.data
      /\ host'.warned = host.warned /\ host'.moved = host.moved /\ host'.buf = host.buf
      /\ host'.blocks = host.blocks
  BY <1>0, <1>1 DEF HostSet
<1>3. SdTypeOK'
  BY <1>0, <1>1, <1>2 DEF SdTypeOK
<1>4. Moved(host')
  BY <1>0, <1>2 DEF Moving, Moved, Progress
<1>5. ProtInv'
  BY <1>0, <1>1, <1>2, <1>4 DEF ProtInv
<1>6. ~csd_cut' => SoFar(host)'
  BY <1>0, <1>1, <1>2 DEF SoFar, ReadSoFar, WrittenSoFar, CsdSoFar
<1>7. DataInv'
  BY <1>1, <1>4, <1>6 DEF DataInv, Moved, Counted, Sent
<1>8. ReadsAreExact'
  BY <1>1 DEF ReadsAreExact
<1> QED
  BY <1>3, <1>5, <1>7, <1>8 DEF SdInv

\* A transfer that was open-ended or failed is stopped.
LEMMA StopSent ==
  ASSUME SdTypeOK, ProtInv, NEW h \in HostSet, h.mrq \in Requests, h.cmd = "none", ~h.data, ~h.warned,
         HasData(h.mrq), Progress(h), h.blocks = 0, h.moved <= h.mrq.sg, h.mrq.op # "read_one",
         ~csd_cut => SoFar(h), Send(h, "stop"),
         file' = file, disk' = disk, csd_cut' = csd_cut, answer' = answer
  PROVE  SdInv'
<1>1. /\ host' \in HostSet /\ ~host'.warned /\ card' \in CardSet /\ step' = "finish_command"
      /\ host'.mrq = h.mrq /\ host'.buf = h.buf /\ host'.moved = h.moved /\ host'.error = h.error
      /\ host'.blocks = h.blocks /\ host'.left = h.left
      /\ host'.cmd = "stop" /\ ~host'.data
      /\ card'.read_ext_csd => card'.addr < SectorWords
      /\ card'.read_ext_csd = card.read_ext_csd /\ card'.addr = card.addr
      /\ card'.pos = card.pos /\ card'.write_cmd = card.write_cmd
  BY CommandSent
<1>2. SdTypeOK'
  BY <1>1 DEF SdTypeOK
<1>3. Stopped(host')
  BY <1>1 DEF Stopped, Progress
<1>4. ProtInv'
  BY <1>1, <1>3 DEF ProtInv
<1>5. ~csd_cut' => SoFar(host)'
  BY <1>1 DEF SoFar, ReadSoFar, WrittenSoFar, CsdSoFar
<1>6. DataInv'
  BY <1>1, <1>3, <1>5 DEF DataInv, Stopped, Counted, Sent
<1>7. ReadsAreExact'
  BY <1>1 DEF ReadsAreExact
<1> QED
  BY <1>2, <1>4, <1>6, <1>7 DEF SdInv

LEMMA CommandDone == ASSUME SdInv, finish_command PROVE SdInv'
<1> DEFINE h == [host EXCEPT !.cmd = "none"]
<1>0. /\ SdTypeOK /\ ProtInv /\ step = "finish_command" /\ host \in HostSet /\ host.mrq \in Requests
      /\ host.moved <= host.mrq.sg /\ ~host.warned /\ file' = file
      /\ Counted(host) \/ Sent(host) \/ Moved(host) \/ Stopped(host)
      /\ ~Counted(host) => host.mrq.op # "read_one"
      /\ ~csd_cut /\ (Counted(host) \/ Sent(host)) => Still
      /\ ~csd_cut /\ (Moved(host) \/ Stopped(host)) => SoFar(host)
      /\ answer \in RequestSet \cup {NoRequest}
  BY DEF finish_command, SdInv, SdTypeOK, ProtInv, DataInv
<1>1. /\ h \in HostSet /\ h.cmd = "none" /\ h.data_complete = host.data_complete /\ h.left = host.left
      /\ h.error = host.error /\ h.mrq = host.mrq /\ h.data = host.data /\ h.warned = host.warned
      /\ h.moved = host.moved /\ h.buf = host.buf /\ h.blocks = host.blocks
  BY <1>0 DEF HostSet
<1>2. \/ host.cmd = "sbc" /\ Send(h, "cmd") /\ answer' = answer /\ disk' = disk /\ csd_cut' = csd_cut
      \/ host.cmd = "stop" /\ finish_request(host)
      \/ host.cmd = "cmd" /\ ~host.data /\ finish_request(h)
      \/ host.cmd = "cmd" /\ host.data /\ host.data_complete /\ transfer_complete(h)
  BY DEF finish_command
<1> HIDE DEF h
<1>3. CASE host.cmd = "sbc" /\ Send(h, "cmd") /\ answer' = answer /\ disk' = disk /\ csd_cut' = csd_cut
  <2>1. Counted(host)
    BY <1>0, <1>3 DEF Sent, Moved, Stopped
  <2>2. ~h.data /\ ~h.warned /\ ~h.error /\ h.moved = 0 /\ h.buf = h.mrq.buf /\ h.mrq \in Requests
    BY <1>0, <1>1, <2>1 DEF Counted
  <2> QED
    BY <1>0, <1>1, <1>3, <2>1, <2>2, ActualCommand
<1>4. CASE host.cmd = "stop" /\ finish_request(host)
  <2>1. Stopped(host)
    BY <1>0, <1>4 DEF Counted, Sent, Moved
  <2>2. HasData(host.mrq) /\ Progress(host) /\ host.blocks = 0 /\ host.mrq.op # "read_one"
    BY <1>0, <2>1, <1>4 DEF Stopped, Counted
  <2> QED
    BY <1>0, <1>4, <2>1, <2>2, Finished
<1>5. CASE host.cmd = "cmd" /\ ~host.data /\ finish_request(h)
  <2>1. Sent(host)
    BY <1>0, <1>5 DEF Counted, Moved, Stopped
  <2>2. ~HasData(h.mrq) /\ h.mrq \in Requests /\ ~h.warned /\ h.moved <= h.mrq.sg /\ h.mrq.op # "read_one"
    BY <1>0, <1>1, <1>5, <2>1 DEF Sent, Counted
  <2> QED
    BY <1>0, <1>1, <1>5, <2>1, <2>2, Finished
<1>6. CASE host.cmd = "cmd" /\ host.data /\ host.data_complete /\ transfer_complete(h)
  <2> DEFINE w == h.warned \/ ~h.data_complete
             done == [h EXCEPT !.data = FALSE, !.warned = w]
  <2>1. Moved(host)
    BY <1>0, <1>6 DEF Counted, Sent, Stopped
  <2>2. w \in BOOLEAN /\ ~w
    BY <1>0, <1>1, <1>6
  <2>3. \/ Send(done, "stop") /\ answer' = answer /\ disk' = disk /\ csd_cut' = csd_cut
        \/ finish_request(done)
    BY <1>6 DEF transfer_complete
  <2> HIDE DEF w
  <2>4. /\ done \in HostSet /\ done.cmd = "none" /\ ~done.data /\ ~done.warned /\ done.left = h.left
        /\ done.error = h.error /\ done.mrq = h.mrq /\ done.moved = h.moved /\ done.buf = h.buf
        /\ done.blocks = h.blocks
    BY <1>1, <2>2 DEF HostSet
  <2> HIDE DEF done
  <2>5. /\ done.mrq \in Requests /\ HasData(done.mrq) /\ Progress(done) /\ done.blocks = 0
        /\ done.moved <= done.mrq.sg /\ done.mrq.op # "read_one"
    BY <1>0, <1>1, <1>6, <2>1, <2>4 DEF Moved, Progress, Counted
  <2>6. ~csd_cut => SoFar(done)
    BY <1>0, <1>1, <2>1, <2>4 DEF SoFar, ReadSoFar, WrittenSoFar, CsdSoFar
  <2>7. CASE Send(done, "stop") /\ answer' = answer /\ disk' = disk /\ csd_cut' = csd_cut
    BY <1>0, <2>4, <2>5, <2>6, <2>7, StopSent
  <2>8. CASE finish_request(done)
    BY <1>0, <2>4, <2>5, <2>6, <2>8, Finished
  <2> QED
    BY <2>3, <2>7, <2>8
<1> QED
  BY <1>2, <1>3, <1>4, <1>5, <1>6

\* The driver's struct with a new request.
Accepted(g, r, b, n, e, w, u) ==
  [g EXCEPT !.mrq = r, !.buf = b, !.moved = n, !.error = e, !.warned = w, !.use_sbc = u]
LEMMA AcceptedIs ==
  ASSUME NEW g \in HostSet, NEW r, NEW b, NEW n, NEW e, NEW w, NEW u
  PROVE  Accepted(g, r, b, n, e, w, u) =
           [mrq |-> r, cmd |-> g.cmd, data |-> g.data, data_complete |-> g.data_complete,
            use_sbc |-> u, left |-> g.left, blocks |-> g.blocks, moved |-> n,
            buf |-> b, error |-> e, warned |-> w]
<1>1. g = [mrq |-> g.mrq, cmd |-> g.cmd, data |-> g.data, data_complete |-> g.data_complete,
           use_sbc |-> g.use_sbc, left |-> g.left, blocks |-> g.blocks, moved |-> g.moved,
           buf |-> g.buf, error |-> g.error, warned |-> g.warned]
  BY DEF HostSet
<1>2. Accepted(g, r, b, n, e, w, u) =
        [g EXCEPT !.mrq = r, !.buf = b, !.moved = n, !.error = e, !.warned = w, !.use_sbc = u]
  BY DEF Accepted
<1> QED
  BY <1>1, <1>2

LEMMA NewRequest ==
  ASSUME NEW g \in HostSet, NEW r \in Requests, NEW b \in Seq(Values), NEW n \in Nat, NEW e \in BOOLEAN,
         NEW w \in BOOLEAN, NEW u \in BOOLEAN
  PROVE  LET h == Accepted(g, r, b, n, e, w, u)
         IN  /\ h \in HostSet /\ h.mrq = r /\ h.buf = b /\ h.moved = n /\ h.error = e /\ h.warned = w
             /\ h.use_sbc = u /\ h.cmd = g.cmd /\ h.data = g.data
<1> DEFINE h == Accepted(g, r, b, n, e, w, u)
           l == [mrq |-> r, cmd |-> g.cmd, data |-> g.data, data_complete |-> g.data_complete,
                 use_sbc |-> u, left |-> g.left, blocks |-> g.blocks, moved |-> n,
                 buf |-> b, error |-> e, warned |-> w]
<1>1. g = [mrq |-> g.mrq, cmd |-> g.cmd, data |-> g.data, data_complete |-> g.data_complete,
           use_sbc |-> g.use_sbc, left |-> g.left, blocks |-> g.blocks, moved |-> g.moved,
           buf |-> g.buf, error |-> g.error, warned |-> g.warned]
  BY DEF HostSet
<1>2. h = l
  BY <1>1, AcceptedIs
<1>3. l \in HostSet
  BY DEF HostSet
<1>4. /\ l.mrq = r /\ l.buf = b /\ l.moved = n /\ l.error = e /\ l.warned = w
      /\ l.use_sbc = u /\ l.cmd = g.cmd /\ l.data = g.data
  OBVIOUS
<1> HIDE DEF l
<1> QED
  BY <1>2, <1>3, <1>4

LEMMA RequestComes ==
  ASSUME SdInv, NEW r \in Requests, nemu_request(r) PROVE SdInv'
<1>0. /\ SdTypeOK /\ ProtInv /\ step = "idle" /\ host \in HostSet /\ Resting(host) /\ ~host.warned
      /\ (~csd_cut => Still) /\ file' = file /\ disk' = disk /\ csd_cut' = csd_cut
      /\ r \in RequestSet /\ r.buf \in Seq(Values) /\ r.op \in Operations
  BY RequestsAre DEF nemu_request, SdInv, SdTypeOK, ProtInv, DataInv
<1>1. CASE HasData(r) /\ r.oddsize
  <2>1. answer' = [r EXCEPT !.error = TRUE] /\ card' = card /\ host' = host /\ step' = step
    BY <1>1 DEF nemu_request
  <2>2. answer' \in RequestSet /\ answer'.error
    BY <2>1, <1>0 DEF RequestSet
  <2>3. SdTypeOK'
    BY <1>0, <2>1, <2>2 DEF SdTypeOK
  <2>4. ProtInv'
    BY <1>0, <2>1 DEF ProtInv
  <2>5. DataInv'
    BY <1>0, <2>1 DEF DataInv, Still
  <2>6. ReadsAreExact'
    BY <2>2 DEF ReadsAreExact
  <2> QED
    BY <2>3, <2>4, <2>5, <2>6 DEF SdInv
<1>2. CASE ~(HasData(r) /\ r.oddsize)
  <2> DEFINE w == host.warned \/ host.mrq # NoRequest
             u == r.sbc /\ HasData(r) /\ Reads(r)
             b == r.buf
             z == 0
             e == FALSE
             h == Accepted(host, r, b, z, e, w, u)
  <2>1. Send(h, IF h.use_sbc THEN "sbc" ELSE "cmd") /\ answer' = NoRequest
    BY <1>2 DEF nemu_request, Accepted
  <2>2. w \in BOOLEAN /\ ~w
    BY <1>0 DEF Resting
  <2>3. u \in BOOLEAN /\ (u => HasData(r))
    OBVIOUS
  <2>4. b \in Seq(Values) /\ b = r.buf
    BY <1>0
  <2>9. e \in BOOLEAN /\ z \in Nat /\ ~e /\ z = 0 /\ h = Accepted(host, r, b, z, e, w, u)
    OBVIOUS
  <2> HIDE DEF w, u, b, h, z, e
  <2>10. host \in HostSet /\ r \in Requests
    BY <1>0
  <2>5. /\ h \in HostSet /\ h.mrq = r /\ h.buf = b /\ h.moved = 0 /\ ~h.error /\ h.warned = w /\ h.use_sbc = u
        /\ h.cmd = host.cmd /\ h.data = host.data
    BY <2>2, <2>3, <2>4, <2>9, <2>10, NewRequest
  <2>6. /\ h.mrq \in Requests /\ h.cmd = "none" /\ ~h.data /\ ~h.warned /\ h.buf = h.mrq.buf
        /\ (h.use_sbc => HasData(h.mrq)) /\ answer' \in RequestSet \cup {NoRequest}
    BY <1>0, <2>1, <2>2, <2>3, <2>4, <2>5 DEF Resting
  <2>7. CASE h.use_sbc
    BY <1>0, <2>1, <2>5, <2>6, <2>7, BlockCount
  <2>8. CASE ~h.use_sbc
    BY <1>0, <2>1, <2>5, <2>6, <2>8, ActualCommand
  <2> QED
    BY <2>7, <2>8
<1> QED
  BY <1>1, <1>2

LEMMA SdStarts == SdInit => SdInv
<1> SUFFICES ASSUME SdInit PROVE SdInv
  OBVIOUS
<1>1. (CHOOSE v \in Values : TRUE) \in Values
  <2>1. ext_csd[1] \in Values
    BY SdAssumption
  <2> QED
    BY <2>1
<1> DEFINE v0 == CHOOSE v \in Values : TRUE
<1>2. card = [arg |-> 0, data |-> v0, pos |-> 0, addr |-> 0, write_cmd |-> FALSE, read_ext_csd |-> FALSE]
      /\ v0 \in Values
  BY <1>1 DEF SdInit
<1> HIDE DEF v0
<1>3. card \in CardSet /\ ~card.read_ext_csd
  BY <1>2 DEF CardSet
<1>4. host = [mrq |-> NoRequest, cmd |-> "none", data |-> FALSE, data_complete |-> FALSE,
             use_sbc |-> FALSE, left |-> 0, blocks |-> 0, moved |-> 0, buf |-> <<>>,
             error |-> FALSE, warned |-> FALSE]
  BY DEF SdInit
<1>5. host \in HostSet /\ Resting(host) /\ ~host.warned
  BY <1>4 DEF HostSet, Resting
<1>6. file \in [Image -> Values] /\ disk = file /\ step = "idle" /\ answer = NoRequest /\ csd_cut = FALSE
  BY DEF SdInit
<1>7. SdTypeOK
  BY <1>3, <1>5, <1>6 DEF SdTypeOK
<1>8. ProtInv
  BY <1>3, <1>5, <1>6 DEF ProtInv
<1>9. DataInv
  BY <1>3, <1>6 DEF DataInv, Still
<1>10. ReadsAreExact
  BY <1>6, RequestsAre DEF ReadsAreExact
<1> QED
  BY <1>7, <1>8, <1>9, <1>10 DEF SdInv

LEMMA SdSteps == SdInv /\ [SdNext]_sdVars => SdInv'
<1> SUFFICES ASSUME SdInv, [SdNext]_sdVars PROVE SdInv'
  OBVIOUS
<1>1. CASE UNCHANGED sdVars
  <2>1. /\ card' = card /\ file' = file /\ host' = host /\ step' = step /\ answer' = answer
        /\ disk' = disk /\ csd_cut' = csd_cut
    BY <1>1 DEF sdVars
  <2>2. SdTypeOK' /\ ProtInv' /\ ReadsAreExact'
    BY <2>1 DEF SdInv, SdTypeOK, ProtInv, ReadsAreExact, Slice
  <2>3. DataInv'
    BY <2>1 DEF SdInv, DataInv, Still, SoFar, ReadSoFar, WrittenSoFar, CsdSoFar
  <2> QED
    BY <2>2, <2>3 DEF SdInv
<1> QED
  BY <1>1, RequestComes, WordMoves, BlockFails, NextBlock, DataDone, CommandDone DEF SdNext, SdStep

LEMMA SdInvariant == SdSpec => []SdInv
BY SdStarts, SdSteps, PTL DEF SdSpec

\* A read that reports no error has brought what earlier requests left in those
\* sectors, the file is what the writes so far say it is, and no WARN_ON of the
\* driver fires, for every image, request and length of the scatter list, until
\* a read of the extended CSD fails (nemu_request, nemu_transfer_block_pio,
\* nemu_finish_request, sdcard_io_handler).
THEOREM CardIsADisk == SdSpec => []SdIsADisk
<1>1. SdInv => SdIsADisk
  <2> SUFFICES ASSUME SdInv PROVE SdIsADisk
    OBVIOUS
  <2>1. ~host.warned /\ (step = "idle" /\ ~csd_cut => file = disk)
    BY DEF SdInv, ProtInv, DataInv, Still
  <2> QED
    BY <2>1 DEF SdInv, SdIsADisk, DiskIsModel
<1> QED
  BY <1>1, SdInvariant, PTL

=============================================================================
