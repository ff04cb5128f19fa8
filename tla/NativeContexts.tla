--------------------------- MODULE NativeContexts ---------------------------
(***************************************************************************)
(* Contexts, interrupts and address spaces of the abstract machine on      *)
(* Linux (am/src/native: cte.c, vme.c, and the signal masks and memory     *)
(* mappings of platform.c).                                                *)
(*                                                                         *)
(* Traps are signals.  sig_handler notes the event, saves the interrupted  *)
(* context in a frame on a kernel stack, and returns into irq_handle with  *)
(* the interrupt signals masked.  irq_handle calls the event handler of    *)
(* the kernel, switches the address space, and faults on purpose to have   *)
(* the chosen context restored.  A frame is named by its stack here.       *)
(***************************************************************************)
EXTENDS Integers, FiniteSets

CONSTANTS
  Kernel, User,    \* kernel threads (Boot is one) and user processes
  Boot,            \* the thread of main, running when cte_init is called
  Pages,           \* virtual pages of the user area
  Frames,          \* physical pages
  NULL,
  MaxPc, MaxMaps   \* bounds

Tasks == Kernel \cup User
ASSUME NativeAssumption ==
  Kernel \cap User = {} /\ Boot \in Kernel /\ NULL \notin Pages \cup Tasks
  /\ IsFiniteSet(Pages)

VARIABLES
  mode,      \* what runs: a "task", irq_handle ("irq"), its last call ("return"), or "none"
  cpu,       \* the context in the processor
  thiscpu,   \* event, kernel stack and address space of this processor
  frame,     \* the context saved on each kernel stack
  c,         \* the frame irq_handle works on
  pending,   \* signals
  vm,        \* address spaces: list head, and the PageMap of each page
  mmap,      \* mappings of the host
  running, pcb,           \* the kernel's: the task that runs, the frame of each
  own, cause, maps, remapped  \* history: contexts, the event that ended the running task, calls of map

nativeVars == <<mode, cpu, thiscpu, frame, c, pending, vm, mmap, running, pcb, own, cause,
                maps, remapped>>

IRQs    == {"IRQ_TIMER", "IRQ_IODEV"}
Prots   == {"read", "write"}
Unmapped  == [pa |-> NULL, prot |-> "none"]
NoPage    == [pa |-> NULL, prot |-> "none", next |-> NULL, is_mapped |-> FALSE]
Junk      == "junk"    \* memory nobody has initialised

\* Registers: the instruction, and whether it is user code, kernel code or a
\* shared library of the host; the stack; the signal mask.  A frame holds them
\* and two words that setup_stack leaves as it finds them in the stack.
Regs(at, pc, sp, masked) == [at |-> at, pc |-> pc, sp |-> sp, masked |-> masked]
Frame(regs, ksp, vm_head) == [regs |-> regs, ksp |-> ksp, vm_head |-> vm_head]

\* kcontext does not set ksp either.
kcontext(t) == Frame(Regs("kernel", 0, t, FALSE), Junk, NULL)
ucontext(t) == Frame(Regs("user", 0, "ustack", FALSE), t, t)

NativeState ==
  /\ cpu = Regs("kernel", 0, Boot, TRUE)
  /\ thiscpu = [ev |-> "NULL", ksp |-> Junk, vm_head |-> NULL]
  /\ frame = [t \in Tasks |-> IF t \in User THEN ucontext(t) ELSE kcontext(t)]
  /\ c = Boot /\ pending = {}
  /\ vm = [u \in User |-> [head |-> NULL, page |-> [va \in Pages |-> NoPage]]]
  /\ mmap = [va \in Pages |-> Unmapped]
  /\ running = Boot /\ pcb = [t \in Tasks |-> t]
  /\ own = [t \in Tasks |-> IF t = Boot THEN cpu ELSE frame[t].regs]
  /\ cause = "NULL" /\ maps = 0 /\ remapped = {}
NativeInit == mode = "task" /\ NativeState

(***************************************************************************)
(* Tasks between two traps.                                                *)
(***************************************************************************)
Runs(x) ==
  /\ mode = "task"
  /\ cpu' = x /\ own' = [own EXCEPT ![running] = x]
  /\ UNCHANGED <<mode, thiscpu, frame, c, pending, vm, mmap, running, pcb, cause, maps, remapped>>

compute       == cpu.pc < MaxPc /\ Runs([cpu EXCEPT !.pc = @ + 1])
enter_library == cpu.at = "kernel" /\ Runs([cpu EXCEPT !.at = "library"])
leave_library == cpu.at = "library" /\ Runs([cpu EXCEPT !.at = "kernel"])
iset(enable)  == cpu.at = "kernel" /\ Runs([cpu EXCEPT !.masked = ~enable])

Raised(s) ==
  /\ pending' = pending \cup {s}
  /\ UNCHANGED <<mode, cpu, thiscpu, frame, c, vm, mmap, running, pcb, own, cause, maps, remapped>>

(***************************************************************************)
(* sig_handler and setup_stack.                                            *)
(***************************************************************************)
InUserspace(x) == thiscpu.vm_head # NULL /\ x.at = "user"

\* Library code is not reentrant: an interrupt in it is lost.
\* Mutant: it is taken there as well.
signal_safe_Always(x) == TRUE
signal_safe(x) == x.at # "library"

\* Mutant: interrupts stay enabled in irq_handle.
IrqMask_Kept(x) == x.masked
IrqMask(x) == TRUE

TrapStack(x) == IF InUserspace(x) THEN thiscpu.ksp ELSE x.sp
Skip(ev)     == IF ev = "SYSCALL" THEN 1 ELSE 0

setup_stack(ev) ==
  IF ev \in IRQs /\ ~signal_safe(cpu)
  THEN UNCHANGED <<mode, cpu, frame, c, own, cause>>
  ELSE LET x == [cpu EXCEPT !.pc = @ + Skip(ev)]
           stack == TrapStack(cpu)
       IN  /\ frame' = [frame EXCEPT ![stack] = Frame(x, Junk, Junk)]
           /\ c' = stack
           /\ cpu' = Regs("kernel", 0, stack, IrqMask(cpu))
           /\ mode' = "irq" /\ cause' = IF mode = "task" THEN ev ELSE cause
           /\ own' = [own EXCEPT ![running] = IF mode = "task" THEN x ELSE @]

sig_handler(ev) ==
  /\ thiscpu' = [thiscpu EXCEPT !.ev = ev]
  /\ setup_stack(ev)
  /\ UNCHANGED <<vm, mmap, running, pcb, maps, remapped>>

interrupt(s) ==
  /\ s \in pending /\ ~cpu.masked /\ mode \in {"task", "irq"}
  /\ pending' = pending \ {s}
  /\ sig_handler(s)

\* raise(SIGUSR2), which no mask holds back, and the access to the trap page.
yield   == mode = "task" /\ cpu.at = "kernel" /\ sig_handler("YIELD") /\ UNCHANGED pending
syscall == mode = "task" /\ cpu.at = "user" /\ cpu.pc < MaxPc
             /\ sig_handler("SYSCALL") /\ UNCHANGED pending

\* An access to the user area faults in the host, which knows only its mappings.
Faults(va, write) == mmap[va] = Unmapped \/ (write /\ mmap[va].prot = "read")
page_fault(va, write) ==
  /\ mode = "task" /\ cpu.at = "user" /\ Faults(va, write)
  /\ sig_handler("PAGEFAULT") /\ UNCHANGED pending

(***************************************************************************)
(* map, and __am_switch.                                                   *)
(***************************************************************************)
\* Walking the list of an address space: the n-th page, the pages, the end.
Walk(u, n) ==
  LET at[k \in 0 .. n] == IF k = 0 THEN vm[u].head
                          ELSE IF at[k - 1] = NULL THEN NULL ELSE vm[u].page[at[k - 1]].next
  IN  at[n]
Listed(u) == { Walk(u, n) : n \in 0 .. Cardinality(Pages) } \ {NULL}
Ends(u)   == Walk(u, Cardinality(Pages)) = NULL

\* A page that has a PageMap already is linked again, at the head of the list
\* it is in: map.
\* Mutant: the mapping waits for the next switch.
map_Later(u, va, pa, prot) ==
  /\ vm' = [vm EXCEPT ![u].head = va,
                      ![u].page[va] = [pa |-> pa, prot |-> prot, next |-> vm[u].head,
                                       is_mapped |-> FALSE]]
  /\ UNCHANGED mmap
map(u, va, pa, prot) ==
  /\ vm' = [vm EXCEPT ![u].head = va,
                      ![u].page[va] = [pa |-> pa, prot |-> prot, next |-> vm[u].head,
                                       is_mapped |-> u = thiscpu.vm_head]]
  /\ mmap' = IF u = thiscpu.vm_head THEN [mmap EXCEPT ![va] = [pa |-> pa, prot |-> prot]] ELSE mmap

\* The event handler maps a page, of the process that trapped or of another.
handler_maps(u, va, pa, prot) ==
  /\ mode = "irq" /\ maps < MaxMaps
  /\ map(u, va, pa, prot)
  /\ maps' = maps + 1
  /\ remapped' = IF vm[u].page[va] # NoPage THEN remapped \cup {u} ELSE remapped
  /\ UNCHANGED <<mode, cpu, thiscpu, frame, c, pending, running, pcb, own, cause>>

am_switch(head) ==
  LET now == thiscpu.vm_head
      old == IF now = NULL THEN {} ELSE { va \in Listed(now) : vm[now].page[va].is_mapped }
      new == IF head = NULL THEN {} ELSE Listed(head)
  IN  IF head = now THEN UNCHANGED <<vm, mmap>>
      ELSE /\ mmap' = [va \in Pages |->
                         IF va \in new THEN [pa |-> vm[head].page[va].pa, prot |-> vm[head].page[va].prot]
                         ELSE IF va \in old THEN Unmapped ELSE mmap[va]]
           /\ vm' = [u \in User |-> [vm[u] EXCEPT !.page =
                       [va \in Pages |->
                          IF u = head /\ va \in new THEN [vm[u].page[va] EXCEPT !.is_mapped = TRUE]
                          ELSE IF u = now /\ va \in old THEN [vm[u].page[va] EXCEPT !.is_mapped = FALSE]
                          ELSE vm[u].page[va]]]]

\* The walk over a list that was linked into a ring does not end.
SwitchEnds(head) ==
  LET now == thiscpu.vm_head
  IN  head = now \/ ((now = NULL \/ Ends(now)) /\ (head = NULL \/ Ends(head)))

(***************************************************************************)
(* irq_handle and iret.  The handler keeps the frame it gets as that of    *)
(* the running task and returns the frame of any task.                     *)
(***************************************************************************)
SavedFrame(x) == [x EXCEPT !.vm_head = thiscpu.vm_head, !.ksp = thiscpu.ksp]

irq_handle(t) ==
  /\ mode = "irq"
  /\ frame' = [frame EXCEPT ![c] = SavedFrame(@)]
  /\ pcb' = [pcb EXCEPT ![running] = c]
  /\ running' = t /\ c' = pcb'[t]
  /\ IF SwitchEnds(frame'[c'].vm_head)
     THEN /\ am_switch(frame'[c'].vm_head)
          /\ thiscpu' = [thiscpu EXCEPT !.vm_head = frame'[c'].vm_head]
          /\ mode' = "return"
     ELSE /\ mode' = "hung"
          /\ UNCHANGED <<vm, mmap, thiscpu>>
  /\ UNCHANGED <<cpu, pending, own, cause, maps, remapped>>

iret ==
  /\ mode = "return"
  /\ cpu' = frame[c].regs /\ mode' = "task"
  /\ thiscpu' = [thiscpu EXCEPT !.ev = "ERROR", !.ksp = frame[c].ksp]
  /\ UNCHANGED <<frame, c, pending, vm, mmap, running, pcb, own, cause, maps, remapped>>

NativeNext ==
  \/ compute \/ enter_library \/ leave_library \/ \E b \in BOOLEAN : iset(b)
  \/ \E s \in IRQs : Raised(s) \/ interrupt(s)
  \/ yield \/ syscall \/ \E va \in Pages, w \in BOOLEAN : page_fault(va, w)
  \/ \E u \in User, va \in Pages, pa \in Frames, p \in Prots : handler_maps(u, va, pa, p)
  \/ \E t \in Tasks : irq_handle(t)
  \/ iret

NativeSpec == NativeInit /\ [][NativeNext]_nativeVars

-----------------------------------------------------------------------------
\* The frame that holds a task now.
FrameOf(t) == IF t = running THEN frame[c] ELSE frame[pcb[t]]

\* Every task finds its registers, its stack and its signal mask as the trap
\* left them, whatever interrupted it and whoever ran in between, and no task
\* is left in the middle of a function of the host's libraries.  The event that
\* irq_handle passes on is that of the trap it was entered for: no signal that
\* arrives in between replaces the event in the processor's struct.
ContextsKept ==
  /\ mode = "irq" => thiscpu.ev = cause
  /\ \A t \in Tasks :
    /\ own[t] = IF t = running /\ mode \in {"task", "none"} THEN cpu ELSE FrameOf(t).regs
    /\ (t # running => own[t].at # "library")

\* User code runs on the mappings of its own address space and no others, also
\* when the kernel has mapped pages for it or for others since.  (A page mapped
\* twice closes the list into a ring, and the next switch does not return.)
SeesOwnPages ==
  (mode = "task" /\ cpu.at = "user" /\ remapped = {}) =>
    \A va \in Pages :
      mmap[va] = [pa |-> vm[running].page[va].pa, prot |-> vm[running].page[va].prot]
=============================================================================
