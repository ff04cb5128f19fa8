------------------------------- MODULE Threads -------------------------------
(***************************************************************************)
(* What the context extension of the abstract machine promises to the      *)
(* threads of a program: each has a program counter, registers and a stack *)
(* that nobody else changes, a thread created with kcontext starts at its  *)
(* entry with its argument, and yield goes on after the ecall when the     *)
(* thread is chosen again.                                                 *)
(***************************************************************************)
EXTENDS Naturals, Sequences

CONSTANTS Thread,     \* the threads of the program
          Boot,       \* the one that runs main
          Gpr,        \* general registers, the stack pointer left out
          Value,      \* values a thread computes
          CodeLen     \* instruction slots of the code of a thread

VARIABLES running,    \* the thread that has the processor
          created,    \* the threads that exist
          ctx         \* [pc, gpr, stack] of each of them

vars == <<running, created, ctx>>

Start(entry, arg) ==
  [pc |-> entry, gpr |-> [r \in Gpr |-> IF r = "a0" THEN arg ELSE 0],
   stack |-> <<>>]

Init ==
  /\ running = Boot
  /\ created = {Boot}
  /\ ctx = [t \in {Boot} |-> Start(0, 0)]

Become(c) == ctx' = [ctx EXCEPT ![running] = c]

\* One instruction of the running thread: on registers, on its stack, a jump.
Compute(r, v) ==
  LET c == ctx[running] IN
  /\ c.pc < CodeLen
  /\ Become([c EXCEPT !.pc = @ + 1, !.gpr[r] = v])
  /\ UNCHANGED <<running, created>>

Push(r) ==
  LET c == ctx[running] IN
  /\ c.pc < CodeLen
  /\ Become([c EXCEPT !.pc = @ + 1, !.stack = Append(@, c.gpr[r])])
  /\ UNCHANGED <<running, created>>

Pop(r) ==
  LET c == ctx[running]  n == Len(c.stack) IN
  /\ c.pc < CodeLen /\ n > 0
  /\ Become([c EXCEPT !.pc = @ + 1, !.gpr[r] = c.stack[n],
                      !.stack = SubSeq(@, 1, n - 1)])
  /\ UNCHANGED <<running, created>>

Jump ==
  /\ ctx[running].pc = CodeLen
  /\ ctx' = [ctx EXCEPT ![running].pc = 0]
  /\ UNCHANGED <<running, created>>

Create(t, entry, arg) ==
  /\ t \notin created
  /\ created' = created \cup {t}
  /\ ctx' = [u \in created \cup {t} |-> IF u = t THEN Start(entry, arg) ELSE ctx[u]]
  /\ UNCHANGED running

Yield(t) ==
  /\ t \in created
  /\ ctx[running].pc < CodeLen
  /\ running' = t
  /\ ctx' = [ctx EXCEPT ![running].pc = @ + 1]
  /\ UNCHANGED created

Next ==
  \/ \E r \in Gpr, v \in Value : Compute(r, v)
  \/ \E r \in Gpr : Push(r) \/ Pop(r)
  \/ Jump
  \/ \E t \in Thread, entry \in 0 .. CodeLen, arg \in Value : Create(t, entry, arg)
  \/ \E t \in Thread : Yield(t)

Spec == Init /\ [][Next]_vars
=============================================================================
