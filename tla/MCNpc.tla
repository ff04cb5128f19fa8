------------------------------- MODULE MCNpc -------------------------------
(***************************************************************************)
(* Instances of the NPC core for TLC: one-bit bytes, so 4-bit words and 16 *)
(* addresses, three registers, and every program of two instructions from  *)
(* a set (the remaining addresses jump back to the first).                 *)
(***************************************************************************)
EXTENDS NpcProperties, Bitwise

CONSTANT ProgramLength   \* instructions of a program that TLC chooses

I(o, d, a, b, i) == [op |-> o, rd |-> d, rs1 |-> a, rs2 |-> b, imm |-> i, csr |-> "none"]
C(o, d, a, c)    == [op |-> o, rd |-> d, rs1 |-> a, rs2 |-> 0, imm |-> 0, csr |-> c]

\* The minirv instructions: accesses of aligned and unaligned bytes, jumps to
\* odd targets, uses of x0 as source and destination, and a load or a store
\* whose address is a loaded value.
MinirvInsts ==
  { I("add", 1, 1, 2, 0),  I("addi", 1, 1, 0, 5), I("addi", 0, 1, 0, 1),
    I("lui", 2, 0, 0, 12), I("lw", 2, 1, 0, 4),   I("lw", 1, 0, 0, 12),
    I("lbu", 1, 2, 0, 1),  I("sw", 0, 0, 1, 12),  I("sb", 0, 1, 2, 3),
    I("jalr", 2, 1, 0, 1), I("jalr", 0, 0, 0, 1) }

CsrInsts ==
  { C("csrrw", 1, 2, "mcycle"), C("csrrw", 2, 2, "mcycleh"), C("csrrs", 1, 0, "mcycle"),
    C("csrrs", 1, 2, "mcycleh"), C("csrrs", 2, 2, "mcycle"), C("csrrs", 1, 0, "marchid"),
    C("csrrw", 1, 2, "mvendorid"), C("csrrs", 1, 0, "none"), I("addi", 2, 2, 0, 3) }

Jump == I("jalr", 0, 0, 0, 0)
ProgramsOf(insts) ==
  { [a \in Word |-> IF a % 4 = 0 /\ a \div 4 < ProgramLength THEN p[a \div 4] ELSE Jump] :
      p \in [0 .. (ProgramLength - 1) -> insts] }

MinirvPrograms == ProgramsOf(MinirvInsts)

\* Accesses, a jump to the last word, and an encoding outside minirv.
ResetInsts == { I("lw", 1, 0, 0, 12), I("lw", 2, 1, 0, 4), I("lbu", 1, 2, 0, 1), I("jalr", 2, 1, 0, 5),
                I("sb", 0, 1, 2, 3), I("other", 1, 0, 0, 0) }

AllPrograms == ProgramsOf(CsrInsts) \cup ProgramsOf(ResetInsts)

MCRegs == { [r \in Regs |-> IF r = 0 THEN 7 ELSE IF r = 1 THEN 8 ELSE 3] }
MCMem  == { [a \in Word |-> IF a \in {4, 9, 12, 15} THEN 1 ELSE 0] }
MCOr(a, b) == a | b
=============================================================================
