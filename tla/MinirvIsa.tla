----------------------------- MODULE MinirvIsa -----------------------------
(***************************************************************************)
(* The instruction-set machine: what one instruction of the minirv subset  *)
(* does to the program counter, the registers and the memory.  Every       *)
(* action is translated from NEMU's decode_exec, the reference model the   *)
(* NPC core is differentially tested against (npc/Makefile, ARGS_DIFF).    *)
(***************************************************************************)
EXTENDS Words

CONSTANTS NReg,      \* number of general registers: 16 (RV32E)
          ResetPC    \* 0x30000000, where a reset starts fetching

Regs == 0 .. (NReg - 1)

VARIABLES imem,      \* the program: address -> decoded instruction
          pc, gpr,   \* cpu.pc, cpu.gpr
          mem        \* data memory: address -> byte

isaVars == <<imem, pc, gpr, mem>>

\* The instruction fetched in this step, and its operands.
inst == imem[pc]
src1 == gpr[inst.rs1]
src2 == gpr[inst.rs2]
snpc == Plus(pc, 4)

\* vaddr_read / vaddr_write of 4 bytes, little endian, and of one byte.
Mr4(a) == FromLanes([i \in Lane |-> mem[Plus(a, i)]])
Mr1(a) == mem[a]
Mw4(a, v) == [x \in Word |->
  IF \E i \in Lane : x = Plus(a, i)
  THEN ToLanes(v)[CHOOSE i \in Lane : x = Plus(a, i)]
  ELSE mem[x]]
Mw1(a, v) == [mem EXCEPT ![a] = ToLanes(v)[0]]

\* R(rd) = v, followed by the R(0) = 0 that ends every instruction.
SetReg(v) == gpr' = [gpr EXCEPT ![inst.rd] = IF inst.rd = 0 THEN 0 ELSE v]

Is(op) == inst.op = op /\ UNCHANGED imem

Add  == Is("add")  /\ SetReg(Plus(src1, src2))     /\ pc' = snpc /\ UNCHANGED mem
Addi == Is("addi") /\ SetReg(Plus(src1, inst.imm)) /\ pc' = snpc /\ UNCHANGED mem
Lui  == Is("lui")  /\ SetReg(inst.imm)             /\ pc' = snpc /\ UNCHANGED mem
Lw   == Is("lw")   /\ SetReg(Mr4(Plus(src1, inst.imm))) /\ pc' = snpc /\ UNCHANGED mem
Lbu  == Is("lbu")  /\ SetReg(Mr1(Plus(src1, inst.imm))) /\ pc' = snpc /\ UNCHANGED mem
Sw   == Is("sw")   /\ mem' = Mw4(Plus(src1, inst.imm), src2) /\ pc' = snpc /\ UNCHANGED gpr
Sb   == Is("sb")   /\ mem' = Mw1(Plus(src1, inst.imm), src2) /\ pc' = snpc /\ UNCHANGED gpr
Jalr == Is("jalr") /\ SetReg(snpc) /\ pc' = ClearBit0(Plus(src1, inst.imm)) /\ UNCHANGED mem

isa_exec_once == Add \/ Addi \/ Lui \/ Lw \/ Lbu \/ Sw \/ Sb \/ Jalr

IsaInit == /\ pc = ResetPC
           /\ gpr[0] = 0

IsaSpec == IsaInit /\ [][isa_exec_once]_isaVars
=============================================================================
