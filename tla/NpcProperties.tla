--------------------------- MODULE NpcProperties ---------------------------
(***************************************************************************)
(* What must hold of the NPC core: its handshakes, the data that reaches   *)
(* the register file and the memory, progress, and that it executes the    *)
(* instruction set of its reference model.                                 *)
(***************************************************************************)
EXTENDS NpcCore

Lanes    == [Lane -> Byte]
Requests == [addr : Word, wen : BOOLEAN, wdata : Lanes, wmask : SUBSET Lane]

IfuRegs == [state : {"IDLE", "WAIT"}, valid : BOOLEAN, reqValid : BOOLEAN,
            raddr : Word, inst : Inst]
LsuRegs == [state : {"IDLE", "WAIT"}, ready : BOOLEAN, valid : BOOLEAN,
            reqValid : BOOLEAN, wen : BOOLEAN, addr : Word, wmask : SUBSET Lane,
            wdata : Lanes, size : {0, 2}, RegWriteData : Word]
WbuRegs == [state : {"IDLE", "WAIT", "LSUWAIT"}, ready : BOOLEAN, valid : BOOLEAN]
PcuRegs == [pc : Word, valid : BOOLEAN]

\* Every register of the core, and every byte of the memory, holds a value of
\* its width.
TypeOK ==
  /\ ifu \in IfuRegs /\ lsu \in LsuRegs /\ wbu \in WbuRegs /\ pcu \in PcuRegs
  /\ rf \in [Regs -> Word]
  /\ mcycle \in [lo : Counter, hi : Counter]
  /\ imem \in [Word -> Inst] /\ dmem \in [Word -> Byte]
  /\ ifuBus \subseteq Word /\ lsuBus \subseteq Requests

-----------------------------------------------------------------------------
(* The core executes one instruction at a time; these are the phases an    *)
(* instruction goes through.                                               *)

IfuQuiet == ifu.state = "IDLE" /\ ~ifu.valid /\ ~ifu.reqValid /\ ifuBus = {}
LsuQuiet == /\ lsu.state = "IDLE" /\ ~lsu.valid /\ ~lsu.ready
            /\ ~lsu.reqValid /\ ~lsu.wen /\ lsuBus = {}
WbuQuiet == wbu.state = "IDLE" /\ ~wbu.valid /\ ~wbu.ready

\* pc_valid is high: the IFU requests the instruction at the next edge.
PhaseStart == pcu.valid /\ IfuQuiet /\ LsuQuiet /\ WbuQuiet

\* The fetch is on its way; exactly one request is outstanding.
PhaseFetch ==
  /\ ~pcu.valid /\ LsuQuiet /\ WbuQuiet
  /\ ifu.state = "WAIT" /\ ~ifu.valid /\ ifu.raddr = pcu.pc
  /\ ifuBus = IF ifu.reqValid THEN {} ELSE {ifu.raddr}

\* The instruction register holds the instruction at PC.
Fetched == ifu.inst = imem[pcu.pc] /\ ~pcu.valid

\* The instruction is offered to the LSU and to the WBU.
PhaseDecode ==
  /\ Fetched /\ LsuQuiet /\ WbuQuiet
  /\ ifu.state = "IDLE" /\ ifu.valid /\ ~ifu.reqValid /\ ifuBus = {}

\* An instruction that does not access memory retires at the next edge.
PhaseRetire ==
  /\ Fetched /\ LsuQuiet /\ ~lsu_working
  /\ ifu.state = "IDLE" /\ ifu.valid /\ ~ifu.reqValid /\ ifuBus = {}
  /\ wbu = [state |-> "WAIT", ready |-> TRUE, valid |-> TRUE]

\* The access is on its way, with the operands of the instruction.
PhaseAccess ==
  /\ Fetched /\ lsu_working
  /\ lsu.state = "WAIT" /\ ~lsu.valid /\ (lsu.ready <=> lsu.reqValid)
  /\ lsu.addr = ALU_OUT /\ lsu.wen = isStore
  /\ lsu.wmask = {i \in Lane : i - Offset(ALU_OUT) \in wmask}
  /\ lsu.wdata = ShiftLeft(ToLanes(R2_data), Offset(ALU_OUT))
  /\ lsuBus = IF lsu.reqValid THEN {} ELSE {LsuRequest}
  /\ ifu.state = "IDLE" /\ (ifu.valid <=> lsu.ready) /\ ~ifu.reqValid /\ ifuBus = {}
  /\ wbu = [state |-> "LSUWAIT", ready |-> FALSE, valid |-> FALSE]

\* The access is answered and its data waits for, or is at, the writeback.
PhaseAnswered ==
  /\ Fetched /\ lsu_working /\ IfuQuiet
  /\ lsu.state = "IDLE" /\ lsu.valid /\ ~lsu.ready /\ ~lsu.reqValid /\ ~lsu.wen
  /\ lsuBus = {} /\ lsu.addr = ALU_OUT
  /\ isLoad => lsu.RegWriteData = LoadData(ReadLanes(ALU_OUT))
  /\ wbu \in {[state |-> "LSUWAIT", ready |-> FALSE, valid |-> FALSE],
              [state |-> "IDLE", ready |-> TRUE, valid |-> TRUE]}

\* The handshakes keep the core in one of the phases above: the inductive
\* invariant from which the safety properties below follow.
PhaseInv ==
  \/ PhaseStart \/ PhaseFetch \/ PhaseDecode \/ PhaseRetire
  \/ PhaseAccess \/ PhaseAnswered

-----------------------------------------------------------------------------
\* At most one request is in flight on the two ports together, and it is the
\* one its port still drives: a memory of any latency may sample address,
\* mask and data in any cycle before it answers (IFU and LSU handshakes).
BusExclusive ==
  /\ IfuOutstanding \subseteq {ifu.raddr}
  /\ LsuOutstanding \subseteq {LsuRequest}
  /\ IfuOutstanding = {} \/ LsuOutstanding = {}

\* Whatever is fetched or accessed is what the architecture asks for: the
\* fetch is at PC, the access is the one of the instruction at PC with the
\* operands the register file holds now (PC, IFU and LSU agree although each
\* latched its part in a different cycle).
RequestsAreOfPc ==
  /\ \A a \in IfuOutstanding : a = pcu.pc
  /\ \A r \in LsuOutstanding :
       /\ ifu.inst = imem[pcu.pc] /\ lsu_working
       /\ r.addr = ALU_OUT /\ r.wen = isStore

\* At the edge that writes back, the instruction register is the word at PC,
\* a load delivers what memory holds at its address now, and no other
\* instruction sees the data of an earlier access (reg_wdata's lsu_valid).
WritebackCurrent ==
  wbu.valid =>
    /\ ifu.inst = imem[pcu.pc]
    /\ (lsu.valid <=> lsu_working)
    /\ isLoad => reg_wdata = LoadData(ReadLanes(ALU_OUT))

\* Whatever the latencies, the core retires instructions for ever: no
\* handshake between IFU, LSU, WBU and PC can wait for ever.
RetiresForever == []<>wbu.valid

-----------------------------------------------------------------------------
(* The core implements the instruction-set machine of NEMU: the refinement *)
(* mapping that makes every clock edge one instruction or a stutter.       *)

\* Registers and PC change at the edge wbu_valid is high, memory when the
\* access is answered; a store that was answered has executed although PC
\* moves on two edges later.
pcBar  == IF lsu.valid /\ isStore THEN next_pc ELSE pcu.pc
gprBar == [r \in Regs |-> rdata(r)]

Minirv == INSTANCE MinirvIsa WITH pc <- pcBar, gpr <- gprBar, mem <- dmem

\* A word access that is not aligned: the memory delivers the aligned word,
\* so what is loaded or stored differs from NEMU's; only PC is constrained.
MisalignedAccess ==
  /\ imem[pcBar].op \in {"lw", "sw"}
  /\ Offset(Plus(gprBar[imem[pcBar].rs1], imem[pcBar].imm)) # 0
  /\ pcBar' = Plus(pcBar, 4)

\* Every edge executes at most one instruction, with exactly the effect
\* decode_exec gives it: no instruction is skipped, repeated, or sees a
\* register or memory value of another time.
RefinesMinirv ==
  Minirv!IsaInit /\ [][Minirv!isa_exec_once \/ MisalignedAccess]_(Minirv!isaVars)
=============================================================================
