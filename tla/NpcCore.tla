------------------------------ MODULE NpcCore ------------------------------
(***************************************************************************)
(* The multi-cycle RV32E core of npc/ysyx_25080202.v and the memory system *)
(* on its two request/response ports.  One step of the specification is    *)
(* one rising edge of the clock: every block of the core takes the         *)
(* transition its registers select, all of them from the values before     *)
(* the edge, and the memory answers some of the outstanding requests.      *)
(*                                                                         *)
(* Each Verilog module with registers is one record variable whose fields  *)
(* are its registers; the combinational blocks (IDU, EXU, the assigns of   *)
(* LSU, WBU and RegisterFile) are operators.                               *)
(***************************************************************************)
EXTENDS Words

CONSTANTS
  NReg,            \* registers of the file: 2**(ADDR_WIDTH-1) = 16
  ResetPC,         \* 32'h30000000
  CounterSize,     \* values of one half of mcycle: WordSize in the code
  MVENDORID, MARCHID,
  BitOr(_, _),     \* bitwise or of two values of Counter
  Programs,        \* the contents the instruction memory may have
  InitialRegs,     \* the contents the register file may power up with
  InitialMem       \* the contents the data memory may power up with

Regs    == 0 .. (NReg - 1)
Counter == 0 .. (CounterSize - 1)

\* What the IDU distinguishes.  "store" is an S-type opcode that is neither
\* sw nor sb; "other" is every encoding for which the ALU drives 0 (branches,
\* jal, ebreak, R/I-type functions that are not add/addi, unknown opcodes).
Ops  == {"add", "addi", "lui", "lw", "lbu", "sw", "sb", "jalr",
         "csrrw", "csrrs", "store", "other"}
Csrs == {"mcycle", "mcycleh", "mvendorid", "marchid", "none"}
Inst == [op : Ops, rd : Regs, rs1 : Regs, rs2 : Regs, imm : Word, csr : Csrs]

\* inst is cleared by reset: the opcode 0 is unknown.
NoInst == [op |-> "other", rd |-> 0, rs1 |-> 0, rs2 |-> 0, imm |-> 0, csr |-> "none"]

ASSUME CoreAssumption ==
  /\ NReg \in Nat /\ NReg > 0
  /\ ResetPC \in Word
  /\ CounterSize \in Nat /\ CounterSize > 0 /\ CounterSize <= WordSize
  /\ MVENDORID \in Word /\ MARCHID \in Word
  /\ \A a, b \in Counter : BitOr(a, b) \in Counter
  /\ Programs \subseteq [Word -> Inst]
  /\ InitialRegs \subseteq [Regs -> Word]
  /\ InitialMem \subseteq [Word -> Byte]

VARIABLES
  ifu, lsu, wbu, pcu,  \* registers of the IFU, LSU, WBU and PC modules
  rf,                  \* the register file
  mcycle,              \* the counter, as its two halves
  imem, dmem,          \* what the external memories hold
  ifuBus, lsuBus       \* requests the memories took and have not answered

vars == <<ifu, lsu, wbu, pcu, rf, mcycle, imem, dmem, ifuBus, lsuBus>>

-----------------------------------------------------------------------------
(* Combinational logic, all of it driven by the instruction register.      *)

op     == ifu.inst.op
isLoad  == op \in {"lw", "lbu"}
isStore == op \in {"sw", "sb"}
isCsr   == op \in {"csrrw", "csrrs"}
lsu_working == isLoad \/ isStore

\* Register reads: x0 reads as zero whatever rf[0] holds.
rdata(r) == IF r = 0 THEN 0 ELSE rf[r]
R1_data  == rdata(ifu.inst.rs1)
R2_data  == rdata(ifu.inst.rs2)

ALU_OUT ==
  CASE op = "add" -> Plus(R1_data, R2_data)
    [] op \in {"addi", "jalr", "lw", "lbu", "sw", "sb", "store"} ->
         Plus(R1_data, ifu.inst.imm)
    [] op = "lui" -> ifu.inst.imm
    [] OTHER -> 0

csr_wdata == IF isCsr THEN R1_data ELSE 0
csr_rdata ==
  IF ~isCsr THEN 0
  ELSE CASE ifu.inst.csr = "mcycle"    -> mcycle.lo
         [] ifu.inst.csr = "mcycleh"   -> mcycle.hi
         [] ifu.inst.csr = "mvendorid" -> MVENDORID
         [] ifu.inst.csr = "marchid"   -> MARCHID
         [] OTHER -> 0

PC_plus_4 == Plus(pcu.pc, 4)
next_pc   == IF op = "jalr" THEN ClearBit0(ALU_OUT) ELSE PC_plus_4
reg_wdata ==
  CASE op = "jalr" -> PC_plus_4
    [] isCsr       -> csr_rdata
    [] OTHER       -> IF lsu.valid THEN lsu.RegWriteData ELSE ALU_OUT

-----------------------------------------------------------------------------
(* The memory system outside the core.  A port's request is on the wires   *)
(* in the cycles reqValid is high; the memory keeps it until it answers,   *)
(* with whatever latency, the cycle of the request included.               *)

LsuRequest == [addr |-> lsu.addr, wen |-> lsu.wen, wdata |-> lsu.wdata, wmask |-> lsu.wmask]

IfuOutstanding == ifuBus \cup (IF ifu.reqValid THEN {ifu.raddr} ELSE {})
LsuOutstanding == lsuBus \cup (IF lsu.reqValid THEN {LsuRequest} ELSE {})

\* The requests a memory answers in one cycle: none of them or one.
Answers(outstanding) == {{}} \cup {{r} : r \in outstanding}

\* The aligned word around an address, as lanes; a write touches the lanes
\* its mask names.
WordBase(addr)   == addr - Offset(addr)
ReadLanes(addr)  == [i \in Lane |-> dmem[WordBase(addr) + i]]
Written(r) == [x \in Word |->
  IF r.wen /\ WordBase(x) = WordBase(r.addr) /\ Offset(x) \in r.wmask
  THEN r.wdata[Offset(x)] ELSE dmem[x]]

\* A memory keeps what it has not answered; a store is performed when it is
\* answered.
Bus(fetched, accessed) ==
  /\ ifuBus' = IfuOutstanding \ fetched
  /\ lsuBus' = LsuOutstanding \ accessed
  /\ \/ accessed = {} /\ UNCHANGED dmem
     \/ \E r \in accessed : dmem' = Written(r)
  /\ UNCHANGED imem
-----------------------------------------------------------------------------
(* IFU: fetch at PC, hold the instruction until LSU or WBU takes it.       *)

IfuRequest ==
  /\ ifu.state = "IDLE" /\ pcu.valid
  /\ ifu' = [ifu EXCEPT !.state = "WAIT", !.raddr = pcu.pc, !.reqValid = TRUE]

IfuTaken ==
  /\ ifu.state = "IDLE" /\ ~pcu.valid
  /\ (wbu.ready \/ lsu.ready) /\ ifu.valid
  /\ ifu' = [ifu EXCEPT !.valid = FALSE]

IfuHold ==
  /\ ifu.state = "IDLE" /\ ~pcu.valid
  /\ ~((wbu.ready \/ lsu.ready) /\ ifu.valid)
  /\ UNCHANGED ifu

IfuWait(fetched) ==
  /\ ifu.state = "WAIT" /\ fetched = {}
  /\ ifu' = [ifu EXCEPT !.reqValid = FALSE]

IfuReceive(fetched) ==
  /\ ifu.state = "WAIT"
  /\ \E a \in fetched :
       ifu' = [ifu EXCEPT !.state = "IDLE", !.reqValid = FALSE,
                          !.valid = TRUE, !.inst = imem[a]]

IFU(fetched) ==
  \/ IfuRequest \/ IfuTaken \/ IfuHold \/ IfuWait(fetched) \/ IfuReceive(fetched)

-----------------------------------------------------------------------------
(* LSU: one access for a load or a store, then offer the loaded data.      *)

wmask == CASE op = "sw" -> Lane [] op = "sb" -> {0} [] OTHER -> {}

LsuIssue ==
  /\ lsu.state = "IDLE" /\ ifu.valid /\ lsu_working
  /\ lsu' = [lsu EXCEPT
       !.state = "WAIT", !.ready = TRUE, !.reqValid = TRUE,
       !.wen   = isStore,
       !.addr  = ALU_OUT,
       !.wmask = {i \in Lane : i - Offset(ALU_OUT) \in wmask},
       !.wdata = ShiftLeft(ToLanes(R2_data), Offset(ALU_OUT)),
       !.size  = IF op \in {"sb", "lbu"} THEN 0 ELSE 2]

LsuDrop_Keeps ==
  /\ lsu.state = "IDLE" /\ ~(ifu.valid /\ lsu_working)
  /\ lsu.valid /\ wbu.ready
  /\ UNCHANGED lsu
LsuDrop ==
  /\ lsu.state = "IDLE" /\ ~(ifu.valid /\ lsu_working)
  /\ lsu.valid /\ wbu.ready
  /\ lsu' = [lsu EXCEPT !.valid = FALSE]

LsuHold ==
  /\ lsu.state = "IDLE" /\ ~(ifu.valid /\ lsu_working)
  /\ ~(lsu.valid /\ wbu.ready)
  /\ UNCHANGED lsu

LsuWait(accessed) ==
  /\ lsu.state = "WAIT" /\ accessed = {}
  /\ lsu' = [lsu EXCEPT !.ready = FALSE, !.reqValid = FALSE]

LoadData_Unshifted(lanes) ==
  CASE op = "lw" -> FromLanes(lanes) [] op = "lbu" -> lanes[0] [] OTHER -> 0
\* deviation_rdata shifts the accessed byte down to lane 0; lbu keeps it alone.
LoadData(lanes) ==
  LET deviation == ShiftRight(lanes, Offset(lsu.addr))
  IN  CASE op = "lw"  -> FromLanes(deviation)
        [] op = "lbu" -> deviation[0]
        [] OTHER      -> 0

LsuReceive(accessed) ==
  /\ lsu.state = "WAIT"
  /\ \E r \in accessed :
       lsu' = [lsu EXCEPT
         !.state = "IDLE", !.ready = FALSE, !.reqValid = FALSE,
         !.valid = TRUE, !.wen = FALSE,
         !.RegWriteData = LoadData(ReadLanes(r.addr))]

LSU(accessed) ==
  \/ LsuIssue \/ LsuDrop \/ LsuHold \/ LsuWait(accessed) \/ LsuReceive(accessed)

-----------------------------------------------------------------------------
(* PC, WBU, RegisterFile and CSR.                                          *)

PcAdvance_NoValid == wbu.valid /\ pcu' = [pc |-> next_pc, valid |-> FALSE]
PcAdvance == wbu.valid /\ pcu' = [pc |-> next_pc, valid |-> TRUE]
PcHold_Sticky == ~wbu.valid /\ UNCHANGED pcu
PcHold    == ~wbu.valid /\ pcu' = [pcu EXCEPT !.valid = FALSE]
PC        == PcAdvance \/ PcHold

WbuAccept_AnyInst ==
  /\ wbu.state = "IDLE" /\ ifu.valid
  /\ wbu' = [state |-> "WAIT", ready |-> TRUE, valid |-> TRUE]
WbuAccept ==
  /\ wbu.state = "IDLE" /\ ifu.valid /\ ~lsu_working
  /\ wbu' = [state |-> "WAIT", ready |-> TRUE, valid |-> TRUE]

WbuAwaitLsu ==
  /\ wbu.state = "IDLE" /\ ifu.valid /\ lsu_working
  /\ wbu' = [wbu EXCEPT !.state = "LSUWAIT", !.valid = FALSE]

WbuIdle ==
  /\ wbu.state = "IDLE" /\ ~ifu.valid
  /\ wbu' = [state |-> "IDLE", ready |-> FALSE, valid |-> FALSE]

WbuFinish ==
  /\ wbu.state = "WAIT"
  /\ wbu' = [state |-> "IDLE", ready |-> FALSE, valid |-> FALSE]

WbuLsuDone ==
  /\ wbu.state = "LSUWAIT" /\ lsu.valid
  /\ wbu' = [state |-> "IDLE", ready |-> TRUE, valid |-> TRUE]

WbuLsuBusy ==
  /\ wbu.state = "LSUWAIT" /\ ~lsu.valid
  /\ UNCHANGED wbu

WBU == WbuAccept \/ WbuAwaitLsu \/ WbuIdle \/ WbuFinish \/ WbuLsuDone \/ WbuLsuBusy

\* L_wen: every instruction that is not sw or sb writes its rd.
RegisterFile ==
  IF wbu.valid /\ ~isStore
  THEN rf' = [rf EXCEPT ![ifu.inst.rd] = reg_wdata]
  ELSE UNCHANGED rf

\* mcycle + 1, the carry of the low half going into the high half.
Incremented ==
  [lo |-> (mcycle.lo + 1) % CounterSize,
   hi |-> IF mcycle.lo + 1 = CounterSize THEN (mcycle.hi + 1) % CounterSize ELSE mcycle.hi]

\* A CSR instruction writes in every cycle it is in the instruction register,
\* not only in the one that retires it.
CSR ==
  LET wdata == csr_wdata % CounterSize
      half(h) == IF op = "csrrw" THEN wdata ELSE BitOr(mcycle[h], wdata)
      writes == op = "csrrw" \/ (op = "csrrs" /\ csr_wdata # 0)
  IN  mcycle' =
        CASE writes /\ ifu.inst.csr = "mcycle"  -> [Incremented EXCEPT !.lo = half("lo")]
          [] writes /\ ifu.inst.csr = "mcycleh" -> [Incremented EXCEPT !.hi = half("hi")]
          [] OTHER -> Incremented

-----------------------------------------------------------------------------
Clock(fetched, accessed) ==
  /\ IFU(fetched) /\ LSU(accessed) /\ PC /\ WBU /\ RegisterFile /\ CSR
  /\ Bus(fetched, accessed)

Tick == \E fetched \in Answers(IfuOutstanding), accessed \in Answers(LsuOutstanding) :
          Clock(fetched, accessed)

ResetIfu == [state |-> "IDLE", valid |-> FALSE, reqValid |-> FALSE,
             raddr |-> ResetPC, inst |-> NoInst]
ResetLsu ==
  [lsu EXCEPT !.state = "IDLE", !.ready = FALSE, !.valid = FALSE, !.reqValid = FALSE,
              !.wen = FALSE, !.RegWriteData = 0, !.size = 0]
ResetWbu == [state |-> "IDLE", ready |-> FALSE, valid |-> FALSE]
ResetPcu == [pc |-> ResetPC, valid |-> TRUE]

\* An edge with reset high, which also resets the memories' ports.  The
\* register file has no reset, so a write that is due still happens, and the
\* address, mask and data registers of the LSU keep their values.
Reset ==
  /\ ifu' = ResetIfu
  /\ lsu' = ResetLsu
  /\ pcu' = ResetPcu
  /\ wbu' = ResetWbu
  /\ RegisterFile
  /\ mcycle' = [lo |-> 0, hi |-> 0]
  /\ ifuBus' = {} /\ lsuBus' = {}
  /\ UNCHANGED <<imem, dmem>>

\* The state after the first edge with reset high.
Init ==
  /\ ifu = ResetIfu
  /\ lsu = [state |-> "IDLE", ready |-> FALSE, valid |-> FALSE, reqValid |-> FALSE,
            wen |-> FALSE, addr |-> 0, wmask |-> {}, wdata |-> [i \in Lane |-> 0],
            size |-> 0, RegWriteData |-> 0]
  /\ wbu = ResetWbu
  /\ pcu = ResetPcu
  /\ rf \in InitialRegs
  /\ mcycle = [lo |-> 0, hi |-> 0]
  /\ imem \in Programs
  /\ dmem \in InitialMem
  /\ ifuBus = {} /\ lsuBus = {}

Next == Tick \/ Reset

\* The clock keeps running and each memory eventually answers a request.
FetchAnswered  == \E fetched \in Answers(IfuOutstanding) \ {{}} :
                    \E accessed \in Answers(LsuOutstanding) : Clock(fetched, accessed)
AccessAnswered == \E accessed \in Answers(LsuOutstanding) \ {{}} :
                    \E fetched \in Answers(IfuOutstanding) : Clock(fetched, accessed)
Fairness == WF_vars(Tick) /\ WF_vars(FetchAnswered) /\ WF_vars(AccessAnswered)

Spec     == Init /\ [][Next]_vars
\* The core out of reset, for the properties of execution.
RunSpec  == Init /\ [][Tick]_vars
FairSpec == RunSpec /\ Fairness
=============================================================================
