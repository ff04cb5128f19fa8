----------------------------- MODULE NpcProofs -----------------------------
(***************************************************************************)
(* Proofs, for every width, register file, program and memory content and  *)
(* every latency of the memories, that the NPC core keeps its registers    *)
(* typed, its handshakes in phase, and the data it writes back current,    *)
(* and that it implements the instruction-set machine of NEMU.             *)
(***************************************************************************)
EXTENDS NpcProperties, TLAPS

-----------------------------------------------------------------------------
(* Lemmas on the word operators: each one returns a value of its width.    *)

\* A word size is a positive multiple of four (of eight, but four is all the
\* byte lanes need), so that an aligned word never wraps around (WordBase).
LEMMA WordSizeType ==
  /\ ByteSize \in Nat /\ ByteSize > 1
  /\ WordSize \in Nat /\ WordSize > 1
  /\ \E m \in Nat : m > 0 /\ WordSize = 4 * m
<1>1. PICK k \in Nat : ByteSize = 2 * k /\ k > 0
  <2>1. ByteSize = 2 * (ByteSize \div 2) /\ ByteSize \div 2 \in Nat /\ ByteSize \div 2 > 0
    BY ByteAssumption, Z3
  <2>2. QED BY <2>1
<1>2. DEFINE kk == k * k
             bb == ByteSize * ByteSize
             m == kk * bb
<1>3. kk \in Nat /\ kk > 0 /\ bb \in Nat /\ bb > 1 /\ bb = 4 * kk
  BY <1>1, ByteAssumption
<1>4. m \in Nat /\ m > 0
  BY <1>3
<1>5. WordSize = bb * bb
  BY <1>1, Z3 DEF WordSize
<1>6. bb * bb = 4 * m
  BY <1>3
<1>7. bb * bb \in Nat /\ bb * bb > 1
  BY <1>3
<1> HIDE DEF kk, bb, m
<1>8. QED
  BY <1>4, <1>5, <1>6, <1>7, ByteAssumption

\* The smallest word has four bits: 4 is a word.
LEMMA WordSizeBound == WordSize >= 16
<1>1. ByteSize \in Nat /\ ByteSize >= 2
  BY WordSizeType
<1> DEFINE bb == ByteSize * ByteSize
<1>2. bb \in Nat /\ bb >= 4
  BY <1>1, Z3
<1>3. WordSize = bb * bb
  BY <1>1, Z3 DEF WordSize
<1> HIDE DEF bb
<1>4. bb * bb >= 16
  BY <1>2, Z3
<1>5. QED
  BY <1>3, <1>4

\* Addition wraps into a word.
LEMMA PlusType == ASSUME NEW a \in Word, NEW b \in Word PROVE Plus(a, b) \in Word
BY WordSizeType DEF Plus, Word

\* Clearing the low bit of a jump target leaves a word.
LEMMA ClearBit0Type == ASSUME NEW w \in Word PROVE ClearBit0(w) \in Word
BY WordSizeType DEF ClearBit0, Word

\* The lanes of a word are bytes.
LEMMA ToLanesType == ASSUME NEW w \in Word PROVE ToLanes(w) \in [Lane -> Byte]
<1>1. \A x \in Nat : x % ByteSize \in Byte
  BY WordSizeType DEF Byte
<1>2. \A n \in Nat : n > 0 => w \div n \in Nat
  BY WordSizeType DEF Word
<1>3. ByteSize * ByteSize \in Nat /\ ByteSize * ByteSize > 0
  BY WordSizeType
<1>4. ByteSize * ByteSize * ByteSize \in Nat /\ ByteSize * ByteSize * ByteSize > 0
  BY <1>3, WordSizeType
<1>5. w \in Nat
  BY WordSizeType DEF Word
<1>6. /\ w % ByteSize \in Byte
      /\ (w \div ByteSize) % ByteSize \in Byte
      /\ (w \div (ByteSize * ByteSize)) % ByteSize \in Byte
      /\ (w \div (ByteSize * ByteSize * ByteSize)) % ByteSize \in Byte
  BY <1>1, <1>2, <1>3, <1>4, <1>5, WordSizeType
<1>7. QED
  BY <1>6 DEF ToLanes, Lane

\* One more byte below a number multiplies its range by the size of a byte.
LEMMA LaneBound ==
  ASSUME NEW n \in Nat, n > 0, NEW x \in 0 .. (n - 1), NEW b \in Byte
  PROVE  b + ByteSize * x \in 0 .. (ByteSize * n - 1)
<1>1. ByteSize * x \in Nat /\ ByteSize * x <= ByteSize * (n - 1)
  BY WordSizeType, Z3
<1>2. ByteSize * (n - 1) = ByteSize * n - ByteSize
  BY WordSizeType
<1>3. ByteSize * n \in Nat
  BY WordSizeType
<1>4. QED
  BY <1>1, <1>2, <1>3, WordSizeType DEF Byte

\* Four bytes make a word: what a load assembles fits a register.
LEMMA FromLanesType == ASSUME NEW b \in [Lane -> Byte] PROVE FromLanes(b) \in Word
<1>1. b[0] \in Byte /\ b[1] \in Byte /\ b[2] \in Byte /\ b[3] \in Byte
  BY DEF Lane
<1> DEFINE B2 == ByteSize * ByteSize
           B3 == ByteSize * B2
<1>2. B2 \in Nat /\ B2 > 0
  BY WordSizeType
<1>3. B3 \in Nat /\ B3 > 0
  BY <1>2, WordSizeType
<1>4. b[3] \in 0 .. (ByteSize - 1)
  BY <1>1 DEF Byte
<1>5. b[2] + ByteSize * b[3] \in 0 .. (B2 - 1)
  <2>1. ByteSize \in Nat /\ ByteSize > 0
    BY WordSizeType
  <2>2. b[2] + ByteSize * b[3] \in 0 .. (ByteSize * ByteSize - 1)
    BY <1>1, <1>4, <2>1, LaneBound, Zenon
  <2>3. QED BY <2>2
<1>6. b[1] + ByteSize * (b[2] + ByteSize * b[3]) \in 0 .. (B3 - 1)
  <2> HIDE DEF B2
  <2>1. QED BY <1>1, <1>2, <1>5, LaneBound
<1>7. FromLanes(b) \in 0 .. (ByteSize * B3 - 1)
  <2> HIDE DEF B3
  <2>1. QED BY <1>1, <1>3, <1>6, LaneBound DEF FromLanes
<1>8. ByteSize * B3 = WordSize
  BY WordSizeType, Z3 DEF WordSize
<1>9. QED
  BY <1>7, <1>8 DEF Word

\* Shifting bytes in and out leaves bytes.
LEMMA ShiftType ==
  ASSUME NEW b \in [Lane -> Byte], NEW n \in Lane
  PROVE  /\ ShiftRight(b, n) \in [Lane -> Byte]
         /\ ShiftLeft(b, n) \in [Lane -> Byte]
<1>1. 0 \in Byte
  BY WordSizeType DEF Byte
<1>2. QED
  BY <1>1 DEF ShiftRight, ShiftLeft

\* A byte offset is a lane, and every byte of an aligned word has an address.
LEMMA OffsetType ==
  ASSUME NEW a \in Word
  PROVE  /\ Offset(a) \in Lane
         /\ \A i \in Lane : (a - Offset(a)) + i \in Word
<1>1. PICK m \in Nat : m > 0 /\ WordSize = 4 * m
  BY WordSizeType
<1>2. a \in Nat /\ a < 4 * m
  BY <1>1 DEF Word
<1>3. a % 4 \in 0 .. 3 /\ a = 4 * (a \div 4) + (a % 4) /\ a \div 4 \in Nat
  BY <1>2
<1>4. a \div 4 <= m - 1
  BY <1>2, <1>3
<1>5. QED
  BY <1>1, <1>3, <1>4 DEF Offset, Lane, Word

\* A byte is a word: lbu zero-extends into a register.
LEMMA ByteIsWord == Byte \subseteq Word
<1>1. ByteSize * ByteSize * ByteSize \in Nat /\ ByteSize * ByteSize * ByteSize >= 1
  BY WordSizeType
<1>2. WordSize >= ByteSize
  BY <1>1, WordSizeType, Z3 DEF WordSize
<1>3. QED
  BY <1>2, WordSizeType DEF Byte, Word

-----------------------------------------------------------------------------
(* The combinational logic delivers words.                                 *)

LEMMA ReadType == ASSUME TypeOK, NEW r \in Regs PROVE rdata(r) \in Word
<1>1. 0 \in Word
  BY WordSizeType DEF Word
<1>2. QED
  BY <1>1 DEF TypeOK, rdata

LEMMA OperandType ==
  ASSUME TypeOK
  PROVE  /\ R1_data \in Word /\ R2_data \in Word
         /\ ifu.inst \in Inst /\ ifu.inst.imm \in Word /\ ifu.inst.rd \in Regs
<1>1. ifu.inst \in Inst
  BY DEF TypeOK, IfuRegs
<1>2. ifu.inst.rs1 \in Regs /\ ifu.inst.rs2 \in Regs
  BY <1>1 DEF Inst
<1>3. QED
  BY <1>1, <1>2, ReadType DEF R1_data, R2_data, Inst

LEMMA AluType == ASSUME TypeOK PROVE ALU_OUT \in Word
<1>1. 0 \in Word
  BY WordSizeType DEF Word
<1>2. QED
  BY <1>1, OperandType, PlusType DEF ALU_OUT

LEMMA NextPcType == ASSUME TypeOK PROVE PC_plus_4 \in Word /\ next_pc \in Word
<1>1. 4 \in Word
  BY WordSizeBound, WordSizeType DEF Word
<1>2. pcu.pc \in Word
  BY DEF TypeOK, PcuRegs
<1>3. QED
  BY <1>1, <1>2, AluType, PlusType, ClearBit0Type DEF PC_plus_4, next_pc

LEMMA CsrDataType ==
  ASSUME TypeOK
  PROVE  /\ csr_wdata % CounterSize \in Counter
         /\ csr_rdata \in Word
<1>1. csr_wdata \in Nat
  BY OperandType, WordSizeType DEF csr_wdata, Word
<1>2. Counter \subseteq Word
  BY CoreAssumption, WordSizeType DEF Counter, Word
<1>3. mcycle.lo \in Word /\ mcycle.hi \in Word /\ 0 \in Word
  <2>1. 0 \in Word
    BY WordSizeType DEF Word
  <2>2. mcycle.lo \in Counter /\ mcycle.hi \in Counter
    BY DEF TypeOK
  <2>3. QED BY <1>2, <2>1, <2>2
<1>4. csr_rdata \in Word
  BY <1>3, CoreAssumption DEF csr_rdata
<1>5. QED
  BY <1>1, <1>4, CoreAssumption DEF Counter

LEMMA WritebackType == ASSUME TypeOK PROVE reg_wdata \in Word
<1>1. lsu.RegWriteData \in Word
  BY DEF TypeOK, LsuRegs
<1>2. QED
  BY <1>1, AluType, NextPcType, CsrDataType DEF reg_wdata

LEMMA OutstandingType ==
  ASSUME TypeOK
  PROVE  IfuOutstanding \subseteq Word /\ LsuOutstanding \subseteq Requests
<1>1. LsuRequest \in Requests
  BY DEF TypeOK, LsuRegs, LsuRequest, Requests
<1>2. ifu.raddr \in Word
  BY DEF TypeOK, IfuRegs
<1>3. QED
  BY <1>1, <1>2 DEF TypeOK, IfuOutstanding, LsuOutstanding

LEMMA ReadLanesType ==
  ASSUME TypeOK, NEW a \in Word
  PROVE  ReadLanes(a) \in [Lane -> Byte]
BY OffsetType DEF TypeOK, ReadLanes, WordBase

LEMMA LoadDataType ==
  ASSUME TypeOK, NEW b \in [Lane -> Byte]
  PROVE  LoadData(b) \in Word
<1>1. Offset(lsu.addr) \in Lane
  BY OffsetType DEF TypeOK, LsuRegs
<1>2. ShiftRight(b, Offset(lsu.addr)) \in [Lane -> Byte]
  BY <1>1, ShiftType
<1>3. FromLanes(ShiftRight(b, Offset(lsu.addr))) \in Word
  BY <1>2, FromLanesType
<1>4. ShiftRight(b, Offset(lsu.addr))[0] \in Word
  BY <1>2, ByteIsWord DEF Lane
<1>5. 0 \in Word
  BY WordSizeType DEF Word
<1>6. QED
  BY <1>3, <1>4, <1>5 DEF LoadData

-----------------------------------------------------------------------------
(* Each block keeps its registers typed.                                   *)

LEMMA IfuType ==
  ASSUME TypeOK, NEW fetched \in SUBSET Word, IFU(fetched)
  PROVE  ifu' \in IfuRegs
<1>1. pcu.pc \in Word /\ ifu \in IfuRegs
  BY DEF TypeOK, PcuRegs
<1>2. \A a \in fetched : imem[a] \in Inst
  BY DEF TypeOK
<1>3. CASE IfuRequest
  BY <1>1, <1>3 DEF IfuRequest, IfuRegs
<1>4. CASE IfuTaken
  BY <1>1, <1>4 DEF IfuTaken, IfuRegs
<1>5. CASE IfuHold
  BY <1>1, <1>5 DEF IfuHold
<1>6. CASE IfuWait(fetched)
  BY <1>1, <1>6 DEF IfuWait, IfuRegs
<1>7. CASE IfuReceive(fetched)
  BY <1>1, <1>2, <1>7 DEF IfuReceive, IfuRegs
<1>8. QED
  BY <1>3, <1>4, <1>5, <1>6, <1>7 DEF IFU

LEMMA LsuType ==
  ASSUME TypeOK, NEW accessed \in SUBSET Requests, LSU(accessed)
  PROVE  lsu' \in LsuRegs
<1>1. lsu \in LsuRegs
  BY DEF TypeOK
<1>2. CASE LsuIssue
  <2>1. ALU_OUT \in Word /\ Offset(ALU_OUT) \in Lane
    BY AluType, OffsetType
  <2>2. ShiftLeft(ToLanes(R2_data), Offset(ALU_OUT)) \in Lanes
    BY <2>1, OperandType, ToLanesType, ShiftType DEF Lanes
  <2>3. isStore \in BOOLEAN
    BY DEF isStore
  <2> DEFINE mask == {i \in Lane : i - Offset(ALU_OUT) \in wmask}
             size == IF op \in {"sb", "lbu"} THEN 0 ELSE 2
             data == ShiftLeft(ToLanes(R2_data), Offset(ALU_OUT))
             store == isStore
  <2>4. mask \in SUBSET Lane /\ size \in {0, 2}
    OBVIOUS
  <2>5. lsu' = [lsu EXCEPT !.state = "WAIT", !.ready = TRUE, !.reqValid = TRUE,
                  !.wen = store, !.addr = ALU_OUT, !.wmask = mask, !.wdata = data,
                  !.size = size]
    BY <1>2 DEF LsuIssue
  <2>6. data \in Lanes /\ store \in BOOLEAN
    BY <2>2, <2>3
  <2> HIDE DEF mask, size, data, store
  <2>7. QED
    BY <1>1, <2>1, <2>4, <2>5, <2>6 DEF LsuRegs
<1>3. CASE LsuDrop
  BY <1>1, <1>3 DEF LsuDrop, LsuRegs
<1>4. CASE LsuHold
  BY <1>1, <1>4 DEF LsuHold
<1>5. CASE LsuWait(accessed)
  BY <1>1, <1>5 DEF LsuWait, LsuRegs
<1>6. CASE LsuReceive(accessed)
  <2>1. PICK r \in accessed :
          lsu' = [lsu EXCEPT !.state = "IDLE", !.ready = FALSE, !.reqValid = FALSE,
                             !.valid = TRUE, !.wen = FALSE,
                             !.RegWriteData = LoadData(ReadLanes(r.addr))]
    BY <1>6 DEF LsuReceive
  <2>2. r.addr \in Word
    BY DEF Requests
  <2>3. LoadData(ReadLanes(r.addr)) \in Word
    BY <2>2, ReadLanesType, LoadDataType
  <2>4. QED
    BY <1>1, <2>1, <2>3 DEF LsuRegs
<1>7. QED
  BY <1>2, <1>3, <1>4, <1>5, <1>6 DEF LSU

LEMMA PcuType == ASSUME TypeOK, PC PROVE pcu' \in PcuRegs
<1>1. CASE PcAdvance
  BY <1>1, NextPcType DEF PcAdvance, PcuRegs
<1>2. CASE PcHold
  BY <1>2 DEF TypeOK, PcHold, PcuRegs
<1>3. QED
  BY <1>1, <1>2 DEF PC

LEMMA WbuType == ASSUME TypeOK, WBU PROVE wbu' \in WbuRegs
<1>1. CASE WbuAccept
  BY <1>1 DEF WbuAccept, WbuRegs
<1>2. CASE WbuAwaitLsu
  BY <1>2 DEF TypeOK, WbuAwaitLsu, WbuRegs
<1>3. CASE WbuIdle
  BY <1>3 DEF WbuIdle, WbuRegs
<1>4. CASE WbuLsuDone
  BY <1>4 DEF WbuLsuDone, WbuRegs
<1>5. CASE WbuLsuBusy
  BY <1>5 DEF TypeOK, WbuLsuBusy
<1>6. CASE WbuFinish
  BY <1>6 DEF WbuFinish, WbuRegs
<1>7. QED
  BY <1>1, <1>2, <1>3, <1>4, <1>5, <1>6 DEF WBU

LEMMA RegisterFileType == ASSUME TypeOK, RegisterFile PROVE rf' \in [Regs -> Word]
BY WritebackType, OperandType DEF TypeOK, RegisterFile

LEMMA CsrType == ASSUME TypeOK, CSR PROVE mcycle' \in [lo : Counter, hi : Counter]
<1>1. CounterSize \in Nat /\ CounterSize > 0
  BY CoreAssumption
<1>2. mcycle.lo \in Counter /\ mcycle.hi \in Counter
  BY DEF TypeOK
<1>3. /\ (mcycle.lo + 1) % CounterSize \in Counter
      /\ (mcycle.hi + 1) % CounterSize \in Counter
  BY <1>1, <1>2 DEF Counter
<1>4. Incremented \in [lo : Counter, hi : Counter]
  BY <1>2, <1>3 DEF Incremented
<1> DEFINE wdata == csr_wdata % CounterSize
<1>5. wdata \in Counter
  BY CsrDataType
<1>6. BitOr(mcycle.lo, wdata) \in Counter /\ BitOr(mcycle.hi, wdata) \in Counter
  BY <1>2, <1>5, CoreAssumption
<1> HIDE DEF wdata
<1>7. mcycle' \in {Incremented,
                   [Incremented EXCEPT !.lo = wdata],
                   [Incremented EXCEPT !.lo = BitOr(mcycle.lo, wdata)],
                   [Incremented EXCEPT !.hi = wdata],
                   [Incremented EXCEPT !.hi = BitOr(mcycle.hi, wdata)]}
  BY DEF CSR, wdata
<1>8. QED
  BY <1>4, <1>5, <1>6, <1>7

LEMMA BusType ==
  ASSUME TypeOK, NEW fetched, NEW accessed \in SUBSET Requests, Bus(fetched, accessed)
  PROVE  /\ ifuBus' \subseteq Word /\ lsuBus' \subseteq Requests
         /\ dmem' \in [Word -> Byte] /\ imem' \in [Word -> Inst]
<1>1. ifuBus' \subseteq Word /\ lsuBus' \subseteq Requests
  BY OutstandingType DEF Bus
<1>2. \A r \in accessed : Written(r) \in [Word -> Byte]
  <2>1. \A x \in Word : Offset(x) \in Lane
    BY OffsetType
  <2>2. \A r \in accessed : r.wdata \in [Lane -> Byte]
    BY DEF Requests, Lanes
  <2>3. QED
    BY <2>1, <2>2 DEF Written, TypeOK
<1>3. QED
  BY <1>1, <1>2 DEF Bus, TypeOK

-----------------------------------------------------------------------------
\* Reset and every clock edge leave each register and memory byte a value of
\* its width (all of the core's always @(posedge clk) blocks).
THEOREM TypeCorrect == Spec => []TypeOK
<1>1. Init => TypeOK
  <2>1. ResetIfu \in IfuRegs
    <3>1. NoInst \in Inst
      BY CoreAssumption, WordSizeType DEF NoInst, Inst, Ops, Csrs, Regs, Word
    <3>2. QED BY <3>1, CoreAssumption DEF ResetIfu, IfuRegs
  <2>2. ResetWbu \in WbuRegs /\ ResetPcu \in PcuRegs
    BY CoreAssumption DEF ResetWbu, ResetPcu, WbuRegs, PcuRegs
  <2>3. 0 \in Word /\ 0 \in Byte /\ 0 \in Counter
    BY CoreAssumption, WordSizeType DEF Word, Byte, Counter
  <2>4. ASSUME Init PROVE lsu \in LsuRegs
    BY <2>3, <2>4 DEF Init, LsuRegs, Lanes
  <2>5. QED
    BY <2>1, <2>2, <2>3, <2>4, CoreAssumption DEF Init, TypeOK
<1>2. TypeOK /\ [Next]_vars => TypeOK'
  <2> SUFFICES ASSUME TypeOK, [Next]_vars PROVE TypeOK'
    OBVIOUS
  <2>1. ASSUME Tick PROVE TypeOK'
    <3>1. PICK fetched \in Answers(IfuOutstanding), accessed \in Answers(LsuOutstanding) :
            Clock(fetched, accessed)
      BY <2>1 DEF Tick
    <3>2. fetched \in SUBSET Word /\ accessed \in SUBSET Requests
      BY <3>1, OutstandingType DEF Answers
    <3>3. ifu' \in IfuRegs
      BY <3>1, <3>2, IfuType DEF Clock
    <3>4. lsu' \in LsuRegs
      BY <3>1, <3>2, LsuType DEF Clock
    <3>5. wbu' \in WbuRegs /\ pcu' \in PcuRegs
      BY <3>1, WbuType, PcuType DEF Clock
    <3>6. rf' \in [Regs -> Word] /\ mcycle' \in [lo : Counter, hi : Counter]
      BY <3>1, RegisterFileType, CsrType DEF Clock
    <3>7. /\ ifuBus' \subseteq Word /\ lsuBus' \subseteq Requests
          /\ dmem' \in [Word -> Byte] /\ imem' \in [Word -> Inst]
      BY <3>1, <3>2, BusType DEF Clock
    <3>8. QED
      BY <3>3, <3>4, <3>5, <3>6, <3>7 DEF TypeOK
  <2>2. ASSUME Reset PROVE TypeOK'
    <3>1. ResetIfu \in IfuRegs
      <4>1. NoInst \in Inst
        BY CoreAssumption, WordSizeType DEF NoInst, Inst, Ops, Csrs, Regs, Word
      <4>2. QED BY <4>1, CoreAssumption DEF ResetIfu, IfuRegs
    <3>2. ResetWbu \in WbuRegs /\ ResetPcu \in PcuRegs
      BY CoreAssumption DEF ResetWbu, ResetPcu, WbuRegs, PcuRegs
    <3>3. ResetLsu \in LsuRegs
      <4>1. 0 \in Word
        BY WordSizeType DEF Word
      <4>2. QED BY <4>1 DEF TypeOK, ResetLsu, LsuRegs
    <3>4. rf' \in [Regs -> Word]
      BY <2>2, RegisterFileType DEF Reset
    <3>5. 0 \in Counter
      BY CoreAssumption DEF Counter
    <3>6. imem' \in [Word -> Inst] /\ dmem' \in [Word -> Byte]
      BY <2>2 DEF Reset, TypeOK
    <3>7. QED
      BY <2>2, <3>1, <3>2, <3>3, <3>4, <3>5, <3>6 DEF Reset, TypeOK
  <2>3. CASE UNCHANGED vars
    BY <2>3 DEF vars, TypeOK
  <2>4. QED
    BY <2>1, <2>2, <2>3 DEF Next
<1>3. QED
  BY <1>1, <1>2, PTL DEF Spec

-----------------------------------------------------------------------------
(* The phases: what one clock edge does in each of them.                   *)

\* A cycle of a quiet port answers nothing.
LEMMA NoAnswer ==
  /\ ifuBus = {} /\ ~ifu.reqValid => Answers(IfuOutstanding) = {{}} /\ IfuOutstanding = {}
  /\ lsuBus = {} /\ ~lsu.reqValid => Answers(LsuOutstanding) = {{}} /\ LsuOutstanding = {}
BY DEF Answers, IfuOutstanding, LsuOutstanding

LEMMA FromStart ==
  ASSUME TypeOK, PhaseStart, Tick
  PROVE  PhaseFetch'
<1>1. PICK fetched \in Answers(IfuOutstanding), accessed \in Answers(LsuOutstanding) :
        Clock(fetched, accessed)
  BY DEF Tick
<1>2. fetched = {} /\ accessed = {} /\ IfuOutstanding = {} /\ LsuOutstanding = {}
  BY <1>1, NoAnswer DEF PhaseStart, IfuQuiet, LsuQuiet
<1>3. ifu' = [ifu EXCEPT !.state = "WAIT", !.raddr = pcu.pc, !.reqValid = TRUE]
  BY <1>1, <1>2 DEF Clock, IFU, IfuRequest, IfuTaken, IfuHold, IfuWait, IfuReceive,
                    PhaseStart, IfuQuiet
<1>4. UNCHANGED lsu
  BY <1>1, <1>2 DEF Clock, LSU, LsuIssue, LsuDrop, LsuHold, LsuWait, LsuReceive,
                    PhaseStart, LsuQuiet, IfuQuiet
<1>5. UNCHANGED wbu
  BY <1>1 DEF Clock, WBU, WbuAccept, WbuAwaitLsu, WbuIdle, WbuFinish, WbuLsuDone,
              WbuLsuBusy, PhaseStart, WbuQuiet, IfuQuiet, TypeOK, WbuRegs
<1>6. pcu' = [pcu EXCEPT !.valid = FALSE]
  BY <1>1 DEF Clock, PC, PcAdvance, PcHold, PhaseStart, WbuQuiet
<1>7. ifuBus' = {} /\ lsuBus' = {}
  BY <1>1, <1>2 DEF Clock, Bus
<1>8. QED
  BY <1>3, <1>4, <1>5, <1>6, <1>7
     DEF PhaseStart, PhaseFetch, IfuQuiet, LsuQuiet, WbuQuiet, TypeOK, IfuRegs, PcuRegs

LEMMA FromFetch ==
  ASSUME TypeOK, PhaseFetch, Tick
  PROVE  PhaseFetch' \/ PhaseDecode'
<1>1. PICK fetched \in Answers(IfuOutstanding), accessed \in Answers(LsuOutstanding) :
        Clock(fetched, accessed)
  BY DEF Tick
<1>2. IfuOutstanding = {ifu.raddr} /\ ifu.raddr = pcu.pc
  BY DEF PhaseFetch, IfuOutstanding
<1>3. accessed = {} /\ LsuOutstanding = {}
  BY <1>1, NoAnswer DEF PhaseFetch, LsuQuiet
<1>4. UNCHANGED lsu
  BY <1>1, <1>3 DEF Clock, LSU, LsuIssue, LsuDrop, LsuHold, LsuWait, LsuReceive,
                    PhaseFetch, LsuQuiet
<1>5. UNCHANGED wbu
  BY <1>1 DEF Clock, WBU, WbuAccept, WbuAwaitLsu, WbuIdle, WbuFinish, WbuLsuDone,
              WbuLsuBusy, PhaseFetch, WbuQuiet, TypeOK, WbuRegs
<1>6. pcu' = [pcu EXCEPT !.valid = FALSE]
  BY <1>1 DEF Clock, PC, PcAdvance, PcHold, PhaseFetch, WbuQuiet
<1>7. pcu'.pc = pcu.pc /\ ~pcu'.valid
  BY <1>6 DEF TypeOK, PcuRegs
<1>8. lsuBus' = {} /\ ifuBus' = {ifu.raddr} \ fetched /\ UNCHANGED imem
  BY <1>1, <1>2, <1>3 DEF Clock, Bus
<1>9. CASE fetched = {}
  <2>1. ifu' = [ifu EXCEPT !.reqValid = FALSE]
    BY <1>1, <1>9 DEF Clock, IFU, IfuRequest, IfuTaken, IfuHold, IfuWait, IfuReceive,
                      PhaseFetch
  <2>2. PhaseFetch'
    BY <1>4, <1>5, <1>7, <1>8, <1>9, <2>1
       DEF PhaseFetch, LsuQuiet, WbuQuiet, TypeOK, IfuRegs
  <2>3. QED BY <2>2
<1>10. CASE fetched = {ifu.raddr}
  <2>1. ifu' = [ifu EXCEPT !.state = "IDLE", !.reqValid = FALSE,
                           !.valid = TRUE, !.inst = imem[pcu.pc]]
    BY <1>1, <1>2, <1>10 DEF Clock, IFU, IfuRequest, IfuTaken, IfuHold, IfuWait,
                             IfuReceive, PhaseFetch
  <2>2. PhaseDecode'
    BY <1>4, <1>5, <1>7, <1>8, <1>10, <2>1
       DEF PhaseFetch, PhaseDecode, Fetched, LsuQuiet, WbuQuiet, TypeOK, IfuRegs
  <2>3. QED BY <2>2
<1>11. QED
  BY <1>1, <1>2, <1>9, <1>10 DEF Answers

\* While the instruction and the registers stay, so does all that is decoded
\* and computed from them.
LEMMA DecodeFrame ==
  ASSUME ifu'.inst = ifu.inst, rf' = rf
  PROVE  /\ op' = op /\ lsu_working' = lsu_working
         /\ isLoad' = isLoad /\ isStore' = isStore /\ wmask' = wmask
         /\ ALU_OUT' = ALU_OUT /\ R2_data' = R2_data
BY DEF op, lsu_working, isLoad, isStore, wmask, ALU_OUT, R1_data, R2_data, rdata

LEMMA FromDecode ==
  ASSUME TypeOK, PhaseDecode, Tick
  PROVE  PhaseRetire' \/ PhaseAccess'
<1>1. PICK fetched \in Answers(IfuOutstanding), accessed \in Answers(LsuOutstanding) :
        Clock(fetched, accessed)
  BY DEF Tick
<1>2. fetched = {} /\ accessed = {} /\ IfuOutstanding = {} /\ LsuOutstanding = {}
  BY <1>1, NoAnswer DEF PhaseDecode, LsuQuiet
<1>3. UNCHANGED ifu
  BY <1>1, <1>2 DEF Clock, IFU, IfuRequest, IfuTaken, IfuHold, IfuWait, IfuReceive,
                    PhaseDecode, Fetched, LsuQuiet, WbuQuiet
<1>4. pcu' = [pcu EXCEPT !.valid = FALSE] /\ UNCHANGED rf
  BY <1>1 DEF Clock, PC, PcAdvance, PcHold, RegisterFile, PhaseDecode, WbuQuiet
<1>5. pcu'.pc = pcu.pc /\ ~pcu'.valid
  BY <1>4 DEF TypeOK, PcuRegs
<1>6. ifuBus' = {} /\ lsuBus' = {} /\ UNCHANGED imem
  BY <1>1, <1>2 DEF Clock, Bus
<1>7. Fetched'
  BY <1>3, <1>5, <1>6 DEF PhaseDecode, Fetched
<1>8. CASE ~lsu_working
  <2>1. UNCHANGED lsu
    BY <1>1, <1>2, <1>8 DEF Clock, LSU, LsuIssue, LsuDrop, LsuHold, LsuWait,
                            LsuReceive, PhaseDecode, LsuQuiet
  <2>2. wbu' = [state |-> "WAIT", ready |-> TRUE, valid |-> TRUE]
    BY <1>1, <1>8 DEF Clock, WBU, WbuAccept, WbuAwaitLsu, WbuIdle, WbuFinish,
                      WbuLsuDone, WbuLsuBusy, PhaseDecode, WbuQuiet
  <2>3. PhaseRetire'
    BY <1>3, <1>4, <1>6, <1>7, <1>8, <2>1, <2>2, DecodeFrame
       DEF PhaseDecode, PhaseRetire, LsuQuiet
  <2>4. QED BY <2>3
<1>9. CASE lsu_working
  <2>1. LsuIssue
    BY <1>1, <1>2, <1>9 DEF Clock, LSU, LsuDrop, LsuHold, LsuWait, LsuReceive,
                            PhaseDecode, LsuQuiet
  <2>2. wbu' = [wbu EXCEPT !.state = "LSUWAIT", !.valid = FALSE]
    BY <1>1, <1>9 DEF Clock, WBU, WbuAccept, WbuAwaitLsu, WbuIdle, WbuFinish,
                      WbuLsuDone, WbuLsuBusy, PhaseDecode, WbuQuiet
  <2>3. wbu' = [state |-> "LSUWAIT", ready |-> FALSE, valid |-> FALSE]
    BY <2>2 DEF PhaseDecode, WbuQuiet, TypeOK, WbuRegs
  <2>4. /\ lsu'.state = "WAIT" /\ ~lsu'.valid /\ lsu'.ready /\ lsu'.reqValid
        /\ lsu'.addr = ALU_OUT /\ lsu'.wen = isStore
        /\ lsu'.wmask = {i \in Lane : i - Offset(ALU_OUT) \in wmask}
        /\ lsu'.wdata = ShiftLeft(ToLanes(R2_data), Offset(ALU_OUT))
    BY <2>1 DEF LsuIssue, PhaseDecode, LsuQuiet, TypeOK, LsuRegs
  <2>5. PhaseAccess'
    BY <1>3, <1>4, <1>6, <1>7, <1>9, <2>3, <2>4, DecodeFrame
       DEF PhaseDecode, PhaseAccess
  <2>6. QED BY <2>5
<1>10. QED
  BY <1>8, <1>9

LEMMA FromRetire ==
  ASSUME TypeOK, PhaseRetire, Tick
  PROVE  PhaseStart'
<1>1. PICK fetched \in Answers(IfuOutstanding), accessed \in Answers(LsuOutstanding) :
        Clock(fetched, accessed)
  BY DEF Tick
<1>2. fetched = {} /\ accessed = {} /\ IfuOutstanding = {} /\ LsuOutstanding = {}
  BY <1>1, NoAnswer DEF PhaseRetire, LsuQuiet
<1>3. ifu' = [ifu EXCEPT !.valid = FALSE]
  BY <1>1, <1>2 DEF Clock, IFU, IfuRequest, IfuTaken, IfuHold, IfuWait, IfuReceive,
                    PhaseRetire, Fetched
<1>4. UNCHANGED lsu
  BY <1>1, <1>2 DEF Clock, LSU, LsuIssue, LsuDrop, LsuHold, LsuWait, LsuReceive,
                    PhaseRetire, LsuQuiet
<1>5. wbu' = [state |-> "IDLE", ready |-> FALSE, valid |-> FALSE]
  BY <1>1 DEF Clock, WBU, WbuAccept, WbuAwaitLsu, WbuIdle, WbuFinish, WbuLsuDone,
              WbuLsuBusy, PhaseRetire
<1>6. pcu'.valid
  BY <1>1 DEF Clock, PC, PcAdvance, PcHold, PhaseRetire
<1>7. ifuBus' = {} /\ lsuBus' = {}
  BY <1>1, <1>2 DEF Clock, Bus
<1>8. QED
  BY <1>3, <1>4, <1>5, <1>6, <1>7
     DEF PhaseRetire, PhaseStart, IfuQuiet, LsuQuiet, WbuQuiet, TypeOK, IfuRegs

LEMMA FromAccess ==
  ASSUME TypeOK, PhaseAccess, Tick
  PROVE  PhaseAccess' \/ PhaseAnswered'
<1>1. PICK fetched \in Answers(IfuOutstanding), accessed \in Answers(LsuOutstanding) :
        Clock(fetched, accessed)
  BY DEF Tick
<1>2. fetched = {} /\ IfuOutstanding = {}
  BY <1>1, NoAnswer DEF PhaseAccess
<1>3. LsuOutstanding = {LsuRequest}
  BY DEF PhaseAccess, LsuOutstanding
<1>4. /\ ifu'.state = "IDLE" /\ ~ifu'.valid /\ ~ifu'.reqValid
      /\ ifu'.inst = ifu.inst
  BY <1>1, <1>2 DEF Clock, IFU, IfuRequest, IfuTaken, IfuHold, IfuWait, IfuReceive,
                    PhaseAccess, Fetched, TypeOK, IfuRegs
<1>5. UNCHANGED <<wbu, rf>>
  BY <1>1 DEF Clock, WBU, WbuAccept, WbuAwaitLsu, WbuIdle, WbuFinish, WbuLsuDone,
              WbuLsuBusy, RegisterFile, PhaseAccess
<1>6. pcu'.pc = pcu.pc /\ ~pcu'.valid
  BY <1>1 DEF Clock, PC, PcAdvance, PcHold, PhaseAccess, TypeOK, PcuRegs
<1>7. ifuBus' = {} /\ lsuBus' = {LsuRequest} \ accessed /\ UNCHANGED imem
  BY <1>1, <1>2, <1>3 DEF Clock, Bus
<1>8. Fetched' /\ lsu_working'
  BY <1>4, <1>5, <1>6, <1>7, DecodeFrame DEF PhaseAccess, Fetched
<1>9. CASE accessed = {}
  <2>1. lsu' = [lsu EXCEPT !.ready = FALSE, !.reqValid = FALSE]
    BY <1>1, <1>9 DEF Clock, LSU, LsuIssue, LsuDrop, LsuHold, LsuWait, LsuReceive,
                      PhaseAccess
  <2>2. /\ lsu'.state = lsu.state /\ lsu'.valid = lsu.valid /\ ~lsu'.ready
        /\ ~lsu'.reqValid /\ lsu'.addr = lsu.addr /\ lsu'.wen = lsu.wen
        /\ lsu'.wmask = lsu.wmask /\ lsu'.wdata = lsu.wdata
    BY <2>1 DEF TypeOK, LsuRegs
  <2>3. LsuRequest' = LsuRequest
    BY <2>2 DEF LsuRequest
  <2>4. PhaseAccess'
    BY <1>4, <1>5, <1>7, <1>8, <1>9, <2>2, <2>3, DecodeFrame DEF PhaseAccess
  <2>5. QED BY <2>4
<1>10. CASE accessed = {LsuRequest}
  <2>1. lsu' = [lsu EXCEPT !.state = "IDLE", !.ready = FALSE, !.reqValid = FALSE,
                           !.valid = TRUE, !.wen = FALSE,
                           !.RegWriteData = LoadData(ReadLanes(LsuRequest.addr))]
    BY <1>1, <1>10 DEF Clock, LSU, LsuIssue, LsuDrop, LsuHold, LsuWait, LsuReceive,
                       PhaseAccess
  <2>2. LsuRequest.addr = ALU_OUT /\ LsuRequest.wen = isStore
    BY DEF PhaseAccess, LsuRequest
  <2>3. /\ lsu'.state = "IDLE" /\ lsu'.valid /\ ~lsu'.ready /\ ~lsu'.reqValid
        /\ ~lsu'.wen /\ lsu'.addr = lsu.addr
        /\ lsu'.RegWriteData = LoadData(ReadLanes(ALU_OUT))
    BY <2>1, <2>2 DEF TypeOK, LsuRegs
  <2>4. dmem' = Written(LsuRequest)
    BY <1>1, <1>10 DEF Clock, Bus
  <2>5. isLoad => dmem' = dmem
    <3>1. isLoad => ~isStore
      BY DEF isLoad, isStore
    <3>2. isLoad => dmem' = [x \in Word |-> dmem[x]]
      BY <2>2, <2>4, <3>1 DEF Written
    <3>3. QED BY <3>2 DEF TypeOK
  <2>6. isLoad' => lsu'.RegWriteData = LoadData(ReadLanes(ALU_OUT))'
    <3>1. isLoad => ReadLanes(ALU_OUT)' = ReadLanes(ALU_OUT)
      BY <1>4, <1>5, <2>5, DecodeFrame DEF ReadLanes
    <3>2. isLoad => LoadData(ReadLanes(ALU_OUT))' = LoadData(ReadLanes(ALU_OUT))
      BY <1>4, <1>5, <2>3, <3>1, DecodeFrame DEF LoadData
    <3>3. QED BY <1>4, <1>5, <2>3, <3>2, DecodeFrame
  <2>7. PhaseAnswered'
    BY <1>4, <1>5, <1>7, <1>8, <1>10, <2>3, <2>6, DecodeFrame
       DEF PhaseAccess, PhaseAnswered, IfuQuiet
  <2>8. QED BY <2>7
<1>11. QED
  BY <1>1, <1>3, <1>9, <1>10 DEF Answers

LEMMA FromAnswered ==
  ASSUME TypeOK, PhaseAnswered, Tick
  PROVE  PhaseAnswered' \/ PhaseStart'
<1>1. PICK fetched \in Answers(IfuOutstanding), accessed \in Answers(LsuOutstanding) :
        Clock(fetched, accessed)
  BY DEF Tick
<1>2. fetched = {} /\ accessed = {} /\ IfuOutstanding = {} /\ LsuOutstanding = {}
  BY <1>1, NoAnswer DEF PhaseAnswered, IfuQuiet
<1>3. UNCHANGED ifu
  BY <1>1, <1>2 DEF Clock, IFU, IfuRequest, IfuTaken, IfuHold, IfuWait, IfuReceive,
                    PhaseAnswered, IfuQuiet, Fetched
<1>4. ifuBus' = {} /\ lsuBus' = {} /\ UNCHANGED <<imem, dmem>>
  BY <1>1, <1>2 DEF Clock, Bus
<1>5. CASE wbu = [state |-> "LSUWAIT", ready |-> FALSE, valid |-> FALSE]
  <2>1. UNCHANGED lsu
    BY <1>1, <1>2, <1>5 DEF Clock, LSU, LsuIssue, LsuDrop, LsuHold, LsuWait,
                            LsuReceive, PhaseAnswered, IfuQuiet
  <2>2. wbu' = [state |-> "IDLE", ready |-> TRUE, valid |-> TRUE]
    BY <1>1, <1>5 DEF Clock, WBU, WbuAccept, WbuAwaitLsu, WbuIdle, WbuFinish,
                      WbuLsuDone, WbuLsuBusy, PhaseAnswered
  <2>3. pcu'.pc = pcu.pc /\ ~pcu'.valid /\ UNCHANGED rf
    BY <1>1, <1>5 DEF Clock, PC, PcAdvance, PcHold, RegisterFile, TypeOK, PcuRegs
  <2>4. LoadData(ReadLanes(ALU_OUT))' = LoadData(ReadLanes(ALU_OUT))
    BY <1>3, <1>4, <2>1, <2>3, DecodeFrame DEF LoadData, ReadLanes
  <2>5. PhaseAnswered'
    BY <1>3, <1>4, <2>1, <2>2, <2>3, <2>4, DecodeFrame
       DEF PhaseAnswered, IfuQuiet, Fetched
  <2>6. QED BY <2>5
<1>6. CASE wbu = [state |-> "IDLE", ready |-> TRUE, valid |-> TRUE]
  <2>1. lsu' = [lsu EXCEPT !.valid = FALSE]
    BY <1>1, <1>2, <1>6 DEF Clock, LSU, LsuIssue, LsuDrop, LsuHold, LsuWait,
                            LsuReceive, PhaseAnswered, IfuQuiet
  <2>2. wbu' = [state |-> "IDLE", ready |-> FALSE, valid |-> FALSE]
    BY <1>1, <1>6 DEF Clock, WBU, WbuAccept, WbuAwaitLsu, WbuIdle, WbuFinish,
                      WbuLsuDone, WbuLsuBusy, PhaseAnswered, IfuQuiet
  <2>3. pcu'.valid
    BY <1>1, <1>6 DEF Clock, PC, PcAdvance, PcHold
  <2>4. PhaseStart'
    BY <1>3, <1>4, <2>1, <2>2, <2>3
       DEF PhaseAnswered, PhaseStart, IfuQuiet, LsuQuiet, WbuQuiet, TypeOK, LsuRegs
  <2>5. QED BY <2>4
<1>7. QED
  BY <1>5, <1>6 DEF PhaseAnswered

-----------------------------------------------------------------------------
\* The handshakes between IFU, LSU, WBU and PC keep the core in one of the
\* six phases, through every latency of the memories and every reset.
THEOREM PhasesKept == Spec => []PhaseInv
<1>1. Init => PhaseInv
  BY DEF Init, ResetIfu, ResetWbu, ResetPcu, PhaseInv, PhaseStart,
         IfuQuiet, LsuQuiet, WbuQuiet
<1>2. TypeOK /\ PhaseInv /\ [Next]_vars => PhaseInv'
  <2> SUFFICES ASSUME TypeOK, PhaseInv, [Next]_vars PROVE PhaseInv'
    OBVIOUS
  <2>1. CASE Tick
    BY <2>1, FromStart, FromFetch, FromDecode, FromRetire, FromAccess, FromAnswered
       DEF PhaseInv
  <2>2. CASE Reset
    <3>1. PhaseStart'
      BY <2>2 DEF Reset, ResetIfu, ResetLsu, ResetWbu, ResetPcu, PhaseStart,
                  IfuQuiet, LsuQuiet, WbuQuiet, TypeOK, LsuRegs
    <3>2. QED BY <3>1 DEF PhaseInv
  <2>3. CASE UNCHANGED vars
    <3>1. UNCHANGED <<ifu, lsu, wbu, pcu, rf, imem, dmem, ifuBus, lsuBus>>
      BY <2>3 DEF vars
    <3>2. /\ LoadData(ReadLanes(ALU_OUT))' = LoadData(ReadLanes(ALU_OUT))
          /\ LsuRequest' = LsuRequest
      BY <3>1, DecodeFrame DEF LoadData, ReadLanes, LsuRequest
    <3>3. PhaseStart \/ PhaseFetch => PhaseStart' \/ PhaseFetch'
      BY <3>1 DEF PhaseStart, PhaseFetch, IfuQuiet, LsuQuiet, WbuQuiet
    <3>4. PhaseDecode => PhaseDecode'
      BY <3>1 DEF PhaseDecode, Fetched, LsuQuiet, WbuQuiet
    <3>5. PhaseRetire => PhaseRetire'
      BY <3>1, DecodeFrame DEF PhaseRetire, Fetched, LsuQuiet
    <3>6. PhaseAccess => PhaseAccess'
      BY <3>1, <3>2, DecodeFrame DEF PhaseAccess, Fetched
    <3>7. PhaseAnswered => PhaseAnswered'
      BY <3>1, <3>2, DecodeFrame DEF PhaseAnswered, Fetched, IfuQuiet
    <3>8. QED
      BY <3>3, <3>4, <3>5, <3>6, <3>7 DEF PhaseInv
  <2>4. QED
    BY <2>1, <2>2, <2>3 DEF Next
<1>3. QED
  BY <1>1, <1>2, TypeCorrect, PTL DEF Spec

\* At most one request is in flight, and its port still drives it (the
\* IFU and LSU handshakes with the memories).
THEOREM BusIsExclusive == Spec => []BusExclusive
<1>1. PhaseInv => BusExclusive
  BY NoAnswer DEF PhaseInv, PhaseStart, PhaseFetch, PhaseDecode, PhaseRetire,
     PhaseAccess, PhaseAnswered, IfuQuiet, LsuQuiet, BusExclusive,
     IfuOutstanding, LsuOutstanding
<1>2. QED
  BY <1>1, PhasesKept, PTL

\* The request in flight is the one the architecture asks for: the fetch is
\* at PC, the access is that of the instruction at PC with the operands the
\* register file holds.
THEOREM RequestsOfPc == Spec => []RequestsAreOfPc
<1>1. PhaseInv => RequestsAreOfPc
  <2>1. CASE PhaseFetch
    BY <2>1, NoAnswer DEF PhaseFetch, LsuQuiet, RequestsAreOfPc, IfuOutstanding
  <2>2. CASE PhaseAccess
    <3>1. LsuOutstanding = {LsuRequest}
      BY <2>2 DEF PhaseAccess, LsuOutstanding
    <3>2. LsuRequest.addr = ALU_OUT /\ LsuRequest.wen = isStore
      BY <2>2 DEF PhaseAccess, LsuRequest
    <3>3. QED
      BY <2>2, <3>1, <3>2, NoAnswer DEF PhaseAccess, Fetched, RequestsAreOfPc
  <2>3. CASE PhaseStart \/ PhaseDecode \/ PhaseRetire \/ PhaseAnswered
    BY <2>3, NoAnswer DEF PhaseStart, PhaseDecode, PhaseRetire, PhaseAnswered,
                          IfuQuiet, LsuQuiet, RequestsAreOfPc
  <2>4. QED BY <2>1, <2>2, <2>3 DEF PhaseInv
<1>2. QED
  BY <1>1, PhasesKept, PTL

\* What is written back is current: the instruction is the one at PC and a
\* load delivers what memory holds at its address (WBU's reg_wdata).
THEOREM WritebackIsCurrent == Spec => []WritebackCurrent
<1>1. PhaseInv => WritebackCurrent
  <2>1. CASE PhaseStart \/ PhaseFetch \/ PhaseDecode \/ PhaseAccess
    BY <2>1 DEF PhaseStart, PhaseFetch, PhaseDecode, PhaseAccess, WbuQuiet,
                WritebackCurrent
  <2>2. CASE PhaseRetire
    BY <2>2 DEF PhaseRetire, Fetched, LsuQuiet, WritebackCurrent, lsu_working
  <2>3. CASE PhaseAnswered
    <3>1. isLoad => reg_wdata = lsu.RegWriteData
      BY <2>3 DEF PhaseAnswered, reg_wdata, isLoad, isCsr
    <3>2. QED
      BY <2>3, <3>1 DEF PhaseAnswered, Fetched, WritebackCurrent, lsu_working
  <2>4. QED BY <2>1, <2>2, <2>3 DEF PhaseInv
<1>2. QED
  BY <1>1, PhasesKept, PTL

-----------------------------------------------------------------------------
(* For programs of minirv instructions, the core implements the instruction-  *)
(* set machine of NEMU.                                                       *)

MinirvOps == {"add", "addi", "lui", "lw", "lbu", "sw", "sb", "jalr"}
MinirvOnly == \A p \in Programs : \A a \in Word : p[a].op \in MinirvOps

-----------------------------------------------------------------------------
(* The words of the two machines are the same.                             *)

LEMMA WordsSame ==
  /\ \A a, b : Minirv!Plus(a, b) = Plus(a, b)
  /\ \A a : Minirv!ClearBit0(a) = ClearBit0(a) /\ Minirv!ToLanes(a) = ToLanes(a)
            /\ Minirv!FromLanes(a) = FromLanes(a)
  /\ Minirv!Lane = Lane /\ Minirv!Word = Word
BY DEF Minirv!Plus, Plus, Minirv!ClearBit0, ClearBit0, Minirv!ToLanes, ToLanes, Minirv!FromLanes, FromLanes,
       Minirv!Lane, Lane, Minirv!Word, Word, Minirv!WordSize, WordSize

\* The address of each byte of an aligned word.
LEMMA AlignedBytes ==
  ASSUME NEW a \in Word, Offset(a) = 0
  PROVE  \A i \in Lane : Plus(a, i) = a + i /\ a + i \in Word
<1>1. \A i \in Lane : a + i \in Word
  BY OffsetType, WordSizeType DEF Word
<1>2. \A i \in Lane : (a + i) % WordSize = a + i
  BY <1>1, WordSizeType DEF Word, Lane
<1>3. QED BY <1>1, <1>2 DEF Plus

\* An address is a base and an offset.
LEMMA BaseAndOffset ==
  ASSUME NEW x \in Word
  PROVE  /\ WordBase(x) \in Nat /\ Offset(x) \in Lane /\ x = WordBase(x) + Offset(x)
         /\ Offset(WordBase(x)) = 0
BY OffsetType, WordSizeType DEF WordBase, Offset, Word, Lane

\* What a load puts together is what NEMU's vaddr_read returns.
LEMMA LoadIsRead ==
  ASSUME TypeOK, lsu.addr = ALU_OUT
  PROVE  /\ op = "lbu" => LoadData(ReadLanes(ALU_OUT)) = Minirv!Mr1(ALU_OUT)
         /\ op = "lw" /\ Offset(ALU_OUT) = 0 => LoadData(ReadLanes(ALU_OUT)) = Minirv!Mr4(ALU_OUT)
<1> DEFINE a == ALU_OUT
<1>1. a \in Word /\ Offset(a) \in Lane /\ a = WordBase(a) + Offset(a)
  BY AluType, BaseAndOffset
<1> HIDE DEF a
<1>2. ReadLanes(a) = [i \in Lane |-> dmem[WordBase(a) + i]]
  BY DEF ReadLanes
<1>3. ShiftRight(ReadLanes(a), Offset(a))[0] = dmem[a]
  <2>1. 0 \in Lane /\ 0 + Offset(a) = Offset(a)
    BY <1>1 DEF Lane
  <2>2. ShiftRight(ReadLanes(a), Offset(a))[0] = ReadLanes(a)[Offset(a)]
    BY <1>1, <2>1 DEF ShiftRight
  <2>3. QED BY <1>1, <1>2, <2>2
<1>4. CASE op = "lbu"
  BY <1>3, <1>4 DEF LoadData, Minirv!Mr1, a
<1>5. CASE op = "lw" /\ Offset(a) = 0
  <2>1. WordBase(a) = a
    BY <1>1, <1>5, WordSizeType DEF WordBase, Word
  <2>2. ShiftRight(ReadLanes(a), 0) = [i \in Lane |-> dmem[a + i]]
    <3>1. \A i \in Lane : i + 0 = i
      BY DEF Lane
    <3>2. QED BY <1>2, <2>1, <3>1 DEF ShiftRight
  <2>3. [i \in Lane |-> dmem[Plus(a, i)]] = [i \in Lane |-> dmem[a + i]]
    BY <1>1, <1>5, AlignedBytes
  <2>4. Minirv!Mr4(a) = FromLanes([i \in Lane |-> dmem[Plus(a, i)]])
    BY WordsSame DEF Minirv!Mr4
  <2>5. QED BY <1>5, <2>2, <2>3, <2>4 DEF LoadData, a
<1>6. QED BY <1>4, <1>5 DEF a

\* The store of the LSU's request is NEMU's vaddr_write.
LEMMA StoreIsWrite ==
  ASSUME TypeOK, isStore, lsu.addr = ALU_OUT, lsu.wen,
         lsu.wmask = {i \in Lane : i - Offset(ALU_OUT) \in wmask},
         lsu.wdata = ShiftLeft(ToLanes(R2_data), Offset(ALU_OUT))
  PROVE  /\ op = "sb" => Written(LsuRequest) = Minirv!Mw1(ALU_OUT, R2_data)
         /\ op = "sw" /\ Offset(ALU_OUT) = 0 =>
              Written(LsuRequest) = Minirv!Mw4(ALU_OUT, R2_data)
<1> DEFINE a == ALU_OUT
           v == ToLanes(R2_data)
           data == ShiftLeft(v, Offset(a))
<1>1. a \in Word /\ Offset(a) \in Lane /\ a = WordBase(a) + Offset(a) /\ WordBase(a) \in Nat
  BY AluType, BaseAndOffset
<1>2. Written(LsuRequest) =
        [x \in Word |-> IF WordBase(x) = WordBase(a) /\ Offset(x) \in lsu.wmask
                        THEN data[Offset(x)] ELSE dmem[x]]
  BY DEF Written, LsuRequest
<1>3. lsu.wmask = {i \in Lane : i - Offset(a) \in wmask}
  OBVIOUS
<1>4. dmem \in [Word -> Byte]
  BY DEF TypeOK
<1> HIDE DEF a, v
<1>5. CASE op = "sb"
  <2>1. lsu.wmask = {Offset(a)}
    BY <1>1, <1>3, <1>5 DEF wmask, Lane
  <2>2. data[Offset(a)] = v[0]
    <3>1. Offset(a) - Offset(a) = 0 /\ 0 \in Lane
      BY <1>1 DEF Lane
    <3>2. QED BY <1>1, <3>1 DEF ShiftLeft
  <2> HIDE DEF data
  <2>3. \A x \in Word : (WordBase(x) = WordBase(a) /\ Offset(x) \in lsu.wmask) <=> x = a
    BY <1>1, <2>1, BaseAndOffset
  <2>4. Written(LsuRequest) = [x \in Word |-> IF x = a THEN v[0] ELSE dmem[x]]
    BY <1>2, <2>1, <2>2, <2>3
  <2>5. Minirv!Mw1(a, R2_data) = [dmem EXCEPT ![a] = v[0]]
    BY WordsSame DEF Minirv!Mw1, v
  <2>6. QED BY <1>4, <1>5, <2>4, <2>5 DEF a
<1>6. CASE op = "sw" /\ Offset(a) = 0
  <2>1. lsu.wmask = Lane
    BY <1>3, <1>6 DEF wmask, Lane
  <2>2. \A i \in Lane : data[i] = v[i]
    BY <1>6 DEF ShiftLeft, Lane
  <2>3. WordBase(a) = a
    BY <1>1, <1>6 DEF Lane
  <2> HIDE DEF data
  <2>4. \A x \in Word : \A i \in Lane : x = Plus(a, i) <=> (WordBase(x) = a /\ Offset(x) = i)
    <3> SUFFICES ASSUME NEW x \in Word, NEW i \in Lane
                 PROVE  x = Plus(a, i) <=> (WordBase(x) = a /\ Offset(x) = i)
      OBVIOUS
    <3>1. Plus(a, i) = a + i
      BY <1>1, <1>6, AlignedBytes
    <3>2. Offset(a + i) = i
      BY <1>1, <1>6 DEF Offset, Lane, Word
    <3>3. QED BY <1>1, <3>1, <3>2, BaseAndOffset DEF WordBase, Lane, Word
  <2>5. Minirv!Mw4(a, R2_data) =
          [x \in Word |-> IF \E i \in Lane : x = Plus(a, i)
                          THEN v[CHOOSE i \in Lane : x = Plus(a, i)] ELSE dmem[x]]
    BY WordsSame DEF Minirv!Mw4, v
  <2>6. ASSUME NEW x \in Word
        PROVE  (IF WordBase(x) = WordBase(a) /\ Offset(x) \in lsu.wmask
                THEN data[Offset(x)] ELSE dmem[x])
               = (IF \E i \in Lane : x = Plus(a, i)
                  THEN v[CHOOSE i \in Lane : x = Plus(a, i)] ELSE dmem[x])
    <3>1. Offset(x) \in Lane
      BY BaseAndOffset
    <3>2. CASE WordBase(x) = a
      <4>1. x = Plus(a, Offset(x)) /\ \A i \in Lane : x = Plus(a, i) => i = Offset(x)
        BY <2>4, <3>1, <3>2
      <4>2. (CHOOSE i \in Lane : x = Plus(a, i)) = Offset(x)
        BY <3>1, <4>1
      <4>3. QED BY <2>1, <2>2, <2>3, <3>1, <3>2, <4>1, <4>2
    <3>3. CASE WordBase(x) # a
      BY <2>3, <2>4, <3>3
    <3>4. QED BY <3>2, <3>3
  <2>7. QED BY <1>2, <1>6, <2>5, <2>6 DEF a
<1>7. QED BY <1>5, <1>6 DEF a

-----------------------------------------------------------------------------
(* The operands of the two machines are the same.                          *)

\* While the core executes the instruction at PC and has not stored.
LEMMA OperandsSame ==
  ASSUME TypeOK, Fetched, pcBar = pcu.pc
  PROVE  /\ Minirv!inst = ifu.inst /\ Minirv!src1 = R1_data /\ Minirv!src2 = R2_data
         /\ Minirv!snpc = PC_plus_4
<1>1. ifu.inst.rs1 \in Regs /\ ifu.inst.rs2 \in Regs
  BY OperandType DEF Inst
<1>2. QED BY <1>1, WordsSame DEF Fetched, Minirv!inst, Minirv!src1, Minirv!src2, Minirv!snpc, gprBar, R1_data,
             R2_data, PC_plus_4

\* The edge that writes the register file.
LEMMA RetireWrites ==
  ASSUME TypeOK, Fetched, pcBar = pcu.pc, wbu.valid, ~isStore, RegisterFile
  PROVE  Minirv!SetReg(reg_wdata)
<1>1. ifu.inst.rd \in Regs /\ rf \in [Regs -> Word] /\ Minirv!inst = ifu.inst
  BY OperandType, OperandsSame DEF TypeOK
<1>2. rf' = [rf EXCEPT ![ifu.inst.rd] = reg_wdata]
  BY DEF RegisterFile
<1> HIDE DEF reg_wdata
<1>3. \A r \in Regs : rdata(r)' = IF r = ifu.inst.rd
                                  THEN IF ifu.inst.rd = 0 THEN 0 ELSE reg_wdata
                                  ELSE rdata(r)
  BY <1>1, <1>2 DEF rdata
<1>4. QED BY <1>1, <1>3 DEF gprBar, Minirv!SetReg

-----------------------------------------------------------------------------
(* Every edge is an instruction or a stutter.                              *)

IsaStep == Minirv!isa_exec_once \/ MisalignedAccess
IsaKept == UNCHANGED <<imem, pcBar, gprBar, dmem>>

LEMMA StutterStep ==
  ASSUME IsaKept PROVE UNCHANGED Minirv!isaVars
BY DEF IsaKept, Minirv!isaVars

LEMMA RegistersKept == ASSUME UNCHANGED rf PROVE UNCHANGED gprBar
BY DEF gprBar, rdata

\* An edge on which no access is answered and nothing is written back.
LEMMA QuietEdge ==
  ASSUME TypeOK, ~wbu.valid, NEW fetched, NEW accessed, Clock(fetched, accessed), accessed = {}
  PROVE  UNCHANGED <<imem, dmem, rf>> /\ pcu'.pc = pcu.pc
BY DEF Clock, Bus, RegisterFile, PC, PcAdvance, PcHold, TypeOK, PcuRegs

LEMMA FromStartStutters ==
  ASSUME TypeOK, PhaseStart \/ PhaseFetch \/ PhaseDecode, Tick
  PROVE  IsaKept
<1>1. PICK fetched \in Answers(IfuOutstanding), accessed \in Answers(LsuOutstanding) :
        Clock(fetched, accessed)
  BY DEF Tick
<1>2. accessed = {} /\ ~wbu.valid /\ ~lsu.valid
  BY <1>1, NoAnswer DEF PhaseStart, PhaseFetch, PhaseDecode, LsuQuiet, WbuQuiet
<1>3. UNCHANGED <<imem, dmem, rf>> /\ pcu'.pc = pcu.pc
  BY <1>1, <1>2, QuietEdge
<1>4. ~lsu'.valid
  BY FromStart, FromFetch, FromDecode
     DEF PhaseFetch, PhaseDecode, PhaseRetire, PhaseAccess, LsuQuiet
<1>5. QED BY <1>2, <1>3, <1>4, RegistersKept DEF IsaKept, pcBar

LEMMA FromRetireExecutes ==
  ASSUME TypeOK, PhaseRetire, Tick, op \in MinirvOps
  PROVE  Minirv!isa_exec_once
<1>1. PICK fetched \in Answers(IfuOutstanding), accessed \in Answers(LsuOutstanding) :
        Clock(fetched, accessed)
  BY DEF Tick
<1>2. accessed = {} /\ wbu.valid /\ ~lsu.valid /\ Fetched /\ ~isStore
  BY <1>1, NoAnswer DEF PhaseRetire, LsuQuiet, lsu_working
<1>3. pcBar = pcu.pc
  BY <1>2 DEF pcBar
<1>4. UNCHANGED <<imem, dmem>> /\ pcu'.pc = next_pc
  BY <1>1, <1>2 DEF Clock, Bus, PC, PcAdvance, PcHold
<1>5. pcBar' = next_pc
  BY <1>4, FromRetire DEF PhaseStart, LsuQuiet, pcBar
<1>6. Minirv!SetReg(reg_wdata)
  BY <1>1, <1>2, <1>3, RetireWrites DEF Clock
<1>7. op \in {"add", "addi", "lui", "jalr"}
  BY DEF PhaseRetire, lsu_working, isLoad, isStore, MinirvOps
<1>8. Minirv!inst = ifu.inst /\ Minirv!src1 = R1_data /\ Minirv!src2 = R2_data /\ Minirv!snpc = PC_plus_4
  BY <1>2, <1>3, OperandsSame
<1>9. Minirv!inst.op = op
  BY <1>8 DEF op
<1>10. CASE op = "add"
  <2>1. reg_wdata = Minirv!Plus(Minirv!src1, Minirv!src2) /\ next_pc = Minirv!snpc
    BY <1>2, <1>8, <1>10, WordsSame DEF reg_wdata, isCsr, ALU_OUT, next_pc
  <2>2. Minirv!Add
    BY <1>4, <1>5, <1>6, <1>9, <1>10, <2>1 DEF Minirv!Add, Minirv!Is
  <2>3. QED BY <2>2 DEF Minirv!isa_exec_once
<1>11. CASE op = "addi"
  <2>1. reg_wdata = Minirv!Plus(Minirv!src1, Minirv!inst.imm) /\ next_pc = Minirv!snpc
    BY <1>2, <1>8, <1>11, WordsSame DEF reg_wdata, isCsr, ALU_OUT, next_pc
  <2>2. Minirv!Addi
    BY <1>4, <1>5, <1>6, <1>9, <1>11, <2>1 DEF Minirv!Addi, Minirv!Is
  <2>3. QED BY <2>2 DEF Minirv!isa_exec_once
<1>12. CASE op = "lui"
  <2>1. reg_wdata = Minirv!inst.imm /\ next_pc = Minirv!snpc
    BY <1>2, <1>8, <1>12 DEF reg_wdata, isCsr, ALU_OUT, next_pc
  <2>2. Minirv!Lui
    BY <1>4, <1>5, <1>6, <1>9, <1>12, <2>1 DEF Minirv!Lui, Minirv!Is
  <2>3. QED BY <2>2 DEF Minirv!isa_exec_once
<1>13. CASE op = "jalr"
  <2>1. reg_wdata = Minirv!snpc /\ next_pc = Minirv!ClearBit0(Minirv!Plus(Minirv!src1, Minirv!inst.imm))
    BY <1>2, <1>8, <1>13, WordsSame DEF reg_wdata, isCsr, ALU_OUT, next_pc
  <2>2. Minirv!Jalr
    BY <1>4, <1>5, <1>6, <1>9, <1>13, <2>1 DEF Minirv!Jalr, Minirv!Is
  <2>3. QED BY <2>2 DEF Minirv!isa_exec_once
<1>14. QED BY <1>7, <1>10, <1>11, <1>12, <1>13

\* The address of an access.
LEMMA AddressSame ==
  ASSUME TypeOK, Fetched, pcBar = pcu.pc, lsu_working
  PROVE  /\ ALU_OUT = Plus(Minirv!src1, Minirv!inst.imm) /\ ALU_OUT = Minirv!Plus(Minirv!src1, Minirv!inst.imm)
         /\ next_pc = PC_plus_4 /\ Minirv!inst.op = op
BY OperandsSame, WordsSame DEF lsu_working, isLoad, isStore, ALU_OUT, next_pc, op

LEMMA MisalignedStep ==
  ASSUME TypeOK, Fetched, pcBar = pcu.pc, op \in {"lw", "sw"}, Offset(ALU_OUT) # 0,
         pcBar' = next_pc
  PROVE  MisalignedAccess
<1>1. lsu_working
  BY DEF lsu_working, isLoad, isStore
<1>2. Minirv!src1 = gprBar[imem[pcBar].rs1] /\ Minirv!inst = imem[pcBar]
  BY DEF Minirv!src1, Minirv!inst
<1>3. QED BY <1>1, <1>2, AddressSame DEF MisalignedAccess, PC_plus_4

\* A store executes when its access is answered.
LEMMA FromAccessExecutes ==
  ASSUME TypeOK, PhaseAccess, Tick
  PROVE  IsaStep \/ IsaKept
<1>1. PICK fetched \in Answers(IfuOutstanding), accessed \in Answers(LsuOutstanding) :
        Clock(fetched, accessed)
  BY DEF Tick
<1>2. LsuOutstanding = {LsuRequest} /\ ~wbu.valid /\ ~lsu.valid /\ Fetched /\ lsu_working
  BY DEF PhaseAccess, LsuOutstanding
<1>3. pcBar = pcu.pc
  BY <1>2 DEF pcBar
<1>4. UNCHANGED <<imem, rf>> /\ pcu'.pc = pcu.pc
  BY <1>1, <1>2 DEF Clock, Bus, RegisterFile, PC, PcAdvance, PcHold, TypeOK, PcuRegs
<1>5. Fetched'
  BY FromAccess DEF PhaseAccess, PhaseAnswered
<1>6. ifu'.inst = ifu.inst
  BY <1>2, <1>4, <1>5 DEF Fetched
<1>7. op' = op /\ isStore' = isStore /\ ALU_OUT' = ALU_OUT
  BY <1>4, <1>6, DecodeFrame
<1>8. next_pc' = next_pc
  BY <1>4, <1>7 DEF next_pc, PC_plus_4
<1>9. UNCHANGED gprBar
  BY <1>4, RegistersKept
<1>10. CASE accessed = {}
  <2>1. lsu' = [lsu EXCEPT !.ready = FALSE, !.reqValid = FALSE]
    BY <1>1, <1>10 DEF Clock, LSU, LsuIssue, LsuDrop, LsuHold, LsuWait, LsuReceive,
                      PhaseAccess
  <2>2. ~lsu'.valid
    BY <1>2, <2>1 DEF TypeOK, LsuRegs
  <2>3. QED BY <1>1, <1>2, <1>4, <1>9, <1>10, <2>2, QuietEdge DEF IsaKept, pcBar
<1>11. CASE accessed = {LsuRequest}
  <2>1. dmem' = Written(LsuRequest)
    BY <1>1, <1>11 DEF Clock, Bus
  <2>2. lsu'.valid
    <3>1. lsu' = [lsu EXCEPT !.state = "IDLE", !.ready = FALSE, !.reqValid = FALSE,
                             !.valid = TRUE, !.wen = FALSE,
                             !.RegWriteData = LoadData(ReadLanes(LsuRequest.addr))]
      BY <1>1, <1>11 DEF Clock, LSU, LsuIssue, LsuDrop, LsuHold, LsuWait, LsuReceive, PhaseAccess
    <3>2. QED BY <3>1 DEF TypeOK, LsuRegs
  <2>3. CASE ~isStore
    <3>1. dmem' = [x \in Word |-> dmem[x]]
      BY <2>1, <2>3 DEF PhaseAccess, LsuRequest, Written
    <3>2. dmem' = dmem
      BY <3>1 DEF TypeOK
    <3>3. QED BY <1>3, <1>4, <1>7, <1>9, <2>3, <3>2 DEF IsaKept, pcBar
  <2>4. CASE isStore
    <3>1. pcBar' = next_pc
      BY <1>7, <1>8, <2>2, <2>4 DEF pcBar
    <3>2. /\ ALU_OUT = Minirv!Plus(Minirv!src1, Minirv!inst.imm) /\ next_pc = Minirv!snpc
          /\ Minirv!inst.op = op /\ Minirv!src2 = R2_data
      BY <1>2, <1>3, AddressSame, OperandsSame
    <3>3. /\ op = "sb" => dmem' = Minirv!Mw1(ALU_OUT, R2_data)
          /\ op = "sw" /\ Offset(ALU_OUT) = 0 => dmem' = Minirv!Mw4(ALU_OUT, R2_data)
      BY <2>1, <2>4, StoreIsWrite DEF PhaseAccess
    <3>4. CASE op = "sb"
      <4>1. Minirv!Sb
        BY <1>4, <1>9, <3>1, <3>2, <3>3, <3>4 DEF Minirv!Sb, Minirv!Is
      <4>2. QED BY <4>1 DEF IsaStep, Minirv!isa_exec_once
    <3>5. CASE op = "sw" /\ Offset(ALU_OUT) = 0
      <4>1. Minirv!Sw
        BY <1>4, <1>9, <3>1, <3>2, <3>3, <3>5 DEF Minirv!Sw, Minirv!Is
      <4>2. QED BY <4>1 DEF IsaStep, Minirv!isa_exec_once
    <3>6. CASE op = "sw" /\ Offset(ALU_OUT) # 0
      BY <1>2, <1>3, <3>1, <3>6, MisalignedStep DEF IsaStep
    <3>7. QED BY <2>4, <3>4, <3>5, <3>6 DEF isStore
  <2>5. QED BY <2>3, <2>4
<1>12. QED BY <1>1, <1>2, <1>10, <1>11 DEF Answers

\* A load executes when its data is written back.
LEMMA FromAnsweredExecutes ==
  ASSUME TypeOK, PhaseAnswered, Tick
  PROVE  IsaStep \/ IsaKept
<1>1. PICK fetched \in Answers(IfuOutstanding), accessed \in Answers(LsuOutstanding) :
        Clock(fetched, accessed)
  BY DEF Tick
<1>2. fetched = {} /\ accessed = {} /\ lsu.valid /\ Fetched /\ lsu_working
  BY <1>1, NoAnswer DEF PhaseAnswered, IfuQuiet
<1>3. UNCHANGED ifu
  BY <1>1, <1>2 DEF Clock, IFU, IfuRequest, IfuTaken, IfuHold, IfuWait, IfuReceive,
                    PhaseAnswered, IfuQuiet, Fetched
<1>4. UNCHANGED <<imem, dmem>>
  BY <1>1, <1>2 DEF Clock, Bus
<1>5. CASE wbu = [state |-> "LSUWAIT", ready |-> FALSE, valid |-> FALSE]
  <2>1. UNCHANGED lsu
    BY <1>1, <1>2, <1>5 DEF Clock, LSU, LsuIssue, LsuDrop, LsuHold, LsuWait,
                            LsuReceive, PhaseAnswered, IfuQuiet
  <2>2. UNCHANGED rf /\ pcu'.pc = pcu.pc
    BY <1>1, <1>2, <1>5, QuietEdge
  <2>3. isStore' = isStore /\ next_pc' = next_pc
    BY <1>3, <2>2, DecodeFrame DEF next_pc, PC_plus_4
  <2>4. QED BY <1>4, <2>1, <2>2, <2>3, RegistersKept DEF IsaKept, pcBar
<1>6. CASE wbu = [state |-> "IDLE", ready |-> TRUE, valid |-> TRUE]
  <2>1. pcu'.pc = next_pc
    BY <1>1, <1>6 DEF Clock, PC, PcAdvance, PcHold
  <2>2. lsu' = [lsu EXCEPT !.valid = FALSE]
    BY <1>1, <1>2, <1>6 DEF Clock, LSU, LsuIssue, LsuDrop, LsuHold, LsuWait,
                            LsuReceive, PhaseAnswered, IfuQuiet
  <2>3. ~lsu'.valid
    BY <2>2 DEF TypeOK, LsuRegs
  <2>4. pcBar' = next_pc
    BY <2>1, <2>3 DEF pcBar
  <2>5. CASE isStore
    <3>1. UNCHANGED rf
      BY <1>1, <2>5 DEF Clock, RegisterFile
    <3>2. pcBar = next_pc
      BY <1>2, <2>5 DEF pcBar
    <3>3. QED BY <1>4, <2>4, <3>1, <3>2, RegistersKept DEF IsaKept
  <2>6. CASE isLoad
    <3>1. ~isStore /\ wbu.valid
      BY <1>6, <2>6 DEF isLoad, isStore
    <3>2. pcBar = pcu.pc
      BY <3>1 DEF pcBar
    <3>3. Minirv!SetReg(reg_wdata)
      BY <1>1, <1>2, <3>1, <3>2, RetireWrites DEF Clock
    <3>4. reg_wdata = LoadData(ReadLanes(ALU_OUT)) /\ lsu.addr = ALU_OUT
      BY <2>6 DEF PhaseAnswered, reg_wdata, isLoad, isCsr
    <3>5. /\ ALU_OUT = Minirv!Plus(Minirv!src1, Minirv!inst.imm) /\ next_pc = Minirv!snpc
          /\ Minirv!inst.op = op
      BY <1>2, <3>2, AddressSame, OperandsSame
    <3>6. CASE op = "lbu"
      <4>1. Minirv!Lbu
        BY <1>4, <2>4, <3>3, <3>4, <3>5, <3>6, LoadIsRead DEF Minirv!Lbu, Minirv!Is
      <4>2. QED BY <4>1 DEF IsaStep, Minirv!isa_exec_once
    <3>7. CASE op = "lw" /\ Offset(ALU_OUT) = 0
      <4>1. Minirv!Lw
        BY <1>4, <2>4, <3>3, <3>4, <3>5, <3>7, LoadIsRead DEF Minirv!Lw, Minirv!Is
      <4>2. QED BY <4>1 DEF IsaStep, Minirv!isa_exec_once
    <3>8. CASE op = "lw" /\ Offset(ALU_OUT) # 0
      BY <1>2, <2>4, <3>2, <3>8, MisalignedStep DEF IsaStep
    <3>9. QED BY <2>6, <3>6, <3>7, <3>8 DEF isLoad
  <2>7. QED BY <1>2, <2>5, <2>6 DEF lsu_working
<1>7. QED BY <1>5, <1>6 DEF PhaseAnswered

-----------------------------------------------------------------------------
\* Every edge executes at most one instruction with exactly the effect that NEMU
\* gives it, for every program of minirv instructions and every latency of the
\* memories (all blocks of the core, decode_exec of NEMU).
THEOREM CoreImplementsIsa ==
  ASSUME MinirvOnly
  PROVE  RunSpec => RefinesMinirv
<1>1. RunSpec => Spec
  <2>1. [Tick]_vars => [Next]_vars
    BY DEF Next
  <2>2. QED BY <2>1, PTL DEF RunSpec, Spec
<1>2. RunSpec => [](imem \in Programs)
  <2>1. Init => imem \in Programs
    BY DEF Init
  <2>2. imem \in Programs /\ [Tick]_vars => (imem \in Programs)'
    BY DEF Tick, Clock, Bus, vars
  <2>3. QED BY <2>1, <2>2, PTL DEF RunSpec
<1>3. Init => Minirv!IsaInit
  <2>1. Init => pcBar = ResetPC
    BY DEF Init, ResetPcu, pcBar
  <2>2. 0 \in Regs
    BY CoreAssumption DEF Regs
  <2>3. gprBar[0] = 0
    BY <2>2 DEF gprBar, rdata
  <2>4. QED BY <2>1, <2>3 DEF Minirv!IsaInit
<1>4. TypeOK /\ PhaseInv /\ imem \in Programs /\ [Tick]_vars
        => [Minirv!isa_exec_once \/ MisalignedAccess]_(Minirv!isaVars)
  <2> SUFFICES ASSUME TypeOK, PhaseInv, imem \in Programs, [Tick]_vars
               PROVE  IsaStep \/ UNCHANGED Minirv!isaVars
    BY DEF IsaStep
  <2>1. CASE UNCHANGED vars
    <3>1. UNCHANGED <<ifu, lsu, pcu, rf, imem, dmem>>
      BY <2>1 DEF vars
    <3>2. isStore' = isStore /\ next_pc' = next_pc
      BY <3>1, DecodeFrame DEF next_pc, PC_plus_4
    <3>3. IsaKept
      BY <3>1, <3>2, RegistersKept DEF IsaKept, pcBar
    <3>4. QED BY <3>3, StutterStep
  <2>2. CASE Tick
    <3>1. CASE PhaseStart \/ PhaseFetch \/ PhaseDecode
      BY <2>2, <3>1, FromStartStutters, StutterStep
    <3>2. CASE PhaseRetire
      <4>1. op \in MinirvOps
        BY <3>2 DEF PhaseRetire, Fetched, op, MinirvOnly, TypeOK, PcuRegs
      <4>2. QED BY <2>2, <3>2, <4>1, FromRetireExecutes DEF IsaStep
    <3>3. CASE PhaseAccess
      BY <2>2, <3>3, FromAccessExecutes, StutterStep
    <3>4. CASE PhaseAnswered
      BY <2>2, <3>4, FromAnsweredExecutes, StutterStep
    <3>5. QED BY <3>1, <3>2, <3>3, <3>4 DEF PhaseInv
  <2>3. QED BY <2>1, <2>2
<1>5. QED BY <1>1, <1>2, <1>3, <1>4, TypeCorrect, PhasesKept, PTL DEF RunSpec, RefinesMinirv
=============================================================================
