---------------------------- MODULE NemuMonitor ----------------------------
(***************************************************************************)
(* NEMU's execution loop and everything that may stop it: the debugger     *)
(* (sdb.c), cpu_exec (cpu-exec.c), the differential test against a         *)
(* reference (difftest/dut.c), the watchpoints, the traps of the guest     *)
(* (hostcall.c) and the user closing the window (device.c).  NEMU is       *)
(* sequential; `at' is where its main thread is, one action per function   *)
(* that cpu_exec calls.                                                    *)
(***************************************************************************)
EXTENDS WatchpointPool

CONSTANTS
  Programs,       \* guest programs: sequences of Instruction
  Steps,          \* arguments of si
  is_batch_mode,  \* TRUE in this commit (sdb.c:24); FALSE is the debugger
  DIFFTEST, WATCHPOINT, DEVICE   \* CONFIG_*

Gprs == {"a0", "s0"}

\* What one instruction of the guest does: "alu" adds to a register, "buggy"
\* is one whose implementation in NEMU differs from the reference (it adds,
\* the reference does not), "device" loads from a device or stores to one,
\* "ebreak" traps, "invalid" matches no pattern.
Kinds == {"alu", "buggy", "device", "ebreak", "invalid"}
Instruction == [kind : Kinds, reg : Gprs, imm : Values]

\* The expressions watched are registers, and one that reads a device.
Device == "device"

ASSUME MonitorAssumption ==
  /\ IsFiniteSet(Values) /\ Values # {} /\ Values = 0 .. (Cardinality(Values) - 1)
  /\ Exprs \subseteq Gprs \cup {Device}
  /\ Steps \subseteq Int
  /\ {is_batch_mode, DIFFTEST, WATCHPOINT, DEVICE} \subseteq BOOLEAN
  /\ \A p \in Programs : p \in Seq(Instruction) /\ Len(p) > 0
  /\ ~DEVICE => /\ Device \notin Exprs
                 /\ \A p \in Programs : \A i \in DOMAIN p : p[i].kind # Device

Forever == -1   \* cpu_exec(-1): 2**64 - 1 instructions are never used up

VARIABLES
  program,
  cpu,            \* the DUT's [pc, gpr]
  ref,            \* the reference's
  is_skip_ref,
  nemu_state,     \* its state and halt_ret; halt_pc is only logged
  left,           \* n of execute()
  at,
  masked          \* history, not in the code: why a difference may pass unseen

nemuVars == <<program, cpu, ref, is_skip_ref, nemu_state, left, at, masked>>
monVars  == <<nemuVars, poolVars>>

State(s) == [nemu_state EXCEPT !.state = s]

inst    == program[cpu.pc]
Add(gpr, i) == [gpr EXCEPT ![i.reg] = (@ + i.imm) % Cardinality(Values)]
NextPc(pc)  == (pc % Len(program)) + 1

-----------------------------------------------------------------------------
(* cpu_exec: start, one instruction, the checks after it, the end.         *)

cpu_exec_start(n) ==
  IF nemu_state.state \in {"END", "ABORT"}
  THEN /\ at' = IF is_batch_mode THEN "main" ELSE "prompt"
       /\ UNCHANGED <<nemu_state, left>>
  ELSE /\ nemu_state' = State("RUNNING")
       /\ left' = IF n < 0 THEN Forever ELSE n
       /\ at' = "exec"

\* find_mapid_by_addr tells the differential test not to run the reference
\* whoever accesses the device: the guest, or the debugger as it evaluates an
\* expression or prints memory (a look).
Look(looks) ==
  /\ is_skip_ref' = IF looks THEN DIFFTEST ELSE is_skip_ref
  /\ masked' = IF looks THEN masked \cup {"look"} ELSE masked

\* set_nemu_state first tells the differential test not to run the reference.
set_nemu_state(state, ret) ==
  /\ is_skip_ref' = DIFFTEST
  /\ nemu_state' = [state |-> state, halt_ret |-> ret]

exec_alu ==
  /\ inst.kind \in {"alu", "buggy"}
  /\ cpu' = [pc |-> NextPc(cpu.pc), gpr |-> Add(cpu.gpr, inst)]
  /\ UNCHANGED <<nemu_state, is_skip_ref>>

\* A load gets what the device answers; a store leaves the register as it is.
exec_device ==
  /\ inst.kind = Device
  /\ is_skip_ref' = DIFFTEST
  /\ \E v \in Values :
       cpu' = [pc |-> NextPc(cpu.pc), gpr |-> [cpu.gpr EXCEPT ![inst.reg] = v]]
  /\ UNCHANGED nemu_state

exec_ebreak_Advances ==
  /\ inst.kind = "ebreak"
  /\ cpu' = [cpu EXCEPT !.pc = NextPc(cpu.pc)]
  /\ UNCHANGED <<nemu_state, is_skip_ref>>
\* NEMUTRAP sets NEMU_END, and then exec_once sets NEMU_STOP and keeps the pc.
exec_ebreak ==
  /\ inst.kind = "ebreak"
  /\ is_skip_ref' = DIFFTEST
  /\ nemu_state' = [state |-> "STOP", halt_ret |-> cpu.gpr["a0"]]
  /\ UNCHANGED cpu

exec_invalid ==
  /\ inst.kind = "invalid"
  /\ set_nemu_state("ABORT", -1)
  /\ cpu' = [cpu EXCEPT !.pc = NextPc(cpu.pc)]

exec_once ==
  /\ at = "exec" /\ left # 0
  /\ exec_alu \/ exec_device \/ exec_ebreak \/ exec_invalid
  /\ at' = "difftest"
  /\ UNCHANGED <<program, ref, left, masked, poolVars>>

\* What the reference does in one step; it never runs an instruction that
\* the DUT took as a trap, or that accessed a device.
ref_difftest_exec ==
  LET i == program[ref.pc]
  IN  [pc |-> NextPc(ref.pc), gpr |-> IF i.kind = "alu" THEN Add(ref.gpr, i) ELSE ref.gpr]

checkregs_a0Only(r) ==
  nemu_state' = IF r.gpr["a0"] = cpu.gpr["a0"] THEN nemu_state ELSE State("ABORT")
checkregs(r) ==
  nemu_state' = IF r.gpr = cpu.gpr THEN nemu_state ELSE State("ABORT")

difftest_skips_Keeps ==
  /\ is_skip_ref
  /\ ref' = cpu
  /\ UNCHANGED <<is_skip_ref, nemu_state>>
difftest_skips ==
  /\ is_skip_ref
  /\ ref' = cpu /\ is_skip_ref' = FALSE
  /\ UNCHANGED nemu_state

difftest_compares ==
  /\ ~is_skip_ref
  /\ ref' = ref_difftest_exec
  /\ checkregs(ref')
  /\ UNCHANGED is_skip_ref

difftest_step ==
  /\ at = "difftest" /\ at' = "watch" /\ masked' = {}
  /\ IF DIFFTEST THEN difftest_skips \/ difftest_compares
                 ELSE UNCHANGED <<ref, is_skip_ref, nemu_state>>
  /\ UNCHANGED <<program, cpu, left, poolVars>>

\* Each watchpoint's expression is evaluated, after the differential test: one
\* that reads a device asks it to skip the next instruction, and a stop may
\* replace the abort that the test has just asked for.
OnDevice == {wp \in Active : expr[wp] = Device}
check_watchpoints ==
  /\ at = "watch" /\ at' = "check"
  /\ IF WATCHPOINT
     THEN \E seen \in [OnDevice -> Values] :
            LET now == [wp \in WP |-> IF wp \in OnDevice THEN seen[wp] ELSE cpu.gpr[expr[wp]]]
                stops == Changed(now) # {}
            IN  /\ wp_difftest(now)
                /\ nemu_state' = IF stops THEN State("STOP") ELSE nemu_state
                /\ is_skip_ref' = IF OnDevice # {} THEN DIFFTEST ELSE is_skip_ref
                /\ masked' = {m \in {"look", "stop"} :
                                \/ m = "look" /\ OnDevice # {}
                                \/ m = "stop" /\ stops /\ nemu_state.state = "ABORT"}
     ELSE UNCHANGED <<poolVars, nemu_state, is_skip_ref, masked>>
  /\ UNCHANGED <<program, cpu, ref, left>>

\* The loop of execute leaves when something changed the state; otherwise
\* device_update may find that the window was closed, and n counts down.
execute_breaks ==
  /\ at = "check" /\ nemu_state.state # "RUNNING"
  /\ at' = "end"
  /\ UNCHANGED <<program, cpu, ref, is_skip_ref, nemu_state, left, masked, poolVars>>

execute_goes_on_KeepsN ==
  /\ at = "check" /\ nemu_state.state = "RUNNING"
  /\ \/ UNCHANGED nemu_state
     \/ DEVICE /\ nemu_state' = State("QUIT")
  /\ at' = "exec"
  /\ UNCHANGED <<program, cpu, ref, is_skip_ref, left, masked, poolVars>>
execute_goes_on ==
  /\ at = "check" /\ nemu_state.state = "RUNNING"
  /\ \/ UNCHANGED nemu_state
     \/ DEVICE /\ nemu_state' = State("QUIT")
  /\ left' = IF left = Forever THEN left ELSE left - 1
  /\ at' = "exec"
  /\ UNCHANGED <<program, cpu, ref, is_skip_ref, masked, poolVars>>

cpu_exec_end ==
  /\ at = "end" \/ (at = "exec" /\ left = 0)
  /\ nemu_state' = IF nemu_state.state = "RUNNING" THEN State("STOP") ELSE nemu_state
  /\ at' = IF is_batch_mode THEN "main" ELSE "prompt"
  /\ UNCHANGED <<program, cpu, ref, is_skip_ref, left, masked, poolVars>>

-----------------------------------------------------------------------------
(* sdb_mainloop and its commands that change state.                        *)

cmd_c    == cpu_exec_start(Forever) /\ UNCHANGED poolVars /\ Look(FALSE)
cmd_si   == \E n \in Steps : cpu_exec_start(n) /\ UNCHANGED poolVars /\ Look(FALSE)
cmd_q    == /\ nemu_state' = State("QUIT") /\ at' = "main"
            /\ UNCHANGED <<left, poolVars>> /\ Look(FALSE)
\* The user types end of file.
no_line  == at' = "main" /\ UNCHANGED <<nemu_state, left, poolVars>> /\ Look(FALSE)
\* x and p change something only when they read a device.
cmd_x_p  == DEVICE /\ Look(TRUE) /\ UNCHANGED <<nemu_state, left, at, poolVars>>
Results(e) == IF e = Device THEN Values ELSE {cpu.gpr[e]}
cmd_w    == /\ \E e \in Exprs :
                 /\ Look(e = Device)
                 /\ (\E result \in Results(e) : wp_set(e, result)) \/ wp_set_full
            /\ UNCHANGED <<nemu_state, left, at>>
cmd_d    == /\ \E no \in Numbers : wp_delete(no)
            /\ UNCHANGED <<nemu_state, left, at>> /\ Look(FALSE)

Command ==
  /\ at = "prompt" /\ fate = "running"
  /\ IF is_batch_mode THEN cmd_c
     ELSE cmd_c \/ cmd_si \/ cmd_q \/ no_line \/ cmd_x_p \/ cmd_w \/ cmd_d
  /\ UNCHANGED <<program, cpu, ref>>

\* main returns is_exit_status_bad().
is_exit_status_bad ==
  ~ \/ nemu_state.state = "END" /\ nemu_state.halt_ret = 0
    \/ nemu_state.state = "QUIT"

-----------------------------------------------------------------------------
\* After init_monitor: the reference has the image and the registers.
MonInit ==
  /\ program \in Programs
  /\ cpu = [pc |-> 1, gpr |-> [r \in Gprs |-> 0]]
  /\ ref = cpu
  /\ is_skip_ref = FALSE
  /\ nemu_state = [state |-> "STOP", halt_ret |-> 0]
  /\ left = 0
  /\ at = "prompt"
  /\ masked = {}
  /\ init_wp_pool

Exited == (at = "main" \/ fate # "running") /\ UNCHANGED monVars

Advance == \/ exec_once \/ difftest_step \/ check_watchpoints
           \/ execute_breaks \/ execute_goes_on \/ cpu_exec_end

MonNext == Advance \/ Command \/ Exited
MonSpec == MonInit /\ [][MonNext]_monVars

\* The main thread runs; in batch mode that includes the one command.
MonFairSpec == MonSpec /\ WF_monVars(Advance) /\ WF_monVars(is_batch_mode /\ Command)
----------------------------------------------------------------------------
(***************************************************************************)
(* What must hold of NEMU's execution loop: the run goes on only while it  *)
(* agrees with the reference, no watched change is missed, and what ended  *)
(* the program is what the user is told.                                   *)
(***************************************************************************)
\* An instruction is executed only on a machine that agrees with the
\* reference in every register and in the pc, whatever was skipped before:
\* the first difference stops the run (difftest_step).  And a comparison is
\* skipped only for the instruction that asked for it, by a trap or an access
\* to a device; it never hides that of a later one (difftest_skip_ref).
\* Two exceptions are the code's: a watchpoint's stop that replaces the abort of
\* the differing instruction, after which c goes on with the next one, and a
\* look of the debugger at a device (x, p, w or a watchpoint), which skips the
\* comparison of the next instruction, whatever that is.
RunsInAgreement ==
  /\ at = "exec" /\ nemu_state.state = "RUNNING" => cpu = ref \/ "stop" \in masked
  /\ is_skip_ref => \/ at = "difftest" /\ program[ref.pc].kind \in {Device, "ebreak", "invalid"}
                    \/ "look" \in masked

\* When the next instruction starts, and when the user is asked, every
\* watchpoint that is set on registers has seen the present value of its
\* expression: a change never waits for a later stop (wp_difftest).  A device
\* may have changed since it was looked at.
WatchpointsCurrent ==
  at \in {"exec", "prompt"} /\ fate = "running"
    => \A wp \in Active \ OnDevice : old[wp] = cpu.gpr[expr[wp]]

\* In batch mode a guest that traps, or reaches an instruction NEMU does not
\* know, ends the emulator (execute, cpu_exec, sdb_mainloop).
BatchExits == <>(at = "main")

\* si N comes back to the prompt, whatever stops it (cmd_si, execute).
StepReturns == (at = "exec" /\ left >= 0) ~> (at = "prompt")

\* A program that ended or was aborted stays so: "Program execution has
\* ended. To restart the program, exit NEMU and run again." (cpu_exec)
EndedStaysEnded ==
  [][ nemu_state.state \in {"END", "ABORT"}
        => nemu_state'.state \in {nemu_state.state, "QUIT"} ]_monVars

\* A guest that trapped with $a0 = 0 makes NEMU exit with a good status
\* (is_exit_status_bad: END and halt_ret = 0 is good).
GoodTrapExitsGood ==
  at = "main" /\ nemu_state.state # "ABORT" /\ inst.kind = "ebreak" /\ cpu.gpr["a0"] = 0
    => ~is_exit_status_bad
=============================================================================
