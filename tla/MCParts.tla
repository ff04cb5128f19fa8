------------------------------ MODULE MCParts ------------------------------
(* Four parts of NEMU with a state of their own, which never meet: the       *)
(* devices with a guest, the GDB connection of the differential test, the    *)
(* watchpoint pool under the commands of the debugger, and the memory with   *)
(* the I/O maps.  A behaviour is one of one of them; the others are at rest, *)
(* with nothing enabled.                                                     *)
EXTENDS NemuDevices, GdbLink, WatchpointPool, NemuMemory

MCCodes    == {"a", "esc"}
MCKeymap   == [c \in MCCodes |-> IF c = "a" THEN 1 ELSE 0]
MCContents == {0, 1}
MCCalls == { [name |-> "exec", n |-> n] : n \in {0, 2} }
  \cup { [name |-> "to_ref", dut |-> 1], [name |-> "to_dut"] }
  \cup { [name |-> "memcpy", addr |-> 0, data |-> d] : d \in {<<1, 1>>, <<1, 0, 1>>, <<0, 1, 1, 1, 1>>, <<>>} }
MCExprs    == {"a0"}

\* Two devices in the window of the flash or outside of it, or on ports.
MCRegions == [low : {10, 12, 13, 14, 24}, len : {1, 2, 4}]
MCPorts   == {<<[low |-> 1, len |-> 2], [low |-> 3, len |-> 1]>>,
              <<[low |-> 0, len |-> 1], [low |-> 3, len |-> 4]>>}
MCMachines == [port_io : {FALSE}, devices : MCRegions \X MCRegions]
                \cup [port_io : {TRUE}, devices : MCPorts]

DevAtRest  == at = "stopped" /\ elapsed = TRUE /\ DevState /\ guest.program = "painter"
GdbAtRest  == calls = MaxCalls /\ toStub = <<>> /\ GdbState /\ qemu.dut = 0
PoolAtRest == fate = "not started" /\ PoolState
MemAtRest  == up = FALSE /\ machine = [port_io |-> FALSE, devices |-> <<>>] /\ MemoryState

Init == \/ DevInit   /\ GdbAtRest /\ PoolAtRest /\ MemAtRest
        \/ DevAtRest /\ GdbInit   /\ PoolAtRest /\ MemAtRest
        \/ DevAtRest /\ GdbAtRest /\ PoolInit   /\ MemAtRest
        \/ DevAtRest /\ GdbAtRest /\ PoolAtRest /\ MemoryInit

vars == <<devVars, gdbVars, poolVars, memoryVars>>
Next == \/ DevNext    /\ UNCHANGED <<gdbVars, poolVars, memoryVars>>
        \/ GdbNext    /\ UNCHANGED <<devVars, poolVars, memoryVars>>
        \/ PoolNext   /\ UNCHANGED <<devVars, gdbVars, memoryVars>>
        \/ MemoryNext /\ UNCHANGED <<devVars, gdbVars, poolVars>>
Spec == Init /\ [][Next]_vars /\ DevFairness /\ GdbFairness
=============================================================================
