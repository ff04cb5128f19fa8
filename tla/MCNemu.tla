------------------------------- MODULE MCNemu -------------------------------
(***************************************************************************)
(* NEMU's execution loop for TLC: every guest program of up to three       *)
(* instructions that can end, or two of five instructions; the last        *)
(* instruction jumps back to the first.                                    *)
(***************************************************************************)
EXTENDS NemuMonitor

I(k, r, v) == [kind |-> k, reg |-> r, imm |-> v]

\* Additions that change a register and one that does not, an instruction
\* that is wrong in either register, one that accesses a device, and the two
\* ways a guest can end.
Insts == { I("alu", "a0", 1), I("alu", "s0", 1), I("alu", "s0", 0),
           I("buggy", "a0", 1), I("buggy", "s0", 1),
           I(Device, "s0", 0), I("ebreak", "a0", 0), I("invalid", "a0", 0) }
Ends(p) == \E i \in DOMAIN p : p[i].kind \in {"ebreak", "invalid"}

MCPrograms   == { p \in UNION {[1 .. n -> Insts] : n \in 1 .. 3} : Ends(p) }
MCDebugged   == [1 .. 2 -> Insts \ {I("alu", "s0", 1), I("alu", "s0", 0), I("buggy", "a0", 1)}]
MCValues     == {0, 1, 2}
MCBits       == {0, 1}
MCWatched    == Gprs \cup {Device}
MCSteps      == {-1, 0, 1, 2}
=============================================================================
