----------------------------- MODULE MCKconfig -----------------------------
(***************************************************************************)
(* The configuration tools on parts of nemu/Kconfig: one tool runs and its *)
(* user sets values, or a user is at the dialogs of menuconfig, or the     *)
(* files and objects evolve under tools, make and crashes.                 *)
(***************************************************************************)
EXTENDS ConfTool, KconfigBuild, Lxdialog

Entry == [type |-> "bool", dep |-> None, prompt |-> None, defaults |-> <<>>, selects |-> <<>>,
          implies |-> <<>>, range |-> None, in |-> None, choice |-> FALSE, optional |-> FALSE]
Bool(s) == [sym |-> s] @@ [Entry EXCEPT !.prompt = Yes]
Tristate(s) == [Bool(s) EXCEPT !.type = "tristate"]
Choice(s) == [Bool(s) EXCEPT !.choice = TRUE]
String(s, ds) == [sym |-> s] @@ [Entry EXCEPT !.type = "string", !.defaults = ds]
When(e, dep) == [e EXCEPT !.dep = dep]
Default(e, v) == [e EXCEPT !.defaults = <<<<v, None>>>>]
ValueIn(e, c) == [e EXCEPT !.in = c]

\* The choices of the instruction set and of the reference (nemu/Kconfig).
Nemu == <<
  [Choice("isa") EXCEPT !.defaults = <<<<"ISA_riscv", None>>>>],
  ValueIn(Bool("ISA_x86"), "isa"),
  ValueIn(Bool("ISA_riscv"), "isa"),
  Default(Bool("DIFFTEST"), <<"tri", n>>),
  When([Choice("ref") EXCEPT !.defaults = <<<<"REF_SPIKE", Sym("ISA_riscv")>>,
                       <<"REF_QEMU", None>>>>], Sym("DIFFTEST")),
  ValueIn(Bool("REF_QEMU"), "ref"),
  ValueIn(When(Bool("REF_SPIKE"), Sym("ISA_riscv")), "ref"),
  String("REF_NAME", <<<<"qemu", Sym("REF_QEMU")>>, <<"spike", Sym("REF_SPIKE")>>,
                       <<"none", None>>>>) >>

\* The tracer of nemu/Kconfig, with a range, after a symbol that it may make visible.
Trace == <<
  When(Bool("COLOR"), <<"not", Sym("TRACE")>>),
  Default(Bool("TRACE"), Yes),
  [When(Bool("TRACE_END"), Sym("TRACE")) EXCEPT !.type = "int", !.defaults = <<<<2, None>>>>,
                                                !.range = <<1, 3, None>>],
  [Default(When(Bool("ITRACE"), Sym("TRACE")), Yes) EXCEPT !.selects = <<<<"DISASM", None>>>>],
  [Bool("DISASM") EXCEPT !.implies = <<<<"COLOR", None>>>>] >>

\* Three values: modules, a selected and an implied symbol, a tristate choice.
Modules == <<
  Bool("MODULES"),
  Default(Tristate("BUS"), <<"tri", m>>),
  [When(Tristate("DISK"), Sym("BUS")) EXCEPT !.selects = <<<<"CRC", None>>>>],
  [Tristate("CRC") EXCEPT !.prompt = Sym("BUS")],
  When(Choice("fs"), Sym("BUS")),
  ValueIn(Bool("EXT"), "fs"),
  ValueIn(When(Tristate("FAT"), Sym("DISK")), "fs") >>

MCKconfigs == {menu_finalize(Nemu), menu_finalize(Trace), menu_finalize(Modules)}
Has(kc, x) == x \in DOMAIN kc.symbol
\* No file, and files that were edited by hand or are of an older Kconfig.
Edited == {[TRACE |-> n, TRACE_END |-> 3], [TRACE_END |-> 9, DISASM |-> n],
           [DIFFTEST |-> y, REF_QEMU |-> y, REF_SPIKE |-> y], [ISA_x86 |-> y, REF_SPIKE |-> y],
           [MODULES |-> n, BUS |-> m, FAT |-> y], [MODULES |-> y, BUS |-> y, DISK |-> m]}
MCFiles(kc) == {NoLines} \cup {f \in Edited : DOMAIN f \subseteq DOMAIN kc.symbol}
Disk(file, other) == (Config :> file) @@ (Alternate :> other)
MCDisks(kc) == {Disk(None, None)}
  \cup {Disk(NoLines, f) : f \in MCFiles(kc)} \cup {Disk(f, None) : f \in MCFiles(kc)}
MCOrders(kc) == {kc.order, Reverse(kc.order)}

\* One bool and one symbol with a value that is not always written.
MCSymbols == {"DEVICE", "MBASE"}
MCValues == [s \in MCSymbols |-> IF s = "DEVICE" THEN {"n", "y"} ELSE {Absent, "80", "a0"}]
MCUses == [o \in Objects |-> MCSymbols]

\* The dialogs on short lists, texts and strings.
MCHot(i) == IF i \in {1, 4} THEN "a" ELSE "b"
\* A menu whose items become visible and invisible as values change.
MCLists == {<<>>, <<3>>, <<1, 2, 3, 4, 5>>, <<2, 4, 5>>}
MCTexts == [lines : {2, 3, 6}, empty : {TRUE}, jumps : BOOLEAN]
             \cup {[lines |-> 2, empty |-> FALSE, jumps |-> FALSE]}
MCInitial == {<<>>, <<"a">>, <<"b", "a", "a", "b">>}

Init == /\ BuildState
        /\ \/ (MconfInit \/ ConfInit) /\ box = [is |-> "none"] /\ resized = FALSE
           \/ st = None /\ session = NoSession /\ DialogInit
           \/ st = None /\ session = NoSession /\ box = [is |-> "none"] /\ resized = FALSE
Next == \/ (MconfNext \/ ConfNext) /\ UNCHANGED <<buildVars, box, resized>>
        \/ box.is # "none" /\ DialogNext /\ UNCHANGED <<buildVars, st, session>>
        \/ st = None /\ box.is = "none" /\ BuildNext /\ UNCHANGED <<st, session, box, resized>>
Spec == Init /\ [][Next]_<<buildVars, st, session, box, resized>>
============================================================================
