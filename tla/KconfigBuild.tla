--------------------------- MODULE KconfigBuild ---------------------------
(***************************************************************************)
(* From .config to the objects: conf_write, conf_touch_deps and            *)
(* conf_write_autoconf of tools/kconfig/confdata.c, the dependency files   *)
(* that tools/fixdep writes, and make, which decides from file times what  *)
(* to compile again.                                                       *)
(*                                                                         *)
(* A file time matters only against the time of an object, so the clock is *)
(* the set newer[o] of files written after object o was.  Every call that  *)
(* changes a file is a step, and the tool or the machine may stop after    *)
(* any of them (Crash).  auto.conf.cmd is left out: its rules have no      *)
(* recipe.  make runs no configuration step by itself in this repository.  *)
(* A save goes through a temporary file: with KCONFIG_OVERWRITECONFIG set, *)
(* which nothing in the repository does, conf_write opens .config itself   *)
(* and renames nothing (confdata.c:851-854), and that is not modelled.     *)
(***************************************************************************)
EXTENDS Naturals, FiniteSets

CONSTANTS
  Symbols,     \* the configuration symbols
  Bools,       \* those of type bool or tristate
  Values,      \* Values[s]: the values s can have, Absent when it is not written
  Objects,     \* the objects make builds
  Uses,        \* Uses[o]: the symbols fixdep finds in what o is made from
  MaxCrashes,  \* bound on the crashes of a behaviour
  NoFile       \* model value: the file, or the object, does not exist

ASSUME BuildAssumption ==
  /\ Bools \subseteq Symbols
  /\ DOMAIN Values = Symbols
  /\ Uses \in [Objects -> SUBSET Symbols]
  /\ MaxCrashes \in Nat
  /\ NoFile \notin [Symbols -> (UNION {Values[s] : s \in Symbols}) \cup {"absent"}]

Absent == "absent"      \* the symbol is not written: SYMBOL_WRITE is clear

Configs == {c \in [Symbols -> UNION {Values[s] : s \in Symbols}] :
              \A s \in Symbols : c[s] \in Values[s]}

VARIABLES
  config, config_old,   \* .config and .config.old
  auto,                 \* include/config/auto.conf
  autoconf,             \* include/generated/autoconf.h
  newer,                \* newer[o]: the files written after object o
  obj,                  \* the objects, with the values each was compiled with
  pc, goal, todo,       \* the running tool: where it is, its values, what to touch
  tool,                 \* "mconf", "defconfig" or "syncconfig"
  saved,                \* history: the configuration of the last finished save
  crashes

configVars == <<config, config_old, saved>>
treeVars == <<auto, autoconf, newer>>
buildVars == <<config, config_old, auto, autoconf, newer, obj, pc, goal, todo,
               tool, saved, crashes>>

Header == "autoconf.h"

\* What a source file sees of a value: a bool that is n has no #define.
Seen(v) == IF v \in {"n", Absent} THEN Absent ELSE v
HeaderOf(c) == [s \in Symbols |-> Seen(c[s])]
AutoOf(f) == IF f = NoFile THEN [s \in Symbols |-> Absent] ELSE f

BuildState ==
  /\ config = NoFile /\ config_old = NoFile
  /\ auto = NoFile /\ autoconf = NoFile
  /\ newer = [o \in Objects |-> {}]
  /\ obj = [o \in Objects |-> NoFile]
  /\ pc = "idle" /\ goal = NoFile /\ todo = {}
  /\ tool = "mconf" /\ saved = NoFile /\ crashes = 0

----------------------------------------------------------------------------
\* The tools that write the configuration

\* Mutant: a symbol that had no old value is not touched.
Touched_Old(c, f) == {s \in Symbols : AutoOf(f)[s] # Absent /\ c[s] # AutoOf(f)[s]}

\* The symbols whose file conf_touch_deps touches: with an old value in
\* auto.conf and another one or none now; or with none in it, unless the new
\* one is the n of a bool.
Touched(c, f) ==
  {s \in Symbols :
     IF c[s] # Absent
       THEN IF AutoOf(f)[s] # Absent THEN c[s] # AutoOf(f)[s]
            ELSE ~(s \in Bools /\ c[s] = "n")
       ELSE AutoOf(f)[s] # Absent}

\* conf_write_autoconf: only syncconfig overwrites an auto.conf, and mconf
\* writes none.
WritesAuto == \/ tool = "syncconfig"
              \/ tool = "defconfig" /\ auto = NoFile

\* A tool starts and reaches conf_write with the values c.  syncconfig has
\* what .config says, or defaults when there is none.
StartTool(t, c) ==
  /\ pc = "idle"
  /\ t = "syncconfig" /\ config # NoFile => c = config
  /\ tool' = t /\ goal' = c /\ pc' = "write"
  /\ UNCHANGED <<configVars, treeVars, obj, todo, crashes>>

\* Nothing of a tool that has ended is kept.
Done == pc' = "idle" /\ goal' = NoFile /\ todo' = {} /\ tool' = "mconf"

\* After conf_write: conf_write_autoconf, or the end.
AfterWrite ==
  \/ /\ WritesAuto
     /\ pc' = "touch" /\ todo' = Touched(goal, auto)
     /\ UNCHANGED <<goal, tool>>
  \/ ~WritesAuto /\ Done

\* conf_write, the temporary file written: it equals .config and is removed.
conf_write_same ==
  /\ pc = "write" /\ config = goal
  /\ saved' = goal
  /\ AfterWrite
  /\ UNCHANGED <<config, config_old, treeVars, obj, crashes>>

\* Mutant: .config is removed, and not kept as .config.old.
conf_write_old_Unlink ==
  /\ pc = "write" /\ config # goal
  /\ config' = NoFile /\ pc' = "rename"
  /\ UNCHANGED <<config_old, saved, treeVars, obj, goal, todo, tool, crashes>>

\* conf_write: rename .config to .config.old (which fails when there is none).
conf_write_old ==
  /\ pc = "write" /\ config # goal
  /\ config_old' = IF config = NoFile THEN config_old ELSE config
  /\ config' = NoFile /\ pc' = "rename"
  /\ UNCHANGED <<saved, treeVars, obj, goal, todo, tool, crashes>>

\* conf_write: rename the temporary file to .config.
conf_write_new ==
  /\ pc = "rename"
  /\ config' = goal /\ saved' = goal
  /\ AfterWrite
  /\ UNCHANGED <<config_old, treeVars, obj, crashes>>

conf_touch_dep(s) ==
  /\ pc = "touch" /\ s \in todo
  /\ todo' = todo \ {s}
  /\ newer' = [o \in Objects |-> newer[o] \cup {s}]
  /\ UNCHANGED <<configVars, auto, autoconf, obj, pc, goal, tool, crashes>>

\* conf_write_autoconf: .tmpconfig.h becomes autoconf.h.
rename_autoconf ==
  /\ pc = "touch" /\ todo = {}
  /\ autoconf' = HeaderOf(goal)
  /\ newer' = [o \in Objects |-> newer[o] \cup {Header}]
  /\ pc' = "auto"
  /\ UNCHANGED <<configVars, auto, obj, goal, todo, tool, crashes>>

\* conf_write_autoconf: .tmpconfig becomes auto.conf, in which an n is absent.
rename_auto ==
  /\ pc = "auto"
  /\ auto' = HeaderOf(goal)
  /\ Done
  /\ UNCHANGED <<configVars, autoconf, newer, obj, crashes>>

Crash ==
  /\ pc # "idle" /\ crashes < MaxCrashes
  /\ Done /\ crashes' = crashes + 1
  /\ UNCHANGED <<configVars, treeVars, obj>>

----------------------------------------------------------------------------
\* make and fixdep

\* What make compares o with: what the compiler listed, autoconf.h with it,
\* or what fixdep made of that: a file per symbol instead of autoconf.h.
Deps(o) == IF obj[o].deps = "raw" THEN {Header} ELSE Uses[o]

UpToDate(o) == obj[o] # NoFile /\ newer[o] \cap Deps(o) = {}

\* The values the sources of o see now.
ValuesSeen(o) == [s \in Uses[o] |-> autoconf[s]]

\* The rule for an object: compile, then replace the .d file by fixdep's.
\* deps = "raw": make stopped before the mv.  torn: auto.conf is of another
\* run of the tool than autoconf.h.
compile(o, deps) ==
  /\ pc = "idle" /\ autoconf # NoFile /\ ~UpToDate(o)
  /\ deps = "raw" => crashes < MaxCrashes
  /\ crashes' = IF deps = "raw" THEN crashes + 1 ELSE crashes
  /\ obj' = [obj EXCEPT ![o] = [vals |-> ValuesSeen(o), deps |-> deps,
                                torn |-> auto # autoconf]]
  /\ newer' = [newer EXCEPT ![o] = {}]
  /\ UNCHANGED <<configVars, auto, autoconf, pc, goal, todo, tool>>

BuildNext ==
  \/ \E t \in {"mconf", "defconfig", "syncconfig"}, c \in Configs : StartTool(t, c)
  \/ conf_write_same
  \/ conf_write_old
  \/ conf_write_new
  \/ \E s \in Symbols : conf_touch_dep(s)
  \/ rename_autoconf
  \/ rename_auto
  \/ Crash
  \/ \E o \in Objects, deps \in {"raw", "fixed"} : compile(o, deps)

----------------------------------------------------------------------------
\* Properties

\* An object that make holds for up to date was compiled with the values that
\* autoconf.h has now, whenever no tool runs: after crashes of conf between any
\* two files and of make before fixdep's mv.  Not claimed of an object that was
\* compiled between the renames of autoconf.h and of auto.conf (confdata.c:1096).
NoStaleObject ==
  pc = "idle" =>
    \A o \in Objects : UpToDate(o) /\ ~obj[o].torn => obj[o].vals = ValuesSeen(o)

\* The configuration that was saved last is complete on disk at every moment of
\* the next save, as .config or as .config.old (conf_write).
ConfigSurvives == saved # NoFile => saved \in {config, config_old}
============================================================================
