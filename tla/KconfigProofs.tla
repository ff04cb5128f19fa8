--------------------------- MODULE KconfigProofs ---------------------------
(***************************************************************************)
(* Proofs about the files between conf, fixdep and make, for any symbols,  *)
(* values, objects and dependencies and any number of crashes, and about   *)
(* the dialogs of menuconfig.                                              *)
(***************************************************************************)
EXTENDS KconfigBuild, Lxdialog, SequenceTheorems, WellFoundedInduction, TLAPS

BuildSpec == BuildState /\ [][BuildNext]_buildVars

-----------------------------------------------------------------------------
(* The configuration.                                                      *)

\* The configuration saved last is .config, or .config.old while there is no
\* .config: .config.old is overwritten only when .config is not lost by that.
SavedOnDisk ==
  saved # NoFile => saved = config \/ (config = NoFile /\ saved = config_old)

\* At every moment of a save the configuration that was saved before is
\* complete on disk (conf_write).
THEOREM ConfigIsKept == BuildSpec => []ConfigSurvives
<1>1. BuildState => SavedOnDisk
  BY DEF BuildState, SavedOnDisk
<1>2. SavedOnDisk /\ [BuildNext]_buildVars => SavedOnDisk'
  <2> SUFFICES ASSUME SavedOnDisk, [BuildNext]_buildVars PROVE SavedOnDisk'
    OBVIOUS
  <2>1. CASE conf_write_same
    BY <2>1 DEF conf_write_same, SavedOnDisk
  <2>2. CASE conf_write_old
    BY <2>2 DEF conf_write_old, SavedOnDisk
  <2>3. CASE conf_write_new
    BY <2>3 DEF conf_write_new, SavedOnDisk
  <2>4. CASE UNCHANGED configVars
    BY <2>4 DEF configVars, SavedOnDisk
  <2>5. QED BY <2>1, <2>2, <2>3, <2>4 DEF BuildNext, StartTool, conf_touch_dep, rename_autoconf,
               rename_auto, Crash, compile, buildVars, configVars
<1>3. SavedOnDisk => ConfigSurvives
  BY DEF SavedOnDisk, ConfigSurvives
<1>4. QED BY <1>1, <1>2, <1>3, PTL DEF BuildSpec

-----------------------------------------------------------------------------
(* The objects.                                                            *)

Places == {"idle", "write", "rename", "touch", "auto"}

\* Nothing in auto.conf or in the header says n.
BuildType ==
  /\ pc \in Places /\ (pc # "idle" => goal \in Configs)
  /\ newer \in [Objects -> SUBSET (Symbols \cup {Header})]
  /\ obj = [o \in Objects |-> obj[o]]
  /\ todo \subseteq Symbols
  /\ \A s \in Symbols : AutoOf(auto)[s] # "n"

\* In the phases of conf_write_autoconf what differs from auto.conf is newer
\* than every object, but for what is still to be touched; then the header has
\* the new values.
Announced ==
  /\ pc = "touch" => \A o \in Objects : Touched(goal, auto) \ todo \subseteq newer[o]
  /\ pc = "auto" => /\ \A o \in Objects : Touched(goal, auto) \subseteq newer[o]
                    /\ autoconf = HeaderOf(goal)

\* An object that the header is not newer than has the values of the header.  One
\* that was not compiled between the two renames has, of every symbol not touched
\* since, the value that the header has and the one that auto.conf has.
Compiled(o) ==
  /\ obj[o].vals = [s \in Uses[o] |-> obj[o].vals[s]]
  /\ Header \notin newer[o] => \A s \in Uses[o] : obj[o].vals[s] = autoconf[s]
  /\ ~obj[o].torn =>
       \A s \in Uses[o] \ newer[o] :
         obj[o].vals[s] = autoconf[s] /\ obj[o].vals[s] = AutoOf(auto)[s]

BuildInv ==
  /\ BuildType /\ Announced
  /\ \A o \in Objects : obj[o] # NoFile => Compiled(o)

\* A symbol that need not be touched looks as it does in auto.conf.
LEMMA UntouchedIsSame ==
  ASSUME BuildType, NEW c, NEW s \in Symbols, s \notin Touched(c, auto)
  PROVE  HeaderOf(c)[s] = AutoOf(auto)[s]
BY DEF Touched, HeaderOf, Seen, BuildType, Absent

LEMMA HeaderType ==
  ASSUME NEW c \in Configs
  PROVE  /\ HeaderOf(c) # NoFile
         /\ \A s \in Symbols : HeaderOf(c)[s] # "n"
<1>1. \A s \in Symbols : c[s] \in UNION {Values[x] : x \in Symbols}
  BY DEF Configs
<1>2. HeaderOf(c) \in [Symbols -> (UNION {Values[s] : s \in Symbols}) \cup {"absent"}]
  BY <1>1 DEF HeaderOf, Seen, Absent
<1>3. QED BY <1>2, BuildAssumption DEF HeaderOf, Seen, Absent

LEMMA BuildInvInit == BuildState => BuildInv
<1> SUFFICES ASSUME BuildState PROVE BuildInv
  OBVIOUS
<1>1. BuildType
  BY DEF BuildState, BuildType, Places, AutoOf, Absent
<1>2. Announced /\ \A o \in Objects : obj[o] = NoFile
  BY DEF BuildState, Announced
<1>3. QED BY <1>1, <1>2 DEF BuildInv

\* What the files hold and what is newer than an object stays.
LEMMA FilesKept ==
  ASSUME BuildInv, UNCHANGED <<treeVars, obj>>
  PROVE  \A o \in Objects : obj'[o] # NoFile => Compiled(o)'
BY DEF BuildInv, Compiled, treeVars, AutoOf

\* Files that become newer than the objects.
LEMMA TouchedKept ==
  ASSUME BuildInv, UNCHANGED <<auto, autoconf, obj>>, NEW f \in Symbols \cup {Header},
         newer' = [o \in Objects |-> newer[o] \cup {f}]
  PROVE  /\ newer' \in [Objects -> SUBSET (Symbols \cup {Header})]
         /\ \A o \in Objects : newer[o] \subseteq newer'[o]
         /\ \A o \in Objects : obj'[o] # NoFile => Compiled(o)'
<1>1. \A o \in Objects : newer'[o] = newer[o] \cup {f}
  OBVIOUS
<1>2. newer' \in [Objects -> SUBSET (Symbols \cup {Header})]
  BY DEF BuildInv, BuildType
<1>3. QED BY <1>1, <1>2 DEF BuildInv, Compiled, AutoOf

LEMMA BuildInvNext == BuildInv /\ [BuildNext]_buildVars => BuildInv'
<1> SUFFICES ASSUME BuildInv, [BuildNext]_buildVars PROVE BuildInv'
  OBVIOUS
<1>1. ASSUME NEW t, NEW c \in Configs, StartTool(t, c) PROVE BuildInv'
  <2>1. BuildType' /\ Announced'
    BY <1>1 DEF StartTool, BuildInv, BuildType, Announced, Places, treeVars, AutoOf
  <2>2. QED BY <1>1, <2>1, FilesKept DEF StartTool, BuildInv
<1>2. CASE conf_write_same \/ conf_write_new
  <2>1. pc # "idle" /\ UNCHANGED <<treeVars, obj>> /\ AfterWrite
    BY <1>2 DEF conf_write_same, conf_write_new
  <2>2. BuildType'
    BY <2>1 DEF AfterWrite, Done, BuildInv, BuildType, Places, treeVars, AutoOf, Touched
  <2>3. Announced'
    <3>1. CASE ~WritesAuto /\ Done
      BY <3>1 DEF Done, Announced
    <3>2. CASE pc' = "touch" /\ todo' = Touched(goal, auto) /\ UNCHANGED goal
      BY <2>1, <3>2 DEF Announced, Touched, AutoOf, treeVars
    <3>3. QED BY <2>1, <3>1, <3>2 DEF AfterWrite
  <2>4. QED BY <2>1, <2>2, <2>3, FilesKept DEF BuildInv
<1>3. CASE conf_write_old
  <2>1. BuildType' /\ Announced'
    BY <1>3 DEF conf_write_old, BuildInv, BuildType, Announced, Places, treeVars, AutoOf
  <2>2. QED BY <1>3, <2>1, FilesKept DEF conf_write_old, BuildInv
<1>4. ASSUME NEW s \in Symbols, conf_touch_dep(s) PROVE BuildInv'
  <2>1. newer' = [o \in Objects |-> newer[o] \cup {s}] /\ UNCHANGED <<auto, autoconf, obj, pc, goal>>
    BY <1>4 DEF conf_touch_dep
  <2>2. /\ newer' \in [Objects -> SUBSET (Symbols \cup {Header})]
        /\ \A o \in Objects : obj'[o] # NoFile => Compiled(o)'
    BY <2>1, TouchedKept
  <2>3. BuildType'
    BY <1>4, <2>1, <2>2 DEF conf_touch_dep, BuildInv, BuildType, AutoOf
  <2>4. Announced'
    BY <1>4, <2>1 DEF conf_touch_dep, BuildInv, Announced, Touched, AutoOf
  <2>5. QED BY <2>2, <2>3, <2>4 DEF BuildInv
<1>5. CASE rename_autoconf
  <2>1. /\ pc = "touch" /\ todo = {} /\ pc' = "auto" /\ autoconf' = HeaderOf(goal)
        /\ newer' = [o \in Objects |-> newer[o] \cup {Header}]
        /\ UNCHANGED <<auto, obj, goal, todo>>
    BY <1>5 DEF rename_autoconf
  <2>2. \A o \in Objects : newer'[o] = newer[o] \cup {Header}
    BY <2>1
  <2>3. \A o \in Objects : Touched(goal, auto) \subseteq newer[o]
    BY <2>1 DEF BuildInv, Announced
  <2>4. BuildType'
    <3>1. newer' \in [Objects -> SUBSET (Symbols \cup {Header})]
      BY <2>1 DEF BuildInv, BuildType
    <3>2. QED BY <2>1, <3>1 DEF BuildInv, BuildType, Places, AutoOf
  <2>5. Announced'
    BY <2>1, <2>2, <2>3 DEF Announced, Touched, AutoOf, HeaderOf
  <2>6. ASSUME NEW o \in Objects, obj[o] # NoFile PROVE Compiled(o)'
    <3>1. Compiled(o) BY <2>6 DEF BuildInv
    <3>2. \A s \in Uses[o] : s \in Symbols BY BuildAssumption
    <3>3. \A s \in Uses[o] \ newer'[o] : HeaderOf(goal)[s] = AutoOf(auto)[s]
      BY <2>2, <2>3, <3>2, UntouchedIsSame DEF BuildInv
    <3>4. QED BY <2>1, <2>2, <3>1, <3>3 DEF Compiled, AutoOf
  <2>7. QED BY <2>1, <2>4, <2>5, <2>6 DEF BuildInv
<1>6. CASE rename_auto
  <2>1. /\ pc = "auto" /\ autoconf = HeaderOf(goal) /\ auto' = autoconf /\ goal \in Configs
        /\ UNCHANGED <<autoconf, newer, obj>> /\ Done
    BY <1>6 DEF rename_auto, BuildInv, Announced, BuildType
  <2>2. AutoOf(auto)' = autoconf
    BY <2>1, HeaderType DEF AutoOf
  <2>3. BuildType'
    BY <2>1, <2>2, HeaderType DEF BuildInv, BuildType, Places, Done
  <2>4. Announced'
    BY <2>1 DEF Announced, Done
  <2>5. ASSUME NEW o \in Objects, obj[o] # NoFile PROVE Compiled(o)'
    <3>1. Compiled(o) BY <2>5 DEF BuildInv
    <3>2. QED BY <2>1, <2>2, <3>1 DEF Compiled
  <2>6. QED BY <2>1, <2>3, <2>4, <2>5 DEF BuildInv
<1>7. CASE Crash
  <2>1. BuildType' /\ Announced'
    BY <1>7 DEF Crash, Done, BuildInv, BuildType, Announced, Places, treeVars, AutoOf
  <2>2. QED BY <1>7, <2>1, FilesKept DEF Crash, BuildInv
<1>8. ASSUME NEW o \in Objects, NEW deps, compile(o, deps) PROVE BuildInv'
  <2>1. /\ pc = "idle" /\ pc' = "idle" /\ autoconf # NoFile
        /\ UNCHANGED <<auto, autoconf, goal, todo>>
        /\ newer' = [newer EXCEPT ![o] = {}]
    BY <1>8 DEF compile
  <2>2. obj' = [obj EXCEPT ![o] = [vals |-> ValuesSeen(o), deps |-> deps, torn |-> auto # autoconf]]
    BY <1>8 DEF compile
  <2>3. BuildType'
    BY <2>1, <2>2 DEF BuildInv, BuildType, AutoOf
  <2>4. Announced'
    BY <2>1 DEF Announced
  <2>5. ASSUME NEW p \in Objects, obj'[p] # NoFile PROVE Compiled(p)'
    <3>1. CASE p = o
      <4>1. obj'[p] = [vals |-> ValuesSeen(o), deps |-> deps, torn |-> auto # autoconf]
        BY <2>2, <3>1 DEF BuildInv, BuildType
      <4>2. obj'[p].vals = [s \in Uses[p] |-> autoconf[s]] /\ obj'[p].torn = (auto # autoconf)
        BY <3>1, <4>1 DEF ValuesSeen
      <4>3. ~obj'[p].torn => AutoOf(auto) = autoconf
        BY <2>1, <4>2 DEF AutoOf
      <4>4. QED BY <2>1, <4>2, <4>3 DEF Compiled, AutoOf
    <3>2. CASE p # o
      <4>1. obj'[p] = obj[p] /\ newer'[p] = newer[p]
        BY <2>1, <2>2, <3>2 DEF BuildInv, BuildType
      <4>2. Compiled(p) BY <2>5, <4>1 DEF BuildInv
      <4>3. QED BY <2>1, <4>1, <4>2 DEF Compiled, AutoOf
    <3>3. QED BY <3>1, <3>2
  <2>6. QED BY <2>3, <2>4, <2>5 DEF BuildInv
<1>9. CASE UNCHANGED buildVars
  <2>1. BuildType' /\ Announced'
    BY <1>9 DEF buildVars, BuildInv, BuildType, Announced, AutoOf, Touched, HeaderOf
  <2>2. QED BY <1>9, <2>1, FilesKept DEF buildVars, treeVars, BuildInv
<1>10. QED BY <1>1, <1>2, <1>3, <1>4, <1>5, <1>6, <1>7, <1>8, <1>9 DEF BuildNext

\* An object that make holds for up to date has the values of the header when no
\* tool runs, if it was not compiled between the two renames, after any number of
\* crashes (conf_touch_deps, conf_write_autoconf, fixdep).
THEOREM NoObjectIsStale == BuildSpec => []NoStaleObject
<1>1. BuildInv => NoStaleObject
  <2> SUFFICES ASSUME BuildInv, NEW o \in Objects, UpToDate(o), ~obj[o].torn
               PROVE  obj[o].vals = ValuesSeen(o)
    BY DEF NoStaleObject
  <2>1. Compiled(o) BY DEF BuildInv, UpToDate
  <2>2. \A s \in Uses[o] : obj[o].vals[s] = autoconf[s]
    <3>1. CASE obj[o].deps = "raw"
      BY <2>1, <3>1 DEF UpToDate, Deps, Compiled
    <3>2. CASE obj[o].deps # "raw"
      BY <2>1, <3>2 DEF UpToDate, Deps, Compiled
    <3>3. QED BY <3>1, <3>2
  <2>3. QED BY <2>1, <2>2 DEF Compiled, ValuesSeen
<1>2. QED BY <1>1, BuildInvInit, BuildInvNext, PTL DEF BuildSpec

-----------------------------------------------------------------------------
(* The dialogs of menuconfig, for any lists, letters, texts, strings and   *)
(* sizes of the window.                                                    *)

DialogSpec == DialogInit /\ [][DialogNext]_<<box, resized>>

\* What a key leaves alone unless it chooses a button or opens a dialog.
SameButton(a, b) == a.is = b.is /\ a.button = b.button /\ a.lit = b.lit

----------------------------------------------------------------------------
(* The input line. *)

InputSet == [is : {"input"}, str : Seq(Chars), pos : Nat, show : Nat, x : Nat, button : -1 .. 1,
             lit : 0 .. 1, field : [0 .. (Width - 1) -> Chars \cup {" "}]]
ShownAt(str, show, i) == IF show + i < Len(str) THEN str[show + i + 1] ELSE " "
Line(str, show) == [i \in 0 .. (Width - 1) |-> ShownAt(str, show, i)]
InputShown(b) ==
  /\ b.x \in 0 .. (Width - 1) /\ b.pos = b.show + b.x /\ b.pos <= Len(b.str)
  /\ b.field = Line(b.str, b.show)
InputInv(b) == b \in InputSet /\ InputShown(b)

LEMMA InputIs ==
  ASSUME NEW b, InputInv(b)
  PROVE  b.is = "input"
BY DEF InputInv, InputSet

LEMMA SizesAre ==
  Width \in Nat /\ Width > 0 /\ ListHeight \in Nat /\ ListHeight > 0 /\ BoxHeight \in Nat /\ BoxHeight > 0
BY LxdialogAssumption

InputBox(str, pos, show, x, button, lit, field) ==
  [is |-> "input", str |-> str, pos |-> pos, show |-> show, x |-> x, button |-> button, lit |-> lit, field |-> field]
MovedTo(b, pos, show, x) == [b EXCEPT !.pos = pos, !.show = show, !.x = x]
FieldSet(b, f) == [b EXCEPT !.field = f]
StringSet(b, s) == [b EXCEPT !.str = s]
\* The field is blank where the k-th place and later ones of the string would be.
BlankAfter(field, show, k) == \A i \in 0 .. (Width - 1) : show + i > k => field[i] = " "

LEMMA InputUpdates ==
  ASSUME NEW str, NEW pos, NEW show, NEW x, NEW button, NEW lit, NEW field,
         NEW p, NEW s, NEW c, NEW f, NEW t, NEW b, b = InputBox(str, pos, show, x, button, lit, field)
  PROVE  /\ MovedTo(b, p, s, c) = InputBox(str, p, s, c, button, lit, field)
         /\ FieldSet(b, f) = InputBox(str, pos, show, x, button, lit, f)
         /\ StringSet(b, t) = InputBox(t, pos, show, x, button, lit, field)
<1>1. MovedTo(b, p, s, c) = InputBox(str, p, s, c, button, lit, field)
  <2> DEFINE a == MovedTo(b, p, s, c)
  <2>1. a = [b EXCEPT !.pos = p, !.show = s, !.x = c]
    BY DEF MovedTo
  <2> HIDE DEF a
  <2>2. a = InputBox(str, p, s, c, button, lit, field)
    BY <2>1 DEF InputBox
  <2> QED
    BY <2>2 DEF a
<1>2. FieldSet(b, f) = InputBox(str, pos, show, x, button, lit, f)
  BY DEF InputBox, FieldSet
<1>3. StringSet(b, t) = InputBox(t, pos, show, x, button, lit, field)
  BY DEF InputBox, StringSet
<1> QED
  BY <1>1, <1>2, <1>3

LEMMA InputFields ==
  ASSUME NEW str, NEW pos, NEW show, NEW x, NEW button, NEW lit, NEW field,
         NEW b, b = InputBox(str, pos, show, x, button, lit, field)
  PROVE  /\ b.str = str /\ b.pos = pos /\ b.show = show /\ b.x = x /\ b.button = button /\ b.lit = lit
         /\ b.field = field /\ b.is = "input"
BY DEF InputBox

LEMMA Ordered == \A a \in Int, b \in Int : a < b \/ a = b \/ a > b
  OBVIOUS

\* A line with these fields and every character where it belongs.
LEMMA LineShown ==
  ASSUME NEW str \in Seq(Chars), NEW pos \in Nat, NEW show \in Nat, NEW x \in 0 .. (Width - 1),
         NEW button \in -1 .. 1, NEW lit \in 0 .. 1, pos = show + x, pos <= Len(str)
  PROVE  LET b == InputBox(str, pos, show, x, button, lit, Line(str, show))
         IN  InputInv(b) /\ b.is = "input" /\ b.button = button /\ b.lit = lit
<1> DEFINE b == InputBox(str, pos, show, x, button, lit, Line(str, show))
<1>1. ASSUME NEW i \in 0 .. (Width - 1) PROVE ShownAt(str, show, i) \in Chars \cup {" "}
  <2>1. CASE show + i < Len(str)
    <3>1. show + i + 1 \in 1 .. Len(str)
      BY <2>1, SizesAre, LenProperties
    <3>2. str[show + i + 1] \in Chars
      BY <3>1, ElementOfSeq
    <3> QED
      BY <2>1, <3>2 DEF ShownAt
  <2>2. CASE ~(show + i < Len(str))
    BY <2>2 DEF ShownAt
  <2> QED
    BY <2>1, <2>2
<1>2. Line(str, show) \in [0 .. (Width - 1) -> Chars \cup {" "}]
  BY <1>1 DEF Line
<1>3. x \in Nat
  BY SizesAre
<1>4. b \in InputSet
  BY <1>2, <1>3 DEF InputSet, InputBox
<1> QED
  BY <1>4 DEF InputInv, InputShown, InputBox

\* A line that is drawn shows the end of the string.
LEMMA Draws ==
  ASSUME NEW str \in Seq(Chars), NEW button \in -1 .. 1, NEW pos, NEW show, NEW x, NEW lit, NEW field
  PROVE  LET a == InputDrawn(InputBox(str, pos, show, x, button, lit, field))
         IN  InputInv(a) /\ a.is = "input" /\ a.button = button /\ a.lit = 0
<1> DEFINE b == InputBox(str, pos, show, x, button, lit, field)
           len == Len(str)
           s == Most(len - Width + 1, 0)
           d == len - s
           z == 0
           f == Line(str, s)
           a == InputDrawn(b)
<1>0. b.str = str
  BY DEF InputBox
<1>1. a = [b EXCEPT !.pos = len, !.show = s, !.x = d, !.lit = z, !.field = f]
  BY <1>0 DEF InputDrawn, Line, ShownAt
<1>2. len \in Nat /\ s \in Nat /\ d \in 0 .. (Width - 1) /\ z \in 0 .. 1 /\ len = s + d /\ z = 0
  BY SizesAre, LenProperties DEF Most
<1>4. len <= Len(str) /\ f = Line(str, s)
  BY <1>2
<1> HIDE DEF s, d, z, len, f
<1>3. a = InputBox(str, len, s, d, button, z, f)
  <2> HIDE DEF a
  <2> QED
    BY <1>1 DEF InputBox
<1> QED
  BY <1>2, <1>3, <1>4, LineShown

\* Printing the field again leaves what is past the string and one space, and
\* that is blank already.
LEMMA Reprints ==
  ASSUME NEW str \in Seq(Chars), NEW pos \in Nat, NEW show \in Nat, NEW x \in 0 .. (Width - 1),
         NEW button \in -1 .. 1, NEW lit \in 0 .. 1, pos = show + x, pos <= Len(str), NEW field,
         BlankAfter(field, show, Len(str)),
         NEW b, b = InputBox(str, pos, show, x, button, lit, field)
  PROVE  InputInv(Reprinted(b)) /\ SameButton(Reprinted(b), b)
<1> DEFINE Cell(i) == IF b.show + i < Len(b.str) THEN b.str[b.show + i + 1]
                      ELSE IF b.show + i = Len(b.str) THEN " " ELSE b.field[i]
           f == [i \in 0 .. (Width - 1) |-> Cell(i)]
<1>1. Reprinted(b) = FieldSet(b, f)
  BY DEF Reprinted, FieldSet
<1>0. b.str = str /\ b.show = show /\ b.field = field
  BY InputFields
<1>2. ASSUME NEW i \in 0 .. (Width - 1) PROVE Cell(i) = ShownAt(str, show, i)
  <2>1. show + i \in Int /\ Len(str) \in Int
    BY SizesAre, LenProperties
  <2>2. show + i < Len(str) \/ show + i = Len(str) \/ show + i > Len(str)
    BY <2>1, Ordered
  <2>3. CASE show + i < Len(str)
    BY <1>0, <2>3 DEF ShownAt
  <2>4. CASE show + i = Len(str)
    BY <1>0, <2>1, <2>4 DEF ShownAt
  <2>5. CASE show + i > Len(str)
    BY <1>0, <2>1, <2>5 DEF ShownAt, BlankAfter
  <2> QED
    BY <2>2, <2>3, <2>4, <2>5
<1> HIDE DEF Cell
<1>3. f = Line(str, show)
  BY <1>2 DEF Line
<1> HIDE DEF f
<1>4. Reprinted(b) = InputBox(str, pos, show, x, button, lit, Line(str, show))
  BY <1>1, <1>3, InputUpdates
<1>5. b.is = "input" /\ b.button = button /\ b.lit = lit
  BY InputFields
<1> QED
  BY <1>4, <1>5, LineShown DEF SameButton

LEMMA FieldsOf ==
  ASSUME NEW b, InputInv(b)
  PROVE  /\ b.str \in Seq(Chars) /\ b.pos \in Nat /\ b.show \in Nat /\ b.x \in 0 .. (Width - 1)
         /\ b.button \in -1 .. 1 /\ b.lit \in 0 .. 1 /\ b.pos = b.show + b.x /\ b.pos <= Len(b.str)
         /\ Len(b.str) \in Nat /\ b.field = Line(b.str, b.show)
         /\ b = InputBox(b.str, b.pos, b.show, b.x, b.button, b.lit, b.field)
<1>1. b \in InputSet /\ InputShown(b)
  BY DEF InputInv
<1>2. b.str \in Seq(Chars) /\ b = InputBox(b.str, b.pos, b.show, b.x, b.button, b.lit, b.field)
  BY <1>1 DEF InputSet, InputBox
<1> QED
  BY <1>1, <1>2, LenProperties DEF InputSet, InputShown

\* What is past the string is blank, seen from one place more or less.
LEMMA BlankPast ==
  ASSUME NEW b, InputInv(b), NEW show \in Nat, NEW len \in Nat, show + Len(b.str) <= b.show + len + 1
  PROVE  BlankAfter(b.field, show, len)
<1>1. b.show \in Nat /\ Len(b.str) \in Nat /\ b.field = Line(b.str, b.show)
  BY FieldsOf
<1>2. ASSUME NEW i \in 0 .. (Width - 1), show + i > len PROVE b.field[i] = " "
  <2>1. b.show + i >= Len(b.str) /\ b.show + i \in Int
    <3> DEFINE m == b.show
               n == Len(b.str)
    <3>1. m \in Nat /\ n \in Nat /\ i \in Nat /\ show + n <= m + len + 1 /\ show + i > len
      BY <1>1, <1>2, SizesAre
    <3> HIDE DEF m, n
    <3>2. m + i >= n
      BY <3>1
    <3> QED
      BY <3>1, <3>2 DEF m, n
  <2>2. b.field[i] = ShownAt(b.str, b.show, i)
    BY <1>1 DEF Line
  <2>3. ~(b.show + i < Len(b.str))
    BY <1>1, <2>1
  <2> QED
    BY <2>2, <2>3 DEF ShownAt
<1> QED
  BY <1>2 DEF BlankAfter

\* Where the cursor is after one place back or on.
LEMMA GoesBack ==
  ASSUME NEW b, InputInv(b), b.pos > 0
  PROVE  \E pos \in Nat, show \in Nat, x \in 0 .. (Width - 1) :
           /\ pos = b.pos - 1 /\ pos = show + x /\ show <= b.show /\ show >= b.show - 1
           /\ CursorBack(b) = InputBox(b.str, pos, show, x, b.button, b.lit, b.field)
<1> DEFINE p == b.pos - 1
           s == IF b.x = 0 THEN b.show - 1 ELSE b.show
           x == IF b.x = 0 THEN 0 ELSE b.x - 1
<1>1. CursorBack(b) = MovedTo(b, p, s, x)
  BY DEF CursorBack, MovedTo
<1>2. p \in Nat /\ s \in Nat /\ x \in 0 .. (Width - 1) /\ p = s + x /\ s <= b.show /\ s >= b.show - 1
      /\ p = b.pos - 1
  <2>1. b.pos \in Nat /\ b.show \in Nat /\ b.x \in Nat /\ b.x <= Width - 1 /\ b.pos = b.show + b.x
    BY FieldsOf, SizesAre
  <2>2. CASE b.x = 0
    BY <2>1, <2>2, SizesAre
  <2>3. CASE b.x # 0
    BY <2>1, <2>3, SizesAre
  <2> QED
    BY <2>2, <2>3
<1> HIDE DEF p, s, x
<1>3. b = InputBox(b.str, b.pos, b.show, b.x, b.button, b.lit, b.field)
  BY FieldsOf
<1>4. MovedTo(b, p, s, x) = InputBox(b.str, p, s, x, b.button, b.lit, b.field)
  BY <1>3, InputUpdates
<1>5. CursorBack(b) = InputBox(b.str, p, s, x, b.button, b.lit, b.field)
  BY <1>1, <1>4
<1> QED
  BY <1>2, <1>5

LEMMA GoesOn ==
  ASSUME NEW b, InputInv(b)
  PROVE  \E pos \in Nat, show \in Nat, x \in 0 .. (Width - 1) :
           /\ pos = b.pos + 1 /\ pos = show + x /\ show >= b.show /\ show <= b.show + 1
           /\ CursorOn(b) = InputBox(b.str, pos, show, x, b.button, b.lit, b.field)
<1> DEFINE p == b.pos + 1
           s == IF b.x = Width - 1 THEN b.show + 1 ELSE b.show
           x == IF b.x = Width - 1 THEN b.x ELSE b.x + 1
<1>1. CursorOn(b) = MovedTo(b, p, s, x)
  BY DEF CursorOn, MovedTo
<1>2. p \in Nat /\ s \in Nat /\ x \in 0 .. (Width - 1) /\ p = s + x /\ s >= b.show /\ s <= b.show + 1
      /\ p = b.pos + 1
  <2>1. b.pos \in Nat /\ b.show \in Nat /\ b.x \in Nat /\ b.x <= Width - 1 /\ b.pos = b.show + b.x
    BY FieldsOf, SizesAre
  <2>2. CASE b.x = Width - 1
    BY <2>1, <2>2, SizesAre
  <2>3. CASE b.x # Width - 1
    BY <2>1, <2>3, SizesAre
  <2> QED
    BY <2>2, <2>3
<1> HIDE DEF p, s, x
<1>3. b = InputBox(b.str, b.pos, b.show, b.x, b.button, b.lit, b.field)
  BY FieldsOf
<1>4. MovedTo(b, p, s, x) = InputBox(b.str, p, s, x, b.button, b.lit, b.field)
  BY <1>3, InputUpdates
<1>5. CursorOn(b) = InputBox(b.str, p, s, x, b.button, b.lit, b.field)
  BY <1>1, <1>4
<1> QED
  BY <1>2, <1>5

\* An arrow: the field is printed only when it moves, and is right without.
LEMMA ArrowShows ==
  ASSUME NEW b, InputInv(b), NEW pos \in Nat, NEW show \in Nat, NEW x \in 0 .. (Width - 1),
         pos = show + x, pos <= Len(b.str), show <= b.show + 1, NEW a,
         a = InputBox(b.str, pos, show, x, b.button, b.lit, b.field)
  PROVE  InputInv(Arrow(b, a)) /\ SameButton(Arrow(b, a), b)
<1>00. SameButton(a, b)
  BY InputFields, InputIs DEF SameButton
<1>0. b.str \in Seq(Chars) /\ b.button \in -1 .. 1 /\ b.lit \in 0 .. 1 /\ Len(b.str) \in Nat /\ b.show \in Nat
      /\ b.field = Line(b.str, b.show)
  BY FieldsOf
<1>1. CASE show = b.show
  <2>1. Arrow(b, a) = a
    BY <1>1, InputFields DEF Arrow
  <2>2. b.field = Line(b.str, show)
    BY <1>0, <1>1
  <2>3. InputInv(a)
    BY <1>0, <2>2, LineShown
  <2> QED
    BY <1>00, <2>1, <2>3
<1>2. CASE show # b.show
  <2>1. Arrow(b, a) = Reprinted(a)
    BY <1>2, InputFields DEF Arrow
  <2>2. show + Len(b.str) <= b.show + Len(b.str) + 1
    BY <1>0
  <2>3. BlankAfter(b.field, show, Len(b.str))
    BY <1>0, <2>2, BlankPast
  <2>4. InputInv(Reprinted(a)) /\ SameButton(Reprinted(a), a)
    BY <1>0, <2>3, Reprints
  <2> QED
    BY <1>00, <2>1, <2>4 DEF SameButton
<1> QED
  BY <1>1, <1>2

ButtonSet(b, to, lit) == [b EXCEPT !.button = to, !.lit = lit]

LEMMA ButtonUpdates ==
  ASSUME NEW str, NEW pos, NEW show, NEW x, NEW button, NEW lit, NEW field,
         NEW p, NEW l, NEW b, b = InputBox(str, pos, show, x, button, lit, field)
  PROVE  ButtonSet(b, p, l) = InputBox(str, pos, show, x, p, l, field)
<1> DEFINE a == ButtonSet(b, p, l)
<1>1. a = [b EXCEPT !.button = p, !.lit = l]
  BY DEF ButtonSet
<1> HIDE DEF a
<1>2. a = InputBox(str, pos, show, x, p, l, field)
  BY <1>1 DEF InputBox
<1> QED
  BY <1>2 DEF a

\* A line that is asked for.
LEMMA Opens ==
  ASSUME NEW str \in Seq(Chars)
  PROVE  InputInv(InputOf(str)) /\ InputOf(str).lit = ActedOn(InputOf(str))
<1>1. InputOf(str) = InputDrawn(InputBox(str, 0, 0, 0, -1, 0, <<>>))
  BY DEF InputOf, InputBox
<1> DEFINE first == -1
           zero == 0
           b == InputDrawn(InputBox(str, zero, zero, zero, first, zero, <<>>))
<1>2. first \in -1 .. 1 /\ first = -1
  OBVIOUS
<1> HIDE DEF first
<1>3. InputInv(b) /\ b.is = "input" /\ b.button = first /\ b.lit = 0
  BY <1>2, Draws
<1>4. InputOf(str) = b
  BY <1>1, <1>2
<1> QED
  BY <1>2, <1>3, <1>4 DEF ActedOn

Without(str, pos) == SubSeq(str, 1, pos - 1) \o SubSeq(str, pos + 1, Len(str))
With(str, pos, c) == SubSeq(str, 1, pos) \o <<c>> \o SubSeq(str, pos + 1, Len(str))

LEMMA OneLess ==
  ASSUME NEW str \in Seq(Chars), NEW pos \in 1 .. Len(str)
  PROVE  Without(str, pos) \in Seq(Chars) /\ Len(Without(str, pos)) = Len(str) - 1
<1> DEFINE f == SubSeq(str, 1, pos - 1)
           g == SubSeq(str, pos + 1, Len(str))
<1>0. Len(str) \in Nat
  BY LenProperties
<1>1. f \in Seq(Chars) /\ Len(f) = pos - 1
  BY <1>0, SubSeqProperties
<1>2. g \in Seq(Chars) /\ Len(g) = Len(str) - pos
  BY <1>0, SubSeqProperties
<1> HIDE DEF f, g
<1>3. f \o g \in Seq(Chars) /\ Len(f \o g) = Len(f) + Len(g)
  BY <1>1, <1>2, ConcatProperties
<1>4. Without(str, pos) = f \o g
  BY DEF Without, f, g
<1>5. Len(f) + Len(g) = Len(str) - 1
  BY <1>0, <1>1, <1>2
<1> QED
  BY <1>3, <1>4, <1>5

LEMMA OneMore ==
  ASSUME NEW str \in Seq(Chars), NEW pos \in 0 .. Len(str), NEW c \in Chars
  PROVE  With(str, pos, c) \in Seq(Chars) /\ Len(With(str, pos, c)) = Len(str) + 1
<1> DEFINE f == SubSeq(str, 1, pos)
           g == SubSeq(str, pos + 1, Len(str))
           h == <<c>>
<1>0. Len(str) \in Nat
  BY LenProperties
<1>1. f \in Seq(Chars) /\ Len(f) = pos
  BY <1>0, SubSeqProperties
<1>2. g \in Seq(Chars) /\ Len(g) = Len(str) - pos
  BY <1>0, SubSeqProperties
<1>3. h \in Seq(Chars) /\ Len(h) = 1
  OBVIOUS
<1> HIDE DEF f, g, h
<1>4. f \o h \in Seq(Chars) /\ Len(f \o h) = Len(f) + Len(h)
  BY <1>1, <1>3, ConcatProperties
<1>5. (f \o h) \o g \in Seq(Chars) /\ Len((f \o h) \o g) = Len(f \o h) + Len(g)
  BY <1>2, <1>4, ConcatProperties
<1>6. With(str, pos, c) = (f \o h) \o g
  BY DEF With, f, g, h
<1>7. Len(f) + Len(h) + Len(g) = Len(str) + 1
  BY <1>0, <1>1, <1>2, <1>3
<1> QED
  BY <1>4, <1>5, <1>6, <1>7

\* A key that takes a character away or puts one in.
LEMMA StringChanges ==
  ASSUME NEW b, InputInv(b), NEW pos \in Nat, NEW show \in Nat, NEW x \in 0 .. (Width - 1),
         NEW t \in Seq(Chars), pos = show + x, pos <= Len(t), show + Len(b.str) <= b.show + Len(t) + 1, NEW a,
         a = InputBox(b.str, pos, show, x, b.button, b.lit, b.field)
  PROVE  InputInv(Reprinted(StringSet(a, t))) /\ SameButton(Reprinted(StringSet(a, t)), b)
<1>1. b.button \in -1 .. 1 /\ b.lit \in 0 .. 1 /\ Len(t) \in Nat
  BY FieldsOf, LenProperties
<1>2. BlankAfter(b.field, show, Len(t))
  BY <1>1, BlankPast
<1>3. StringSet(a, t) = InputBox(t, pos, show, x, b.button, b.lit, b.field)
  BY InputUpdates
<1> DEFINE d == StringSet(a, t)
<1> HIDE DEF d
<1>4. InputInv(Reprinted(d)) /\ SameButton(Reprinted(d), d)
  BY <1>1, <1>2, <1>3, Reprints DEF d
<1>5. SameButton(d, b)
  BY <1>3, InputFields, InputIs DEF SameButton, d
<1> QED
  BY <1>4, <1>5 DEF SameButton, d

\* How a key leaves the button of a dialog: as it was, as print_buttons has just
\* drawn it, or, after a resize, as it may be.
ButtonStep ==
  \/ resized' = resized /\ SameButton(box', box)
  \/ resized' = FALSE /\ box'.lit = ActedOn(box')
  \/ resized' = TRUE

LEMMA InputSteps ==
  ASSUME box.is = "input", InputInv(box), InputKey \/ InputAgain
  PROVE  InputInv(box') /\ ButtonStep
<1>0. /\ box.str \in Seq(Chars) /\ box.pos \in Nat /\ box.show \in Nat /\ box.pos <= Len(box.str)
      /\ Len(box.str) \in Nat /\ box.button \in -1 .. 1 /\ box.lit \in 0 .. 1 /\ box.x \in 0 .. (Width - 1)
      /\ box.pos = box.show + box.x /\ box.field = Line(box.str, box.show)
      /\ box = InputBox(box.str, box.pos, box.show, box.x, box.button, box.lit, box.field)
  BY FieldsOf
<1>00. box.pos \in Nat /\ box.show \in Nat /\ box.pos <= Len(box.str) /\ Len(box.str) \in Nat
  BY <1>0
<1>1. ASSUME box.pos > 0, box' = Backspace(box) PROVE InputInv(box') /\ SameButton(box', box)
  <2> DEFINE t == Without(box.str, box.pos)
  <2>1. t \in Seq(Chars) /\ Len(t) = Len(box.str) - 1
    <3>1. box.pos \in 1 .. Len(box.str)
      BY <1>0, <1>1
    <3> QED
      BY <1>0, <3>1, OneLess
  <2>2. box' = Reprinted(StringSet(CursorBack(box), t))
    BY <1>1 DEF Backspace, StringSet, Without
  <2> HIDE DEF t
  <2>3. PICK pos \in Nat, show \in Nat, x \in 0 .. (Width - 1) :
           /\ pos = box.pos - 1 /\ pos = show + x /\ show <= box.show /\ show >= box.show - 1
           /\ CursorBack(box) = InputBox(box.str, pos, show, x, box.button, box.lit, box.field)
    BY <1>1, GoesBack
  <2>4. pos <= Len(t) /\ show + Len(box.str) <= box.show + Len(t) + 1
    <3>1. Len(t) = Len(box.str) - 1
      BY <2>1
    <3>2. pos = box.pos - 1 /\ show <= box.show
      BY <2>3
    <3>3. pos <= Len(t)
      BY <1>00, <3>1, <3>2
    <3>4. show + Len(box.str) <= box.show + Len(box.str)
      BY <1>00, <3>2
    <3>5. Len(t) + 1 = Len(box.str)
      BY <1>00, <3>1
    <3>6. box.show + Len(t) + 1 = box.show + Len(box.str)
      BY <1>00, <3>1, <3>5
    <3> QED
      BY <3>3, <3>4, <3>6
  <2> QED
    BY <2>1, <2>2, <2>3, <2>4, StringChanges
<1>2. ASSUME box.pos > 0, box' = Arrow(box, CursorBack(box)) PROVE InputInv(box') /\ SameButton(box', box)
  <2>3. PICK pos \in Nat, show \in Nat, x \in 0 .. (Width - 1) :
           /\ pos = box.pos - 1 /\ pos = show + x /\ show <= box.show /\ show >= box.show - 1
           /\ CursorBack(box) = InputBox(box.str, pos, show, x, box.button, box.lit, box.field)
    BY <1>2, GoesBack
  <2>4. pos <= Len(box.str) /\ show <= box.show + 1
    <3>1. pos = box.pos - 1 /\ show <= box.show
      BY <2>3
    <3> QED
      BY <1>00, <3>1
  <2> QED
    BY <1>2, <2>3, <2>4, ArrowShows
<1>3. ASSUME box.pos < Len(box.str), box' = Arrow(box, CursorOn(box)) PROVE InputInv(box') /\ SameButton(box', box)
  <2>3. PICK pos \in Nat, show \in Nat, x \in 0 .. (Width - 1) :
           /\ pos = box.pos + 1 /\ pos = show + x /\ show >= box.show /\ show <= box.show + 1
           /\ CursorOn(box) = InputBox(box.str, pos, show, x, box.button, box.lit, box.field)
    BY GoesOn
  <2>4. pos <= Len(box.str) /\ show <= box.show + 1
    <3>1. pos = box.pos + 1 /\ show <= box.show + 1
      BY <2>3
    <3> QED
      BY <1>00, <1>3, <3>1
  <2> QED
    BY <1>3, <2>3, <2>4, ArrowShows
<1>4. ASSUME NEW c \in Chars, box' = Typed(box, c) PROVE InputInv(box') /\ SameButton(box', box)
  <2> DEFINE t == With(box.str, box.pos, c)
  <2>1. t \in Seq(Chars) /\ Len(t) = Len(box.str) + 1
    <3>1. box.pos \in 0 .. Len(box.str)
      BY <1>0
    <3> QED
      BY <1>0, <3>1, OneMore
  <2>2. box' = Reprinted(StringSet(CursorOn(box), t))
    BY <1>4 DEF Typed, StringSet, With
  <2> HIDE DEF t
  <2>3. PICK pos \in Nat, show \in Nat, x \in 0 .. (Width - 1) :
           /\ pos = box.pos + 1 /\ pos = show + x /\ show >= box.show /\ show <= box.show + 1
           /\ CursorOn(box) = InputBox(box.str, pos, show, x, box.button, box.lit, box.field)
    BY GoesOn
  <2>4. pos <= Len(t) /\ show + Len(box.str) <= box.show + Len(t) + 1
    <3>1. Len(t) = Len(box.str) + 1
      BY <2>1
    <3>2. pos = box.pos + 1 /\ show <= box.show + 1
      BY <2>3
    <3>3. Len(t) \in Nat
      BY <2>1, LenProperties
    <3>4. pos <= Len(t)
      BY <1>00, <3>1, <3>2
    <3>5. show + Len(box.str) <= box.show + 1 + Len(box.str)
      BY <1>00, <3>2
    <3> QED
      BY <1>00, <3>1, <3>3, <3>4, <3>5
  <2> QED
    BY <2>1, <2>2, <2>3, <2>4, StringChanges
<1>5. ASSUME NEW by \in {-1, 1}, box' = InputButton(box, by) PROVE InputInv(box') /\ box'.lit = ActedOn(box')
  <2> DEFINE to == IF box.button + by < -1 THEN 1 ELSE IF box.button + by > 1 THEN -1 ELSE box.button + by
             l == Most(to, 0)
  <2>1. to \in -1 .. 1 /\ l \in 0 .. 1
    BY <1>0 DEF Most
  <2>5. l = IF to = -1 THEN 0 ELSE to
    BY <2>1 DEF Most
  <2>2. box' = ButtonSet(box, to, l)
    BY <1>5 DEF InputButton, ButtonSet
  <2> HIDE DEF to, l
  <2>4. box = InputBox(box.str, box.pos, box.show, box.x, box.button, box.lit, box.field)
    BY <1>0
  <2>3. box' = InputBox(box.str, box.pos, box.show, box.x, to, l, box.field)
    BY <2>2, <2>4, ButtonUpdates
  <2>6. InputInv(box')
    BY <1>0, <2>1, <2>3, LineShown
  <2>7. box'.is = "input" /\ box'.button = to /\ box'.lit = l
    BY <2>3, InputFields
  <2> QED
    BY <2>5, <2>6, <2>7 DEF ActedOn
<1>6. ASSUME box' = InputDrawn(box) PROVE InputInv(box')
  BY <1>0, <1>6, Draws
<1>7. ASSUME InputAgain PROVE InputInv(box') /\ box'.lit = ActedOn(box')
  BY <1>0, <1>7, Opens DEF InputAgain
<1> QED
  BY <1>1, <1>2, <1>3, <1>4, <1>5, <1>6, <1>7 DEF InputKey, InputAgain, ButtonStep

----------------------------------------------------------------------------
(* Lists: a menu and a radio list. *)

Fields == {"is", "items", "height", "first", "scroll", "choice", "top", "button", "lit", "rows"}
IsList(b) == Fields \subseteq DOMAIN b /\ b.items \in Seq(Nat) /\ b.height \in Nat \ {0}
RowsOf(b) == 0 .. (max_choice(b) - 1)
RowSet == [item : Nat, lit : BOOLEAN]
\* The scroll and the highlight are in the list, and there is a row for each
\* item on the screen.
Placed(b) ==
  /\ IsList(b) /\ b.scroll \in Nat /\ b.choice \in Nat
  /\ b.scroll + max_choice(b) <= Len(b.items)
  /\ Len(b.items) > 0 => b.choice < max_choice(b)
  /\ b.rows \in [RowsOf(b) -> RowSet]
\* Row r shows its item, and is highlighted or not.
Cell(b, r, l) == [item |-> item_set(b, b.scroll + r), lit |-> l]
RowIs(b, r, l) == b.rows[r] = Cell(b, r, l)
Plain(b) == \A r \in RowsOf(b) : RowIs(b, r, FALSE)
Good(b)  == \A r \in RowsOf(b) : RowIs(b, r, r = b.choice)
\* What scrolling and moving the highlight leave alone.
Kept(a, b) == DOMAIN a = DOMAIN b /\ \A f \in DOMAIN b \ {"scroll", "choice", "rows"} : a[f] = b[f]

LEMMA KeptIs ==
  ASSUME NEW a, NEW b, Kept(a, b), IsList(b)
  PROVE  /\ IsList(a) /\ a.items = b.items /\ a.height = b.height /\ a.first = b.first /\ a.top = b.top
         /\ a.is = b.is /\ a.button = b.button /\ a.lit = b.lit
         /\ max_choice(a) = max_choice(b) /\ RowsOf(a) = RowsOf(b)
         /\ \A i : item_set(a, i) = item_set(b, i)
<1>1. /\ a.items = b.items /\ a.height = b.height /\ a.first = b.first /\ a.top = b.top
      /\ a.is = b.is /\ a.button = b.button /\ a.lit = b.lit /\ DOMAIN a = DOMAIN b
  BY DEF Kept, IsList, Fields
<1> QED
  BY <1>1 DEF IsList, max_choice, item_count, RowsOf, item_set

LEMMA KeptTwice ==
  ASSUME NEW a, NEW b, NEW d, Kept(a, b), Kept(b, d)
  PROVE  Kept(a, d)
BY DEF Kept

LEMMA MaxIs ==
  ASSUME NEW b, IsList(b)
  PROVE  /\ Len(b.items) \in Nat /\ max_choice(b) \in Nat /\ b.height \in Nat /\ b.height > 0
         /\ max_choice(b) <= Len(b.items) /\ max_choice(b) <= b.height
         /\ (Len(b.items) > 0 => max_choice(b) > 0)
         /\ (max_choice(b) < Len(b.items) => max_choice(b) = b.height)
<1>1. Len(b.items) \in Nat /\ b.height \in Nat /\ b.height > 0
  BY LenProperties DEF IsList
<1>2. max_choice(b) = IF b.height < Len(b.items) THEN b.height ELSE Len(b.items)
  BY DEF max_choice, item_count, Least
<1> QED
  BY <1>1, <1>2

LEMMA ItemIs ==
  ASSUME NEW b, IsList(b)
  PROVE  \A i \in Nat : item_set(b, i) \in Nat
<1>1. Len(b.items) \in Nat /\ b.items \in Seq(Nat) /\ b.height \in Nat /\ b.height > 0
  BY LenProperties DEF IsList
<1>2. ASSUME NEW i \in Nat PROVE item_set(b, i) \in Nat
  <2>1. CASE i < Len(b.items)
    <3>1. i + 1 \in 1 .. Len(b.items)
      BY <1>1, <2>1
    <3> QED
      BY <1>1, <2>1, <3>1, ElementOfSeq DEF item_set
  <2>2. CASE ~(i < Len(b.items))
    BY <2>2 DEF item_set, Null
  <2> QED
    BY <2>1, <2>2
<1> QED
  BY <1>2

LEMMA RowsAre ==
  ASSUME NEW b, Placed(b), NEW r \in RowsOf(b), NEW l \in BOOLEAN
  PROVE  r \in Nat /\ r < max_choice(b) /\ Cell(b, r, l) \in RowSet
<1>1. r \in Nat /\ r < max_choice(b) /\ b.scroll \in Nat
  BY MaxIs DEF Placed, RowsOf
<1>2. item_set(b, b.scroll + r) \in Nat
  <2>1. b.scroll + r \in Nat /\ IsList(b)
    BY <1>1 DEF Placed
  <2> QED
    BY <2>1, ItemIs
<1> QED
  BY <1>1, <1>2 DEF Cell, RowSet

\* A list with other scroll, highlight and rows.
LEMMA PlacedAgain ==
  ASSUME NEW a, NEW b, Kept(a, b), Placed(b), a.scroll \in Nat, a.choice \in Nat,
         a.scroll + max_choice(b) <= Len(b.items), Len(b.items) > 0 => a.choice < max_choice(b),
         a.rows \in [RowsOf(b) -> RowSet]
  PROVE  Placed(a)
BY KeptIs DEF Placed

RowsSet(b, rows) == [b EXCEPT !.rows = rows]
LEMMA Prints ==
  ASSUME NEW b, Placed(b), NEW y \in RowsOf(b), NEW i, i = b.scroll + y, NEW l \in BOOLEAN
  PROVE  LET a == print_item(b, i, y, l)
         IN  /\ Placed(a) /\ Kept(a, b) /\ a.scroll = b.scroll /\ a.choice = b.choice /\ RowIs(a, y, l)
             /\ \A r \in RowsOf(b) \ {y} : \A m \in BOOLEAN : RowIs(b, r, m) => RowIs(a, r, m)
<1> DEFINE a == print_item(b, i, y, l)
           rs == [b.rows EXCEPT ![y] = Cell(b, y, l)]
<1>0. Fields \subseteq DOMAIN b /\ IsList(b)
  BY DEF Placed, IsList
<1>1. a = RowsSet(b, rs)
  BY <1>0 DEF Fields, print_item, Cell, RowsSet
<1> HIDE DEF a
<1>2. Kept(a, b) /\ a.scroll = b.scroll /\ a.choice = b.choice /\ a.rows = rs
  BY <1>0, <1>1 DEF Fields, Kept, RowsSet
<1>3. b.rows \in [RowsOf(b) -> RowSet] /\ Cell(b, y, l) \in RowSet
  BY RowsAre DEF Placed
<1>4. rs \in [RowsOf(b) -> RowSet] /\ rs[y] = Cell(b, y, l) /\ \A r \in RowsOf(b) \ {y} : rs[r] = b.rows[r]
  BY <1>3
<1>5. Placed(a)
  BY <1>2, <1>4, PlacedAgain DEF Placed
<1>6. \A r, m : Cell(a, r, m) = Cell(b, r, m)
  BY <1>0, <1>2, KeptIs DEF Cell
<1> QED
  BY <1>2, <1>4, <1>5, <1>6 DEF RowIs, a

ScrollSet(b, s, rows) == [b EXCEPT !.scroll = s, !.rows = rows]
ChoiceSet(b, i) == [b EXCEPT !.choice = i]

\* wscrl: the rows move with the items, and the row at the end is blank.
LEMMA Scrolls ==
  ASSUME NEW b, Placed(b), NEW k \in {-1, 1}, b.scroll + k >= 0,
         b.scroll + k + max_choice(b) <= Len(b.items)
  PROVE  LET a == do_scroll(b, k)
         IN  /\ Placed(a) /\ Kept(a, b) /\ a.scroll = b.scroll + k /\ a.choice = b.choice
             /\ Plain(b) => \A r \in RowsOf(b) : r + k \in RowsOf(b) => RowIs(a, r, FALSE)
<1> DEFINE a == do_scroll(b, k)
           s == b.scroll + k
           At(r) == IF r + k \in RowsOf(b) THEN b.rows[r + k] ELSE Blank
           rs == [r \in RowsOf(b) |-> At(r)]
<1>0. Fields \subseteq DOMAIN b /\ IsList(b) /\ b.rows \in [RowsOf(b) -> RowSet] /\ DOMAIN b.rows = RowsOf(b)
  BY DEF Placed, IsList
<1>1. a = ScrollSet(b, s, rs)
  BY <1>0 DEF do_scroll, ScrollSet
<1>2. ASSUME NEW r \in RowsOf(b) PROVE At(r) \in RowSet
  BY <1>0 DEF Blank, RowSet, Null
<1>3. rs \in [RowsOf(b) -> RowSet]
  BY <1>2
<1>4. s \in Nat /\ s + max_choice(b) <= Len(b.items) /\ b.choice \in Nat
      /\ (Len(b.items) > 0 => b.choice < max_choice(b))
  BY DEF Placed
<1>5. ASSUME Plain(b), NEW r \in RowsOf(b), r + k \in RowsOf(b) PROVE At(r) = Cell(b, r + k, FALSE)
  BY <1>5 DEF Plain, RowIs
<1>6. \A r \in RowsOf(b) : rs[r] = At(r)
  OBVIOUS
<1> HIDE DEF a, s, rs, At
<1>7. Kept(a, b) /\ a.scroll = s /\ a.choice = b.choice /\ a.rows = rs
  BY <1>0, <1>1 DEF Fields, Kept, ScrollSet
<1>8. Placed(a)
  BY <1>3, <1>4, <1>7, PlacedAgain
<1>9. ASSUME NEW r \in RowsOf(b) PROVE Cell(a, r, FALSE) = Cell(b, r + k, FALSE)
  <2>1. a.scroll + r = b.scroll + (r + k)
    <3>1. b.scroll \in Nat /\ r \in Int
      BY <1>0, MaxIs DEF Placed, RowsOf
    <3> QED
      BY <1>7, <3>1 DEF s
  <2>2. \A i : item_set(a, i) = item_set(b, i)
    BY <1>0, <1>7, KeptIs
  <2> QED
    BY <2>1, <2>2 DEF Cell
<1>10. ASSUME Plain(b), NEW r \in RowsOf(b), r + k \in RowsOf(b) PROVE RowIs(a, r, FALSE)
  BY <1>5, <1>6, <1>7, <1>9, <1>10 DEF RowIs
<1>11. a.scroll = b.scroll + k
  BY <1>7 DEF s
<1> QED
  BY <1>7, <1>8, <1>10, <1>11 DEF a

LEMMA Chooses ==
  ASSUME NEW b, Placed(b), NEW i \in Nat, Len(b.items) > 0 => i < max_choice(b)
  PROVE  LET a == ChoiceSet(b, i)
         IN  /\ Placed(a) /\ Kept(a, b) /\ a.scroll = b.scroll /\ a.choice = i
             /\ Plain(b) => Plain(a)
<1> DEFINE a == ChoiceSet(b, i)
<1>0. Fields \subseteq DOMAIN b /\ IsList(b) /\ b.rows \in [RowsOf(b) -> RowSet]
      /\ b.scroll \in Nat /\ b.scroll + max_choice(b) <= Len(b.items)
  BY DEF Placed, IsList
<1>1. Kept(a, b) /\ a.scroll = b.scroll /\ a.choice = i /\ a.rows = b.rows
  BY <1>0 DEF Fields, Kept, ChoiceSet
<1> HIDE DEF a
<1>2. Placed(a)
  BY <1>0, <1>1, PlacedAgain
<1>3. RowsOf(a) = RowsOf(b) /\ \A j : item_set(a, j) = item_set(b, j)
  BY <1>0, <1>1, KeptIs
<1>4. Plain(b) => Plain(a)
  BY <1>1, <1>3 DEF Plain, RowIs, Cell
<1> QED
  BY <1>1, <1>2, <1>4 DEF a

\* What a key does while no row is lit.
Goes(a, b) == Placed(a) /\ Kept(a, b) /\ (Plain(b) => Plain(a))

LEMMA GoesTwice ==
  ASSUME NEW a, NEW b, NEW d, Goes(a, b), Goes(b, d)
  PROVE  Goes(a, d)
BY KeptTwice DEF Goes

LEMMA ScrollsBack ==
  ASSUME NEW b, Placed(b), b.scroll > 0, Len(b.items) > 0
  PROVE  Goes(ScrollBack(b), b)
<1> DEFINE d == do_scroll(b, -1)
           y == 0
           i == d.scroll
           a == print_item(d, i, y, FALSE)
<1>1. IsList(b) /\ b.scroll \in Nat /\ b.scroll + max_choice(b) <= Len(b.items) /\ max_choice(b) \in Nat
      /\ max_choice(b) > 0 /\ Len(b.items) \in Nat
  BY MaxIs DEF Placed
<1>2. -1 \in {-1, 1} /\ b.scroll + -1 >= 0 /\ b.scroll + -1 + max_choice(b) <= Len(b.items)
  BY <1>1
<1>3. /\ Placed(d) /\ Kept(d, b) /\ d.scroll = b.scroll + -1
      /\ Plain(b) => \A r \in RowsOf(b) : r + -1 \in RowsOf(b) => RowIs(d, r, FALSE)
  BY <1>2, Scrolls
<1> HIDE DEF d
<1>4. RowsOf(d) = RowsOf(b) /\ y \in RowsOf(b)
  BY <1>1, <1>3, KeptIs DEF RowsOf
<1>5. i = d.scroll + y
  BY <1>1, <1>3
<1> HIDE DEF i
<1>6. /\ Placed(a) /\ Kept(a, d) /\ RowIs(a, y, FALSE)
      /\ \A r \in RowsOf(d) \ {y} : \A l \in BOOLEAN : RowIs(d, r, l) => RowIs(a, r, l)
  <2>1. Placed(d) /\ y \in RowsOf(d)
    BY <1>3, <1>4
  <2> HIDE DEF y
  <2> QED
    BY <1>5, <2>1, Prints
<1> HIDE DEF a
<1>7. Kept(a, b) /\ RowsOf(a) = RowsOf(b)
  BY <1>1, <1>3, <1>6, KeptTwice, KeptIs
<1>8. ASSUME Plain(b), NEW r \in RowsOf(b) PROVE RowIs(a, r, FALSE)
  <2>1. CASE r = y
    BY <2>1, <1>6
  <2>2. CASE r # y
    <3>1. r + -1 \in RowsOf(b)
      BY <1>1, <2>2 DEF RowsOf
    <3> QED
      BY <1>3, <1>4, <1>6, <1>8, <2>2, <3>1
  <2> QED
    BY <2>1, <2>2
<1>9. Goes(a, b)
  BY <1>6, <1>7, <1>8 DEF Goes, Plain
<1> QED
  BY <1>9 DEF ScrollBack, a, d, i, y

LEMMA ScrollsOn ==
  ASSUME NEW b, Placed(b), MoreBelow(b), Len(b.items) > 0
  PROVE  Goes(ScrollOn(b), b)
<1> DEFINE d == do_scroll(b, 1)
           y == max_choice(b) - 1
           i == d.scroll + max_choice(b) - 1
           a == print_item(d, i, y, FALSE)
<1>1. IsList(b) /\ b.scroll \in Nat /\ b.scroll + max_choice(b) < Len(b.items) /\ max_choice(b) \in Nat
      /\ max_choice(b) > 0 /\ Len(b.items) \in Nat
  BY MaxIs DEF Placed, MoreBelow, item_count
<1>2. 1 \in {-1, 1} /\ b.scroll + 1 >= 0 /\ b.scroll + 1 + max_choice(b) <= Len(b.items)
  BY <1>1
<1>3. /\ Placed(d) /\ Kept(d, b) /\ d.scroll = b.scroll + 1
      /\ Plain(b) => \A r \in RowsOf(b) : r + 1 \in RowsOf(b) => RowIs(d, r, FALSE)
  BY <1>2, Scrolls
<1> HIDE DEF d
<1>4. RowsOf(d) = RowsOf(b) /\ y \in RowsOf(b)
  BY <1>1, <1>3, KeptIs DEF RowsOf
<1>5. i = d.scroll + y
  BY <1>1, <1>3
<1> HIDE DEF i
<1>6. /\ Placed(a) /\ Kept(a, d) /\ RowIs(a, y, FALSE)
      /\ \A r \in RowsOf(d) \ {y} : \A l \in BOOLEAN : RowIs(d, r, l) => RowIs(a, r, l)
  <2> HIDE DEF y
  <2> QED
    BY <1>3, <1>4, <1>5, Prints
<1> HIDE DEF a
<1>7. Kept(a, b) /\ RowsOf(a) = RowsOf(b)
  BY <1>1, <1>3, <1>6, KeptTwice, KeptIs
<1>8. ASSUME Plain(b), NEW r \in RowsOf(b) PROVE RowIs(a, r, FALSE)
  <2>1. CASE r = y
    BY <2>1, <1>6
  <2>2. CASE r # y
    <3>1. r + 1 \in RowsOf(b)
      BY <1>1, <2>2 DEF RowsOf
    <3> QED
      BY <1>3, <1>4, <1>6, <1>8, <2>2, <3>1
  <2> QED
    BY <2>1, <2>2
<1>9. Goes(a, b)
  BY <1>6, <1>7, <1>8 DEF Goes, Plain
<1> QED
  BY <1>9 DEF ScrollOn, a, d, i, y

LEMMA GoesAbove ==
  ASSUME NEW b, Placed(b), Len(b.items) > 0
  PROVE  Goes(Above(b), b)
<1> DEFINE i == Most(b.choice - 1, 0)
<1>1. i \in Nat /\ (Len(b.items) > 0 => i < max_choice(b))
  BY MaxIs DEF Placed, Most
<1>2. Above(b) = ChoiceSet(b, i)
  BY DEF Above, ChoiceSet
<1> HIDE DEF i
<1> QED
  BY <1>1, <1>2, Chooses DEF Goes

LEMMA GoesBelow ==
  ASSUME NEW b, Placed(b), Len(b.items) > 0
  PROVE  Goes(Below(b), b)
<1> DEFINE i == Least(b.choice + 1, max_choice(b) - 1)
<1>1. i \in Nat /\ (Len(b.items) > 0 => i < max_choice(b))
  BY MaxIs DEF Placed, Least
<1>2. Below(b) = ChoiceSet(b, i)
  BY DEF Below, ChoiceSet
<1> HIDE DEF i
<1> QED
  BY <1>1, <1>2, Chooses DEF Goes

LEMMA GoesNowhere ==
  ASSUME NEW b, Placed(b)
  PROVE  Goes(b, b)
BY DEF Goes, Kept

\* The highlight is taken off before a key, and put on after it.
LEMMA Unlights ==
  ASSUME NEW b, Placed(b), Len(b.items) > 0
  PROVE  /\ Placed(Unlit(b)) /\ Kept(Unlit(b), b) /\ Unlit(b).scroll = b.scroll /\ Unlit(b).choice = b.choice
         /\ Good(b) => Plain(Unlit(b))
<1> DEFINE y == b.choice
           i == b.scroll + b.choice
           a == print_item(b, i, y, FALSE)
<1>1. IsList(b) /\ y \in RowsOf(b) /\ i = b.scroll + y
  BY MaxIs DEF Placed, RowsOf
<1> HIDE DEF y, i
<1>2. /\ Placed(a) /\ Kept(a, b) /\ a.scroll = b.scroll /\ a.choice = b.choice /\ RowIs(a, y, FALSE)
      /\ \A r \in RowsOf(b) \ {y} : \A m \in BOOLEAN : RowIs(b, r, m) => RowIs(a, r, m)
  BY <1>1, Prints
<1> HIDE DEF a
<1>3. RowsOf(a) = RowsOf(b)
  BY <1>1, <1>2, KeptIs
<1>4. ASSUME Good(b), NEW r \in RowsOf(b) PROVE RowIs(a, r, FALSE)
  <2>1. CASE r = y
    BY <2>1, <1>2
  <2>2. CASE r # y
    <3>1. RowIs(b, r, FALSE)
      BY <1>4, <2>2 DEF Good, y
    <3> QED
      BY <1>2, <2>2, <3>1
  <2> QED
    BY <2>1, <2>2
<1>5. Good(b) => Plain(a)
  BY <1>3, <1>4 DEF Plain
<1> QED
  BY <1>2, <1>5 DEF Unlit, a, y, i

\* Only the row of the highlight may be something else.
AllBut(b, y) == \A r \in RowsOf(b) \ {y} : RowIs(b, r, FALSE)
LEMMA Lights ==
  ASSUME NEW b, Placed(b), Len(b.items) > 0
  PROVE  /\ Placed(Lit(b)) /\ Kept(Lit(b), b) /\ Lit(b).scroll = b.scroll /\ Lit(b).choice = b.choice
         /\ Plain(b) \/ AllBut(b, b.choice) => Good(Lit(b))
<1> DEFINE y == b.choice
           i == b.scroll + b.choice
           a == print_item(b, i, y, TRUE)
<1>1. IsList(b) /\ y \in RowsOf(b) /\ i = b.scroll + y
  BY MaxIs DEF Placed, RowsOf
<1> HIDE DEF y, i
<1>2. /\ Placed(a) /\ Kept(a, b) /\ a.scroll = b.scroll /\ a.choice = b.choice /\ RowIs(a, y, TRUE)
      /\ \A r \in RowsOf(b) \ {y} : \A m \in BOOLEAN : RowIs(b, r, m) => RowIs(a, r, m)
  BY <1>1, Prints
<1> HIDE DEF a
<1>3. RowsOf(a) = RowsOf(b) /\ a.choice = y
  BY <1>1, <1>2, KeptIs DEF y
<1>4. ASSUME AllBut(b, y), NEW r \in RowsOf(b) PROVE RowIs(a, r, r = y)
  <2>1. CASE r = y
    <3>1. (r = y) = TRUE
      BY <2>1
    <3> QED
      BY <1>2, <2>1, <3>1
  <2>2. CASE r # y
    <3>1. RowIs(b, r, FALSE)
      BY <1>4, <2>2 DEF AllBut
    <3>2. (r = y) = FALSE
      BY <2>2
    <3> QED
      BY <1>2, <2>2, <3>1, <3>2
  <2> QED
    BY <2>1, <2>2
<1>5. Plain(b) => AllBut(b, y)
  BY DEF Plain, AllBut
<1>6. AllBut(b, y) => Good(a)
  BY <1>3, <1>4 DEF Good
<1> QED
  BY <1>2, <1>5, <1>6 DEF Lit, a, y, i

\* Any key that moves from an unlit list to an unlit list.
LEMMA KeyKeepsRows ==
  ASSUME NEW b, Placed(b), Len(b.items) > 0, NEW d, Goes(d, Unlit(b))
  PROVE  Placed(Lit(d)) /\ Kept(Lit(d), b) /\ (Good(b) => Good(Lit(d)))
<1>1. Placed(Unlit(b)) /\ Kept(Unlit(b), b) /\ (Good(b) => Plain(Unlit(b))) /\ IsList(b)
  BY Unlights DEF Placed
<1>2. Placed(d) /\ Kept(d, Unlit(b)) /\ (Plain(Unlit(b)) => Plain(d))
  BY DEF Goes
<1>3. Kept(d, b)
  BY <1>1, <1>2, KeptTwice
<1>4. Len(d.items) > 0
  BY <1>1, <1>3, KeptIs
<1>5. Placed(Lit(d)) /\ Kept(Lit(d), d) /\ (Plain(d) => Good(Lit(d)))
  BY <1>2, <1>4, Lights
<1> QED
  BY <1>1, <1>2, <1>3, <1>5, KeptTwice

----------------------------------------------------------------------------
(* Repeated steps: pages of a list, and lines of a text. *)

LEMMA LeastElement ==
  ASSUME NEW T, T \subseteq Nat, T # {}
  PROVE  \E x \in T : \A y \in T : x <= y
<1>1. \E x \in T : \A y \in T : ~ (<<y, x>> \in OpToRel(<, Nat))
  BY NatLessThanWellFounded, WFMin
<1>2. PICK x \in T : \A y \in T : ~ (<<y, x>> \in OpToRel(<, Nat))
  BY <1>1
<1>3. \A y \in T : ~ (y < x)
  BY <1>2 DEF OpToRel
<1>4. \A y \in T : y \in Nat /\ x \in Nat
  OBVIOUS
<1> QED
  BY <1>3, <1>4

LEMMA UpTo ==
  ASSUME NEW S, NEW k \in Nat, 0 \in S, \A i \in Nat : i < k /\ i \in S => i + 1 \in S
  PROVE  \A i \in 0 .. k : i \in S
<1> DEFINE T == {i \in 0 .. k : i \notin S}
<1> SUFFICES ASSUME T # {} PROVE FALSE
  OBVIOUS
<1>1. T \subseteq Nat
  OBVIOUS
<1>2. PICK x \in T : \A y \in T : x <= y
  BY <1>1, LeastElement
<1>3. x \in Nat /\ x # 0 /\ x - 1 \in Nat /\ x - 1 < k /\ x - 1 + 1 = x /\ ~(x <= x - 1)
  BY <1>2
<1>4. x - 1 \in S
  BY <1>2, <1>3
<1> QED
  BY <1>2, <1>3, <1>4

StepOf(kind, a) ==
  CASE kind = "up" -> IF a.scroll > 0 THEN ScrollBack(a) ELSE Above(a)
    [] kind = "down" -> IF MoreBelow(a) THEN ScrollOn(a) ELSE Below(a)
    [] OTHER -> get_line(a)
StepAt(kind, b, f, i) == IF i = 0 THEN b ELSE StepOf(kind, f[i - 1])
IsRun(kind, b, k, f) == f = [i \in 0 .. k |-> StepAt(kind, b, f, i)]

LEMMA RunExists ==
  ASSUME NEW kind, NEW b, NEW k \in Nat
  PROVE  \E f : IsRun(kind, b, k, f)
<1> DEFINE S == {n \in 0 .. k : \E f : IsRun(kind, b, n, f)}
<1>1. 0 \in S
  <2> DEFINE f == [i \in 0 .. 0 |-> b]
  <2>1. f = [i \in 0 .. 0 |-> StepAt(kind, b, f, i)]
    BY DEF StepAt
  <2> QED
    BY <2>1 DEF IsRun
<1>2. ASSUME NEW n \in Nat, n < k, n \in S PROVE n + 1 \in S
  <2>1. PICK f : IsRun(kind, b, n, f)
    BY <1>2
  <2> DEFINE v == StepOf(kind, f[n])
             g == [i \in 0 .. (n + 1) |-> IF i = n + 1 THEN v ELSE f[i]]
  <2>2. ASSUME NEW i \in 0 .. (n + 1) PROVE g[i] = StepAt(kind, b, g, i)
    <3>1. CASE i = n + 1
      <4>1. n \in 0 .. (n + 1) /\ n # n + 1 /\ i - 1 = n /\ i # 0
        BY <3>1
      <4>2. g[i - 1] = f[n]
        BY <4>1
      <4> HIDE DEF v
      <4>3. g[i] = v
        BY <3>1
      <4> HIDE DEF g
      <4> QED
        BY <4>1, <4>2, <4>3 DEF StepAt, v
    <3>2. CASE i = 0
      <4>1. g[i] = f[0] /\ 0 \in 0 .. n
        BY <3>2
      <4>2. f[0] = StepAt(kind, b, f, 0)
        BY <2>1, <4>1 DEF IsRun
      <4> HIDE DEF g
      <4> QED
        BY <3>2, <4>1, <4>2 DEF StepAt
    <3>3. CASE i # n + 1 /\ i # 0
      <4>1. i \in 0 .. n /\ i - 1 \in 0 .. (n + 1) /\ i - 1 # n + 1
        BY <3>3
      <4>2. g[i] = f[i] /\ g[i - 1] = f[i - 1]
        BY <3>3, <4>1
      <4>3. f[i] = StepAt(kind, b, f, i)
        BY <2>1, <4>1 DEF IsRun
      <4> HIDE DEF g
      <4> QED
        BY <3>3, <4>2, <4>3 DEF StepAt
    <3> QED
      BY <3>1, <3>2, <3>3
  <2>3. g = [i \in 0 .. (n + 1) |-> g[i]]
    OBVIOUS
  <2> HIDE DEF g
  <2>4. g = [i \in 0 .. (n + 1) |-> StepAt(kind, b, g, i)]
    BY <2>2, <2>3
  <2> QED
    BY <1>2, <2>4 DEF IsRun
<1>3. \A n \in 0 .. k : n \in S
  <2> HIDE DEF S
  <2> QED
    BY <1>1, <1>2, UpTo
<1> QED
  BY <1>3

\* Times, for each of the three steps that are repeated.
UpAt(b, f, i) == IF i = 0 THEN b ELSE IF f[i - 1].scroll > 0 THEN ScrollBack(f[i - 1]) ELSE Above(f[i - 1])
LEMMA UpTimes ==
  ASSUME NEW b, NEW k \in Nat
  PROVE  \E f : IsRun("up", b, k, f) /\ f[k] = Times(k, LAMBDA a : IF a.scroll > 0 THEN ScrollBack(a) ELSE Above(a), b)
<1> DEFINE F == CHOOSE f : f = [i \in 0 .. k |-> UpAt(b, f, i)]
<1>1. \A f, i : StepAt("up", b, f, i) = UpAt(b, f, i)
  BY DEF StepAt, StepOf, UpAt
<1>2. PICK f : IsRun("up", b, k, f)
  BY RunExists
<1>3. f = [i \in 0 .. k |-> UpAt(b, f, i)]
  BY <1>1, <1>2 DEF IsRun
<1>4. F = [i \in 0 .. k |-> UpAt(b, F, i)]
  BY <1>3
<1>5. F[k] = Times(k, LAMBDA a : IF a.scroll > 0 THEN ScrollBack(a) ELSE Above(a), b)
  BY DEF Times, UpAt
<1> HIDE DEF F
<1>6. IsRun("up", b, k, F)
  BY <1>1, <1>4 DEF IsRun
<1> QED
  BY <1>5, <1>6

DownAt(b, f, i) == IF i = 0 THEN b ELSE IF MoreBelow(f[i - 1]) THEN ScrollOn(f[i - 1]) ELSE Below(f[i - 1])
LEMMA DownTimes ==
  ASSUME NEW b, NEW k \in Nat
  PROVE  \E f : IsRun("down", b, k, f) /\ f[k] = Times(k, LAMBDA a : IF MoreBelow(a) THEN ScrollOn(a) ELSE Below(a), b)
<1> DEFINE F == CHOOSE f : f = [i \in 0 .. k |-> DownAt(b, f, i)]
<1>1. \A f, i : StepAt("down", b, f, i) = DownAt(b, f, i)
  BY DEF StepAt, StepOf, DownAt
<1>2. PICK f : IsRun("down", b, k, f)
  BY RunExists
<1>3. f = [i \in 0 .. k |-> DownAt(b, f, i)]
  BY <1>1, <1>2 DEF IsRun
<1>4. F = [i \in 0 .. k |-> DownAt(b, F, i)]
  BY <1>3
<1>5. F[k] = Times(k, LAMBDA a : IF MoreBelow(a) THEN ScrollOn(a) ELSE Below(a), b)
  BY DEF Times, DownAt
<1> HIDE DEF F
<1>6. IsRun("down", b, k, F)
  BY <1>1, <1>4 DEF IsRun
<1> QED
  BY <1>5, <1>6

LinesAt(b, f, i) == IF i = 0 THEN b ELSE get_line(f[i - 1])
LEMMA LinesTimes ==
  ASSUME NEW b, NEW k \in Nat
  PROVE  \E f : IsRun("line", b, k, f) /\ f[k] = Times(k, get_line, b)
<1> DEFINE F == CHOOSE f : f = [i \in 0 .. k |-> LinesAt(b, f, i)]
<1>1. \A f, i : StepAt("line", b, f, i) = LinesAt(b, f, i)
  BY DEF StepAt, StepOf, LinesAt
<1>2. PICK f : IsRun("line", b, k, f)
  BY RunExists
<1>3. f = [i \in 0 .. k |-> LinesAt(b, f, i)]
  BY <1>1, <1>2 DEF IsRun
<1>4. F = [i \in 0 .. k |-> LinesAt(b, F, i)]
  BY <1>3
<1>5. F[k] = Times(k, get_line, b)
  BY DEF Times, LinesAt
<1> HIDE DEF F
<1>6. IsRun("line", b, k, F)
  BY <1>1, <1>4 DEF IsRun
<1> QED
  BY <1>5, <1>6

RunIs ==
  \A kind, b, f : \A k \in Nat : IsRun(kind, b, k, f) =>
    f[0] = b /\ \A i \in Nat : i < k => f[i + 1] = StepOf(kind, f[i])
LEMMA RunSteps == RunIs
<1> SUFFICES ASSUME NEW kind, NEW b, NEW f, NEW k \in Nat, IsRun(kind, b, k, f)
             PROVE  f[0] = b /\ \A i \in Nat : i < k => f[i + 1] = StepOf(kind, f[i])
  BY DEF RunIs
<1>1. f[0] = b
  <2>1. 0 \in 0 .. k
    OBVIOUS
  <2>2. f[0] = StepAt(kind, b, f, 0)
    BY <2>1 DEF IsRun
  <2> QED
    BY <2>2 DEF StepAt
<1>2. ASSUME NEW i \in Nat, i < k PROVE f[i + 1] = StepOf(kind, f[i])
  <2>1. i + 1 \in 0 .. k /\ i + 1 # 0 /\ i + 1 - 1 = i
    BY <1>2
  <2>2. f[i + 1] = StepAt(kind, b, f, i + 1)
    BY <2>1 DEF IsRun
  <2> QED
    BY <2>1, <2>2 DEF StepAt
<1> QED
  BY <1>1, <1>2

\* A page of a menu.
LEMMA Pages ==
  ASSUME NEW b, Placed(b), Len(b.items) > 0, NEW kind \in {"up", "down"}, NEW k \in Nat, NEW f, IsRun(kind, b, k, f)
  PROVE  Goes(f[k], b)
<1> DEFINE S == {i \in 0 .. k : Goes(f[i], b)}
<1>1. 0 \in S
  BY GoesNowhere, RunSteps DEF RunIs
<1>2. ASSUME NEW i \in Nat, i < k, i \in S PROVE i + 1 \in S
  <2>1. Goes(f[i], b) /\ f[i + 1] = StepOf(kind, f[i])
    BY <1>2, RunSteps DEF RunIs
  <2>2. Placed(f[i]) /\ Len(f[i].items) > 0
    BY <2>1, KeptIs DEF Goes, Placed
  <2>3. Goes(StepOf(kind, f[i]), f[i])
    <3>1. CASE kind = "up"
      <4>1. f[i].scroll \in Nat
        BY <2>2 DEF Placed
      <4>2. CASE f[i].scroll > 0
        BY <2>2, <3>1, <4>2, ScrollsBack DEF StepOf
      <4>3. CASE ~(f[i].scroll > 0)
        BY <2>2, <3>1, <4>3, GoesAbove DEF StepOf
      <4> QED
        BY <4>2, <4>3
    <3>2. CASE kind = "down"
      <4>2. CASE MoreBelow(f[i])
        BY <2>2, <3>2, <4>2, ScrollsOn DEF StepOf
      <4>3. CASE ~MoreBelow(f[i])
        BY <2>2, <3>2, <4>3, GoesBelow DEF StepOf
      <4> QED
        BY <4>2, <4>3
    <3> QED
      BY <3>1, <3>2
  <2>4. Goes(f[i + 1], b)
    BY <2>1, <2>3, GoesTwice
  <2>5. i + 1 \in 0 .. k
    BY <1>2
  <2> QED
    BY <2>4, <2>5
<1>3. \A i \in 0 .. k : i \in S
  <2> HIDE DEF S
  <2> QED
    BY <1>1, <1>2, UpTo
<1> QED
  BY <1>3

----------------------------------------------------------------------------
(* Printing a list. *)

LEMMA GreatestElement ==
  ASSUME NEW k \in Nat, NEW T, T \subseteq 0 .. (k - 1), T # {}
  PROVE  \E x \in T : \A y \in T : y <= x
<1> DEFINE U == {k - 1 - x : x \in T}
<1>1. U \subseteq Nat /\ U # {}
  <2>1. \A x \in T : k - 1 - x \in Nat
    OBVIOUS
  <2>2. PICK x \in T : TRUE
    OBVIOUS
  <2>3. k - 1 - x \in U
    OBVIOUS
  <2> QED
    BY <2>1, <2>3
<1>2. PICK u \in U : \A v \in U : u <= v
  BY <1>1, LeastElement
<1>3. PICK x \in T : u = k - 1 - x
  OBVIOUS
<1>4. ASSUME NEW y \in T PROVE y <= x
  <2>1. k - 1 - y \in U
    OBVIOUS
  <2>2. k - 1 - x <= k - 1 - y
    BY <1>2, <1>3, <2>1
  <2>3. x \in Int /\ y \in Int
    OBVIOUS
  <2> HIDE DEF U
  <2> QED
    BY <2>2, <2>3
<1> QED
  BY <1>4

\* Where a menu is scrolled to, and the row of its highlight, when the item
\* selected is at a place of it and the saved scroll is s.
Fits(s, at, max, count) == s <= at /\ s + max > at /\ s >= 0 /\ s + max <= count
Half(max) == max \div 2
Moved(at, max, count) == IF at >= count - Half(max) THEN count - max ELSE at - Half(max)
ScrollTo(s, at, max, count) == IF Fits(s, at, max, count) THEN s ELSE 0
InFirstPage(s, at, max, count) == Fits(s, at, max, count) \/ at - ScrollTo(s, at, max, count) < max
PlaceTo(s, at, max, count) ==
  IF InFirstPage(s, at, max, count) THEN ScrollTo(s, at, max, count) ELSE Moved(at, max, count)
LEMMA MenuPlace ==
  ASSUME NEW count \in Nat, NEW height \in Nat, height > 0, NEW at \in Nat, count > 0 => at < count,
         NEW s \in Nat, NEW max, max = Least(height, count), NEW to, to = PlaceTo(s, at, max, count)
  PROVE  to \in Nat /\ at - to \in Nat /\ to + max <= count /\ (count > 0 => at - to < max)
<1> DEFINE q == Half(max)
<1>1. max \in Nat /\ max <= count /\ max <= height /\ (count > 0 => max > 0) /\ (max < count => max = height)
  BY DEF Least
<1>2. q \in Nat /\ 2 * q <= max /\ max <= 2 * q + 1
  BY <1>1 DEF Half
<1>3. Moved(at, max, count) = IF at >= count - q THEN count - max ELSE at - q
  BY DEF Moved
<1> HIDE DEF q
<1>4. CASE Fits(s, at, max, count)
  <2>1. to = s
    BY <1>4 DEF PlaceTo, InFirstPage, ScrollTo
  <2> QED
    BY <1>1, <1>4, <2>1 DEF Fits
<1>5. CASE ~Fits(s, at, max, count) /\ at < max
  <2>1. to = 0
    BY <1>5 DEF PlaceTo, InFirstPage, ScrollTo
  <2> QED
    BY <1>1, <1>5, <2>1
<1>6. CASE ~Fits(s, at, max, count) /\ ~(at < max)
  <2>0. to = Moved(at, max, count)
    BY <1>6 DEF PlaceTo, InFirstPage, ScrollTo
  <2>1. CASE count = 0
    <3>1. max = 0 /\ q = 0
      BY <1>1, <1>2, <2>1
    <3>2. to = 0
      BY <1>3, <2>0, <2>1, <3>1
    <3> QED
      BY <2>1, <3>1, <3>2
  <2>2. CASE count > 0 /\ at >= count - q
    <3>1. to = count - max
      BY <1>3, <2>0, <2>2
    <3> QED
      BY <1>1, <1>2, <1>6, <2>2, <3>1
  <2>3. CASE count > 0 /\ ~(at >= count - q)
    <3>1. to = at - q
      BY <1>3, <2>0, <2>3
    <3> QED
      BY <1>1, <1>2, <1>6, <2>3, <3>1
  <2> QED
    BY <2>1, <2>2, <2>3
<1> QED
  BY <1>4, <1>5, <1>6

\* Printed rows are those of the items from the first one on.
LEMMA Printing ==
  ASSUME NEW b, Fields \subseteq DOMAIN b, b.items \in Seq(Nat), b.height \in Nat \ {0}, b.scroll \in Nat, b.choice \in Nat,
         b.scroll + max_choice(b) <= Len(b.items), Len(b.items) > 0 => b.choice < max_choice(b), NEW first \in Nat
  PROVE  LET a == Printed(b, first)
         IN  /\ Placed(a) /\ DOMAIN a = DOMAIN b /\ (first = b.scroll => Good(a))
             /\ \A f \in DOMAIN b \ {"rows"} : a[f] = b[f]
<1> DEFINE a == Printed(b, first)
           At(r) == [item |-> item_set(b, first + r), lit |-> r = b.choice]
           rs == [r \in RowsOf(b) |-> At(r)]
<1>0. IsList(b)
  BY DEF IsList
<1>1. a = RowsSet(b, rs)
  BY DEF Printed, RowsSet, RowsOf
<1>2. ASSUME NEW r \in RowsOf(b) PROVE At(r) \in RowSet
  <2>1. first + r \in Nat
    BY <1>0, MaxIs DEF RowsOf
  <2>2. item_set(b, first + r) \in Nat
    BY <1>0, <2>1, ItemIs
  <2> QED
    BY <2>2 DEF RowSet
<1>3. rs \in [RowsOf(b) -> RowSet]
  BY <1>2
<1>6. ASSUME first = b.scroll PROVE \A r \in RowsOf(b) : rs[r] = Cell(b, r, r = b.choice)
  BY <1>6 DEF Cell
<1> HIDE DEF a, rs
<1>4. DOMAIN a = DOMAIN b /\ a.rows = rs /\ \A f \in DOMAIN b \ {"rows"} : a[f] = b[f]
  BY <1>1 DEF RowsSet, Fields
<1>5. Kept(a, b) /\ a.scroll = b.scroll /\ a.choice = b.choice
  BY <1>4 DEF Kept, Fields
<1>7. RowsOf(a) = RowsOf(b) /\ IsList(a) /\ a.items = b.items /\ max_choice(a) = max_choice(b) /\ \A i : item_set(a, i) = item_set(b, i)
  BY <1>0, <1>5, KeptIs
<1>8. Placed(a)
  BY <1>3, <1>4, <1>5, <1>7 DEF Placed
<1>9. ASSUME first = b.scroll PROVE Good(a)
  <2>1. \A r, l : Cell(a, r, l) = Cell(b, r, l)
    BY <1>5, <1>7 DEF Cell
  <2>2. \A r \in RowsOf(b) : a.rows[r] = Cell(a, r, r = b.choice)
    BY <1>4, <1>6, <1>9, <2>1
  <2> QED
    BY <1>5, <1>7, <2>2 DEF Good, RowIs
<1> QED
  BY <1>4, <1>8, <1>9 DEF a

----------------------------------------------------------------------------
(* The menu. *)

MenuInv(b) ==
  /\ b.is = "menu" /\ {"selected", "s_scroll"} \subseteq DOMAIN b /\ b.s_scroll \in Nat
  /\ Placed(b) /\ b.first \in Nat
  /\ b.first = b.top => Good(b)

\* A menu before its place is known.
MenuGiven(b) ==
  /\ b.is = "menu" /\ Fields \cup {"selected", "s_scroll"} \subseteq DOMAIN b
  /\ b.items \in Seq(Nat) /\ b.s_scroll \in Nat /\ b.first \in Nat
  /\ b.choice \in Nat /\ (Len(b.items) > 0 => b.choice < Len(b.items))

MenuSet(b, height, first, scroll, choice, top, lit) ==
  [b EXCEPT !.height = height, !.first = first, !.scroll = scroll, !.choice = choice, !.top = top, !.lit = lit]

LEMMA MenuSetIs ==
  ASSUME NEW b, Fields \subseteq DOMAIN b, NEW height, NEW first, NEW scroll, NEW choice, NEW top, NEW lit
  PROVE  LET a == MenuSet(b, height, first, scroll, choice, top, lit)
         IN  /\ DOMAIN a = DOMAIN b /\ a.height = height /\ a.first = first /\ a.scroll = scroll
             /\ a.choice = choice /\ a.top = top /\ a.items = b.items /\ a.lit = lit
             /\ \A f \in DOMAIN b \ {"height", "first", "scroll", "choice", "top", "lit"} : a[f] = b[f]
BY DEF MenuSet, Fields

LEMMA MenuIsDrawn ==
  ASSUME NEW b, MenuGiven(b), NEW height \in Nat \ {0}
  PROVE  MenuInv(MenuDrawn(b, height)) /\ MenuDrawn(b, height).button = b.button /\ MenuDrawn(b, height).lit = 0
<1> DEFINE count == item_count(b)
           max == Least(height, count)
           found == {i \in 0 .. (count - 1) : item_set(b, i) = b.selected}
           at == IF found = {} THEN b.choice ELSE CHOOSE i \in found : \A j \in found : j <= i
           fits == /\ b.s_scroll <= at /\ b.s_scroll + max > at
                   /\ b.s_scroll >= 0 /\ b.s_scroll + max <= count
           scroll == IF fits THEN b.s_scroll ELSE 0
           choice == at - scroll
           moved == IF at >= count - max \div 2 THEN count - max ELSE at - max \div 2
           seen == fits \/ choice < max
           first == IF fits THEN scroll ELSE IF seen THEN b.first ELSE moved
           to == IF seen THEN scroll ELSE moved
           ch == IF seen THEN choice ELSE at - moved
           lit == 0
           a == MenuSet(b, height, first, to, ch, to, lit)
<1>1. MenuDrawn(b, height) = Printed(a, first)
  BY DEF MenuDrawn, MenuSet
<1>2. Fields \subseteq DOMAIN b /\ count = Len(b.items) /\ count \in Nat /\ b.s_scroll \in Nat /\ b.first \in Nat
      /\ b.choice \in Nat /\ (count > 0 => b.choice < count)
  BY LenProperties DEF MenuGiven, item_count
<1>3. at \in Nat /\ (count > 0 => at < count)
  <2>1. CASE found = {}
    BY <1>2, <2>1
  <2>2. CASE found # {}
    <3>1. \E i \in found : \A j \in found : j <= i
      <4>1. found \subseteq 0 .. (count - 1)
        OBVIOUS
      <4> HIDE DEF found
      <4> QED
        BY <1>2, <2>2, <4>1, GreatestElement
    <3>2. at \in found
      <4> HIDE DEF found
      <4> QED
        BY <2>2, <3>1
    <3>3. at \in 0 .. (count - 1)
      <4>1. found \subseteq 0 .. (count - 1)
        OBVIOUS
      <4> HIDE DEF found, at
      <4> QED
        BY <3>2, <4>1
    <3> HIDE DEF at
    <3> QED
      BY <1>2, <3>3
  <2> QED
    BY <2>1, <2>2
<1> HIDE DEF at, found
<1>4. to \in Nat /\ ch \in Nat /\ to + max <= count /\ (count > 0 => ch < max)
  <2>1. max = Least(height, count) /\ height > 0 /\ height \in Nat
    OBVIOUS
  <2>2. to = PlaceTo(b.s_scroll, at, max, count) /\ ch = at - to
    BY DEF PlaceTo, InFirstPage, ScrollTo, Moved, Half, Fits
  <2> HIDE DEF count, max, to, ch
  <2>3. to \in Nat /\ at - to \in Nat /\ to + max <= count /\ (count > 0 => at - to < max)
    BY <1>2, <1>3, <2>1, <2>2, MenuPlace
  <2> QED
    BY <2>2, <2>3
<1>5. (first = to \/ first = b.first) /\ lit = 0
  OBVIOUS
<1> HIDE DEF to, ch, first, lit, a
<1>6. first \in Nat
  BY <1>2, <1>4, <1>5
<1>7. /\ DOMAIN a = DOMAIN b /\ a.height = height /\ a.first = first /\ a.scroll = to
      /\ a.choice = ch /\ a.top = to /\ a.items = b.items /\ a.lit = lit
      /\ \A f \in DOMAIN b \ {"height", "first", "scroll", "choice", "top", "lit"} : a[f] = b[f]
  BY <1>2, MenuSetIs DEF a
<1>8. a.is = "menu" /\ a.s_scroll = b.s_scroll /\ {"selected", "s_scroll"} \subseteq DOMAIN a
  BY <1>7 DEF MenuGiven, Fields
<1>9. max_choice(a) = max /\ a.items \in Seq(Nat) /\ Len(a.items) = count
  BY <1>2, <1>7 DEF max_choice, item_count, MenuGiven
<1> HIDE DEF count, max
<1>10. LET d == Printed(a, first)
       IN  /\ Placed(d) /\ DOMAIN d = DOMAIN a /\ (first = a.scroll => Good(d))
           /\ \A f \in DOMAIN a \ {"rows"} : d[f] = a[f]
  BY <1>2, <1>4, <1>6, <1>7, <1>9, Printing
<1> DEFINE d == Printed(a, first)
<1>11. Placed(d) /\ DOMAIN d = DOMAIN a /\ (first = a.scroll => Good(d)) /\ \A f \in DOMAIN a \ {"rows"} : d[f] = a[f]
  BY <1>10
<1> HIDE DEF d
<1>12. d.is = "menu" /\ d.s_scroll = b.s_scroll /\ d.first = first /\ d.top = to /\ {"selected", "s_scroll"} \subseteq DOMAIN d
  BY <1>2, <1>7, <1>8, <1>11 DEF Fields
<1>13. MenuInv(d)
  BY <1>2, <1>6, <1>7, <1>11, <1>12 DEF MenuInv
<1>14. d.lit = lit /\ d.button = b.button
  BY <1>2, <1>7, <1>11 DEF Fields
<1> QED
  BY <1>1, <1>5, <1>13, <1>14 DEF d

\* A key of a menu leaves its saved scroll and its place alone.
LEMMA MenuKept ==
  ASSUME NEW b, NEW a, MenuInv(b), Placed(a), Kept(a, b), Good(b) => Good(a)
  PROVE  MenuInv(a) /\ SameButton(a, b)
<1>1. Placed(b) /\ IsList(b)
  BY DEF MenuInv, Placed
<1>2. a.is = b.is /\ a.first = b.first /\ a.top = b.top /\ a.button = b.button /\ a.lit = b.lit
  BY <1>1, KeptIs
<1>3. DOMAIN a = DOMAIN b /\ a.s_scroll = b.s_scroll
  BY DEF Kept, MenuInv
<1> QED
  BY <1>2, <1>3 DEF MenuInv, SameButton

LEMMA MenuGoes ==
  ASSUME NEW b, MenuInv(b), Len(b.items) > 0, NEW d, Goes(d, Unlit(b))
  PROVE  MenuInv(Lit(d)) /\ SameButton(Lit(d), b)
<1>1. Placed(b)
  BY DEF MenuInv
<1>2. Placed(Lit(d)) /\ Kept(Lit(d), b) /\ (Good(b) => Good(Lit(d)))
  BY <1>1, KeyKeepsRows
<1> QED
  BY <1>2, MenuKept

\* The least row that a letter selects.
LEMMA FirstRow ==
  ASSUME NEW T, NEW lo \in Nat, NEW hi \in Int, NEW x \in lo .. hi, x \in T
  PROVE  \E i \in lo .. hi : i \in T /\ \A j \in lo .. (i - 1) : j \notin T
<1> DEFINE U == {i \in lo .. hi : i \in T}
<1>1. U \subseteq Nat /\ U # {}
  OBVIOUS
<1>2. PICK i \in U : \A j \in U : i <= j
  BY <1>1, LeastElement
<1>3. ASSUME NEW j \in lo .. (i - 1) PROVE j \notin T
  <2>1. i \in lo .. hi
    OBVIOUS
  <2>2. j \in lo .. hi /\ ~(i <= j)
    BY <2>1
  <2> QED
    BY <1>2, <2>2
<1> QED
  BY <1>2, <1>3

RowsWith(b, letter) == {i \in Int : Hot(item_set(b, b.scroll + i)) = letter}
FirstWith(b, letter, lo, hi) == First(LAMBDA i : Hot(item_set(b, b.scroll + i)) = letter, lo, hi)
LEMMA FirstIs ==
  ASSUME NEW b, NEW letter, NEW lo \in Nat, NEW hi \in Int, NEW x \in lo .. hi, x \in RowsWith(b, letter)
  PROVE  FirstWith(b, letter, lo, hi) \in lo .. hi
<1> DEFINE At(i) == i \in RowsWith(b, letter) /\ \A j \in lo .. (i - 1) : j \notin RowsWith(b, letter)
           c == CHOOSE i \in lo .. hi : At(i)
<1>1. \E i \in lo .. hi : At(i)
  BY FirstRow
<1>2. c \in lo .. hi
  <2> HIDE DEF At
  <2> QED
    BY <1>1
<1>3. \A i \in lo .. hi : At(i) <=> /\ Hot(item_set(b, b.scroll + i)) = letter
                                    /\ \A j \in lo .. (i - 1) : ~(Hot(item_set(b, b.scroll + j)) = letter)
  BY DEF RowsWith
<1>4. c = CHOOSE i \in lo .. hi : /\ Hot(item_set(b, b.scroll + i)) = letter
                                  /\ \A j \in lo .. (i - 1) : ~(Hot(item_set(b, b.scroll + j)) = letter)
  <2> HIDE DEF At
  <2> QED
    BY <1>3
<1> HIDE DEF c
<1> QED
  BY <1>2, <1>4 DEF FirstWith, First

LEMMA LetterIsThere ==
  ASSUME NEW b, Placed(b), Len(b.items) > 0, NEW letter \in OnScreen(b)
  PROVE  \E x \in 0 .. (max_choice(b) - 1) : x \in RowsWith(b, letter)
<1>1. PICK x \in 0 .. (max_choice(b) - 1) : Hot(item_set(b, b.scroll + x)) = letter
  BY DEF OnScreen
<1> QED
  BY <1>1 DEF RowsWith

LEMMA LetterIsInList ==
  ASSUME NEW b, Placed(b), Len(b.items) > 0, NEW letter \in OnScreen(b)
  PROVE  LetterRow(b, letter) \in Nat /\ LetterRow(b, letter) < max_choice(b)
<1> DEFINE last == max_choice(b) - 1
           from == b.choice + 1
           zero == 0
<1>1. last \in Nat /\ from \in Nat /\ zero \in Nat /\ last \in Int /\ last < max_choice(b) /\ max_choice(b) \in Nat
  BY MaxIs DEF Placed
<1>2. \A i \in Int : Hot(item_set(b, b.scroll + i)) = letter <=> i \in RowsWith(b, letter)
  BY DEF RowsWith
<1>3. PICK y \in zero .. last : y \in RowsWith(b, letter)
  BY LetterIsThere
<1>4. LetterRow(b, letter) =
        IF \E i \in from .. last : Hot(item_set(b, b.scroll + i)) = letter
        THEN FirstWith(b, letter, from, last)
        ELSE FirstWith(b, letter, zero, last)
  BY DEF LetterRow, FirstWith, First
<1> HIDE DEF last, from, zero
<1>5. FirstWith(b, letter, zero, last) \in zero .. last
  BY <1>1, <1>3, FirstIs
<1>6. CASE \E i \in from .. last : Hot(item_set(b, b.scroll + i)) = letter
  <2>1. PICK x \in from .. last : Hot(item_set(b, b.scroll + x)) = letter
    BY <1>6
  <2>2. x \in RowsWith(b, letter)
    BY <1>1, <1>2, <2>1
  <2>3. FirstWith(b, letter, from, last) \in from .. last
    BY <1>1, <2>2, FirstIs
  <2>4. LetterRow(b, letter) \in from .. last
    BY <1>4, <1>6, <2>3
  <2> QED
    BY <1>1, <2>4
<1>7. CASE ~\E i \in from .. last : Hot(item_set(b, b.scroll + i)) = letter
  <2>1. LetterRow(b, letter) \in zero .. last
    BY <1>4, <1>5, <1>7
  <2> QED
    BY <1>1, <2>1 DEF zero
<1> QED
  BY <1>6, <1>7

\* The buttons of a list.
LEMMA ListButtons ==
  ASSUME NEW b, Placed(b), NEW by, NEW last
  PROVE  LET a == Button(b, by, last)
         IN  /\ Placed(a) /\ DOMAIN a = DOMAIN b /\ (Good(b) => Good(a)) /\ a.lit = a.button
             /\ \A f \in DOMAIN b \ {"button", "lit"} : a[f] = b[f]
<1> DEFINE to == Around(b.button + by, last)
           a == ButtonSet(b, to, to)
<1>1. Button(b, by, last) = a
  BY DEF Button, ButtonSet
<1>2. IsList(b) /\ Fields \subseteq DOMAIN b
  BY DEF Placed, IsList
<1> HIDE DEF to
<1>3. DOMAIN a = DOMAIN b /\ \A f \in DOMAIN b \ {"button", "lit"} : a[f] = b[f]
  BY DEF ButtonSet
<1>8. a.lit = a.button
  BY <1>2 DEF ButtonSet, Fields
<1> HIDE DEF a
<1>4. a.items = b.items /\ a.height = b.height /\ a.scroll = b.scroll /\ a.choice = b.choice /\ a.rows = b.rows
  BY <1>2, <1>3 DEF Fields
<1>5. IsList(a) /\ max_choice(a) = max_choice(b) /\ RowsOf(a) = RowsOf(b) /\ \A i : item_set(a, i) = item_set(b, i)
  BY <1>2, <1>3, <1>4 DEF IsList, max_choice, item_count, RowsOf, item_set
<1>6. Placed(a)
  BY <1>4, <1>5 DEF Placed
<1>7. Good(b) => Good(a)
  BY <1>4, <1>5 DEF Good, RowIs, Cell
<1> QED
  BY <1>1, <1>3, <1>6, <1>7, <1>8

LEMMA MenuAsGiven ==
  ASSUME NEW b, MenuInv(b)
  PROVE  MenuGiven(b)
<1>1. Placed(b) /\ IsList(b) /\ b.choice \in Nat /\ b.items \in Seq(Nat)
  BY DEF MenuInv, Placed, IsList
<1>2. Len(b.items) > 0 => b.choice < Len(b.items)
  BY <1>1, MaxIs DEF Placed
<1>3. Fields \cup {"selected", "s_scroll"} \subseteq DOMAIN b
  BY <1>1 DEF IsList, MenuInv
<1> QED
  BY <1>1, <1>2, <1>3 DEF MenuGiven, MenuInv

LEMMA MenuIsOpened ==
  ASSUME NEW items \in Lists, NEW selected, NEW s \in Nat, NEW height \in Nat \ {0}
  PROVE  LET a == MenuOf(items, selected, s, height)
         IN  MenuInv(a) /\ a.lit = ActedOn(a)
<1> DEFINE b == [is |-> "menu", items |-> items, selected |-> selected, s_scroll |-> s,
                 height |-> height, first |-> 0, scroll |-> 0, choice |-> 0, top |-> 0,
                 button |-> 0, lit |-> 0, rows |-> <<>>]
<1>1. items \in Seq(Nat)
  BY LxdialogAssumption
<1>2. Len(items) \in Nat
  BY <1>1, LenProperties
<1>3. MenuGiven(b) /\ b.button = 0
  BY <1>1, <1>2 DEF MenuGiven, Fields
<1>4. MenuOf(items, selected, s, height) = MenuDrawn(b, height)
  BY DEF MenuOf
<1> HIDE DEF b
<1> DEFINE a == MenuDrawn(b, height)
<1>5. MenuInv(a) /\ a.button = 0 /\ a.lit = 0
  BY <1>3, MenuIsDrawn
<1> HIDE DEF a
<1>6. a.is = "menu"
  BY <1>5 DEF MenuInv
<1> QED
  BY <1>4, <1>5, <1>6 DEF ActedOn, a

LEMMA MenuSteps ==
  ASSUME MenuInv(box), MenuKey \/ MenuSelect
  PROVE  MenuInv(box') /\ ButtonStep
<1> DEFINE u == Unlit(box)
<1>0. Placed(box) /\ IsList(box) /\ box.scroll \in Nat /\ box.height \in Nat \ {0}
  BY DEF MenuInv, Placed, IsList
<1>1. ASSUME item_count(box) # 0 PROVE Len(box.items) > 0
  <2>1. Len(box.items) \in Nat
    BY <1>0, MaxIs
  <2> QED
    BY <1>1, <2>1 DEF item_count
<1>2. ASSUME item_count(box) # 0
      PROVE  /\ Placed(u) /\ u.scroll = box.scroll /\ u.choice = box.choice
             /\ Len(u.items) > 0 /\ IsList(u) /\ max_choice(u) = max_choice(box) /\ max_choice(u) \in Nat
  BY <1>0, <1>1, <1>2, Unlights, KeptIs, MaxIs
<1>3. ASSUME item_count(box) # 0, box' = Lit(MenuUp(u)) PROVE MenuInv(box') /\ SameButton(box', box)
  <2>1. Placed(u) /\ Len(u.items) > 0 /\ u.scroll \in Nat
    BY <1>2, <1>3 DEF Placed
  <2> HIDE DEF u
  <2>2. CASE u.choice < 2 /\ u.scroll # 0
    <3>1. MenuUp(u) = ScrollBack(u) /\ u.scroll > 0
      BY <2>1, <2>2 DEF MenuUp
    <3>2. Goes(MenuUp(u), u)
      BY <2>1, <3>1, ScrollsBack
    <3> QED
      BY <1>1, <1>3, <3>2, MenuGoes DEF u
  <2>3. CASE ~(u.choice < 2 /\ u.scroll # 0)
    <3>1. MenuUp(u) = Above(u)
      BY <2>3 DEF MenuUp
    <3>2. Goes(MenuUp(u), u)
      BY <2>1, <3>1, GoesAbove
    <3> QED
      BY <1>1, <1>3, <3>2, MenuGoes DEF u
  <2> QED
    BY <2>2, <2>3
<1>4. ASSUME item_count(box) # 0, box' = Lit(MenuDown(u)) PROVE MenuInv(box') /\ SameButton(box', box)
  <2>1. Placed(u) /\ Len(u.items) > 0
    BY <1>2, <1>4
  <2> HIDE DEF u
  <2>2. CASE u.choice > max_choice(u) - 3 /\ MoreBelow(u)
    <3>1. MenuDown(u) = ScrollOn(u) /\ MoreBelow(u)
      BY <2>2 DEF MenuDown
    <3>2. Goes(MenuDown(u), u)
      BY <2>1, <3>1, ScrollsOn
    <3> QED
      BY <1>1, <1>4, <3>2, MenuGoes DEF u
  <2>3. CASE ~(u.choice > max_choice(u) - 3 /\ MoreBelow(u))
    <3>1. MenuDown(u) = Below(u)
      BY <2>3 DEF MenuDown
    <3>2. Goes(MenuDown(u), u)
      BY <2>1, <3>1, GoesBelow
    <3> QED
      BY <1>1, <1>4, <3>2, MenuGoes DEF u
  <2> QED
    BY <2>2, <2>3
<1>5. ASSUME item_count(box) # 0, box' = Lit(MenuPageUp(u)) PROVE MenuInv(box') /\ SameButton(box', box)
  <2>1. Placed(u) /\ Len(u.items) > 0 /\ max_choice(u) \in Nat
    BY <1>2, <1>5
  <2> HIDE DEF u
  <2>2. PICK f : IsRun("up", u, max_choice(u), f)
                 /\ f[max_choice(u)] = Times(max_choice(u), LAMBDA a : IF a.scroll > 0 THEN ScrollBack(a) ELSE Above(a), u)
    BY <2>1, UpTimes
  <2>3. MenuPageUp(u) = f[max_choice(u)]
    BY <2>2 DEF MenuPageUp
  <2>4. Goes(MenuPageUp(u), u)
    BY <2>1, <2>2, <2>3, Pages
  <2> QED
    BY <1>1, <1>5, <2>4, MenuGoes DEF u
<1>6. ASSUME item_count(box) # 0, box' = Lit(MenuPageDown(u)) PROVE MenuInv(box') /\ SameButton(box', box)
  <2>1. Placed(u) /\ Len(u.items) > 0 /\ max_choice(u) \in Nat
    BY <1>2, <1>6
  <2> HIDE DEF u
  <2>2. PICK f : IsRun("down", u, max_choice(u), f)
                 /\ f[max_choice(u)] = Times(max_choice(u), LAMBDA a : IF MoreBelow(a) THEN ScrollOn(a) ELSE Below(a), u)
    BY <2>1, DownTimes
  <2>3. MenuPageDown(u) = f[max_choice(u)]
    BY <2>2 DEF MenuPageDown
  <2>4. Goes(MenuPageDown(u), u)
    BY <2>1, <2>2, <2>3, Pages
  <2> QED
    BY <1>1, <1>6, <2>4, MenuGoes DEF u
<1>7. ASSUME item_count(box) # 0, NEW letter \in OnScreen(box), box' = Lit([u EXCEPT !.choice = LetterRow(box, letter)])
      PROVE  MenuInv(box') /\ SameButton(box', box)
  <2> DEFINE i == LetterRow(box, letter)
  <2>1. Placed(u) /\ Len(u.items) > 0 /\ max_choice(u) = max_choice(box)
    BY <1>2, <1>7
  <2>2. i \in Nat /\ i < max_choice(u)
    BY <1>0, <1>1, <1>7, <2>1, LetterIsInList
  <2>3. box' = Lit(ChoiceSet(u, i))
    BY <1>7 DEF ChoiceSet
  <2> HIDE DEF u, i
  <2>4. Goes(ChoiceSet(u, i), u)
    BY <2>1, <2>2, Chooses DEF Goes
  <2> QED
    BY <1>1, <1>7, <2>3, <2>4, MenuGoes DEF u
<1>8. ASSUME NEW by \in {-1, 1}, box' = Button(box, by, 4) PROVE MenuInv(box') /\ box'.lit = ActedOn(box')
  <2>1. /\ Placed(box') /\ DOMAIN box' = DOMAIN box /\ (Good(box) => Good(box')) /\ box'.lit = box'.button
        /\ \A f \in DOMAIN box \ {"button", "lit"} : box'[f] = box[f]
    BY <1>0, <1>8, ListButtons
  <2>2. box'.is = box.is /\ box'.s_scroll = box.s_scroll /\ box'.first = box.first /\ box'.top = box.top
    BY <1>0, <2>1 DEF MenuInv, IsList, Fields
  <2>3. box'.is = "menu"
    BY <2>2 DEF MenuInv
  <2> QED
    BY <2>1, <2>2, <2>3 DEF MenuInv, ActedOn
<1>9. ASSUME NEW height \in Heights, box' = MenuDrawn(box, height) PROVE MenuInv(box')
  BY <1>9, MenuAsGiven, MenuIsDrawn, LxdialogAssumption
<1>10. ASSUME MenuSelect PROVE MenuInv(box') /\ box'.lit = ActedOn(box')
  <2>1. PICK items \in Lists : box' = MenuOf(items, item_set(box, box.scroll + box.choice), box.scroll, box.height)
    BY <1>10 DEF MenuSelect
  <2> QED
    BY <1>0, <2>1, MenuIsOpened
<1> QED
  BY <1>3, <1>4, <1>5, <1>6, <1>7, <1>8, <1>9, <1>10 DEF MenuKey, MenuSelect, ButtonStep

----------------------------------------------------------------------------
(* The radio list. *)

CheckInv(b) == b.is = "check" /\ Placed(b) /\ Len(b.items) > 0 /\ b.height = ListHeight /\ Good(b)

LEMMA CheckKept ==
  ASSUME NEW b, NEW a, CheckInv(b), Placed(a), Kept(a, b), Good(a)
  PROVE  CheckInv(a) /\ SameButton(a, b)
<1>1. IsList(b)
  BY DEF CheckInv, Placed
<1>2. a.is = b.is /\ a.items = b.items /\ a.height = b.height /\ a.button = b.button /\ a.lit = b.lit
  BY <1>1, KeptIs
<1> QED
  BY <1>2 DEF CheckInv, SameButton

LEMMA CheckGoes ==
  ASSUME NEW b, CheckInv(b), NEW d, Goes(d, Unlit(b))
  PROVE  CheckInv(Lit(d)) /\ SameButton(Lit(d), b)
<1>1. Placed(b) /\ Len(b.items) > 0 /\ Good(b)
  BY DEF CheckInv
<1>2. Placed(Lit(d)) /\ Kept(Lit(d), b) /\ (Good(b) => Good(Lit(d)))
  BY <1>1, KeyKeepsRows
<1> QED
  BY <1>1, <1>2, CheckKept

CheckSet(b, scroll, choice, lit) ==
  [b EXCEPT !.scroll = scroll, !.choice = choice, !.first = scroll, !.top = scroll, !.lit = lit]

LEMMA CheckSetIs ==
  ASSUME NEW b, Fields \subseteq DOMAIN b, NEW scroll, NEW choice, NEW lit
  PROVE  LET a == CheckSet(b, scroll, choice, lit)
         IN  /\ DOMAIN a = DOMAIN b /\ a.scroll = scroll /\ a.choice = choice
             /\ a.items = b.items /\ a.height = b.height /\ a.is = b.is
             /\ a.button = b.button /\ a.lit = lit
BY DEF CheckSet, Fields

\* How far a radio list has to be scrolled to show the item at a place of it.
Past(choice) == Most(choice - ListHeight + 1, 0)
ScrollPast(b) == IF Past(b.choice) > 0 THEN Past(b.choice) ELSE b.scroll

LEMMA CheckPlace ==
  ASSUME NEW b, IsList(b), Len(b.items) > 0, b.height = ListHeight, b.scroll \in Nat, b.choice \in Nat,
         b.choice < Len(b.items), b.scroll + max_choice(b) <= Len(b.items)
  PROVE  /\ ScrollPast(b) \in Nat /\ b.choice - Past(b.choice) \in Nat
         /\ ScrollPast(b) + max_choice(b) <= Len(b.items) /\ b.choice - Past(b.choice) < max_choice(b)
<1> DEFINE past == Past(b.choice)
<1>1. /\ Len(b.items) \in Nat /\ max_choice(b) \in Nat /\ ListHeight \in Nat /\ ListHeight > 0
      /\ max_choice(b) <= Len(b.items) /\ max_choice(b) <= ListHeight
      /\ (max_choice(b) < Len(b.items) => max_choice(b) = ListHeight)
  BY MaxIs, LxdialogAssumption
<1>2. past = IF b.choice - ListHeight + 1 > 0 THEN b.choice - ListHeight + 1 ELSE 0
  BY DEF Past, Most
<1>3. ScrollPast(b) = IF past > 0 THEN past ELSE b.scroll
  BY DEF ScrollPast
<1> HIDE DEF past
<1>4. CASE b.choice - ListHeight + 1 > 0
  <2>1. past = b.choice - ListHeight + 1 /\ past > 0 /\ ScrollPast(b) = past
    BY <1>1, <1>2, <1>3, <1>4
  <2>2. past \in Nat /\ b.choice - past = ListHeight - 1 /\ max_choice(b) = ListHeight
    BY <1>1, <1>4, <2>1
  <2>3. past + max_choice(b) <= Len(b.items)
    BY <1>1, <2>1, <2>2
  <2>4. ListHeight - 1 \in Nat /\ ListHeight - 1 < max_choice(b)
    BY <1>1, <2>2
  <2> QED
    BY <2>1, <2>2, <2>3, <2>4 DEF past
<1>5. CASE ~(b.choice - ListHeight + 1 > 0)
  <2>1. past = 0 /\ ScrollPast(b) = b.scroll /\ b.choice < ListHeight
    BY <1>1, <1>2, <1>3, <1>5
  <2>2. b.choice < max_choice(b) /\ b.choice - 0 = b.choice
    BY <1>1, <2>1
  <2> QED
    BY <2>1, <2>2 DEF past
<1> QED
  BY <1>4, <1>5

LEMMA CheckIsDrawn ==
  ASSUME NEW b, b.is = "check", IsList(b), Len(b.items) > 0, b.height = ListHeight, b.scroll \in Nat,
         b.choice \in Nat, b.choice < Len(b.items), b.scroll + max_choice(b) <= Len(b.items)
  PROVE  CheckInv(CheckDrawn(b)) /\ CheckDrawn(b).button = b.button /\ CheckDrawn(b).lit = 0
<1> DEFINE scroll == ScrollPast(b)
           choice == b.choice - Past(b.choice)
           lit == 0
           a == CheckSet(b, scroll, choice, lit)
           d == Printed(a, scroll)
<1>1. CheckDrawn(b) = d
  BY DEF CheckDrawn, CheckSet, ScrollPast, Past
<1>2. scroll \in Nat /\ choice \in Nat /\ scroll + max_choice(b) <= Len(b.items) /\ choice < max_choice(b)
  BY CheckPlace
<1>3. Fields \subseteq DOMAIN b /\ b.items \in Seq(Nat) /\ b.height \in Nat \ {0}
  BY DEF IsList
<1>8. lit = 0
  OBVIOUS
<1> HIDE DEF scroll, choice, lit, a
<1>4. /\ DOMAIN a = DOMAIN b /\ a.scroll = scroll /\ a.choice = choice
      /\ a.items = b.items /\ a.height = b.height /\ a.is = b.is
      /\ a.button = b.button /\ a.lit = lit
  BY <1>3, CheckSetIs DEF a
<1>5. max_choice(a) = max_choice(b)
  BY <1>4 DEF max_choice, item_count
<1>6. /\ Placed(d) /\ DOMAIN d = DOMAIN a /\ (scroll = a.scroll => Good(d))
      /\ \A f \in DOMAIN a \ {"rows"} : d[f] = a[f]
  BY <1>2, <1>3, <1>4, <1>5, Printing
<1> HIDE DEF d
<1>7. d.is = "check" /\ d.items = b.items /\ d.height = b.height /\ d.button = b.button /\ d.lit = 0
  BY <1>3, <1>4, <1>6, <1>8 DEF Fields
<1> QED
  BY <1>1, <1>4, <1>6, <1>7 DEF CheckInv

LEMMA CheckIsOpened ==
  ASSUME NEW items \in Lists, items # <<>>, NEW at \in 0 .. (Len(items) - 1)
  PROVE  CheckInv(CheckOf(items, at)) /\ CheckOf(items, at).lit = ActedOn(CheckOf(items, at))
<1> DEFINE b == [is |-> "check", items |-> items, height |-> ListHeight, first |-> 0,
                 scroll |-> 0, choice |-> at, top |-> 0, button |-> 0, lit |-> 0, rows |-> <<>>]
<1>1. items \in Seq(Nat) /\ ListHeight \in Nat \ {0}
  BY LxdialogAssumption
<1>2. Len(items) \in Nat /\ Len(items) > 0 /\ at \in Nat /\ at < Len(items)
  BY <1>1, LenProperties
<1>3. /\ b.is = "check" /\ IsList(b) /\ Len(b.items) > 0 /\ b.height = ListHeight /\ b.scroll = 0
      /\ b.choice \in Nat /\ b.choice < Len(b.items) /\ b.button = 0
  BY <1>1, <1>2 DEF IsList, Fields
<1>4. CheckOf(items, at) = CheckDrawn(b)
  BY DEF CheckOf
<1> HIDE DEF b
<1>5. b.scroll \in Nat /\ b.scroll + max_choice(b) <= Len(b.items)
  BY <1>3, MaxIs
<1> DEFINE a == CheckDrawn(b)
<1>6. CheckInv(a) /\ a.button = 0 /\ a.lit = 0
  BY <1>3, <1>5, CheckIsDrawn
<1> HIDE DEF a
<1>7. a.is = "check"
  BY <1>6 DEF CheckInv
<1> QED
  BY <1>4, <1>6, <1>7 DEF ActedOn, a

\* A key that scrolls a radio list: its highlight stays at the edge.
LEMMA CheckScrolls ==
  ASSUME NEW b, CheckInv(b), NEW k \in {-1, 1}, b.scroll + k >= 0,
         b.scroll + k + max_choice(b) <= Len(b.items),
         b.choice = IF k = -1 THEN 0 ELSE max_choice(b) - 1
  PROVE  CheckInv(CheckScroll(b, k)) /\ SameButton(CheckScroll(b, k), b)
<1> DEFINE u == Unlit(b)
           d == do_scroll(u, k)
           s == b.scroll + k
           e == ScrollSet(b, s, b.rows)
<1>0. Placed(b) /\ IsList(b) /\ Len(b.items) > 0 /\ Good(b) /\ b.height = ListHeight /\ Fields \subseteq DOMAIN b
  BY DEF CheckInv, Placed, IsList
<1>1. /\ max_choice(b) \in Nat /\ max_choice(b) > 0 /\ max_choice(b) <= ListHeight /\ ListHeight \in Nat
      /\ s \in Nat /\ s + max_choice(b) <= Len(b.items) /\ b.choice \in Nat
  BY <1>0, MaxIs, LxdialogAssumption DEF Placed
<1>2. CASE ListHeight > 1
  <2>1. /\ Placed(u) /\ Kept(u, b) /\ u.scroll = b.scroll /\ u.choice = b.choice /\ Plain(u)
    BY <1>0, Unlights
  <2>2. CheckScroll(b, k) = Lit(d)
    BY <1>2 DEF CheckScroll
  <2> HIDE DEF u
  <2>3. u.items = b.items /\ max_choice(u) = max_choice(b) /\ RowsOf(u) = RowsOf(b) /\ IsList(u)
    BY <1>0, <2>1, KeptIs
  <2>4. u.scroll + k >= 0 /\ u.scroll + k + max_choice(u) <= Len(u.items)
    BY <2>1, <2>3
  <2>5. /\ Placed(d) /\ Kept(d, u) /\ d.choice = u.choice
        /\ \A r \in RowsOf(u) : r + k \in RowsOf(u) => RowIs(d, r, FALSE)
    BY <2>1, <2>4, Scrolls
  <2> HIDE DEF d
  <2>6. Kept(d, b) /\ RowsOf(d) = RowsOf(b) /\ d.items = b.items
    BY <1>0, <2>1, <2>3, <2>5, KeptTwice, KeptIs
  <2>7. ASSUME NEW r \in RowsOf(b) \ {b.choice} PROVE r + k \in RowsOf(b)
    BY <1>1 DEF RowsOf
  <2>8. AllBut(d, d.choice)
    <3>1. ASSUME NEW r \in RowsOf(b) \ {b.choice} PROVE RowIs(d, r, FALSE)
      BY <2>3, <2>5, <2>7
    <3> QED
      BY <2>1, <2>5, <2>6, <3>1 DEF AllBut
  <2>9. Placed(Lit(d)) /\ Kept(Lit(d), d) /\ Good(Lit(d))
    BY <1>0, <2>5, <2>6, <2>8, Lights
  <2> QED
    BY <2>2, <2>6, <2>9, KeptTwice, CheckKept
<1>3. CASE ~(ListHeight > 1)
  <2>1. CheckScroll(b, k) = Lit(e)
    <3>1. e = [b EXCEPT !.scroll = b.scroll + k]
      BY <1>0 DEF ScrollSet, Fields
    <3> HIDE DEF e
    <3> QED
      BY <1>3, <3>1 DEF CheckScroll
  <2>2. max_choice(b) = 1
    BY <1>1, <1>3
  <2> HIDE DEF s
  <2>3. Kept(e, b) /\ e.scroll = s /\ e.choice = b.choice /\ e.rows = b.rows
    BY <1>0 DEF ScrollSet, Fields, Kept
  <2> HIDE DEF e
  <2>4. Placed(e)
    BY <1>0, <1>1, <2>3, PlacedAgain DEF Placed
  <2>5. RowsOf(e) = RowsOf(b) /\ e.items = b.items
    BY <1>0, <2>3, KeptIs
  <2>6. b.choice = 0 /\ RowsOf(b) = {0}
    BY <2>2 DEF RowsOf
  <2>7. AllBut(e, e.choice)
    BY <2>3, <2>5, <2>6 DEF AllBut
  <2>8. Placed(Lit(e)) /\ Kept(Lit(e), e) /\ Good(Lit(e))
    BY <1>0, <2>4, <2>5, <2>7, Lights
  <2> QED
    BY <2>1, <2>3, <2>8, KeptTwice, CheckKept
<1> QED
  BY <1>2, <1>3

LEMMA CheckSteps ==
  ASSUME CheckInv(box), CheckKey
  PROVE  CheckInv(box') /\ ButtonStep
<1> DEFINE u == Unlit(box)
           n == Len(box.items)
<1>0. /\ Placed(box) /\ IsList(box) /\ n > 0 /\ n \in Nat /\ box.scroll \in Nat /\ box.choice \in Nat
      /\ max_choice(box) \in Nat /\ box.choice < max_choice(box) /\ max_choice(box) <= n
      /\ box.scroll + max_choice(box) <= n /\ box.is = "check" /\ box.height = ListHeight
  BY MaxIs DEF CheckInv, Placed
<1>1. Placed(u) /\ Len(u.items) > 0 /\ max_choice(u) = max_choice(box)
  BY <1>0, Unlights, KeptIs
<1>2. ASSUME box' = CheckUp(box) PROVE CheckInv(box') /\ SameButton(box', box)
  <2>1. CASE box.choice # 0
    <3>1. box' = Lit(Above(u))
      BY <1>2, <2>1 DEF CheckUp
    <3> HIDE DEF u
    <3>2. Goes(Above(u), u)
      BY <1>1, GoesAbove
    <3> QED
      BY <3>1, <3>2, CheckGoes DEF u
  <2>2. CASE box.choice = 0 /\ box.scroll = 0
    BY <1>2, <2>2 DEF CheckUp, SameButton
  <2>3. CASE box.choice = 0 /\ box.scroll # 0
    <3> DEFINE k == -1
    <3>1. box' = CheckScroll(box, k)
      BY <1>2, <2>3 DEF CheckUp
    <3>2. k \in {-1, 1} /\ box.scroll + k >= 0 /\ box.scroll + k + max_choice(box) <= Len(box.items) /\ k = -1
      BY <1>0, <2>3
    <3> HIDE DEF k
    <3> QED
      BY <2>3, <3>1, <3>2, CheckScrolls
  <2> QED
    BY <2>1, <2>2, <2>3
<1>3. ASSUME box' = CheckDown(box) PROVE CheckInv(box') /\ SameButton(box', box)
  <2>1. CASE box.choice # max_choice(box) - 1
    <3>1. box' = Lit(Below(u))
      BY <1>3, <2>1 DEF CheckDown
    <3> HIDE DEF u
    <3>2. Goes(Below(u), u)
      BY <1>1, GoesBelow
    <3> QED
      BY <3>1, <3>2, CheckGoes DEF u
  <2>2. CASE box.choice = max_choice(box) - 1 /\ box.scroll + box.choice >= item_count(box) - 1
    BY <1>3, <2>2 DEF CheckDown, SameButton
  <2>3. CASE box.choice = max_choice(box) - 1 /\ ~(box.scroll + box.choice >= item_count(box) - 1)
    <3> DEFINE k == 1
    <3>1. box' = CheckScroll(box, k)
      BY <1>3, <2>3 DEF CheckDown
    <3>2. k \in {-1, 1} /\ box.scroll + k >= 0 /\ box.scroll + k + max_choice(box) <= Len(box.items) /\ k # -1
      BY <1>0, <2>3 DEF item_count
    <3> HIDE DEF k
    <3> QED
      BY <2>3, <3>1, <3>2, CheckScrolls
  <2> QED
    BY <2>1, <2>2, <2>3
<1>4. ASSUME NEW letter \in OnScreen(box), box' = CheckLetter(box, letter) PROVE CheckInv(box') /\ SameButton(box', box)
  <2> DEFINE zero == 0
             last == max_choice(box) - 1
             i == FirstWith(box, letter, zero, last)
  <2>1. box' = Lit(ChoiceSet(u, i))
    BY <1>4 DEF CheckLetter, ChoiceSet, FirstWith, First
  <2>2. PICK x \in zero .. last : x \in RowsWith(box, letter)
    BY <1>0, LetterIsThere
  <2>3. zero \in Nat /\ last \in Int
    BY <1>0
  <2>4. i \in zero .. last
    <3> HIDE DEF zero, last
    <3> QED
      BY <2>2, <2>3, FirstIs
  <2>5. i \in Nat /\ i < max_choice(u)
    BY <1>0, <1>1, <2>4
  <2> HIDE DEF u, i
  <2>6. Goes(ChoiceSet(u, i), u)
    BY <1>1, <2>5, Chooses DEF Goes
  <2> QED
    BY <2>1, <2>6, CheckGoes DEF u
<1>5. ASSUME NEW by \in {-1, 1}, box' = Button(box, by, 1) PROVE CheckInv(box') /\ box'.lit = ActedOn(box')
  <2>1. /\ Placed(box') /\ DOMAIN box' = DOMAIN box /\ (Good(box) => Good(box')) /\ box'.lit = box'.button
        /\ \A f \in DOMAIN box \ {"button", "lit"} : box'[f] = box[f]
    BY <1>0, <1>5, ListButtons
  <2>2. box'.is = box.is /\ box'.items = box.items /\ box'.height = box.height
    BY <1>0, <2>1 DEF IsList, Fields
  <2>3. box'.is = "check"
    BY <1>0, <2>2
  <2> QED
    BY <2>1, <2>2, <2>3 DEF CheckInv, ActedOn
<1>6. ASSUME box' = CheckDrawn(box) PROVE CheckInv(box')
  <2>1. box.choice < Len(box.items)
    BY <1>0
  <2> QED
    BY <1>0, <1>6, <2>1, CheckIsDrawn
<1> QED
  BY <1>2, <1>3, <1>4, <1>5, <1>6 DEF CheckKey, ButtonStep

----------------------------------------------------------------------------
(* The text: what its pages rest on is that it stays a text. *)

TextFields == {"is", "lines", "empty", "jumps", "page", "begin_reached", "end_reached", "page_length", "hscroll", "rows", "key"}
TextInv(t) ==
  /\ TextFields \subseteq DOMAIN t
  /\ t.is = "text" /\ t.lines \in Nat \ {0} /\ t.page \in Int /\ t.page_length \in Int
  /\ t.jumps => t.empty
SameText(a, t) == a.lines = t.lines /\ a.empty = t.empty /\ a.jumps = t.jumps

PageSet(t, length, rows) == [t EXCEPT !.page_length = length, !.rows = rows]

LEMMA LineStays ==
  ASSUME NEW t, TextInv(t)
  PROVE  TextInv(get_line(t)) /\ SameText(get_line(t), t)
<1>1. End(t) \in Int /\ t.page + 1 \in Int
  BY DEF TextInv, End
<1> DEFINE to == End(t)
           on == t.page + 1
           yes == TRUE
           no == FALSE
           a == [t EXCEPT !.end_reached = yes, !.page = to]
           d == [t EXCEPT !.end_reached = no, !.page = on]
<1>2. get_line(t) = a \/ get_line(t) = d
  BY DEF get_line
<1> HIDE DEF to, on, yes, no
<1>3. TextInv(a) /\ SameText(a, t)
  BY <1>1 DEF TextInv, TextFields, SameText, to
<1>4. TextInv(d) /\ SameText(d, t)
  BY <1>1 DEF TextInv, TextFields, SameText, on
<1> QED
  BY <1>2, <1>3, <1>4

LEMMA BackStays ==
  ASSUME NEW t, TextInv(t), NEW k \in Int
  PROVE  TextInv(back_lines(t, k)) /\ SameText(back_lines(t, k), t) /\ back_lines(t, k).page >= 1
<1> DEFINE atEnd == t.page = End(t) /\ t.end_reached /\ k > 0
           to == t.page - (IF atEnd THEN k - 1 ELSE k)
           ends == t.end_reached /\ ~atEnd
           begins == IF atEnd THEN to <= 1 /\ k > 1 ELSE to <= 1 /\ k > 0
           page == Most(to, 1)
           a == [t EXCEPT !.end_reached = ends, !.begin_reached = begins, !.page = page]
<1>1. back_lines(t, k) = a
  BY DEF back_lines
<1>2. to \in Int
  BY DEF TextInv
<1> HIDE DEF to
<1>3. page \in Int /\ page >= 1
  BY <1>2 DEF Most
<1> HIDE DEF ends, begins, page
<1>4. TextInv(a) /\ SameText(a, t) /\ a.page = page
  BY <1>3 DEF TextInv, SameText, TextFields
<1> QED
  BY <1>1, <1>3, <1>4

LEMMA LinesStay ==
  ASSUME NEW t, TextInv(t), NEW k \in Nat, NEW f, IsRun("line", t, k, f)
  PROVE  \A i \in 0 .. k : TextInv(f[i]) /\ SameText(f[i], t)
<1> DEFINE S == {i \in 0 .. k : TextInv(f[i]) /\ SameText(f[i], t)}
<1>1. 0 \in S
  BY RunSteps DEF RunIs, SameText
<1>2. ASSUME NEW i \in Nat, i < k, i \in S PROVE i + 1 \in S
  <2>1. TextInv(f[i]) /\ SameText(f[i], t) /\ f[i + 1] = get_line(f[i])
    <3>1. f[i + 1] = StepOf("line", f[i])
      BY <1>2, RunSteps DEF RunIs
    <3> QED
      BY <1>2, <3>1 DEF StepOf
  <2>2. TextInv(f[i + 1]) /\ SameText(f[i + 1], t)
    <3>1. TextInv(get_line(f[i])) /\ SameText(get_line(f[i]), f[i])
      BY <2>1, LineStays
    <3> QED
      BY <2>1, <3>1 DEF SameText
  <2>3. i + 1 \in 0 .. k
    BY <1>2
  <2> QED
    BY <2>2, <2>3
<1>3. \A i \in 0 .. k : i \in S
  <2> HIDE DEF S
  <2> QED
    BY <1>1, <1>2, UpTo
<1> QED
  BY <1>3

LEMMA TimesStays ==
  ASSUME NEW t, TextInv(t), NEW k \in Nat
  PROVE  TextInv(Times(k, get_line, t)) /\ SameText(Times(k, get_line, t), t)
<1>1. PICK f : IsRun("line", t, k, f) /\ f[k] = Times(k, get_line, t)
  BY LinesTimes
<1>2. TextInv(f[k]) /\ SameText(f[k], t)
  BY <1>1, LinesStay
<1> QED
  BY <1>1, <1>2

LEMMA PageStays ==
  ASSUME NEW t0, TextInv(t0)
  PROVE  TextInv(print_page(t0)) /\ SameText(print_page(t0), t0)
<1> DEFINE through == Times(BoxHeight, get_line, t0)
           t == IF t0.jumps THEN back_lines(through, BoxHeight) ELSE t0
           line == CHOOSE g : g = [i \in 0 .. BoxHeight |-> LinesAt(t, g, i)]
           ends == {i \in 1 .. BoxHeight : line[i].end_reached}
           At(i) == i \in ends /\ \A j \in 1 .. (i - 1) : ~(j \in ends)
           first == CHOOSE i \in 1 .. BoxHeight : At(i)
           length == IF ends = {} THEN BoxHeight ELSE first
           shown == [i \in 0 .. (BoxHeight - 1) |-> [line |-> LineAt(line[i]), from |-> t.hscroll]]
<1>0. BoxHeight \in Nat /\ BoxHeight \in Int
  BY LxdialogAssumption
<1>1. print_page(t0) = PageSet(line[BoxHeight], length, shown)
  BY DEF print_page, PageSet, LinesAt, First
<1>2. TextInv(t) /\ SameText(t, t0)
  <2>1. TextInv(through) /\ SameText(through, t0)
    BY <1>0, TimesStays
  <2> HIDE DEF through
  <2>2. TextInv(back_lines(through, BoxHeight)) /\ SameText(back_lines(through, BoxHeight), t0)
    BY <1>0, <2>1, BackStays DEF SameText
  <2> QED
    BY <2>2 DEF SameText
<1> HIDE DEF t
<1>3. IsRun("line", t, BoxHeight, line)
  <2>1. \A f, i : StepAt("line", t, f, i) = LinesAt(t, f, i)
    BY DEF StepAt, StepOf, LinesAt
  <2>2. PICK f : IsRun("line", t, BoxHeight, f)
    BY <1>0, RunExists
  <2>3. f = [i \in 0 .. BoxHeight |-> LinesAt(t, f, i)]
    BY <2>1, <2>2 DEF IsRun
  <2>4. line = [i \in 0 .. BoxHeight |-> LinesAt(t, line, i)]
    BY <2>3
  <2> HIDE DEF line
  <2> QED
    BY <2>1, <2>4 DEF IsRun
<1> HIDE DEF line
<1>4. TextInv(line[BoxHeight]) /\ SameText(line[BoxHeight], t0)
  <2>1. \A i \in 0 .. BoxHeight : TextInv(line[i]) /\ SameText(line[i], t)
    BY <1>0, <1>2, <1>3, LinesStay
  <2> QED
    BY <1>0, <1>2, <2>1 DEF SameText
<1>5. length \in Int
  <2>1. CASE ends = {}
    BY <1>0, <2>1
  <2>2. CASE ends # {}
    <3> DEFINE one == 1
    <3>1. PICK x \in one .. BoxHeight : x \in ends
      BY <2>2
    <3>2. one \in Nat
      OBVIOUS
    <3>3. \E i \in one .. BoxHeight : i \in ends /\ \A j \in one .. (i - 1) : j \notin ends
      <4> HIDE DEF one, ends
      <4> QED
        BY <1>0, <3>1, <3>2, FirstRow
    <3>4. \E i \in 1 .. BoxHeight : At(i)
      BY <3>3
    <3>5. first \in 1 .. BoxHeight
      <4> HIDE DEF At
      <4> QED
        BY <3>4
    <3> HIDE DEF first, ends
    <3> QED
      BY <2>2, <3>5
  <2> QED
    BY <2>1, <2>2
<1> HIDE DEF length, shown
<1>6. TextInv(PageSet(line[BoxHeight], length, shown)) /\ SameText(PageSet(line[BoxHeight], length, shown), t0)
  BY <1>4, <1>5 DEF TextInv, TextFields, PageSet, SameText
<1> QED
  BY <1>1, <1>6

FlagsSet(t, begins, ends, page, hscroll) ==
  [t EXCEPT !.begin_reached = begins, !.end_reached = ends, !.page = page, !.hscroll = hscroll]
LEMMA FlagsStay ==
  ASSUME NEW t, TextInv(t), NEW begins, NEW ends, NEW page \in Int, NEW hscroll
  PROVE  /\ TextInv(FlagsSet(t, begins, ends, page, hscroll))
         /\ SameText(FlagsSet(t, begins, ends, page, hscroll), t)
BY DEF TextInv, TextFields, FlagsSet, SameText

Stays(a, t) == TextInv(a) /\ SameText(a, t)
LEMMA TextMoves ==
  ASSUME NEW t, TextInv(t), NEW key \in TextKeys
  PROVE  Stays(TextMoved(t, key), t)
<1>0. /\ t.page \in Int /\ t.page_length \in Int /\ End(t) \in Int /\ BoxHeight \in Int /\ 1 \in Int
      /\ TextFields \subseteq DOMAIN t
  BY LxdialogAssumption DEF TextInv, End
<1> DEFINE Set(begins, ends, page, hscroll) == FlagsSet(t, begins, ends, page, hscroll)
           home == Set(TRUE, t.end_reached, 1, t.hscroll)
           end == Set(t.begin_reached, TRUE, End(t), t.hscroll)
           Across(h) == Set(t.begin_reached, t.end_reached, t.page, h)
           pgdn == Set(FALSE, t.end_reached, t.page, t.hscroll)
<1>1. /\ home = [t EXCEPT !.begin_reached = TRUE, !.page = 1]
      /\ end = [t EXCEPT !.end_reached = TRUE, !.page = End(t)]
      /\ pgdn = [t EXCEPT !.begin_reached = FALSE]
  BY <1>0 DEF FlagsSet, TextFields
<1>2. \A h : Across(h) = [t EXCEPT !.hscroll = h]
  BY <1>0 DEF FlagsSet, TextFields
<1>3. Stays(home, t) /\ Stays(end, t) /\ Stays(pgdn, t) /\ \A h : Stays(Across(h), t)
  BY <1>0, FlagsStay DEF Stays
<1> HIDE DEF home, end, pgdn, Across
<1>4. \A h : \A k \in Int : Stays(back_lines(Across(h), k), t)
  BY <1>3, BackStays DEF Stays, SameText
<1>5. \A k \in Int : Stays(back_lines(t, k), t) /\ Stays(back_lines(end, k), t)
  BY <1>3, BackStays DEF Stays, SameText
<1>6. t.page_length + 1 \in Int /\ t.page_length - 1 \in Int /\ t.page_length + BoxHeight \in Int /\ BoxHeight + 4 \in Int
  BY <1>0
<1>7. CASE key = "home"
  BY <1>1, <1>3, <1>7 DEF TextMoved
<1>8. CASE key = "end"
  BY <1>0, <1>1, <1>5, <1>8 DEF TextMoved
<1>9. CASE key = "up"
  BY <1>5, <1>6, <1>9 DEF TextMoved
<1>10. CASE key = "pgup"
  BY <1>5, <1>6, <1>10 DEF TextMoved
<1>11. CASE key = "down"
  BY <1>5, <1>6, <1>11 DEF TextMoved
<1>12. CASE key = "pgdn"
  BY <1>1, <1>3, <1>12 DEF TextMoved
<1>13. CASE key = "left"
  <2>1. TextMoved(t, key) = back_lines(Across(t.hscroll - 1), t.page_length)
    BY <1>2, <1>13 DEF TextMoved
  <2> QED
    BY <1>0, <1>4, <2>1
<1>14. CASE key = "0"
  <2>1. TextMoved(t, key) = back_lines(Across(0), t.page_length)
    BY <1>2, <1>14 DEF TextMoved
  <2> QED
    BY <1>0, <1>4, <2>1
<1>15. CASE key = "right"
  <2>1. TextMoved(t, key) = back_lines(Across(t.hscroll + 1), t.page_length)
    BY <1>2, <1>15 DEF TextMoved
  <2> QED
    BY <1>0, <1>4, <2>1
<1>16. CASE key = "resize"
  BY <1>5, <1>6, <1>16 DEF TextMoved
<1> QED
  BY <1>7, <1>8, <1>9, <1>10, <1>11, <1>12, <1>13, <1>14, <1>15, <1>16 DEF TextKeys

----------------------------------------------------------------------------
(* Where the page of a text is, for one that ends in a newline. *)

EmptyText(t) == TextInv(t) /\ t.empty
\* Read up to page q.
At(t, q) == EmptyText(t) /\ t.page = q /\ q \in 1 .. t.lines
\* Printed from line p on.
Paged(t, p) ==
  /\ EmptyText(t) /\ p \in 1 .. t.lines
  /\ t.page = Least(p + BoxHeight, t.lines)
  /\ t.end_reached <=> p + BoxHeight - 1 >= t.lines
  /\ t.page_length = IF p + BoxHeight - 1 >= t.lines THEN t.lines - p + 1 ELSE BoxHeight
  /\ t.jumps => p <= Full(t)

LEMMA LineIs ==
  ASSUME NEW t, NEW q, At(t, q)
  PROVE  LET a == get_line(t)
         IN  /\ At(a, Least(q + 1, t.lines)) /\ SameText(a, t) /\ (a.end_reached <=> q >= t.lines)
<1> DEFINE a == get_line(t)
           yes == TRUE
           no == FALSE
           to == t.lines
           on == t.page + 1
<1>0. TextFields \subseteq DOMAIN t /\ t.lines \in Nat \ {0} /\ t.page = q /\ q \in 1 .. t.lines /\ t.empty
  BY DEF At, EmptyText, TextInv
<1>1. End(t) = to
  BY <1>0 DEF End
<1>2. CASE q >= t.lines
  <2>1. a = [t EXCEPT !.end_reached = yes, !.page = to]
    BY <1>0, <1>1, <1>2 DEF get_line
  <2> HIDE DEF a, yes, to
  <2>2. a.end_reached = yes /\ a.page = to /\ a.lines = t.lines /\ a.empty = t.empty /\ a.jumps = t.jumps
    BY <1>0, <2>1 DEF TextFields
  <2>3. Least(q + 1, t.lines) = t.lines
    BY <1>0, <1>2 DEF Least
  <2>4. TextInv(a)
    BY LineStays DEF a, At, EmptyText
  <2> QED
    BY <1>0, <1>2, <2>2, <2>3, <2>4 DEF At, EmptyText, SameText, yes, a, to
<1>3. CASE ~(q >= t.lines)
  <2>1. a = [t EXCEPT !.end_reached = no, !.page = on]
    BY <1>0, <1>3 DEF get_line
  <2> HIDE DEF a, no, on
  <2>2. a.end_reached = no /\ a.page = on /\ a.lines = t.lines /\ a.empty = t.empty /\ a.jumps = t.jumps
    BY <1>0, <2>1 DEF TextFields
  <2>3. Least(q + 1, t.lines) = q + 1 /\ on = q + 1 /\ q + 1 \in 1 .. t.lines
    BY <1>0, <1>3 DEF Least, on
  <2>4. TextInv(a)
    BY LineStays DEF a, At, EmptyText
  <2> QED
    BY <1>0, <1>3, <2>2, <2>3, <2>4 DEF At, EmptyText, SameText, no, a
<1> QED
  BY <1>2, <1>3

LEMMA LinesAre ==
  ASSUME NEW t, NEW q, At(t, q), NEW k \in Nat, NEW f, IsRun("line", t, k, f)
  PROVE  \A i \in 0 .. k : /\ At(f[i], Least(q + i, t.lines)) /\ SameText(f[i], t)
                           /\ i > 0 => (f[i].end_reached <=> q + i - 1 >= t.lines)
<1> DEFINE Is(i) == /\ At(f[i], Least(q + i, t.lines)) /\ SameText(f[i], t)
                    /\ i > 0 => (f[i].end_reached <=> q + i - 1 >= t.lines)
           S == {i \in 0 .. k : Is(i)}
<1>0. q \in Nat /\ q <= t.lines /\ t.lines \in Nat /\ q > 0
  BY DEF At, EmptyText, TextInv
<1>1. 0 \in S
  <2>1. f[0] = t
    BY RunSteps DEF RunIs
  <2>2. Least(q + 0, t.lines) = q
    BY <1>0 DEF Least
  <2>3. SameText(t, t)
    BY DEF SameText
  <2> QED
    BY <2>1, <2>2, <2>3
<1>2. ASSUME NEW i \in Nat, i < k, i \in S PROVE i + 1 \in S
  <2> DEFINE r == Least(q + i, t.lines)
  <2>1. f[i + 1] = get_line(f[i])
    <3>1. f[i + 1] = StepOf("line", f[i])
      BY <1>2, RunSteps DEF RunIs
    <3> QED
      BY <3>1 DEF StepOf
  <2>2. At(f[i], r) /\ SameText(f[i], t) /\ f[i].lines = t.lines
    BY <1>2 DEF SameText
  <2> HIDE DEF r
  <2>3. /\ At(f[i + 1], Least(r + 1, f[i].lines)) /\ SameText(f[i + 1], f[i])
        /\ f[i + 1].end_reached <=> r >= f[i].lines
    BY <2>1, <2>2, LineIs
  <2>4. Least(r + 1, t.lines) = Least(q + (i + 1), t.lines) /\ (r >= t.lines <=> q + (i + 1) - 1 >= t.lines)
    BY <1>0 DEF r, Least
  <2>5. SameText(f[i + 1], t)
    BY <2>2, <2>3 DEF SameText
  <2>6. i + 1 \in 0 .. k
    BY <1>2
  <2>7. Is(i + 1)
    BY <2>2, <2>3, <2>4, <2>5
  <2> QED
    BY <2>6, <2>7
<1>3. \A i \in 0 .. k : i \in S
  <2> HIDE DEF S
  <2> QED
    BY <1>1, <1>2, UpTo
<1> QED
  BY <1>3

LEMMA BackIs ==
  ASSUME NEW t, EmptyText(t), NEW k \in Int
  PROVE  LET a == back_lines(t, k)
             to == IF t.page = t.lines /\ t.end_reached /\ k > 0 THEN t.page - k + 1 ELSE t.page - k
         IN  EmptyText(a) /\ SameText(a, t) /\ a.page = Most(to, 1)
<1> DEFINE atEnd == t.page = End(t) /\ t.end_reached /\ k > 0
           to == t.page - (IF atEnd THEN k - 1 ELSE k)
           ends == t.end_reached /\ ~atEnd
           begins == IF atEnd THEN to <= 1 /\ k > 1 ELSE to <= 1 /\ k > 0
           page == Most(to, 1)
           a == [t EXCEPT !.end_reached = ends, !.begin_reached = begins, !.page = page]
           s == IF t.page = t.lines /\ t.end_reached /\ k > 0 THEN t.page - k + 1 ELSE t.page - k
<1>0. TextFields \subseteq DOMAIN t /\ t.lines \in Nat \ {0} /\ t.empty /\ t.page \in Int
  BY DEF EmptyText, TextInv
<1>1. back_lines(t, k) = a
  BY DEF back_lines
<1>2. End(t) = t.lines
  BY <1>0 DEF End
<1>3. s = to
  BY <1>0, <1>2
<1>4. page = Most(s, 1)
  BY <1>3
<1> HIDE DEF ends, begins, page, s
<1>5. a.page = page /\ a.lines = t.lines /\ a.empty = t.empty /\ a.jumps = t.jumps
  BY <1>0 DEF TextFields
<1> HIDE DEF a
<1>6. TextInv(a)
  BY <1>1, BackStays DEF EmptyText
<1> QED
  BY <1>0, <1>1, <1>4, <1>5, <1>6 DEF EmptyText, SameText, s

\* With jumps a page is moved so that it is full.
PageFrom(t, q) == IF t.jumps THEN Least(q, Full(t)) ELSE q

LEMMA MovesToFull ==
  ASSUME NEW t, NEW q, At(t, q)
  PROVE  LET a == IF t.jumps THEN back_lines(Times(BoxHeight, get_line, t), BoxHeight) ELSE t
         IN  At(a, PageFrom(t, q)) /\ SameText(a, t)
<1> DEFINE through == Times(BoxHeight, get_line, t)
           H == BoxHeight
           L == t.lines
<1>0. H \in Nat /\ H > 0 /\ L \in Nat /\ L > 0 /\ q \in Nat /\ q > 0 /\ q <= L /\ H \in Int
  BY SizesAre DEF At, EmptyText, TextInv
<1>1. CASE t.jumps
  <2>1. PICK f : IsRun("line", t, H, f) /\ f[H] = through
    BY <1>0, LinesTimes
  <2>2. /\ At(f[H], Least(q + H, L)) /\ SameText(f[H], t)
        /\ (f[H].end_reached <=> q + H - 1 >= L)
    <3>1. H \in 0 .. H /\ H > 0
      BY <1>0
    <3> HIDE DEF H
    <3> QED
      BY <1>0, <2>1, <3>1, LinesAre
  <2> DEFINE a == back_lines(through, H)
             s == IF through.page = through.lines /\ through.end_reached /\ H > 0
                  THEN through.page - H + 1 ELSE through.page - H
  <2>3. EmptyText(through) /\ through.lines = L /\ through.page = Least(q + H, L)
        /\ (through.end_reached <=> q + H - 1 >= L) /\ SameText(through, t)
    BY <2>1, <2>2 DEF At, SameText
  <2> HIDE DEF through
  <2>4. EmptyText(a) /\ SameText(a, through) /\ a.page = Most(s, 1)
    BY <1>0, <2>3, BackIs
  <2>5. Most(s, 1) = Least(q, Full(t)) /\ Most(s, 1) \in 1 .. L
    <3>0. Full(t) = IF L - H + 1 > 1 THEN L - H + 1 ELSE 1
      BY <1>0 DEF Full, Most
    <3> HIDE DEF H, L
    <3>1. CASE q + H - 1 >= L
      <4>1. s = L - H + 1
        BY <1>0, <2>3, <3>1 DEF Least
      <4> HIDE DEF s
      <4> QED
        BY <1>0, <3>0, <3>1, <4>1 DEF Most, Least
    <3>2. CASE ~(q + H - 1 >= L)
      <4>1. s = q
        BY <1>0, <2>3, <3>2 DEF Least
      <4> HIDE DEF s
      <4> QED
        BY <1>0, <3>0, <3>2, <4>1 DEF Most, Least
    <3> QED
      BY <3>1, <3>2
  <2> HIDE DEF a, s
  <2>6. At(a, PageFrom(t, q)) /\ SameText(a, t)
    BY <1>1, <2>3, <2>4, <2>5 DEF At, PageFrom, SameText
  <2> QED
    BY <1>1, <2>6 DEF a, through
<1>2. CASE ~t.jumps
  BY <1>2 DEF PageFrom, SameText
<1> QED
  BY <1>1, <1>2

\* print_page, from the page a text has been moved to.
LEMMA PrintIs ==
  ASSUME NEW t0, NEW q, At(t0, q)
  PROVE  LET d == print_page(t0)
         IN  Paged(d, PageFrom(t0, q)) /\ Top(d) = PageFrom(t0, q) /\ SameText(d, t0)
<1> DEFINE t == IF t0.jumps THEN back_lines(Times(BoxHeight, get_line, t0), BoxHeight) ELSE t0
           line == CHOOSE g : g = [i \in 0 .. BoxHeight |-> LinesAt(t, g, i)]
           ends == {i \in 1 .. BoxHeight : line[i].end_reached}
           Is(i) == i \in ends /\ \A j \in 1 .. (i - 1) : ~(j \in ends)
           first == CHOOSE i \in 1 .. BoxHeight : Is(i)
           length == IF ends = {} THEN BoxHeight ELSE first
           shown == [i \in 0 .. (BoxHeight - 1) |-> [line |-> LineAt(line[i]), from |-> t.hscroll]]
           end == line[BoxHeight]
           d == PageSet(end, length, shown)
           p == PageFrom(t0, q)
           H == BoxHeight
           L == t0.lines
<1>0. H \in Nat /\ H > 0 /\ L \in Nat /\ L > 0 /\ H \in 0 .. H /\ 0 \in 0 .. H /\ 0 \in 0 .. (H - 1)
  BY SizesAre DEF At, EmptyText, TextInv
<1>1. print_page(t0) = d
  BY DEF print_page, PageSet, LinesAt, First
<1>2. At(t, p) /\ SameText(t, t0) /\ t.lines = L
  BY MovesToFull DEF SameText
<1> HIDE DEF t
<1>3. IsRun("line", t, H, line)
  <2>1. \A f, i : StepAt("line", t, f, i) = LinesAt(t, f, i)
    BY DEF StepAt, StepOf, LinesAt
  <2>2. PICK f : IsRun("line", t, BoxHeight, f)
    BY <1>0, RunExists
  <2>3. f = [i \in 0 .. BoxHeight |-> LinesAt(t, f, i)]
    BY <2>1, <2>2 DEF IsRun
  <2>4. line = [i \in 0 .. BoxHeight |-> LinesAt(t, line, i)]
    BY <2>3
  <2> HIDE DEF line
  <2> QED
    BY <2>1, <2>4 DEF IsRun
<1>4. p \in Nat /\ p > 0 /\ p <= L /\ (t0.jumps => p <= Full(t0))
  <2>1. p \in Nat /\ p > 0 /\ p <= L
    BY <1>0, <1>2 DEF At
  <2>2. Full(t0) = IF L - H + 1 > 1 THEN L - H + 1 ELSE 1
    BY <1>0 DEF Full, Most
  <2>3. t0.jumps => p <= Full(t0)
    <3>1. q \in Nat
      BY DEF At, EmptyText
    <3>2. t0.jumps => p = Least(q, Full(t0))
      BY DEF PageFrom
    <3> HIDE DEF p, H, L
    <3> QED
      BY <1>0, <2>2, <3>1, <3>2 DEF Least
  <2> QED
    BY <2>1, <2>3
<1> HIDE DEF line, p
<1>5. \A i \in 0 .. H : /\ At(line[i], Least(p + i, L)) /\ SameText(line[i], t)
                        /\ i > 0 => (line[i].end_reached <=> p + i - 1 >= L)
  BY <1>0, <1>2, <1>3, LinesAre
<1>6. At(end, Least(p + H, L)) /\ SameText(end, t) /\ (end.end_reached <=> p + H - 1 >= L)
  BY <1>0, <1>5
<1>7. shown[0].line = p
  <2>1. At(line[0], Least(p + 0, L)) /\ SameText(line[0], t)
    BY <1>0, <1>5
  <2>2. line[0].page = p /\ line[0].lines = L
    BY <1>2, <1>4, <2>1 DEF At, SameText, Least
  <2>3. LineAt(line[0]) = p
    BY <1>0, <1>4, <2>2 DEF LineAt
  <2>4. shown[0] = [line |-> LineAt(line[0]), from |-> t.hscroll]
    BY <1>0
  <2> QED
    BY <2>3, <2>4
<1>8. length = IF p + H - 1 >= L THEN L - p + 1 ELSE H
  <2>1. \A i \in 1 .. H : i \in ends <=> p + i - 1 >= L
    BY <1>0, <1>5
  <2>2. CASE ~(p + H - 1 >= L)
    <3>1. ends = {}
      <4>1. ASSUME NEW i \in 1 .. H PROVE i \notin ends
        <5>1. ~(p + i - 1 >= L)
          BY <1>0, <1>4, <2>2
        <5> HIDE DEF ends
        <5> QED
          BY <2>1, <5>1
      <4> QED
        BY <4>1
    <3> QED
      BY <2>2, <3>1
  <2>3. CASE p + H - 1 >= L
    <3> DEFINE x == L - p + 1
    <3>1. x \in 1 .. H /\ p + x - 1 >= L /\ \A j \in 1 .. (x - 1) : j \in 1 .. H /\ ~(p + j - 1 >= L)
      BY <1>0, <1>4, <2>3
    <3>2. \A i \in 1 .. H : p + i - 1 >= L => i >= x
      BY <1>0, <1>4
    <3>3. ends # {}
      <4>1. x \in ends
        <5> HIDE DEF ends, x
        <5> QED
          BY <2>1, <3>1
      <4> QED
        BY <4>1
    <3>4. Is(x)
      <4> HIDE DEF ends, x
      <4> QED
        BY <2>1, <3>1
    <3>5. \A i \in 1 .. H : Is(i) => i = x
      <4> SUFFICES ASSUME NEW i \in 1 .. H, Is(i) PROVE i = x
        OBVIOUS
      <4>1. i >= x
        <5> HIDE DEF x, ends
        <5> QED
          BY <2>1, <3>2
      <4>2. ~(x \in 1 .. (i - 1))
        <5>1. x \in ends
          BY <3>4
        <5> HIDE DEF x, ends
        <5> QED
          BY <5>1
      <4>3. x \in Nat /\ x > 0 /\ i \in Nat
        BY <3>1, <1>0
      <4> HIDE DEF x, ends, Is
      <4> QED
        BY <4>1, <4>2, <4>3
    <3>6. first = x
      <4> HIDE DEF x, Is
      <4> QED
        BY <3>1, <3>4, <3>5
    <3> HIDE DEF first, ends
    <3> QED
      BY <2>3, <3>3, <3>6
  <2> QED
    BY <2>2, <2>3
<1> HIDE DEF length, shown, end, ends
<1>9. length \in Int
  BY <1>0, <1>4, <1>8
<1>10. TextFields \subseteq DOMAIN end /\ TextInv(end) /\ end.empty /\ end.lines \in Nat \ {0}
  BY <1>6 DEF At, EmptyText, TextInv
<1>11. /\ d.rows = shown /\ d.page_length = length /\ d.page = end.page /\ d.lines = end.lines
       /\ d.end_reached = end.end_reached /\ d.empty = end.empty /\ d.jumps = end.jumps
       /\ TextFields \subseteq DOMAIN d /\ d.is = "text"
  BY <1>10 DEF TextFields, PageSet, TextInv
<1> HIDE DEF d
<1>12. EmptyText(d) /\ SameText(d, t0)
  BY <1>2, <1>6, <1>9, <1>10, <1>11 DEF EmptyText, TextInv, SameText
<1>13. Top(d) = p
  BY <1>7, <1>11 DEF Top
<1>14. d.page = Least(p + H, L) /\ d.lines = L /\ d.jumps = t0.jumps
  BY <1>2, <1>6, <1>11 DEF At, SameText
<1>15. p \in 1 .. d.lines /\ (d.end_reached <=> p + H - 1 >= d.lines)
       /\ d.page_length = (IF p + H - 1 >= d.lines THEN d.lines - p + 1 ELSE H)
  BY <1>0, <1>4, <1>6, <1>8, <1>11, <1>14
<1>16. Full(d) = Full(t0)
  BY <1>14 DEF Full
<1> QED
  BY <1>1, <1>4, <1>12, <1>13, <1>14, <1>15, <1>16 DEF Paged, p

\* back_lines from a page that is on the screen.
LEMMA BackFrom ==
  ASSUME NEW t, NEW p, Paged(t, p), NEW k \in Int
  PROVE  LET a == back_lines(t, k)
         IN  /\ SameText(a, t)
             /\ At(a, Most(IF t.end_reached /\ k > 0 THEN t.lines - k + 1 ELSE t.page - k, 1))
                \/ k <= 0
             /\ k <= 0 /\ ~t.end_reached /\ t.page - k <= t.lines => At(a, t.page - k)
<1> DEFINE a == back_lines(t, k)
           to == IF t.page = t.lines /\ t.end_reached /\ k > 0 THEN t.page - k + 1 ELSE t.page - k
           L == t.lines
           H == BoxHeight
<1>0. /\ EmptyText(t) /\ L \in Nat /\ L > 0 /\ p \in Nat /\ p > 0 /\ p <= L /\ H \in Nat /\ H > 0
      /\ t.page = (IF p + H < L THEN p + H ELSE L) /\ (t.end_reached <=> p + H - 1 >= L)
  BY SizesAre DEF Paged, EmptyText, TextInv, Least
<1>1. EmptyText(a) /\ SameText(a, t) /\ a.page = Most(to, 1) /\ a.lines = L
  BY <1>0, BackIs DEF SameText
<1> HIDE DEF a
<1>2. t.page \in Nat /\ t.page <= L /\ t.page > 0 /\ (t.end_reached => t.page = L)
  BY <1>0
<1>3. ASSUME k > 0
      PROVE  At(a, Most(IF t.end_reached /\ k > 0 THEN t.lines - k + 1 ELSE t.page - k, 1))
  <2>1. to = IF t.end_reached /\ k > 0 THEN t.lines - k + 1 ELSE t.page - k
    BY <1>2, <1>3
  <2>2. Most(to, 1) \in 1 .. L
    <3>1. to \in Int /\ to <= L
      BY <1>0, <1>2, <1>3
    <3> HIDE DEF to, L
    <3> QED
      BY <1>0, <3>1 DEF Most
  <2> HIDE DEF to
  <2> QED
    BY <1>1, <2>1, <2>2 DEF At
<1>4. ASSUME k <= 0, ~t.end_reached, t.page - k <= t.lines PROVE At(a, t.page - k)
  <2>1. to = t.page - k /\ t.page - k \in 1 .. L
    BY <1>2, <1>4
  <2>2. Most(to, 1) = t.page - k
    BY <1>2, <2>1 DEF Most
  <2> HIDE DEF to
  <2> QED
    BY <1>1, <2>1, <2>2 DEF At
<1> QED
  BY <1>0, <1>1, <1>3, <1>4 DEF a

LEMMA FlagsAre ==
  ASSUME NEW t, EmptyText(t), NEW begins, NEW ends, NEW page \in Int, NEW hscroll
  PROVE  LET a == FlagsSet(t, begins, ends, page, hscroll)
         IN  /\ EmptyText(a) /\ SameText(a, t) /\ a.page = page /\ a.end_reached = ends
             /\ a.page_length = t.page_length
<1> DEFINE a == FlagsSet(t, begins, ends, page, hscroll)
<1>1. TextFields \subseteq DOMAIN t /\ t.empty /\ t.lines \in Nat \ {0}
  BY DEF EmptyText, TextInv
<1>2. TextInv(a)
  BY FlagsStay DEF EmptyText
<1>3. a.page = page /\ a.end_reached = ends /\ a.lines = t.lines /\ a.empty = t.empty /\ a.jumps = t.jumps
      /\ a.page_length = t.page_length
  BY <1>1 DEF FlagsSet, TextFields
<1> HIDE DEF a
<1> QED
  BY <1>1, <1>2, <1>3 DEF EmptyText, SameText, a

LEMMA AcrossIs ==
  ASSUME NEW t, NEW p, Paged(t, p), NEW h
  PROVE  LET a == [t EXCEPT !.hscroll = h] IN Paged(a, p) /\ SameText(a, t)
             /\ a.page_length = t.page_length /\ a.end_reached = t.end_reached /\ a.page = t.page
<1> DEFINE a == FlagsSet(t, t.begin_reached, t.end_reached, t.page, h)
<1>1. EmptyText(t) /\ TextFields \subseteq DOMAIN t /\ t.page \in Int
  BY DEF Paged, EmptyText, TextInv
<1>2. a = [t EXCEPT !.hscroll = h]
  BY <1>1 DEF FlagsSet, TextFields
<1>3. /\ EmptyText(a) /\ SameText(a, t) /\ a.page = t.page /\ a.end_reached = t.end_reached
      /\ a.page_length = t.page_length
  BY <1>1, FlagsAre
<1> HIDE DEF a
<1>4. Paged(a, p)
  BY <1>3 DEF Paged, SameText, Full
<1> QED
  BY <1>2, <1>3, <1>4

\* Where each key moves the page before it is printed.
LEMMA MovesTo ==
  ASSUME NEW t, NEW p, Paged(t, p), Top(t) = p, NEW key \in TextKeys, ~TextIgnores(t, key)
  PROVE  /\ SameText(TextMoved(t, key), t)
         /\ key # "resize" => At(TextMoved(t, key), TopAfter(t, key))
         /\ \E q : At(TextMoved(t, key), q)
<1> DEFINE L == t.lines
           H == BoxHeight
           n == t.page_length
           To(k) == Most(IF t.end_reached /\ k > 0 THEN t.lines - k + 1 ELSE t.page - k, 1)
<1>0. /\ EmptyText(t) /\ L \in Nat /\ L > 0 /\ p \in Nat /\ p > 0 /\ p <= L /\ H \in Nat /\ H > 0
      /\ t.page = (IF p + H < L THEN p + H ELSE L) /\ (t.end_reached <=> p + H - 1 >= L)
      /\ n = IF p + H - 1 >= L THEN L - p + 1 ELSE H
      /\ TextFields \subseteq DOMAIN t
  BY SizesAre DEF Paged, EmptyText, Least, TextInv
<1>1. n \in Nat /\ n > 0 /\ n + 1 \in Int /\ n - 1 \in Int /\ n + H \in Int /\ H + 4 \in Int /\ n \in Int
  BY <1>0
<1>2. ASSUME NEW k \in Int, k > 0 PROVE At(back_lines(t, k), To(k)) /\ SameText(back_lines(t, k), t)
  BY <1>2, BackFrom
<1>3. ASSUME NEW k \in Int, k >= n PROVE To(k) = Most(p - (k - n), 1)
  <2>1. (IF t.end_reached /\ k > 0 THEN L - k + 1 ELSE t.page - k) = p - (k - n)
    BY <1>0, <1>1, <1>3
  <2> QED
    BY <2>1
<1>4. \A i \in Int : Most(i, 1) = Most(1, i)
  BY DEF Most
<1>5. Most(p, 1) = p
  BY <1>0 DEF Most
<1>6. CASE key = "up"
  <2>1. To(n + 1) = Most(p - 1, 1) /\ p - 1 \in Int /\ n + 1 > 0
    <3>1. n + 1 >= n /\ p - (n + 1 - n) = p - 1 /\ p - 1 \in Int
      BY <1>0, <1>1
    <3> HIDE DEF n, To
    <3> QED
      BY <1>1, <1>3, <3>1
  <2>2. TopAfter(t, key) = Most(1, p - 1)
    BY <1>6 DEF TopAfter
  <2>3. TextMoved(t, key) = back_lines(t, n + 1)
    BY <1>6 DEF TextMoved
  <2> HIDE DEF n, To
  <2>4. At(TextMoved(t, key), TopAfter(t, key)) /\ SameText(TextMoved(t, key), t)
    BY <1>1, <1>2, <1>4, <2>1, <2>2, <2>3
  <2> QED
    BY <2>4
<1>7. CASE key = "pgup"
  <2>1. To(n + H) = Most(p - H, 1) /\ p - H \in Int /\ n + H > 0
    <3> DEFINE k == n + H
    <3>1. k >= n /\ p - (k - n) = p - H /\ p - H \in Int /\ k > 0 /\ k \in Int
      BY <1>0, <1>1
    <3> HIDE DEF k, n, To
    <3>2. To(k) = Most(p - H, 1)
      BY <1>3, <3>1
    <3> QED
      BY <3>1, <3>2 DEF k
  <2>2. TopAfter(t, key) = Most(1, p - H)
    BY <1>7 DEF TopAfter
  <2>3. TextMoved(t, key) = back_lines(t, n + H)
    BY <1>7 DEF TextMoved
  <2> HIDE DEF n, To, H
  <2>4. At(TextMoved(t, key), TopAfter(t, key)) /\ SameText(TextMoved(t, key), t)
    BY <1>1, <1>2, <1>4, <2>1, <2>2, <2>3
  <2> QED
    BY <2>4
<1>8. CASE key = "down"
  <2>0. ~t.end_reached
    BY <1>8 DEF TextIgnores
  <2>1. n = H /\ t.page = p + H /\ p + 1 <= L /\ t.page - (n - 1) = p + 1
    BY <1>0, <2>0
  <2>2. TopAfter(t, key) = p + 1
    BY <1>8 DEF TopAfter
  <2>3. TextMoved(t, key) = back_lines(t, n - 1)
    BY <1>8 DEF TextMoved
  <2>4. CASE n - 1 > 0
    <3>1. To(n - 1) = p + 1
      BY <1>0, <2>0, <2>1 DEF Most
    <3> HIDE DEF n, To
    <3>2. At(TextMoved(t, key), TopAfter(t, key)) /\ SameText(TextMoved(t, key), t)
      BY <1>1, <1>2, <2>2, <2>3, <2>4, <3>1
    <3> QED
      BY <3>2
  <2>5. CASE ~(n - 1 > 0)
    <3>1. n - 1 <= 0 /\ t.page - (n - 1) <= t.lines
      BY <1>0, <1>1, <2>1, <2>5
    <3> DEFINE k == n - 1
    <3>2. k \in Int /\ k <= 0 /\ t.page - k <= t.lines /\ t.page - k = p + 1
      BY <1>1, <2>1, <3>1
    <3>3. TextMoved(t, key) = back_lines(t, k)
      BY <2>3
    <3> HIDE DEF k, n
    <3>4. At(TextMoved(t, key), TopAfter(t, key)) /\ SameText(TextMoved(t, key), t)
      BY <2>0, <2>2, <3>2, <3>3, BackFrom
    <3> QED
      BY <3>4
  <2> QED
    BY <2>4, <2>5
<1>9. CASE key = "resize"
  <2>1. TextMoved(t, key) = back_lines(t, H + 4)
    BY <1>9 DEF TextMoved
  <2>2. H + 4 > 0
    BY <1>0
  <2> HIDE DEF To, H
  <2>3. At(TextMoved(t, key), To(H + 4)) /\ SameText(TextMoved(t, key), t)
    BY <1>1, <1>2, <2>1, <2>2
  <2> QED
    BY <1>9, <2>3
<1>10. CASE key \in {"left", "right", "0"}
  <2> DEFINE Across(h) == [t EXCEPT !.hscroll = h]
  <2>1. ASSUME NEW h, TextMoved(t, key) = back_lines(Across(h), n)
        PROVE  At(TextMoved(t, key), p) /\ SameText(TextMoved(t, key), t)
    <3>1. /\ Paged(Across(h), p) /\ SameText(Across(h), t)
          /\ Across(h).end_reached = t.end_reached /\ Across(h).page = t.page
      BY AcrossIs
    <3> HIDE DEF Across
    <3>2. Across(h).lines = t.lines
      BY <3>1 DEF SameText
    <3> HIDE DEF n
    <3>3. /\ SameText(TextMoved(t, key), Across(h))
          /\ At(TextMoved(t, key), To(n))
      <4>1. ~(n <= 0)
        BY <1>1
      <4> QED
        BY <1>1, <2>1, <3>1, <3>2, <4>1, BackFrom
    <3>4. To(n) = p
      <4>1. n >= n /\ p - (n - n) = p
        BY <1>0, <1>1
      <4> HIDE DEF To
      <4> QED
        BY <1>1, <1>3, <1>5, <4>1
    <3> QED
      BY <3>1, <3>3, <3>4 DEF SameText
  <2>2. TopAfter(t, key) = p
    BY <1>10 DEF TopAfter
  <2>3. \E h : TextMoved(t, key) = back_lines(Across(h), n)
    BY <1>10 DEF TextMoved
  <2> HIDE DEF Across, n
  <2>4. At(TextMoved(t, key), TopAfter(t, key)) /\ SameText(TextMoved(t, key), t)
    BY <2>1, <2>2, <2>3
  <2> QED
    BY <2>4
<1>11. CASE key = "home"
  <2> DEFINE yes == TRUE
             one == 1
             a == FlagsSet(t, yes, t.end_reached, one, t.hscroll)
  <2>1. a = [t EXCEPT !.begin_reached = TRUE, !.page = 1]
    BY <1>0 DEF FlagsSet, TextFields
  <2>2. EmptyText(a) /\ SameText(a, t) /\ a.page = 1
    <3>1. one \in Int
      OBVIOUS
    <3> HIDE DEF yes, one
    <3>2. EmptyText(a) /\ SameText(a, t) /\ a.page = one
      BY <1>0, <3>1, FlagsAre
    <3> QED
      BY <3>2 DEF one
  <2>3. TextMoved(t, key) = a /\ TopAfter(t, key) = 1
    BY <1>11, <2>1 DEF TextMoved, TopAfter
  <2> HIDE DEF a
  <2>4. At(a, 1)
    BY <1>0, <2>2 DEF At, SameText
  <2> QED
    BY <2>2, <2>3, <2>4
<1>12. CASE key = "pgdn"
  <2> DEFINE no == FALSE
             a == FlagsSet(t, no, t.end_reached, t.page, t.hscroll)
  <2>0. ~t.end_reached
    BY <1>12 DEF TextIgnores
  <2>1. a = [t EXCEPT !.begin_reached = FALSE]
    BY <1>0 DEF FlagsSet, TextFields
  <2>2. EmptyText(a) /\ SameText(a, t) /\ a.page = t.page
    <3>1. t.page \in Int
      BY <1>0
    <3> HIDE DEF no
    <3> QED
      BY <1>0, <3>1, FlagsAre
  <2>3. TextMoved(t, key) = a /\ TopAfter(t, key) = p + H
    BY <1>12, <2>1 DEF TextMoved, TopAfter
  <2>4. t.page = p + H /\ p + H \in 1 .. L
    BY <1>0, <2>0
  <2> HIDE DEF a, H
  <2>5. At(a, p + H)
    BY <2>2, <2>4 DEF At, SameText
  <2> QED
    BY <2>2, <2>3, <2>5
<1>13. CASE key = "end"
  <2> DEFINE yes == TRUE
             e == FlagsSet(t, t.begin_reached, yes, End(t), t.hscroll)
             s == IF e.page = e.lines /\ e.end_reached /\ H > 0 THEN e.page - H + 1 ELSE e.page - H
  <2>0. End(t) = L /\ End(t) \in Int
    BY <1>0 DEF End, EmptyText
  <2>1. e = [t EXCEPT !.end_reached = TRUE, !.page = End(t)]
    BY <1>0 DEF FlagsSet, TextFields
  <2>2. EmptyText(e) /\ SameText(e, t) /\ e.page = L /\ e.end_reached
    <3> HIDE DEF yes
    <3>1. EmptyText(e) /\ SameText(e, t) /\ e.page = End(t) /\ e.end_reached = yes
      BY <1>0, <2>0, FlagsAre
    <3> QED
      BY <2>0, <3>1 DEF yes
  <2>3. TextMoved(t, key) = back_lines(e, H) /\ TopAfter(t, key) = Full(t)
    BY <1>13, <2>1 DEF TextMoved, TopAfter
  <2> HIDE DEF e
  <2>4. e.lines = L
    BY <2>2 DEF SameText
  <2>5. EmptyText(back_lines(e, H)) /\ SameText(back_lines(e, H), e) /\ back_lines(e, H).page = Most(s, 1)
    <3>1. H \in Int
      BY <1>0
    <3> QED
      BY <2>2, <3>1, BackIs
  <2>6. s = L - H + 1
    BY <1>0, <2>2, <2>4
  <2>7. Most(s, 1) = Full(t) /\ Full(t) \in 1 .. L
    BY <1>0, <2>6 DEF Most, Full
  <2> HIDE DEF s, H, L
  <2>8. At(back_lines(e, H), Full(t)) /\ SameText(back_lines(e, H), t)
    BY <2>2, <2>4, <2>5, <2>7 DEF At, SameText
  <2> QED
    BY <2>3, <2>8
<1> QED
  BY <1>6, <1>7, <1>8, <1>9, <1>10, <1>11, <1>12, <1>13 DEF TextKeys

\* A text on the screen, and where it is.
TextPlace(t) == TextInv(t) /\ (t.empty => Paged(t, Top(t)))

LEMMA PageIsPlaced ==
  ASSUME NEW t, TextInv(t), NEW q, t.empty => At(t, q)
  PROVE  /\ TextPlace(print_page(t)) /\ SameText(print_page(t), t)
         /\ t.empty => Top(print_page(t)) = PageFrom(t, q)
<1>1. TextInv(print_page(t)) /\ SameText(print_page(t), t)
  BY PageStays
<1>2. t.empty => Paged(print_page(t), Top(print_page(t))) /\ Top(print_page(t)) = PageFrom(t, q)
  BY PrintIs
<1> QED
  BY <1>1, <1>2 DEF TextPlace, SameText

LEMMA KeyIsKept ==
  ASSUME NEW t, TextPlace(t), NEW key
  PROVE  LET a == [t EXCEPT !.key = key]
         IN  TextPlace(a) /\ Top(a) = Top(t) /\ SameText(a, t) /\ a.key = key
<1> DEFINE a == [t EXCEPT !.key = key]
<1>1. TextFields \subseteq DOMAIN t /\ TextInv(t)
  BY DEF TextPlace, TextInv
<1>2. /\ a.rows = t.rows /\ a.page_length = t.page_length /\ a.page = t.page /\ a.lines = t.lines
      /\ a.end_reached = t.end_reached /\ a.empty = t.empty /\ a.jumps = t.jumps /\ a.is = t.is
      /\ DOMAIN a = DOMAIN t /\ a.key = key
  BY <1>1 DEF TextFields
<1> HIDE DEF a
<1>3. TextInv(a) /\ SameText(a, t) /\ Top(a) = Top(t) /\ Full(a) = Full(t)
  BY <1>1, <1>2 DEF TextInv, SameText, Top, Full
<1>4. Paged(t, Top(t)) => Paged(a, Top(a))
  BY <1>2, <1>3 DEF Paged, EmptyText
<1> QED
  BY <1>2, <1>3, <1>4 DEF TextPlace, a

LEMMA TextIsOpened ==
  ASSUME NEW text \in Texts, NEW vscroll \in Nat, NEW hscroll
  PROVE  LET d == TextOf(text, vscroll, hscroll)
         IN  /\ TextPlace(d) /\ d.lines = text.lines /\ d.empty = text.empty /\ d.jumps = text.jumps
             /\ d.empty /\ ~d.jumps => Top(d) = Least(vscroll + 1, d.lines)
             /\ d.empty /\ d.jumps => Top(d) = Least(Least(vscroll + 1, d.lines), Full(d))
<1> DEFINE t == [is |-> "text", lines |-> text.lines, empty |-> text.empty, jumps |-> text.jumps,
                 page |-> 1, begin_reached |-> vscroll = 0, end_reached |-> FALSE,
                 page_length |-> 0, hscroll |-> hscroll, rows |-> <<>>, key |-> "open"]
           a == Times(vscroll, get_line, t)
           one == 1
           q == Least(one + vscroll, text.lines)
           d == print_page(a)
<1>1. text.lines \in Nat \ {0} /\ (text.jumps => text.empty)
  BY LxdialogAssumption
<1>2. TextInv(t) /\ t.lines = text.lines /\ t.empty = text.empty /\ t.jumps = text.jumps /\ t.page = one
  BY <1>1 DEF TextInv, TextFields
<1>3. TextOf(text, vscroll, hscroll) = d
  BY DEF TextOf
<1>4. one \in 1 .. text.lines /\ one + vscroll = vscroll + 1
  BY <1>1
<1> HIDE DEF t, one
<1>5. t.empty => At(t, one)
  BY <1>2, <1>4 DEF At, EmptyText
<1>6. TextInv(a) /\ SameText(a, t)
  BY <1>2, TimesStays
<1>7. a.empty => At(a, q)
  <2>1. PICK f : IsRun("line", t, vscroll, f) /\ f[vscroll] = a
    BY LinesTimes
  <2>2. vscroll \in 0 .. vscroll
    OBVIOUS
  <2>3. t.empty => At(f[vscroll], Least(one + vscroll, t.lines))
    BY <1>5, <2>1, <2>2, LinesAre
  <2> QED
    BY <1>2, <1>6, <2>1, <2>3 DEF SameText
<1> HIDE DEF a, q
<1>8. TextPlace(d) /\ SameText(d, a) /\ (a.empty => Top(d) = PageFrom(a, q))
  BY <1>6, <1>7, PageIsPlaced
<1> HIDE DEF d
<1>9. d.lines = text.lines /\ d.empty = text.empty /\ d.jumps = text.jumps /\ a.empty = d.empty /\ a.jumps = d.jumps
      /\ Full(a) = Full(d)
  BY <1>2, <1>6, <1>8 DEF SameText, Full
<1>10. q = Least(vscroll + 1, d.lines)
  BY <1>4, <1>9 DEF q
<1> QED
  BY <1>3, <1>8, <1>9, <1>10 DEF PageFrom

\* What a key shows next.
KeyShows(t, a, key) ==
  LET to == TopAfter(t, key)
  IN  Top(a) = IF t.jumps THEN Least(to, Full(t)) ELSE to
LEMMA TextKeySteps ==
  ASSUME TextPlace(box), NEW key \in TextKeys, ~TextIgnores(box, key),
         NEW a, a = [print_page(TextMoved(box, key)) EXCEPT !.key = key]
  PROVE  TextPlace(a) /\ a.key = key /\ (box.empty /\ key # "resize" => KeyShows(box, a, key))
<1> DEFINE m == TextMoved(box, key)
           d == print_page(m)
<1>1. TextInv(m) /\ SameText(m, box)
  BY TextMoves DEF Stays, TextPlace
<1>2. /\ box.empty /\ key # "resize" => At(m, TopAfter(box, key))
      /\ box.empty => \E q : At(m, q)
  BY MovesTo DEF TextPlace
<1>3. PICK q : /\ m.empty => At(m, q)
               /\ box.empty /\ key # "resize" => q = TopAfter(box, key)
  <2>1. m.empty = box.empty
    BY <1>1 DEF SameText
  <2> HIDE DEF m
  <2> QED
    BY <1>2, <2>1
<1> HIDE DEF m
<1>4. TextPlace(d) /\ SameText(d, m) /\ (m.empty => Top(d) = PageFrom(m, q))
  BY <1>1, <1>3, PageIsPlaced
<1> HIDE DEF d
<1>5. TextPlace(a) /\ Top(a) = Top(d) /\ a.key = key
  <2>1. a = [d EXCEPT !.key = key]
    BY DEF d, m
  <2> QED
    BY <1>4, <2>1, KeyIsKept
<1>6. m.empty = box.empty /\ m.jumps = box.jumps /\ Full(m) = Full(box)
  BY <1>1 DEF SameText, Full
<1> QED
  BY <1>3, <1>4, <1>5, <1>6 DEF KeyShows, PageFrom

LEMMA TextSteps ==
  ASSUME TextPlace(box), TextKey \/ TextAgain
  PROVE  TextPlace(box')
<1>1. CASE TextKey
  <2>1. PICK key \in TextKeys : /\ ~TextIgnores(box, key)
                                /\ box' = [print_page(TextMoved(box, key)) EXCEPT !.key = key]
    BY <1>1 DEF TextKey
  <2> QED
    BY <2>1, TextKeySteps
<1>2. CASE TextAgain
  <2> DEFINE v == back_lines(box, box.page_length).page - 1
  <2>1. PICK text \in Texts : box' = TextOf(text, v, box.hscroll)
    BY <1>2 DEF TextAgain
  <2>2. v \in Nat
    <3>1. TextInv(back_lines(box, box.page_length)) /\ back_lines(box, box.page_length).page >= 1
      BY BackStays DEF TextInv, TextPlace
    <3>2. back_lines(box, box.page_length).page \in Int
      BY <3>1 DEF TextInv
    <3> QED
      BY <3>1, <3>2
  <2> HIDE DEF v
  <2> QED
    BY <2>1, <2>2, TextIsOpened
<1> QED
  BY <1>1, <1>2

----------------------------------------------------------------------------
(* Every dialog. *)

YesnoInv(b) == b.is = "yesno" /\ {"is", "button", "lit"} \subseteq DOMAIN b

\* The rows and the field are kept right by what the keys do to them only as
\* long as a list is not scrolled past its end, its highlight is on a row, an
\* input line's field shows the string up to Width and a text's pointer, flags
\* and page length belong to the page printed last.
DialogIs ==
  \/ MenuInv(box)
  \/ CheckInv(box)
  \/ TextPlace(box)
  \/ box.is = "input" /\ InputInv(box)
  \/ YesnoInv(box)
\* That the button shown is the one Enter acts on is inductive as it stands.
DialogInv == DialogIs /\ ButtonIsLit

LEMMA YesnoSteps ==
  ASSUME YesnoInv(box), YesnoKey
  PROVE  YesnoInv(box') /\ ButtonStep
<1>1. ASSUME NEW by \in {-1, 1}, box' = Button(box, by, 1) PROVE YesnoInv(box') /\ box'.lit = ActedOn(box')
  <2> DEFINE to == Around(box.button + by, 1)
  <2>1. box' = ButtonSet(box, to, to)
    BY <1>1 DEF Button, ButtonSet
  <2> HIDE DEF to
  <2>2. box' = [box EXCEPT !.button = to, !.lit = to]
    BY <2>1 DEF ButtonSet
  <2>3. YesnoInv(box')
    BY <2>2 DEF YesnoInv
  <2>4. box'.lit = to /\ box'.button = to /\ box'.is = "yesno"
    BY <2>2 DEF YesnoInv
  <2> QED
    BY <2>3, <2>4 DEF ActedOn
<1>2. ASSUME box' = [box EXCEPT !.lit = 0] PROVE YesnoInv(box')
  BY <1>2 DEF YesnoInv
<1> QED
  BY <1>1, <1>2 DEF YesnoKey, ButtonStep

LEMMA DialogsOpen ==
  ASSUME DialogInit
  PROVE  DialogInv
<1> DEFINE menus == UNION {{MenuOf(items, i, 0, height) : i \in {Null} \cup {items[j] : j \in DOMAIN items}} :
                             items \in Lists, height \in Heights}
           checks == UNION {{CheckOf(items, i) : i \in 0..(Len(items) - 1)} : items \in Lists \ {<<>>}}
           texts == {TextOf(text, 0, 0) : text \in Texts}
           inputs == {InputOf(str) : str \in Initial}
<1>1. ASSUME NEW items \in Lists, NEW height \in Heights, NEW i, box = MenuOf(items, i, 0, height) PROVE MenuInv(box) /\ box.lit = ActedOn(box)
  <2> DEFINE zero == 0
  <2>1. height \in Nat \ {0} /\ zero \in Nat /\ box = MenuOf(items, i, zero, height)
    BY <1>1, LxdialogAssumption
  <2> HIDE DEF zero
  <2> QED
    BY <2>1, MenuIsOpened
<1>2. ASSUME NEW items \in Lists \ {<<>>}, NEW i \in 0 .. (Len(items) - 1), box = CheckOf(items, i) PROVE CheckInv(box) /\ box.lit = ActedOn(box)
  BY <1>2, CheckIsOpened
<1>3. ASSUME NEW text \in Texts, box = TextOf(text, 0, 0) PROVE TextPlace(box)
  <2> DEFINE zero == 0
  <2>1. zero \in Nat /\ box = TextOf(text, zero, zero)
    BY <1>3
  <2> HIDE DEF zero
  <2> QED
    BY <2>1, TextIsOpened
<1>4. ASSUME NEW str \in Initial, box = InputOf(str) PROVE box.is = "input" /\ InputInv(box) /\ box.lit = ActedOn(box)
  BY <1>4, Opens, InputIs, LxdialogAssumption
<1>5. ASSUME box = YesnoOf PROVE YesnoInv(box) /\ box.lit = ActedOn(box)
  BY <1>5 DEF YesnoOf, YesnoInv, ActedOn
<1>6. ASSUME box \in menus PROVE DialogIs /\ ButtonIsLit
  <2>1. PICK items \in Lists, height \in Heights :
          box \in {MenuOf(items, i, 0, height) : i \in {Null} \cup {items[j] : j \in DOMAIN items}}
    BY <1>6
  <2>2. PICK i \in {Null} \cup {items[j] : j \in DOMAIN items} : box = MenuOf(items, i, 0, height)
    BY <2>1
  <2> QED
    BY <1>1, <2>2 DEF DialogIs, ButtonIsLit
<1>7. ASSUME box \in checks PROVE DialogIs /\ ButtonIsLit
  <2>1. PICK items \in Lists \ {<<>>} : box \in {CheckOf(items, i) : i \in 0..(Len(items) - 1)}
    BY <1>7
  <2>2. PICK i \in 0..(Len(items) - 1) : box = CheckOf(items, i)
    BY <2>1
  <2> QED
    BY <1>2, <2>2 DEF DialogIs, ButtonIsLit
<1>8. ASSUME box \in texts PROVE DialogIs /\ ButtonIsLit
  <2>1. PICK text \in Texts : box = TextOf(text, 0, 0)
    BY <1>8
  <2> QED
    BY <1>3, <2>1 DEF DialogIs, ButtonIsLit, TextPlace, TextInv
<1>9. ASSUME box \in inputs PROVE DialogIs /\ ButtonIsLit
  <2>1. PICK str \in Initial : box = InputOf(str)
    BY <1>9
  <2> QED
    BY <1>4, <2>1 DEF DialogIs, ButtonIsLit
<1>10. ASSUME box = YesnoOf PROVE DialogIs /\ ButtonIsLit
  BY <1>5, <1>10 DEF DialogIs, ButtonIsLit
<1>11. Opened = menus \cup checks \cup texts \cup inputs \cup {YesnoOf}
  BY DEF Opened
<1> HIDE DEF menus, checks, texts, inputs
<1> QED
  BY <1>6, <1>7, <1>8, <1>9, <1>10, <1>11 DEF DialogInit, DialogInv

LEMMA KindIs ==
  ASSUME DialogInv
  PROVE  /\ box.is = "menu" => MenuInv(box)
         /\ box.is = "check" => CheckInv(box)
         /\ box.is = "text" => TextPlace(box)
         /\ box.is = "input" => InputInv(box)
         /\ box.is = "yesno" => YesnoInv(box)
BY DEF DialogInv, DialogIs, MenuInv, CheckInv, TextPlace, TextInv, YesnoInv

LEMMA ButtonsStay ==
  ASSUME ButtonIsLit, ButtonStep
  PROVE  ButtonIsLit'
<1>1. CASE resized' = resized /\ SameButton(box', box)
  BY <1>1 DEF ButtonIsLit, ActedOn, SameButton
<1>2. CASE resized' = FALSE /\ box'.lit = ActedOn(box')
  BY <1>2 DEF ButtonIsLit, ActedOn
<1>3. CASE resized' = TRUE
  BY <1>3 DEF ButtonIsLit
<1> QED
  BY <1>1, <1>2, <1>3 DEF ButtonStep

LEMMA DialogSteps ==
  ASSUME DialogInv, DialogNext
  PROVE  DialogInv'
<1>1. ASSUME MenuKey \/ MenuSelect PROVE MenuInv(box') /\ ButtonStep
  BY <1>1, KindIs, MenuSteps DEF MenuKey, MenuSelect
<1>2. ASSUME CheckKey PROVE CheckInv(box') /\ ButtonStep
  BY <1>2, KindIs, CheckSteps DEF CheckKey
<1>3. ASSUME TextKey \/ TextAgain PROVE TextPlace(box') /\ ButtonIsLit'
  <2>1. TextPlace(box')
    BY <1>3, KindIs, TextSteps DEF TextKey, TextAgain
  <2> QED
    BY <2>1 DEF ButtonIsLit, TextPlace, TextInv
<1>4. ASSUME InputKey \/ InputAgain PROVE box'.is = "input" /\ InputInv(box') /\ ButtonStep
  <2>1. box.is = "input"
    BY <1>4 DEF InputKey, InputAgain
  <2>2. InputInv(box') /\ ButtonStep
    BY <1>4, <2>1, KindIs, InputSteps
  <2> QED
    BY <2>2, InputIs
<1>5. ASSUME YesnoKey PROVE YesnoInv(box') /\ ButtonStep
  BY <1>5, KindIs, YesnoSteps DEF YesnoKey
<1>6. DialogIs' /\ (ButtonStep \/ ButtonIsLit')
  BY <1>1, <1>2, <1>3, <1>4, <1>5 DEF DialogNext, DialogIs
<1>7. ButtonIsLit
  BY DEF DialogInv
<1> QED
  BY <1>6, <1>7, ButtonsStay DEF DialogInv

LEMMA DialogsAreTrue ==
  ASSUME DialogInv
  PROVE  ScreenIsCurrent
<1>1. ListsShowTheirItems
  <2> SUFFICES ASSUME box.is \in {"menu", "check"}, box.first = box.top PROVE RowsShowTheirItems
    BY DEF ListsShowTheirItems
  <2>1. Placed(box) /\ Good(box)
    BY KindIs DEF MenuInv, CheckInv
  <2>2. DOMAIN box.rows = RowsOf(box) /\ IsList(box)
    BY <2>1 DEF Placed
  <2>3. item_count(box) > 0 => box.choice \in DOMAIN box.rows
    BY <2>1, <2>2, MaxIs DEF Placed, RowsOf, item_count
  <2> QED
    BY <2>1, <2>2, <2>3 DEF RowsShowTheirItems, Good, RowIs, Cell
<1>2. InputIsShown
  <2> SUFFICES ASSUME box.is = "input"
      PROVE  /\ box.x \in 0..(Width - 1) /\ box.show >= 0
             /\ box.pos = box.show + box.x /\ box.pos <= Len(box.str)
             /\ \A i \in 0..(Width - 1) :
                  box.field[i] = IF box.show + i < Len(box.str) THEN box.str[box.show + i + 1] ELSE " "
    BY DEF InputIsShown
  <2>1. InputInv(box)
    BY KindIs
  <2>2. box.show >= 0
    <3>1. box \in InputSet
      BY <2>1 DEF InputInv
    <3>2. box.show \in Nat
      BY <3>1 DEF InputSet
    <3> QED
      BY <3>2
  <2>3. ASSUME NEW i \in 0..(Width - 1)
        PROVE  box.field[i] = IF box.show + i < Len(box.str) THEN box.str[box.show + i + 1] ELSE " "
    <3>1. box.field = Line(box.str, box.show)
      BY <2>1 DEF InputInv, InputShown
    <3>2. box.field[i] = ShownAt(box.str, box.show, i)
      BY <3>1 DEF Line
    <3> QED
      BY <3>2 DEF ShownAt
  <2>4. box.x \in 0..(Width - 1) /\ box.pos = box.show + box.x /\ box.pos <= Len(box.str)
    BY <2>1 DEF InputInv, InputShown
  <2> QED
    BY <2>2, <2>3, <2>4
<1> QED
  BY <1>1, <1>2 DEF ScreenIsCurrent, DialogInv

\* Whatever keys are pressed, and whatever the lists, the texts, the window and
\* the strings are, the rows of a list and the highlighted one, the field of an
\* input line and its cursor, and the button shown as selected are those the next
\* key acts on: dialog_menu, dialog_checklist, dialog_inputbox and dialog_yesno,
\* which redraw only what they think has changed.
THEOREM ScreenIsTrue == DialogSpec => []ScreenIsCurrent
<1>1. DialogInit => DialogInv
  BY DialogsOpen
<1>2. DialogInv /\ [DialogNext]_<<box, resized>> => DialogInv'
  BY DialogSteps DEF DialogInv, DialogIs, ButtonIsLit
<1>3. DialogInv => ScreenIsCurrent
  BY DialogsAreTrue
<1> QED
  BY <1>1, <1>2, <1>3, PTL DEF DialogSpec

\* A page shown again, after a jump from it, starts at the line it started at.
LEMMA PageAgain ==
  ASSUME TextPlace(box), TextAgain, box'.lines = box.lines
  PROVE  Top(box') = Top(box)
<1> DEFINE v == back_lines(box, box.page_length).page - 1
           p == Top(box)
           n == box.page_length
           L == box.lines
           H == BoxHeight
           to == Most(IF box.end_reached /\ n > 0 THEN L - n + 1 ELSE box.page - n, 1)
<1>1. PICK text \in Texts : text.jumps /\ box' = TextOf(text, v, box.hscroll)
  BY DEF TextAgain
<1>2. box.jumps /\ box.empty /\ Paged(box, p) /\ text.empty
  BY <1>1, LxdialogAssumption DEF TextAgain, TextPlace, TextInv
<1>3. /\ L \in Nat /\ p \in Nat /\ p > 0 /\ p <= L /\ p <= Full(box) /\ H \in Nat /\ H > 0
      /\ box.page = (IF p + H < L THEN p + H ELSE L) /\ (box.end_reached <=> p + H - 1 >= L)
      /\ n = IF p + H - 1 >= L THEN L - p + 1 ELSE H
  BY <1>2, SizesAre DEF Paged, EmptyText, TextInv, Least
<1>4. n \in Int /\ n > 0 /\ to = p
  <2>1. n \in Int /\ n > 0
    BY <1>3
  <2>2. (IF box.end_reached /\ n > 0 THEN L - n + 1 ELSE box.page - n) = p
    BY <1>3
  <2> QED
    BY <1>3, <2>1, <2>2 DEF Most
<1>5. back_lines(box, n).page = p
  <2>1. ~(n <= 0)
    BY <1>4
  <2> HIDE DEF p, n
  <2>2. At(back_lines(box, n), to)
    BY <1>2, <1>4, <2>1, BackFrom
  <2> HIDE DEF to
  <2> QED
    BY <1>4, <2>2 DEF At
<1>6. v = p - 1 /\ v \in Nat /\ v + 1 = p
  BY <1>3, <1>5
<1> HIDE DEF v, p, L
<1>7. /\ box'.lines = text.lines /\ box'.empty = text.empty /\ box'.jumps = text.jumps
      /\ box'.empty /\ box'.jumps => Top(box') = Least(Least(v + 1, box'.lines), Full(box'))
  BY <1>1, <1>6, TextIsOpened
<1>8. Full(box') = Full(box) /\ box'.lines = L
  BY DEF Full, L
<1>9. Least(p, L) = p
  BY <1>3 DEF Least
<1>10. Least(p, Full(box)) = p
  <2>1. Full(box) = IF L - H + 1 > 1 THEN L - H + 1 ELSE 1
    BY <1>3 DEF Full, Most, L
  <2> QED
    BY <1>3, <2>1 DEF Least
<1> QED
  BY <1>1, <1>2, <1>6, <1>7, <1>8, <1>9, <1>10 DEF p

\* Whatever was pressed before, a key moves a text that ends in a newline as far
\* as the key says, and a search shown again is where it was: dialog_textbox,
\* get_line, back_lines and print_page, whose pointer, flags and page lengths
\* are kept from one page to the next.
THEOREM PlaceIsKept == DialogSpec => TextKeepsItsPlace
<1> DEFINE Keys == TextKey /\ box.empty /\ box'.key # "resize" =>
                     LET to == TopAfter(box, box'.key)
                     IN  Top(box') = IF box.jumps THEN Least(to, Full(box)) ELSE to
           Again == TextAgain /\ box'.lines = box.lines => Top(box') = Top(box)
<1>1. DialogInit => DialogInv
  BY DialogsOpen
<1>2. DialogInv /\ [DialogNext]_<<box, resized>> => DialogInv'
  BY DialogSteps DEF DialogInv, DialogIs, ButtonIsLit
<1>3. ASSUME DialogInv PROVE Keys
  <2> SUFFICES ASSUME TextKey, box.empty, box'.key # "resize"
               PROVE  LET to == TopAfter(box, box'.key)
                      IN  Top(box') = IF box.jumps THEN Least(to, Full(box)) ELSE to
    OBVIOUS
  <2>1. TextPlace(box)
    BY <1>3, KindIs DEF TextKey
  <2>2. PICK key \in TextKeys : /\ ~TextIgnores(box, key)
                                /\ box' = [print_page(TextMoved(box, key)) EXCEPT !.key = key]
    BY DEF TextKey
  <2>3. box'.key = key /\ (box.empty /\ key # "resize" => KeyShows(box, box', key))
    BY <2>1, <2>2, TextKeySteps
  <2> QED
    BY <2>3 DEF KeyShows
<1>4. ASSUME DialogInv PROVE Again
  BY <1>4, KindIs, PageAgain DEF TextAgain
<1>5. DialogInv => [Keys /\ Again]_box
  BY <1>3, <1>4
<1> QED
  BY <1>1, <1>2, <1>5, PTL DEF DialogSpec, TextKeepsItsPlace
=============================================================================
