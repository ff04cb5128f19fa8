------------------------------- MODULE Mconf -------------------------------
(***************************************************************************)
(* A user at menuconfig: tools/kconfig/mconf.c.  The keys on the items of  *)
(* the menus, the dialogs that load and save a configuration, and the end  *)
(* of the program.  After each of them the screen is built again, for      *)
(* which every symbol is asked for.                                        *)
(*                                                                         *)
(* A session without files is one of a user who only sets values, as long  *)
(* as he likes; one with files has at most MaxKeys keys.                   *)
(***************************************************************************)
EXTENDS KconfigConf

CONSTANTS
  Numbers,     \* the numbers a user may enter
  Alternate,   \* a file beside ".config"
  Disks(_),    \* Disks(kc): what the two may hold at the start, None when not there
  MaxKeys      \* bound: the keys of a session with files

VARIABLE session

Config == ".config"
NoSession == [end |-> "none", keys |-> 0, files |-> NoLines]
HasFiles(ss) == ss.files # NoLines
Goes == st # None /\ session.end = "none" /\ session.keys < MaxKeys
Pressed == IF HasFiles(session) THEN [session EXCEPT !.keys = @ + 1] ELSE session

----------------------------------------------------------------------------
\* build_conf and what it shows: every symbol is asked for, in menu order.
Screen(s) == CalcAll(s, s.kc.order)
\* The start: without a file nothing has a value, and there is something to save.
Read(kc, file, order) ==
  IF file = None THEN [InitialState(kc) EXCEPT !.changed = TRUE]
  ELSE conf_read(InitialState(kc), file, order)

MconfInit ==
  \E kc \in Kconfigs :
    \/ \E file \in Files(kc), order \in Orders(kc) :
         st = Screen(Read(kc, file, order)) /\ session = NoSession
    \/ \E files \in Disks(kc) :
         /\ st = Screen(Read(kc, files[Config], kc.order))
         /\ session = [end |-> "none", keys |-> 0, filename |-> Config, forgot |-> FALSE,
                       files |-> files]

----------------------------------------------------------------------------
\* The items of the screen, by the tag that build_conf gives them.

\* tag 't': a value is shown with its choice unless the choice is y; the value
\* that is y, and a choice without one that cannot be changed, have the tag ':'.
IsSetHere(x) ==
  LET sx == st.s[x]
  IN  /\ IsTri(K(st, x)) /\ sx.visible # n
      /\ sym_is_choice_value(st, x) => sx.tri # y /\ st.s[K(st, x).in].tri # y
      /\ K(st, x).choice => \/ sym_is_changeable(st, x)
                            \/ \E v \in Range(K(st, x).values) : sx.val = v /\ st.s[v].visible # n

\* tag 's'
IsEntered(x) == ~IsTri(K(st, x)) /\ st.s[x].visible # n

\* sym_set_tristate_value of the first of vs that it accepts.
FirstOf(x, vs) ==
  LET accepted == SelectSeq(vs, LAMBDA v : Accepts(st, x, v))
  IN  IF accepted = <<>> THEN st ELSE sym_set_tristate_value(st, x, accepted[1])

\* sym_toggle_tristate_value: n, m, y, n, until one is accepted.
sym_toggle_tristate_value(tri) == <<(tri + 1) % 3, (tri + 2) % 3, tri>>

\* conf, the keys 5 to 8: y, or m where y is not possible; n; m; space.
Tried(x, key) == CASE key = "y" -> <<y, m>> [] key = "n" -> <<n>> [] key = "m" -> <<m>>
                   [] key = "space" -> sym_toggle_tristate_value(st.s[x].tri)
Key(x, key) ==
  /\ Goes /\ IsSetHere(x)
  /\ st' = Screen(FirstOf(x, Tried(x, key)))
  /\ session' = Pressed

\* Enter on a choice that is y: the list of its visible values.
conf_choice(x, v) ==
  /\ Goes /\ K(st, x).choice /\ IsSetHere(x) /\ st.s[x].tri = y
  /\ K(st, v).in = x /\ st.s[v].visible # n
  /\ st' = Screen(FirstOf(v, <<y>>))
  /\ session' = Pressed

\* Enter on a number: what is not in its range is an invalid entry.
conf_string(x, v) ==
  /\ Goes /\ IsEntered(x) /\ K(st, x).type = "int"
  /\ sym_string_within_range(st, x, v)
  /\ st' = Screen(sym_set_string_value(st, x, v))
  /\ session' = Pressed

----------------------------------------------------------------------------
\* Files

\* conf_load: conf_read clears the count of changes before it looks for the file.
conf_load(name) ==
  /\ Goes /\ HasFiles(session)
  /\ IF session.files[name] = None
     THEN /\ st' = [st EXCEPT !.changed = FALSE]
          /\ session' = [Pressed EXCEPT !.forgot = @ \/ st.changed]
     ELSE /\ st' = Screen([conf_read(st, session.files[name], st.kc.order) EXCEPT !.changed = TRUE])
          /\ session' = [Pressed EXCEPT !.filename = name]

\* What is written is in a file, which becomes the one of the configuration.
Stored(ss, name, w) ==
  /\ st' = Screen(w.st)
  /\ session' = [ss EXCEPT !.files[name] = w.file, !.filename = name, !.forgot = FALSE]

\* Mutant: a file that could not be written counts as saved.
conf_save_Anyway(name, fails) ==
  /\ Goes /\ HasFiles(session)
  /\ IF fails THEN st' = [st EXCEPT !.changed = FALSE] /\ session' = [Pressed EXCEPT !.filename = name]
     ELSE Stored(Pressed, name, conf_write(st))

\* conf_save
conf_save(name, fails) ==
  /\ Goes /\ HasFiles(session)
  /\ IF fails THEN UNCHANGED st /\ session' = Pressed
     ELSE Stored(Pressed, name, conf_write(st))

\* handle_exit: without a change nothing is asked; Escape goes on.
Ended(how) == UNCHANGED st /\ session' = [session EXCEPT !.end = how]
handle_exit(answer, fails) ==
  /\ st # None /\ session.end = "none" /\ HasFiles(session)
  /\ IF ~st.changed THEN Ended("unasked")
     ELSE IF answer = "no" \/ fails THEN Ended("told")
     ELSE Stored([session EXCEPT !.end = "saved"], session.filename, conf_write(st))

----------------------------------------------------------------------------

MconfNext ==
  \/ st # None /\ \E x \in SymbolsIn(st.kc) :
       \/ \E key \in {"y", "n", "m", "space"} : Key(x, key)
       \/ \E v \in SymbolsIn(st.kc) : conf_choice(x, v)
       \/ \E v \in Numbers : conf_string(x, v)
  \/ \E name \in {Config, Alternate} : conf_load(name)
  \/ \E name \in {Config, Alternate}, fails \in BOOLEAN : conf_save(name, fails)
  \/ \E answer \in {"yes", "no"}, fails \in BOOLEAN : handle_exit(answer, fails)

----------------------------------------------------------------------------
\* Properties

\* The file the session is about has the configuration on the screen.
HasTheScreen(file) ==
  file # None /\ ValuesOf(Screen(Read(st.kc, file, st.kc.order))) = ValuesOf(st)

\* Whenever nothing counts as changed, and no load has failed with changes
\* pending, the file has what is on the screen; so it does after a save.
FileIsCurrent == st # None /\ HasFiles(session) =>
  \/ (st.changed \/ session.forgot) /\ session.end # "saved"
  \/ HasTheScreen(session.files[session.filename])

\* A user who leaves and is asked nothing has lost nothing.
NothingIsLost == st # None =>
  (session.end = "unasked" => HasTheScreen(session.files[session.filename]))
============================================================================
