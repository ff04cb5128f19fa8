---------------------------- MODULE KconfigConf ----------------------------
(***************************************************************************)
(* Configurations: conf_read, conf_write, conf_write_defconfig and         *)
(* conf_set_all_new_symbols of tools/kconfig/confdata.c, and setting a     *)
(* value, symbol.c.                                                        *)
(*                                                                         *)
(* A file is a function from the symbols it has a line for to their        *)
(* values; "# CONFIG_X is not set" is the value n.  Symbols are asked for  *)
(* in an order of Orders, as hash order, menu order and what the screen    *)
(* shows are different ones.                                               *)
(***************************************************************************)
EXTENDS KconfigSymbols

CONSTANTS
  Kconfigs,          \* the finalized Kconfig files
  Files(_),          \* Files(kc): the configuration files a user may start from
  Orders(_)          \* Orders(kc): the orders symbols are asked for in

VARIABLE st     \* the symbols in the memory of the tool, None when none runs

Tri == {n, m, y}
NoLines == <<>>
SymbolsIn(kc) == DOMAIN kc.symbol
IsTri(k) == k.type \in {"bool", "tristate"}

\* sym_string_within_range of a string or a number
sym_string_within_range(s, x, v) ==
  RangeOf(s, x) # None => Number(v) \in RangeOf(s, x)[1] .. RangeOf(s, x)[2]

----------------------------------------------------------------------------
\* Reading

\* conf_read_simple, before the first line: nothing has a user value, and every
\* choice counts as having one.
Unset(s) ==
  LET Forget(a, x) == [a EXCEPT !.s[x].valid = FALSE, !.s[x].def_user = K(s, x).choice,
                                !.s[x].def = n, !.s[x].defval = None]
  IN  ForAll(Forget, s)

\* What the line of a choice value does to its choice.
ChoiceLine(s, cs, x, v) ==
  LET c == s.s[cs]
  IN  [s EXCEPT !.s[cs] =
        [c EXCEPT !.def_user = IF v = m /\ c.def = y THEN FALSE ELSE c.def_user,
                  !.defval = IF v = y THEN x ELSE c.defval,
                  !.def = EXPR_OR(c.def, v)]]

\* A line; a bool that is m is not accepted.
ReadLine(s, x, v) ==
  LET set == IF IsTri(K(s, x))
             THEN [s EXCEPT !.s[x].def = v, !.s[x].def_user = TRUE]
             ELSE [s EXCEPT !.s[x].defval = v, !.s[x].def_user = TRUE]
  IN  IF K(s, x).type = "bool" /\ v = m THEN s
      ELSE IF sym_is_choice_value(s, x) THEN ChoiceLine(set, K(s, x).in, x, v) ELSE set

conf_read_simple(s, file) ==
  InOrder(LAMBDA acc, x : IF x \in DOMAIN file THEN ReadLine(acc, x, file[x]) ELSE acc,
           Unset(s), s.kc.order)

\* A symbol whose computed value is not the saved one, or that is new.
Unsaved(s, x) ==
  LET sx == s.s[x]
  IN  /\ ~K(s, x).choice
      /\ IF sx.def_user /\ sx.write
         THEN IF IsTri(K(s, x)) THEN sx.def # sx.tri ELSE sx.val # sx.defval
         ELSE sx.def_user \/ sx.write

\* conf_read, the second loop: an invisible symbol is as if it were new, unless
\* something is unsaved; a number that is out of range is forgotten.
Reset(s, x) ==
  LET sx == s.s[x]
      applies == sx.def_user /\ ~sym_is_choice_value(s, x)
      drops == ~IsTri(K(s, x)) /\ ~sym_string_within_range(s, x, sx.defval)
  IN  IF ~applies THEN s
      ELSE [s EXCEPT !.changed = s.changed \/ drops,
                     !.s[x].def_user = ~drops /\ (sx.visible # n \/ s.changed),
                     !.s[x].valid = sx.valid /\ ~drops]

Checked(s, order) ==
  InOrder(Reset, [s EXCEPT !.changed = \E x \in SymbolsIn(s.kc) : Unsaved(s, x)], order)
conf_read(s, file, order) ==
  Checked(CalcAll(calc_modules(conf_read_simple(s, file)), order), order)

----------------------------------------------------------------------------
\* Writing

\* A file is extended by a symbol's line.
WithLine(file, x, v) == [z \in DOMAIN file \cup {x} |-> IF z = x THEN v ELSE file[z]]

\* conf_write: in menu order, every symbol to be written.
Written(s, file, x) ==
  [st |-> s,
   file |-> IF s.s[x].write THEN WithLine(file, x, sym_get_string_value(s, x)) ELSE file]
conf_write(s) ==
  LET Step(acc, x) ==
        IF K(acc.st, x).choice THEN acc ELSE Written(sym_calc_value(acc.st, x), acc.file, x)
  IN  [InOrder(Step, [st |-> IF s.changed THEN s ELSE sym_clear_all_valid(s), file |-> NoLines],
               s.kc.order) EXCEPT !.st.changed = FALSE]

\* sym_get_string_default, own being the default that holds.
TriWithDefault(s, x, tri) ==
  IF tri # m THEN tri
  ELSE IF (~sym_is_choice_value(s, x) /\ ModulesTri(s) = n) \/ K(s, x).type = "bool" THEN y ELSE m
DefaultString(s, x) ==
  IF IsTri(K(s, x))
  THEN EXPR_OR(TriWithDefault(s, x, EXPR_OR(DefaultTri(s, DefaultOf(s, x)), s.s[x].rev)), s.s[x].imp)
  ELSE DefaultOf(s, x)[1]
OwnComputed(s, x) == IF IsTri(K(s, x)) THEN DefaultComputed(s, x) ELSE s
sym_get_string_default(s, x) ==
  DefaultString(OwnComputed(DefaultsComputed(calc_modules(sym_calc_visibility(s, x)), x), x), x)

\* Mutant: the y of every choice value is left out, whichever is the default.
Redundant_AnyChoice(s, x) ==
  \/ ~sym_is_changeable(s, x)
  \/ sym_get_string_value(s, x) = sym_get_string_default(s, x)
  \/ sym_is_choice_value(s, x) /\ K(s, x).type = "bool" /\ s.s[x].tri = y

\* The values a minimal configuration leaves out: that of a symbol the user
\* cannot change, a default, and the y of the default of a choice.
Redundant(s, x) ==
  \/ ~sym_is_changeable(s, x)
  \/ sym_get_string_value(s, x) = sym_get_string_default(s, x)
  \/ /\ sym_is_choice_value(s, x)
     /\ ~K(s, K(s, x).in).optional /\ K(s, x).type = "bool" /\ s.s[x].tri = y
     /\ sym_choice_default(s, K(s, x).in) = x

WrittenMinimal(s, file, x) ==
  [st |-> Set(s, x, "write", FALSE),
   file |-> IF s.s[x].write /\ ~Redundant(s, x)
            THEN WithLine(file, x, sym_get_string_value(s, x)) ELSE file]
conf_write_defconfig(s) ==
  LET Step(acc, x) ==
        IF K(acc.st, x).choice THEN acc
        ELSE WrittenMinimal(sym_calc_value(acc.st, x), acc.file, x)
  IN  InOrder(Step, [st |-> sym_clear_all_valid(s), file |-> NoLines], s.kc.order).file

----------------------------------------------------------------------------
\* Setting values

sym_tristate_within_range(s, x, v) ==
  LET sx == s.s[x]
  IN  /\ IsTri(K(s, x)) /\ sx.visible # n
      /\ ~(sym_get_type(s, x) = "bool" /\ v = m)
      /\ sx.visible > sx.rev
      /\ IF sym_is_choice_value(s, x) /\ sx.visible = y THEN v = y
         ELSE v \in sx.rev .. sx.visible

\* sym_set_tristate_value accepts v.
Accepts(s, x, v) == s.s[x].tri = v \/ sym_tristate_within_range(s, x, v)

\* sym_set_tristate_value of a value it accepts: the y of a choice value settles
\* its choice and the visible values of it.
Chosen(s, x, v) == IF K(s, x).in # None /\ v = y THEN Set(s, K(s, x).in, "defval", x) ELSE s
sym_set_tristate_value(s, x, v) ==
  LET cs == K(s, x).in
      Marked(z) == \/ z = x
                   \/ cs # None /\ v = y /\ (z = cs \/ (K(s, z).in = cs /\ s.s[z].visible # n))
      Mark(a, z) == IF Marked(z) THEN Set(a, z, "def_user", TRUE) ELSE a
      set == Chosen(Set(ForAll(Mark, s), x, "def", v), x, v)
  IN  IF s.s[x].tri = v THEN set ELSE sym_clear_all_valid(set)

\* sym_set_string_value of a number in its range: one equal to the number that
\* is kept, in force or not, clears no value.
sym_set_string_value(s, x, v) ==
  LET s1 == [s EXCEPT !.s[x].def_user = TRUE, !.s[x].defval = v]
  IN  IF s.s[x].defval = v THEN s1 ELSE sym_clear_all_valid(s1)

\* conf_set_all_new_symbols: what it gives a symbol that has no value, is not
\* computed and is bool or tristate.
NewValue(mode) == CASE mode = "def_yes" -> y [] mode = "def_mod" -> m [] mode = "def_no" -> n

WithNewValues(s, mode) ==
  LET New(x) == ~s.s[x].def_user /\ ~s.s[x].valid /\ IsTri(K(s, x))
      Given(a, x) == IF New(x) THEN [a EXCEPT !.s[x].def = NewValue(mode), !.s[x].def_user = TRUE]
                     ELSE a
  IN  IF mode = "def_default" THEN s ELSE ForAll(Given, s)
WithNeeds(s) ==
  LET Need(a, x) == IF sym_is_choice_value(s, x) \/ (K(s, x).choice /\ ~s.s[x].def_user)
                    THEN Set(a, x, "need", TRUE) ELSE a
  IN  ForAll(Need, s)
conf_set_all_new_symbols(s, mode, order) ==
  LET Step(a, x) == IF a.s[x].def_user \/ ~K(a, x).choice THEN a
                    ELSE set_all_choice_values(sym_calc_value(a, x), x)
  IN  InOrder(Step, WithNeeds(sym_clear_all_valid(WithNewValues(s, mode))), order)

----------------------------------------------------------------------------

Modes == {"def_yes", "def_mod", "def_no", "def_default"}

----------------------------------------------------------------------------
\* Properties

\* What a configuration means: the value of every symbol that is written.
ValuesOf(s) == [x \in {z \in SymbolsIn(s.kc) : ~K(s, z).choice} |->
                  IF s.s[x].write THEN sym_get_string_value(s, x) ELSE None]

\* The values do not depend on the order in which symbols are asked for, and a
\* choice that is y has exactly one value that is y, a visible one.
OneChosen(s, x) ==
  \E v \in Range(K(s, x).values) :
    /\ s.s[v].visible = y
    /\ \A w \in Range(K(s, x).values) : (s.s[w].tri = y) <=> (w = v)

HasValues(s, values) ==
  /\ ValuesOf(s) = values
  /\ \A x \in SymbolsIn(s.kc) : K(s, x).choice /\ s.s[x].tri = y => OneChosen(s, x)

ValuesAreDefined == st # None =>
  \A order \in Orders(st.kc) :
    HasValues(CalcAll(sym_clear_all_valid(st), order),
              ValuesOf(CalcAll(sym_clear_all_valid(st), st.kc.order)))

\* A configuration that is written and read back has the same values, and the
\* one of conf --savedefconfig does, given back to conf --defconfig.
Reread(s, file) == conf_read(InitialState(s.kc), file, s.kc.order)
SavedReadsBack == st # None =>
  /\ ValuesOf(CalcAll(Reread(st, conf_write(st).file), st.kc.order)) = ValuesOf(st)
  /\ ValuesOf(CalcAll(conf_set_all_new_symbols(Reread(st, conf_write_defconfig(st)),
                                               "def_default", st.kc.order), st.kc.order))
       = ValuesOf(st)
============================================================================
