-------------------------- MODULE KconfigSymbols --------------------------
(***************************************************************************)
(* The symbols of a Kconfig file and their values: menu_finalize of        *)
(* tools/kconfig/menu.c, the lazy evaluation of symbol.c, and reading and  *)
(* writing a configuration, confdata.c.                                    *)
(*                                                                         *)
(* A value is computed when it is asked for and kept until                 *)
(* sym_clear_all_valid; computing one computes those it depends on, and a  *)
(* symbol that is being computed already counts as computed.  The state is *)
(* therefore a record st passed through every call, and the order in which *)
(* symbols are asked for is a parameter.                                   *)
(*                                                                         *)
(* Only the defined symbols are modelled: of flags, SYMBOL_CHANGED and     *)
(* SYMBOL_WRITTEN (which serve the display and duplicate entries), of      *)
(* types, hex, and of messages, all are left out.                          *)
(***************************************************************************)
EXTENDS Integers, Sequences, SequencesExt

CONSTANTS None   \* model value: no symbol, no expression, no value

n == 0
m == 1
y == 2
EXPR_AND(a, b) == IF a < b THEN a ELSE b
EXPR_OR(a, b) == IF a > b THEN a ELSE b
EXPR_NOT(a) == 2 - a

\* FoldLeft in a form that TLC evaluates in one pass.
InOrder(op(_, _), base, seq) ==
  LET f[i \in 0..Len(seq)] == IF i = 0 THEN base ELSE op(f[i - 1], seq[i])
  IN  f[Len(seq)]

----------------------------------------------------------------------------
\* Expressions: <<"tri", value>>, <<"sym", s>>, <<"is", s, value>> for E_EQUAL,
\* <<"not", e>>, <<"and", e, f>>, <<"or", e, f>>; None is no expression.

Sym(s) == <<"sym", s>>
Yes == <<"tri", y>>

\* expr_alloc_and and expr_alloc_or: one side missing leaves the other.
expr_alloc_and(e, f) == IF e = None THEN f ELSE IF f = None THEN e ELSE <<"and", e, f>>
expr_alloc_or(e, f) == IF e = None THEN f ELSE IF f = None THEN e ELSE <<"or", e, f>>

\* The symbols an evaluation of e asks for, in its order.
RECURSIVE SymbolsOf(_)
SymbolsOf(e) ==
  CASE e = None -> <<>>
    [] e # None /\ e[1] = "tri" -> <<>>
    [] e # None /\ e[1] \in {"sym", "is"} -> <<e[2]>>
    [] e # None /\ e[1] = "not" -> SymbolsOf(e[2])
    [] e # None /\ e[1] \in {"and", "or"} -> SymbolsOf(e[2]) \o SymbolsOf(e[3])

\* rewrite_m: m alone becomes m && MODULES; e's leaves only.
RECURSIVE rewrite_m(_, _)
rewrite_m(e, modules) ==
  CASE e = None -> None
    [] e = <<"tri", m>> -> <<"and", e, modules>>
    [] e # None /\ e[1] = "not" -> <<"not", rewrite_m(e[2], modules)>>
    [] e # None /\ e[1] \in {"and", "or"} ->
         <<e[1], rewrite_m(e[2], modules), rewrite_m(e[3], modules)>>
    [] OTHER -> e

----------------------------------------------------------------------------
\* menu_finalize.  An entry of the file, in menu order:
\*   sym, type ("bool", "tristate", "int", "string"), dep (with the conditions
\*   of the enclosing ifs), prompt (its condition, or None), defaults
\*   (<<value, condition>>), selects and implies (<<symbol, condition>>), range
\*   (<<low, high, condition>> or None), in (the choice it is a value of),
\*   choice, optional.
\* The simplifications of the conditions are the subject of KconfigExpr.

EntryOf(entries, s) == CHOOSE e \in Range(entries) : e.sym = s

\* The dependency of an entry: a choice's mode bounds its values, and a value
\* that is not tristate needs the y of a tristate choice.
DepOf(entries, modules, e) ==
  LET own == rewrite_m(e.dep, modules)
      withChoice == IF e.in = None THEN own ELSE expr_alloc_and(Sym(e.in), own)
  IN  IF e.in # None /\ EntryOf(entries, e.in).type = "tristate" /\ e.type # "tristate"
      THEN expr_alloc_and(<<"is", e.in, y>>, withChoice) ELSE withChoice

\* What the entries whose field (selects or implies) names s add up to.
ReverseDep(entries, modules, s, field) ==
  InOrder(LAMBDA acc, e :
             InOrder(LAMBDA a, t :
                        IF t[1] # s THEN a
                        ELSE expr_alloc_or(a, expr_alloc_and(Sym(e.sym),
                               expr_alloc_and(DepOf(entries, modules, e),
                                              rewrite_m(t[2], modules)))),
                      acc, e[field]),
           None, entries)

Finalized(entries, modules, e) ==
  LET dep == DepOf(entries, modules, e)
      With(c) == expr_alloc_and(dep, rewrite_m(c, modules))
      selected == ReverseDep(entries, modules, e.sym, "selects")
  IN [type |-> e.type,
      prompts |-> IF e.prompt = None THEN <<>> ELSE <<With(e.prompt)>>,
      defaults |-> [i \in DOMAIN e.defaults |-> <<e.defaults[i][1], With(e.defaults[i][2])>>],
      range |-> IF e.range = None THEN None
                ELSE <<e.range[1], e.range[2], With(e.range[3])>>,
      dir_dep |-> dep,
      rev_dep |-> IF e.choice /\ ~e.optional
                  THEN expr_alloc_or(selected, expr_alloc_and(With(e.prompt), <<"tri", m>>))
                  ELSE selected,
      implied |-> ReverseDep(entries, modules, e.sym, "implies"),
      choice |-> e.choice, optional |-> e.optional, in |-> e.in,
      values |-> LET vs == SelectSeq(entries, LAMBDA v : v.in = e.sym)
                 IN  [i \in DOMAIN vs |-> vs[i].sym]]

\* The table of a file: modules_sym is the symbol "MODULES" when there is one.
menu_finalize(entries) ==
  LET Syms == {entries[i].sym : i \in DOMAIN entries}
      modules == IF "MODULES" \in Syms THEN Sym("MODULES") ELSE <<"tri", n>>
  IN  [order |-> [i \in DOMAIN entries |-> entries[i].sym],
       has_modules |-> "MODULES" \in Syms,
       symbol |-> [s \in Syms |-> Finalized(entries, modules, EntryOf(entries, s))]]

----------------------------------------------------------------------------
\* The state: st.kc the table, st.modules_val, and per symbol its fields.

Fresh == [valid |-> FALSE, write |-> FALSE, need |-> FALSE,
          visible |-> n, tri |-> n, val |-> None,
          dir |-> n, rev |-> n, imp |-> n,
          def_user |-> FALSE, def |-> n, defval |-> None]

InitialState(kc) == [kc |-> kc, modules_val |-> n, changed |-> FALSE,
                     s |-> [x \in DOMAIN kc.symbol |-> Fresh]]

K(st, x) == st.kc.symbol[x]
sym_is_choice_value(st, x) == K(st, x).in # None
sym_is_changeable(st, x) == st.s[x].visible > st.s[x].rev

sym_get_type(st, x) ==
  IF /\ K(st, x).type = "tristate"
     /\ \/ sym_is_choice_value(st, x) /\ st.s[x].visible = y
        \/ st.modules_val = n
  THEN "bool" ELSE K(st, x).type

\* The value of an expression whose symbols have been computed.
RECURSIVE ValueOf(_, _)
ValueOf(st, e) ==
  CASE e = None -> y
    [] e # None /\ e[1] = "tri" -> e[2]
    [] e # None /\ e[1] = "sym" -> st.s[e[2]].tri
    [] e # None /\ e[1] = "is" -> IF st.s[e[2]].tri = e[3] THEN y ELSE n
    [] e # None /\ e[1] = "not" -> EXPR_NOT(ValueOf(st, e[2]))
    [] e # None /\ e[1] = "and" -> EXPR_AND(ValueOf(st, e[2]), ValueOf(st, e[3]))
    [] e # None /\ e[1] = "or" -> EXPR_OR(ValueOf(st, e[2]), ValueOf(st, e[3]))

Set(st, x, field, v) == [st EXCEPT !.s[x][field] = v]
\* for_all_symbols, where the order does not matter
ForAll(op(_, _), st) == InOrder(op, st, st.kc.order)

\* A bool has no m.
YesIfBool(st, x, tri) == IF tri = m /\ sym_get_type(st, x) = "bool" THEN y ELSE tri

RECURSIVE sym_calc_value(_, _)

\* expr_calc_value up to the value: compute the symbols it asks for.
Computed(st, e) == InOrder(sym_calc_value, st, SymbolsOf(e))
ComputedAll(st, es) == InOrder(Computed, st, es)

\* sym_calc_visibility: the prompts, then what selects or implies the symbol.
PromptVisibility(st, x, e) ==
  LET tri == ValueOf(st, e)
  IN  IF /\ sym_is_choice_value(st, x) /\ K(st, x).type = "tristate"
         /\ tri = m /\ st.s[K(st, x).in].tri = y
      THEN n ELSE tri

PromptShown(st, x) ==
  LET tri == InOrder(EXPR_OR, n, [i \in DOMAIN K(st, x).prompts |->
                                     PromptVisibility(st, x, K(st, x).prompts[i])])
  IN  Set(st, x, "visible",
          IF tri = m /\ (K(st, x).type # "tristate" \/ st.modules_val = n) THEN y ELSE tri)

\* A field of x that is the value of e, in a state in which it has been computed.
Held(st, x, field, e, none) ==
  Set(st, x, field, IF e = None THEN none ELSE YesIfBool(st, x, ValueOf(st, e)))
HeldAfter(st, x, field, e, none) == Held(Computed(st, e), x, field, e, none)

sym_calc_visibility(st, x) ==
  LET k == K(st, x)
      shown == PromptShown(ComputedAll(st, k.prompts), x)
  IN  IF sym_is_choice_value(st, x) THEN shown
      ELSE HeldAfter(HeldAfter(HeldAfter(shown, x, "dir", k.dir_dep, y),
                               x, "rev", k.rev_dep, n), x, "imp", k.implied, n)

\* sym_get_default_prop: the first default whose condition holds; it is called
\* when the conditions up to that one have been computed.
NoDefault == <<None, None>>
DefaultOf(st, x) ==
  Head(SelectSeq(K(st, x).defaults, LAMBDA d : ValueOf(st, d[2]) # n) \o <<NoDefault>>)

DefaultsComputed(st, x) ==
  ComputedAll(st, [i \in DOMAIN K(st, x).defaults |-> K(st, x).defaults[i][2]])

\* sym_choice_default: the first default that holds and is visible, otherwise
\* the first visible value.
sym_choice_default(st, x) ==
  LET ds == SelectSeq(K(st, x).defaults,
              LAMBDA d : ValueOf(st, d[2]) # n /\ st.s[d[1]].visible # n)
      vs == SelectSeq(K(st, x).values, LAMBDA v : st.s[v].visible # n)
  IN  IF ds # <<>> THEN ds[1][1] ELSE IF vs # <<>> THEN vs[1] ELSE None

\* The value of a choice without the user's: the default, or none.
ChoiceDefault(st, x) ==
  LET default == sym_choice_default(st, x)
  IN  IF default = None THEN Set(Set(st, x, "val", None), x, "tri", n) ELSE Set(st, x, "val", default)

\* A visible value without a user's setting makes the choice one without.
ChoiceIsSet(st, x) ==
  Set(st, x, "def_user",
      /\ st.s[x].def_user
      /\ \A v \in Range(K(st, x).values) : st.s[v].visible # n => st.s[v].def_user)

\* Mutant: the user's choice counts although it is not visible.
ChoiceValue_Invisible(st, x) ==
  IF st.s[x].defval # None THEN Set(st, x, "val", st.s[x].defval)
  ELSE ChoiceDefault(DefaultsComputed(st, x), x)

\* The user's choice if it is visible.
ChoiceValue(st, x) ==
  LET user == st.s[x].defval
  IN  IF user # None /\ st.s[user].visible # n THEN Set(st, x, "val", user)
      ELSE ChoiceDefault(DefaultsComputed(st, x), x)

sym_calc_choice(st, x) ==
  ChoiceValue(ChoiceIsSet(InOrder(sym_calc_visibility, st, K(st, x).values), x), x)

\* The value of the default that holds is asked for after the conditions.
DefaultComputed(st, x) == Computed(st, DefaultOf(st, x)[1])
DefaultTri(st, d) == IF d = NoDefault THEN n ELSE EXPR_AND(ValueOf(st, d[1]), ValueOf(st, d[2]))

TriSet(st, x, tri, written) ==
  [st EXCEPT !.s[x].tri = YesIfBool(st, x, tri), !.s[x].write = @ \/ written]

\* A bool or tristate that the user has not set: its default, own, or what
\* implies it.
Implied(sx, own) == IF sx.imp = n THEN own ELSE EXPR_AND(EXPR_OR(own, sx.imp), sx.dir)
TriDefault(st, x, sx, own) ==
  TriSet(st, x, EXPR_OR(Implied(sx, own), sx.rev), sx.rev # n \/ own # n \/ sx.imp # n)
TriUnset(st, x) == TriDefault(st, x, st.s[x], DefaultTri(st, DefaultOf(st, x)))

\* The value of a bool or tristate that is not a choice value visible as y.
TristateValue(st, x) ==
  LET sx == st.s[x]
  IN  IF sx.visible # n /\ sx.def_user
      THEN TriSet(st, x, EXPR_OR(EXPR_AND(sx.def, sx.visible), sx.rev), FALSE)
      ELSE IF K(st, x).choice THEN TriSet(st, x, sx.rev, sx.rev # n)
      ELSE TriUnset(DefaultComputed(DefaultsComputed(st, x), x), x)

\* A string or an int: the user's value, or the first default that holds.
StringDefault(st, x, d) ==
  [st EXCEPT !.s[x].write = @ \/ d # NoDefault, !.s[x].val = d[1]]
StringUnset(st, x) == StringDefault(st, x, DefaultOf(st, x))
StringValue(st, x) ==
  IF st.s[x].visible # n /\ st.s[x].def_user THEN Set(st, x, "val", st.s[x].defval)
  ELSE StringUnset(DefaultsComputed(st, x), x)

\* strtoll of a value: that of an empty string is 0.
Number(v) == IF v = None THEN 0 ELSE v

\* sym_get_range_prop: the range, if its condition holds.
RangeOf(st, x) ==
  IF K(st, x).range = None THEN None
  ELSE IF ValueOf(st, K(st, x).range[3]) = n THEN None ELSE K(st, x).range

InRange(st, x) ==
  LET r == RangeOf(st, x)
      v == Number(st.s[x].val)
  IN  IF r = None THEN st
      ELSE IF v < r[1] THEN Set(st, x, "val", r[1])
      ELSE IF v > r[2] THEN Set(st, x, "val", r[2]) ELSE st
sym_validate_range(st, x) ==
  InRange(IF K(st, x).range = None THEN st ELSE Computed(st, K(st, x).range[3]), x)

\* set_all_choice_values: the values without a user's setting get n.
set_all_choice_values(st, x) ==
  LET Assign(s, z) == IF s.s[z].def_user THEN s ELSE Set(s, z, "def", n)
  IN  [InOrder(Assign, st, K(st, x).values) EXCEPT
         !.s[x].def_user = TRUE, !.s[x].valid = FALSE, !.s[x].need = FALSE]

\* The end of sym_calc_value of a choice: its visible values are written with it.
WriteValues(st, x) ==
  LET Write(s, z) == IF s.s[x].write /\ s.s[z].visible # n THEN Set(s, z, "write", TRUE) ELSE s
  IN  InOrder(Write, st, K(st, x).values)

\* The steps of sym_calc_value.  A choice value asks for its choice first.
ChoiceAsked(st, x) ==
  IF sym_is_choice_value(st, x) /\ st.s[x].need
  THEN sym_calc_value(Set(st, x, "need", FALSE), K(st, x).in) ELSE st
Unwritten(st, x) == Set(Set(st, x, "valid", TRUE), x, "write", FALSE)
\* The default, for when x is asked for again below.
Begun(st, x) ==
  [st EXCEPT !.s[x].write = st.s[x].visible # n, !.s[x].tri = n, !.s[x].val = None]
Valued(st, x) ==
  LET k == K(st, x)
  IN  IF k.type \in {"int", "string"} THEN sym_validate_range(StringValue(st, x), x)
      ELSE IF sym_is_choice_value(st, x) /\ st.s[x].visible = y
      THEN Set(st, x, "tri", IF st.s[k.in].val = x THEN y ELSE n)
      ELSE TristateValue(st, x)
ValueChosen(st, x) == IF K(st, x).choice /\ st.s[x].tri = y THEN sym_calc_choice(st, x) ELSE st
ModulesSet(st, x) == IF x = "MODULES" THEN [st EXCEPT !.modules_val = st.s[x].tri] ELSE st
ValuesWritten(st, x) == IF K(st, x).choice THEN WriteValues(st, x) ELSE st
ValuesAssigned(st, x) == IF st.s[x].need THEN set_all_choice_values(st, x) ELSE st

sym_calc_value(st, x) ==
  IF st.s[x].valid THEN st
  ELSE ValuesAssigned(ValuesWritten(ModulesSet(ValueChosen(Valued(Begun(
         sym_calc_visibility(Unwritten(ChoiceAsked(st, x), x), x), x), x), x), x), x), x)

calc_modules(st) == IF st.kc.has_modules THEN sym_calc_value(st, "MODULES") ELSE st

sym_clear_all_valid(st) ==
  LET Clear(s, x) == Set(s, x, "valid", FALSE)
  IN  calc_modules(ForAll(Clear, [st EXCEPT !.changed = TRUE]))

\* Every symbol is asked for, in an order.
CalcAll(st, order) == InOrder(sym_calc_value, st, order)

\* sym_get_string_value: an m without modules reads n.
ModulesTri(st) == IF st.kc.has_modules THEN st.s["MODULES"].tri ELSE n
sym_get_string_value(st, x) ==
  IF K(st, x).type \in {"int", "string"} THEN st.s[x].val
  ELSE IF st.s[x].tri = m /\ ModulesTri(st) = n THEN n ELSE st.s[x].tri
============================================================================
