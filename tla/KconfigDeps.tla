---------------------------- MODULE KconfigDeps ----------------------------
(***************************************************************************)
(* The search for recursive dependencies after a Kconfig file is read:     *)
(* sym_check_deps and what it calls in tools/kconfig/symbol.c.             *)
(*                                                                         *)
(* A symbol is a record: dir_dep, rev_dep and implied are the symbols of   *)
(* these conditions, in their order; props those of its prompts, ranges    *)
(* and defaults, <<condition, value>>; in is the choice it is a value of;  *)
(* choice, and values of a choice.  A choice has no name: only its own     *)
(* values depend on it.                                                    *)
(***************************************************************************)
EXTENDS Integers, Sequences, SequencesExt

CONSTANTS
  NoChoice,      \* model value: what a symbol that is no choice value is in
  SymbolTables   \* [order, symbol]: the order of the hash table, and the symbols

VARIABLES
  table,
  report     \* one entry per error: what is printed of it

----------------------------------------------------------------------------
\* c: the symbols with SYMBOL_CHECK and with SYMBOL_CHECKED, dep_stack from the
\* bottom to check_top, whether sym2 is not NULL, and what has been printed.

Unchecked == [check |-> {}, checked |-> {}, stack |-> <<>>, sym2 |-> FALSE, printed |-> <<>>]

dep_stack_insert(c, x) == [c EXCEPT !.stack = Append(@, x)]
dep_stack_remove(c) == [c EXCEPT !.stack = Front(@)]
Marks(c, xs) == [c EXCEPT !.check = @ \cup xs, !.checked = @ \cup xs]
Unmarks(c, xs) == [c EXCEPT !.check = @ \ xs]

\* sym_check_print_recursive: from the last entry of last_sym, or of its choice,
\* to the top, each with the next one; the last one with last_sym again.
PrintedFrom(stack, last_sym) ==
  LET at == {i \in DOMAIN stack : stack[i] = last_sym}
      bottom == CHOOSE i \in at : \A j \in at : j <= i
      chain == SubSeq(stack, bottom, Len(stack)) \o <<last_sym>>
  IN  IF at = {} THEN <<"unexpected">> ELSE [i \in 1..(Len(chain) - 1) |-> <<chain[i], chain[i + 1]>>]
sym_check_print_recursive(S, c, x) ==
  [c EXCEPT !.sym2 = TRUE,
            !.printed = Append(@, IF S[x].in = NoChoice THEN PrintedFrom(c.stack, x)
                                  ELSE PrintedFrom(c.stack \o <<x>>, S[x].in))]

RECURSIVE sym_check_deps(_, _, _)

\* sym_check_expr_deps: the symbols of a condition, up to the first error.
sym_check_expr_deps(S, c, xs) ==
  FoldLeft(LAMBDA a, x : IF a.sym2 THEN a ELSE sym_check_deps(S, a, x), c, xs)

\* The value of a default is an expression that is followed; that of a choice is not.
PropSymbols(S, x) ==
  FlattenSeq([i \in DOMAIN S[x].props |->
                S[x].props[i][1] \o (IF S[x].choice THEN <<>> ELSE S[x].props[i][2])])

sym_check_sym_deps(S, c, x) ==
  dep_stack_remove(sym_check_expr_deps(S, dep_stack_insert(c, x),
    S[x].dir_dep \o S[x].rev_dep \o S[x].implied \o PropSymbols(S, x)))

\* Mutant: the values of a choice are not marked while it is checked.
sym_check_choice_deps_Unmarked(S, c, x) ==
  LET own == Unmarks(sym_check_sym_deps(S, Marks(dep_stack_insert(c, x), {x}), x), {x})
  IN  dep_stack_remove(FoldLeft(LAMBDA a, v : IF a.sym2 THEN a ELSE sym_check_sym_deps(S, a, v),
                                own, S[x].values))

\* The values are marked while the choice and each of them is checked.
sym_check_choice_deps(S, c, x) ==
  LET values == Range(S[x].values)
      own == Unmarks(sym_check_sym_deps(S, Marks(dep_stack_insert(c, x), values \cup {x}), x), {x})
      each == FoldLeft(LAMBDA a, v : IF a.sym2 THEN a ELSE sym_check_sym_deps(S, a, v),
                       own, S[x].values)
  IN  dep_stack_remove(Unmarks(each, values))

sym_check_deps(S, c, x) ==
  IF x \in c.check THEN sym_check_print_recursive(S, c, x)
  ELSE IF x \in c.checked THEN c
  ELSE IF S[x].in # NoChoice THEN dep_stack_remove(sym_check_deps(S, dep_stack_insert(c, x), S[x].in))
  ELSE IF S[x].choice THEN sym_check_choice_deps(S, c, x)
  ELSE Unmarks(sym_check_sym_deps(S, Marks(c, {x}), x), {x})

\* conf_parse: every symbol is checked; an error does not end the loop.
DepsInit == table \in SymbolTables /\ report = "none yet"
conf_parse ==
  /\ report = "none yet"
  /\ report' = FoldLeft(LAMBDA c, x : sym_check_deps(table.symbol, [c EXCEPT !.sym2 = FALSE], x),
                        Unchecked, table.order).printed
  /\ UNCHANGED table

----------------------------------------------------------------------------
\* Properties

\* What x needs the value of, by any of its conditions.
Needs(x) ==
  Range(table.symbol[x].dir_dep \o table.symbol[x].rev_dep \o table.symbol[x].implied
        \o PropSymbols(table.symbol, x))

\* A choice and its values are computed together; that a value depends on its
\* choice is no recursion, that it depends on another value of it is.
Together(x) == IF table.symbol[x].in = NoChoice THEN x ELSE table.symbol[x].in
NeedsOf(x) ==
  {Together(z) : z \in UNION {Needs(v) \ {table.symbol[v].in} :
                                v \in {w \in DOMAIN table.symbol : Together(w) = x}}}
IsRecursive ==
  \E Xs \in SUBSET DOMAIN table.symbol : Xs # {} /\ \A x \in Xs : NeedsOf(x) \cap Xs # {}

\* Each step of what is printed is a dependency, from a choice to a value of it,
\* from a choice to itself, or from a value to its choice, and the last leads
\* back to the first.
IsStep(x, z) == z \in Needs(x) \/ Together(x) = z \/ Together(z) = x
IsLoop(chain) ==
  /\ chain # <<>> /\ chain[1] # "unexpected"
  /\ \A i \in DOMAIN chain :
       /\ IsStep(chain[i][1], chain[i][2])
       /\ i < Len(chain) => chain[i][2] = chain[i + 1][1]
  /\ chain[Len(chain)][2] = chain[1][1]

\* An error is reported just when symbols depend on each other in a circle,
\* in whichever order the hash table has them, and each report is such a circle.
RecursionIsFound == report # "none yet" =>
  (report # <<>> <=> IsRecursive) /\ \A i \in DOMAIN report : IsLoop(report[i])
============================================================================
