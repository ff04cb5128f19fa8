---------------------------- MODULE KconfigMenu ----------------------------
(***************************************************************************)
(* The tree of menus that is made of a Kconfig file: tools/kconfig/menu.c. *)
(*                                                                         *)
(* A file is read statement by statement, [kind, sym, type, prompt, cond,  *)
(* dep, visibility]; an "if", a "menu" and a "choice" last to their "end". *)
(* A condition is the set of its clauses, of which all are needed; a clause  *)
(* is the set of its symbols, of which one is needed, or IsYes(choice).    *)
(* A choice has no name: one symbol stands for it.  How a condition is     *)
(* rewritten is in KconfigExpr.                                            *)
(***************************************************************************)
EXTENDS Integers, Sequences, SequencesExt

CONSTANTS
  NoMenu,         \* model value: no menu
  NoSymbol,       \* model value: the symbol of a menu, an if and a comment
  SymbolNames,    \* the symbols
  Statements      \* what the first, second, ... entry of a file may be, a bound on them too

VARIABLES
  kconfig,   \* what has been read of the file
  tree,      \* the menus
  read       \* whether the file has ended and menu_finalize been called

----------------------------------------------------------------------------
\* t.node: the menus by number, 0 is rootmenu.  t.last is where last_entry_ptr
\* points to, t.menu and t.entry are current_menu and current_entry; of the
\* symbols, t.type, t.dir_dep (its alternatives), t.choiceval (SYMBOL_CHOICEVAL)
\* and t.values (the list of a choice); t.choices are those with SYMBOL_CHOICE.

Node(sym, parent) ==
  [sym |-> sym, prompt |-> "none", dep |-> {}, visible |-> {}, visibility |-> {},
   parent |-> parent, list |-> NoMenu, next |-> NoMenu]
Blank(symbols) ==
  [node |-> [i \in {0} |-> [Node(NoSymbol, NoMenu) EXCEPT !.prompt = "menu"]],
   last |-> <<0, "list">>, menu |-> 0, entry |-> 0,
   type |-> [x \in symbols |-> "unknown"], dir_dep |-> [x \in symbols |-> {}],
   choices |-> {}, choiceval |-> {}, values |-> [x \in symbols |-> <<>>]]

menu_add_entry(t, sym) ==
  LET i == Cardinality(DOMAIN t.node)
      linked == [t.node EXCEPT ![t.last[1]] = IF t.last[2] = "list" THEN [@ EXCEPT !.list = i]
                                              ELSE [@ EXCEPT !.next = i]]
  IN  [t EXCEPT !.node = [k \in 0 .. i |-> IF k = i THEN Node(sym, t.menu) ELSE linked[k]],
                !.last = <<i, "next">>, !.entry = i]
menu_add_menu(t) == [t EXCEPT !.last = <<t.entry, "list">>, !.menu = t.entry]
menu_end_menu(t) == [t EXCEPT !.last = <<t.menu, "next">>, !.menu = t.node[t.menu].parent]

menu_add_dep(t, dep) == [t EXCEPT !.node[t.entry].dep = @ \cup dep]
menu_add_visibility(t, visibility) == [t EXCEPT !.node[t.entry].visibility = @ \cup visibility]

\* A type is not redefined.
menu_set_type(t, sym, type) == IF t.type[sym] = "unknown" THEN [t EXCEPT !.type[sym] = type] ELSE t

\* A prompt is seen where all upper menus are.
RECURSIVE Upper(_, _)
Upper(t, i) == IF i = NoMenu THEN {} ELSE t.node[i].visibility \cup Upper(t, t.node[i].parent)
menu_add_prompt(t, type, cond) ==
  LET visible == IF type = "prompt" THEN cond \cup Upper(t, t.node[t.entry].parent) ELSE cond
  IN  [t EXCEPT !.node[t.entry].prompt = type, !.node[t.entry].visible = visible]

\* A "menuconfig" has the prompt of a config, that then becomes one of a menu.
PromptOf(t, st) ==
  CASE st.prompt = "none" -> t
    [] st.kind = "config" -> [menu_add_prompt(t, "prompt", st.cond) EXCEPT !.node[t.entry].prompt = st.prompt]
    [] OTHER -> menu_add_prompt(t, st.prompt, st.cond)
Statement(t, st) ==
  LET entered == menu_add_entry(t, st.sym)
      typed == IF st.sym = NoSymbol THEN entered ELSE menu_set_type(entered, st.sym, st.type)
      said == menu_add_visibility(menu_add_dep(PromptOf(typed, st), st.dep), st.visibility)
      marked == IF st.kind = "choice" THEN [said EXCEPT !.choices = @ \cup {st.sym}] ELSE said
  IN  IF st.kind \in {"menu", "if", "choice"} THEN menu_add_menu(marked) ELSE marked

----------------------------------------------------------------------------
\* menu_finalize, from the root

RECURSIVE Chain(_, _)
Chain(t, i) == IF i = NoMenu THEN <<>> ELSE <<i>> \o Chain(t, t.node[i].next)
ListOf(t, p) == Chain(t, t.node[p].list)

IsChoice(t, p) == t.node[p].sym \in t.choices
IsYes(choice) == {choice \o "=y"}

\* A choice has the type of its first value with a type, its values that of the choice.
SetTypes(t, syms, type) == FoldLeft(LAMBDA u, x : menu_set_type(u, x, type), t, syms)
TypedChoice(t, p) ==
  LET syms == SelectSeq([k \in DOMAIN ListOf(t, p) |-> t.node[ListOf(t, p)[k]].sym], LAMBDA x : x # NoSymbol)
      known == SelectSeq(syms, LAMBDA x : t.type[x] # "unknown")
      own == IF known = <<>> THEN t ELSE menu_set_type(t, t.node[p].sym, t.type[known[1]])
  IN  SetTypes(own, syms, own.type[t.node[p].sym])

\* What a menu depends on, its entries and their prompts do; those of a choice on the choice.
Propagated(t, p) ==
  LET parentdep == IF IsChoice(t, p) THEN {{t.node[p].sym}} ELSE t.node[p].dep
      below == Range(ListOf(t, p))
  IN  [t EXCEPT !.node = [i \in DOMAIN @ |->
         IF i \notin below THEN @[i]
         ELSE [@[i] EXCEPT !.dep = parentdep \cup @,
                           !.visible = IF t.node[i].prompt = "none" THEN @
                                       ELSE parentdep \cup t.node[i].dep \cup @]]]

\* Whether the condition of an entry is one on sym: it has sym for a clause, or
\* in one, and all the clauses of the prompt of sym.
Condition(t, i) == IF t.node[i].prompt = "none" THEN t.node[i].dep ELSE t.node[i].visible
DependsOn(t, i, p) ==
  LET sym == t.node[p].sym
      basedep == IF t.node[p].prompt = "none" THEN {} ELSE t.node[p].visible
  IN  /\ sym \in UNION Condition(t, i)
      /\ {sym} \in Condition(t, i) \/ basedep \subseteq Condition(t, i)

RECURSIVE menu_finalize_from(_, _), Finalized_each(_, _), Submenu(_, _, _, _), Flattened_each(_, _, _)

\* Each of a list: next is read after the entry has taken what follows it.
Finalized_each(t, i) ==
  IF i = NoMenu THEN t
  ELSE LET u == menu_finalize_from(t, i) IN Finalized_each(u, u.node[i].next)

\* The entries that follow p and depend on its symbol become its list.
Submenu(t, p, i, last) ==
  IF i # NoMenu /\ DependsOn(t, i, p)
  THEN LET u == menu_finalize_from(t, i)
       IN  Submenu([u EXCEPT !.node[i].parent = p], p, u.node[i].next, i)
  ELSE LET cut == [t EXCEPT !.node[p].list = t.node[p].next, !.node[p].next = t.node[last].next,
                            !.node[last].next = NoMenu]
       IN  [(IF last = NoMenu THEN t ELSE cut) EXCEPT !.dir_dep[t.node[p].sym] = @ \cup {t.node[p].dep}]

\* A value of a choice; one that is not tristate needs a tristate choice to be y.
ChoiceValueOf(t, p, i) ==
  LET choice == t.node[p].sym
      v == t.node[i].sym
      needs == IF t.type[choice] = "tristate" /\ t.type[v] # "tristate" THEN {IsYes(choice)} ELSE {}
  IN  IF ~IsChoice(t, p) \/ v = NoSymbol \/ v \in t.choiceval THEN t
      ELSE [t EXCEPT !.choiceval = @ \cup {v}, !.values[choice] = Append(@, v),
                     !.node[i].dep = needs \cup @,
                     !.node[i].visible = IF t.node[i].prompt = "none" THEN @ ELSE needs \cup @]

\* Mutant: what follows a flattened entry is not linked to the last of its list.
Flattened_Unlinked(t, p, i) ==
  LET below == Range(ListOf(t, i))
  IN  [t EXCEPT !.node = [k \in DOMAIN @ |->
         CASE k = i -> [@[k] EXCEPT !.next = t.node[i].list, !.list = NoMenu]
           [] k \in below -> [@[k] EXCEPT !.parent = p]
           [] OTHER -> @[k]]]

\* The list of an entry without a prompt goes behind it.
Flattened(t, p, i) ==
  LET below == Range(ListOf(t, i))
  IN  [t EXCEPT !.node = [k \in DOMAIN @ |->
         CASE k = i -> [@[k] EXCEPT !.next = t.node[i].list, !.list = NoMenu]
           [] k \in below -> [@[k] EXCEPT !.parent = p,
                                          !.next = IF @ = NoMenu THEN t.node[i].next ELSE @]
           [] OTHER -> @[k]]]

Flattened_each(t, p, i) ==
  IF i = NoMenu THEN t
  ELSE LET u == ChoiceValueOf(t, p, i)
           v == IF u.node[i].list # NoMenu /\ u.node[i].prompt = "none" THEN Flattened(u, p, i) ELSE u
       IN  Flattened_each(v, p, v.node[i].next)

menu_finalize_from(t, p) ==
  LET below == CASE t.node[p].list # NoMenu ->
                      LET u == Propagated(IF IsChoice(t, p) THEN TypedChoice(t, p) ELSE t, p)
                      IN  Finalized_each(u, u.node[p].list)
                 [] t.node[p].list = NoMenu /\ t.node[p].sym # NoSymbol ->
                      Submenu(t, p, t.node[p].next, NoMenu)
                 [] OTHER -> t
  IN  Flattened_each(below, p, below.node[p].list)

----------------------------------------------------------------------------
\* yyparse and conf_parse: a symbol is defined in one place, a choice is no part
\* of a choice, and what is open is ended.

MenuInit == kconfig = <<>> /\ tree = Blank(SymbolNames) /\ read = FALSE

End == [kind |-> "end"]
IsEntry(st) == st.kind # "end"
EntriesOf(file) == SelectSeq(file, IsEntry)
RECURSIVE InChoice(_)
InChoice(i) == i # NoMenu /\ (IsChoice(tree, i) \/ InChoice(tree.node[i].parent))
IsAllowed(st) ==
  /\ st.sym = NoSymbol \/ \A i \in DOMAIN tree.node : tree.node[i].sym # st.sym
  /\ InChoice(tree.menu) => st.kind \in {"config", "comment", "if"} /\ st.prompt # "menu"

ReadEntry ==
  /\ ~read /\ Cardinality(DOMAIN tree.node) <= Len(Statements)
  /\ \E st \in Statements[Cardinality(DOMAIN tree.node)] :
       IsAllowed(st) /\ kconfig' = Append(kconfig, st) /\ tree' = Statement(tree, st)
  /\ UNCHANGED read
ReadEnd ==
  /\ ~read /\ tree.menu # 0
  /\ kconfig' = Append(kconfig, End) /\ tree' = menu_end_menu(tree) /\ UNCHANGED read
FinishFile ==
  /\ ~read /\ tree.menu = 0
  /\ tree' = menu_finalize_from(tree, 0) /\ read' = TRUE /\ UNCHANGED kconfig

MenuNext == ReadEntry \/ ReadEnd \/ FinishFile

----------------------------------------------------------------------------
\* Properties

\* What the file says, without a tree: its entries, and for each of them the
\* one whose "end" is next, 0 outside of all.
Entries == EntriesOf(kconfig)
Opens(i) == i # 0 /\ Entries[i].kind \in {"menu", "if", "choice"}
Around ==
  FoldLeft(LAMBDA a, st :
             IF st.kind = "end" THEN [a EXCEPT !.open = Tail(@)]
             ELSE LET i == Len(a.around) + 1
                  IN  [around |-> Append(a.around, Head(a.open)),
                       open |-> IF Opens(i) THEN <<i>> \o a.open ELSE a.open],
           [around |-> <<>>, open |-> <<0>>], kconfig).around
RECURSIVE AllAround(_)
AllAround(i) == IF i = 0 THEN {} ELSE {Around[i]} \cup AllAround(Around[i])

\* The entries of the tree in the order they are shown, at most one more than the file has.
RECURSIVE Walk(_, _)
Walk(i, most) ==
  IF i = NoMenu \/ most = 0 THEN <<>>
  ELSE LET below == Walk(tree.node[i].list, most - 1)
       IN  <<i>> \o below \o Walk(tree.node[i].next, most - 1 - Len(below))
InOrderShown == Walk(0, Len(Entries) + 2)

Below(i) == {j \in DOMAIN tree.node : j # 0 /\ tree.node[j].parent = i}
RECURSIVE AllAbove(_)
AllAbove(i) == IF i = 0 THEN {} ELSE {tree.node[i].parent} \cup AllAbove(tree.node[i].parent)

\* What an entry needs: its own condition and those around it, a choice for all of its own.
RECURSIVE Needed(_)
Needed(i) ==
  IF i = 0 THEN {}
  ELSE Entries[i].dep \cup (IF Around[i] # 0 /\ Entries[Around[i]].kind = "choice"
                             THEN {{Entries[Around[i]].sym}} ELSE Needed(Around[i]))
IsValue(i) ==
  i # 0 /\ Entries[i].kind = "config" /\ tree.node[i].parent # 0 /\ Entries[tree.node[i].parent].kind = "choice"

\* The tree has the entries of the file in their order, and each knows its parent.
SameOrder ==
  /\ InOrderShown = [k \in 1 .. Len(Entries) + 1 |-> k - 1]
  /\ \A i \in DOMAIN tree.node : Range(ListOf(tree, i)) = Below(i)
\* What is between a menu or a choice and its end, and only that, is below it; an
\* entry without a prompt has nothing below it, a symbol what needs it or an
\* entry there that is not shown.
Nested(i) ==
  CASE i = 0 \/ (Opens(i) /\ Entries[i].kind # "if") ->
         \A j \in 1 .. Len(Entries) : i \in AllAround(j) <=> i \in AllAbove(j)
    [] i # 0 /\ Entries[i].prompt = "none" -> Below(i) = {}
    [] OTHER -> \A j \in Below(i) :
                  /\ Entries[i].kind = "config"
                  /\ \E k \in {i} \cup {h \in Below(i) : h < j /\ Entries[h].prompt = "none"} :
                       Entries[k].sym \in UNION Condition(tree, j)
\* Whatever directly follows a symbol with a prompt and needs it is below it.
Follows(i, j) == j - 1 \in {i} \cup {k \in DOMAIN tree.node : i \in AllAbove(k)}
AllTaken ==
  \A i, j \in 1 .. Len(Entries) :
    (Entries[i].kind = "config" /\ Entries[i].prompt # "none" /\ Around[i] = Around[j]
       /\ Follows(i, j) /\ {Entries[i].sym} \in Condition(tree, j)) => i \in AllAbove(j)
\* No condition is lost or added on the way, those of the prompts included, and each
\* place where a symbol is defined counts once.
ConditionsAre ==
  \A i \in 1 .. Len(Entries) :
    LET tristate == \E c \in DOMAIN tree.type : IsYes(c) \in tree.node[i].dep
        visibility == UNION {Entries[a].visibility : a \in AllAround(i) \ {0}}
    IN  /\ tree.node[i].dep \ {IsYes(c) : c \in DOMAIN tree.type} = Needed(i)
        /\ tristate => IsValue(i)
        /\ Entries[i].prompt # "none" =>
             tree.node[i].visible = Entries[i].cond \cup tree.node[i].dep
                \cup (IF Entries[i].kind = "config" \/ Entries[i].kind = "choice" THEN visibility ELSE {})
ValuesAre ==
  \A c \in tree.choices :
    Range(tree.values[c]) = {Entries[i].sym : i \in {k \in 1 .. Len(Entries) :
                               IsValue(k) /\ Entries[tree.node[k].parent].sym = c}}

\* The tree is the file: see the parts above.
TreeIsTheFile == read =>
  SameOrder /\ (\A i \in DOMAIN tree.node : Nested(i)) /\ AllTaken /\ ConditionsAre /\ ValuesAre
============================================================================
