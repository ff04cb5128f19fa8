--------------------------- MODULE KconfigSearch ---------------------------
(***************************************************************************)
(* The search of menuconfig: what is seen of the tree, the results and the *)
(* keys that jump to an entry, and the menu that such a key opens          *)
(* (tools/kconfig/mconf.c, menu.c, symbol.c).                              *)
(*                                                                         *)
(* Values are n and y: on is the set of the symbols that are y.  That      *)
(* menu_is_visible makes SYMBOL_DEF_USER of some symbols is left out.      *)
(***************************************************************************)
EXTENDS KconfigMenu

CONSTANTS
  Alphabetical,   \* the symbols by name
  Patterns,       \* [match, exact]: the symbols that match a pattern, in full those of exact
  JUMP_NB,        \* the keys
  MostAbove,      \* the most menus that are shown above an entry
  PageLines       \* bound: the lines of a page

VARIABLE found    \* what has been searched for, Unsearched before

Unsearched == [on |-> {}, arr |-> <<>>, text |-> <<>>, jumps |-> <<>>]

----------------------------------------------------------------------------
\* The values a configuration may have: a symbol that is y has what it needs; a
\* choice is y as soon as it is seen, then one of its values that are seen is.

IsMet(cond, on) == \A clause \in cond : \E c \in on : c \in clause \/ clause = IsYes(c)
Seen(i, on) == tree.node[i].prompt # "none" /\ IsMet(tree.node[i].visible, on)
SeenValues(c, on) ==
  {x \in Range(tree.values[c]) : \E i \in DOMAIN tree.node : tree.node[i].sym = x /\ Seen(i, on)}
IsConfiguration(on) ==
  \A i \in DOMAIN tree.node :
    LET x == tree.node[i].sym
    IN  /\ x \in on => IsMet(tree.node[i].dep, on)
        /\ x \in tree.choices =>
             /\ x \in on <=> Seen(i, on)
             /\ Cardinality(on \cap Range(tree.values[x])) = (IF SeenValues(x, on) = {} THEN 0 ELSE 1)
             /\ on \cap Range(tree.values[x]) \subseteq SeenValues(x, on)

----------------------------------------------------------------------------
\* What is seen

RECURSIVE menu_is_visible(_, _)

\* Mutant: what is below a symbol does not make it visible.
menu_is_visible_Alone(i, on) == Seen(i, on) /\ IsMet(tree.node[i].visibility, on)

\* A symbol whose prompt is not seen is, when it is on and something below it is.
menu_is_visible(i, on) ==
  /\ tree.node[i].prompt # "none" /\ IsMet(tree.node[i].visibility, on)
  /\ \/ Seen(i, on)
     \/ /\ tree.node[i].sym \in on
        /\ \E k \in Range(ListOf(tree, i)) : menu_is_visible(k, on)

\* build_conf: the items of a menu; the values of a choice that is y are in a
\* dialog of their own, only what is below the one that is set is shown.
RECURSIVE build_conf(_, _, _)
Items(menu, is, on) == FlattenSeq([k \in DOMAIN is |-> build_conf(menu, is[k], on)])
build_conf(menu, i, on) ==
  LET node == tree.node[i]
      childs == Items(menu, ListOf(tree, i), on)
      def_menu == SelectSeq(ListOf(tree, i),
                            LAMBDA k : menu_is_visible(k, on) /\ tree.node[k].sym \in on)
  IN  CASE ~menu_is_visible(i, on) -> <<>>
        [] menu_is_visible(i, on) /\ node.sym = NoSymbol ->
             IF i = menu THEN childs ELSE IF node.prompt = "menu" THEN <<i>> ELSE <<i>> \o childs
        [] menu_is_visible(i, on) /\ node.sym \in tree.choices ->
             IF node.sym \notin on THEN <<i>> \o childs
             ELSE IF def_menu = <<>> \/ tree.node[Last(def_menu)].list = NoMenu THEN <<i>>
             ELSE <<i>> \o build_conf(menu, Last(def_menu), on)
        [] OTHER -> IF i # menu /\ node.prompt = "menu" THEN <<i>> ELSE <<i>> \o childs

\* conf: the items of a menu, and the one that is selected: the active one when it is there.
conf(menu, active_menu, on) ==
  LET items == build_conf(menu, menu, on)
  IN  [menu |-> menu, items |-> items,
       selected |-> IF active_menu \in Range(items) THEN active_menu
                    ELSE IF items = <<>> THEN NoMenu ELSE items[1]]

----------------------------------------------------------------------------
\* The results

\* sym_re_search: what matches in full is first; a choice has no name.
sym_re_search(pattern) ==
  LET named(S) == SelectSeq(Alphabetical, LAMBDA x : x \in S \ tree.choices)
  IN  named(pattern.exact) \o named(pattern.match \ pattern.exact)

\* The menus above an entry up to the root, from the nearest on.
RECURSIVE Above(_, _)
Above(i, most) ==
  IF tree.node[i].parent = 0 \/ most = 0 THEN <<>>
  ELSE <<tree.node[i].parent>> \o Above(tree.node[i].parent, most - 1)

\* get_prompt_str: the lines of an entry, and the jump to it or to what is seen
\* above it, in the line of the nearest menu that is seen.  r is [text, jumps].
get_prompt_str(r, i, on) ==
  LET node == tree.node[i]
      line(what) == <<[entry |-> i, what |-> what, menu |-> NoMenu]>>
      location(k) == [entry |-> i, what |-> "->", menu |-> k]
      submenu == Above(i, MostAbove)
      accessible == SelectSeq(submenu, LAMBDA k : menu_is_visible(k, on))
      first == line("Defined at") \o line("Prompt")
                 \o (IF node.dep = {} THEN <<>> ELSE line("Depends on"))
                 \o (IF node.visible \in {node.dep, {}} THEN <<>> ELSE line("Visible if"))
                 \o (IF submenu = <<>> THEN <<>> ELSE line("Location"))
      text == r.text \o first \o [k \in DOMAIN submenu |-> location(Reverse(submenu)[k])]
      jump == [target |-> IF menu_is_visible(i, on) THEN i ELSE accessible[1],
               offset |-> CHOOSE k \in DOMAIN text : text[k] = location(accessible[1])]
  IN  [text |-> text, jumps |-> IF accessible = <<>> THEN r.jumps ELSE Append(r.jumps, jump)]

\* get_symbol_str: the places of a symbol that have a prompt, then the others.
get_symbol_str(r, x, on) ==
  LET line(what) == <<[entry |-> NoMenu, what |-> what, menu |-> NoMenu]>>
      places == SetToSeq({i \in DOMAIN tree.node : tree.node[i].sym = x})
      prompts == SelectSeq(places, LAMBDA i : tree.node[i].prompt # "none")
      others == SelectSeq(places, LAMBDA i : tree.node[i].prompt = "none")
      named == [r EXCEPT !.text = @ \o line("Symbol") \o line("Type")]
      shown == FoldLeft(LAMBDA a, i : get_prompt_str(a, i, on), named, prompts)
      depends(i) == line("Defined at") \o (IF tree.node[i].dep = {} THEN <<>> ELSE line("Depends on"))
  IN  [shown EXCEPT !.text = @ \o FlattenSeq([k \in DOMAIN others |-> depends(others[k])])
                               \o line("") \o line("")]

get_relations_str(arr, on) ==
  LET r == FoldLeft(LAMBDA a, x : get_symbol_str(a, x, on), [text |-> <<>>, jumps |-> <<>>], arr)
  IN  IF arr = <<>> THEN [r EXCEPT !.text = <<[entry |-> NoMenu, what |-> "No matches found.", menu |-> NoMenu]>>] ELSE r

\* update_text: the keys of a page, <<key, target>>, for the first jumps in it.
update_text(jumps, start, end) ==
  LET on_page == SelectSeq([k \in DOMAIN jumps |-> k],
                           LAMBDA k : start <= jumps[k].offset /\ jumps[k].offset < end)
  IN  [k \in 1 .. (IF Len(on_page) < JUMP_NB THEN Len(on_page) ELSE JUMP_NB) |->
         <<((on_page[k] - 1) % JUMP_NB) + 1, jumps[on_page[k]].target, jumps[on_page[k]].offset>>]

\* search_conf, with what is y at the time.
search_conf(pattern, on) ==
  /\ read /\ found = Unsearched /\ IsConfiguration(on)
  /\ LET arr == sym_re_search(pattern)
         r == get_relations_str(arr, on)
     IN  found' = [on |-> on, arr |-> arr, text |-> r.text, jumps |-> r.jumps]
  /\ UNCHANGED <<kconfig, tree, read>>

SearchInit == MenuInit /\ found = Unsearched
SearchNext ==
  \/ MenuNext /\ UNCHANGED found
  \/ \E pattern \in Patterns, on \in SUBSET SymbolNames : search_conf(pattern, on)

----------------------------------------------------------------------------
\* Properties

\* An entry that can be walked to from the root: each menu on the way is shown in
\* the one above it, whether as a menu or among its entries.
RECURSIVE Reachable(_, _)
Reachable(i, on) ==
  \/ i = 0
  \/ /\ Reachable(tree.node[i].parent, on)
     /\ menu_is_visible(i, on)

\* Whether a menu above an entry has a "visible if" that does not hold: the menus
\* inside of such a menu, unlike its symbols, do not get its condition.
Hidden(i, on) == \E k \in AllAbove(i) : ~IsMet(tree.node[k].visibility, on)

\* Of every page of the results: no key is there twice, and each is in the text
\* of the entry it jumps to or into; the entry is selected in the menu that is
\* opened, or when it is not seen, the nearest menu above it that is; of a value
\* of a choice that is y, the choice.  A menu below a hidden one is excepted.
JumpsLead(jumped, on) ==
  LET entry == found.text[jumped[3]].entry
      target == jumped[2]
      opened == conf(tree.node[target].parent, target, on)
      choice == tree.node[target].parent
  IN  /\ IF Reachable(entry, on) THEN target = entry
         ELSE Hidden(entry, on) \/ (target \in AllAbove(entry) /\ Reachable(target, on))
      /\ \/ Hidden(target, on) \/ opened.selected = target
         \/ tree.node[choice].sym \in tree.choices \cap on /\ opened.selected = choice
SearchLeadsToEntry == found # Unsearched =>
  /\ \A start \in 1 .. Len(found.text) :
       LET keys == update_text(found.jumps, start, start + PageLines)
       IN  \A a \in DOMAIN keys :
             /\ \A b \in DOMAIN keys : keys[a][1] = keys[b][1] => a = b
             /\ JumpsLead(keys[a], found.on)
  \* Each symbol that is found has a jump, unless no menu but the root is above it.
  /\ \A i \in DOMAIN tree.node :
       (tree.node[i].sym \in Range(found.arr) /\ Reachable(i, found.on) /\ tree.node[i].parent # 0) =>
         \E k \in DOMAIN found.jumps : found.jumps[k].target = i
============================================================================
