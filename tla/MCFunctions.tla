---------------------------- MODULE MCFunctions ----------------------------
(***************************************************************************)
(* The parts that compute a result from their arguments, over bounded      *)
(* arguments: one of them, and one call of it, per behaviour.              *)
(***************************************************************************)
EXTENDS Expr, KconfigExpr, KconfigDeps, KconfigText, KconfigSearch, Arithmetic, Klib,
        Preprocess, TLC

VARIABLE part    \* the part that is called

-----------------------------------------------------------------------------
(* Words of three bits, the numbers 3 and 0X2, a register that holds the     *)
(* least int, and a memory of two words, -1 and 0.                           *)
CONSTANT TextLength

MCDigits == "3" :> [prefix |-> "", value |-> 3, decimal |-> 3]
         @@ "h" :> [prefix |-> "0X", value |-> 2, decimal |-> 0]
MCMem == (3 :> 7) @@ (4 :> 0)

\* Operators of each level, signed and not.
MCOperators == {"neg", "deref", "&&", "==", "<", "<=", "-", "*", "/"}
Chars == {" ", "(", ")", "-", "*", "/", "<", "=", "&", "3", "h", "$", "a"}
\* No two characters that would be one number or name.
Separate(text) ==
  \A i \in 1 .. Len(text) - 1 :
    text[i] \in {"3", "h", "$", "a"} => text[i + 1] \notin {"3", "h", "a"}
MCTexts == {t \in UNION {[1 .. k -> Chars] : k \in 0 .. TextLength} : Separate(t)}
             \cup SentenceTexts

-----------------------------------------------------------------------------
(* Conditions of two operators over a tristate T and a bool B, and those of  *)
(* one inside of another.                                                    *)

MCTests == {Sym("T"), Sym("m"), Sym("B"), <<"=", "T", "y">>, <<"=", "T", "m">>, <<"=", "T", "n">>,
            <<"!=", "T", "y">>, <<"!=", "T", "m">>, <<"!=", "T", "n">>, <<"=", "B", "n">>,
            <<"!=", "B", "m">>, <<"<", "T", "y">>}
MCSimple == MCTests \cup {Sym("y"), Sym("n")}
                \cup {Not(t) : t \in {Sym("T"), Sym("B"), Sym("m"), <<"=", "T", "y">>}}
Pairs(S, R) == {<<op, a, b>> : op \in {"and", "or"}, a \in S, b \in R}
MCFew == {Sym("T"), Sym("B"), Not(Sym("T")), <<"!=", "T", "n">>, <<"=", "T", "m">>}
MCTwo == Pairs(MCFew, MCFew)
MCThree == Pairs(MCTwo, MCFew) \cup {Not(t) : t \in MCTwo}
MCConditions == MCSimple \cup Pairs(MCSimple, MCSimple)
MCGiven == [outer : MCConditions, inner : MCFew] \cup [outer : MCFew, inner : MCConditions]
             \cup [outer : MCTwo, inner : MCTwo]
             \cup [outer : {Sym("T")}, inner : MCThree] \cup [outer : MCThree, inner : {Sym("T")}]

-----------------------------------------------------------------------------
(* Double words of eight bits: every one with those near 0, the sign and the *)
(* end of the range.                                                         *)

MCEdges == (0 .. 17) \cup (120 .. 136) \cup (239 .. 255)
MCOperands == ((0 .. 255) \X MCEdges) \cup (MCEdges \X (0 .. 255))

-----------------------------------------------------------------------------
(* Memories of four bytes, and formats of three parts.                       *)

MCCharacters == {"0", "1", "2", "3", "4", "5", "6", "7", "8", "9", "-", "%",
                 "a", "b", "c", "d", "l", "s", "u", "/", ".", "("}
\* -128 in eight bits stays -128: the remainders of its digits are -8, -2, -1.
MCOverflowed == <<"/", ".", "(">>
MCFns == {"strlen", "strcpy", "strcat", "strcmp", "strncmp", "memset", "memmove", "memcpy", "memcmp"}
Item(kind, fmt, arg) == [kind |-> kind, fmt |-> fmt, arg |-> arg]
MCItems ==
  {Item("text", <<"a", "l">>, <<>>), Item("percent", <<"%", "%">>, <<>>),
   Item("char", <<"%", "c">>, <<"b">>), Item("string", <<"%", "s">>, <<<<"c", "d">>>>),
   Item("string", <<"%", "s">>, <<<<>>>>), Item("number", <<"%", "l", "d">>, <<-3>>)}
    \cup {Item("number", <<"%", "d">>, <<v>>) : v \in {-64, -1, 0, 63}}
    \cup {Item("number", <<"%", "l", "l", "d">>, <<v>>) : v \in {-128, -127, 100}}
    \cup {Item("number", <<"%", "u">>, <<v>>) : v \in {0, 10, 127}}
    \cup {Item("number", <<"%", "l", "l", "u">>, <<v>>) : v \in {50, 150}}
MCCalls ==
  {c \in [fn : MCFns, mem : [1..4 -> 0..2], dst : 1..4, src : 1..4, n : 0..3] :
     /\ c.fn \in {"strlen", "strcpy", "strcat", "strcmp"} => c.n = 0
     /\ c.fn = "strlen" => c.dst = 1
     /\ Valid(c)}
  \cup {c \in [fn : {"atoi"}, mem : [1..4 -> {0, 32, 47, 48, 49, 57, 58}], dst : {1}, src : {1}, n : {0}] : Valid(c)}
  \cup [fn : {"printf"}, items : UNION {[1..k -> MCItems] : k \in 0..3},
        dst : {1}, src : {1}, mem : {<<0>>}]

-----------------------------------------------------------------------------
(* Two assignments and a text: references of references, with parentheses    *)
(* and commas in names, arguments and values.                                *)

Piece(w) == <<"word", w>>
Group(text) == <<"group", text>>
Ref(texts) == <<"ref", texts>>
VarX == Ref(<<<<Piece("X")>>>>)
Paren == Group(<<Piece("a"), Piece(","), Piece("b")>>)
MCValues ==
  {<<Piece("a")>>, <<Piece(",")>>, <<Paren>>, <<Piece("Y")>>, <<VarX>>, <<Ref(<<<<Piece("Y")>>>>)>>,
   <<Ref(<<<<Piece("1")>>>>)>>, <<Group(<<Ref(<<<<Piece("2")>>>>)>>)>>,
   <<Ref(<<<<Piece("1")>>, <<Piece("a")>>>>)>>, <<Ref(<<<<Piece("Y")>>, <<Ref(<<<<Piece("1")>>>>)>>>>)>>,
   <<Ref(<<<<Piece("E")>>>>), Piece("a")>>}
MCArgs == {<<VarX>>, <<Paren>>, <<Group(<<VarX>>), Piece("a")>>}
MCScriptTexts ==
  {<<Ref(<<<<Piece(z)>>>> \o args)>> : z \in {"X", "Y"}, args \in UNION {[1..k -> MCArgs] : k \in 0..2}}
    \cup {<<Ref(<<<<Piece(z)>>>> \o args)>> : z \in {"error-if", "info"}, args \in [1..2 -> {<<Piece("y")>>, <<Paren>>}]}
    \cup {<<Ref(<<<<VarX>>>> \o args), Group(<<Piece(","), VarX>>)>> : args \in UNION {[1..k -> MCArgs] : k \in 0..1}}
    \cup {<<Ref(<<<<Piece("Y")>>, <<>>, <<>>, <<>>>>), VarX>>,
          <<Ref(<<<<Piece("Y")>>, <<>>, <<>>, <<>>, <<>>>>), VarX>>}
MCOps == {"simple", "recursive", "append"}
MCScripts ==
  {[assignments |-> <<<<"X", v, op>>, <<z, w, operator>>>>, text |-> t] :
     v \in MCValues, op \in {"simple", "recursive"}, z \in {"X", "Y"}, w \in MCValues,
     operator \in MCOps, t \in MCScriptTexts}
MCEnvironment == [z \in {"E"} |-> <<"(">>]

-----------------------------------------------------------------------------
(* X and Y, and a choice fs with the values A and B, in two orders of the    *)
(* hash table: what X is selected by, the default of Y and its condition,    *)
(* what A and B depend on, and what implies the choice.                      *)

MCOrders == {<<"X", "Y", "fs", "A", "B">>, <<"B", "fs", "A", "Y", "X">>}
Plain == [dir_dep |-> <<>>, rev_dep |-> <<>>, implied |-> <<>>, props |-> <<>>,
          in |-> NoChoice, choice |-> FALSE, values |-> <<>>]
AtMostOne == {<<>>} \cup {<<x>> : x \in {"X", "Y", "A", "B"}}
MCTables ==
  {[order |-> order,
    symbol |-> ("X" :> [Plain EXCEPT !.rev_dep = x])
            @@ ("Y" :> [Plain EXCEPT !.props = <<<<v, d>>>>])
            @@ ("A" :> [Plain EXCEPT !.dir_dep = <<"fs">> \o a, !.in = "fs"])
            @@ ("B" :> [Plain EXCEPT !.dir_dep = <<"fs">>, !.props = <<<<b, <<>>>>>>, !.in = "fs"])
            @@ ("fs" :> [Plain EXCEPT !.implied = c, !.choice = TRUE, !.values = <<"A", "B">>,
                                      !.props = <<<< <<>>, <<"A">> >>>>])] :
     order \in MCOrders, x \in AtMostOne, v \in AtMostOne, d \in AtMostOne,
     a \in AtMostOne, b \in AtMostOne, c \in AtMostOne}

-----------------------------------------------------------------------------
(* A symbol of each type; strings of the characters that mean something.     *)

MCTypes == ("B" :> "bool") @@ ("V" :> "tristate") @@ ("S" :> "string") @@ ("I" :> "int") @@ ("H" :> "hex")
MCInOrder == <<"B", "S", "H", "V", "I">>
MCStrings == UNION {[1 .. k -> {"a", "\"", "\\", "=", "#"}] : k \in 0 .. 3} \cup [1 .. 4 -> {"a", "\"", "\\"}]
MCConfigurations ==
  {("B" :> b[1]) @@ ("V" :> b[2]) @@ ("S" :> s) @@ ("I" :> i[1]) @@ ("H" :> i[2]) :
     b \in {<<<<"y">>, <<"m">>>>, <<<<"n">>, <<"y">>>>, <<<<"y">>, <<"n">>>>}, s \in MCStrings,
     i \in {<<<<"0">>, <<"0", "x", "1", "f">>>>, <<<<"-", "7", "0">>, <<"a">>>>}}
MCTitles == {<<"NEMU">>, <<>>}

-----------------------------------------------------------------------------
(* Files of four entries: menus, ifs and choices around and after symbols    *)
(* that need each other, with and without prompts; Q is set elsewhere.       *)

OfKind(kind) == [kind |-> kind, sym |-> NoSymbol, type |-> "unknown", prompt |-> "none",
                 cond |-> {}, dep |-> {}, visibility |-> {}]
Config(x, dep) == [OfKind("config") EXCEPT !.sym = x, !.type = "bool", !.prompt = "prompt", !.dep = dep]
Unprompted(st) == [st EXCEPT !.prompt = "none"]
MenuIf(dep) == [OfKind("menu") EXCEPT !.prompt = "menu", !.dep = dep]
VisibleIfQ == [MenuIf({}) EXCEPT !.visibility = {{"Q"}}]
If(dep) == [OfKind("if") EXCEPT !.dep = dep]
ChoiceOf(type) == [OfKind("choice") EXCEPT !.sym = "fs", !.type = type, !.prompt = "prompt"]
CommentIf(dep) == [OfKind("comment") EXCEPT !.prompt = "comment", !.dep = dep]
OnA == {{"A"}}
OnB == {{"B"}}
OnEither == {{"A", "Q"}}
AIfQ == [Config("A", {}) EXCEPT !.cond = {{"Q"}}]
MCStatements ==
  <<{Config("A", {}), AIfQ, MenuIf({}), VisibleIfQ,
     ChoiceOf("unknown"), ChoiceOf("tristate")},
    {AIfQ, [Config("A", {}) EXCEPT !.type = "unknown"], Config("B", OnA), Unprompted(Config("B", OnA)),
     Config("B", OnEither), MenuIf(OnA), If(OnA)},
    {Config("B", OnA), Config("C", OnB), [Config("C", OnEither) EXCEPT !.type = "tristate"], If(OnA)},
    {Config("C", OnB), [Config("C", OnA) EXCEPT !.prompt = "menu"], CommentIf(OnB)}>>
MCAlphabetical == <<"A", "B", "C">>
MCPatterns == {[match |-> {"A", "B", "C"}, exact |-> {"C"}]}

-----------------------------------------------------------------------------

\* The arguments and results of a part that is not called.
ExprIdle == e = <<>> /\ pass = Nothing
ConditionIdle == given = [outer |-> Yes, inner |-> Yes] /\ made = Unmade
ArithmeticIdle == operands = <<0, 0>> /\ results = Uncalled
KlibIdle == call = [fn |-> "none"] /\ answer = Unanswered
MacroIdle == script = <<>> /\ expanded = "not yet"
TextIdle == config = <<>> /\ title = <<>> /\ files = Unprinted
MenuIdle == SearchInit
DepsIdle == table = <<>> /\ report = "none yet"

Init ==
  \/ part = "expr" /\ ExprInit /\ ConditionIdle /\ ArithmeticIdle /\ KlibIdle /\ MacroIdle /\ DepsIdle /\ TextIdle /\ MenuIdle
  \/ part = "kconfig" /\ ConditionInit /\ ExprIdle /\ ArithmeticIdle /\ KlibIdle /\ MacroIdle /\ DepsIdle /\ TextIdle /\ MenuIdle
  \/ part = "arithmetic" /\ ArithmeticInit /\ ExprIdle /\ ConditionIdle /\ KlibIdle /\ MacroIdle /\ DepsIdle /\ TextIdle /\ MenuIdle
  \/ part = "klib" /\ KlibInit /\ ExprIdle /\ ConditionIdle /\ ArithmeticIdle /\ MacroIdle /\ DepsIdle /\ TextIdle /\ MenuIdle
  \/ part = "macros" /\ PreprocessInit /\ ExprIdle /\ ConditionIdle /\ ArithmeticIdle /\ KlibIdle /\ DepsIdle /\ TextIdle /\ MenuIdle
  \/ part = "deps" /\ DepsInit /\ ExprIdle /\ ConditionIdle /\ ArithmeticIdle /\ KlibIdle /\ MacroIdle /\ TextIdle /\ MenuIdle
  \/ part = "text" /\ TextInit /\ ExprIdle /\ ConditionIdle /\ ArithmeticIdle /\ KlibIdle /\ MacroIdle /\ DepsIdle /\ MenuIdle
  \/ part = "menu" /\ SearchInit /\ ExprIdle /\ ConditionIdle /\ ArithmeticIdle /\ KlibIdle /\ MacroIdle /\ DepsIdle /\ TextIdle

exprVars == <<e, pass>>
conditionVars == <<given, made>>
arithmeticVars == <<operands, results>>
klibVars == <<call, answer>>
macroVars == <<script, expanded>>
depsVars == <<table, report>>
textVars == <<config, title, files>>
menuVars == <<kconfig, tree, read, found>>

Next ==
  /\ UNCHANGED part
  /\ \/ part = "expr" /\ expr
          /\ UNCHANGED <<conditionVars, arithmeticVars, klibVars, macroVars, depsVars, textVars, menuVars>>
     \/ part = "kconfig" /\ menu_finalize
          /\ UNCHANGED <<exprVars, arithmeticVars, klibVars, macroVars, depsVars, textVars, menuVars>>
     \/ part = "arithmetic" /\ CallAll
          /\ UNCHANGED <<exprVars, conditionVars, klibVars, macroVars, depsVars, textVars, menuVars>>
     \/ part = "klib" /\ (StringCall \/ printf)
          /\ UNCHANGED <<exprVars, conditionVars, arithmeticVars, macroVars, depsVars, textVars, menuVars>>
     \/ part = "macros" /\ assignment_stmt
          /\ UNCHANGED <<exprVars, conditionVars, arithmeticVars, klibVars, depsVars, textVars, menuVars>>
     \/ part = "deps" /\ conf_parse
          /\ UNCHANGED <<exprVars, conditionVars, arithmeticVars, klibVars, macroVars, textVars, menuVars>>
     \/ part = "text" /\ conf_write
          /\ UNCHANGED <<exprVars, conditionVars, arithmeticVars, klibVars, macroVars, depsVars, menuVars>>
     \/ part = "menu" /\ SearchNext
          /\ UNCHANGED <<exprVars, conditionVars, arithmeticVars, klibVars, macroVars, depsVars, textVars>>

Spec == Init /\ [][Next]_<<part, exprVars, conditionVars, arithmeticVars, klibVars, macroVars, depsVars, textVars, menuVars>>
=============================================================================
