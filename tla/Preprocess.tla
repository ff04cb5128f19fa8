----------------------------- MODULE Preprocess -----------------------------
(***************************************************************************)
(* The macro language of Kconfig files: tools/kconfig/preprocess.c.        *)
(*                                                                         *)
(* A string is a sequence; an element is "$", "(", ")", "," or stands for a *)
(* run of other characters, such as a name.  pperror ends the program: the *)
(* result of what was being expanded is then Error.                        *)
(***************************************************************************)
EXTENDS Integers, Sequences, SequencesExt

CONSTANTS
  Environment,          \* getenv: names (one element) to strings
  FUNCTION_MAX_ARGS,    \* words of new_argv
  MaxDepth,             \* the exp_count that is too deep: 1000 in the code
  Scripts               \* assignments and a text, as trees

VARIABLES
  script,      \* what is read
  expanded     \* what the code makes of it: the strings the program sees

Error == "pperror"
Undefined == "undefined"      \* read from memory that holds no value
Failed(s) == Error \in Range(s)
AnyFails(args) == \E i \in DOMAIN args : Failed(args[i])
AnyUndefined(args) == \E i \in DOMAIN args : Undefined \in Range(args[i])

----------------------------------------------------------------------------
\* Variables: name |-> [flavor, value], and the names that are being expanded.

\* The place of the ")" that closes what starts at i, or 0.
RECURSIVE Closing(_, _, _)
Closing(s, i, nest) ==
  IF i > Len(s) THEN 0
  ELSE IF s[i] = ")" /\ nest = 0 THEN i
  ELSE Closing(s, i + 1, nest + (CASE s[i] = "(" -> 1 [] s[i] = ")" -> -1 [] OTHER -> 0))

\* Mutant: a comma inside of parentheses ends an argument, too.
Clauses_Flat(str) ==
  LET cuts == {0, Len(str) + 1} \cup {i \in DOMAIN str : str[i] = ","}
      seq == SetToSortSeq(cuts, <)
  IN  [k \in 1..(Len(seq) - 1) |-> SubSeq(str, seq[k] + 1, seq[k + 1] - 1)]

\* eval_clause, the tokens: the parts between the commas that are not nested.
Clauses(str) ==
  LET Nest(i) == Len(SelectSeq(SubSeq(str, 1, i), LAMBDA c : c = "("))
                   - Len(SelectSeq(SubSeq(str, 1, i), LAMBDA c : c = ")"))
      cuts == {0, Len(str) + 1} \cup {i \in DOMAIN str : str[i] = "," /\ Nest(i) = 0}
      seq == SetToSortSeq(cuts, <)
  IN  [k \in 1..(Len(seq) - 1) |-> SubSeq(str, seq[k] + 1, seq[k + 1] - 1)]

\* function_expand: the built-in functions that print return nothing.
MinMax == [name \in {"error-if", "info", "warning-if"} |-> IF name = "info" THEN 1 ELSE 2]
function_expand(name, argv) ==
  IF Len(argv) # MinMax[name] THEN <<Error>>
  ELSE IF name = "error-if" /\ argv[1] = <<"y">> THEN <<Error>> ELSE <<>>

Numerals == [n \in {"1", "2"} |-> IF n = "1" THEN 1 ELSE 2]

\* exp_count of a variable: how often it is being expanded.
ExpCount(open, name) == Len(SelectSeq(open, LAMBDA z : z = name))
MayExpand(open, name, argv) ==
  IF argv = <<>> THEN ExpCount(open, name) = 0 ELSE ExpCount(open, name) <= MaxDepth

RECURSIVE expand_string_with_args(_, _, _, _)

variable_expand(vars, open, name, argv) ==
  LET v == vars[name]
  IN  IF ~MayExpand(open, name, argv) THEN <<Error>>
      ELSE IF v.flavor = "simple" THEN v.value
      ELSE expand_string_with_args(vars, Append(open, name), v.value, argv)

eval_clause(vars, open, str, argv) ==
  LET clauses == Clauses(str)
      all == [i \in DOMAIN clauses |-> expand_string_with_args(vars, open, clauses[i], argv)]
      args == Tail(all)
      one == all[1][1]      \* of a name of one element
  IN  IF /\ Len(str) = 1 /\ str[1] \in DOMAIN Numerals
         /\ Numerals[str[1]] <= Len(argv)
      THEN argv[Numerals[str[1]]]
      ELSE IF Len(clauses) > FUNCTION_MAX_ARGS + 1 THEN <<Error>>
      ELSE IF Len(clauses) = FUNCTION_MAX_ARGS + 1 THEN <<Undefined>>   \* new_argv[16]
      ELSE IF AnyFails(all) THEN <<Error>>
      ELSE IF AnyUndefined(all) THEN <<Undefined>>
      ELSE IF Len(all[1]) # 1 THEN <<>>
      ELSE IF one \in DOMAIN vars THEN variable_expand(vars, open, one, args)
      ELSE IF one \in DOMAIN MinMax THEN function_expand(one, args)
      ELSE IF args = <<>> /\ one \in DOMAIN Environment THEN Environment[one] ELSE <<>>

\* __expand_string and expand_dollar_with_args
expand_string_with_args(vars, open, in, argv) ==
  IF in = <<>> THEN <<>>
  ELSE IF in[1] # "$" \/ Len(in) = 1 \/ in[2] # "("
  THEN <<in[1]>> \o expand_string_with_args(vars, open, Tail(in), argv)
  ELSE LET end == Closing(in, 3, 0)
       IN  IF end = 0 THEN <<Error>>
           ELSE eval_clause(vars, open, SubSeq(in, 3, end - 1), argv)
                  \o expand_string_with_args(vars, open, SubSeq(in, end + 1, Len(in)), argv)

expand_string(vars, in) == expand_string_with_args(vars, <<>>, in, <<>>)

\* variable_add: += keeps the flavor of a variable, and makes a new one
\* recursive.  Before the text that may need the variable is expanded, its flavor
\* is set and its value is freed, or not there yet: a new variable is put on the
\* list as xmalloc gave it.
Flavor(vars, name, op) ==
  IF op # "append" THEN op ELSE IF name \in DOMAIN vars THEN vars[name].flavor ELSE "recursive"
Linked(vars, name, op) ==
  [z \in DOMAIN vars \cup {name} |->
     IF z # name \/ (name \in DOMAIN vars /\ op = "append") THEN vars[z]
     ELSE [flavor |-> Flavor(vars, name, op), value |-> <<Undefined>>]]
NewText(vars, name, text, op) ==
  IF Flavor(vars, name, op) = "simple" THEN expand_string(Linked(vars, name, op), text) ELSE text
variable_add(vars, name, text, op) ==
  LET value == (IF op = "append" /\ name \in DOMAIN vars THEN vars[name].value \o <<" ">> ELSE <<>>)
                 \o NewText(vars, name, text, op)
  IN  [z \in DOMAIN vars \cup {name} |->
         IF z = name THEN [flavor |-> Flavor(vars, name, op), value |-> value] ELSE vars[z]]

----------------------------------------------------------------------------
\* The language, as trees: a text is a sequence of pieces <<"word", w>>,
\* <<"group", text>> for (text), and <<"ref", texts>> for $(name,arg,...).

RECURSIVE Written(_), WrittenPiece(_)
Written(text) == FlattenSeq([i \in DOMAIN text |-> WrittenPiece(text[i])])
WrittenPiece(p) ==
  CASE p[1] = "word" -> <<p[2]>>
    [] p[1] = "group" -> <<"(">> \o Written(p[2]) \o <<")">>
    [] p[1] = "ref" ->
         <<"$", "(">>
           \o FlattenSeq([i \in DOMAIN p[2] |-> (IF i = 1 THEN <<>> ELSE <<",">>) \o Written(p[2][i])])
           \o <<")">>

\* What a text means.  Variables hold strings when simple and texts otherwise.
RECURSIVE Meaning(_, _, _, _)
MeaningOfRef(vars, open, texts, argv) ==
  LET name == Meaning(vars, open, texts[1], argv)
      args == [i \in 1..(Len(texts) - 1) |-> Meaning(vars, open, texts[i + 1], argv)]
      v == name[1]
  IN  CASE Failed(name) \/ AnyFails(args) \/ Len(texts) > FUNCTION_MAX_ARGS -> <<Error>>
        [] texts \in {<<<<<<"word", w>>>>>> : w \in {z \in DOMAIN Numerals : Numerals[z] <= Len(argv)}} ->
             argv[Numerals[texts[1][1][2]]]
        [] OTHER ->
             IF Len(name) # 1 THEN <<>>
             ELSE IF v \in DOMAIN vars THEN
               IF ~MayExpand(open, v, args) THEN <<Error>>
               ELSE IF vars[v].flavor = "simple" THEN vars[v].value
               ELSE Meaning(vars, Append(open, v), vars[v].value, args)
             ELSE IF v \in DOMAIN MinMax THEN function_expand(v, args)
             ELSE IF args = <<>> /\ v \in DOMAIN Environment THEN Environment[v] ELSE <<>>
Meaning(vars, open, text, argv) ==
  FlattenSeq([i \in DOMAIN text |->
    CASE text[i][1] = "word" -> <<text[i][2]>>
      [] text[i][1] = "group" -> <<"(">> \o Meaning(vars, open, text[i][2], argv) \o <<")">>
      [] text[i][1] = "ref" -> MeaningOfRef(vars, open, text[i][2], argv)])

\* An assignment <<name, text, op>> to variables with meanings.
Assigned(vars, a) ==
  LET old == IF a[1] \in DOMAIN vars THEN vars[a[1]] ELSE [flavor |-> "recursive", value |-> <<>>]
      flavor == IF a[3] = "append" THEN old.flavor ELSE a[3]
      new == IF flavor = "simple" THEN Meaning(vars, <<>>, a[2], <<>>) ELSE a[2]
      space == IF flavor = "simple" THEN <<" ">> ELSE <<<<"word", " ">>>>
  IN  [z \in DOMAIN vars \cup {a[1]} |->
         IF z # a[1] THEN vars[z]
         ELSE [flavor |-> flavor,
               value |-> IF a[3] = "append" /\ z \in DOMAIN vars THEN old.value \o space \o new
                         ELSE new]]

----------------------------------------------------------------------------

NoVariables == [z \in {} |-> <<>>]

PreprocessInit == script \in Scripts /\ expanded = "not yet"

\* Assignments, one after the other, until one ends the program or has read
\* what is not there.
Leaves(vars, what) == \E z \in DOMAIN vars : vars[z].flavor = "simple" /\ what \in Range(vars[z].value)
After(Assign(_, _)) ==
  FoldLeft(LAMBDA vars, a : IF Leaves(vars, Error) \/ Leaves(vars, Undefined) THEN vars
                                  ELSE Assign(vars, a),
           NoVariables, script.assignments)

\* The parser reads the assignments and then a text.
Expansion(vars, text) ==
  IF Leaves(vars, Error) THEN <<Error>>
  ELSE IF Leaves(vars, Undefined) THEN <<Undefined>> ELSE expand_string(vars, text)
assignment_stmt ==
  /\ expanded = "not yet"
  /\ expanded' = Expansion(After(LAMBDA vs, a : variable_add(vs, a[1], Written(a[2]), a[3])),
                           Written(script.text))
  /\ UNCHANGED script

\* The expansion of what was written is what it means: parentheses and commas
\* that come out of a variable or an argument never end anything, a simple
\* variable has the value of when it was assigned, a recursive one that of when
\* it is used, and only one that needs itself without arguments is an error.
\* (Where an immediate assignment needs the variable it assigns, whose value the
\* code has freed or not yet stored, or where the code writes one word past
\* new_argv, nothing is said.)
AsMeant(vars) ==
  IF Leaves(vars, Error) THEN Failed(expanded)
  ELSE LET meaning == Meaning(vars, <<>>, script.text, <<>>)
       IN  IF Failed(meaning) THEN Failed(expanded) ELSE expanded = meaning
MacrosAreExpanded ==
  expanded # "not yet" /\ Undefined \notin Range(expanded) => AsMeant(After(Assigned))
============================================================================
