-------------------------------- MODULE Expr --------------------------------
(***************************************************************************)
(* The expression evaluator of the debugger (expr.c): make_token turns the *)
(* text into tokens with an ordered table of rules, eval splits the tokens *)
(* at the operator find_op picks.  A character is a member of Char; a      *)
(* number, a register and a name are one character each.                   *)
(***************************************************************************)
EXTENDS Integers, FiniteSets, Sequences, SequencesExt

CONSTANTS WordSize,    \* words are 0 .. WordSize - 1
          Digits,      \* the numbers: their prefix, their value in C, and that
                       \* of the digits they begin with, to base 10
          RegVal,      \* value of the register "$" stands for
          Mem,         \* the words memory has, by address
          Texts,       \* the texts to evaluate
          Operators,   \* the operators sentences are built with
          MaxSentence, \* the longest sentence built
          MaxDiffering \* the longest one the evaluator may give another value

ASSUME ExprAssumption ==
  /\ WordSize \in Nat \ {0} /\ WordSize % 2 = 0
  /\ \A d \in DOMAIN Digits : /\ Digits[d].prefix \in {"", "0", "0x", "0X"}
                              /\ Digits[d].value \in 0 .. (WordSize \div 2) - 1
                              /\ Digits[d].prefix = "" => Digits[d].decimal = Digits[d].value

VARIABLES e,      \* the text given to expr
          pass    \* what it returned: [is |-> "ok", val |-> word], "invalid", "died"

Nothing == [is |-> "none", val |-> 0]
Ok(v) == [is |-> "ok", val |-> v]
Invalid == [is |-> "invalid", val |-> 0]   \* *pass = false
Died == [is |-> "died", val |-> 0]         \* an assertion or a signal ended NEMU

-----------------------------------------------------------------------------
\* The rules in order: the characters each matches, and the token type.
rules ==
  LET R(text, type) == [text |-> text, type |-> type]
      Same(c) == R(<<{c}>>, c)
      Pair(c, d, type) == R(<<{c}, {d}>>, type)
  IN << R(<<{" "}>>, "NOTYPE"), Same("("), Same(")"), Same("+"), Same("-"), Same("*"), Same("/"),
        R(<<{"<"}>>, "LT"), R(<<{">"}>>, "GT"), Pair("<", "=", "LE"), Pair(">", "=", "GE"),
        Pair("=", "=", "EQ"), Pair("!", "=", "NEQ"), Pair("&", "&", "AND"), Pair("|", "|", "OR"),
        R(<<DOMAIN Digits>>, "NUM"), R(<<{"$"}>>, "REG"), R(<<{"a"}>>, "VAR") >>

bound_types == {")", "NUM", "REG"}
nop_types == {"(", ")", "NUM", "REG"}
uop_types == {"NEG", "POS", "DEREF"}

Matches(rule, text, position) ==
  \A i \in DOMAIN rule.text : position + i - 1 <= Len(text) /\ text[position + i - 1] \in rule.text[i]

\* + - * are unary unless an operand stands before them.
TokenType(type, tokens) ==
  IF tokens # <<>> /\ Last(tokens).type \in bound_types THEN type
  ELSE CASE type = "+" -> "POS" [] type = "-" -> "NEG" [] type = "*" -> "DEREF" [] OTHER -> type

NoMatch == <<[type |-> "none", str |-> " "]>>

RECURSIVE make_token(_, _, _)
make_token(text, position, tokens) ==
  IF position > Len(text) THEN tokens
  ELSE LET found == {i \in DOMAIN rules : Matches(rules[i], text, position)}
           rule == rules[CHOOSE i \in found : \A j \in found : i <= j]
           rest(t) == make_token(text, position + Len(rule.text), t)
       IN IF found = {} THEN NoMatch
          ELSE IF rule.type = "NOTYPE" THEN rest(tokens)
          ELSE rest(Append(tokens, [type |-> TokenType(rule.type, tokens), str |-> text[position]]))

-----------------------------------------------------------------------------
\* How many parentheses are open after tokens p .. i.
Open(tokens, p, i) ==
  LET count(type) == Len(SelectSeq(SubSeq(tokens, p, i), LAMBDA t : t.type = type))
  IN count("(") - count(")")

check_parentheses(tokens, p, q) ==
  /\ tokens[p].type = "(" /\ tokens[q].type = ")"
  /\ Open(tokens, p, q) = 0
  /\ \A i \in p .. q - 1 : Open(tokens, p, i) # 0

Priority(type) ==
  CASE type = "OR" -> 1 [] type = "AND" -> 2 [] type \in {"EQ", "NEQ"} -> 3
    [] type \in {"LT", "GT", "GE", "LE"} -> 4 [] type \in {"+", "-"} -> 5
    [] type \in {"*", "/"} -> 6 [] type \in uop_types -> 7

\* The tokens find_op looks at: operators, and names, outside parentheses.
Outside(tokens, p, q) ==
  {i \in p .. q : tokens[i].type \notin nop_types /\ Open(tokens, p, i) = 0}

\* Mutant: the first of the weakest operators, whatever they are.
Split_First(weakest, priority) == CHOOSE i \in weakest : \A j \in weakest : i <= j

\* Where the expression is split: at the last of the weakest operators, or at the
\* first of them when they are unary.
Split(weakest, priority) ==
  CHOOSE i \in weakest : \A j \in weakest : IF priority = 7 THEN i <= j ELSE i >= j

\* That place; -1 when there is none, -2 when the assertion fails.
\* A closing parenthesis too many ends the scan before what follows it.
find_op(tokens, p, q) ==
  LET over == {i \in p .. q : Open(tokens, p, i) < 0}
      last == IF over = {} THEN q ELSE (CHOOSE i \in over : \A j \in over : i <= j) - 1
      ops == Outside(tokens, p, last)
      least == CHOOSE n \in {Priority(tokens[i].type) : i \in ops} :
                 \A i \in ops : n <= Priority(tokens[i].type)
      weakest == {i \in ops : Priority(tokens[i].type) = least}
  IN CASE \E i \in ops : tokens[i].type = "VAR" -> -2
       [] over # {} \/ Open(tokens, p, q) # 0 \/ ops = {} -> -1
       [] OTHER -> Split(weakest, least)

-----------------------------------------------------------------------------
Word == 0 .. WordSize - 1
Bool(b) == IF b THEN 1 ELSE 0
Signed(v) == IF v >= WordSize \div 2 THEN v - WordSize ELSE v
Abs(n) == IF n < 0 THEN -n ELSE n
\* The quotient of two words as signed numbers, rounded towards zero.
Quotient(a, b) ==
  LET q == Abs(Signed(a)) \div Abs(Signed(b)) IN
  (IF (Signed(a) < 0) # (Signed(b) < 0) THEN -q ELSE q) % WordSize
\* The one quotient that is no signed word; the division instruction traps.
Overflows(a, b) == Signed(a) = -(WordSize \div 2) /\ Signed(b) = -1

\* A number is read to base 16 behind 0x only, and to base 10 otherwise, though the
\* rule also takes 0X and a leading 0.
NumberValue(d) == IF d.prefix = "0x" THEN d.value ELSE d.decimal
eval_num_reg(t) ==
  CASE t.type = "NUM" -> Ok(NumberValue(Digits[t.str]) % WordSize) [] t.type = "REG" -> Ok(RegVal) [] OTHER -> Invalid

\* Reading outside the memory ends NEMU.
calc1(op, v) ==
  CASE op = "NEG" -> Ok((-v) % WordSize)
    [] op = "POS" -> Ok(v)
    [] op = "DEREF" -> IF v \in DOMAIN Mem THEN Ok(Mem[v]) ELSE Died
    [] OTHER -> Invalid

calc2(a, op, b) ==
  CASE op = "+" -> Ok((a + b) % WordSize)
    [] op = "-" -> Ok((a - b) % WordSize)
    [] op = "*" -> Ok((a * b) % WordSize)
    [] op = "/" -> IF b = 0 THEN Invalid ELSE IF Overflows(a, b) THEN Died ELSE Ok(Quotient(a, b))
    [] op = "AND" -> Ok(Bool(a # 0 /\ b # 0))
    [] op = "OR" -> Ok(Bool(a # 0 \/ b # 0))
    [] op = "EQ" -> Ok(Bool(a = b))
    [] op = "NEQ" -> Ok(Bool(a # b))
    [] op = "GT" -> Ok(Bool(a > b))
    [] op = "LT" -> Ok(Bool(a < b))
    [] op = "GE" -> Ok(Bool(a >= b))
    [] op = "LE" -> Ok(Bool(a <= b))
    [] OTHER -> Invalid

\* Both sides are evaluated; an operator is taken for a unary one when its left
\* side is not an expression.
Combined(left, op, right) ==
  CASE left.is = "died" \/ right.is = "died" -> Died
    [] right.is = "invalid" -> Invalid
    [] left.is = "ok" -> calc2(left.val, op, right.val)
    [] OTHER -> calc1(op, right.val)

RECURSIVE eval(_, _, _)
eval(tokens, p, q) ==
  IF p > q THEN Invalid
  ELSE IF p = q THEN eval_num_reg(tokens[p])
  ELSE IF check_parentheses(tokens, p, q) THEN eval(tokens, p + 1, q - 1)
  ELSE LET op == find_op(tokens, p, q) IN
       CASE op = -2 -> Died
         [] op = -1 -> Invalid
         [] OTHER -> Combined(eval(tokens, p, op - 1), tokens[op].type, eval(tokens, op + 1, q))

Evaluated(text) ==
  LET tokens == make_token(text, 1, <<>>) IN
  IF tokens = NoMatch THEN Invalid ELSE eval(tokens, 1, Len(tokens))

expr ==
  /\ pass = Nothing
  /\ pass' = Evaluated(e)
  /\ UNCHANGED e

----------------------------------------------------------------------------
(* The language of expressions, by the grammar of C.  The sentences of n     *)
(* characters are built from shorter ones, each with its level in the        *)
(* grammar and its value, so a sentence has one derivation and no parser is  *)
(* needed.  Values are those of int, which wraps around at its ends, and     *)
(* operators are those of the C standard, not those of the evaluator.        *)

Least == -(WordSize \div 2)
Ints  == Least .. -Least - 1
AsInt(n) == ((n - Least) % WordSize) + Least

C_unary(op, v) ==
  CASE op = "neg" -> Ok(AsInt(-v))
    [] op = "pos" -> Ok(v)
    [] op = "deref" -> IF v % WordSize \in DOMAIN Mem THEN Ok(AsInt(Mem[v % WordSize])) ELSE Died

\* (a / b) * b + a % b is a, and the remainder is smaller than b and has the sign
\* of a: 6.5.5 of the standard.
C_quotient(a, b) ==
  CHOOSE q \in Ints : LET rest == a - q * b
                      IN  Abs(rest) < Abs(b) /\ (rest # 0 => (rest < 0 <=> a < 0))

\* Division by zero leaves no value, and the quotient that is no int traps.
C_binary(a, op, b) ==
  CASE op = "+" -> Ok(AsInt(a + b))
    [] op = "-" -> Ok(AsInt(a - b))
    [] op = "*" -> Ok(AsInt(a * b))
    [] op = "/" -> IF b = 0 THEN Invalid ELSE IF a = Least /\ b = -1 THEN Died
                   ELSE Ok(C_quotient(a, b))
    [] op = "==" -> Ok(IF a = b THEN 1 ELSE 0)
    [] op = "!=" -> Ok(IF a = b THEN 0 ELSE 1)
    [] op = "<"  -> Ok(IF a < b THEN 1 ELSE 0)
    [] op = ">"  -> Ok(IF b < a THEN 1 ELSE 0)
    [] op = "<=" -> Ok(IF b < a THEN 0 ELSE 1)
    [] op = ">=" -> Ok(IF a < b THEN 0 ELSE 1)
    [] op = "&&" -> Ok(IF a = 0 \/ b = 0 THEN 0 ELSE 1)
    [] op = "||" -> Ok(IF a = 0 /\ b = 0 THEN 0 ELSE 1)

\* Operators of C with their spelling, their name and their level.
U(text, name) == [text |-> text, name |-> name]
B(text, name, level) == [text |-> text, name |-> name, level |-> level]
UnaryOps == {U(<<"-">>, "neg"), U(<<"+">>, "pos"), U(<<"*">>, "deref")}
BinaryOps ==
  { B(<<"|", "|">>, "||", 1), B(<<"&", "&">>, "&&", 2),
    B(<<"=", "=">>, "==", 3), B(<<"!", "=">>, "!=", 3),
    B(<<"<">>, "<", 4), B(<<">">>, ">", 4), B(<<"<", "=">>, "<=", 4), B(<<">", "=">>, ">=", 4),
    B(<<"+">>, "+", 5), B(<<"-">>, "-", 5), B(<<"*">>, "*", 6), B(<<"/">>, "/", 6) }

\* The evaluator's rules for <= and >= stand behind those for < and >, so that it
\* reads < and then finds no rule for = : the text is refused.
HasOrder(text) ==
  \E i \in 1 .. Len(text) - 1 : text[i] \in {"<", ">"} /\ text[i + 1] = "="

\* Where the evaluator is known not to be C: a number that begins with 0 and is not
\* 0x..., the order of two numbers of different sign, and the right side of && or
\* || that decides nothing but has no value.
OtherBase(d) == Digits[d].prefix \in {"0", "0X"}
OtherOrder(a, op, b) == op \in {"<", ">"} /\ ((a < 0) # (b < 0))
Decided(op, a) == (op = "&&" /\ a = Ok(0)) \/ (op = "||" /\ a.is = "ok" /\ a.val # 0)

\* A sentence with its value, and whether that of the evaluator may be another.
Primary == 8
Unary == 7
Sentence(text, level, value, differs) ==
  [text |-> text, level |-> level, value |-> value, differs |-> differs]

Atoms == {Sentence(<<d>>, Primary, Ok(Digits[d].value), OtherBase(d)) : d \in DOMAIN Digits}
         \cup {Sentence(<<"$">>, Primary, Ok(AsInt(RegVal)), FALSE)}

Used(ops) == {op \in ops : op.name \in Operators}

\* An operation on operands that have values has one if it is defined; an operand
\* that ends NEMU ends it, and one without a value leaves none, but where it is
\* not needed.
Apply1(op, v) == IF v.is = "ok" THEN C_unary(op, v.val) ELSE v
Apply2(a, op, b) ==
  IF Decided(op, a) THEN Ok(IF op = "||" THEN 1 ELSE 0)
  ELSE IF a.is = "ok" /\ b.is = "ok" THEN C_binary(a.val, op, b.val)
  ELSE IF "died" \in {a.is, b.is} THEN Died ELSE Invalid
Differs(a, op, b) == \/ Decided(op, a) /\ b.is # "ok"
                     \/ a.is = "ok" /\ b.is = "ok" /\ OtherOrder(a.val, op, b.val)

\* The sentences of n characters, from those of 1 .. n - 1.
OfUnary(shorter, n) ==
  { Sentence(u.text \o s.text, Unary, Apply1(u.name, s.value), s.differs) :
      u \in Used(UnaryOps), s \in {s \in shorter[n - 1] : s.level >= Unary} }
OfParentheses(shorter, n) ==
  { Sentence(<<"(">> \o s.text \o <<")">>, Primary, s.value, s.differs) :
      s \in IF n < 3 THEN {} ELSE shorter[n - 2] }
OfBinary(shorter, n, b, i) ==
  LET k == n - i - Len(b.text) IN
  { Sentence(l.text \o b.text \o r.text, b.level, Apply2(l.value, b.name, r.value),
             l.differs \/ r.differs \/ Differs(l.value, b.name, r.value)) :
      l \in {l \in shorter[i] : l.level >= b.level},
      r \in {r \in IF k < 1 THEN {} ELSE shorter[k] : r.level > b.level} }

\* (Each part is filtered before they are joined, which keeps the sets small.)
Kept(S, n) == {s \in S : Len(s.text) = n /\ (s.differs \/ HasOrder(s.text) => n <= MaxDiffering)}
Longer(shorter, n) ==
  Kept(OfUnary(shorter, n), n) \cup Kept(OfParentheses(shorter, n), n)
    \cup UNION {Kept(OfBinary(shorter, n, b, i), n) : b \in Used(BinaryOps), i \in 1 .. n - 1}

SentencesUpTo[n \in 1 .. MaxSentence] ==
  IF n = 1 THEN <<Atoms>>
  ELSE LET shorter == SentencesUpTo[n - 1] IN Append(shorter, Longer(shorter, n))

AllSentences == LET s == SentencesUpTo[MaxSentence] IN {x \in UNION {s[n] : n \in DOMAIN s} : TRUE}
SentenceTexts == {s.text : s \in AllSentences}
AsWord(v) == IF v.is = "ok" THEN Ok(v.val % WordSize) ELSE v
Meanings == {<<s.text, AsWord(s.value)>> : s \in AllSentences}
Excepted == {s.text : s \in {x \in AllSentences : x.differs}}

ExprInit == e \in Texts /\ pass = Nothing

\* The text without the spaces that no operator of two characters is broken by.
Half == {"=", "!", "&", "|", "<", ">"}
Breaks(text, i) ==
  /\ i > 1 /\ i < Len(text)
  /\ \E j \in 1 .. i - 1, k \in i + 1 .. Len(text) :
       text[j] \in Half /\ text[k] \in Half /\ \A m \in j + 1 .. k - 1 : text[m] = " "
Unspaced(text) ==
  LET kept == SelectSeq([i \in DOMAIN text |-> i], LAMBDA i : text[i] # " " \/ Breaks(text, i)) IN
  [n \in DOMAIN kept |-> text[kept[n]]]

\* All that the evaluator does with <= and >=.
ReadsNoOrder == HasOrder(e) /\ pass = Invalid

\* A sentence of the language has its value in C, whatever its parentheses, its
\* unary operators, the signs of its operands and the grouping of its operators;
\* only a division by zero has none.  A text that is no sentence is refused, or
\* ends NEMU: no operator or operand is ever left out of account (make_token,
\* find_op, eval, calc1, calc2).  Excepted are <= and >=, which are refused, and
\* the three cases above (OtherBase, OtherOrder, Decided).
ExpressionsAreC ==
  LET text == Unspaced(e) IN
  /\ pass # Nothing /\ text \in SentenceTexts =>
       <<text, pass>> \in Meanings \/ text \in Excepted \/ ReadsNoOrder
  /\ pass.is = "ok" => text \in SentenceTexts /\ ~HasOrder(e)
=============================================================================
