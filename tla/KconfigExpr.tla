---------------------------- MODULE KconfigExpr ----------------------------
(***************************************************************************)
(* The conditions of a Kconfig file: how tools/kconfig/expr.c simplifies   *)
(* them and menu.c uses the result, for a symbol whose condition depends   *)
(* on another's, and what their value is.                                  *)
(*                                                                         *)
(* A tree is <<"sym", s>>, <<op, s, t>> for a comparison op, <<"not", e>>, *)
(* <<"and", e, f>> or <<"or", e, f>>.  Trees are changed in place: where   *)
(* one call has two pointers into a tree, they are paths in it.            *)
(***************************************************************************)
EXTENDS Integers, Sequences, SequencesExt

CONSTANTS
  Booleans, Tristates,  \* the symbols of these types
  Given            \* the pairs of conditions to try

VARIABLES
  given,    \* the conditions of a menu entry and of one that comes after it
  made      \* what menu_finalize made of them

n == 0
m == 1
y == 2
Const == {"n", "m", "y"}
Comparisons == {"=", "!=", "<", "<=", ">", ">="}
Sym(s) == <<"sym", s>>
Yes == Sym("y")
No == Sym("n")
Not(e) == <<"not", e>>
IsSym(e) == e[1] = "sym"
IsComparison(e) == e[1] \in Comparisons
Compares(e, op, c) == e[1] = op /\ e[3] = c
IsTristate(s) == s \in Tristates \cup Const

----------------------------------------------------------------------------
\* Values.  env: the value of every symbol; modules: that of MODULES.

\* sym_get_string_value: m without modules reads n.
StringValue(env, modules, s) ==
  LET v == CASE s = "n" -> n [] s = "m" -> m [] s = "y" -> y [] OTHER -> env[s]
  IN  IF v = m /\ modules = n THEN n ELSE v

Holds(op, a, b) ==
  CASE op = "=" -> a = b [] op = "!=" -> a # b [] op = "<" -> a < b
    [] op = "<=" -> a <= b [] op = ">" -> a > b [] op = ">=" -> a >= b

RECURSIVE expr_calc_value(_, _, _)
expr_calc_value(env, modules, e) ==
  CASE e = Sym("n") -> n
    [] e = Sym("m") -> m
    [] e = Sym("y") -> y
    [] e = Sym("MODULES") -> modules
    [] IsSym(e) /\ e[2] \in DOMAIN env -> env[e[2]]
    [] e[1] = "not" -> 2 - expr_calc_value(env, modules, e[2])
    [] e[1] = "and" -> LET a == expr_calc_value(env, modules, e[2])
                           b == expr_calc_value(env, modules, e[3]) IN IF a < b THEN a ELSE b
    [] e[1] = "or" -> LET a == expr_calc_value(env, modules, e[2])
                          b == expr_calc_value(env, modules, e[3]) IN IF a > b THEN a ELSE b
    [] IsComparison(e) ->
         IF Holds(e[1], StringValue(env, modules, e[2]), StringValue(env, modules, e[3]))
         THEN y ELSE n

----------------------------------------------------------------------------
\* Equality

\* expr && n is n, expr || n is expr, and so on.
RECURSIVE expr_eliminate_yn(_)
expr_eliminate_yn(e) ==
  IF e[1] \notin {"and", "or"} THEN e
  ELSE LET a == expr_eliminate_yn(e[2])
           b == expr_eliminate_yn(e[3])
           neutral == IF e[1] = "and" THEN Yes ELSE No
           absorbs == IF e[1] = "and" THEN No ELSE Yes
       IN  IF a = absorbs THEN a ELSE IF a = neutral THEN b
           ELSE IF b = absorbs THEN b ELSE IF b = neutral THEN a
           ELSE <<e[1], a, b>>

\* The constant an operand of op is replaced with, to be eliminated later.
Gone(op) == IF op = "or" THEN No ELSE Yes

RECURSIVE expr_eq(_, _), elim_eq(_, _, _), expr_eliminate_eq(_, _)

\* __expr_eliminate_eq: the operands common to both trees disappear from both.
elim_eq(op, e, f) ==
  IF e[1] = op
    THEN LET l == elim_eq(op, e[2], f)
             r == elim_eq(op, e[3], l[2])
         IN  << <<op, l[1], r[1]>>, r[2] >>
  ELSE IF f[1] = op
    THEN LET l == elim_eq(op, e, f[2])
             r == elim_eq(op, l[1], f[3])
         IN  << r[1], <<op, l[2], r[2]>> >>
  ELSE IF e = f /\ e \in {Yes, No} THEN <<e, f>>
  ELSE IF expr_eq(e, f) THEN <<Gone(op), Gone(op)>> ELSE <<e, f>>

WithoutYn(pair) == <<expr_eliminate_yn(pair[1]), expr_eliminate_yn(pair[2])>>
OtherWay(pair) ==
  IF pair[1][1] # pair[2][1] /\ pair[2][1] \in {"and", "or"}
  THEN elim_eq(pair[2][1], pair[1], pair[2]) ELSE pair
expr_eliminate_eq(e, f) ==
  WithoutYn(OtherWay(IF e[1] \in {"and", "or"} THEN elim_eq(e[1], e, f) ELSE <<e, f>>))

expr_eq(e, f) ==
  CASE e[1] # f[1] -> FALSE
    [] e[1] = f[1] /\ (IsSym(e) \/ IsComparison(e)) -> e = f
    [] e[1] = f[1] /\ e[1] = "not" -> expr_eq(e[2], f[2])
    [] e[1] = f[1] /\ e[1] \in {"and", "or"} ->
         LET r == expr_eliminate_eq(e, f) IN IsSym(r[1]) /\ r[1] = r[2]

----------------------------------------------------------------------------
\* Joining operands

NoJoin == <<>>   \* NULL: the operands cannot be joined

\* The symbol both operands are about, or "none".  Only on the left may a
\* comparison be negated.
JoinSym(e, f) ==
  LET of(x) == IF x[1] # "not" THEN x[2] ELSE x[2][2]
      okLeft == \/ e[1] \in {"sym", "=", "!="}
                \/ e[1] = "not" /\ e[2][1] \in {"sym", "=", "!="}
      okRight == \/ f[1] \in {"sym", "=", "!="}
                 \/ f[1] = "not" /\ IsSym(f[2])
  IN  IF okLeft /\ okRight /\ of(e) = of(f) THEN of(e) ELSE "none"

Both(e, f, P(_), Q(_)) == (P(e) /\ Q(f)) \/ (P(f) /\ Q(e))

\* The constant that is neither c nor d.
Third(c, d) == CHOOSE k \in Const : k \notin {c, d}

JoinedOr(e, f, s) ==
  IF s = "none" THEN NoJoin
  ELSE IF IsTristate(s) /\ e[1] = "=" /\ f[1] = "=" /\ {e[3], f[3]} \subseteq Const
  THEN <<"!=", s, Third(e[3], f[3])>>
  ELSE IF s \in Booleans /\ Both(e, f, IsSym, LAMBDA x : x[1] = "not" /\ IsSym(x[2])) THEN Yes
  ELSE NoJoin
expr_join_or(e, f) == IF expr_eq(e, f) THEN e ELSE JoinedOr(e, f, JoinSym(e, f))

\* (a != c) && (a != d): (a = m) is y when c and d are m and n.
JoinedAnd(e, f, s) ==
  LET With(op, c) == Both(e, f, IsSym, LAMBDA x : Compares(x, op, c))
      Differ(x, z) == IF x[3] = z[3] THEN No ELSE <<"=", s, x[3]>>
      OfConst == {e[3], f[3]} \subseteq Const
  IN  IF s \notin Booleans \cup Tristates \cup Const THEN NoJoin
      ELSE IF With("=", "y") THEN <<"=", s, "y">>
      ELSE IF With("!=", "n") THEN Sym(s)
      ELSE IF With("!=", "m") THEN <<"=", s, "y">>
      ELSE IF ~IsTristate(s) THEN NoJoin
      ELSE IF e[1] = "=" /\ f[1] = "!=" /\ OfConst THEN Differ(e, f)
      ELSE IF e[1] = "!=" /\ f[1] = "=" /\ OfConst THEN Differ(f, e)
      ELSE IF e[1] = "!=" /\ f[1] = "!=" /\ OfConst THEN <<"=", s, Third(e[3], f[3])>>
      ELSE NoJoin
expr_join_and(e, f) == IF expr_eq(e, f) THEN e ELSE JoinedAnd(e, f, JoinSym(e, f))

----------------------------------------------------------------------------
\* expr_eliminate_dups1: both pointers lead into one tree.

RECURSIVE At(_, _), Put(_, _, _), dups1(_, _, _, _), dups(_)
At(e, path) == IF path = <<>> THEN e ELSE At(e[path[1]], Tail(path))
Put(e, path, f) == IF path = <<>> THEN f ELSE [e EXCEPT ![path[1]] = Put(@, Tail(path), f)]

Join(op, e, f) == IF op = "or" THEN expr_join_or(e, f) ELSE expr_join_and(e, f)

\* tree.e, with the count of its joins, for pointers at the paths p and q.
Replaced(op, tree, p, q, joined) ==
  IF joined = NoJoin THEN tree
  ELSE [e |-> Put(Put(tree.e, p, Gone(op)), q, joined), joins |-> tree.joins + 1]
JoinedAt(op, tree, p, q) ==
  Replaced(op, tree, p, q, Join(op, At(tree.e, p), At(tree.e, q)))
Within(tree, p, op) == IF op \in {"and", "or"} THEN dups1(op, tree, p, p) ELSE tree

dups1(op, tree, p, q) ==
  IF At(tree.e, p)[1] = op THEN dups1(op, dups1(op, tree, Append(p, 2), q), Append(p, 3), q)
  ELSE IF At(tree.e, q)[1] = op
  THEN dups1(op, dups1(op, tree, p, Append(q, 2)), p, Append(q, 3))
  ELSE IF p = q THEN tree
  ELSE JoinedAt(op, Within(tree, p, At(tree.e, p)[1]), p, q)

\* expr_eliminate_dups: passes over the tree until one joins nothing.
Repeated(pass) == IF pass.joins = 0 THEN pass.e ELSE dups(expr_eliminate_yn(pass.e))
dups(e) == Repeated(Within([e |-> e, joins |-> 0], <<>>, e[1]))

----------------------------------------------------------------------------
\* expr_transform and the other rewritings

Opposite(op) == CASE op = "=" -> "!=" [] op = "!=" -> "=" [] op = "<=" -> ">"
                  [] op = ">=" -> "<" [] op = "<" -> ">=" [] op = ">" -> "<="
OtherOf(op) == IF op = "and" THEN "or" ELSE "and"

\* A comparison of a bool with a constant.
BoolTest(e) ==
  LET holds == Sym(e[2])
  IN  CASE e[3] = "y" -> IF e[1] = "=" THEN holds ELSE Not(holds)
        [] e[3] = "n" -> IF e[1] = "=" THEN Not(holds) ELSE holds
        [] e[3] = "m" -> IF e[1] = "=" THEN No ELSE Yes
        [] OTHER -> e

RECURSIVE expr_transform(_)

\* Mutant: !(a || b) becomes !a && b.
Negated_Shallow(e) ==
  CASE e[1] = "not" -> expr_transform(e[2])
    [] IsComparison(e) -> <<Opposite(e[1]), e[2], e[3]>>
    [] e[1] \in {"and", "or"} -> expr_transform(<<OtherOf(e[1]), Not(e[2]), e[3]>>)
    [] OTHER -> Not(e)

\* The negation of a tree that has been transformed.
Negated(e) ==
  CASE e[1] = "not" -> expr_transform(e[2])
    [] IsComparison(e) -> <<Opposite(e[1]), e[2], e[3]>>
    [] e[1] \in {"and", "or"} -> expr_transform(<<OtherOf(e[1]), Not(e[2]), Not(e[3])>>)
    [] e = Yes -> No
    [] e = Sym("m") -> e
    [] e = No -> Yes
    [] OTHER -> Not(e)

expr_transform(e) ==
  CASE e[1] \in {"=", "!="} -> IF e[2] \in Booleans THEN BoolTest(e) ELSE e
    [] e[1] = "not" -> Negated(expr_transform(e[2]))
    [] e[1] \in {"and", "or"} -> <<e[1], expr_transform(e[2]), expr_transform(e[3])>>
    [] OTHER -> e

\* rewrite_m: m becomes m && MODULES.
RECURSIVE rewrite_m(_)
rewrite_m(e) ==
  CASE e = Sym("m") -> <<"and", e, Sym("MODULES")>>
    [] e[1] = "not" -> Not(rewrite_m(e[2]))
    [] e[1] \in {"and", "or"} -> <<e[1], rewrite_m(e[2]), rewrite_m(e[3])>>
    [] OTHER -> e

\* FOO != n becomes FOO: for the conditions of a symbol that has no m.
RECURSIVE expr_trans_bool(_)
expr_trans_bool(e) ==
  CASE e[1] = "!=" /\ e[2] \in Tristates /\ e[3] = "n" -> Sym(e[2])
    [] e[1] = "not" -> Not(expr_trans_bool(e[2]))
    [] e[1] \in {"and", "or"} -> <<e[1], expr_trans_bool(e[2]), expr_trans_bool(e[3])>>
    [] OTHER -> e

\* expr_trans_compare with the constant n: a tree that tells op's answer.
RECURSIVE expr_trans_compare(_, _)
expr_trans_compare(e, op) ==
  LET Answer(a) == IF op = "!=" THEN Not(a) ELSE a
  IN  CASE e[1] \in {"and", "or"} ->
             Answer(<<OtherOf(e[1]), expr_trans_compare(e[2], "="), expr_trans_compare(e[3], "=")>>)
        [] e[1] = "not" -> expr_trans_compare(e[2], Opposite(op))
        [] IsSym(e) -> <<op, e[2], "n">>
        [] IsComparison(e) -> IF op = "=" THEN Not(e) ELSE e

RECURSIVE expr_contains_symbol(_, _), expr_depends_symbol(_, _)
expr_contains_symbol(e, s) ==
  CASE IsSym(e) -> e[2] = s
    [] IsComparison(e) -> s \in {e[2], e[3]}
    [] e[1] = "not" -> expr_contains_symbol(e[2], s)
    [] OTHER -> expr_contains_symbol(e[2], s) \/ expr_contains_symbol(e[3], s)

\* e is n when s is (so the entry goes in the submenu of s).
expr_depends_symbol(e, s) ==
  CASE IsSym(e) -> e[2] = s
    [] e[1] = "=" -> e[2] = s /\ e[3] \in {"y", "m"}
    [] e[1] = "!=" -> e[2] = s /\ e[3] = "n"
    [] e[1] = "and" -> expr_depends_symbol(e[2], s) \/ expr_depends_symbol(e[3], s)
    [] OTHER -> FALSE

----------------------------------------------------------------------------
\* menu_finalize

\* The condition of an entry under one that has the condition parent.
Under(parent, e) == dups(<<"and", parent, expr_transform(rewrite_m(e))>>)

\* Whether an entry with the condition dep goes into the submenu of the symbol s
\* before it, whose prompt has the condition base.
InSubmenu(s, base, dep) ==
  LET shown(e) == dups(expr_transform(expr_trans_compare(e, "!=")))
  IN  /\ expr_contains_symbol(dep, s)
      /\ \/ expr_depends_symbol(dep, s)
         \/ expr_eliminate_eq(shown(dep), shown(base))[2] = Yes

Unmade == [is |-> "none"]
ConditionInit == given \in Given /\ made = Unmade

\* An entry with the condition given.outer and one within it, or after it.
MadeOf(outer, inner, within) ==
  [is |-> "made", within |-> within, bool |-> expr_trans_bool(within),
   submenuOf |-> {s \in Booleans \cup Tristates : InSubmenu(s, outer, inner)}]
Entry(outer) == MadeOf(outer, dups(expr_transform(rewrite_m(given.inner))), Under(outer, given.inner))
menu_finalize ==
  /\ made = Unmade
  /\ made' = Entry(dups(expr_transform(rewrite_m(given.outer))))
  /\ UNCHANGED given

----------------------------------------------------------------------------
\* Properties

Envs(modules) ==
  [Booleans \cup Tristates -> IF modules = n THEN {n, y} ELSE {n, m, y}]

\* Without MODULES a comparison with m reads it as n, which the simplifications
\* do not know of: T != y && T != n becomes T = m, which then holds when T is n.
RECURSIVE ComparesM(_)
ComparesM(e) ==
  CASE IsSym(e) -> FALSE
    [] IsComparison(e) -> "m" \in {e[2], e[3]}
    [] e[1] = "not" -> ComparesM(e[2])
    [] OTHER -> ComparesM(e[2]) \/ ComparesM(e[3])

\* The simplified condition of an entry has the value of the one that was
\* written, and where m counts as y, that of a bool is n only when it is; an
\* entry goes into the submenu of a symbol only if it cannot be shown while the
\* symbol is n or is not shown itself (menu_finalize, expr_eliminate_dups).  A
\* bool is never m.
ConditionsKeepTheirValue ==
  made # Unmade =>
    \A modules \in {n, m, y} :
      (modules = n => \A e \in {given.outer, given.inner, made.within} : ~ComparesM(e)) =>
        \A env \in {v \in Envs(modules) : \A s \in Booleans : v[s] # m} :
          LET value(e) == expr_calc_value(env, modules, e)
              outer == value(rewrite_m(given.outer))
              inner == value(rewrite_m(given.inner))
          IN  /\ value(made.within) = IF outer < inner THEN outer ELSE inner
              /\ (value(made.bool) = n) <=> (value(made.within) = n)
              /\ \A s \in made.submenuOf : inner # n => env[s] # n \/ outer # n
============================================================================
