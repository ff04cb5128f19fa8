------------------------------ MODULE ConfTool ------------------------------
(***************************************************************************)
(* tools/kconfig/conf.c: the questions of conf --oldaskconfig, --oldconfig *)
(* and --syncconfig, the last of which make runs after .config has         *)
(* changed, and the modes that ask nothing.  Menus are not nested: a new   *)
(* symbol makes check_conf ask about the root menu.                        *)
(*                                                                         *)
(* session.asks says where conf is: the place check_conf has reached, that *)
(* of conf, 0 when it does not ask, whether it is at the list of a choice, *)
(* and whether this round has found something new.                         *)
(***************************************************************************)
EXTENDS Mconf

Start(mode) == [mode |-> mode, check |-> 1, ask |-> IF mode = "oldaskconfig" THEN 1 ELSE 0,
                list |-> "none", new |-> FALSE]
Asks == st # None /\ session.end = "asking"
At == session.asks

ConfInit ==
  \E kc \in Kconfigs : \E files \in Disks(kc), mode \in {"oldaskconfig", "oldconfig", "syncconfig"} :
    /\ st = Screen(Read(kc, files[Config], kc.order))
    /\ session = [end |-> "asking", keys |-> 0, filename |-> Config, forgot |-> FALSE,
                  files |-> files, asks |-> Start(mode)]

----------------------------------------------------------------------------
\* check_conf: a visible symbol without a user's value, which can have one.
IsNew(s, x) ==
  /\ s.s[x].visible # n /\ ~s.s[x].def_user
  /\ sym_is_changeable(s, x) \/ (K(s, x).choice /\ s.s[x].tri = y)

\* The places from i on that have a symbol with P.
From(i, P) == {k \in i..Len(st.kc.order) : st.kc.order[k] \in P}
NewOnes == {x \in SymbolsIn(st.kc) : IsNew(st, x)}

check_conf ==
  /\ Asks /\ At.ask = 0 /\ From(At.check, NewOnes) # {}
  /\ session' = [session EXCEPT !.asks.check = Min(From(At.check, NewOnes)) + 1,
                                !.asks.ask = 1, !.asks.new = TRUE]
  /\ UNCHANGED st

\* main: another round, until one has found nothing new.
again ==
  /\ Asks /\ At.ask = 0 /\ From(At.check, NewOnes) = {} /\ At.new
  /\ session' = [session EXCEPT !.asks.check = 1, !.asks.new = FALSE]
  /\ UNCHANGED st

\* conf: what it asks about.  The values of a choice are visited when it is m.
Visited ==
  {x \in SymbolsIn(st.kc) :
     st.s[x].visible # n /\ (sym_is_choice_value(st, x) => st.s[K(st, x).in].tri = m)}
Asked == Min(From(At.ask, Visited))
Subject == st.kc.order[Asked]
IsAsking == Asks /\ At.ask # 0 /\ From(At.ask, Visited) # {}

\* conf_askvalue: whether there is a question.
conf_askvalue(x) ==
  sym_is_changeable(st, x) /\ (At.mode = "oldaskconfig" \/ ~st.s[x].def_user)

Onward == [session EXCEPT !.asks.ask = Asked + 1, !.asks.list = "none"]
ToList(is_new) ==
  [session EXCEPT !.asks.ask = Asked, !.asks.list = IF is_new THEN "asks" ELSE "keeps"]

\* A choice that is y goes on to its list; is_new is what it was before.
Answered(x, s) ==
  /\ st' = s
  /\ session' = IF K(st, x).choice /\ s.s[x].tri = y
                THEN ToList(At.mode = "oldaskconfig" \/ ~st.s[x].def_user) ELSE Onward

\* conf_sym: the empty line is the value it has; a value that is refused is
\* asked for again.
conf_sym ==
  /\ IsAsking /\ At.list = "none" /\ IsTri(K(st, Subject))
  /\ IF conf_askvalue(Subject)
     THEN \E v \in Tri : Accepts(st, Subject, v)
                         /\ Answered(Subject, Screen(sym_set_tristate_value(st, Subject, v)))
     ELSE Answered(Subject, st)

\* conf_string
conf_number ==
  /\ IsAsking /\ ~IsTri(K(st, Subject))
  /\ session' = Onward
  /\ IF conf_askvalue(Subject)
     THEN \E v \in Numbers \cup {st.s[Subject].val} :
            /\ K(st, Subject).type = "int" => sym_string_within_range(st, Subject, v)
            /\ st' = Screen(sym_set_string_value(st, Subject, v))
     ELSE UNCHANGED st

\* conf_choice, the list: a choice that had a value keeps the one it has.
choose ==
  /\ IsAsking /\ At.list # "none"
  /\ \E v \in Range(K(st, Subject).values) :
       /\ st.s[v].visible # n
       /\ At.list = "keeps" => v = st.s[Subject].val
       /\ st' = Screen(FirstOf(v, <<y>>))
  /\ session' = Onward

\* The end of conf; after oldaskconfig only what is new is asked for.
conf_done ==
  /\ Asks /\ At.ask # 0 /\ From(At.ask, Visited) = {}
  /\ session' = [session EXCEPT !.asks.ask = 0,
                                !.asks.mode = IF @ = "oldaskconfig" THEN "oldconfig" ELSE @]
  /\ UNCHANGED st

\* Mutant: the first round is the only one.
written_OneRound ==
  /\ Asks /\ At.ask = 0 /\ From(At.check, NewOnes) = {}
  /\ Stored([session EXCEPT !.end = "saved"], Config, conf_write(st))

\* main: the configuration is written when nothing is new.
written ==
  /\ Asks /\ At.ask = 0 /\ From(At.check, NewOnes) = {} /\ ~At.new
  /\ Stored([session EXCEPT !.end = "saved"], Config, conf_write(st))

\* conf --allyesconfig, --allmodconfig, --allnoconfig, --alldefconfig
NewConfig(mode, order) ==
  /\ st # None /\ ~HasFiles(session)
  /\ st' = Screen(conf_set_all_new_symbols(InitialState(st.kc), mode, order))
  /\ UNCHANGED session

ConfNext ==
  \/ check_conf \/ again \/ conf_sym \/ conf_number \/ choose \/ conf_done \/ written
  \/ st # None /\ \E mode \in Modes, order \in Orders(st.kc) : NewConfig(mode, order)

----------------------------------------------------------------------------

\* conf ends when there is nothing it has left unasked, wherever in the Kconfig
\* an answer has made a symbol new; and a make that runs conf --syncconfig on the
\* file it has written, or one that mconf has written, asks nothing.
AsksOnce == st # None /\ session.end = "saved" /\ session.filename = Config =>
  LET again_ == Screen(Read(st.kc, session.files[Config], st.kc.order))
  IN  \A x \in SymbolsIn(st.kc) :
        ~IsNew(again_, x) /\ ("asks" \in DOMAIN session => ~IsNew(st, x))
============================================================================
