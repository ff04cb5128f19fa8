---------------------------- MODULE KconfigText ----------------------------
(***************************************************************************)
(* The text of a configuration (tools/kconfig/confdata.c): what is printed *)
(* into .config and into the header of the C program, and what is read of  *)
(* .config.  A text is a sequence of characters, and of words that no      *)
(* character is looked for in: the prefix of a name, a name, a phrase.     *)
(***************************************************************************)
EXTENDS Integers, Sequences, SequencesExt

CONSTANTS
  TypeOf,           \* name of a symbol -> its type
  InOrder,          \* the names in the order of the menus
  Configurations,   \* name -> value, a text
  Titles            \* of the main menu

VARIABLES
  config, title,
  files             \* what was printed, and read from it

CONFIG_ == "CONFIG_"
IsTri(x) == TypeOf[x] \in {"bool", "tristate"}
First(text, c, from) ==
  LET at == {i \in from .. Len(text) : text[i] = c}
  IN  IF at = {} THEN 0 ELSE CHOOSE i \in at : \A j \in at : i <= j
From(text, i) == SubSeq(text, i, Len(text))

----------------------------------------------------------------------------
(* Printing.                                                               *)

Escaped == {"\"", "\\"}
\* Mutant: only quotes are escaped.
sym_escape_string_value_Quotes(str) ==
  <<"\"">> \o FlattenSeq([i \in DOMAIN str |-> IF str[i] = "\"" THEN <<"\\", str[i]>> ELSE <<str[i]>>])
    \o <<"\"">>
sym_escape_string_value(str) ==
  <<"\"">> \o FlattenSeq([i \in DOMAIN str |-> IF str[i] \in Escaped THEN <<"\\", str[i]>> ELSE <<str[i]>>])
    \o <<"\"">>

kconfig_print_symbol(x, value) ==
  IF IsTri(x) /\ value[1] = "n" THEN <<"#", " ", CONFIG_, x, " ", "is not set", "\n">>
  ELSE <<CONFIG_, x, "=">> \o value \o <<"\n">>

header_print_symbol(x, value) ==
  CASE IsTri(x) /\ value[1] = "n" -> <<>>
    [] IsTri(x) -> <<"#define ", CONFIG_, x, IF value[1] = "m" THEN "_MODULE" ELSE "", " ", "1", "\n">>
    [] TypeOf[x] = "hex" ->
         <<"#define ", CONFIG_, x, "", " ">>
           \o (IF value[1] = "0" /\ Len(value) > 1 /\ value[2] \in {"x", "X"} THEN <<>> ELSE <<"0", "x">>)
           \o value \o <<"\n">>
    [] OTHER -> <<"#define ", CONFIG_, x, "", " ">> \o value \o <<"\n">>

\* The lines of a text, the last one what follows the last newline.
LinesOf(text) ==
  FoldLeft(LAMBDA lines, c : IF c = "\n" THEN Append(lines, <<>>)
                             ELSE Append(Front(lines), Append(Last(lines), c)), <<<<>>>>, text)

kconfig_print_comment(value) ==
  FlattenSeq([i \in DOMAIN LinesOf(value) |->
    <<"#">> \o (IF LinesOf(value)[i] = <<>> THEN <<>> ELSE <<" ">> \o LinesOf(value)[i]) \o <<"\n">>])
header_print_comment(value) ==
  <<"/*", "\n">> \o FlattenSeq([i \in DOMAIN LinesOf(value) |->
    <<" ", "*">> \o (IF LinesOf(value)[i] = <<>> THEN <<>> ELSE <<" ">> \o LinesOf(value)[i]) \o <<"\n">>])
    \o <<" ", "*/", "\n">>

Heading == <<"\n", "Automatically generated file; DO NOT EDIT.", "\n">> \o title \o <<"\n">>

\* conf_write_symbol: the text of the value, in quotes when it is a string.
ValueText(x) == IF TypeOf[x] = "string" THEN sym_escape_string_value(config[x]) ELSE config[x]

ConfigFile ==
  kconfig_print_comment(Heading)
    \o FlattenSeq([i \in DOMAIN InOrder |-> kconfig_print_symbol(InOrder[i], ValueText(InOrder[i]))])
HeaderFile ==
  header_print_comment(Heading)
    \o FlattenSeq([i \in DOMAIN InOrder |-> header_print_symbol(InOrder[i], ValueText(InOrder[i]))])

----------------------------------------------------------------------------
(* Reading.                                                                *)

Digit == {"0", "1", "7"}
sym_string_valid(type, str) ==
  CASE type = "string" -> TRUE
    [] type = "int" ->
         LET s == IF str # <<>> /\ str[1] = "-" THEN Tail(str) ELSE str
         IN  s # <<>> /\ (\A i \in DOMAIN s : s[i] \in Digit) /\ (s[1] = "0" => Len(s) = 1)
    [] type = "hex" ->
         LET s == IF Len(str) > 1 /\ str[1] = "0" /\ str[2] \in {"x", "X"} THEN From(str, 3) ELSE str
         IN  s # <<>> /\ \A i \in DOMAIN s : s[i] \in Digit \cup {"a", "f"}

\* A line as it is read: each ends with its newline but the last.
getlines(text) ==
  LET parts == LinesOf(text)
  IN  [i \in 1 .. (Len(parts) - 1) |-> Append(parts[i], "\n")]
        \o (IF Last(parts) = <<>> THEN <<>> ELSE <<Last(parts)>>)

\* What is between the quotes: a backslash is taken out and the next character
\* left alone; without the second quote there is no value.
Unquoted(p) ==
  LET step(u, c) ==
        CASE u.closed -> u
          [] u.after -> [u EXCEPT !.text = Append(@, c), !.after = FALSE]
          [] c = "\\" -> [u EXCEPT !.after = TRUE]
          [] c = "\"" -> [u EXCEPT !.closed = TRUE]
          [] OTHER -> [u EXCEPT !.text = Append(@, c)]
  IN  FoldLeft(step, [text |-> <<>>, after |-> FALSE, closed |-> FALSE], p)

\* conf_set_sym_val: d has the values read so far and the number of warnings.
SetTo(d, x, value) == [d EXCEPT !.value = [z \in DOMAIN @ \cup {x} |-> IF z = x THEN value ELSE @[z]]]
Warned(d) == [d EXCEPT !.warnings = @ + 1]
conf_set_sym_val(d, x, p) ==
  LET type == TypeOf[x] IN
  CASE IsTri(x) -> IF p # <<>> /\ p[1] \in {"y", "n"} \cup (IF type = "tristate" THEN {"m"} ELSE {})
                   THEN SetTo(d, x, <<p[1]>>) ELSE Warned(d)
    [] type = "string" ->
         IF p = <<>> \/ p[1] # "\"" THEN d
         ELSE IF Unquoted(Tail(p)).closed THEN SetTo(d, x, Unquoted(Tail(p)).text) ELSE Warned(d)
    [] OTHER -> IF sym_string_valid(type, p) THEN SetTo(d, x, p) ELSE Warned(d)

\* A symbol that no Kconfig file has is a change; one that has a value, a warning.
Unknown(name) == name \notin {<<x>> : x \in DOMAIN TypeOf}
Reassigned(d, x) == IF x \in DOMAIN d.value THEN Warned(d) ELSE d

NotSet(d, x) == IF IsTri(x) THEN SetTo(Reassigned(d, x), x, <<"n">>) ELSE Reassigned(d, x)
read_comment(d, line) ==
  LET p == First(line, " ", 4)
      name == SubSeq(line, 4, p - 1)
  IN  IF Len(line) < 3 \/ line[3] # CONFIG_ \/ p \in {0, Len(line)} \/ line[p + 1] # "is not set" THEN d
      ELSE IF Unknown(name) THEN [d EXCEPT !.change_count = @ + 1] ELSE NotSet(d, name[1])

read_assignment(d, line) ==
  LET p == First(line, "=", 2)
      end == First(line, "\n", 2)
      name == SubSeq(line, 2, p - 1)
      value == SubSeq(line, p + 1, (IF end = 0 THEN Len(line) + 1 ELSE end) - 1)
  IN  IF p = 0 THEN d
      ELSE IF Unknown(name) THEN [d EXCEPT !.change_count = @ + 1]
      ELSE conf_set_sym_val(Reassigned(d, name[1]), name[1], value)

conf_read_line(d, line) ==
  CASE line[1] = "#" -> read_comment(d, line)
    [] line[1] = CONFIG_ -> read_assignment(d, line)
    [] line[1] = "\n" -> d
    [] OTHER -> Warned(d)

conf_read_simple(text) ==
  FoldLeft(conf_read_line, [value |-> [x \in {} |-> <<>>], warnings |-> 0, change_count |-> 0],
           getlines(text))

----------------------------------------------------------------------------
Unprinted == [header |-> <<>>, read |-> <<>>]
TextInit == config \in Configurations /\ title \in Titles /\ files = Unprinted
conf_write ==
  /\ files = Unprinted
  /\ files' = [header |-> getlines(HeaderFile), read |-> conf_read_simple(ConfigFile)]
  /\ UNCHANGED <<config, title>>

----------------------------------------------------------------------------
\* Properties

\* What a C program reads of a #define: the string of a literal, by C's rules
\* for \" and \\, or the text of a number.
MeansInC(literal) ==
  LET plain == {i \in DOMAIN literal : i > 1 /\ i < Len(literal)
                   /\ (literal[i] = "\\" =>
                         Cardinality({j \in 1 .. i : literal[j] = "\\" /\ \A k \in j .. i : literal[k] = "\\"}) % 2 = 0)}
  IN  [n \in 1 .. Cardinality(plain) |-> literal[CHOOSE i \in plain : Cardinality({j \in plain : j < i}) = n - 1]]
Define(x) ==
  LET lines == {i \in DOMAIN files.header : Len(files.header[i]) > 4 /\ files.header[i][1] = "#define "
                                             /\ files.header[i][3] = x}
  IN  {SubSeq(files.header[i], 4, Len(files.header[i]) - 1) : i \in lines}
Hexadecimal(value) == IF Len(value) > 1 /\ value[2] = "x" THEN value ELSE <<"0", "x">> \o value
InHeader(x) ==
  CASE IsTri(x) -> Define(x) = (CASE config[x][1] = "n" -> {} [] config[x][1] = "y" -> {<<"", " ", "1">>}
                                  [] OTHER -> {<<"_MODULE", " ", "1">>})
    [] TypeOf[x] = "string" -> \E l \in Define(x) : Cardinality(Define(x)) = 1 /\ MeansInC(From(l, 3)) = config[x]
    [] TypeOf[x] = "hex" -> Define(x) = {<<"", " ">> \o Hexadecimal(config[x])}
    [] OTHER -> Define(x) = {<<"", " ">> \o config[x]}

\* A configuration that is written is read back as it was, without a warning or
\* an unknown symbol, whatever characters its strings are made of, and the
\* header gives the C program the same values.
TextReadsBack == files # Unprinted =>
  /\ files.read = [value |-> config, warnings |-> 0, change_count |-> 0]
  /\ \A x \in DOMAIN config : InHeader(x)
=============================================================================
