-------------------------------- MODULE Klib --------------------------------
(***************************************************************************)
(* The C library of the abstract machine: klib/src/string.c, atoi of       *)
(* stdlib.c, and vprintf of stdio.c, which printf and sprintf share.       *)
(*                                                                         *)
(* Memory is a sequence of bytes, 0 the end of a string and a pointer an   *)
(* index.  A byte is read as an unsigned number, as char is on RISC-V.     *)
(* strncpy, vsprintf, snprintf and vsnprintf end the program (panic).      *)
(***************************************************************************)
EXTENDS Loops, Sequences, SequencesExt, FiniteSets

CONSTANTS
  IntBits, LongLongBits,   \* the widths of int and of long long
  Characters,              \* the characters of texts, each a string
  Overflowed,              \* what the build prints for -d when that overflows
  Calls                    \* the calls to try

VARIABLES
  call,     \* [fn, mem, dst, src, n] or [fn, items]
  answer    \* what the call left: [ret, mem], [ret, out, failed], or that it died

Sign(x) == IF x < 0 THEN -1 ELSE IF x > 0 THEN 1 ELSE 0

----------------------------------------------------------------------------
\* string.c

lengthStep(mem) == [p \in Nat |-> IF mem[p] = 0 THEN p ELSE p + 1]
strlen(mem, p) == Loop(lengthStep(mem), p, Len(mem)) - p

\* Memory, and the pointers of a loop that writes it; where the bytes move up,
\* where they move down, and where the loop ends before the end of a string.
Copying == [mem : Seq(Nat), dst : Int, src : Int]
CopyIn(mem, dst, src) == [mem |-> mem, dst |-> dst, src |-> src]
upStep == [s \in Copying |-> CopyIn([s.mem EXCEPT ![s.dst] = s.mem[s.src]], s.dst + 1, s.src + 1)]
downStep == [s \in Copying |-> CopyIn([s.mem EXCEPT ![s.dst] = s.mem[s.src]], s.dst - 1, s.src - 1)]
stringStep == [s \in Copying |-> IF s.mem[s.src] = 0 THEN s ELSE upStep[s]]

strcpy(mem, dst, src) ==
  LET end == Loop(stringStep, CopyIn(mem, dst, src), Len(mem))
  IN  [end.mem EXCEPT ![end.dst] = 0]

\* The end of dst, then src as far as its end, then the end.
strcat(mem, dst, src) == strcpy(mem, dst + strlen(mem, dst), src)

alikeStep(mem, a, b) == [i \in Nat |->
  IF mem[a + i] # 0 /\ mem[b + i] # 0 /\ mem[a + i] = mem[b + i] THEN i + 1 ELSE i]
strcmp(mem, a, b) ==
  LET i == Loop(alikeStep(mem, a, b), 0, Len(mem)) IN mem[a + i] - mem[b + i]

\* The first of n bytes that differ, or that memory does not have: the end of
\* both strings does not end it.
Inside(mem, a, b, i) == a + i <= Len(mem) /\ b + i <= Len(mem)
sameStep(mem, a, b, n) == [i \in Nat |->
  IF i < n /\ Inside(mem, a, b, i) /\ mem[a + i] = mem[b + i] THEN i + 1 ELSE i]
LeavesMemory(mem, a, b, n) ==
  LET i == Loop(sameStep(mem, a, b, n), 0, n) IN i < n /\ ~Inside(mem, a, b, i)
strncmp(mem, a, b, n) ==
  LET i == Loop(sameStep(mem, a, b, n), 0, n)
  IN  IF i = n THEN 0 ELSE Sign(mem[a + i] - mem[b + i])
memcmp(mem, a, b, n) ==
  LET i == Loop(sameStep(mem, a, b, n), 0, n)
  IN  IF i = n THEN 0 ELSE mem[a + i] - mem[b + i]

fillStep(c) == [s \in Copying |-> CopyIn([s.mem EXCEPT ![s.dst] = c], s.dst + 1, s.src)]
memset(mem, p, c, n) == Loop(fillStep(c), CopyIn(mem, p, p), n).mem

\* Mutant: the direction does not depend on which block is the lower one.
memmove_Up(mem, dst, src, n) == Loop(upStep, CopyIn(mem, dst, src), n).mem
memmove(mem, dst, src, n) ==
  IF dst < src THEN Loop(upStep, CopyIn(mem, dst, src), n).mem
  ELSE Loop(downStep, CopyIn(mem, dst + n - 1, src + n - 1), n).mem
memcpy(mem, dst, src, n) == Loop(upStep, CopyIn(mem, dst, src), n).mem

\* atoi: spaces, then digits; there is no sign and no other white space.
Space == 32
Zero == 48
IsDigit(c) == c \in Zero .. Zero + 9
spaceStep(mem) == [p \in Nat |-> IF mem[p] = Space THEN p + 1 ELSE p]
digitStep(mem) == [s \in [p : Nat, x : Nat] |->
  IF IsDigit(mem[s.p]) THEN [p |-> s.p + 1, x |-> s.x * 10 + (mem[s.p] - Zero)] ELSE s]
atoi(mem, p) ==
  Loop(digitStep(mem), [p |-> Loop(spaceStep(mem), p, Len(mem)), x |-> 0], Len(mem)).x

----------------------------------------------------------------------------
\* vprintf

DigitChar == <<"0", "1", "2", "3", "4", "5", "6", "7", "8", "9">>

\* The argument as the type it is taken as.
AsUnsigned(v, bits) == v % Pow2[bits]
AsSigned(v, bits) ==
  IF AsUnsigned(v, bits) >= Pow2[bits - 1] THEN AsUnsigned(v, bits) - Pow2[bits] ELSE AsUnsigned(v, bits)

\* The last digit first.
invertStep == [s \in [left : Nat, invert : Seq(0 .. 9)] |->
  IF s.left = 0 THEN s ELSE [left |-> s.left \div 10, invert |-> Append(s.invert, s.left % 10)]]
digits(d) ==
  LET places == Loop(invertStep, [left |-> d, invert |-> <<>>], d).invert
  IN  IF d = 0 THEN <<"0">> ELSE [i \in 1 .. Len(places) |-> DigitChar[Reverse(places)[i] + 1]]

Width(flags) == IF flags = 2 THEN LongLongBits ELSE IntBits
decimal(v, flags) ==
  LET d == AsSigned(v, Width(flags))
      positive == IF -d = Pow2[LongLongBits - 1] THEN Overflowed ELSE digits(-d)
  IN  IF d < 0 THEN <<"-">> \o positive ELSE digits(d)
unsigned(v, flags) == digits(AsUnsigned(v, Width(flags)))

\* at: the character of the format; taken: the arguments that have been taken.
Printing == [at : Nat, taken : Nat, out : Seq(Characters), pos : Nat, in_format : BOOLEAN,
             long_flags : Nat, failed : BOOLEAN]
Start == [at |-> 1, taken |-> 0, out |-> <<>>, pos |-> 0, in_format |-> FALSE,
          long_flags |-> 0, failed |-> FALSE]
Puts(s, chars) == [[s EXCEPT !.out = @ \o chars] EXCEPT !.pos = @ + Len(chars)]
Skips(s, k) == [s EXCEPT !.at = @ + k]
Takes(s) == [[s EXCEPT !.taken = @ + 1] EXCEPT !.in_format = FALSE]
Fails(s) == [s EXCEPT !.failed = TRUE]

\* A conversion, with the next argument; %% is not counted in pos.
Convert(s, c, arg) ==
  CASE c = "l" -> [s EXCEPT !.long_flags = @ + 1]
    [] c = "s" -> IF s.long_flags # 0 THEN Fails(s) ELSE Takes(Puts(s, arg))
    [] c = "c" -> IF s.long_flags # 0 THEN Fails(s) ELSE Takes(Puts(s, <<arg>>))
    [] c \in {"d", "u"} ->
         LET shown == IF c = "d" THEN decimal(arg, s.long_flags) ELSE unsigned(arg, s.long_flags)
         IN  IF s.long_flags > 2 THEN Fails(s)
             ELSE [Takes(Puts(s, shown)) EXCEPT !.long_flags = 0]
    [] c = "%" -> [[s EXCEPT !.out = Append(@, "%")] EXCEPT !.in_format = FALSE]
    [] OTHER -> s

\* A "%" outside of a conversion starts one and takes the character after it;
\* inside of one it ends it.
printStep(fmt, args) == [s \in Printing |->
  LET In(k) == [Skips(s, k) EXCEPT !.in_format = TRUE]
      arg == args[s.taken + 1]
  IN  CASE s.at > Len(fmt) \/ s.failed -> s
        [] ~(s.at > Len(fmt) \/ s.failed) /\ s.in_format -> Convert(In(1), fmt[s.at], arg)
        [] ~(s.at > Len(fmt) \/ s.failed) /\ ~s.in_format /\ fmt[s.at] = "%" ->
             Convert(In(2), fmt[s.at + 1], arg)
        [] OTHER -> Puts(Skips(s, 1), <<fmt[s.at]>>)]
vprintf(fmt, args) == Loop(printStep(fmt, args), Start, Len(fmt))

----------------------------------------------------------------------------

Unanswered == [is |-> "none"]
KlibInit == call \in Calls /\ answer = Unanswered

\* A call of string.c or stdlib.c: what it returns, if that is not a pointer,
\* and the memory.
StringCall ==
  LET mem == call.mem
      Ret(r) == [is |-> "made", ret |-> r, mem |-> mem]
      Left(x) == [is |-> "made", ret |-> 0, mem |-> x]
  IN  /\ answer = Unanswered /\ call.fn # "printf"
      /\ answer' =
           CASE call.fn = "strlen" -> Ret(strlen(mem, call.src))
             [] call.fn = "strcpy" -> Left(strcpy(mem, call.dst, call.src))
             [] call.fn = "strcat" -> Left(strcat(mem, call.dst, call.src))
             [] call.fn = "strcmp" -> Ret(Sign(strcmp(mem, call.dst, call.src)))
             [] call.fn = "strncmp" ->
                  IF LeavesMemory(mem, call.dst, call.src, call.n) THEN [is |-> "died"]
                  ELSE Ret(Sign(strncmp(mem, call.dst, call.src, call.n)))
             [] call.fn = "memset" -> Left(memset(mem, call.dst, 7, call.n))
             [] call.fn = "memmove" -> Left(memmove(mem, call.dst, call.src, call.n))
             [] call.fn = "memcpy" -> Left(memcpy(mem, call.dst, call.src, call.n))
             [] call.fn = "memcmp" -> Ret(Sign(memcmp(mem, call.dst, call.src, call.n)))
             [] call.fn = "atoi" -> Ret(atoi(mem, call.src))
      /\ UNCHANGED call

\* printf or sprintf: call.items are the parts of the format with what each takes.
printf ==
  LET fmt == FlattenSeq([i \in DOMAIN call.items |-> call.items[i].fmt])
      args == FlattenSeq([i \in DOMAIN call.items |-> call.items[i].arg])
      done == vprintf(fmt, args)
  IN  /\ answer = Unanswered /\ call.fn = "printf"
      /\ answer' = [is |-> "made", ret |-> done.pos, out |-> done.out, failed |-> done.failed]
      /\ UNCHANGED call

KlibSpec == KlibInit /\ [][StringCall \/ printf]_<<call, answer>>

----------------------------------------------------------------------------
\* Properties

\* The first n bytes from p, and the string at p without its end.
Block(mem, p, n) == SubSeq(mem, p, p + n - 1)
EndOf(mem, p) == CHOOSE i \in p .. Len(mem) : mem[i] = 0 /\ \A j \in p .. i - 1 : mem[j] # 0
String(mem, p) == SubSeq(mem, p, EndOf(mem, p) - 1)
IsString(mem, p) == \E i \in p .. Len(mem) : mem[i] = 0
Fits(mem, p, n) == p + n - 1 <= Len(mem)
Disjoint(p, n, q, k) == p + n <= q \/ q + k <= p

\* The number at the start of s, after spaces.
Number(s) ==
  LET from == IF \A i \in DOMAIN s : s[i] = Space THEN Len(s) + 1
              ELSE CHOOSE i \in DOMAIN s : s[i] # Space /\ \A j \in 1 .. i - 1 : s[j] = Space
      upto == CHOOSE k \in from - 1 .. Len(s) :
                /\ \A i \in from .. k : IsDigit(s[i])
                /\ k < Len(s) => ~IsDigit(s[k + 1])
      value[k \in from - 1 .. upto] == IF k = from - 1 THEN 0 ELSE value[k - 1] * 10 + (s[k] - Zero)
  IN  value[upto]

\* The first n bytes from p, of a string not beyond its end.
StartOf(mem, p, n) ==
  IF IsString(mem, p) /\ Len(String(mem, p)) < n THEN String(mem, p) ELSE Block(mem, p, n)

\* A call of string.c or of atoi whose arguments the C standard allows.
ValidString(c) ==
  LET size == Len(String(c.mem, c.src)) + 1
      start == IF c.fn = "strcat" THEN EndOf(c.mem, c.dst) ELSE c.dst
  IN  CASE c.fn = "strlen" -> IsString(c.mem, c.src)
        [] c.fn \in {"strcpy", "strcat"} ->
             /\ IsString(c.mem, c.src)
             /\ c.fn = "strcat" => IsString(c.mem, c.dst)
             /\ Fits(c.mem, start, size) /\ Disjoint(start, size, c.src, size)
        [] c.fn = "strcmp" -> IsString(c.mem, c.dst) /\ IsString(c.mem, c.src)
        [] c.fn = "strncmp" -> /\ IsString(c.mem, c.dst) \/ Fits(c.mem, c.dst, c.n)
                               /\ IsString(c.mem, c.src) \/ Fits(c.mem, c.src, c.n)
        [] c.fn \in {"memcmp", "memmove"} -> Fits(c.mem, c.dst, c.n) /\ Fits(c.mem, c.src, c.n)
        [] c.fn = "memset" -> Fits(c.mem, c.dst, c.n)
        [] c.fn = "memcpy" -> /\ Fits(c.mem, c.dst, c.n) /\ Fits(c.mem, c.src, c.n)
                              /\ Disjoint(c.dst, c.n, c.src, c.n)
        [] c.fn = "atoi" -> /\ IsString(c.mem, c.src)
                            /\ Number(String(c.mem, c.src)) < Pow2[IntBits - 1]
        [] OTHER -> FALSE
Valid(c) == c.mem \in Seq(Nat) /\ c.dst \in Nat \ {0} /\ c.src \in Nat \ {0} /\ c.n \in Nat
              /\ ValidString(c)

\* A part of a format and the argument it takes: a letter or several, %%, or a
\* conversion with an argument of its type.
IsNumber(v, c, flags) ==
  IF c = "u" THEN v \in 0 .. Pow2[Width(flags)] - 1
  ELSE v \in -Pow2[Width(flags) - 1] .. Pow2[Width(flags) - 1] - 1
IsItem(item) ==
  CASE item.kind = "text" ->
         /\ item.fmt \in Seq(Characters) \ {<<>>} /\ item.arg = <<>>
         /\ \A i \in DOMAIN item.fmt : item.fmt[i] # "%"
    [] item.kind = "percent" -> item.fmt = <<"%", "%">> /\ item.arg = <<>>
    [] item.kind = "char" -> item.fmt = <<"%", "c">> /\ item.arg[1] \in Characters /\ item.arg = <<item.arg[1]>>
    [] item.kind = "string" ->
         item.fmt = <<"%", "s">> /\ item.arg[1] \in Seq(Characters) /\ item.arg = <<item.arg[1]>>
    [] item.kind = "number" ->
         \E flags \in 0 .. 2, c \in {"d", "u"} :
           /\ item.fmt = <<"%">> \o [i \in 1 .. flags |-> "l"] \o <<c>>
           /\ IsNumber(item.arg[1], c, flags) /\ item.arg = <<item.arg[1]>>
    [] OTHER -> FALSE

ASSUME KlibAssumption ==
  /\ IntBits \in Nat \ {0} /\ LongLongBits \in Nat /\ IntBits < LongLongBits
  /\ {"%", "c", "s", "l", "d", "u", "-"} \cup {DigitChar[i] : i \in 1 .. 10} \subseteq Characters
  /\ Overflowed \in Seq(Characters)
  /\ \A c \in Calls :
       IF c.fn = "printf" THEN c.items \in Seq({c.items[i] : i \in DOMAIN c.items})
                               /\ \A i \in DOMAIN c.items : IsItem(c.items[i])
       ELSE Valid(c)

\* The order of two sequences of bytes, a shorter one first.
Order(s, t) ==
  LET differ == {i \in 1 .. Len(s) : i > Len(t) \/ s[i] # t[i]}
      first == CHOOSE i \in differ : \A j \in differ : i <= j
  IN  IF differ = {} THEN Sign(Len(s) - Len(t))
      ELSE IF first > Len(t) THEN 1 ELSE Sign(s[first] - t[first])

\* mem with the sequence s at p.
With(mem, p, s) ==
  [i \in DOMAIN mem |-> IF i \in p .. p + Len(s) - 1 THEN s[i - p + 1] ELSE mem[i]]

Pow10[k \in Nat] == IF k = 0 THEN 1 ELSE 10 * Pow10[k - 1]

\* The number v in decimal, without zeros before it.
Natural(v) ==
  LET length == CHOOSE n \in 1 .. v + 1 : v < Pow10[n] /\ (n = 1 \/ v >= Pow10[n - 1])
  IN  [i \in 1 .. length |-> DigitChar[((v \div Pow10[length - i]) % 10) + 1]]
Decimal(v) == IF v < 0 THEN <<"-">> \o Natural(-v) ELSE Natural(v)

\* What a number is shown as.  The exception is the least long long, behind whose
\* sign the build prints what it makes of its overflow.
IsLeast(v) == -v = Pow2[LongLongBits - 1]
ShownNumber(v) == IF IsLeast(v) THEN <<"-">> \o Overflowed ELSE Decimal(v)

\* What an item of a format prints.
Shown(item) ==
  CASE item.kind = "text" -> item.fmt
    [] item.kind = "percent" -> <<"%">>
    [] item.kind = "char" -> item.arg
    [] item.kind = "string" -> item.arg[1]
    [] item.kind = "number" -> ShownNumber(item.arg[1])

\* The exception of strncmp: equal strings that end before n bytes are compared,
\* where it goes on with the bytes behind their ends, as memcmp does.
RunsOn(c) ==
  LET s == StartOf(c.mem, c.src, c.n) IN StartOf(c.mem, c.dst, c.n) = s /\ Len(s) + 1 < c.n

\* String calls do to memory and return what the C standard says, for blocks that
\* overlap, strings that are empty or prefixes of each other, and n of zero; and
\* a format of %c, %s, %d, %u with l or ll, and %% prints its arguments one after
\* the other, whatever comes before.  What klib does and C does not is named:
\* RunsOn, IsLeast, the result of printf, which counts no %%, and atoi, which reads
\* no sign.
KlibIsC ==
  answer # Unanswered =>
    LET mem == call.mem
        s == String(mem, call.src)
        d == String(mem, call.dst)
    IN  CASE call.fn = "strlen" -> answer.ret = Len(s)
          [] call.fn = "strcpy" -> answer.mem = With(mem, call.dst, s \o <<0>>)
          [] call.fn = "strcat" -> answer.mem = With(mem, call.dst, d \o s \o <<0>>)
          [] call.fn = "strcmp" -> answer.ret = Order(d, s)
          [] call.fn = "strncmp" ->
               IF RunsOn(call)
               THEN Fits(mem, call.dst, call.n) /\ Fits(mem, call.src, call.n) =>
                      answer.is = "made"
                        /\ answer.ret = Order(Block(mem, call.dst, call.n), Block(mem, call.src, call.n))
               ELSE answer.is = "made"
                      /\ answer.ret = Order(StartOf(mem, call.dst, call.n), StartOf(mem, call.src, call.n))
          [] call.fn = "memset" -> answer.mem = With(mem, call.dst, [i \in 1 .. call.n |-> 7])
          [] call.fn \in {"memmove", "memcpy"} ->
               answer.mem = With(mem, call.dst, Block(mem, call.src, call.n))
          [] call.fn = "memcmp" ->
               answer.ret = Order(Block(mem, call.dst, call.n), Block(mem, call.src, call.n))
          [] call.fn = "atoi" -> answer.ret = Number(s)
          [] call.fn = "printf" ->
               LET out == FlattenSeq([i \in DOMAIN call.items |-> Shown(call.items[i])])
                   percents == {i \in DOMAIN call.items : call.items[i].kind = "percent"}
               IN  ~answer.failed /\ answer.out = out
                   /\ answer.ret = Len(out) - Cardinality(percents)
============================================================================
