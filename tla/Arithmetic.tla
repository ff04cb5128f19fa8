----------------------------- MODULE Arithmetic -----------------------------
(***************************************************************************)
(* Multiplication, division and shifts of integers wider than the machine, *)
(* or for a machine without them: klib/src/int64.c and the copy of libgcc  *)
(* in am/src/riscv/npc (that of ysyxsoc is the same text).                 *)
(*                                                                         *)
(* A word has Bits bits and a double word twice as many; both are kept as  *)
(* unsigned numbers, and a double word d has the words Hi(d) and Lo(d).    *)
(* The code is written for 32 bits and nothing in it but the tables of     *)
(* __clzsi2 and __ctzsi2, halved here from Bits, depends on that.          *)
(***************************************************************************)
EXTENDS Loops, Sequences

CONSTANTS
  Bits,        \* bits of a word, a power of two
  Operands     \* the pairs of double words to try

ASSUME ArithmeticAssumption ==
  /\ Bits \in Nat /\ \E e \in 1 .. Bits : Bits = Pow2[e]
  /\ Operands \subseteq (0 .. Pow2[2 * Bits] - 1) \X (0 .. Pow2[2 * Bits] - 1)

VARIABLES
  operands,    \* the arguments
  results      \* what every routine returned for them

WordMod == Pow2[Bits]
DwordMod == Pow2[2 * Bits]
Hi(d) == d \div WordMod
Lo(d) == d % WordMod
Dword(h, l) == h * WordMod + l
sll(x, k) == (x * Pow2[k]) % WordMod
srl(x, k) == x \div Pow2[k]
neg(x) == (DwordMod - x) % DwordMod
Negative(x) == x >= DwordMod \div 2
IsPowerOf2(x) == \E k \in 0 .. Bits - 1 : x = Pow2[k]     \* x & (x - 1) is 0, x is not
Divide(q, r) == [quo |-> q, rem |-> r]

----------------------------------------------------------------------------
\* int64.c

\* A search for the first or the last bit of x that is set: width bits of it are
\* left to look at, the half with the bit, and the others were zeros.
Search == [x : Nat, width : Nat, zeros : Nat]
SearchIn(x) == [x |-> x, width |-> Bits, zeros |-> 0]
clzStep == [s \in Search |->
  LET half == s.width \div 2
  IN  IF s.width <= 2 THEN s
      ELSE IF srl(s.x, half) = 0 THEN [x |-> s.x, width |-> half, zeros |-> s.zeros + half]
      ELSE [x |-> srl(s.x, half), width |-> half, zeros |-> s.zeros]]
ctzStep == [s \in Search |->
  LET half == s.width \div 2
  IN  IF s.width <= 2 THEN s
      ELSE IF s.x % Pow2[half] = 0 THEN [x |-> srl(s.x, half), width |-> half, zeros |-> s.zeros + half]
      ELSE [x |-> s.x, width |-> half, zeros |-> s.zeros]]
clz(x) == LET s == Loop(clzStep, SearchIn(x), Bits) IN s.zeros + IF s.x >= 2 THEN 0 ELSE 2 - s.x
ctz(x) == LET s == Loop(ctzStep, SearchIn(x), Bits)
          IN  s.zeros + IF s.x % 2 = 1 THEN 0 ELSE 2 - ((s.x % 4) \div 2)
__clzdi2(d) == IF Hi(d) = 0 THEN clz(Lo(d)) + Bits ELSE clz(Hi(d))
__ctzdi2(d) == IF Lo(d) = 0 THEN ctz(Hi(d)) + Bits ELSE ctz(Lo(d))

\* The loop of __udivmoddi4: r:q is shifted left, sr times, and d subtracted
\* where the sign of d - r - 1, as a double word, says that r is not below d.
Shifting == [q : Nat, r : Nat, sr : Nat, carry : {0, 1}]
ShiftIn(s) == (2 * s.q + s.carry) % DwordMod
udivStep(d) == [s \in Shifting |->
  LET r == (2 * s.r + s.q \div (DwordMod \div 2)) % DwordMod
      borrow == Negative((d - r - 1) % DwordMod)
  IN  IF s.sr = 0 THEN s
      ELSE [q |-> ShiftIn(s), r |-> IF borrow THEN (r - d) % DwordMod ELSE r,
            sr |-> s.sr - 1, carry |-> IF borrow THEN 1 ELSE 0]]

\* n moved right by sr bits, across the words, and what that moves out of it.
udivFrom(n, d, sr) ==
  LET q == CASE sr = Bits -> Dword(Lo(n), 0)
             [] sr < Bits -> Dword(sll(Lo(n), Bits - sr), 0)
             [] OTHER -> Dword((sll(Hi(n), 2 * Bits - sr) + srl(Lo(n), sr - Bits)) % WordMod,
                               sll(Lo(n), 2 * Bits - sr))
      r == CASE sr = Bits -> Hi(n)
             [] sr < Bits -> Dword(srl(Hi(n), sr), (sll(Hi(n), Bits - sr) + srl(Lo(n), sr)) % WordMod)
             [] OTHER -> srl(Hi(n), sr - Bits)
      end == Loop(udivStep(d), [q |-> q, r |-> r, sr |-> sr, carry |-> 0], 2 * Bits)
  IN  Divide(ShiftIn(end), end.r)

\* Mutant: a divisor with both words counts as too large a bit too early.
__udivmoddi4_Early(n, d) ==
  LET sr == (clz(Hi(d)) - clz(Hi(n))) % WordMod
  IN  IF Hi(n) = 0 \/ Hi(d) = 0 \/ Lo(d) = 0 THEN Divide(n \div d, n % d)
      ELSE IF sr > Bits - 2 THEN Divide(0, n) ELSE udivFrom(n, d, sr + 1)

\* d is not zero; the differences of clz are unsigned.
__udivmoddi4(n, d) ==
  LET gap == (clz(Hi(d)) - clz(Hi(n))) % WordMod
  IN  IF Hi(n) = 0
        THEN IF Hi(d) = 0 THEN Divide(Lo(n) \div Lo(d), Lo(n) % Lo(d)) ELSE Divide(0, Lo(n))
      ELSE IF Lo(d) = 0
        THEN IF Lo(n) = 0 THEN Divide(Hi(n) \div Hi(d), Dword(Hi(n) % Hi(d), 0))
             ELSE IF IsPowerOf2(Hi(d))
               THEN Divide(srl(Hi(n), ctz(Hi(d))), Dword(Hi(n) % Hi(d), Lo(n)))
             ELSE IF gap > Bits - 2 THEN Divide(0, n) ELSE udivFrom(n, d, gap + 1)
      ELSE IF Hi(d) = 0
        THEN IF ~IsPowerOf2(Lo(d)) THEN udivFrom(n, d, 1 + Bits + clz(Lo(d)) - clz(Hi(n)))
             ELSE LET sr == ctz(Lo(d))
                  IN  Divide(IF Lo(d) = 1 THEN n
                             ELSE Dword(srl(Hi(n), sr),
                                        (sll(Hi(n), Bits - sr) + srl(Lo(n), sr)) % WordMod),
                             Lo(n) % Lo(d))
      ELSE IF gap > Bits - 1 THEN Divide(0, n) ELSE udivFrom(n, d, gap + 1)

Magnitude(x) == IF Negative(x) THEN neg(x) ELSE x
WithSign(x, negative) == IF negative THEN neg(x) ELSE x

__divdi3(a, b) ==
  WithSign(__udivmoddi4(Magnitude(a), Magnitude(b)).quo, Negative(a) # Negative(b))
__moddi3(a, b) == WithSign(__udivmoddi4(Magnitude(a), Magnitude(b)).rem, Negative(a))
__divmoddi4(a, b) ==
  LET d == __divdi3(a, b) IN Divide(d, (a - d * b) % DwordMod)

----------------------------------------------------------------------------
\* libgcc/div.S, muldi3.S, multi3.c and ashldi3.c; a register of div.S and of
\* muldi3.S is as wide as a double word here.

\* .L1: the divisor and its bit move left until the divisor is not less than the
\* dividend n or has the sign bit.
Aligning == [a2 : Nat, a3 : Nat]
alignStep(n) == [s \in Aligning |->
  IF n <= s.a2 \/ Negative(s.a2) \/ s.a2 = 0 THEN s
  ELSE [a2 |-> (2 * s.a2) % DwordMod, a3 |-> (2 * s.a3) % DwordMod]]

\* .L3: a bit of the quotient each.
Subtracting == [a0 : Nat, a1 : Nat, a2 : Nat, a3 : Nat]
subtractStep == [s \in Subtracting |->
  LET fits == s.a1 >= s.a2
  IN  IF s.a3 = 0 THEN s
      ELSE [a0 |-> IF fits THEN s.a0 + s.a3 ELSE s.a0, a1 |-> IF fits THEN s.a1 - s.a2 ELSE s.a1,
            a2 |-> s.a2 \div 2, a3 |-> s.a3 \div 2]]

\* The quotient in a0, the remainder in a1.
__udivdi3_asm(a0, a1) ==
  LET from == Loop(alignStep(a0), [a2 |-> a1, a3 |-> 1], 2 * Bits)
      end == Loop(subtractStep, [a0 |-> 0, a1 |-> a0, a2 |-> from.a2, a3 |-> from.a3], 2 * Bits)
  IN  IF a1 = 0 THEN Divide(DwordMod - 1, a0) ELSE Divide(end.a0, end.a1)

\* Zero is handled as a negative divisor.
__divdi3_asm(a0, a1) ==
  LET positive == ~Negative(a1) /\ a1 # 0
  IN  IF ~Negative(a0) /\ ~Negative(a1) THEN __udivdi3_asm(a0, a1).quo
      ELSE IF Negative(a0) /\ ~positive THEN __udivdi3_asm(neg(a0), neg(a1)).quo
      ELSE neg(__udivdi3_asm(Magnitude(a0), Magnitude(a1)).quo)

__moddi3_asm(a0, a1) == WithSign(__udivdi3_asm(Magnitude(a0), Magnitude(a1)).rem, Negative(a0))

Adding == [a0 : Nat, a1 : Nat, a2 : Nat]
mulStep == [s \in Adding |->
  IF s.a1 = 0 THEN s
  ELSE [a0 |-> IF s.a1 % 2 = 1 THEN (s.a0 + s.a2) % DwordMod ELSE s.a0,
        a1 |-> s.a1 \div 2, a2 |-> (2 * s.a2) % DwordMod]]
__muldi3_asm(a0, a1) == Loop(mulStep, [a0 |-> 0, a1 |-> a1, a2 |-> a0], 2 * Bits).a0

\* multi3.c: the low words, a bit at a time, with the bits that leave them.
Multiplying == [u : Nat, v : Nat, low : Nat, high : Nat, tmp : Nat]
lowStep == [s \in Multiplying |->
  LET low == (s.low + s.u) % WordMod
      carry == IF low < s.low THEN 1 ELSE 0
      odd == s.v % 2 = 1
  IN  IF s.v = 0 THEN s
      ELSE [u |-> (2 * s.u) % WordMod, v |-> s.v \div 2, low |-> IF odd THEN low ELSE s.low,
            high |-> IF odd THEN (carry + s.tmp + s.high) % WordMod ELSE s.high,
            tmp |-> (2 * s.tmp + s.u \div (WordMod \div 2)) % WordMod]]

__muluw3(a, b) == (a * b) % WordMod

__multi3(u, v) ==
  LET w == Loop(lowStep, [u |-> Lo(u), v |-> Lo(v), low |-> 0, high |-> 0, tmp |-> 0], Bits)
  IN  Dword((w.high + __muluw3(Lo(v), Hi(u)) + __muluw3(Lo(u), Hi(v))) % WordMod, w.low)

__ashldi3(u, b) ==
  IF b = 0 THEN u
  ELSE IF b >= Bits THEN Dword(sll(Lo(u), b - Bits), 0)
  ELSE Dword((sll(Hi(u), b) + srl(Lo(u), Bits - b)) % WordMod, sll(Lo(u), b))

----------------------------------------------------------------------------

Uncalled == [is |-> "none"]
ArithmeticInit == operands \in Operands /\ results = Uncalled

\* int64.c does not handle a divisor of zero, and clz and ctz of zero have none.
CallAll ==
  LET a == operands[1]
      b == operands[2]
      IfDivides(v) == IF b = 0 THEN <<>> ELSE v
  IN  /\ results = Uncalled
      /\ results' = [is |-> "made",
           unsigned |-> IfDivides(__udivmoddi4(a, b)),
           signed |-> IfDivides(Divide(__divdi3(a, b), __moddi3(a, b))),
           both |-> IfDivides(__divmoddi4(a, b)),
           asmUnsigned |-> __udivdi3_asm(a, b),
           asmSigned |-> Divide(__divdi3_asm(a, b), __moddi3_asm(a, b)),
           product |-> __muldi3_asm(a, b),
           wideProduct |-> __multi3(a, b),
           shifted |-> __ashldi3(a, b % (2 * Bits)),
           zeros |-> IfDivides(<<__clzdi2(b), __ctzdi2(b)>>)]
      /\ UNCHANGED operands

----------------------------------------------------------------------------
\* Properties

\* What the instructions of the M extension return: of a division by zero all
\* ones and the dividend.
DivU(a, b) == IF b = 0 THEN Divide(DwordMod - 1, a) ELSE Divide(a \div b, a % b)
SignedOf(x) == IF Negative(x) THEN x - DwordMod ELSE x
AbsOf(x) == IF x < 0 THEN -x ELSE x
Div(a, b) ==
  LET q == AbsOf(SignedOf(a)) \div AbsOf(SignedOf(b))
      r == AbsOf(SignedOf(a)) % AbsOf(SignedOf(b))
  IN  IF b = 0 THEN Divide(DwordMod - 1, a)
      ELSE Divide((IF Negative(a) # Negative(b) THEN -q ELSE q) % DwordMod,
                  (IF Negative(a) THEN -r ELSE r) % DwordMod)

\* Every routine returns what the processor would with an instruction for it,
\* at every pair of operands: the least number by -1, divisors of one word or
\* two, products that do not fit (int64.c, div.S, muldi3.S, multi3.c).
ArithmeticIsExact ==
  results # Uncalled =>
    LET a == operands[1]
        b == operands[2]
    IN  /\ b # 0 => /\ results.unsigned = DivU(a, b)
                    /\ results.signed = Div(a, b) /\ results.both = Div(a, b)
                    /\ results.zeros[1] = 2 * Bits - 1 - (CHOOSE k \in 0 .. 2 * Bits - 1 :
                                                            Pow2[k] <= b /\ b < Pow2[k + 1])
                    /\ results.zeros[2] = (CHOOSE k \in 0 .. 2 * Bits - 1 :
                                             b % Pow2[k] = 0 /\ b % Pow2[k + 1] # 0)
        /\ results.asmUnsigned = DivU(a, b) /\ results.asmSigned = Div(a, b)
        /\ results.product = (a * b) % DwordMod /\ results.wideProduct = (a * b) % DwordMod
        /\ results.shifted = (a * Pow2[b % (2 * Bits)]) % DwordMod
============================================================================
