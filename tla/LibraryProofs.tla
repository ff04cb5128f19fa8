---------------------------- MODULE LibraryProofs ----------------------------
(***************************************************************************)
(* Proofs that the 64-bit arithmetic of klib and of the npc's libgcc       *)
(* computes what C says, for words of every size that is a power of two and *)
(* all operands; and that the string functions, atoi and printf of klib do *)
(* what C says, for every memory, string, block and format of items.       *)
(*                                                                         *)
(* A routine's loop is a recursive function of the number of its iterations *)
(* (Loops); what an iteration keeps then holds at the end by an induction  *)
(* over that number, taken from the theorem that < on the natural numbers is *)
(* well-founded.  The first part is about the arithmetic, the second about *)
(* memory, the third about printf: a format is laid out item after item    *)
(* (Layout), and the state after each item is known (the loop of vprintf). *)
(***************************************************************************)
EXTENDS Arithmetic, Klib, FiniteSetTheorems, WellFoundedInduction, TLAPS

\* A set of numbers with 0 and with the successor of every member has them all.
LEMMA Induction ==
  ASSUME NEW A, 0 \in A, \A n \in Nat : n \in A => n + 1 \in A
  PROVE  \A n \in Nat : n \in A
<1> DEFINE Others == {n \in Nat : n \notin A}
<1>1. SUFFICES ASSUME Others # {} PROVE FALSE
  OBVIOUS
<1>2. PICK least \in Others : \A n \in Others : ~(<<n, least>> \in OpToRel(<, Nat))
  BY <1>1, NatLessThanWellFounded, WFMin
<1>3. \A n \in Others : ~(n < least)
  BY <1>2 DEF OpToRel
<1>4. least \in Nat /\ least # 0 /\ least - 1 \in Nat /\ least - 1 \in Others
  OBVIOUS
<1>5. QED BY <1>3, <1>4

\* A loop on the states S, of which n iterations are looked at, and the states g
\* that it goes through.
IsLoop(S, step, from, n) == from \in S /\ n \in Nat /\ \A s \in S : step[s] \in S
IsRun(g, S, step, from, n) ==
  g \in [0 .. n -> S] /\ g[0] = from /\ \A k \in 1 .. n : g[k] = step[g[k - 1]]

\* Every loop has its run.
LEMMA RunExists ==
  ASSUME NEW S, NEW step, NEW from, NEW most, IsLoop(S, step, from, most)
  PROVE  \E g : IsRun(g, S, step, from, most)
<1> USE DEF IsLoop
<1> DEFINE A == {n \in Nat : \E g : IsRun(g, S, step, from, n)}
<1>1. 0 \in A
  <2> DEFINE g == [k \in 0 .. 0 |-> from]
  <2>1. IsRun(g, S, step, from, 0)
    BY DEF IsRun
  <2>2. QED BY <2>1
<1>2. ASSUME NEW n \in Nat, n \in A PROVE n + 1 \in A
  <2>1. PICK g : IsRun(g, S, step, from, n)
    BY <1>2
  <2> DEFINE h == [k \in 0 .. n + 1 |-> IF k = n + 1 THEN step[g[n]] ELSE g[k]]
  <2>2. h \in [0 .. n + 1 -> S]
    BY <2>1 DEF IsRun
  <2>3. h[0] = from
    BY <2>1 DEF IsRun
  <2>4. ASSUME NEW k \in 1 .. n + 1 PROVE h[k] = step[h[k - 1]]
    <3>1. CASE k = n + 1
      BY <3>1, <2>1
    <3>2. CASE k # n + 1
      <4>1. k \in 1 .. n /\ k - 1 \in 0 .. n + 1 /\ k - 1 # n + 1 /\ k \in 0 .. n + 1
        BY <3>2
      <4>2. h[k] = g[k] /\ h[k - 1] = g[k - 1]
        BY <4>1, <3>2
      <4>3. QED BY <4>1, <4>2, <2>1 DEF IsRun
    <3>3. QED BY <3>1, <3>2
  <2>5. IsRun(h, S, step, from, n + 1)
    BY <2>2, <2>3, <2>4 DEF IsRun
  <2>6. QED BY <2>5
<1> HIDE DEF A
<1>3. most \in A
  BY <1>1, <1>2, Induction
<1>4. QED BY <1>3 DEF A

\* Loop is the last state of such a run.
LEMMA LoopIsRun ==
  ASSUME NEW S, NEW step, NEW from, NEW most, IsLoop(S, step, from, most)
  PROVE  \E g : IsRun(g, S, step, from, most) /\ Loop(step, from, most) = g[most]
<1>1. PICK g : IsRun(g, S, step, from, most)
  BY RunExists
<1> USE DEF IsLoop
<1> DEFINE Is(f) == f = [k \in 0 .. most |-> IF k = 0 THEN from ELSE step[f[k - 1]]]
           after == CHOOSE f : Is(f)
<1>2. Is(g)
  BY <1>1 DEF IsRun
<1>3. Is(after)
  BY <1>2, Zenon
<1>4. Loop(step, from, most) = after[most]
  BY DEF Loop
<1> HIDE DEF after
<1> DEFINE Same(k) == after[k] = g[k]
           A == {k \in Nat : k <= most => Same(k)}
<1>5. Same(0)
  BY <1>3, <1>1 DEF IsRun
<1>6. ASSUME NEW k \in Nat, Same(k), k + 1 <= most PROVE Same(k + 1)
  <2>1. after[k + 1] = step[after[k]]
    BY <1>3, <1>6
  <2>2. QED BY <2>1, <1>6, <1>1 DEF IsRun
<1> HIDE DEF Same
<1>7. 0 \in A /\ \A k \in Nat : k \in A => k + 1 \in A
  BY <1>5, <1>6
<1> HIDE DEF A
<1>8. most \in A
  BY <1>7, Induction
<1>9. QED BY <1>8, <1>4, <1>1 DEF A, Same

\* Every iteration keeps Inv and makes left smaller, which is at most `most` at first.
Ends(S, step, from, most, Inv, left) ==
  /\ IsLoop(S, step, from, most) /\ Inv \subseteq S /\ left \in [S -> Int]
  /\ from \in Inv /\ left[from] <= most
  /\ \A s \in Inv : step[s] \in Inv /\ left[s] >= 0 /\ (step[s] = s \/ left[step[s]] < left[s])

\* The rule for a loop: what an iteration keeps holds at its end, and it has ended.
LEMMA LoopRule ==
  ASSUME NEW S, NEW step, NEW from, NEW most, NEW Inv, NEW left,
         Ends(S, step, from, most, Inv, left)
  PROVE  /\ Loop(step, from, most) \in Inv
         /\ step[Loop(step, from, most)] = Loop(step, from, most)
<1>1. /\ IsLoop(S, step, from, most) /\ from \in Inv /\ left[from] <= most /\ most \in Nat
      /\ \A s \in Inv : /\ step[s] \in Inv /\ left[s] >= 0 /\ left[s] \in Int
                        /\ step[s] = s \/ left[step[s]] < left[s]
  BY DEF Ends, IsLoop
<1>2. PICK g : IsRun(g, S, step, from, most) /\ Loop(step, from, most) = g[most]
  BY <1>1, LoopIsRun
<1>3. g[0] = from /\ \A k \in Nat : k + 1 <= most => g[k + 1] = step[g[k]]
  BY <1>1, <1>2 DEF IsRun
<1> DEFINE Good(k) == g[k] \in Inv /\ (step[g[k]] = g[k] \/ left[g[k]] + k <= most)
           A == {k \in Nat : k <= most => Good(k)}
<1>4. Good(0)
  BY <1>1, <1>3
<1>5. ASSUME NEW k \in Nat, Good(k), k + 1 <= most PROVE Good(k + 1)
  <2>1. g[k + 1] = step[g[k]]
    BY <1>3, <1>5
  <2>2. CASE step[g[k]] = g[k]
    BY <1>5, <2>1, <2>2
  <2>3. CASE step[g[k]] # g[k] /\ left[g[k]] + k <= most
    <3> DEFINE now == left[g[k]]
               next == left[step[g[k]]]
    <3>1. step[g[k]] \in Inv /\ next < now
      BY <1>1, <1>5, <2>3
    <3>2. now \in Int /\ next \in Int
      BY <1>1, <1>5, <3>1
    <3> HIDE DEF now, next
    <3>3. next + (k + 1) <= most
      BY <1>1, <3>1, <3>2, <2>3 DEF now
    <3>4. QED BY <3>1, <3>3, <2>1 DEF next
  <2>4. QED BY <1>5, <2>2, <2>3
<1> HIDE DEF Good
<1>6. 0 \in A /\ \A k \in Nat : k \in A => k + 1 \in A
  BY <1>1, <1>4, <1>5
<1> HIDE DEF A
<1>7. most \in A
  BY <1>1, <1>6, Induction
<1>8. Good(most)
  BY <1>1, <1>7 DEF A
<1> DEFINE s == g[most]
<1>9. s \in Inv /\ (step[s] = s \/ left[s] + most <= most)
  BY <1>8 DEF Good
<1> HIDE DEF s
<1>10. step[s] = s
  BY <1>1, <1>9
<1>11. QED BY <1>9, <1>10, <1>2 DEF s

\* Inv[k] holds after k iterations.
Counts(S, step, from, most, Inv) ==
  /\ IsLoop(S, step, from, most) /\ from \in Inv[0]
  /\ \A k \in Nat : \A s \in S : k < most /\ s \in Inv[k] => step[s] \in Inv[k + 1]

\* The rule for a loop that always makes all its iterations.
LEMMA LoopCount ==
  ASSUME NEW S, NEW step, NEW from, NEW most, NEW Inv, Counts(S, step, from, most, Inv)
  PROVE  Loop(step, from, most) \in S /\ Loop(step, from, most) \in Inv[most]
<1>1. /\ IsLoop(S, step, from, most) /\ from \in Inv[0] /\ most \in Nat
      /\ \A k \in Nat : \A s \in S : k < most /\ s \in Inv[k] => step[s] \in Inv[k + 1]
  BY DEF Counts, IsLoop
<1>2. PICK g : IsRun(g, S, step, from, most) /\ Loop(step, from, most) = g[most]
  BY <1>1, LoopIsRun
<1>3. /\ g[0] = from /\ \A k \in Nat : k + 1 <= most => g[k + 1] = step[g[k]]
      /\ \A k \in Nat : k <= most => g[k] \in S
  BY <1>1, <1>2 DEF IsRun
<1> DEFINE A == {k \in Nat : k <= most => g[k] \in Inv[k]}
<1>4. 0 \in A
  BY <1>1, <1>3
<1>5. ASSUME NEW k \in Nat, k \in A PROVE k + 1 \in A
  <2>1. SUFFICES ASSUME k + 1 <= most PROVE g[k + 1] \in Inv[k + 1]
    OBVIOUS
  <2>2. k < most /\ g[k] \in S /\ g[k] \in Inv[k] /\ g[k + 1] = step[g[k]]
    BY <1>1, <1>3, <1>5, <2>1
  <2>3. QED BY <1>1, <2>2
<1> HIDE DEF A
<1>6. most \in A
  BY <1>1, <1>4, <1>5, Induction
<1>7. QED BY <1>1, <1>2, <1>3, <1>6 DEF A

\* One more iteration.
LEMMA LoopNext ==
  ASSUME NEW S, NEW step, NEW from, NEW n, IsLoop(S, step, from, n)
  PROVE  /\ Loop(step, from, 0) = from
         /\ Loop(step, from, n) \in S
         /\ Loop(step, from, n + 1) = step[Loop(step, from, n)]
<1>1. IsLoop(S, step, from, 0) /\ IsLoop(S, step, from, n + 1) /\ n \in Nat
  BY DEF IsLoop
<1>2. PICK f : IsRun(f, S, step, from, 0) /\ Loop(step, from, 0) = f[0]
  BY <1>1, LoopIsRun
<1>3. PICK g : IsRun(g, S, step, from, n) /\ Loop(step, from, n) = g[n]
  BY LoopIsRun
<1>4. PICK h : IsRun(h, S, step, from, n + 1) /\ Loop(step, from, n + 1) = h[n + 1]
  BY <1>1, LoopIsRun
<1>5. /\ g[0] = from /\ \A k \in Nat : k + 1 <= n => g[k + 1] = step[g[k]]
      /\ h[0] = from /\ \A k \in Nat : k <= n => h[k + 1] = step[h[k]]
  BY <1>1, <1>3, <1>4 DEF IsRun
<1> DEFINE A == {k \in Nat : k <= n => g[k] = h[k]}
<1>6. 0 \in A /\ \A k \in Nat : k \in A => k + 1 \in A
  BY <1>1, <1>5
<1> HIDE DEF A
<1>7. n \in A
  BY <1>1, <1>6, Induction
<1>8. g[n] = h[n] /\ h[n + 1] = step[h[n]]
  BY <1>1, <1>5, <1>7 DEF A
<1>9. QED BY <1>1, <1>2, <1>3, <1>4, <1>8 DEF IsRun

----------------------------------------------------------------------------
(* Powers of two.                                                          *)

\* The recursion of Pow2, over the natural numbers.
LEMMA PowIs ==
  /\ Pow2[0] = 1
  /\ \A k \in Nat : Pow2[k] \in Nat /\ Pow2[k] >= 1 /\ Pow2[k + 1] = 2 * Pow2[k]
<1> DEFINE double == [x \in Nat |-> 2 * x]
           f == [k \in Nat |-> Loop(double, 1, k)]
           Is(g) == g = [k \in Nat |-> IF k = 0 THEN 1 ELSE 2 * g[k - 1]]
<1>1. double \in [Nat -> Nat]
  OBVIOUS
<1> HIDE DEF double
<1>2. \A n \in Nat : /\ Loop(double, 1, 0) = 1
                     /\ Loop(double, 1, n) \in Nat
                     /\ Loop(double, 1, n + 1) = double[Loop(double, 1, n)]
  <2>1. \A n \in Nat : IsLoop(Nat, double, 1, n)
    BY <1>1 DEF IsLoop
  <2>2. QED BY <2>1, LoopNext
<1>3. \A n \in Nat : Loop(double, 1, n + 1) = 2 * Loop(double, 1, n)
  BY <1>2 DEF double
<1>4. Is(f)
  <2>1. \A k \in Nat : k # 0 => k - 1 \in Nat /\ k - 1 + 1 = k
    OBVIOUS
  <2>2. ASSUME NEW k \in Nat PROVE f[k] = IF k = 0 THEN 1 ELSE 2 * f[k - 1]
    BY <1>2, <1>3, <2>1
  <2>3. QED BY <2>2
<1> HIDE DEF f
<1>5. Is(Pow2)
  BY <1>4, Zenon DEF Pow2
<1>6. Pow2[0] = 1 /\ \A k \in Nat : Pow2[k + 1] = 2 * Pow2[k]
  BY <1>5
<1> DEFINE A == {k \in Nat : Pow2[k] \in Nat /\ Pow2[k] >= 1}
<1>7. 0 \in A
  BY <1>6
<1>8. \A k \in Nat : k \in A => k + 1 \in A
  BY <1>6
<1> HIDE DEF A
<1>9. \A k \in Nat : k \in A
  BY <1>7, <1>8, Induction
<1>10. QED BY <1>6, <1>9 DEF A

\* A power of two is twice the one before.
LEMMA PowDown ==
  ASSUME NEW k \in Nat, k >= 1
  PROVE  k - 1 \in Nat /\ Pow2[k] = 2 * Pow2[k - 1] /\ Pow2[k - 1] \in Nat /\ Pow2[k - 1] >= 1
<1>1. k - 1 \in Nat /\ k = (k - 1) + 1
  OBVIOUS
<1>2. QED BY <1>1, PowIs

\* A sum of exponents is a product of powers.
LEMMA PowSum ==
  ASSUME NEW a \in Nat, NEW b \in Nat
  PROVE  Pow2[a + b] = Pow2[a] * Pow2[b]
<1> DEFINE A == {k \in Nat : Pow2[a + k] = Pow2[a] * Pow2[k]}
<1>1. 0 \in A
  BY PowIs
<1>2. ASSUME NEW k \in Nat, k \in A PROVE k + 1 \in A
  <2>1. a + k \in Nat /\ a + (k + 1) = (a + k) + 1
    OBVIOUS
  <2>2. Pow2[a + (k + 1)] = 2 * Pow2[a + k] /\ Pow2[k + 1] = 2 * Pow2[k] /\ Pow2[a] \in Nat /\ Pow2[k] \in Nat
    BY <2>1, PowIs
  <2>3. 2 * (Pow2[a] * Pow2[k]) = Pow2[a] * (2 * Pow2[k])
    BY <2>2
  <2>4. QED BY <2>2, <2>3, <1>2
<1> HIDE DEF A
<1>3. b \in A
  BY <1>1, <1>2, Induction
<1>4. QED BY <1>3 DEF A

Exponents(a, b, c) == a \in Nat /\ b \in Nat /\ c = a + b

\* The same for an exponent known to be the sum of two.
LEMMA PowAdd ==
  ASSUME NEW a, NEW b, NEW c, Exponents(a, b, c)
  PROVE  Pow2[c] = Pow2[a] * Pow2[b]
BY PowSum DEF Exponents

\* Powers grow with their exponents.
LEMMA PowOrder ==
  ASSUME NEW a \in Nat, NEW b \in Nat
  PROVE  /\ a <= b => Pow2[a] <= Pow2[b]
         /\ a < b => 2 * Pow2[a] <= Pow2[b]
         /\ Pow2[a] < Pow2[b] => a < b
         /\ Pow2[a] = Pow2[b] => a = b
<1>1. ASSUME NEW x \in Nat, NEW y \in Nat, x <= y PROVE Pow2[x] <= Pow2[y]
  <2>1. y - x \in Nat /\ y = x + (y - x)
    BY <1>1
  <2>2. Pow2[y] = Pow2[x] * Pow2[y - x]
    BY <2>1, PowSum
  <2>3. Pow2[x] \in Nat /\ Pow2[y - x] \in Nat /\ Pow2[y - x] >= 1
    BY <2>1, PowIs
  <2>4. \A m, n \in Nat : n >= 1 => m <= m * n
    OBVIOUS
  <2>5. QED BY <2>2, <2>3, <2>4
<1>2. ASSUME NEW x \in Nat, NEW y \in Nat, x < y PROVE 2 * Pow2[x] <= Pow2[y]
  <2>1. Pow2[x + 1] = 2 * Pow2[x]
    BY PowIs
  <2>2. QED BY <2>1, <1>1, <1>2
<1>3. Pow2[a] \in Nat /\ Pow2[b] \in Nat /\ Pow2[a] >= 1 /\ Pow2[b] >= 1
  BY PowIs
<1>4. a < b \/ b < a \/ a = b
  OBVIOUS
<1>5. (a < b => 2 * Pow2[a] <= Pow2[b]) /\ (b < a => 2 * Pow2[b] <= Pow2[a])
  BY <1>2
<1>6. (a <= b => Pow2[a] <= Pow2[b]) /\ (b <= a => Pow2[b] <= Pow2[a])
  BY <1>1
<1>7. QED BY <1>3, <1>4, <1>5, <1>6

\* A power is larger than its exponent, and at least twice as large.
LEMMA PowIsLarge == \A k \in Nat : Pow2[k] >= k + 1 /\ (k >= 1 => Pow2[k] >= 2 * k)
<1> DEFINE A == {k \in Nat : Pow2[k] >= k + 1 /\ (k >= 1 => Pow2[k] >= 2 * k)}
<1>1. 0 \in A
  BY PowIs
<1>2. ASSUME NEW k \in Nat, k \in A PROVE k + 1 \in A
  <2>1. Pow2[k + 1] = 2 * Pow2[k] /\ Pow2[k] \in Nat
    BY PowIs
  <2>2. QED BY <2>1, <1>2
<1> HIDE DEF A
<1>3. \A k \in Nat : k \in A
  BY <1>1, <1>2, Induction
<1>4. QED BY <1>3 DEF A

----------------------------------------------------------------------------
(* Quotients and remainders.                                               *)

\* What / and % of C say of each other.
LEMMA DivMod ==
  ASSUME NEW a \in Int, NEW b \in Nat, b >= 1
  PROVE  /\ a \div b \in Int /\ a % b \in Nat /\ a % b < b
         /\ a = ((a \div b) * b) + (a % b)
         /\ a >= 0 => a \div b \in Nat
OBVIOUS

Euclid(a, b, q, r) ==
  /\ a \in Int /\ b \in Nat /\ b >= 1 /\ q \in Int /\ r \in Int
  /\ 0 <= r /\ r < b /\ a = (q * b) + r

\* Quotient and remainder are known by what they satisfy.
LEMMA DivIs ==
  ASSUME NEW a, NEW b, NEW q, NEW r, Euclid(a, b, q, r)
  PROVE  a \div b = q /\ a % b = r
BY DEF Euclid

\* A multiple of the divisor does not change the remainder.
LEMMA ModOf ==
  ASSUME NEW a \in Int, NEW k \in Int, NEW b \in Nat, b >= 1
  PROVE  (a + (k * b)) % b = a % b
<1>1. a \div b \in Int /\ a % b \in Nat /\ a % b < b /\ a = ((a \div b) * b) + (a % b)
  BY DivMod
<1> DEFINE q == a \div b
           r == a % b
<1> HIDE DEF q, r
<1>2. a + (k * b) = ((q + k) * b) + r
  BY <1>1 DEF q, r
<1>3. q + k \in Int /\ r \in Int /\ 0 <= r /\ r < b /\ a + (k * b) \in Int
  BY <1>1 DEF q, r
<1>4. (a + (k * b)) % b = r
  <2>1. Euclid(a + (k * b), b, q + k, r)
    BY <1>2, <1>3 DEF Euclid
  <2>2. QED BY <2>1, DivIs
<1>5. QED BY <1>4 DEF r

\* Numbers that differ by a multiple of b.
LEMMA SameMod ==
  ASSUME NEW x \in Int, NEW y \in Int, NEW b \in Nat, b >= 1
  PROVE  /\ (x % b = y % b) <=> \E k \in Int : x = y + (k * b)
         /\ \E k \in Int : x % b = x + (k * b)
<1>1. \A k \in Int : x = y + (k * b) => x % b = y % b
  BY ModOf
<1>2. /\ x \div b \in Int /\ x % b \in Nat /\ x = ((x \div b) * b) + (x % b)
      /\ y \div b \in Int /\ y % b \in Nat /\ y = ((y \div b) * b) + (y % b)
  BY DivMod
<1> DEFINE m == x \div b
           n == y \div b
<1>3. m \in Int /\ n \in Int /\ m - n \in Int /\ 0 - m \in Int
  BY <1>2
<1> HIDE DEF m, n
<1>4. x % b = y % b => x = y + ((m - n) * b)
  BY <1>2, <1>3 DEF m, n
<1>5. x % b = x + ((0 - m) * b)
  BY <1>2, <1>3 DEF m
<1>6. QED BY <1>1, <1>3, <1>4, <1>5

Divisors(x, a, b) == x \in Nat /\ a \in Nat /\ b \in Nat /\ a >= 1 /\ b >= 1

\* Two divisions are one by the product.
LEMMA DivDiv ==
  ASSUME NEW x, NEW a, NEW b, Divisors(x, a, b)
  PROVE  /\ (x \div a) \div b = x \div (a * b)
         /\ x < a * b => x \div a < b
<1>1. x \div a \in Int /\ x % a \in Nat /\ x % a < a /\ x = ((x \div a) * a) + (x % a)
  BY DivMod DEF Divisors
<1> USE DEF Divisors
<1> DEFINE y == x \div a
           r == x % a
           z == y \div b
           s == y % b
<1> HIDE DEF y, r
<1>2. y \in Int /\ r \in Nat /\ r < a /\ x = (y * a) + r
  BY <1>1 DEF y, r
<1>3. z \in Int /\ s \in Nat /\ s < b /\ y = (z * b) + s
  BY <1>2, DivMod
<1> HIDE DEF z, s
<1>4. x = (z * (a * b)) + ((s * a) + r)
  BY <1>2, <1>3
<1>5. (s * a) + r < a * b
  <2>1. s + 1 <= b
    BY <1>3
  <2>2. (s + 1) * a <= b * a
    BY <1>3, <2>1
  <2>3. (s + 1) * a = (s * a) + a /\ b * a = a * b
    BY <1>3
  <2>4. s * a \in Nat /\ a * b \in Nat
    BY <1>3
  <2>5. QED BY <2>2, <2>3, <2>4, <1>2
<1>6. a * b \in Nat /\ a * b >= 1 /\ s * a \in Nat
  BY <1>3
<1>7. x \div (a * b) = z
  <2>1. Euclid(x, a * b, z, (s * a) + r)
    BY <1>2, <1>3, <1>4, <1>5, <1>6 DEF Euclid
  <2>2. QED BY <2>1, DivIs
<1>8. x < a * b => y < b
  <2>1. SUFFICES ASSUME x < a * b, y >= b PROVE FALSE
    BY <1>2
  <2>2. y * a >= b * a
    BY <2>1, <1>2
  <2>3. y * a \in Int /\ b * a = a * b
    BY <1>2
  <2>4. QED BY <2>1, <2>2, <2>3, <1>2, <1>6
<1>9. QED BY <1>7, <1>8 DEF z, y

----------------------------------------------------------------------------
(* Words and double words.                                                 *)

\* The sizes of words and double words, which are powers of two.
LEMMA Sizes ==
  /\ Bits \in Nat /\ Bits >= 2
  /\ WordMod \in Nat /\ DwordMod \in Nat /\ DwordMod = WordMod * WordMod
  /\ WordMod >= 4 /\ WordMod >= 2 * Bits
  /\ WordMod = 2 * Pow2[Bits - 1] /\ DwordMod = 2 * Pow2[2 * Bits - 1]
<1>1. PICK e \in 1 .. Bits : Bits = Pow2[e] /\ Bits \in Nat
  BY ArithmeticAssumption DEF ArithmeticAssumption
<1>2. Bits = 2 * Pow2[e - 1] /\ Pow2[e - 1] \in Nat /\ Pow2[e - 1] >= 1
  BY <1>1, PowDown
<1>3. Bits >= 2 /\ 2 * Bits \in Nat /\ 2 * Bits = Bits + Bits /\ 2 * Bits >= 1
  BY <1>1, <1>2
<1>4. DwordMod = WordMod * WordMod
  BY <1>1, <1>3, PowSum DEF WordMod, DwordMod
<1>5. WordMod \in Nat /\ DwordMod \in Nat
  BY <1>1, <1>3, PowIs DEF WordMod, DwordMod
<1>6. WordMod >= 2 * Bits
  BY <1>1, <1>3, PowIsLarge DEF WordMod
<1>7. WordMod = 2 * Pow2[Bits - 1] /\ DwordMod = 2 * Pow2[2 * Bits - 1]
  BY <1>1, <1>3, PowDown DEF WordMod, DwordMod
<1>8. QED BY <1>1, <1>3, <1>4, <1>5, <1>6, <1>7

\* Half of an even number.
LEMMA HalfOf == \A h \in Nat : (2 * h) \div 2 = h
OBVIOUS

\* A double word is its two words.
LEMMA Words ==
  ASSUME NEW d \in 0 .. DwordMod - 1
  PROVE  /\ Hi(d) \in 0 .. WordMod - 1 /\ Lo(d) \in 0 .. WordMod - 1
         /\ d = Dword(Hi(d), Lo(d))
<1>1. d \in Nat /\ d < WordMod * WordMod /\ WordMod \in Nat /\ WordMod >= 1
  BY Sizes
<1>2. d \div WordMod < WordMod
  <2>1. Divisors(d, WordMod, WordMod)
    BY <1>1 DEF Divisors
  <2>2. QED BY <1>1, <2>1, DivDiv
<1>3. QED BY <1>1, <1>2, DivMod DEF Hi, Lo, Dword

\* The two words of what Dword puts together.
LEMMA DwordIs ==
  ASSUME NEW h \in 0 .. WordMod - 1, NEW l \in 0 .. WordMod - 1
  PROVE  /\ Dword(h, l) \in 0 .. DwordMod - 1
         /\ Hi(Dword(h, l)) = h /\ Lo(Dword(h, l)) = l
<1>1. WordMod \in Nat /\ WordMod >= 1 /\ DwordMod = WordMod * WordMod
  BY Sizes
<1>2. h * WordMod \in Nat /\ (h + 1) * WordMod <= WordMod * WordMod /\ (h + 1) * WordMod = (h * WordMod) + WordMod
  BY <1>1
<1>3. Dword(h, l) = (h * WordMod) + l /\ Dword(h, l) \in Nat /\ Dword(h, l) < DwordMod
  BY <1>1, <1>2 DEF Dword
<1>4. Hi(Dword(h, l)) = h /\ Lo(Dword(h, l)) = l
  <2>1. Euclid(Dword(h, l), WordMod, h, l)
    BY <1>1, <1>3 DEF Euclid
  <2>2. QED BY <2>1, DivIs DEF Hi, Lo
<1>5. QED BY <1>3, <1>4, Sizes

\* The place of the first bit of x.
IsTop(x, j) == j \in Nat /\ Pow2[j] <= x /\ x < Pow2[j + 1]

\* A number has one first bit.
LEMMA TopUnique ==
  ASSUME NEW x \in Nat, NEW i \in Nat, NEW j \in Nat, IsTop(x, i), IsTop(x, j)
  PROVE  i = j
<1>1. Pow2[i] \in Nat /\ Pow2[j] \in Nat /\ Pow2[i + 1] \in Nat /\ Pow2[j + 1] \in Nat
  BY PowIs
<1>2. Pow2[i] < Pow2[j + 1] /\ Pow2[j] < Pow2[i + 1]
  BY <1>1 DEF IsTop
<1>3. i < j + 1 /\ j < i + 1
  BY <1>2, PowOrder
<1>4. QED BY <1>3

\* What is left to look at in a search for the first bit of x is x without its last
\* bits.
Dropped(s) == Bits - s.width - s.zeros
ClzInv(x, s) ==
  /\ \E e \in Nat : e >= 1 /\ s.width = Pow2[e]
  /\ Dropped(s) \in Nat /\ s.x = x \div Pow2[Dropped(s)]
  /\ s.x >= 1 /\ s.x < Pow2[s.width]

\* A width that is a power of two and not one halves to another.
LEMMA HalfWidth ==
  ASSUME NEW w, w > 2, \E e \in Nat : e >= 1 /\ w = Pow2[e]
  PROVE  /\ w \div 2 \in Nat /\ w \div 2 >= 1 /\ w = (w \div 2) + (w \div 2)
         /\ \E e \in Nat : e >= 1 /\ w \div 2 = Pow2[e]
         /\ Pow2[w] = Pow2[w \div 2] * Pow2[w \div 2]
         /\ Pow2[w \div 2] \in Nat /\ Pow2[w \div 2] >= 1
<1>1. PICK e \in Nat : e >= 1 /\ w = Pow2[e]
  OBVIOUS
<1> DEFINE half == Pow2[e - 1]
<1>2. e - 1 \in Nat /\ w = 2 * half /\ half \in Nat /\ half >= 1
  BY <1>1, PowDown
<1>3. w \div 2 = half /\ w = half + half
  BY <1>2
<1>4. e - 1 # 0
  <2>1. e - 1 = 0 => half = 1
    BY PowIs
  <2>2. QED BY <2>1, <1>2
<1>5. Pow2[half + half] = Pow2[half] * Pow2[half] /\ Pow2[half] \in Nat /\ Pow2[half] >= 1
  BY <1>2, PowSum, PowIs
<1>6. \E i \in Nat : i >= 1 /\ half = Pow2[i]
  BY <1>2, <1>4
<1> HIDE DEF half
<1>7. QED BY <1>2, <1>3, <1>5, <1>6

\* A step of the search for the first bit keeps it inside the part looked at.
LEMMA ClzKept ==
  ASSUME NEW x \in Nat, NEW s \in Search, ClzInv(x, s)
  PROVE  /\ clzStep[s] \in Search /\ ClzInv(x, clzStep[s])
         /\ clzStep[s] = s \/ clzStep[s].width < s.width
<1> DEFINE half == s.width \div 2
<1>1. s.x \in Nat /\ s.width \in Nat /\ s.zeros \in Nat /\ Dropped(s) \in Nat /\ Bits \in Nat
  BY Sizes DEF ClzInv, Search
<1>2. CASE s.width <= 2
  BY <1>2 DEF clzStep
<1>3. CASE s.width > 2
  <2>1. /\ half \in Nat /\ half >= 1 /\ s.width = half + half
        /\ \E e \in Nat : e >= 1 /\ half = Pow2[e]
        /\ Pow2[s.width] = Pow2[half] * Pow2[half] /\ Pow2[half] \in Nat /\ Pow2[half] >= 1
    BY <1>3, HalfWidth DEF ClzInv
  <2>2. clzStep[s] = IF srl(s.x, half) = 0 THEN [x |-> s.x, width |-> half, zeros |-> s.zeros + half]
                     ELSE [x |-> srl(s.x, half), width |-> half, zeros |-> s.zeros]
    BY <1>1, <1>3 DEF clzStep
  <2> HIDE DEF half
  <2>3. srl(s.x, half) \in Nat /\ srl(s.x, half) < Pow2[half]
    <3>1. Divisors(s.x, Pow2[half], Pow2[half]) /\ s.x < Pow2[half] * Pow2[half]
      BY <1>1, <2>1 DEF Divisors, ClzInv
    <3>2. QED BY <1>1, <2>1, <3>1, DivDiv, DivMod DEF srl
  <2>4. CASE srl(s.x, half) = 0
    <3> DEFINE t == [x |-> s.x, width |-> half, zeros |-> s.zeros + half]
    <3>1. clzStep[s] = t /\ t \in Search /\ t.x = s.x /\ t.width = half
      BY <1>1, <2>1, <2>2, <2>4 DEF Search
    <3>2. Dropped(t) = Dropped(s)
      BY <1>1, <2>1 DEF Dropped
    <3>3. s.x < Pow2[half]
      <4> DEFINE p == Pow2[half]
      <4>1. p \in Nat /\ p >= 1 /\ s.x \div p = 0
        BY <2>1, <2>4 DEF srl
      <4> HIDE DEF p
      <4>2. s.x < p
        BY <4>1, <1>1
      <4>3. QED BY <4>2 DEF p
    <3> HIDE DEF t
    <3>4. ClzInv(x, t)
      BY <3>1, <3>2, <3>3, <2>1 DEF ClzInv
    <3>5. QED BY <3>1, <3>4, <2>1
  <2>5. CASE srl(s.x, half) # 0
    <3> DEFINE t == [x |-> srl(s.x, half), width |-> half, zeros |-> s.zeros]
    <3>1. clzStep[s] = t /\ t \in Search /\ t.x = srl(s.x, half) /\ t.width = half
      BY <1>1, <2>1, <2>2, <2>3, <2>5 DEF Search
    <3>2. Dropped(t) = Dropped(s) + half
      BY <1>1, <2>1 DEF Dropped
    <3> HIDE DEF t
    <3>3. t.x = x \div Pow2[Dropped(s) + half]
      <4>1. /\ Pow2[Dropped(s)] \in Nat /\ Pow2[Dropped(s)] >= 1
            /\ Pow2[Dropped(s) + half] = Pow2[Dropped(s)] * Pow2[half]
        BY <1>1, <2>1, PowIs, PowSum
      <4>2. s.x = x \div Pow2[Dropped(s)]
        BY DEF ClzInv
      <4>3. Divisors(x, Pow2[Dropped(s)], Pow2[half])
        BY <4>1, <2>1 DEF Divisors
      <4>4. QED BY <4>1, <4>2, <4>3, <3>1, DivDiv DEF srl
    <3>4. ClzInv(x, t)
      BY <3>1, <3>2, <3>3, <2>1, <2>3, <2>5, <1>1 DEF ClzInv
    <3>5. QED BY <3>1, <3>4, <2>1
  <2>6. QED BY <2>4, <2>5
<1>4. QED BY <1>1, <1>2, <1>3

\* Both searches start with a whole word.
LEMMA SearchStart ==
  ASSUME NEW x \in 1 .. WordMod - 1
  PROVE  /\ SearchIn(x) \in Search /\ SearchIn(x).x = x
         /\ SearchIn(x).width = Bits /\ SearchIn(x).zeros = 0
         /\ x < Pow2[Bits] /\ Pow2[0] = 1 /\ Bits \in Nat
         /\ \E e \in Nat : e >= 1 /\ Bits = Pow2[e]
<1>1. x \in Nat /\ x < Pow2[Bits] /\ Pow2[0] = 1 /\ Bits \in Nat
  BY PowIs, Sizes DEF WordMod
<1>2. SearchIn(x) \in Search /\ SearchIn(x).x = x /\ SearchIn(x).width = Bits /\ SearchIn(x).zeros = 0
  BY <1>1 DEF Search, SearchIn
<1>3. \E e \in Nat : e >= 1 /\ Bits = Pow2[e]
  BY ArithmeticAssumption DEF ArithmeticAssumption
<1>4. QED BY <1>1, <1>2, <1>3

\* clz counts the zeros before the first bit of a word (__clzsi2).
LEMMA ClzIs ==
  ASSUME NEW x \in 1 .. WordMod - 1
  PROVE  clz(x) \in 0 .. Bits - 1 /\ IsTop(x, Bits - 1 - clz(x))
<1> DEFINE from == SearchIn(x)
           Inv == {s \in Search : ClzInv(x, s)}
           left == [s \in Search |-> s.width]
           end == Loop(clzStep, from, Bits)
<1>0. /\ from \in Search /\ from.x = x /\ from.width = Bits /\ from.zeros = 0
      /\ x < Pow2[Bits] /\ Pow2[0] = 1 /\ Bits \in Nat
      /\ \E e \in Nat : e >= 1 /\ Bits = Pow2[e]
  BY SearchStart
<1> HIDE DEF from
<1>1. clzStep \in [Search -> Search]
  <2>1. SUFFICES ASSUME NEW s \in Search PROVE clzStep[s] \in Search
    BY DEF clzStep
  <2>2. s.x \in Nat /\ s.width \in Nat /\ s.zeros \in Nat /\ s.width \div 2 \in Nat
    BY DEF Search
  <2> DEFINE p == Pow2[s.width \div 2]
  <2>3. p \in Nat /\ p >= 1
    BY <2>2, PowIs
  <2> HIDE DEF p
  <2>4. s.x \div p \in Nat
    BY <2>2, <2>3
  <2>5. QED BY <2>2, <2>4 DEF clzStep, Search, srl, p
<1>2. ClzInv(x, from)
  <2>1. Dropped(from) = 0 /\ x \div 1 = x
    BY <1>0 DEF Dropped
  <2>2. QED BY <1>0, <2>1 DEF ClzInv
<1>3. \A s \in Inv : clzStep[s] \in Inv /\ left[s] >= 0 /\ (clzStep[s] = s \/ left[clzStep[s]] < left[s])
  <2>1. SUFFICES ASSUME NEW s \in Search, ClzInv(x, s)
                 PROVE  clzStep[s] \in Inv /\ left[s] >= 0 /\ (clzStep[s] = s \/ left[clzStep[s]] < left[s])
    OBVIOUS
  <2>2. x \in Nat /\ s.width >= 0
    BY DEF Search
  <2>3. QED BY <2>1, <2>2, ClzKept
<1>4. Ends(Search, clzStep, from, Bits, Inv, left)
  <2>1. left \in [Search -> Int] /\ left[from] <= Bits
    BY <1>0 DEF Search
  <2>2. from \in Inv /\ Inv \subseteq Search
    BY <1>0, <1>2
  <2> HIDE DEF Inv, left
  <2>3. QED BY <1>0, <1>1, <1>3, <2>1, <2>2 DEF Ends, IsLoop
<1>5. end \in Search /\ ClzInv(x, end) /\ clzStep[end] = end
  BY <1>4, LoopRule
<1> HIDE DEF end
<1>6. end.width = 2
  <2>1. PICK e \in Nat : e >= 1 /\ end.width = Pow2[e]
    BY <1>5 DEF ClzInv
  <2>2. end.width = 2 * Pow2[e - 1] /\ Pow2[e - 1] \in Nat /\ Pow2[e - 1] >= 1 /\ end.width \in Nat
    BY <2>1, PowDown
  <2>3. end.width <= 2
    <3>1. SUFFICES ASSUME end.width > 2 PROVE FALSE
      BY <2>2
    <3>2. clzStep[end].width = end.width \div 2
      BY <3>1, <2>2, <1>5 DEF clzStep
    <3>3. QED BY <3>1, <3>2, <2>2, <1>5
  <2>4. QED BY <2>2, <2>3
<1> DEFINE sh == Bits - 2 - end.zeros
<1>7. /\ end.x \in Nat /\ end.zeros \in Nat /\ sh \in Nat /\ end.x >= 1 /\ end.x < Pow2[2]
      /\ end.x = x \div Pow2[sh]
  BY <1>5, <1>6, Sizes DEF ClzInv, Dropped, Search
<1>8. Pow2[sh] \in Nat /\ Pow2[sh] >= 1 /\ Pow2[sh + 1] = 2 * Pow2[sh] /\ Pow2[(sh + 1) + 1] = 2 * Pow2[sh + 1]
  BY <1>7, PowIs
<1>9. Pow2[2] = 4
  <2>1. 1 + 1 = 2 /\ 0 + 1 = 1
    OBVIOUS
  <2>2. QED BY <2>1, PowIs
<1>10. clz(x) = end.zeros + IF end.x >= 2 THEN 0 ELSE 2 - end.x
  BY DEF clz, end, from
<1> HIDE DEF sh
<1>11. end.x * Pow2[sh] <= x /\ x < (end.x + 1) * Pow2[sh]
  <2> DEFINE p == Pow2[sh]
             q == end.x
  <2>1. p \in Nat /\ p >= 1 /\ x \in Nat /\ q \in Nat /\ q = x \div p
    BY <1>7, <1>8
  <2> HIDE DEF p, q
  <2>2. x = (q * p) + (x % p) /\ x % p \in Nat /\ x % p < p
    BY <2>1
  <2>3. (q + 1) * p = (q * p) + p /\ q * p \in Nat
    BY <2>1
  <2>4. q * p <= x /\ x < (q + 1) * p
    BY <2>1, <2>2, <2>3
  <2>5. QED BY <2>4 DEF p, q
<1>12. CASE end.x = 1
  <2>1. clz(x) = end.zeros + 1 /\ Bits - 1 - clz(x) = sh
    BY <1>10, <1>12, <1>7, Sizes DEF sh
  <2>2. QED BY <2>1, <1>7, <1>8, <1>11, <1>12, Sizes DEF IsTop, sh
<1>13. CASE end.x \in {2, 3}
  <2>1. clz(x) = end.zeros /\ Bits - 1 - clz(x) = sh + 1
    BY <1>10, <1>13, <1>7, Sizes DEF sh
  <2>2. 2 * Pow2[sh] <= x /\ x < 4 * Pow2[sh]
    BY <1>11, <1>13, <1>8
  <2>3. QED BY <2>1, <2>2, <1>7, <1>8, Sizes DEF IsTop, sh
<1>14. QED BY <1>7, <1>9, <1>12, <1>13

\* The zeros after the last bit of x.
IsLow(x, k) == k \in Nat /\ \E m \in Nat : x = m * Pow2[k] /\ m % 2 = 1

\* A number has one last bit.
LEMMA LowUnique ==
  ASSUME NEW x \in Nat, NEW k \in Nat, IsLow(x, k), NEW j \in Nat
  PROVE  (x % Pow2[j] = 0 /\ x % Pow2[j + 1] # 0) <=> j = k
<1>1. PICK m \in Nat : x = m * Pow2[k] /\ m % 2 = 1
  BY DEF IsLow
<1>2. ASSUME NEW i \in Nat, i <= k PROVE x % Pow2[i] = 0
  <2> DEFINE p == Pow2[i]
             q == Pow2[k - i]
  <2>1. Pow2[k] = p * q /\ p \in Nat /\ p >= 1 /\ q \in Nat
    <3>1. k - i \in Nat /\ i + (k - i) = k
      BY <1>2
    <3>2. Pow2[i + (k - i)] = p * q
      BY <3>1, PowSum
    <3>3. p \in Nat /\ p >= 1 /\ q \in Nat
      BY <3>1, PowIs
    <3>4. QED BY <3>1, <3>2, <3>3
  <2> HIDE DEF p, q
  <2>2. x = ((m * q) * p) + 0 /\ m * q \in Int
    BY <1>1, <2>1
  <2>3. Euclid(x, p, m * q, 0)
    BY <2>1, <2>2 DEF Euclid
  <2>4. QED BY <2>3, DivIs DEF p
<1>3. ASSUME NEW i \in Nat, i > k PROVE x % Pow2[i] # 0
  <2> DEFINE p == Pow2[k]
             q == Pow2[i - k - 1]
             z == x \div Pow2[i]
  <2>1. Pow2[i] = (2 * q) * p /\ p \in Nat /\ p >= 1 /\ q \in Nat /\ q >= 1
    <3>1. i - k \in Nat /\ i - k >= 1 /\ i = (i - k) + k
      BY <1>3
    <3>2. Pow2[i] = Pow2[i - k] * p
      BY <3>1, PowSum
    <3>3. Pow2[i - k] = 2 * q /\ q \in Nat /\ q >= 1
      BY <3>1, PowDown
    <3>4. QED BY <3>2, <3>3, PowIs
  <2>2. SUFFICES ASSUME x % Pow2[i] = 0 PROVE FALSE
    OBVIOUS
  <2>3. x = z * ((2 * q) * p) /\ z \in Int
    <3> DEFINE r == Pow2[i]
    <3>1. r \in Nat /\ r >= 1 /\ x % r = 0
      BY <2>2, PowIs
    <3> HIDE DEF r
    <3>2. x = (x \div r) * r /\ x \div r \in Int
      BY <3>1
    <3>3. QED BY <3>2, <2>1 DEF r
  <2> HIDE DEF p, q, z
  <2>4. m * p = ((z * q) * 2) * p /\ (z * q) * 2 \in Int
    BY <2>1, <2>3, <1>1 DEF p
  <2>5. m = (z * q) * 2
    <3>1. \A u, v \in Int : u * p = v * p => u = v
      BY <2>1
    <3>2. QED BY <3>1, <2>4
  <2>6. z * q \in Int
    BY <2>1, <2>3
  <2>7. QED BY <1>1, <2>5, <2>6
<1>4. CASE j = k
  BY <1>2, <1>3, <1>4
<1>5. CASE j < k
  BY <1>2, <1>5
<1>6. CASE j > k
  BY <1>3, <1>6
<1>7. QED BY <1>4, <1>5, <1>6

\* What is left to look at in a search for the last bit of x is x without the zeros
\* after it that were counted.
CtzInv(x, s) ==
  /\ \E e \in Nat : e >= 1 /\ s.width = Pow2[e]
  /\ s.zeros + s.width <= Bits /\ x = s.x * Pow2[s.zeros]
  /\ s.x % Pow2[s.width] # 0

\* A step of the search for the last bit keeps it inside the part looked at.
LEMMA CtzKept ==
  ASSUME NEW x \in Nat, NEW s \in Search, CtzInv(x, s)
  PROVE  /\ ctzStep[s] \in Search /\ CtzInv(x, ctzStep[s])
         /\ ctzStep[s] = s \/ ctzStep[s].width < s.width
<1> DEFINE half == s.width \div 2
<1>1. s.x \in Nat /\ s.width \in Nat /\ s.zeros \in Nat /\ Bits \in Nat
  BY Sizes DEF Search
<1>2. CASE s.width <= 2
  BY <1>2 DEF ctzStep
<1>3. CASE s.width > 2
  <2>1. /\ half \in Nat /\ half >= 1 /\ s.width = half + half
        /\ \E e \in Nat : e >= 1 /\ half = Pow2[e]
        /\ Pow2[s.width] = Pow2[half] * Pow2[half] /\ Pow2[half] \in Nat /\ Pow2[half] >= 1
    BY <1>3, HalfWidth DEF CtzInv
  <2>2. ctzStep[s] = IF s.x % Pow2[half] = 0 THEN [x |-> srl(s.x, half), width |-> half, zeros |-> s.zeros + half]
                     ELSE [x |-> s.x, width |-> half, zeros |-> s.zeros]
    BY <1>1, <1>3 DEF ctzStep
  <2> HIDE DEF half
  <2> DEFINE p == Pow2[half]
             y == s.x \div p
  <2>3. CASE s.x % p = 0
    <3> DEFINE t == [x |-> y, width |-> half, zeros |-> s.zeros + half]
    <3>1. y \in Nat /\ s.x = y * p
      <4> HIDE DEF p
      <4>1. p \in Nat /\ p >= 1
        BY <2>1 DEF p
      <4>2. QED BY <4>1, <1>1, <2>3
    <3>2. ctzStep[s] = t /\ t \in Search /\ t.x = y /\ t.width = half /\ t.zeros = s.zeros + half
      BY <1>1, <2>1, <2>2, <2>3, <3>1 DEF Search, srl
    <3>3. x = y * Pow2[s.zeros + half]
      <4>1. Pow2[s.zeros + half] = Pow2[s.zeros] * p /\ Pow2[s.zeros] \in Nat
        BY <1>1, <2>1, PowSum, PowIs
      <4>2. x = (y * p) * Pow2[s.zeros]
        BY <3>1 DEF CtzInv
      <4> HIDE DEF p, y
      <4>3. p \in Nat
        BY <2>1 DEF p
      <4>4. QED BY <4>1, <4>2, <4>3, <3>1
    <3>4. y % p # 0
      <4>1. SUFFICES ASSUME y % p = 0 PROVE FALSE
        OBVIOUS
      <4> HIDE DEF p, y
      <4>2. p \in Nat /\ p >= 1
        BY <2>1 DEF p
      <4>3. y = (y \div p) * p /\ y \div p \in Int
        BY <4>1, <4>2, <3>1
      <4> DEFINE z == y \div p
      <4>4. z \in Int /\ y = z * p
        BY <4>3
      <4> HIDE DEF z
      <4>5. s.x = (z * (p * p)) + 0 /\ p * p \in Nat /\ p * p >= 1
        BY <4>2, <4>4, <3>1
      <4>6. Euclid(s.x, p * p, z, 0)
        BY <4>4, <4>5, <1>1 DEF Euclid
      <4>7. s.x % (p * p) = 0
        BY <4>6, DivIs
      <4>8. QED BY <4>7, <2>1 DEF CtzInv, p
    <3> HIDE DEF t, y
    <3>5. CtzInv(x, t)
      BY <3>2, <3>3, <3>4, <2>1, <1>1 DEF CtzInv
    <3>6. QED BY <3>2, <3>5, <2>1
  <2>4. CASE s.x % p # 0
    <3> DEFINE t == [x |-> s.x, width |-> half, zeros |-> s.zeros]
    <3>1. ctzStep[s] = t /\ t \in Search /\ t.x = s.x /\ t.width = half /\ t.zeros = s.zeros
      BY <1>1, <2>1, <2>2, <2>4 DEF Search
    <3> HIDE DEF t
    <3>2. CtzInv(x, t)
      BY <3>1, <2>1, <2>4, <1>1 DEF CtzInv
    <3>3. QED BY <3>1, <3>2, <2>1
  <2>5. QED BY <2>3, <2>4
<1>4. QED BY <1>1, <1>2, <1>3

\* ctz counts the zeros after the last bit of a word (__ctzsi2).
LEMMA CtzIs ==
  ASSUME NEW x \in 1 .. WordMod - 1
  PROVE  ctz(x) \in 0 .. Bits - 1 /\ IsLow(x, ctz(x))
<1> DEFINE from == SearchIn(x)
           Inv == {s \in Search : CtzInv(x, s)}
           left == [s \in Search |-> s.width]
           end == Loop(ctzStep, from, Bits)
<1>0. /\ from \in Search /\ from.x = x /\ from.width = Bits /\ from.zeros = 0
      /\ x < Pow2[Bits] /\ Pow2[0] = 1 /\ Bits \in Nat
      /\ \E e \in Nat : e >= 1 /\ Bits = Pow2[e]
  BY SearchStart
<1> HIDE DEF from
<1>1. ctzStep \in [Search -> Search]
  <2>1. SUFFICES ASSUME NEW s \in Search PROVE ctzStep[s] \in Search
    BY DEF ctzStep
  <2>2. s.x \in Nat /\ s.width \in Nat /\ s.zeros \in Nat /\ s.width \div 2 \in Nat
    BY DEF Search
  <2> DEFINE p == Pow2[s.width \div 2]
  <2>3. p \in Nat /\ p >= 1
    BY <2>2, PowIs
  <2> HIDE DEF p
  <2>4. s.x \div p \in Nat
    BY <2>2, <2>3
  <2>5. QED BY <2>2, <2>4 DEF ctzStep, Search, srl, p
<1>2. CtzInv(x, from)
  <2> DEFINE p == Pow2[Bits]
  <2>1. x * Pow2[0] = x /\ p \in Nat
    BY <1>0, PowIs
  <2>2. x \in Nat /\ x >= 1 /\ x < p
    BY <1>0
  <2> HIDE DEF p
  <2>3. x % p = x
    BY <2>1, <2>2
  <2>4. QED BY <1>0, <2>1, <2>2, <2>3 DEF CtzInv, p
<1>3. \A s \in Inv : ctzStep[s] \in Inv /\ left[s] >= 0 /\ (ctzStep[s] = s \/ left[ctzStep[s]] < left[s])
  <2>1. SUFFICES ASSUME NEW s \in Search, CtzInv(x, s)
                 PROVE  ctzStep[s] \in Inv /\ left[s] >= 0 /\ (ctzStep[s] = s \/ left[ctzStep[s]] < left[s])
    OBVIOUS
  <2>2. x \in Nat /\ s.width >= 0
    BY DEF Search
  <2>3. QED BY <2>1, <2>2, CtzKept
<1>4. Ends(Search, ctzStep, from, Bits, Inv, left)
  <2>1. left \in [Search -> Int] /\ left[from] <= Bits
    BY <1>0 DEF Search
  <2>2. from \in Inv /\ Inv \subseteq Search
    BY <1>0, <1>2
  <2> HIDE DEF Inv, left
  <2>3. QED BY <1>0, <1>1, <1>3, <2>1, <2>2 DEF Ends, IsLoop
<1>5. end \in Search /\ CtzInv(x, end) /\ ctzStep[end] = end
  BY <1>4, LoopRule
<1> HIDE DEF end
<1>6. end.width = 2
  <2>1. PICK e \in Nat : e >= 1 /\ end.width = Pow2[e]
    BY <1>5 DEF CtzInv
  <2>2. end.width = 2 * Pow2[e - 1] /\ Pow2[e - 1] \in Nat /\ Pow2[e - 1] >= 1 /\ end.width \in Nat
    BY <2>1, PowDown
  <2>3. end.width <= 2
    <3>1. SUFFICES ASSUME end.width > 2 PROVE FALSE
      BY <2>2
    <3>2. ctzStep[end].width = end.width \div 2
      BY <3>1, <2>2, <1>5 DEF ctzStep
    <3>3. QED BY <3>1, <3>2, <2>2, <1>5
  <2>4. QED BY <2>2, <2>3
<1>7. Pow2[2] = 4
  <2>1. 1 + 1 = 2 /\ 0 + 1 = 1
    OBVIOUS
  <2>2. QED BY <2>1, PowIs
<1>8. /\ end.x \in Nat /\ end.zeros \in Nat /\ end.x % 4 # 0 /\ end.zeros + 2 <= Bits
      /\ x = end.x * Pow2[end.zeros]
  BY <1>5, <1>6, <1>7 DEF CtzInv, Search
<1>9. ctz(x) = end.zeros + IF end.x % 2 = 1 THEN 0 ELSE 2 - ((end.x % 4) \div 2)
  BY DEF ctz, end, from
<1>10. CASE end.x % 2 = 1
  <2>1. ctz(x) = end.zeros
    BY <1>8, <1>9, <1>10
  <2>2. QED BY <2>1, <1>8, <1>10, <1>0 DEF IsLow
<1>11. CASE end.x % 2 # 1
  <2> DEFINE m == end.x \div 2
  <2>1. m \in Nat /\ m % 2 = 1 /\ end.x = m * 2 /\ (end.x % 4) \div 2 = 1
    BY <1>8, <1>11
  <2>2. ctz(x) = end.zeros + 1
    BY <1>8, <1>9, <1>11, <2>1
  <2> HIDE DEF m
  <2>3. Pow2[end.zeros + 1] = 2 * Pow2[end.zeros] /\ Pow2[end.zeros] \in Nat
    BY <1>8, PowIs
  <2>4. x = m * Pow2[end.zeros + 1]
    BY <2>1, <2>3, <1>8
  <2>5. QED BY <2>1, <2>2, <2>4, <1>8, <1>0 DEF IsLow
<1>12. QED BY <1>10, <1>11

\* __clzdi2 and __ctzdi2 count the zeros of a double word: the places of its first
\* and of its last bit.
LEMMA ClzDwordIs ==
  ASSUME NEW b \in 1 .. DwordMod - 1
  PROVE  __clzdi2(b) \in 0 .. 2 * Bits - 1 /\ IsTop(b, 2 * Bits - 1 - __clzdi2(b))
<1> DEFINE h == Hi(b)
           l == Lo(b)
<1>1. h \in 0 .. WordMod - 1 /\ l \in 0 .. WordMod - 1 /\ b = (h * WordMod) + l
  BY Words DEF Dword
<1>2. Bits \in Nat /\ Bits >= 2 /\ WordMod \in Nat /\ WordMod = Pow2[Bits]
  BY Sizes DEF WordMod
<1> HIDE DEF h, l
<1>3. CASE h = 0
  <2>1. b = l /\ l \in 1 .. WordMod - 1
    BY <1>1, <1>2, <1>3
  <2>2. clz(l) \in 0 .. Bits - 1 /\ IsTop(l, Bits - 1 - clz(l))
    BY <2>1, ClzIs
  <2>3. __clzdi2(b) = clz(l) + Bits /\ clz(l) + Bits \in 0 .. 2 * Bits - 1
    BY <1>3, <2>2, <1>2 DEF __clzdi2, h, l
  <2>4. 2 * Bits - 1 - __clzdi2(b) = Bits - 1 - clz(l)
    BY <2>2, <2>3, <1>2
  <2>5. QED BY <2>1, <2>2, <2>3, <2>4
<1>4. CASE h # 0
  <2>1. h \in 1 .. WordMod - 1
    BY <1>1, <1>2, <1>4
  <2> DEFINE j == Bits - 1 - clz(h)
  <2>2. clz(h) \in 0 .. Bits - 1 /\ IsTop(h, j)
    BY <2>1, ClzIs
  <2>3. __clzdi2(b) = clz(h) /\ clz(h) \in 0 .. 2 * Bits - 1 /\ 2 * Bits - 1 - clz(h) = j + Bits
    BY <1>4, <2>2, <1>2 DEF __clzdi2, h, l
  <2>4. j \in Nat /\ Pow2[j] <= h /\ h < Pow2[j + 1]
    BY <2>2 DEF IsTop
  <2> HIDE DEF j
  <2> DEFINE p == Pow2[j]
             r == Pow2[j + 1]
  <2>5. p \in Nat /\ r \in Nat
    BY <2>4, PowIs
  <2>6. Pow2[j + Bits] = p * WordMod /\ Pow2[(j + Bits) + 1] = r * WordMod
    <3>1. Exponents(j, Bits, j + Bits) /\ Exponents(j + 1, Bits, (j + Bits) + 1)
      BY <2>4, <1>2 DEF Exponents
    <3>2. QED BY <3>1, <1>2, PowAdd
  <2> HIDE DEF p, r
  <2>7. p * WordMod <= h * WordMod /\ (h + 1) * WordMod <= r * WordMod /\ (h + 1) * WordMod = (h * WordMod) + WordMod
        /\ p * WordMod \in Nat /\ h * WordMod \in Nat /\ r * WordMod \in Nat
    <3>1. p <= h /\ h + 1 <= r /\ h \in Nat
      BY <2>1, <2>4, <2>5 DEF p, r
    <3>2. QED BY <3>1, <2>5, <1>2
  <2>8. p * WordMod <= b /\ b < r * WordMod
    BY <2>7, <1>1, <1>2
  <2>9. IsTop(b, j + Bits)
    BY <2>4, <2>6, <2>8, <1>2 DEF IsTop
  <2>10. QED BY <2>3, <2>9
<1>5. QED BY <1>3, <1>4

\* The same for the last bit.
LEMMA CtzDwordIs ==
  ASSUME NEW b \in 1 .. DwordMod - 1
  PROVE  __ctzdi2(b) \in 0 .. 2 * Bits - 1 /\ IsLow(b, __ctzdi2(b))
<1> DEFINE h == Hi(b)
           l == Lo(b)
<1>1. h \in 0 .. WordMod - 1 /\ l \in 0 .. WordMod - 1 /\ b = (h * WordMod) + l
  BY Words DEF Dword
<1>2. Bits \in Nat /\ Bits >= 2 /\ WordMod \in Nat /\ WordMod = Pow2[Bits]
  BY Sizes DEF WordMod
<1> HIDE DEF h, l
<1>3. CASE l = 0
  <2>1. h \in 1 .. WordMod - 1 /\ b = h * WordMod
    BY <1>1, <1>2, <1>3
  <2>2. ctz(h) \in 0 .. Bits - 1 /\ IsLow(h, ctz(h))
    BY <2>1, CtzIs
  <2>3. __ctzdi2(b) = ctz(h) + Bits /\ ctz(h) + Bits \in 0 .. 2 * Bits - 1
    BY <1>3, <2>2, <1>2 DEF __ctzdi2, h, l
  <2> DEFINE p == Pow2[ctz(h)]
  <2>4. Pow2[ctz(h) + Bits] = p * WordMod /\ p \in Nat
    <3>1. Exponents(ctz(h), Bits, ctz(h) + Bits) /\ ctz(h) \in Nat
      BY <2>2, <1>2 DEF Exponents
    <3>2. QED BY <3>1, <1>2, PowAdd, PowIs
  <2>5. PICK m \in Nat : h = m * p /\ m % 2 = 1
    BY <2>2 DEF IsLow
  <2> HIDE DEF p
  <2>6. b = m * (p * WordMod)
    BY <2>1, <2>4, <2>5, <1>2
  <2>7. QED BY <2>2, <2>3, <2>4, <2>5, <2>6, <1>2 DEF IsLow
<1>4. CASE l # 0
  <2>1. l \in 1 .. WordMod - 1
    BY <1>1, <1>2, <1>4
  <2>2. ctz(l) \in 0 .. Bits - 1 /\ IsLow(l, ctz(l))
    BY <2>1, CtzIs
  <2>3. __ctzdi2(b) = ctz(l) /\ ctz(l) \in 0 .. 2 * Bits - 1
    BY <1>4, <2>2, <1>2 DEF __ctzdi2, h, l
  <2> DEFINE p == Pow2[ctz(l)]
             q == Pow2[Bits - 1 - ctz(l)]
  <2>4. WordMod = (2 * q) * p /\ p \in Nat /\ q \in Nat
    <3>1. /\ Bits - ctz(l) \in Nat /\ Bits - ctz(l) >= 1 /\ Exponents(Bits - ctz(l), ctz(l), Bits)
          /\ Bits - ctz(l) - 1 = Bits - 1 - ctz(l)
      BY <2>2, <1>2 DEF Exponents
    <3>2. WordMod = Pow2[Bits - ctz(l)] * p
      BY <3>1, <1>2, PowAdd
    <3>3. Pow2[Bits - ctz(l)] = 2 * q /\ q \in Nat
      BY <3>1, PowDown
    <3>4. p \in Nat
      BY <2>2, PowIs
    <3>5. QED BY <3>1, <3>2, <3>3, <3>4, <1>2
  <2>5. PICK m \in Nat : l = m * p /\ m % 2 = 1
    BY <2>2 DEF IsLow
  <2> HIDE DEF p, q
  <2> DEFINE n == m + (2 * (h * q))
  <2>6. h * q \in Nat /\ n \in Nat
    BY <1>1, <2>4
  <2>7. b = n * p
    <3>1. h * WordMod = (2 * (h * q)) * p
      BY <1>1, <2>4
    <3>2. n * p = (m * p) + ((2 * (h * q)) * p)
      BY <2>4, <2>6
    <3>3. QED BY <3>1, <3>2, <2>5, <1>1, <1>2
  <2>8. n % 2 = 1
    <3> DEFINE w == h * q
    <3>1. w \in Nat /\ n = m + (2 * w)
      BY <2>6
    <3> HIDE DEF w, n
    <3>2. QED BY <3>1, <2>5
  <2> HIDE DEF n
  <2>9. QED BY <2>2, <2>3, <2>6, <2>7, <2>8 DEF IsLow, p
<1>5. QED BY <1>3, <1>4

\* The places of the first and the last bit as ArithmeticIsExact says them.
LEMMA ZerosAreExact ==
  ASSUME NEW b \in 1 .. DwordMod - 1
  PROVE  /\ __clzdi2(b) = 2 * Bits - 1 - (CHOOSE k \in 0 .. 2 * Bits - 1 : Pow2[k] <= b /\ b < Pow2[k + 1])
         /\ __ctzdi2(b) = (CHOOSE k \in 0 .. 2 * Bits - 1 : b % Pow2[k] = 0 /\ b % Pow2[k + 1] # 0)
<1> DEFINE top == 2 * Bits - 1 - __clzdi2(b)
           Top(k) == Pow2[k] <= b /\ b < Pow2[k + 1]
           Low(k) == b % Pow2[k] = 0 /\ b % Pow2[k + 1] # 0
           place == CHOOSE k \in 0 .. 2 * Bits - 1 : Top(k)
           last == CHOOSE k \in 0 .. 2 * Bits - 1 : Low(k)
<1>1. __clzdi2(b) \in 0 .. 2 * Bits - 1 /\ IsTop(b, top) /\ Bits \in Nat /\ b \in Nat
  BY ClzDwordIs, Sizes
<1>2. top \in 0 .. 2 * Bits - 1 /\ __clzdi2(b) = 2 * Bits - 1 - top
  BY <1>1
<1> HIDE DEF top
<1>3. Top(top)
  BY <1>1 DEF IsTop
<1>4. place \in 0 .. 2 * Bits - 1 /\ Top(place)
  BY <1>2, <1>3
<1> HIDE DEF place
<1>5. place \in Nat /\ IsTop(b, place) /\ top \in Nat
  BY <1>1, <1>2, <1>4 DEF IsTop
<1>6. place = top
  BY <1>1, <1>5, TopUnique
<1>7. __ctzdi2(b) \in 0 .. 2 * Bits - 1 /\ IsLow(b, __ctzdi2(b))
  BY CtzDwordIs
<1>8. \A j \in Nat : Low(j) <=> j = __ctzdi2(b)
  <2>1. __ctzdi2(b) \in Nat
    BY <1>7
  <2>2. QED BY <1>1, <1>7, <2>1, LowUnique
<1> HIDE DEF Low
<1>9. Low(__ctzdi2(b))
  BY <1>7, <1>8
<1>10. last \in 0 .. 2 * Bits - 1 /\ Low(last)
  BY <1>7, <1>9
<1> HIDE DEF last
<1>11. last = __ctzdi2(b)
  BY <1>8, <1>10
<1>12. QED BY <1>2, <1>6, <1>11 DEF place, last, Low

----------------------------------------------------------------------------
(* Shifts.                                                                 *)

\* A word times a power of two is the bits that leave it and those that stay.
LEMMA ShiftWord ==
  ASSUME NEW x \in 0 .. WordMod - 1, NEW k \in 0 .. Bits
  PROVE  /\ x * Pow2[k] = (srl(x, Bits - k) * WordMod) + sll(x, k)
         /\ srl(x, Bits - k) \in Nat /\ srl(x, Bits - k) < Pow2[k]
         /\ sll(x, k) \in Nat /\ sll(x, k) + Pow2[k] <= WordMod
<1> DEFINE p == Pow2[k]
           q == Pow2[Bits - k]
           w == x \div q
           r == x % q
<1>1. Exponents(k, Bits - k, Bits) /\ k \in Nat /\ Bits - k \in Nat
  BY Sizes DEF Exponents
<1>2. WordMod = p * q
  BY <1>1, PowAdd DEF WordMod
<1>3. p \in Nat /\ q \in Nat /\ p >= 1 /\ q >= 1
  BY <1>1, PowIs
<1>4. srl(x, Bits - k) = w /\ sll(x, k) = (x * p) % WordMod
  BY DEF srl, sll
<1>5. x \in Nat /\ x < p * q /\ WordMod \in Nat
  BY <1>2, Sizes
<1> HIDE DEF p, q, w, r
<1>6. w \in Nat /\ r \in Nat /\ r < q /\ x = (w * q) + r
  BY <1>3, <1>5, DivMod DEF w, r
<1>7. w < p
  <2>1. Divisors(x, q, p) /\ q * p = p * q
    BY <1>3, <1>5 DEF Divisors
  <2>2. QED BY <2>1, <1>5, DivDiv DEF w
<1>8. x * p = (w * (p * q)) + (r * p)
  BY <1>3, <1>6
<1>9. r * p \in Nat /\ (r * p) + p <= p * q
  <2>1. r + 1 <= q /\ r + 1 \in Nat
    BY <1>3, <1>6
  <2>2. (r + 1) * p <= q * p
    BY <2>1, <1>3
  <2>3. (r + 1) * p = (r * p) + p /\ q * p = p * q /\ r * p \in Nat
    BY <1>3, <1>6
  <2>4. QED BY <2>2, <2>3
<1>10. sll(x, k) = r * p
  <2>1. Euclid(x * p, WordMod, w, r * p)
    BY <1>2, <1>3, <1>5, <1>6, <1>8, <1>9 DEF Euclid
  <2>2. QED BY <2>1, <1>4, DivIs
<1>11. QED BY <1>2, <1>4, <1>6, <1>7, <1>8, <1>9, <1>10 DEF p

\* A double word times a power of two up to a word's: three words.
LEMMA ShiftDword ==
  ASSUME NEW d \in 0 .. DwordMod - 1, NEW k \in 0 .. Bits
  PROVE  LET h == (sll(Hi(d), k) + srl(Lo(d), Bits - k)) % WordMod
             l == sll(Lo(d), k)
         IN  /\ d * Pow2[k] = (srl(Hi(d), Bits - k) * DwordMod) + Dword(h, l)
             /\ h \in 0 .. WordMod - 1 /\ l \in 0 .. WordMod - 1
             /\ srl(Hi(d), Bits - k) \in Nat /\ srl(Hi(d), Bits - k) < Pow2[k]
<1> DEFINE hi == Hi(d)
           lo == Lo(d)
           a == srl(hi, Bits - k)
           b == sll(hi, k)
           c == srl(lo, Bits - k)
           l == sll(lo, k)
           p == Pow2[k]
           h == (b + c) % WordMod
<1>1. hi \in 0 .. WordMod - 1 /\ lo \in 0 .. WordMod - 1 /\ d = (hi * WordMod) + lo
  BY Words DEF Dword
<1>2. p \in Nat /\ p >= 1 /\ WordMod \in Nat /\ WordMod >= 1 /\ DwordMod = WordMod * WordMod
  BY PowIs, Sizes
<1> HIDE DEF hi, lo
<1>3. /\ hi * p = (a * WordMod) + b /\ a \in Nat /\ a < p /\ b \in Nat /\ b + p <= WordMod
      /\ lo * p = (c * WordMod) + l /\ c \in Nat /\ c < p /\ l \in Nat /\ l + p <= WordMod
  BY <1>1, ShiftWord
<1> HIDE DEF a, b, c, l, p
<1>4. h = b + c
  <2>1. b + c \in Nat /\ b + c < WordMod
    BY <1>2, <1>3
  <2>2. QED BY <2>1, <1>2
<1>5. h \in 0 .. WordMod - 1 /\ l \in 0 .. WordMod - 1
  BY <1>2, <1>3, <1>4
<1>6. d * p = (a * DwordMod) + Dword(h, l)
  <2>1. d * p = ((hi * p) * WordMod) + (lo * p)
    BY <1>1, <1>2
  <2>2. d * p = (a * (WordMod * WordMod)) + (((b + c) * WordMod) + l)
    BY <2>1, <1>2, <1>3
  <2>3. QED BY <2>2, <1>2, <1>4 DEF Dword
<1> HIDE DEF h
<1>7. QED BY <1>3, <1>5, <1>6 DEF a, b, c, l, p, h, hi, lo

\* __ashldi3 shifts a double word to the left (ashldi3.c).
LEMMA ShiftIsExact ==
  ASSUME NEW u \in 0 .. DwordMod - 1, NEW b \in 0 .. 2 * Bits - 1
  PROVE  __ashldi3(u, b) = (u * Pow2[b]) % DwordMod
<1>1. /\ Bits \in Nat /\ Bits >= 2 /\ WordMod \in Nat /\ WordMod >= 1
      /\ DwordMod = WordMod * WordMod /\ DwordMod \in Nat /\ u \in Nat /\ u < DwordMod /\ b \in Nat
  BY Sizes
<1>2. CASE b = 0
  <2>1. u * Pow2[b] = u
    BY <1>1, <1>2, PowIs
  <2>2. u % DwordMod = u
    BY <1>1
  <2>3. QED BY <2>1, <2>2, <1>2 DEF __ashldi3
<1>3. CASE b >= Bits
  <2> DEFINE k == b - Bits
             hi == Hi(u)
             lo == Lo(u)
             a == srl(lo, Bits - k)
             l == sll(lo, k)
             p == Pow2[k]
  <2>1. k \in 0 .. Bits /\ Exponents(k, Bits, b)
    BY <1>1, <1>3 DEF Exponents
  <2>2. Pow2[b] = p * WordMod /\ p \in Nat
    BY <2>1, PowAdd, PowIs DEF WordMod
  <2>3. hi \in 0 .. WordMod - 1 /\ lo \in 0 .. WordMod - 1 /\ u = (hi * WordMod) + lo
    BY Words DEF Dword
  <2>4. __ashldi3(u, b) = Dword(l, 0)
    BY <1>1, <1>3 DEF __ashldi3
  <2> HIDE DEF k, hi, lo
  <2>5. lo * p = (a * WordMod) + l /\ a \in Nat /\ l \in 0 .. WordMod - 1
    <3>1. lo * p = (a * WordMod) + l /\ a \in Nat /\ l \in Nat /\ l + p <= WordMod /\ p >= 1
      BY <2>1, <2>3, ShiftWord, PowIs
    <3> HIDE DEF a, l, p
    <3>2. QED BY <3>1, <1>1, <2>2
  <2>6. Dword(l, 0) \in 0 .. DwordMod - 1 /\ Dword(l, 0) = l * WordMod
    <3> HIDE DEF l
    <3>1. Dword(l, 0) \in 0 .. DwordMod - 1 /\ Dword(l, 0) = (l * WordMod) + 0
      BY <2>5, <1>1, DwordIs DEF Dword
    <3>2. QED BY <3>1, <2>5, <1>1
  <2> HIDE DEF a, l, p
  <2>7. u * (p * WordMod) = (((hi * p) + a) * (WordMod * WordMod)) + (l * WordMod)
    <3>1. u * (p * WordMod) = ((hi * p) * (WordMod * WordMod)) + ((lo * p) * WordMod)
      BY <2>2, <2>3, <1>1
    <3>2. (lo * p) * WordMod = (a * (WordMod * WordMod)) + (l * WordMod)
      BY <2>5, <1>1
    <3>3. QED BY <3>1, <3>2, <2>2, <2>3, <2>5, <1>1
  <2>8. (hi * p) + a \in Int /\ u * (p * WordMod) \in Int
    BY <2>2, <2>3, <2>5, <1>1
  <2>9. Euclid(u * (p * WordMod), DwordMod, (hi * p) + a, Dword(l, 0))
    BY <2>6, <2>7, <2>8, <1>1 DEF Euclid
  <2>10. QED BY <2>2, <2>4, <2>9, DivIs
<1>4. CASE b # 0 /\ b < Bits
  <2> DEFINE a == srl(Hi(u), Bits - b)
             h == (sll(Hi(u), b) + srl(Lo(u), Bits - b)) % WordMod
             l == sll(Lo(u), b)
  <2>1. b \in 0 .. Bits
    BY <1>1, <1>4
  <2>2. __ashldi3(u, b) = Dword(h, l)
    BY <1>1, <1>4 DEF __ashldi3
  <2>3. u * Pow2[b] = (a * DwordMod) + Dword(h, l) /\ a \in Nat /\ h \in 0 .. WordMod - 1 /\ l \in 0 .. WordMod - 1
    BY <2>1, ShiftDword
  <2> HIDE DEF a, h, l
  <2>4. Dword(h, l) \in 0 .. DwordMod - 1
    BY <2>3, DwordIs
  <2>5. u * Pow2[b] \in Int
    BY <1>1, PowIs
  <2>6. Euclid(u * Pow2[b], DwordMod, a, Dword(h, l))
    BY <2>3, <2>4, <2>5, <1>1 DEF Euclid
  <2>7. QED BY <2>2, <2>6, DivIs
<1>5. QED BY <1>1, <1>2, <1>3, <1>4

----------------------------------------------------------------------------
(* Products.                                                               *)

\* x is y but for a multiple of m.
Congruent(x, y, m) == \E k \in Int : x = y + (k * m)

Modulus(x, m) == x \in Int /\ m \in Nat /\ m >= 1

\* A number is congruent to its remainder.
LEMMA ModIsCongruent ==
  ASSUME NEW x, NEW m, Modulus(x, m)
  PROVE  x % m \in 0 .. m - 1 /\ \E k \in Int : x % m = x + (k * m)
<1>1. x \in Int /\ m \in Nat /\ m >= 1
  BY DEF Modulus
<1> DEFINE q == x \div m
           r == x % m
<1>2. r \in Nat /\ r < m /\ q \in Int /\ x = (q * m) + r
  BY <1>1, DivMod
<1> HIDE DEF q, r
<1>3. r = x + ((0 - q) * m) /\ 0 - q \in Int /\ r \in 0 .. m - 1
  BY <1>1, <1>2
<1>4. QED BY <1>3 DEF r

\* Congruent numbers have the same remainder.
LEMMA CongruentMod ==
  ASSUME NEW x \in Int, NEW y \in Int, NEW m \in Nat, m >= 1, Congruent(x, y, m)
  PROVE  x % m = y % m
BY ModOf DEF Congruent

\* What is added and what is left to add are the product, and an iteration uses a
\* bit of the multiplier.
MulInv(product, bits, s) ==
  s.a0 < DwordMod /\ s.a1 < Pow2[bits] /\ Congruent(s.a0 + (s.a1 * s.a2), product, DwordMod)

\* An iteration of __muldi3_asm keeps accumulator and product to come.
LEMMA MulKept ==
  ASSUME NEW product \in Nat, NEW bits \in Nat, NEW s \in Adding, MulInv(product, bits + 1, s)
  PROVE  mulStep[s] \in Adding /\ MulInv(product, bits, mulStep[s])
<1> DEFINE a == s.a0
           b == s.a1
           c == s.a2
           h == b \div 2
           bit == b % 2
           a2 == IF bit = 1 THEN (a + c) % DwordMod ELSE a
           c2 == (2 * c) % DwordMod
           t == [a0 |-> a2, a1 |-> h, a2 |-> c2]
           m == DwordMod
           p == Pow2[bits]
<1>1. a \in Nat /\ b \in Nat /\ c \in Nat
  BY DEF Adding
<1>2. m \in Nat /\ m >= 1
  BY Sizes
<1>3. p \in Nat /\ p >= 1 /\ Pow2[bits + 1] = 2 * p
  BY PowIs
<1>4. a < m /\ b < 2 * p
  BY <1>3 DEF MulInv
<1>5. PICK k \in Int : a + (b * c) = product + (k * m)
  BY DEF MulInv, Congruent
<1>6. CASE b = 0
  <2>1. mulStep[s] = s
    BY <1>6 DEF mulStep
  <2>2. b < p
    BY <1>3, <1>6
  <2>3. QED BY <2>1, <2>2 DEF MulInv
<1>7. CASE b # 0
  <2>1. mulStep[s] = t
    BY <1>7 DEF mulStep
  <2>2. t.a0 = a2 /\ t.a1 = h /\ t.a2 = c2
    OBVIOUS
  <2>3. h \in Nat /\ bit \in {0, 1} /\ b = (2 * h) + bit /\ h < p
    <3> HIDE DEF b, p
    <3>1. QED BY <1>1, <1>3, <1>4
  <2>4. /\ a2 \in Nat /\ a2 < m /\ \E i \in Int : a2 = a + (bit * c) + (i * m)
        /\ c2 \in Nat /\ \E j \in Int : c2 = (2 * c) + (j * m)
    <3> HIDE DEF a, c, bit, m
    <3>1. \A x \in Int : x % m \in Nat /\ x % m < m /\ \E i \in Int : x % m = x + (i * m)
      BY <1>2, SameMod, DivMod
    <3>2. c2 \in Nat /\ \E j \in Int : c2 = (2 * c) + (j * m)
      BY <3>1, <1>1 DEF m
    <3>3. CASE bit = 1
      <4>1. PICK i \in Int : (a + c) % m = (a + c) + (i * m)
        BY <3>1, <1>1
      <4>2. a2 = (a + c) % m /\ 1 * c = c /\ bit * c = 1 * c
        BY <3>3, <1>1 DEF m
      <4>3. QED BY <3>1, <3>2, <4>1, <4>2, <1>1
    <3>4. CASE bit = 0
      <4>1. a2 = a /\ bit * c = 0 /\ 0 * m = 0 /\ a = a + 0 + 0
        BY <3>4, <1>1, <1>2
      <4>2. a2 \in Nat /\ a2 < m /\ a2 = a + (bit * c) + (0 * m)
        BY <4>1, <1>1, <1>4
      <4>3. QED BY <3>2, <4>2
    <3>5. QED BY <3>3, <3>4, <2>3
  <2>5. PICK i \in Int, j \in Int : a2 = a + (bit * c) + (i * m) /\ c2 = (2 * c) + (j * m)
    BY <2>4
  <2> HIDE DEF a, b, c, h, bit, a2, c2, m, p, t
  <2>6. a2 + (h * c2) = product + ((k + i + (h * j)) * m) /\ k + i + (h * j) \in Int
    <3>1. h * c2 = (2 * (h * c)) + ((h * j) * m)
      BY <1>1, <1>2, <2>3, <2>5
    <3>2. b * c = (2 * (h * c)) + (bit * c)
      BY <1>1, <2>3
    <3>3. (k + i + (h * j)) * m = (k * m) + (i * m) + ((h * j) * m)
      BY <1>2, <2>3
    <3>4. /\ h * c \in Int /\ bit * c \in Int /\ (h * j) * m \in Int /\ k * m \in Int /\ i * m \in Int
          /\ k + i + (h * j) \in Int
      BY <1>1, <1>2, <2>3
    <3>5. QED BY <3>1, <3>2, <3>3, <3>4, <2>5, <1>1, <1>5
  <2>7. t \in Adding
    BY <2>3, <2>4 DEF Adding, t
  <2>8. t.a0 < DwordMod /\ t.a1 < Pow2[bits]
    BY <2>2, <2>3, <2>4 DEF m, p
  <2>9. t.a0 + (t.a1 * t.a2) = product + ((k + i + (h * j)) * DwordMod)
    BY <2>2, <2>6 DEF m
  <2>10. MulInv(product, bits, t)
    BY <2>6, <2>8, <2>9 DEF MulInv, Congruent
  <2>11. QED BY <2>1, <2>7, <2>10
<1>8. QED BY <1>6, <1>7

\* __muldi3_asm returns a product (muldi3.S).
LEMMA ProductIsExact ==
  ASSUME NEW u \in 0 .. DwordMod - 1, NEW v \in 0 .. DwordMod - 1
  PROVE  __muldi3_asm(u, v) = (u * v) % DwordMod
<1> DEFINE n == 2 * Bits
           from == [a0 |-> 0, a1 |-> v, a2 |-> u]
           Inv == [k \in 0 .. n |-> {s \in Adding : MulInv(u * v, n - k, s)}]
           end == Loop(mulStep, from, n)
<1>1. n \in Nat /\ DwordMod \in Nat /\ DwordMod >= 1 /\ DwordMod = Pow2[n] /\ u \in Nat /\ v \in Nat
  BY Sizes DEF DwordMod
<1>2. u * v \in Nat
  BY <1>1
<1>3. mulStep \in [Adding -> Adding]
  <2>1. SUFFICES ASSUME NEW s \in Adding PROVE mulStep[s] \in Adding
    BY DEF mulStep
  <2>2. \A x \in Nat : x % DwordMod \in Nat /\ x \div 2 \in Nat
    BY <1>1
  <2>3. s.a0 \in Nat /\ s.a1 \in Nat /\ s.a2 \in Nat /\ s.a0 + s.a2 \in Nat /\ 2 * s.a2 \in Nat
    BY DEF Adding
  <2>4. QED BY <2>2, <2>3 DEF mulStep, Adding
<1>4. from \in Adding /\ MulInv(u * v, n, from)
  <2>1. from.a0 = 0 /\ from.a1 = v /\ from.a2 = u /\ from \in Adding
    BY <1>1 DEF Adding
  <2>2. 0 + (v * u) = (u * v) + (0 * DwordMod)
    BY <1>1
  <2>3. v < Pow2[n] /\ 0 < DwordMod
    BY <1>1
  <2>4. QED BY <2>1, <2>2, <2>3 DEF MulInv, Congruent
<1> HIDE DEF n, from
<1>5. Counts(Adding, mulStep, from, n, Inv)
  <2>1. IsLoop(Adding, mulStep, from, n)
    BY <1>1, <1>3, <1>4 DEF IsLoop
  <2>2. from \in Inv[0]
    BY <1>1, <1>4
  <2>3. ASSUME NEW k \in Nat, NEW s \in Adding, k < n, s \in Inv[k] PROVE mulStep[s] \in Inv[k + 1]
    <3> DEFINE b == n - (k + 1)
    <3>1. b \in Nat /\ n - k = b + 1 /\ k \in 0 .. n /\ k + 1 \in 0 .. n
      BY <2>3, <1>1
    <3>2. MulInv(u * v, b + 1, s)
      BY <2>3, <3>1
    <3> HIDE DEF b
    <3>3. mulStep[s] \in Adding /\ MulInv(u * v, b, mulStep[s])
      BY <3>1, <3>2, <1>2, MulKept
    <3>4. QED BY <3>1, <3>3 DEF b
  <2> HIDE DEF Inv
  <2>4. QED BY <2>1, <2>2, <2>3 DEF Counts
<1>6. end \in Adding /\ end \in Inv[n]
  <2> HIDE DEF Inv, end
  <2>1. QED BY <1>5, LoopCount DEF end
<1>7. MulInv(u * v, 0, end)
  BY <1>1, <1>6
<1> HIDE DEF end
<1>8. end.a0 \in Nat /\ end.a1 \in Nat /\ end.a2 \in Nat /\ end.a1 < 1 /\ end.a0 < DwordMod
  BY <1>6, <1>7, PowIs DEF MulInv, Adding
<1>9. end.a0 + (end.a1 * end.a2) = end.a0
  <2>1. end.a1 = 0
    BY <1>8
  <2>2. QED BY <2>1, <1>8
<1>10. Congruent(end.a0, u * v, DwordMod)
  BY <1>7, <1>9 DEF MulInv
<1>11. end.a0 % DwordMod = (u * v) % DwordMod
  BY <1>1, <1>2, <1>8, <1>10, CongruentMod
<1>12. end.a0 % DwordMod = end.a0
  BY <1>1, <1>8
<1>13. QED BY <1>11, <1>12 DEF __muldi3_asm, end, from, n

\* A sum of words, and the bit that leaves it, which is one when the sum is less
\* than a word that is added.
LEMMA CarryIs ==
  ASSUME NEW a \in 0 .. WordMod - 1, NEW b \in 0 .. WordMod - 1
  PROVE  LET low == (a + b) % WordMod
             carry == IF low < a THEN 1 ELSE 0
         IN  low \in 0 .. WordMod - 1 /\ a + b = (carry * WordMod) + low
<1>1. WordMod \in Nat /\ WordMod >= 1
  BY Sizes
<1>2. CASE a + b < WordMod
  <2>1. (a + b) % WordMod = a + b
    BY <1>1, <1>2
  <2>2. ~(a + b < a)
    BY <1>1
  <2>3. QED BY <2>1, <2>2, <1>1, <1>2
<1>3. CASE a + b >= WordMod
  <2>1. Euclid(a + b, WordMod, 1, a + b - WordMod)
    BY <1>1, <1>3 DEF Euclid
  <2>2. (a + b) % WordMod = a + b - WordMod
    BY <2>1, DivIs
  <2>3. a + b - WordMod < a
    BY <1>1
  <2>4. QED BY <2>2, <2>3, <1>1, <1>3
<1>4. QED BY <1>1, <1>2, <1>3

\* Twice a double word, a word at a time.
LEMMA DoubleIs ==
  ASSUME NEW h \in 0 .. WordMod - 1, NEW l \in 0 .. WordMod - 1
  PROVE  LET h2 == (2 * h + l \div (WordMod \div 2)) % WordMod
             l2 == (2 * l) % WordMod
         IN  /\ h2 \in 0 .. WordMod - 1 /\ l2 \in 0 .. WordMod - 1
             /\ Congruent((h2 * WordMod) + l2, 2 * ((h * WordMod) + l), DwordMod)
<1> DEFINE g == WordMod \div 2
           bit == l \div g
           h2 == (2 * h + bit) % WordMod
           l2 == (2 * l) % WordMod
<1>1. WordMod \in Nat /\ WordMod >= 4 /\ DwordMod = WordMod * WordMod /\ WordMod = 2 * g /\ g \in Nat
  <2>1. WordMod = 2 * Pow2[Bits - 1] /\ Pow2[Bits - 1] \in Nat /\ WordMod \in Nat
    BY Sizes, PowIs
  <2>2. QED BY <2>1, Sizes, HalfOf
<1> HIDE DEF g
<1>2. bit \in {0, 1} /\ 2 * l = (bit * WordMod) + l2 /\ l2 \in 0 .. WordMod - 1
  <2>1. CASE l < g
    <3>1. Euclid(l, g, 0, l) /\ Euclid(2 * l, WordMod, 0, 2 * l)
      BY <1>1, <2>1 DEF Euclid
    <3>2. bit = 0 /\ l2 = 2 * l
      BY <3>1, DivIs
    <3>3. QED BY <3>2, <1>1, <2>1
  <2>2. CASE l >= g
    <3>1. Euclid(l, g, 1, l - g) /\ Euclid(2 * l, WordMod, 1, 2 * l - WordMod)
      BY <1>1, <2>2 DEF Euclid
    <3>2. bit = 1 /\ l2 = 2 * l - WordMod
      BY <3>1, DivIs
    <3>3. QED BY <3>2, <1>1, <2>2
  <2>3. QED BY <1>1, <2>1, <2>2
<1> HIDE DEF bit, l2
<1>3. 2 * h + bit \in Nat
  BY <1>1, <1>2
<1>4. h2 \in 0 .. WordMod - 1 /\ \E k \in Int : h2 = (2 * h + bit) + (k * WordMod)
  <2> DEFINE x == 2 * h + bit
  <2>1. x \in Nat
    BY <1>3
  <2> HIDE DEF x
  <2>2. x % WordMod \in 0 .. WordMod - 1 /\ \E k \in Int : x % WordMod = x + (k * WordMod)
    <3>1. Modulus(x, WordMod)
      BY <2>1, <1>1 DEF Modulus
    <3>2. QED BY <3>1, ModIsCongruent
  <2>3. QED BY <2>2 DEF x
<1>5. PICK k \in Int : h2 = (2 * h + bit) + (k * WordMod)
  BY <1>4
<1> HIDE DEF h2
<1>6. (h2 * WordMod) + l2 = (2 * ((h * WordMod) + l)) + (k * DwordMod)
  <2>1. h2 * WordMod = (2 * (h * WordMod)) + (bit * WordMod) + (k * (WordMod * WordMod))
    BY <1>1, <1>2, <1>5
  <2>2. h * WordMod \in Int /\ bit * WordMod \in Int /\ k * (WordMod * WordMod) \in Int
    BY <1>1, <1>2
  <2>3. QED BY <2>1, <2>2, <1>1, <1>2
<1>7. QED BY <1>2, <1>4, <1>6 DEF Congruent, h2, l2, bit, g

\* The same for the low words of __multi3, where a sum of words has a carry.
LowInv(product, bits, s) ==
  /\ s.u < WordMod /\ s.low < WordMod /\ s.high < WordMod /\ s.tmp < WordMod
  /\ s.v < Pow2[bits]
  /\ Congruent(((s.high * WordMod) + s.low) + (s.v * ((s.tmp * WordMod) + s.u)), product, DwordMod)

\* An iteration of the loop over the low words of __multi3 keeps the same.
LEMMA LowKept ==
  ASSUME NEW product \in Nat, NEW bits \in Nat, NEW s \in Multiplying, LowInv(product, bits + 1, s)
  PROVE  lowStep[s] \in Multiplying /\ LowInv(product, bits, lowStep[s])
<1> DEFINE p == Pow2[bits]
           h == s.v \div 2
           odd == s.v % 2 = 1
           bit == IF odd THEN 1 ELSE 0
           low == (s.low + s.u) % WordMod
           carry == IF low < s.low THEN 1 ELSE 0
           sum == (carry + s.tmp + s.high) % WordMod
           u2 == (2 * s.u) % WordMod
           tmp2 == (2 * s.tmp + s.u \div (WordMod \div 2)) % WordMod
           low2 == IF odd THEN low ELSE s.low
           high2 == IF odd THEN sum ELSE s.high
           t == [u |-> u2, v |-> h, low |-> low2, high |-> high2, tmp |-> tmp2]
           acc == (s.high * WordMod) + s.low
           x == (s.tmp * WordMod) + s.u
           acc2 == (high2 * WordMod) + low2
           x2 == (tmp2 * WordMod) + u2
           m == DwordMod
<1>1. s.u \in Nat /\ s.v \in Nat /\ s.low \in Nat /\ s.high \in Nat /\ s.tmp \in Nat
  BY DEF Multiplying
<1>2. WordMod \in Nat /\ WordMod >= 1 /\ m = WordMod * WordMod /\ m \in Nat
  BY Sizes
<1>3. p \in Nat /\ p >= 1 /\ Pow2[bits + 1] = 2 * p
  BY PowIs
<1>4. s.u < WordMod /\ s.low < WordMod /\ s.high < WordMod /\ s.tmp < WordMod /\ s.v < 2 * p
  BY <1>3 DEF LowInv
<1>5. CASE s.v = 0
  <2>1. lowStep[s] = s /\ s.v < p
    BY <1>3, <1>5 DEF lowStep
  <2>2. QED BY <2>1 DEF LowInv
<1>6. CASE s.v # 0
  <2>1. lowStep[s] = t
    BY <1>6 DEF lowStep
  <2>2. h \in Nat /\ bit \in {0, 1} /\ s.v = (2 * h) + bit /\ h < p
    <3> HIDE DEF p
    <3>1. QED BY <1>1, <1>3, <1>4
  <2>3. low \in 0 .. WordMod - 1 /\ s.low + s.u = (carry * WordMod) + low
    <3>1. s.low \in 0 .. WordMod - 1 /\ s.u \in 0 .. WordMod - 1
      BY <1>1, <1>2, <1>4
    <3>2. QED BY <3>1, CarryIs
  <2>4. u2 \in 0 .. WordMod - 1 /\ tmp2 \in 0 .. WordMod - 1 /\ Congruent(x2, 2 * x, m)
    <3>1. s.tmp \in 0 .. WordMod - 1 /\ s.u \in 0 .. WordMod - 1
      BY <1>1, <1>2, <1>4
    <3>2. QED BY <3>1, DoubleIs
  <2> HIDE DEF low
  <2>5. carry \in {0, 1} /\ carry + s.tmp + s.high \in Nat
    BY <1>1
  <2> HIDE DEF carry
  <2>6. sum \in 0 .. WordMod - 1 /\ \E k \in Int : sum = (carry + s.tmp + s.high) + (k * WordMod)
    <3> DEFINE y == carry + s.tmp + s.high
    <3>1. y \in Nat
      BY <2>5
    <3> HIDE DEF y
    <3>2. y % WordMod \in 0 .. WordMod - 1 /\ \E k \in Int : y % WordMod = y + (k * WordMod)
      <4>1. Modulus(y, WordMod)
        BY <3>1, <1>2 DEF Modulus
      <4>2. QED BY <4>1, ModIsCongruent
    <3>3. QED BY <3>2 DEF y
  <2>7. PICK k \in Int : sum = (carry + s.tmp + s.high) + (k * WordMod)
    BY <2>6
  <2> HIDE DEF sum, u2, tmp2, h
  <2>8. /\ low2 \in 0 .. WordMod - 1 /\ high2 \in 0 .. WordMod - 1
        /\ Congruent(acc2, acc + (bit * x), m)
    <3>1. CASE odd
      <4>1. low2 = low /\ high2 = sum /\ bit = 1
        BY <3>1
      <4>2. (sum * WordMod) + low = (acc + x) + (k * m)
        <5>1. sum * WordMod = (carry * WordMod) + (s.tmp * WordMod) + (s.high * WordMod) + (k * (WordMod * WordMod))
          BY <2>5, <2>7, <1>1, <1>2
        <5>2. /\ carry * WordMod \in Int /\ s.tmp * WordMod \in Int /\ s.high * WordMod \in Int
              /\ k * (WordMod * WordMod) \in Int
          BY <2>5, <1>1, <1>2
        <5> DEFINE a == carry * WordMod
                   b == s.tmp * WordMod
                   c == s.high * WordMod
                   e == k * (WordMod * WordMod)
                   f == sum * WordMod
        <5>3. /\ f = a + b + c + e /\ a \in Int /\ b \in Int /\ c \in Int /\ e \in Int
              /\ acc = c + s.low /\ x = b + s.u /\ k * m = e /\ s.low + s.u = a + low /\ low \in Int
          BY <5>1, <5>2, <2>3, <1>2
        <5> HIDE DEF a, b, c, e, f, acc, x
        <5>4. f + low = (acc + x) + e
          BY <5>3, <1>1
        <5>5. QED BY <5>3, <5>4 DEF f
      <4>3. acc + (bit * x) = acc + x
        <5>1. x \in Int
          BY <1>1, <1>2
        <5> HIDE DEF x, acc, bit
        <5>2. QED BY <5>1, <4>1
      <4>4. acc2 = (acc + (bit * x)) + (k * m)
        BY <4>1, <4>2, <4>3
      <4>5. QED BY <4>1, <4>4, <2>3, <2>6 DEF Congruent
    <3>2. CASE ~odd
      <4>1. low2 = s.low /\ high2 = s.high /\ bit = 0
        BY <3>2
      <4>2. x \in Int /\ acc \in Int
        BY <1>1, <1>2
      <4>3. acc2 = acc
        BY <4>1
      <4>4. acc = (acc + (bit * x)) + (0 * m)
        <5> HIDE DEF x, acc, bit, m
        <5>1. QED BY <4>1, <4>2, <1>2
      <4>5. low2 \in 0 .. WordMod - 1 /\ high2 \in 0 .. WordMod - 1
        BY <4>1, <1>1, <1>2, <1>4
      <4>6. acc2 = (acc + (bit * x)) + (0 * m)
        BY <4>3, <4>4
      <4> HIDE DEF acc2, acc, bit, x, m, low2, high2
      <4>7. Congruent(acc2, acc + (bit * x), m)
        BY <4>6 DEF Congruent
      <4>8. QED BY <4>5, <4>7
    <3>3. QED BY <3>1, <3>2
  <2>9. PICK i \in Int : acc + (s.v * x) = product + (i * m)
    BY DEF LowInv, Congruent
  <2>10. PICK j \in Int : x2 = (2 * x) + (j * m)
    BY <2>4 DEF Congruent
  <2>11. PICK q \in Int : acc2 = (acc + (bit * x)) + (q * m)
    BY <2>8 DEF Congruent
  <2>12. acc \in Int /\ x \in Int
    BY <1>1, <1>2
  <2>13. t \in Multiplying
    BY <2>2, <2>4, <2>8, <1>2 DEF Multiplying
  <2> HIDE DEF acc, x, acc2, x2, m, bit, low2, high2, p
  <2>14. acc2 + (h * x2) = product + ((q + i + (h * j)) * m) /\ q + i + (h * j) \in Int
    <3>1. h * x2 = (2 * (h * x)) + ((h * j) * m)
      BY <1>2, <2>2, <2>10, <2>12
    <3>2. s.v * x = (2 * (h * x)) + (bit * x)
      BY <2>2, <2>12
    <3>3. (q + i + (h * j)) * m = (q * m) + (i * m) + ((h * j) * m)
      BY <1>2, <2>2
    <3>4. /\ h * x \in Int /\ bit * x \in Int /\ (h * j) * m \in Int /\ q * m \in Int /\ i * m \in Int
          /\ q + i + (h * j) \in Int
      BY <1>2, <2>2, <2>12
    <3>5. QED BY <3>1, <3>2, <3>3, <3>4, <2>9, <2>11, <2>12
  <2>15. t.u = u2 /\ t.v = h /\ t.low = low2 /\ t.high = high2 /\ t.tmp = tmp2
    OBVIOUS
  <2> HIDE DEF t
  <2>16. ((t.high * WordMod) + t.low) + (t.v * ((t.tmp * WordMod) + t.u)) = product + ((q + i + (h * j)) * DwordMod)
    BY <2>14, <2>15 DEF acc2, x2, m
  <2>17. t.u < WordMod /\ t.low < WordMod /\ t.high < WordMod /\ t.tmp < WordMod /\ t.v < Pow2[bits]
    BY <2>2, <2>4, <2>8, <2>15, <1>2 DEF p
  <2>18. LowInv(product, bits, t)
    BY <2>14, <2>16, <2>17 DEF LowInv, Congruent
  <2>19. QED BY <2>1, <2>13, <2>18
<1>7. QED BY <1>5, <1>6

\* __multi3 returns a product (multi3.c).
LEMMA WideProductIsExact ==
  ASSUME NEW u \in 0 .. DwordMod - 1, NEW v \in 0 .. DwordMod - 1
  PROVE  __multi3(u, v) = (u * v) % DwordMod
<1> DEFINE hu == Hi(u)
           lu == Lo(u)
           hv == Hi(v)
           lv == Lo(v)
           from == [u |-> lu, v |-> lv, low |-> 0, high |-> 0, tmp |-> 0]
           Inv == [k \in 0 .. Bits |-> {s \in Multiplying : LowInv(lu * lv, Bits - k, s)}]
           w == Loop(lowStep, from, Bits)
<1>1. /\ hu \in 0 .. WordMod - 1 /\ lu \in 0 .. WordMod - 1 /\ u = (hu * WordMod) + lu
      /\ hv \in 0 .. WordMod - 1 /\ lv \in 0 .. WordMod - 1 /\ v = (hv * WordMod) + lv
  BY Words DEF Dword
<1>2. /\ Bits \in Nat /\ WordMod \in Nat /\ WordMod >= 1 /\ DwordMod = WordMod * WordMod
      /\ DwordMod \in Nat /\ DwordMod >= 1 /\ WordMod = Pow2[Bits] /\ WordMod \div 2 \in Nat /\ WordMod \div 2 >= 1
  <2>1. WordMod = 2 * Pow2[Bits - 1] /\ WordMod >= 4 /\ WordMod \in Nat /\ DwordMod \in Nat /\ Bits \in Nat
    BY Sizes
  <2>2. DwordMod = WordMod * WordMod /\ WordMod * WordMod >= 1
    BY <2>1, Sizes
  <2>3. QED BY <2>1, <2>2 DEF WordMod
<1>3. __multi3(u, v) = Dword((w.high + ((lv * hu) % WordMod) + ((lu * hv) % WordMod)) % WordMod, w.low)
  BY DEF __multi3, __muluw3
<1> HIDE DEF hu, lu, hv, lv
<1>4. lu * lv \in Nat /\ lv * hu \in Nat /\ lu * hv \in Nat
  BY <1>1, <1>2
<1>5. lowStep \in [Multiplying -> Multiplying]
  <2>1. SUFFICES ASSUME NEW s \in Multiplying PROVE lowStep[s] \in Multiplying
    BY DEF lowStep
  <2>2. s.u \in Nat /\ s.v \in Nat /\ s.low \in Nat /\ s.high \in Nat /\ s.tmp \in Nat
    BY DEF Multiplying
  <2>3. \A x \in Nat : x % WordMod \in Nat /\ x \div 2 \in Nat /\ x \div (WordMod \div 2) \in Nat
    BY <1>2
  <2> DEFINE low == (s.low + s.u) % WordMod
             carry == IF low < s.low THEN 1 ELSE 0
             sum == carry + s.tmp + s.high
             next == 2 * s.tmp + s.u \div (WordMod \div 2)
  <2>4. low \in Nat /\ sum \in Nat /\ next \in Nat /\ 2 * s.u \in Nat
    <3>1. s.low + s.u \in Nat /\ 2 * s.u \in Nat /\ 2 * s.tmp \in Nat
      BY <2>2
    <3>2. low \in Nat /\ carry \in {0, 1} /\ s.u \div (WordMod \div 2) \in Nat
      BY <3>1, <2>2, <2>3
    <3> DEFINE g == s.u \div (WordMod \div 2)
    <3> HIDE DEF low, carry, g
    <3>3. g \in Nat /\ next = (2 * s.tmp) + g
      BY <3>2 DEF g
    <3>4. QED BY <3>1, <3>2, <3>3, <2>2
  <2>5. lowStep[s] = IF s.v = 0 THEN s
          ELSE [u |-> (2 * s.u) % WordMod, v |-> s.v \div 2,
                low |-> IF s.v % 2 = 1 THEN low ELSE s.low,
                high |-> IF s.v % 2 = 1 THEN sum % WordMod ELSE s.high, tmp |-> next % WordMod]
    BY DEF lowStep
  <2> HIDE DEF low, sum, next
  <2>6. QED BY <2>2, <2>3, <2>4, <2>5 DEF Multiplying
<1>6. from \in Multiplying /\ LowInv(lu * lv, Bits, from)
  <2>1. /\ from.u = lu /\ from.v = lv /\ from.low = 0 /\ from.high = 0 /\ from.tmp = 0
        /\ from \in Multiplying
    BY <1>1, <1>2 DEF Multiplying
  <2> HIDE DEF from
  <2>2. ((0 * WordMod) + 0) + (lv * ((0 * WordMod) + lu)) = (lu * lv) + (0 * DwordMod)
    BY <1>1, <1>2
  <2>3. QED BY <2>1, <2>2, <1>1, <1>2 DEF LowInv, Congruent
<1> HIDE DEF from
<1>7. Counts(Multiplying, lowStep, from, Bits, Inv)
  <2>1. IsLoop(Multiplying, lowStep, from, Bits)
    BY <1>2, <1>5, <1>6 DEF IsLoop
  <2>2. from \in Inv[0]
    BY <1>2, <1>6
  <2>3. ASSUME NEW k \in Nat, NEW s \in Multiplying, k < Bits, s \in Inv[k] PROVE lowStep[s] \in Inv[k + 1]
    <3> DEFINE b == Bits - (k + 1)
    <3>1. b \in Nat /\ Bits - k = b + 1 /\ k \in 0 .. Bits /\ k + 1 \in 0 .. Bits
      BY <2>3, <1>2
    <3>2. LowInv(lu * lv, b + 1, s)
      BY <2>3, <3>1
    <3> HIDE DEF b
    <3>3. lowStep[s] \in Multiplying /\ LowInv(lu * lv, b, lowStep[s])
      BY <3>1, <3>2, <1>4, LowKept
    <3>4. QED BY <3>1, <3>3 DEF b
  <2> HIDE DEF Inv
  <2>4. QED BY <2>1, <2>2, <2>3 DEF Counts
<1>8. w \in Multiplying /\ w \in Inv[Bits]
  <2> HIDE DEF Inv, w
  <2>1. QED BY <1>7, LoopCount DEF w
<1>9. LowInv(lu * lv, 0, w)
  BY <1>2, <1>8
<1> HIDE DEF w
<1>10. w.u \in Nat /\ w.tmp \in Nat /\ w.v = 0 /\ w.low \in 0 .. WordMod - 1 /\ w.high \in 0 .. WordMod - 1
  BY <1>2, <1>8, <1>9, PowIs DEF LowInv, Multiplying
<1>11. PICK i \in Int : (w.high * WordMod) + w.low = (lu * lv) + (i * DwordMod)
  <2>1. w.v * ((w.tmp * WordMod) + w.u) = 0
    BY <1>2, <1>10
  <2>2. (w.high * WordMod) + w.low \in Int
    BY <1>2, <1>10
  <2>3. PICK i \in Int : ((w.high * WordMod) + w.low) + (w.v * ((w.tmp * WordMod) + w.u)) = (lu * lv) + (i * DwordMod)
    BY <1>9 DEF LowInv, Congruent
  <2>4. QED BY <2>1, <2>2, <2>3
<1> DEFINE x == (lv * hu) % WordMod
           y == (lu * hv) % WordMod
           z == (w.high + x + y) % WordMod
<1>12. x \in Nat /\ \E j \in Int : x = (lv * hu) + (j * WordMod)
  <2>1. Modulus(lv * hu, WordMod)
    BY <1>2, <1>4 DEF Modulus
  <2>2. QED BY <2>1, ModIsCongruent
<1>13. y \in Nat /\ \E j \in Int : y = (lu * hv) + (j * WordMod)
  <2>1. Modulus(lu * hv, WordMod)
    BY <1>2, <1>4 DEF Modulus
  <2>2. QED BY <2>1, ModIsCongruent
<1>14. PICK j \in Int, k \in Int : x = (lv * hu) + (j * WordMod) /\ y = (lu * hv) + (k * WordMod)
  BY <1>12, <1>13
<1> HIDE DEF x, y
<1>15. z \in 0 .. WordMod - 1 /\ \E l \in Int : z = (w.high + x + y) + (l * WordMod)
  <2>1. Modulus(w.high + x + y, WordMod)
    BY <1>2, <1>10, <1>12, <1>13 DEF Modulus
  <2>2. QED BY <2>1, ModIsCongruent
<1>16. PICK l \in Int : z = (w.high + x + y) + (l * WordMod)
  BY <1>15
<1>17. __multi3(u, v) = (z * WordMod) + w.low
  BY <1>3 DEF Dword, x, y
<1> HIDE DEF z
<1>18. (z * WordMod) + w.low \in 0 .. DwordMod - 1
  BY <1>10, <1>15, DwordIs DEF Dword
<1> DEFINE n == i + j + k + l - (hu * hv)
<1>19. (z * WordMod) + w.low = (u * v) + (n * DwordMod) /\ n \in Int
  <2> DEFINE m == WordMod
             a == lv * hu
             b == lu * hv
             c == hu * hv
             d == m * m
  <2>1. /\ z * m = (w.high * m) + (x * m) + (y * m) + (l * d)
        /\ x * m = (a * m) + (j * d) /\ y * m = (b * m) + (k * d)
    <3>1. z * m = (w.high * m) + (x * m) + (y * m) + (l * d)
      BY <1>16, <1>2, <1>10, <1>12, <1>13
    <3>2. x * m = (a * m) + (j * d) /\ y * m = (b * m) + (k * d)
      <4> HIDE DEF a, b, m
      <4>1. a \in Nat /\ b \in Nat /\ m \in Nat
        BY <1>2, <1>4 DEF a, b, m
      <4>2. x = a + (j * m) /\ y = b + (k * m)
        BY <1>14 DEF a, b, m
      <4>3. QED BY <4>1, <4>2
    <3>3. QED BY <3>1, <3>2
  <2>2. u * v = (c * d) + (a * m) + (b * m) + (lu * lv)
    <3>1. \A h1, l1, h2, l2, e \in Nat : ((h1 * e) + l1) * ((h2 * e) + l2) =
             ((h1 * h2) * (e * e)) + ((l2 * h1) * e) + ((l1 * h2) * e) + (l1 * l2)
      OBVIOUS
    <3>2. QED BY <3>1, <1>1, <1>2
  <2>3. a \in Int /\ b \in Int /\ c \in Int /\ d \in Int /\ m \in Int /\ d = DwordMod
    BY <1>1, <1>2
  <2> DEFINE wm == w.high * m
             xm == x * m
             ym == y * m
             am == a * m
             bm == b * m
             ld == l * d
             jd == j * d
             kd == k * d
             id == i * d
             cd == c * d
             ll == lu * lv
  <2>4. /\ wm \in Int /\ am \in Int /\ bm \in Int /\ ld \in Int /\ jd \in Int /\ kd \in Int
        /\ id \in Int /\ cd \in Int /\ ll \in Int
    BY <2>3, <1>1, <1>10
  <2>5. wm + w.low = ll + id
    BY <1>11, <2>3
  <2>6. n * DwordMod = id + jd + kd + ld - cd /\ n \in Int
    <3> HIDE DEF c, d
    <3>1. n = i + j + k + l - c
      BY DEF c
    <3>2. QED BY <2>3, <3>1
  <2> DEFINE zm == z * m
             uv == u * v
             nd == n * DwordMod
  <2>7. zm = wm + xm + ym + ld /\ xm = am + jd /\ ym = bm + kd /\ uv = cd + am + bm + ll /\ nd = id + jd + kd + ld - cd
    BY <2>1, <2>2, <2>6
  <2> HIDE DEF a, b, c, d, m, wm, xm, ym, am, bm, ld, jd, kd, id, cd, ll, n, zm, uv, nd
  <2>8. zm + w.low = uv + nd
    BY <2>4, <2>5, <2>7, <1>10
  <2>9. QED BY <2>6, <2>8 DEF zm, m, uv, nd
<1> HIDE DEF n
<1>20. u * v \in Int /\ (z * WordMod) + w.low \in Int
  BY <1>2, <1>10, <1>15
<1>21. Congruent((z * WordMod) + w.low, u * v, DwordMod)
  BY <1>19 DEF Congruent
<1>22. ((z * WordMod) + w.low) % DwordMod = (u * v) % DwordMod
  BY <1>2, <1>20, <1>21, CongruentMod
<1>23. ((z * WordMod) + w.low) % DwordMod = (z * WordMod) + w.low
  BY <1>2, <1>18
<1>24. QED BY <1>17, <1>22, <1>23

----------------------------------------------------------------------------
(* The division of div.S.                                                  *)

\* Half of the double words are negative.
LEMMA Halves ==
  LET h == DwordMod \div 2
  IN  /\ h \in Nat /\ h >= 4 /\ DwordMod = 2 * h /\ DwordMod \in Nat
      /\ \E g \in Nat : h = 2 * g
      /\ \A x : Negative(x) <=> x >= h
<1>1. PICK g \in Nat : WordMod = 2 * g
  <2>1. Bits - 1 \in Nat /\ WordMod = 2 * Pow2[Bits - 1]
    BY Sizes
  <2>2. QED BY <2>1, PowIs
<1>2. WordMod \in Nat /\ WordMod >= 4 /\ DwordMod = WordMod * WordMod /\ DwordMod \in Nat
  BY Sizes
<1>3. g >= 2
  BY <1>1, <1>2
<1>4. DwordMod = 2 * (2 * (g * g)) /\ 2 * (g * g) \in Nat /\ g * g \in Nat
  BY <1>1, <1>2
<1>5. 2 * (g * g) >= 4
  <2>1. 2 * 2 <= 2 * g /\ 2 * g <= g * g
    BY <1>1, <1>3
  <2>2. QED BY <2>1, <1>4
<1>6. DwordMod \div 2 = 2 * (g * g)
  <2> DEFINE h == 2 * (g * g)
  <2>1. h \in Nat /\ DwordMod = 2 * h
    BY <1>4
  <2> HIDE DEF h
  <2>2. DwordMod \div 2 = h
    BY <2>1, HalfOf
  <2>3. QED BY <2>2 DEF h
<1>7. QED BY <1>2, <1>4, <1>5, <1>6 DEF Negative

\* After k iterations of .L1 the divisor d was moved k places, or the loop has ended.
Aligned(n, s) == n <= s.a2 \/ Negative(s.a2)
AlignInv(n, d, k, s) ==
  \E j \in Nat : /\ j = k \/ Aligned(n, s)
                 /\ s.a3 = Pow2[j] /\ s.a2 = d * Pow2[j] /\ s.a2 < DwordMod

\* An iteration of the first loop of __udivdi3 doubles divisor and quotient bit.
LEMMA AlignKept ==
  ASSUME NEW n \in Nat, NEW d \in Nat, d >= 1, NEW k \in Nat, NEW s \in Aligning, AlignInv(n, d, k, s)
  PROVE  alignStep(n)[s] \in Aligning /\ AlignInv(n, d, k + 1, alignStep(n)[s])
<1> DEFINE h == DwordMod \div 2
           t == [a2 |-> (2 * s.a2) % DwordMod, a3 |-> (2 * s.a3) % DwordMod]
<1>1. s.a2 \in Nat /\ s.a3 \in Nat
  BY DEF Aligning
<1>2. h \in Nat /\ DwordMod = 2 * h /\ DwordMod \in Nat /\ \A x : Negative(x) <=> x >= h
  BY Halves
<1>3. CASE Aligned(n, s)
  <2>1. alignStep(n)[s] = s
    BY <1>3 DEF alignStep, Aligned
  <2>2. QED BY <2>1, <1>3 DEF AlignInv
<1>4. CASE ~Aligned(n, s)
  <2> DEFINE p == Pow2[k]
  <2>1. s.a3 = p /\ s.a2 = d * p
    BY <1>4 DEF AlignInv
  <2>2. p \in Nat /\ p >= 1 /\ Pow2[k + 1] = 2 * p
    BY PowIs
  <2>3. s.a2 < h
    BY <1>1, <1>2, <1>4 DEF Aligned
  <2> HIDE DEF p, h
  <2>4. p <= d * p
    BY <2>2
  <2>5. s.a2 # 0 /\ 2 * s.a2 < DwordMod /\ 2 * s.a3 < DwordMod
    BY <1>1, <1>2, <2>1, <2>2, <2>3, <2>4
  <2>6. (2 * s.a2) % DwordMod = 2 * s.a2 /\ (2 * s.a3) % DwordMod = 2 * s.a3
    BY <2>5, <1>1, <1>2
  <2>7. alignStep(n)[s] = t
    BY <2>5, <1>4 DEF alignStep, Aligned
  <2>8. t.a2 = 2 * s.a2 /\ t.a3 = 2 * s.a3 /\ t \in Aligning
    BY <2>6, <1>1 DEF Aligning
  <2> HIDE DEF t
  <2>9. 2 * (d * p) = d * (2 * p)
    BY <2>2
  <2>10. t.a3 = Pow2[k + 1] /\ t.a2 = d * Pow2[k + 1] /\ t.a2 < DwordMod
    BY <2>1, <2>2, <2>5, <2>8, <2>9
  <2>11. QED BY <2>7, <2>8, <2>10 DEF AlignInv
<1>5. QED BY <1>3, <1>4

\* After the first loop the divisor has been doubled as often as it goes.
LEMMA AlignIs ==
  ASSUME NEW n \in 0 .. DwordMod - 1, NEW d \in 1 .. DwordMod - 1
  PROVE  LET s == Loop(alignStep(n), [a2 |-> d, a3 |-> 1], 2 * Bits)
         IN  /\ s \in Aligning /\ s.a2 < DwordMod /\ n < 2 * s.a2
             /\ \E j \in Nat : s.a3 = Pow2[j] /\ s.a2 = d * Pow2[j] /\ s.a3 < DwordMod
<1> DEFINE m == 2 * Bits
           step == alignStep(n)
           from == [a2 |-> d, a3 |-> 1]
           Inv == [k \in 0 .. m |-> {s \in Aligning : AlignInv(n, d, k, s)}]
           s == Loop(step, from, m)
           h == DwordMod \div 2
<1>1. m \in Nat /\ DwordMod \in Nat /\ DwordMod = Pow2[m] /\ n \in Nat /\ d \in Nat /\ d >= 1 /\ d < DwordMod /\ n < DwordMod
  BY Sizes DEF DwordMod
<1>2. h \in Nat /\ h >= 4 /\ DwordMod = 2 * h /\ \A x : Negative(x) <=> x >= h
  BY Halves
<1> HIDE DEF h, m
<1>3. step \in [Aligning -> Aligning]
  <2>1. SUFFICES ASSUME NEW t \in Aligning PROVE step[t] \in Aligning
    BY DEF alignStep
  <2>2. \A x \in Nat : x % DwordMod \in Nat
    BY <1>1, <1>2
  <2>3. t.a2 \in Nat /\ t.a3 \in Nat /\ 2 * t.a2 \in Nat /\ 2 * t.a3 \in Nat
    BY DEF Aligning
  <2>4. QED BY <2>2, <2>3 DEF alignStep, Aligning
<1>4. from \in Aligning /\ AlignInv(n, d, 0, from)
  <2>1. from.a2 = d /\ from.a3 = 1 /\ from \in Aligning
    BY <1>1 DEF Aligning
  <2>2. d * 1 = d
    BY <1>1
  <2>3. QED BY <2>1, <2>2, <1>1, PowIs DEF AlignInv
<1> HIDE DEF step, from
<1>5. Counts(Aligning, step, from, m, Inv)
  <2>1. IsLoop(Aligning, step, from, m)
    BY <1>1, <1>3, <1>4 DEF IsLoop
  <2>2. from \in Inv[0]
    BY <1>1, <1>4
  <2>3. ASSUME NEW k \in Nat, NEW t \in Aligning, k < m, t \in Inv[k] PROVE step[t] \in Inv[k + 1]
    <3>1. k \in 0 .. m /\ k + 1 \in 0 .. m
      BY <2>3, <1>1
    <3>2. AlignInv(n, d, k, t)
      BY <2>3, <3>1
    <3>3. step[t] \in Aligning /\ AlignInv(n, d, k + 1, step[t])
      BY <3>2, <1>1, AlignKept DEF step
    <3>4. QED BY <3>1, <3>3
  <2> HIDE DEF Inv
  <2>4. QED BY <2>1, <2>2, <2>3 DEF Counts
<1>6. s \in Aligning /\ s \in Inv[m]
  <2> HIDE DEF Inv, s
  <2>1. QED BY <1>5, LoopCount DEF s
<1>7. AlignInv(n, d, m, s)
  BY <1>1, <1>6
<1> HIDE DEF s
<1>8. PICK j \in Nat : (j = m \/ Aligned(n, s)) /\ s.a3 = Pow2[j] /\ s.a2 = d * Pow2[j] /\ s.a2 < DwordMod
  BY <1>7 DEF AlignInv
<1> DEFINE p == Pow2[j]
<1>9. p \in Nat /\ p >= 1 /\ s.a2 \in Nat
  BY <1>6, PowIs DEF Aligning
<1>10. p <= d * p /\ 1 <= d * p
  <2> HIDE DEF p
  <2>1. QED BY <1>1, <1>9
<1>11. j # m
  BY <1>1, <1>8, <1>9, <1>10
<1>12. n < 2 * s.a2
  BY <1>1, <1>2, <1>8, <1>9, <1>10, <1>11 DEF Aligned
<1>13. s.a3 < DwordMod
  BY <1>1, <1>8, <1>9, <1>10
<1>14. QED BY <1>6, <1>8, <1>12, <1>13 DEF s, m, step, from

\* What is subtracted and what is left are the dividend, and no more is left than
\* the bits that are to come can divide.
SubInv(n, d, bits, s) ==
  /\ n = (s.a0 * d) + s.a1 /\ s.a3 < Pow2[bits]
  /\ \/ s.a3 = 0 /\ s.a1 < d
     \/ \E i \in Nat : s.a3 = Pow2[i] /\ s.a2 = d * Pow2[i] /\ s.a1 < 2 * s.a2

\* An iteration of the second loop keeps quotient, remainder and bit in agreement.
LEMMA SubKept ==
  ASSUME NEW n \in Nat, NEW d \in Nat, d >= 1, NEW bits \in Nat,
         NEW s \in Subtracting, SubInv(n, d, bits + 1, s)
  PROVE  subtractStep[s] \in Subtracting /\ SubInv(n, d, bits, subtractStep[s])
<1> DEFINE fits == s.a1 >= s.a2
           a0 == IF fits THEN s.a0 + s.a3 ELSE s.a0
           a1 == IF fits THEN s.a1 - s.a2 ELSE s.a1
           a2 == s.a2 \div 2
           a3 == s.a3 \div 2
           t == [a0 |-> a0, a1 |-> a1, a2 |-> a2, a3 |-> a3]
           q == Pow2[bits]
<1>1. s.a0 \in Nat /\ s.a1 \in Nat /\ s.a2 \in Nat /\ s.a3 \in Nat
  BY DEF Subtracting
<1>2. q \in Nat /\ q >= 1 /\ Pow2[bits + 1] = 2 * q
  BY PowIs
<1>3. CASE s.a3 = 0
  <2>1. subtractStep[s] = s
    BY <1>3 DEF subtractStep
  <2>2. SubInv(n, d, bits, s)
    <3>1. n = (s.a0 * d) + s.a1 /\ s.a3 < Pow2[bits]
      BY <1>2, <1>3 DEF SubInv
    <3>2. \A i \in Nat : s.a3 # Pow2[i]
      BY <1>3, PowIs
    <3>3. s.a1 < d
      BY <3>2 DEF SubInv
    <3>4. QED BY <3>1, <3>3, <1>3 DEF SubInv
  <2>3. QED BY <2>1, <2>2
<1>4. CASE s.a3 # 0
  <2>1. subtractStep[s] = t
    BY <1>4 DEF subtractStep
  <2>2. PICK i \in Nat : s.a3 = Pow2[i] /\ s.a2 = d * Pow2[i] /\ s.a1 < 2 * s.a2
    BY <1>4 DEF SubInv
  <2>3. n = (s.a0 * d) + s.a1 /\ s.a3 < 2 * q
    BY <1>2 DEF SubInv
  <2>4. a0 \in Nat /\ a1 \in Nat /\ a2 \in Nat /\ a3 \in Nat /\ a1 < s.a2 /\ a3 < q
    <3> HIDE DEF q
    <3>1. QED BY <1>1, <1>2, <2>2, <2>3
  <2>5. n = (a0 * d) + a1
    <3>1. CASE fits
      <4> DEFINE p == Pow2[i]
      <4>1. p \in Nat /\ s.a3 = p /\ s.a2 = d * p /\ a0 = s.a0 + p /\ a1 = s.a1 - d * p
        BY <2>2, <3>1, PowIs
      <4> HIDE DEF p, a0, a1
      <4>2. a0 * d = (s.a0 * d) + (d * p) /\ s.a0 * d \in Int /\ d * p \in Int
        BY <4>1, <1>1
      <4>3. QED BY <4>1, <4>2, <2>3, <1>1
    <3>2. CASE ~fits
      BY <3>2, <2>3
    <3>3. QED BY <3>1, <3>2
  <2>6. \/ a3 = 0 /\ a1 < d
        \/ \E e \in Nat : a3 = Pow2[e] /\ a2 = d * Pow2[e] /\ a1 < 2 * a2
    <3>1. CASE i = 0
      <4>1. s.a3 = 1 /\ s.a2 = d
        BY <2>2, <3>1, PowIs
      <4>2. QED BY <4>1, <2>4
    <3>2. CASE i # 0
      <4> DEFINE e == i - 1
                 p == Pow2[e]
      <4>1. e \in Nat /\ Pow2[i] = 2 * p /\ p \in Nat
        BY <3>2, PowDown
      <4> HIDE DEF e, p
      <4>2. s.a3 = 2 * p /\ s.a2 = 2 * (d * p) /\ d * p \in Nat
        BY <4>1, <2>2
      <4>3. a3 = p /\ a2 = d * p
        BY <4>1, <4>2, HalfOf
      <4>4. a1 < 2 * a2
        BY <4>2, <4>3, <2>4
      <4>5. QED BY <4>1, <4>3, <4>4 DEF p
    <3>3. QED BY <3>1, <3>2
  <2>7. t \in Subtracting /\ t.a0 = a0 /\ t.a1 = a1 /\ t.a2 = a2 /\ t.a3 = a3
    BY <2>4 DEF Subtracting
  <2> HIDE DEF a0, a1, a2, a3, t
  <2>8. SubInv(n, d, bits, t)
    BY <2>4, <2>5, <2>6, <2>7 DEF SubInv
  <2>9. QED BY <2>1, <2>7, <2>8
<1>5. QED BY <1>3, <1>4

\* __udivdi3 of div.S divides, by zero too.
LEMMA AsmDivides ==
  ASSUME NEW n \in 0 .. DwordMod - 1, NEW d \in 0 .. DwordMod - 1
  PROVE  __udivdi3_asm(n, d) = DivU(n, d)
<1>1. CASE d = 0
  BY <1>1 DEF __udivdi3_asm, DivU
<1>2. CASE d # 0
  <2> DEFINE m == 2 * Bits
             first == Loop(alignStep(n), [a2 |-> d, a3 |-> 1], m)
             from == [a0 |-> 0, a1 |-> n, a2 |-> first.a2, a3 |-> first.a3]
             Inv == [k \in 0 .. m |-> {s \in Subtracting : SubInv(n, d, m - k, s)}]
             end == Loop(subtractStep, from, m)
  <2>1. __udivdi3_asm(n, d) = Divide(end.a0, end.a1)
    BY <1>2 DEF __udivdi3_asm
  <2>2. m \in Nat /\ DwordMod \in Nat /\ DwordMod = Pow2[m] /\ n \in Nat /\ d \in Nat /\ d >= 1
    BY <1>2, Sizes DEF DwordMod
  <2>3. /\ first \in Aligning /\ first.a2 < DwordMod /\ n < 2 * first.a2
        /\ \E j \in Nat : first.a3 = Pow2[j] /\ first.a2 = d * Pow2[j] /\ first.a3 < DwordMod
    <3>1. d \in 1 .. DwordMod - 1
      BY <2>2
    <3>2. QED BY <3>1, AlignIs
  <2> HIDE DEF m, first
  <2>4. subtractStep \in [Subtracting -> Subtracting]
    <3>1. SUFFICES ASSUME NEW s \in Subtracting PROVE subtractStep[s] \in Subtracting
      BY DEF subtractStep
    <3>2. s.a0 \in Nat /\ s.a1 \in Nat /\ s.a2 \in Nat /\ s.a3 \in Nat
      BY DEF Subtracting
    <3>3. s.a2 \div 2 \in Nat /\ s.a3 \div 2 \in Nat /\ s.a0 + s.a3 \in Nat /\ (s.a1 >= s.a2 => s.a1 - s.a2 \in Nat)
      BY <3>2
    <3>4. QED BY <3>2, <3>3 DEF subtractStep, Subtracting
  <2>5. from \in Subtracting /\ SubInv(n, d, m, from)
    <3>1. from.a0 = 0 /\ from.a1 = n /\ from.a2 = first.a2 /\ from.a3 = first.a3 /\ from \in Subtracting
      BY <2>2, <2>3 DEF Subtracting, Aligning
    <3>2. n = (0 * d) + n
      BY <2>2
    <3> HIDE DEF from
    <3>3. QED BY <3>1, <3>2, <2>2, <2>3 DEF SubInv
  <2> HIDE DEF from
  <2>6. Counts(Subtracting, subtractStep, from, m, Inv)
    <3>1. IsLoop(Subtracting, subtractStep, from, m)
      BY <2>2, <2>4, <2>5 DEF IsLoop
    <3>2. from \in Inv[0]
      BY <2>2, <2>5
    <3>3. ASSUME NEW k \in Nat, NEW s \in Subtracting, k < m, s \in Inv[k] PROVE subtractStep[s] \in Inv[k + 1]
      <4> DEFINE b == m - (k + 1)
      <4>1. b \in Nat /\ m - k = b + 1 /\ k \in 0 .. m /\ k + 1 \in 0 .. m
        BY <3>3, <2>2
      <4>2. SubInv(n, d, b + 1, s)
        BY <3>3, <4>1
      <4> HIDE DEF b
      <4>3. subtractStep[s] \in Subtracting /\ SubInv(n, d, b, subtractStep[s])
        BY <4>1, <4>2, <2>2, SubKept
      <4>4. QED BY <4>1, <4>3 DEF b
    <3> HIDE DEF Inv
    <3>4. QED BY <3>1, <3>2, <3>3 DEF Counts
  <2>7. end \in Subtracting /\ end \in Inv[m]
    <3> HIDE DEF Inv, end
    <3>1. QED BY <2>6, LoopCount DEF end
  <2>8. SubInv(n, d, 0, end)
    BY <2>2, <2>7
  <2> HIDE DEF end
  <2>9. end.a0 \in Nat /\ end.a1 \in Nat /\ n = (end.a0 * d) + end.a1 /\ end.a1 < d
    <3>1. end.a0 \in Nat /\ end.a1 \in Nat /\ end.a3 \in Nat /\ end.a3 < 1
      BY <2>7, <2>8, PowIs DEF SubInv, Subtracting
    <3>2. end.a3 = 0 /\ \A i \in Nat : Pow2[i] # 0
      BY <3>1, PowIs
    <3>3. QED BY <3>1, <3>2, <2>8 DEF SubInv
  <2>10. Euclid(n, d, end.a0, end.a1)
    BY <2>2, <2>9 DEF Euclid
  <2>11. n \div d = end.a0 /\ n % d = end.a1
    BY <2>10, DivIs
  <2>12. QED BY <2>1, <2>11, <1>2 DEF DivU
<1>3. QED BY <1>1, <1>2

----------------------------------------------------------------------------
(* The division of int64.c.                                                *)

\* k more bits of the dividend n are to be moved out of q, x of its bits, and under
\* them are the bits y of the quotient but for the last one, which is the carry.
\* A divisor with the sign bit is only divided by once.
UdivIs(n, d, s, x, y) ==
  LET k == s.sr
      h == DwordMod \div 2
  IN  /\ k <= 2 * Bits /\ x < Pow2[k] /\ y < Pow2[2 * Bits - k]
      /\ s.q = (x * Pow2[2 * Bits - k]) + y
      /\ n = ((((2 * y) + s.carry) * d + s.r) * Pow2[k]) + x
      /\ s.r < d
      /\ k = 0 \/ d < h \/ (k = 1 /\ s.r < h /\ 2 * s.r >= h)
UdivInv(n, d, s) == \E x, y \in Nat : UdivIs(n, d, s, x, y)

\* What the sign of a difference tells about divisor and remainder.
LEMMA BorrowIs ==
  ASSUME NEW d \in Nat, NEW r \in Nat, d < DwordMod, r < DwordMod, r < 2 * d,
         d < DwordMod \div 2 \/ r >= DwordMod \div 2
  PROVE  Negative((d - r - 1) % DwordMod) <=> r >= d
<1> DEFINE h == DwordMod \div 2
           m == DwordMod
           e == d - r - 1
<1>1. h \in Nat /\ h >= 4 /\ m = 2 * h /\ m \in Nat /\ \A x : Negative(x) <=> x >= h
  BY Halves
<1>2. r < m /\ d < m /\ (d < h \/ r >= h)
  OBVIOUS
<1> HIDE DEF h, m
<1>3. CASE r < d
  <2>1. e \in 0 .. h - 1 /\ e < m
    BY <1>1, <1>2, <1>3
  <2> HIDE DEF e
  <2>2. e % m = e
    BY <2>1, <1>1
  <2>3. QED BY <1>1, <1>3, <2>1, <2>2 DEF e, m
<1>4. CASE r >= d
  <2>1. e + m \in h .. m - 1 /\ e \in Int
    BY <1>1, <1>2, <1>4
  <2> HIDE DEF e
  <2>2. Euclid(e, m, -1, e + m)
    BY <2>1, <1>1 DEF Euclid
  <2>3. e % m = e + m
    BY <2>2, DivIs
  <2>4. QED BY <1>1, <1>4, <2>1, <2>3 DEF e, m
<1>5. QED BY <1>3, <1>4

\* An iteration of the loop of __udivmoddi4 moves one bit into the quotient.
LEMMA UdivKept ==
  ASSUME NEW n \in 0 .. DwordMod - 1, NEW d \in 1 .. DwordMod - 1, NEW s \in Shifting, UdivInv(n, d, s), s.sr # 0
  PROVE  /\ udivStep(d)[s] \in Shifting /\ UdivInv(n, d, udivStep(d)[s])
         /\ udivStep(d)[s].sr = s.sr - 1
<1> DEFINE m == DwordMod
           h == DwordMod \div 2
           k == s.sr
           e == k - 1
           c == s.carry
           top == s.q \div h
           r1 == (2 * s.r + top) % m
           borrow == Negative((d - r1 - 1) % m)
           t == [q |-> ShiftIn(s), r |-> IF borrow THEN (r1 - d) % m ELSE r1,
                 sr |-> k - 1, carry |-> IF borrow THEN 1 ELSE 0]
           p == Pow2[e]
           b == Pow2[2 * Bits - k]
<1>1. /\ m \in Nat /\ h \in Nat /\ h >= 4 /\ m = 2 * h /\ n \in Nat /\ n < m /\ d \in Nat /\ d >= 1 /\ d < m
      /\ s.q \in Nat /\ s.r \in Nat /\ k \in Nat /\ k >= 1 /\ c \in {0, 1}
  BY Halves DEF Shifting
<1>2. udivStep(d)[s] = t
  BY DEF udivStep
<1>3. PICK x \in Nat, y \in Nat : UdivIs(n, d, s, x, y)
  BY DEF UdivInv
<1>4. /\ x < Pow2[k] /\ y < b /\ s.q = (x * b) + y /\ k <= 2 * Bits
      /\ n = ((((2 * y) + c) * d + s.r) * Pow2[k]) + x
      /\ s.r < d /\ (d < h \/ (k = 1 /\ s.r < h /\ 2 * s.r >= h))
  BY <1>1, <1>3 DEF UdivIs
<1>5. /\ e \in Nat /\ Pow2[k] = 2 * p /\ p \in Nat /\ p >= 1 /\ b \in Nat /\ b >= 1 /\ m = 2 * (p * b)
      /\ Pow2[2 * Bits - e] = 2 * b
  <2>1. Bits \in Nat /\ e \in Nat /\ 2 * Bits - k \in Nat /\ (2 * Bits - k) + 1 = 2 * Bits - e
    BY <1>1, <1>4, Sizes
  <2>2. Pow2[k] = 2 * p /\ p \in Nat /\ p >= 1
    BY <1>1, PowDown
  <2>3. b \in Nat /\ b >= 1 /\ Pow2[2 * Bits - e] = 2 * b
    BY <2>1, PowIs
  <2>4. Exponents(k, 2 * Bits - k, 2 * Bits)
    BY <2>1, <1>1 DEF Exponents
  <2>5. m = Pow2[k] * b
    BY <2>4, PowAdd DEF DwordMod
  <2> HIDE DEF p, b, m
  <2>6. m = 2 * (p * b)
    BY <2>2, <2>3, <2>5
  <2>7. QED BY <2>1, <2>2, <2>3, <2>6
<1> HIDE DEF m, h, p, b
<1>6. h = p * b
  <2>1. p * b \in Nat
    BY <1>5
  <2>2. QED BY <2>1, <1>1, <1>5
\* The bit that leaves q.
<1> DEFINE bit == IF x >= p THEN 1 ELSE 0
           x1 == x - (bit * p)
           y1 == (2 * y) + c
<1>7. bit \in {0, 1} /\ x1 \in Nat /\ x1 < p /\ x = (bit * p) + x1
  BY <1>4, <1>5
<1> HIDE DEF bit, x1
<1>8. s.q = (bit * h) + ((x1 * b) + y) /\ (x1 * b) + y \in Nat /\ (x1 * b) + y < h
  <2>1. x * b = (bit * (p * b)) + (x1 * b)
    BY <1>5, <1>7
  <2>2. (x1 + 1) * b <= p * b /\ (x1 + 1) * b = (x1 * b) + b /\ x1 * b \in Nat
    BY <1>5, <1>7
  <2>3. bit * h \in Nat
    BY <1>1, <1>7
  <2>4. QED BY <2>1, <2>2, <2>3, <1>4, <1>5, <1>6
<1>9. top = bit
  <2>1. Euclid(s.q, h, bit, (x1 * b) + y)
    BY <1>1, <1>7, <1>8 DEF Euclid
  <2>2. QED BY <2>1, DivIs
<1>10. y1 \in Nat /\ y1 < 2 * b
  BY <1>1, <1>4, <1>5
<1>11. ShiftIn(s) = (x1 * (2 * b)) + y1
  <2>1. ShiftIn(s) = (2 * s.q + c) % m
    BY DEF ShiftIn, m
  <2>2. 2 * s.q + c = (bit * m) + ((2 * (x1 * b)) + y1)
    <3>1. 2 * (bit * h) = bit * m
      BY <1>1, <1>7
    <3>2. bit * h \in Nat /\ x1 * b \in Nat
      BY <1>1, <1>5, <1>7
    <3>3. QED BY <3>1, <3>2, <1>1, <1>8
  <2>3. 2 * (x1 * b) = x1 * (2 * b) /\ x1 * b \in Nat
    BY <1>5, <1>7
  <2>4. (2 * (x1 * b)) + y1 \in Nat /\ (2 * (x1 * b)) + y1 < m
    BY <2>3, <1>1, <1>8, <1>10
  <2>5. Euclid(2 * s.q + c, m, bit, (2 * (x1 * b)) + y1)
    BY <2>2, <2>4, <1>1, <1>7 DEF Euclid
  <2>6. QED BY <2>1, <2>3, <2>5, DivIs
<1>12. r1 = 2 * s.r + bit /\ r1 \in Nat /\ r1 < m /\ r1 < 2 * d
  <2>1. 2 * s.r + bit \in Nat /\ 2 * s.r + bit < 2 * d /\ 2 * s.r + bit < m
    BY <1>1, <1>4, <1>7
  <2>2. (2 * s.r + bit) % m = 2 * s.r + bit
    BY <2>1, <1>1
  <2>3. QED BY <2>1, <2>2, <1>9
<1> HIDE DEF top, r1
<1>13. d < h \/ r1 >= h
  BY <1>1, <1>4, <1>7, <1>12
<1>14. borrow <=> r1 >= d
  BY <1>1, <1>12, <1>13, BorrowIs DEF m, h
<1> DEFINE r2 == IF r1 >= d THEN r1 - d ELSE r1
           c2 == IF r1 >= d THEN 1 ELSE 0
<1>15. t.q = (x1 * (2 * b)) + y1 /\ t.r = r2 /\ t.sr = e /\ t.carry = c2
  <2>1. r1 >= d => (r1 - d) % m = r1 - d
    <3>1. SUFFICES ASSUME r1 >= d PROVE (r1 - d) % m = r1 - d
      OBVIOUS
    <3> DEFINE f == r1 - d
    <3>2. f \in Nat /\ f < m
      BY <3>1, <1>1, <1>12
    <3> HIDE DEF f
    <3>3. f % m = f
      BY <3>2, <1>1
    <3>4. QED BY <3>3 DEF f
  <2>2. t.r = IF borrow THEN (r1 - d) % m ELSE r1
    OBVIOUS
  <2>3. t.carry = IF borrow THEN 1 ELSE 0
    OBVIOUS
  <2>4. QED BY <2>1, <2>2, <2>3, <1>11, <1>14
<1>16. r2 \in Nat /\ r2 < d /\ c2 \in {0, 1} /\ r1 = (c2 * d) + r2
  BY <1>1, <1>12
<1>17. t \in Shifting
  <2>1. ShiftIn(s) \in Nat
    <3>1. x1 * (2 * b) \in Nat
      BY <1>5, <1>7
    <3>2. QED BY <3>1, <1>10, <1>11
  <2>2. t.r \in Nat /\ t.carry \in {0, 1}
    BY <1>15, <1>16
  <2>3. QED BY <2>1, <2>2, <1>1, <1>5 DEF Shifting
<1>18. n = ((((2 * y1) + c2) * d + r2) * p) + x1
  <2>1. n = (((y1 * d) + s.r) * (2 * p)) + (bit * p) + x1
    <3> DEFINE w == ((y1 * d) + s.r) * (2 * p)
               g == bit * p
    <3>1. n = w + x /\ x = g + x1
      BY <1>4, <1>5, <1>7
    <3>2. y1 * d \in Nat
      <4> HIDE DEF y1
      <4>1. QED BY <1>1, <1>10
    <3>3. w \in Int /\ g \in Int
      <4> HIDE DEF y1
      <4>1. QED BY <3>2, <1>1, <1>5, <1>7
    <3> HIDE DEF w, g
    <3>4. n = w + g + x1
      BY <3>1, <3>3, <1>7
    <3>5. QED BY <3>4 DEF w, g
  <2>2. ((y1 * d) + s.r) * (2 * p) = ((2 * (y1 * d)) + (2 * s.r)) * p
    <3>1. y1 * d \in Nat
      BY <1>1, <1>10
    <3>2. QED BY <3>1, <1>1, <1>5
  <2>3. (((2 * (y1 * d)) + (2 * s.r)) * p) + (bit * p) = ((2 * (y1 * d)) + r1) * p
    <3>1. \A a, f, g, w \in Nat : (((2 * a) + (2 * f)) * w) + (g * w) = ((2 * a) + ((2 * f) + g)) * w
      OBVIOUS
    <3> HIDE DEF y1
    <3>2. y1 * d \in Nat /\ s.r \in Nat /\ bit \in Nat /\ p \in Nat
      BY <1>1, <1>5, <1>7, <1>10
    <3>3. (((2 * (y1 * d)) + (2 * s.r)) * p) + (bit * p) = ((2 * (y1 * d)) + ((2 * s.r) + bit)) * p
      BY <3>1, <3>2
    <3>4. QED BY <3>3, <1>12
  <2>4. (2 * (y1 * d)) + r1 = (((2 * y1) + c2) * d) + r2
    <3>1. ((2 * y1) + c2) * d = (2 * (y1 * d)) + (c2 * d) /\ y1 * d \in Nat /\ c2 * d \in Nat
      <4> HIDE DEF c2, y1
      <4>1. QED BY <1>1, <1>10, <1>16
    <3> HIDE DEF c2, y1, r2
    <3>2. QED BY <3>1, <1>12, <1>16
  <2> DEFINE a == ((y1 * d) + s.r) * (2 * p)
             g == bit * p
             f == ((2 * (y1 * d)) + r1) * p
  <2>5. a \in Int /\ g \in Int /\ f \in Int
    <3> HIDE DEF y1
    <3>1. y1 * d \in Nat
      BY <1>1, <1>10
    <3>2. QED BY <3>1, <1>1, <1>5, <1>7, <1>12
  <2>6. n = a + g + x1 /\ a + g = f
    BY <2>1, <2>2, <2>3
  <2>7. f = (((2 * y1) + c2) * d + r2) * p
    BY <2>4
  <2> HIDE DEF a, g, f
  <2>8. n = f + x1
    BY <2>5, <2>6, <1>7
  <2>9. QED BY <2>7, <2>8
<1>19. e <= 2 * Bits /\ (e = 0 \/ d < h)
  BY <1>1, <1>4, Sizes
<1> HIDE DEF t, e, y1, c2, r2
<1>20. UdivIs(n, d, t, x1, y1)
  BY <1>5, <1>7, <1>10, <1>15, <1>16, <1>18, <1>19 DEF UdivIs, p, h
<1>21. QED BY <1>2, <1>7, <1>10, <1>15, <1>17, <1>20 DEF UdivInv, e

\* What udivFrom starts with: the bits of n that are not moved out, and the others.
StartQ(n, sr) ==
  CASE sr = Bits -> Dword(Lo(n), 0)
    [] sr < Bits -> Dword(sll(Lo(n), Bits - sr), 0)
    [] OTHER -> Dword((sll(Hi(n), 2 * Bits - sr) + srl(Lo(n), sr - Bits)) % WordMod,
                      sll(Lo(n), 2 * Bits - sr))
StartR(n, sr) ==
  CASE sr = Bits -> Hi(n)
    [] sr < Bits -> Dword(srl(Hi(n), sr), (sll(Hi(n), Bits - sr) + srl(Lo(n), sr)) % WordMod)
    [] OTHER -> srl(Hi(n), sr - Bits)

\* The words the loop of __udivmoddi4 starts from are the dividend, shifted.
LEMMA StartMoves ==
  ASSUME NEW n \in 0 .. DwordMod - 1, NEW sr \in 1 .. 2 * Bits
  PROVE  /\ n * Pow2[2 * Bits - sr] = (StartR(n, sr) * DwordMod) + StartQ(n, sr)
         /\ StartR(n, sr) \in Nat /\ StartQ(n, sr) \in 0 .. DwordMod - 1
<1> DEFINE hi == Hi(n)
           lo == Lo(n)
<1>1. /\ hi \in 0 .. WordMod - 1 /\ lo \in 0 .. WordMod - 1 /\ n = (hi * WordMod) + lo
      /\ WordMod \in Nat /\ WordMod >= 1 /\ DwordMod = WordMod * WordMod /\ Bits \in Nat /\ WordMod = Pow2[Bits]
      /\ n \in Nat
  BY Words, Sizes DEF Dword, WordMod
<1>2. CASE sr = Bits
  <2>1. StartQ(n, sr) = Dword(lo, 0) /\ StartR(n, sr) = hi
    BY <1>2 DEF StartQ, StartR
  <2>2. 2 * Bits - sr = Bits
    BY <1>1, <1>2
  <2> HIDE DEF hi, lo
  <2>3. Dword(lo, 0) \in 0 .. DwordMod - 1 /\ Dword(lo, 0) = lo * WordMod
    <3>1. Dword(lo, 0) \in 0 .. DwordMod - 1 /\ Dword(lo, 0) = (lo * WordMod) + 0
      BY <1>1, DwordIs DEF Dword
    <3>2. QED BY <3>1, <1>1
  <2>4. n * WordMod = (hi * (WordMod * WordMod)) + (lo * WordMod)
    BY <1>1
  <2>5. QED BY <2>1, <2>2, <2>3, <2>4, <1>1
<1>3. CASE sr < Bits
  <2> DEFINE k == Bits - sr
             a == srl(hi, sr)
             h == (sll(hi, k) + srl(lo, sr)) % WordMod
             l == sll(lo, k)
             p == Pow2[k]
  <2>1. StartQ(n, sr) = Dword(l, 0) /\ StartR(n, sr) = Dword(a, h)
    BY <1>1, <1>3 DEF StartQ, StartR
  <2>2. k \in 0 .. Bits /\ Bits - k = sr /\ Exponents(k, Bits, 2 * Bits - sr) /\ sr \in Nat
    BY <1>1, <1>3 DEF Exponents
  <2>3. Pow2[2 * Bits - sr] = p * WordMod /\ p \in Nat
    BY <2>2, <1>1, PowAdd, PowIs
  <2>4. /\ n * p = (a * DwordMod) + Dword(h, l)
        /\ h \in 0 .. WordMod - 1 /\ l \in 0 .. WordMod - 1 /\ a \in Nat /\ a < p
    <3> HIDE DEF k
    <3>1. QED BY <2>2, ShiftDword
  <2> HIDE DEF a, h, l, k
  <2>5. Dword(l, 0) \in 0 .. DwordMod - 1 /\ Dword(l, 0) = l * WordMod
    <3>1. Dword(l, 0) \in 0 .. DwordMod - 1 /\ Dword(l, 0) = (l * WordMod) + 0
      BY <2>4, <1>1, DwordIs DEF Dword
    <3>2. QED BY <3>1, <2>4, <1>1
  <2>6. Dword(a, h) = (a * WordMod) + h /\ Dword(h, l) = (h * WordMod) + l
    BY DEF Dword
  <2>7. n * (p * WordMod) = (((a * WordMod) + h) * (WordMod * WordMod)) + (l * WordMod)
    <3>1. n * p = (a * (WordMod * WordMod)) + ((h * WordMod) + l)
      BY <2>4, <2>6, <1>1
    <3>2. n * (p * WordMod) = (n * p) * WordMod
      <4> HIDE DEF p
      <4>1. QED BY <2>3, <1>1
    <3>3. \A u, v, w, z \in Nat : ((u * (z * z)) + ((v * z) + w)) * z = (((u * z) + v) * (z * z)) + (w * z)
      OBVIOUS
    <3>4. QED BY <3>1, <3>2, <3>3, <2>4, <1>1
  <2>8. (a * WordMod) + h \in Nat
    BY <2>4, <1>1
  <2>9. QED BY <2>1, <2>3, <2>5, <2>6, <2>7, <2>8, <1>1
<1>4. CASE sr > Bits
  <2> DEFINE k == 2 * Bits - sr
             a == srl(hi, sr - Bits)
             h == (sll(hi, k) + srl(lo, sr - Bits)) % WordMod
             l == sll(lo, k)
  <2>1. StartQ(n, sr) = Dword(h, l) /\ StartR(n, sr) = a
    BY <1>1, <1>4 DEF StartQ, StartR
  <2>2. k \in 0 .. Bits /\ Bits - k = sr - Bits
    BY <1>1, <1>4
  <2> HIDE DEF k
  <2>3. /\ n * Pow2[k] = (a * DwordMod) + Dword(h, l)
        /\ h \in 0 .. WordMod - 1 /\ l \in 0 .. WordMod - 1 /\ a \in Nat
    BY <2>2, ShiftDword
  <2> HIDE DEF a, h, l
  <2>4. Dword(h, l) \in 0 .. DwordMod - 1
    BY <2>3, DwordIs
  <2>5. QED BY <2>1, <2>3, <2>4 DEF k
<1>5. QED BY <1>1, <1>2, <1>3, <1>4

\* They are quotient and remainder of n by a power of two, the latter at the left end.
LEMMA StartIs ==
  ASSUME NEW n \in 0 .. DwordMod - 1, NEW sr \in 1 .. 2 * Bits
  PROVE  /\ StartR(n, sr) = n \div Pow2[sr]
         /\ StartQ(n, sr) = (n % Pow2[sr]) * Pow2[2 * Bits - sr]
<1> DEFINE p == Pow2[sr]
           b == Pow2[2 * Bits - sr]
           r == n \div p
           x == n % p
           m == DwordMod
<1>1. Bits \in Nat /\ sr \in Nat /\ 2 * Bits - sr \in Nat /\ Exponents(sr, 2 * Bits - sr, 2 * Bits) /\ m \in Nat /\ n \in Nat
  BY Sizes DEF Exponents
<1>2. m = p * b /\ p \in Nat /\ p >= 1 /\ b \in Nat /\ b >= 1
  BY <1>1, PowAdd, PowIs DEF DwordMod
<1>3. n * b = (StartR(n, sr) * m) + StartQ(n, sr) /\ StartR(n, sr) \in Nat /\ StartQ(n, sr) \in 0 .. m - 1
  BY StartMoves
<1> HIDE DEF p, b, m, r, x
<1>4. r \in Int /\ x \in Nat /\ x < p /\ n = (r * p) + x
  BY <1>1, <1>2, DivMod DEF r, x
<1>5. n * b = (r * (p * b)) + (x * b)
  BY <1>2, <1>4
<1>6. x * b \in Nat /\ x * b < p * b
  <2>1. (x + 1) * b <= p * b /\ (x + 1) * b = (x * b) + b /\ x * b \in Nat /\ p * b \in Nat
    BY <1>2, <1>4
  <2>2. QED BY <2>1, <1>2
<1>7. n * b \in Int /\ m >= 1
  BY <1>1, <1>2, <1>3
<1>8. Euclid(n * b, m, r, x * b)
  BY <1>1, <1>2, <1>4, <1>5, <1>6, <1>7 DEF Euclid
<1>9. Euclid(n * b, m, StartR(n, sr), StartQ(n, sr))
  BY <1>1, <1>3, <1>7 DEF Euclid
<1>10. StartR(n, sr) = r /\ StartQ(n, sr) = x * b
  BY <1>8, <1>9, DivIs
<1>11. QED BY <1>10 DEF r, x, p, b

\* udivFrom divides if what is moved out first is less than the divisor.
Divisible(n, d, sr) ==
  /\ sr \in 1 .. 2 * Bits /\ n \div Pow2[sr] < d
  /\ d < DwordMod \div 2 \/ (sr = 1 /\ n >= DwordMod \div 2)

\* From a right start, the loop of __udivmoddi4 ends in quotient and remainder.
LEMMA UdivFromIs ==
  ASSUME NEW n \in 0 .. DwordMod - 1, NEW d \in 1 .. DwordMod - 1, NEW sr, Divisible(n, d, sr)
  PROVE  udivFrom(n, d, sr) = Divide(n \div d, n % d)
<1> DEFINE m == DwordMod
           h == DwordMod \div 2
           from == [q |-> StartQ(n, sr), r |-> StartR(n, sr), sr |-> sr, carry |-> 0]
           step == udivStep(d)
           end == Loop(step, from, 2 * Bits)
           Inv == {s \in Shifting : UdivInv(n, d, s)}
           left == [s \in Shifting |-> s.sr]
           p == Pow2[sr]
           b == Pow2[2 * Bits - sr]
           x == n % p
<1>1. udivFrom(n, d, sr) = Divide(ShiftIn(end), end.r)
  BY DEF udivFrom, StartQ, StartR
<1>2. /\ m \in Nat /\ h \in Nat /\ h >= 4 /\ m = 2 * h /\ (\E g \in Nat : h = 2 * g)
      /\ n \in Nat /\ n < m /\ d \in Nat /\ d >= 1 /\ d < m
      /\ Bits \in Nat /\ sr \in Nat /\ sr >= 1 /\ sr <= 2 * Bits /\ 2 * Bits - sr \in Nat /\ sr \in 1 .. 2 * Bits
  BY Halves, Sizes DEF Divisible
<1>3. n \div p < d /\ (d < h \/ (sr = 1 /\ n >= h))
  BY DEF Divisible
<1>4. StartR(n, sr) = n \div p /\ StartQ(n, sr) = x * b
  BY <1>2, StartIs
<1>5. p \in Nat /\ p >= 1 /\ b \in Nat /\ b >= 1 /\ (sr = 1 => p = 2)
  <2>1. Pow2[1] = 2
    BY PowIs, 0 + 1 = 1
  <2>2. QED BY <2>1, <1>2, PowIs
<1> HIDE DEF p, b, m, h
<1> DEFINE r == n \div p
<1>6. r \in Nat /\ x \in Nat /\ x < p /\ n = (r * p) + x
  BY <1>2, <1>5, DivMod
<1> HIDE DEF r, x
<1>7. from \in Shifting /\ UdivInv(n, d, from)
  <2>1. from.q = x * b /\ from.r = r /\ from.sr = sr /\ from.carry = 0
    BY <1>4 DEF r
  <2>2. x * b \in Nat
    BY <1>5, <1>6
  <2>3. from \in Shifting
    BY <1>2, <1>4, <1>6, <2>2 DEF Shifting, r
  <2> HIDE DEF from
  <2>4. n = ((((2 * 0) + 0) * d + r) * p) + x
    <3>1. ((2 * 0) + 0) * d + r = r
      BY <1>2, <1>6
    <3>2. QED BY <3>1, <1>6
  <2>5. x * b = (x * b) + 0
    BY <2>2
  <2>6. d < h \/ (sr = 1 /\ r < h /\ 2 * r >= h)
    <3>1. CASE sr = 1 /\ n >= h
      <4>1. n = (r * 2) + x /\ x < 2
        BY <3>1, <1>5, <1>6
      <4>2. PICK g \in Nat : h = 2 * g
        BY <1>2
      <4>3. QED BY <3>1, <4>1, <4>2, <1>2, <1>6
    <3>2. QED BY <3>1, <1>3
  <2>7. UdivIs(n, d, from, x, 0)
    BY <1>2, <1>3, <1>5, <1>6, <2>1, <2>4, <2>5, <2>6 DEF UdivIs, p, b, h, r
  <2>8. QED BY <2>3, <2>7, <1>6 DEF UdivInv
<1>8. step \in [Shifting -> Shifting]
  <2>1. SUFFICES ASSUME NEW s \in Shifting PROVE step[s] \in Shifting
    BY DEF udivStep
  <2> DEFINE r1 == (2 * s.r + s.q \div (DwordMod \div 2)) % DwordMod
             borrow == Negative((d - r1 - 1) % DwordMod)
  <2>2. s.q \in Nat /\ s.r \in Nat /\ s.sr \in Nat /\ s.carry \in {0, 1}
    BY DEF Shifting
  <2>3. \A z \in Int : z % m \in Nat
    BY <1>2
  <2>4. ShiftIn(s) \in Nat
    <3>1. 2 * s.q + s.carry \in Int
      BY <2>2
    <3>2. QED BY <3>1, <2>3 DEF ShiftIn, m
  <2>5. r1 \in Nat
    <3> DEFINE z == s.q \div h
    <3>1. z \in Int
      BY <1>2, <2>2
    <3> HIDE DEF z
    <3>2. 2 * s.r + z \in Int
      BY <3>1, <2>2
    <3>3. QED BY <3>2, <2>3 DEF m, z, h
  <2>6. step[s] = IF s.sr = 0 THEN s
           ELSE [q |-> ShiftIn(s), r |-> IF borrow THEN (r1 - d) % DwordMod ELSE r1,
                 sr |-> s.sr - 1, carry |-> IF borrow THEN 1 ELSE 0]
    BY DEF udivStep
  <2> HIDE DEF borrow, r1
  <2>7. (r1 - d) % m \in Nat
    BY <2>3, <2>5, <1>2
  <2>8. QED BY <2>2, <2>4, <2>5, <2>6, <2>7 DEF Shifting, m
<1> HIDE DEF from
<1>9. ASSUME NEW s \in Shifting, UdivInv(n, d, s)
      PROVE  step[s] \in Inv /\ left[s] >= 0 /\ (step[s] = s \/ left[step[s]] < left[s])
  <2>1. s.sr \in Nat /\ left[s] = s.sr
    BY DEF Shifting
  <2>2. CASE s.sr = 0
    <3>1. step[s] = s
      BY <2>2 DEF udivStep
    <3>2. QED BY <3>1, <2>1, <1>9
  <2>3. CASE s.sr # 0
    <3>1. step[s] \in Shifting /\ UdivInv(n, d, step[s]) /\ step[s].sr = s.sr - 1
      BY <2>3, <1>9, UdivKept
    <3> HIDE DEF step
    <3>2. QED BY <3>1, <2>1
  <2>4. QED BY <2>2, <2>3
<1> HIDE DEF step
<1>10. Ends(Shifting, step, from, 2 * Bits, Inv, left)
  <2>1. left \in [Shifting -> Int] /\ left[from] <= 2 * Bits
    <3>1. from.sr = sr
      BY DEF from
    <3>2. QED BY <3>1, <1>2, <1>7 DEF Shifting
  <2>2. from \in Inv /\ Inv \subseteq Shifting
    BY <1>7
  <2>3. \A s \in Inv : step[s] \in Inv /\ left[s] >= 0 /\ (step[s] = s \/ left[step[s]] < left[s])
    BY <1>9
  <2>4. IsLoop(Shifting, step, from, 2 * Bits)
    BY <1>2, <1>7, <1>8 DEF IsLoop
  <2> HIDE DEF Inv, left
  <2>5. QED BY <2>1, <2>2, <2>3, <2>4 DEF Ends
<1>11. end \in Inv /\ step[end] = end
  <2> HIDE DEF Inv, end, left
  <2>1. QED BY <1>10, LoopRule DEF end
<1> HIDE DEF end
<1>12. end \in Shifting /\ UdivInv(n, d, end)
  BY <1>11
<1>13. end.sr = 0
  <2>1. SUFFICES ASSUME end.sr # 0 PROVE FALSE
    OBVIOUS
  <2>2. step[end].sr = end.sr - 1 /\ end.sr \in Nat
    BY <2>1, <1>12, UdivKept DEF step, Shifting
  <2>3. QED BY <2>2, <1>11
<1>14. PICK u \in Nat, y \in Nat : UdivIs(n, d, end, u, y)
  BY <1>12 DEF UdivInv
<1> DEFINE y1 == (2 * y) + end.carry
<1>15. end.q \in Nat /\ end.r \in Nat /\ end.carry \in {0, 1} /\ y1 \in Nat
  BY <1>12 DEF Shifting
<1>16. u = 0 /\ end.q = y /\ n = (y1 * d) + end.r /\ end.r < d
  <2> DEFINE c == Pow2[2 * Bits]
  <2>1. 2 * Bits - 0 = 2 * Bits /\ c \in Nat /\ Pow2[0] = 1
    BY <1>2, PowIs
  <2>2. u < 1 /\ end.q = (u * c) + y /\ n = ((y1 * d + end.r) * 1) + u /\ end.r < d
    BY <2>1, <1>13, <1>14 DEF UdivIs
  <2>3. u = 0
    BY <2>2
  <2>4. y1 * d \in Nat
    <3> HIDE DEF y1
    <3>1. QED BY <1>2, <1>15
  <2> HIDE DEF c
  <2>5. end.q = y
    BY <2>1, <2>2, <2>3
  <2> DEFINE w == y1 * d
  <2>6. n = ((w + end.r) * 1) + u /\ w \in Nat
    BY <2>2, <2>4
  <2> HIDE DEF w
  <2>7. n = w + end.r
    BY <2>3, <2>6, <1>15
  <2>8. QED BY <2>2, <2>3, <2>5, <2>7 DEF w
<1>17. ShiftIn(end) = y1
  <2>1. y1 <= n
    <3> HIDE DEF y1
    <3>1. y1 <= y1 * d /\ y1 * d \in Nat
      BY <1>2, <1>15
    <3>2. QED BY <3>1, <1>2, <1>15, <1>16
  <2>2. ShiftIn(end) = y1 % m
    BY <1>16 DEF ShiftIn, m
  <2> HIDE DEF y1
  <2>3. y1 % m = y1
    BY <2>1, <1>2, <1>15
  <2>4. QED BY <2>2, <2>3
<1>18. Euclid(n, d, y1, end.r)
  BY <1>2, <1>15, <1>16 DEF Euclid
<1>19. n \div d = y1 /\ n % d = end.r
  BY <1>18, DivIs
<1>20. QED BY <1>1, <1>17, <1>19

\* Numbers are in the order of their first bits.
LEMMA TopOrder ==
  ASSUME NEW n \in Nat, NEW d \in Nat, NEW i \in 0 .. 2 * Bits - 1, NEW j \in 0 .. 2 * Bits - 1,
         IsTop(n, i), IsTop(d, j)
  PROVE  /\ i < j => n < d
         /\ i >= j => Divisible(n, d, i - j + 1)
<1> DEFINE a == Pow2[i]
           b == Pow2[j]
           h == DwordMod \div 2
<1>1. /\ a \in Nat /\ b \in Nat /\ a >= 1 /\ b >= 1 /\ a <= n /\ n < 2 * a /\ b <= d /\ d < 2 * b
      /\ i \in Nat /\ j \in Nat /\ Bits \in Nat
  BY PowIs, Sizes DEF IsTop
<1>2. CASE i < j
  <2>1. 2 * a <= b
    BY <1>1, <1>2, PowOrder
  <2> HIDE DEF a, b
  <2>2. QED BY <2>1, <1>1, <1>2
<1>3. CASE i >= j
  <2> DEFINE sr == i - j + 1
             p == Pow2[sr]
  <2>1. sr \in Nat /\ sr \in 1 .. 2 * Bits /\ Exponents(sr, j, i + 1)
    BY <1>1, <1>3 DEF Exponents
  <2>2. p * b = 2 * a /\ p \in Nat /\ p >= 1
    <3>1. Pow2[i + 1] = p * b /\ Pow2[i + 1] = 2 * a
      BY <2>1, <1>1, PowAdd, PowIs
    <3>2. QED BY <3>1, <2>1, PowIs
  <2>3. n \div p < b
    <3> HIDE DEF p, a, b
    <3>1. Divisors(n, p, b) /\ n < p * b
      BY <2>2, <1>1 DEF Divisors
    <3>2. QED BY <3>1, DivDiv
  <2>4. n \div p < d
    <3> DEFINE q == n \div p
    <3>1. q \in Int /\ q < b
      BY <2>2, <2>3
    <3> HIDE DEF q, b
    <3>2. q < d
      BY <3>1, <1>1
    <3>3. QED BY <3>2 DEF q
  <2>5. h \in Nat /\ DwordMod = 2 * h /\ DwordMod = 2 * Pow2[2 * Bits - 1] /\ Pow2[2 * Bits - 1] \in Nat
    BY Halves, Sizes, PowIs
  <2>6. CASE j < 2 * Bits - 1
    <3>1. 2 * b <= Pow2[2 * Bits - 1]
      <4>1. 2 * Bits - 1 \in Nat
        BY <1>1
      <4>2. QED BY <4>1, <2>6, <1>1, PowOrder
    <3> HIDE DEF h, b, p, sr
    <3>2. d < h
      BY <3>1, <2>5, <1>1
    <3>3. QED BY <3>2, <2>1, <2>4, <1>3 DEF Divisible, h, p, sr
  <2>7. CASE j = 2 * Bits - 1
    <3>1. i = 2 * Bits - 1 /\ sr = 1
      BY <2>7, <1>1, <1>3
    <3>2. a = h
      <4>1. a = Pow2[2 * Bits - 1]
        BY <3>1
      <4> HIDE DEF a, h
      <4>2. QED BY <4>1, <2>5
    <3>3. n >= h
      BY <3>2, <1>1
    <3> HIDE DEF h, p, sr
    <3>4. QED BY <3>1, <3>3, <2>1, <2>4, <1>3 DEF Divisible, h, p, sr
  <2>8. QED BY <2>6, <2>7, <1>1
<1>4. QED BY <1>1, <1>2, <1>3

\* The start that the difference of the zeros of the two operands gives.
LEMMA DivideByZeros ==
  ASSUME NEW n \in 1 .. DwordMod - 1, NEW d \in 1 .. DwordMod - 1
  PROVE  LET gap == __clzdi2(d) - __clzdi2(n)
         IN  /\ gap < 0 => n < d
             /\ gap >= 0 => udivFrom(n, d, gap + 1) = Divide(n \div d, n % d)
<1> DEFINE y == __clzdi2(d)
           z == __clzdi2(n)
           i == 2 * Bits - 1 - z
           j == 2 * Bits - 1 - y
<1>1. y \in 0 .. 2 * Bits - 1 /\ z \in 0 .. 2 * Bits - 1 /\ IsTop(n, i) /\ IsTop(d, j) /\ Bits \in Nat
  BY ClzDwordIs, Sizes
<1> HIDE DEF y, z
<1>2. i \in 0 .. 2 * Bits - 1 /\ j \in 0 .. 2 * Bits - 1 /\ y - z = i - j
  BY <1>1
<1> HIDE DEF i, j
<1>3. /\ i < j => n < d
      /\ i >= j => Divisible(n, d, i - j + 1)
  BY <1>1, <1>2, TopOrder
<1>4. i \in Int /\ j \in Int
  BY <1>1, <1>2
<1>5. y - z < 0 => n < d
  BY <1>2, <1>3, <1>4
<1>6. y - z >= 0 => udivFrom(n, d, (y - z) + 1) = Divide(n \div d, n % d)
  <2>1. SUFFICES ASSUME y - z >= 0 PROVE udivFrom(n, d, (y - z) + 1) = Divide(n \div d, n % d)
    OBVIOUS
  <2>2. Divisible(n, d, (y - z) + 1)
    BY <2>1, <1>2, <1>3, <1>4
  <2>3. QED BY <2>2, UdivFromIs
<1>7. QED BY <1>5, <1>6 DEF y, z

\* A number less than the divisor is its own remainder.
LEMMA SmallIs ==
  ASSUME NEW n \in Nat, NEW d \in Nat, n < d
  PROVE  n \div d = 0 /\ n % d = n
<1>1. Euclid(n, d, 0, n)
  BY DEF Euclid
<1>2. QED BY <1>1, DivIs

\* A difference of numbers of zeros, as a word.
LEMMA GapIs ==
  ASSUME NEW y \in 0 .. Bits - 1, NEW z \in 0 .. Bits - 1
  PROVE  /\ y >= z => (y - z) % WordMod = y - z
         /\ y < z => (y - z) % WordMod > Bits - 1
<1>1. Bits \in Nat /\ WordMod \in Nat /\ WordMod >= 2 * Bits /\ Bits >= 2
  BY Sizes
<1>2. CASE y >= z
  <2>1. Euclid(y - z, WordMod, 0, y - z)
    BY <1>1, <1>2 DEF Euclid
  <2>2. QED BY <2>1, <1>2, <1>1, DivIs
<1>3. CASE y < z
  <2>1. Euclid(y - z, WordMod, -1, (y - z) + WordMod)
    BY <1>1, <1>3 DEF Euclid
  <2>2. (y - z) % WordMod = (y - z) + WordMod
    BY <2>1, DivIs
  <2>3. QED BY <2>2, <1>1, <1>3
<1>4. QED BY <1>1, <1>2, <1>3

\* A word with one bit.
LEMMA PowerOf2Is ==
  ASSUME NEW x \in 1 .. WordMod - 1, IsPowerOf2(x)
  PROVE  ctz(x) \in 0 .. Bits - 1 /\ x = Pow2[ctz(x)]
<1>1. PICK k \in 0 .. Bits - 1 : x = Pow2[k]
  BY DEF IsPowerOf2
<1>2. k \in Nat /\ Bits \in Nat
  BY Sizes
<1>3. IsLow(x, k)
  <2>1. x = 1 * Pow2[k] /\ 1 % 2 = 1
    BY <1>1, <1>2, PowIs
  <2>2. QED BY <2>1, <1>2 DEF IsLow
<1>4. ctz(x) \in 0 .. Bits - 1 /\ IsLow(x, ctz(x))
  BY CtzIs
<1> DEFINE j == ctz(x)
<1>5. j \in Nat /\ x \in Nat
  BY <1>2, <1>4, Sizes
<1> HIDE DEF j
<1>6. (x % Pow2[j] = 0 /\ x % Pow2[j + 1] # 0)
  BY <1>4, <1>5, LowUnique DEF j
<1>7. j = k
  BY <1>2, <1>3, <1>5, <1>6, LowUnique
<1>8. QED BY <1>1, <1>4, <1>7 DEF j

\* A dividend and a divisor whose low word is zero: the high words are divided.
LEMMA HighDivides ==
  ASSUME NEW h \in Nat, NEW l \in 0 .. WordMod - 1, NEW e \in Nat, e >= 1
  PROVE  /\ ((h * WordMod) + l) \div (e * WordMod) = h \div e
         /\ ((h * WordMod) + l) % (e * WordMod) = ((h % e) * WordMod) + l
<1> DEFINE q == h \div e
           r == h % e
           n == (h * WordMod) + l
           d == e * WordMod
           s == (r * WordMod) + l
<1>1. WordMod \in Nat /\ WordMod >= 1
  BY Sizes
<1>2. q \in Int /\ r \in Nat /\ r < e /\ h = (q * e) + r
  BY DivMod
<1> HIDE DEF q, r
<1>3. n \in Nat /\ d \in Nat /\ s \in Nat /\ d >= 1
  BY <1>1, <1>2
<1>4. s < d
  <2>1. (r + 1) * WordMod <= e * WordMod /\ (r + 1) * WordMod = (r * WordMod) + WordMod /\ r * WordMod \in Nat
    BY <1>1, <1>2
  <2>2. QED BY <2>1, <1>1, <1>3
<1>5. n = (q * d) + s
  <2>1. h * WordMod = (q * (e * WordMod)) + (r * WordMod)
    BY <1>1, <1>2
  <2>2. q * (e * WordMod) \in Int /\ r * WordMod \in Nat
    BY <1>1, <1>2
  <2> DEFINE a == q * (e * WordMod)
             b == r * WordMod
             c == h * WordMod
  <2>3. a \in Int /\ b \in Int /\ c = a + b
    BY <2>1, <2>2
  <2> HIDE DEF a, b, c
  <2>4. c + l = a + (b + l)
    BY <2>3
  <2>5. QED BY <2>4 DEF a, b, c
<1> HIDE DEF n, d, s
<1>6. Euclid(n, d, q, s)
  BY <1>2, <1>3, <1>4, <1>5 DEF Euclid
<1>7. n \div d = q /\ n % d = s
  BY <1>6, DivIs
<1>8. QED BY <1>7 DEF n, d, s, q, r

\* A divisor that is a power of two: a shift across the words.
LEMMA ShiftDivides ==
  ASSUME NEW n \in 0 .. DwordMod - 1, NEW sr \in 1 .. Bits - 1
  PROVE  /\ n \div Pow2[sr] = Dword(srl(Hi(n), sr), (sll(Hi(n), Bits - sr) + srl(Lo(n), sr)) % WordMod)
         /\ n % Pow2[sr] = Lo(n) % Pow2[sr]
<1> DEFINE hi == Hi(n)
           lo == Lo(n)
           p == Pow2[sr]
           b == Pow2[Bits - sr]
<1>1. /\ hi \in 0 .. WordMod - 1 /\ lo \in 0 .. WordMod - 1 /\ n = (hi * WordMod) + lo
      /\ WordMod \in Nat /\ WordMod >= 1 /\ Bits \in Nat /\ n \in Nat
  BY Words, Sizes DEF Dword
<1>2. sr \in Nat /\ sr < Bits /\ sr # Bits /\ Exponents(Bits - sr, sr, Bits) /\ sr \in 1 .. 2 * Bits /\ Bits - sr \in Nat
  BY <1>1 DEF Exponents
<1>3. n \div p = StartR(n, sr)
  BY <1>2, StartIs
<1>4. StartR(n, sr) = Dword(srl(hi, sr), (sll(hi, Bits - sr) + srl(lo, sr)) % WordMod)
  BY <1>2 DEF StartR
<1>5. WordMod = b * p /\ p \in Nat /\ p >= 1 /\ b \in Nat
  BY <1>2, PowAdd, PowIs DEF WordMod
<1>6. n % p = lo % p
  <2> HIDE DEF hi, lo, p, b
  <2>1. n = lo + ((hi * b) * p) /\ hi * b \in Int /\ lo \in Int
    BY <1>1, <1>5
  <2>2. QED BY <2>1, <1>5, ModOf
<1>7. QED BY <1>3, <1>4, <1>6

\* __udivmoddi4 divides, for divisors of one word and of two (int64.c).
LEMMA UnsignedIsExact ==
  ASSUME NEW n \in 0 .. DwordMod - 1, NEW d \in 1 .. DwordMod - 1
  PROVE  __udivmoddi4(n, d) = Divide(n \div d, n % d)
<1> DEFINE hn == Hi(n)
           ln == Lo(n)
           hd == Hi(d)
           ld == Lo(d)
           y == clz(hd)
           z == clz(hn)
           gap == (y - z) % WordMod
           quotient == Divide(n \div d, n % d)
<1>1. /\ hn \in 0 .. WordMod - 1 /\ ln \in 0 .. WordMod - 1 /\ n = (hn * WordMod) + ln
      /\ hd \in 0 .. WordMod - 1 /\ ld \in 0 .. WordMod - 1 /\ d = (hd * WordMod) + ld
  BY Words DEF Dword
<1>2. /\ WordMod \in Nat /\ WordMod >= 1 /\ Bits \in Nat /\ Bits >= 2 /\ n \in Nat /\ d \in Nat /\ d >= 1
      /\ WordMod >= 2 * Bits
  BY Sizes
<1>3. CASE hn = 0
  <2>1. n = ln
    BY <1>1, <1>2, <1>3
  <2>2. CASE hd = 0
    <3>1. d = ld
      BY <1>1, <1>2, <2>2
    <3>2. __udivmoddi4(n, d) = Divide(ln \div ld, ln % ld)
      BY <1>3, <2>2 DEF __udivmoddi4
    <3> HIDE DEF ln, ld
    <3>3. QED BY <2>1, <3>1, <3>2
  <2>3. CASE hd # 0
    <3>1. __udivmoddi4(n, d) = Divide(0, ln)
      BY <1>3, <2>3 DEF __udivmoddi4
    <3> HIDE DEF hn, ln, hd, ld
    <3>2. WordMod <= hd * WordMod /\ hd * WordMod \in Nat
      BY <1>1, <1>2, <2>3
    <3>3. n < d
      BY <3>2, <2>1, <1>1, <1>2
    <3>4. n \div d = 0 /\ n % d = n
      BY <3>3, <1>2, SmallIs
    <3>5. QED BY <3>1, <3>4, <2>1
  <2>4. QED BY <2>2, <2>3
<1>4. CASE hn # 0
  <2>1. hn \in 1 .. WordMod - 1 /\ z \in 0 .. Bits - 1 /\ __clzdi2(n) = z
    <3>1. hn \in 1 .. WordMod - 1
      BY <1>1, <1>2, <1>4
    <3>2. QED BY <3>1, <1>4, ClzIs DEF __clzdi2
  <2>2. n >= 1 /\ n \in 1 .. DwordMod - 1
    <3> HIDE DEF hn, ln
    <3>1. hn * WordMod >= 1 /\ hn * WordMod \in Nat
      BY <2>1, <1>2
    <3>2. n >= 1
      BY <3>1, <1>1, <1>2
    <3>3. QED BY <3>2, <1>2
\* Both words of the divisor count, or its low word is zero.
  <2>3. ASSUME hd # 0
        PROVE  /\ hd \in 1 .. WordMod - 1 /\ y \in 0 .. Bits - 1 /\ IsTop(hd, Bits - 1 - y)
               /\ gap > Bits - 1 => quotient = Divide(0, n)
               /\ gap <= Bits - 1 => udivFrom(n, d, gap + 1) = quotient
    <3>1. hd \in 1 .. WordMod - 1
      BY <1>1, <1>2, <2>3
    <3>2. y \in 0 .. Bits - 1 /\ IsTop(hd, Bits - 1 - y) /\ __clzdi2(d) = y
      BY <2>3, <3>1, ClzIs DEF __clzdi2
    <3>3. /\ y - z < 0 => n < d
          /\ y - z >= 0 => udivFrom(n, d, (y - z) + 1) = quotient
      BY <2>1, <2>2, <3>2, DivideByZeros
    <3> HIDE DEF y, z, hd, quotient
    <3>4. /\ y >= z => gap = y - z
          /\ y < z => gap > Bits - 1
      BY <2>1, <3>2, GapIs
    <3>5. CASE y >= z
      <4>1. gap = y - z /\ gap <= Bits - 1 /\ y - z >= 0
        BY <3>4, <3>5, <2>1, <3>2, <1>2
      <4>2. udivFrom(n, d, gap + 1) = quotient
        BY <4>1, <3>3
      <4>3. gap \in Int
        BY <4>1, <2>1, <3>2, <1>2
      <4> HIDE DEF gap
      <4>4. ~(gap > Bits - 1)
        BY <4>1, <4>3, <1>2
      <4>5. QED BY <4>2, <4>4, <3>1, <3>2
    <3>6. CASE y < z
      <4>1. gap > Bits - 1 /\ y - z < 0 /\ gap \in Int
        BY <3>4, <3>6, <2>1, <3>2, <1>2
      <4>2. n \div d = 0 /\ n % d = n
        BY <4>1, <3>3, <1>2, SmallIs
      <4> HIDE DEF gap
      <4>3. ~(gap <= Bits - 1)
        BY <4>1, <1>2
      <4>4. QED BY <4>1, <4>2, <4>3, <3>1, <3>2 DEF quotient
    <3>7. QED BY <3>5, <3>6, <2>1, <3>2
  <2>4. CASE ld = 0
    <3>1. hd # 0 /\ d = hd * WordMod
      <4>1. hd * WordMod \in Nat
        BY <1>1, <1>2
      <4>2. d = hd * WordMod
        BY <4>1, <1>1, <2>4
      <4>3. QED BY <4>2, <1>2
    <3>2. hd \in Nat /\ hd >= 1
      BY <3>1, <1>1, <1>2
    <3>3. quotient = Divide(hn \div hd, ((hn % hd) * WordMod) + ln)
      <4> HIDE DEF hn, ln, hd
      <4>1. hn \in Nat
        BY <1>1, <1>2
      <4>2. QED BY <4>1, <3>1, <3>2, <1>1, HighDivides
    <3>4. CASE ln = 0
      <4>1. __udivmoddi4(n, d) = Divide(hn \div hd, Dword(hn % hd, 0))
        BY <1>4, <2>4, <3>4 DEF __udivmoddi4
      <4> HIDE DEF quotient
      <4>2. QED BY <4>1, <3>3, <3>4 DEF Dword, quotient
    <3>5. CASE ln # 0 /\ IsPowerOf2(hd)
      <4>1. __udivmoddi4(n, d) = Divide(srl(hn, ctz(hd)), Dword(hn % hd, ln))
        BY <1>4, <2>4, <3>5 DEF __udivmoddi4
      <4>2. Pow2[ctz(hd)] = hd
        BY <3>1, <2>3, <3>5, PowerOf2Is
      <4>3. srl(hn, ctz(hd)) = hn \div hd
        BY <4>2 DEF srl
      <4> HIDE DEF quotient
      <4>4. QED BY <4>1, <4>3, <3>3 DEF Dword, quotient
    <3>6. CASE ln # 0 /\ ~IsPowerOf2(hd)
      <4>1. __udivmoddi4(n, d) = IF gap > Bits - 2 THEN Divide(0, n) ELSE udivFrom(n, d, gap + 1)
        BY <1>4, <2>4, <3>6 DEF __udivmoddi4
      <4>2. y # Bits - 1
        <5>1. SUFFICES ASSUME y = Bits - 1 PROVE FALSE
          OBVIOUS
        <5>2. IsTop(hd, Bits - 1 - y)
          BY <2>3, <3>1
        <5> HIDE DEF hd, y
        <5>3. Bits - 1 - y = 0
          BY <5>1, <1>2
        <5>4. IsTop(hd, 0)
          BY <5>2, <5>3
        <5>5. Pow2[0] = 1 /\ Pow2[0 + 1] = 2 /\ 0 \in 0 .. Bits - 1
          BY PowIs, <1>2
        <5>6. hd = 1
          BY <5>4, <5>5, <3>2 DEF IsTop
        <5>7. QED BY <5>5, <5>6, <3>6 DEF IsPowerOf2
      <4>3. gap # Bits - 1 /\ gap \in Int
        <5>1. y \in 0 .. Bits - 1
          BY <2>3, <3>1
        <5> HIDE DEF y, z
        <5>2. gap = y - z \/ gap > Bits - 1
          BY <5>1, <2>1, <1>2, GapIs
        <5>3. y - z # Bits - 1 /\ y - z \in Int
          BY <5>1, <4>2, <2>1, <1>2
        <5>4. gap \in Int
          BY <5>1, <2>1, <1>2
        <5> HIDE DEF gap
        <5>5. QED BY <5>2, <5>3, <5>4, <1>2
      <4>4. /\ gap > Bits - 1 => quotient = Divide(0, n)
            /\ gap <= Bits - 1 => udivFrom(n, d, gap + 1) = quotient
        BY <2>3, <3>1
      <4> HIDE DEF gap, quotient
      <4>5. gap > Bits - 2 <=> gap > Bits - 1
        BY <4>3, <1>2
      <4>6. gap > Bits - 1 \/ gap <= Bits - 1
        BY <4>3, <1>2
      <4>7. QED BY <4>1, <4>4, <4>5, <4>6 DEF quotient
    <3>7. QED BY <3>4, <3>5, <3>6
  <2>5. CASE ld # 0 /\ hd = 0
    <3>1. d = ld /\ ld \in 1 .. WordMod - 1
      BY <1>1, <1>2, <2>5
    <3>2. CASE IsPowerOf2(ld)
      <4> DEFINE sr == ctz(ld)
      <4>1. sr \in 0 .. Bits - 1 /\ ld = Pow2[sr]
        BY <3>1, <3>2, PowerOf2Is
      <4>2. __udivmoddi4(n, d) =
              Divide(IF ld = 1 THEN n ELSE Dword(srl(hn, sr), (sll(hn, Bits - sr) + srl(ln, sr)) % WordMod), ln % ld)
        BY <1>4, <2>5, <3>2 DEF __udivmoddi4
      <4> HIDE DEF sr
      <4>3. CASE ld = 1
        <5>1. n \div 1 = n /\ n % 1 = 0 /\ ln % 1 = 0
          BY <1>1, <1>2
        <5> HIDE DEF ld, ln, hn
        <5>2. QED BY <5>1, <4>2, <4>3, <3>1
      <4>4. CASE ld # 1
        <5>1. sr \in 1 .. Bits - 1
          BY <4>1, <4>4, <1>2, PowIs
        <5>2. /\ n \div Pow2[sr] = Dword(srl(hn, sr), (sll(hn, Bits - sr) + srl(ln, sr)) % WordMod)
              /\ n % Pow2[sr] = ln % Pow2[sr]
          BY <5>1, ShiftDivides
        <5> HIDE DEF ld, ln, hn
        <5>3. QED BY <5>2, <4>1, <4>2, <4>4, <3>1
      <4>5. QED BY <4>3, <4>4
    <3>3. CASE ~IsPowerOf2(ld)
      <4>1. __udivmoddi4(n, d) = udivFrom(n, d, 1 + Bits + clz(ld) - z)
        BY <1>4, <2>5, <3>3 DEF __udivmoddi4
      <4>2. __clzdi2(d) = clz(ld) + Bits
        BY <2>5 DEF __clzdi2
      <4>3. clz(ld) \in 0 .. Bits - 1
        BY <3>1, ClzIs
      <4>4. d \in 1 .. DwordMod - 1
        OBVIOUS
      <4>5. __clzdi2(d) - __clzdi2(n) >= 0 => udivFrom(n, d, (__clzdi2(d) - __clzdi2(n)) + 1) = quotient
        BY <2>2, <4>4, DivideByZeros
      <4> DEFINE w == clz(ld)
      <4> HIDE DEF w, z, quotient
      <4>6. (w + Bits) - z >= 0 /\ ((w + Bits) - z) + 1 = 1 + Bits + w - z
        BY <4>3, <2>1, <1>2 DEF w
      <4>7. __clzdi2(d) = w + Bits /\ __clzdi2(n) = z
        BY <4>2, <2>1 DEF w
      <4>8. udivFrom(n, d, 1 + Bits + w - z) = quotient
        BY <4>5, <4>6, <4>7
      <4>9. QED BY <4>1, <4>8 DEF w, quotient
    <3>4. QED BY <3>2, <3>3
  <2>6. CASE ld # 0 /\ hd # 0
    <3>1. __udivmoddi4(n, d) = IF gap > Bits - 1 THEN Divide(0, n) ELSE udivFrom(n, d, gap + 1)
      BY <1>4, <2>6 DEF __udivmoddi4
    <3>2. /\ gap > Bits - 1 => quotient = Divide(0, n)
          /\ gap <= Bits - 1 => udivFrom(n, d, gap + 1) = quotient
      BY <2>3, <2>6
    <3>3. gap \in Int
      <4>1. y \in 0 .. Bits - 1
        BY <2>3, <2>6
      <4> HIDE DEF y, z
      <4>2. QED BY <4>1, <2>1, <1>2
    <3> HIDE DEF gap, quotient
    <3>4. gap > Bits - 1 \/ gap <= Bits - 1
      BY <3>3, <1>2
    <3>5. QED BY <3>1, <3>2, <3>4 DEF quotient
  <2>7. QED BY <2>4, <2>5, <2>6
<1>5. QED BY <1>3, <1>4

----------------------------------------------------------------------------
(* Signs.                                                                  *)

\* A sign is true or false.
LEMMA SignIs == \A x : Negative(x) \in BOOLEAN
BY DEF Negative

\* The magnitude of an operand, as the routines negate it.
LEMMA MagnitudeIs ==
  ASSUME NEW x \in 0 .. DwordMod - 1
  PROVE  /\ Magnitude(x) \in 0 .. DwordMod - 1 /\ Magnitude(x) = AbsOf(SignedOf(x))
         /\ Magnitude(x) = 0 <=> x = 0
         /\ SignedOf(x) = IF Negative(x) THEN -Magnitude(x) ELSE Magnitude(x)
         /\ SignedOf(x) \in Int /\ (\E k \in Int : x = SignedOf(x) + (k * DwordMod))
<1> DEFINE m == DwordMod
           h == DwordMod \div 2
<1>1. h \in Nat /\ h >= 4 /\ m = 2 * h /\ m \in Nat /\ (Negative(x) <=> x >= h) /\ x \in Nat /\ x < m
  BY Halves
<1>2. /\ SignedOf(x) = IF Negative(x) THEN x - m ELSE x
      /\ AbsOf(SignedOf(x)) = IF SignedOf(x) < 0 THEN -SignedOf(x) ELSE SignedOf(x)
      /\ Magnitude(x) = IF Negative(x) THEN (m - x) % m ELSE x
  BY DEF SignedOf, AbsOf, Magnitude, neg
<1> HIDE DEF m, h
<1>3. CASE Negative(x)
  <2>1. m - x \in Nat /\ m - x < m /\ m - x >= 1 /\ x >= h
    BY <1>1, <1>3
  <2>2. (m - x) % m = m - x
    <3> DEFINE y == m - x
    <3>1. y \in Nat /\ y < m
      BY <2>1
    <3> HIDE DEF y
    <3>2. y % m = y
      BY <3>1, <1>1
    <3>3. QED BY <3>2 DEF y
  <2>3. Magnitude(x) = m - x /\ SignedOf(x) = x - m
    BY <1>2, <1>3, <2>2
  <2>4. AbsOf(SignedOf(x)) = m - x
    BY <1>2, <2>1, <2>3, <1>1
  <2>5. x = (x - m) + (1 * m) /\ x - m \in Int /\ x - m = -(m - x)
    BY <1>1
  <2>6. \E k \in Int : x = SignedOf(x) + (k * m)
    BY <2>3, <2>5
  <2>7. m - x \in 0 .. m - 1 /\ m - x # 0 /\ x # 0
    BY <2>1, <1>1
  <2>8. QED BY <2>3, <2>4, <2>5, <2>6, <2>7, <1>3 DEF m
<1>4. CASE ~Negative(x)
  <2>1. Magnitude(x) = x /\ SignedOf(x) = x /\ AbsOf(SignedOf(x)) = x
    BY <1>1, <1>2, <1>4
  <2>2. x = x + (0 * m) /\ x \in 0 .. m - 1
    BY <1>1
  <2>3. QED BY <2>1, <2>2, <1>1, <1>4 DEF m
<1>5. QED BY <1>3, <1>4

\* A result with its sign given back.
LEMMA WithSignIs ==
  ASSUME NEW q \in 0 .. DwordMod - 1, NEW negative \in BOOLEAN
  PROVE  /\ WithSign(q, negative) = (IF negative THEN -q ELSE q) % DwordMod
         /\ WithSign(q, negative) \in 0 .. DwordMod - 1
<1>1. DwordMod \in Nat /\ DwordMod >= 1 /\ q \in Nat
  BY Halves
<1>2. neg(q) = (-q) % DwordMod
  <2> DEFINE p == -q
             r == DwordMod - q
  <2>1. r = p + (1 * DwordMod) /\ p \in Int /\ r \in Int
    BY <1>1
  <2> HIDE DEF p, r
  <2>2. Congruent(r, p, DwordMod)
    BY <2>1 DEF Congruent
  <2>3. r % DwordMod = p % DwordMod
    BY <2>1, <2>2, <1>1, CongruentMod
  <2>4. QED BY <2>3 DEF neg, p, r
<1>3. q % DwordMod = q
  BY <1>1
<1>4. neg(q) \in 0 .. DwordMod - 1
  <2>1. -q \in Int
    BY <1>1
  <2>2. QED BY <2>1, <1>1, <1>2, DivMod
<1>5. QED BY <1>2, <1>3, <1>4, <1>1 DEF WithSign

\* A division of the magnitudes with the signs given back, as Div says it.
LEMMA DivIsSigned ==
  ASSUME NEW a \in 0 .. DwordMod - 1, NEW b \in 1 .. DwordMod - 1
  PROVE  LET q == Magnitude(a) \div Magnitude(b)
             r == Magnitude(a) % Magnitude(b)
         IN  /\ Div(a, b) = Divide(WithSign(q, Negative(a) # Negative(b)), WithSign(r, Negative(a)))
             /\ q \in 0 .. DwordMod - 1 /\ r \in 0 .. DwordMod - 1 /\ r < Magnitude(b)
             /\ Magnitude(a) = (q * Magnitude(b)) + r
             /\ Magnitude(a) \in 0 .. DwordMod - 1 /\ Magnitude(b) \in 1 .. DwordMod - 1
<1> DEFINE x == Magnitude(a)
           y == Magnitude(b)
           q == x \div y
           r == x % y
<1>1. /\ DwordMod \in Nat /\ DwordMod >= 1 /\ b # 0 /\ a \in 0 .. DwordMod - 1 /\ b \in 0 .. DwordMod - 1
      /\ Negative(a) \in BOOLEAN /\ Negative(b) \in BOOLEAN /\ (Negative(a) # Negative(b)) \in BOOLEAN
  <2>1. DwordMod \in Nat /\ DwordMod >= 1
    BY Halves
  <2>2. QED BY <2>1, SignIs
<1>2. x \in Nat /\ y \in Nat /\ y >= 1 /\ x < DwordMod /\ y < DwordMod /\ x = AbsOf(SignedOf(a)) /\ y = AbsOf(SignedOf(b))
  BY <1>1, MagnitudeIs
<1>3. Div(a, b) = Divide((IF Negative(a) # Negative(b) THEN -q ELSE q) % DwordMod,
                         (IF Negative(a) THEN -r ELSE r) % DwordMod)
  BY <1>1, <1>2 DEF Div
<1> HIDE DEF x, y
<1>4. q \in Nat /\ r \in Nat /\ r < y /\ x = (q * y) + r
  BY <1>2, DivMod
<1> HIDE DEF q, r
<1>5. q <= x /\ r < DwordMod
  <2>1. q <= q * y /\ q * y \in Nat
    BY <1>2, <1>4
  <2>2. QED BY <2>1, <1>1, <1>2, <1>4
<1>6. q \in 0 .. DwordMod - 1 /\ r \in 0 .. DwordMod - 1
  BY <1>1, <1>2, <1>4, <1>5
<1>7. /\ WithSign(q, Negative(a) # Negative(b)) = (IF Negative(a) # Negative(b) THEN -q ELSE q) % DwordMod
      /\ WithSign(r, Negative(a)) = (IF Negative(a) THEN -r ELSE r) % DwordMod
  BY <1>1, <1>6, WithSignIs
<1>8. x \in 0 .. DwordMod - 1 /\ y \in 1 .. DwordMod - 1
  BY <1>1, <1>2
<1>9. Div(a, b) = Divide(WithSign(q, Negative(a) # Negative(b)), WithSign(r, Negative(a)))
  BY <1>3, <1>7
<1>10. QED BY <1>4, <1>6, <1>8, <1>9 DEF q, r, x, y

\* __divdi3, __moddi3 and __divmoddi4 (int64.c).
LEMMA SignedIsExact ==
  ASSUME NEW a \in 0 .. DwordMod - 1, NEW b \in 1 .. DwordMod - 1
  PROVE  /\ Divide(__divdi3(a, b), __moddi3(a, b)) = Div(a, b)
         /\ __divmoddi4(a, b) = Div(a, b)
<1> DEFINE x == Magnitude(a)
           y == Magnitude(b)
           q == x \div y
           r == x % y
           m == DwordMod
           different == Negative(a) # Negative(b)
           d == WithSign(q, different)
           e == WithSign(r, Negative(a))
<1>1. /\ Div(a, b) = Divide(d, e) /\ q \in 0 .. m - 1 /\ r \in 0 .. m - 1 /\ x = (q * y) + r
      /\ x \in 0 .. m - 1 /\ y \in 1 .. m - 1
  BY DivIsSigned
<1>2. __udivmoddi4(x, y) = Divide(q, r)
  BY <1>1, UnsignedIsExact
<1>3. __divdi3(a, b) = d /\ __moddi3(a, b) = e
  BY <1>2 DEF __divdi3, __moddi3, Divide
<1>4. /\ m \in Nat /\ m >= 1 /\ different \in BOOLEAN /\ Negative(a) \in BOOLEAN /\ Negative(b) \in BOOLEAN
      /\ b \in 0 .. m - 1
  <2>1. DwordMod \in Nat /\ DwordMod >= 1
    BY Halves
  <2>2. QED BY <2>1, SignIs
<1>5. /\ d = (IF different THEN -q ELSE q) % m /\ d \in 0 .. m - 1
      /\ e = (IF Negative(a) THEN -r ELSE r) % m
  BY <1>1, <1>4, WithSignIs
<1> DEFINE sa == SignedOf(a)
           sb == SignedOf(b)
           sq == IF different THEN -q ELSE q
           sr == IF Negative(a) THEN -r ELSE r
<1>6. /\ sa = (IF Negative(a) THEN -x ELSE x) /\ sb = (IF Negative(b) THEN -y ELSE y)
      /\ \E k \in Int : a = sa + (k * m)
      /\ \E k \in Int : b = sb + (k * m)
  BY <1>4, MagnitudeIs
<1> HIDE DEF x, y, q, r, d, e, m, sa, sb
<1>7. x \in Nat /\ y \in Nat /\ q \in Nat /\ r \in Nat /\ d \in Nat /\ a \in Nat /\ b \in Nat
  BY <1>1, <1>4, <1>5
<1>8. sa \in Int /\ sb \in Int /\ sq \in Int /\ sr \in Int
  BY <1>6, <1>7
<1>9. sa = (sq * sb) + sr
  <2>1. (-q) * (-y) = q * y /\ (-q) * y = -(q * y) /\ q * (-y) = -(q * y) /\ q * y \in Nat
    BY <1>7
  <2>2. CASE Negative(a) /\ Negative(b)
    <3>1. sa = -x /\ sb = -y /\ sq = q /\ sr = -r
      BY <1>6, <2>2
    <3>2. -x = -(q * y) + (-r)
      BY <1>1, <1>7, <2>1
    <3> HIDE DEF sq, sr
    <3>3. QED BY <2>1, <3>1, <3>2
  <2>3. CASE Negative(a) /\ ~Negative(b)
    <3>1. sa = -x /\ sb = y /\ sq = -q /\ sr = -r
      BY <1>6, <2>3
    <3>2. -x = -(q * y) + (-r)
      BY <1>1, <1>7, <2>1
    <3> HIDE DEF sq, sr
    <3>3. QED BY <2>1, <3>1, <3>2
  <2>4. CASE ~Negative(a) /\ Negative(b)
    <3>1. sa = x /\ sb = -y /\ sq = -q /\ sr = r
      BY <1>6, <2>4
    <3> HIDE DEF sq, sr
    <3>2. QED BY <2>1, <3>1, <1>1
  <2>5. CASE ~Negative(a) /\ ~Negative(b)
    <3>1. sa = x /\ sb = y /\ sq = q /\ sr = r
      BY <1>4, <1>6, <2>5
    <3> HIDE DEF sq, sr
    <3>2. QED BY <3>1, <1>1
  <2>6. QED BY <2>2, <2>3, <2>4, <2>5
<1>10. (a - (d * b)) % m = e
  <2>1. PICK i \in Int, j \in Int : a = sa + (i * m) /\ b = sb + (j * m)
    BY <1>6
  <2>2. PICK k \in Int : d = sq + (k * m)
    <3> HIDE DEF sq
    <3>1. Modulus(sq, m)
      BY <1>4, <1>8 DEF Modulus
    <3>2. d = sq % m
      BY <1>5 DEF sq
    <3>3. QED BY <3>1, <3>2, ModIsCongruent
  <2> HIDE DEF sq, sr
  <2> DEFINE c == i - (k * sb) - (sq * j) - ((k * j) * m)
  <2>3. a - (d * b) = sr + (c * m) /\ c \in Int /\ a - (d * b) \in Int
    <3>1. d * b = (sq * sb) + (((k * sb) + (sq * j) + ((k * j) * m)) * m)
      BY <2>1, <2>2, <1>4, <1>8
    <3>2. k * sb \in Int /\ sq * j \in Int /\ (k * j) * m \in Int /\ sq * sb \in Int
      BY <1>4, <1>8
    <3> DEFINE f == (k * sb) + (sq * j) + ((k * j) * m)
               g == sq * sb
    <3>3. f \in Int /\ c = i - f /\ d * b = g + (f * m) /\ g \in Int /\ sa = g + sr
      BY <3>1, <3>2, <1>9
    <3> HIDE DEF f, g, c
    <3>4. c * m = (i * m) - (f * m) /\ i * m \in Int /\ f * m \in Int
      BY <3>3, <1>4
    <3>5. QED BY <3>3, <3>4, <2>1, <1>8
  <2> HIDE DEF c
  <2>4. (sr + (c * m)) % m = sr % m
    BY <2>3, <1>4, <1>8, ModOf
  <2>5. QED BY <2>3, <2>4, <1>5 DEF sr
<1>11. __divmoddi4(a, b) = Divide(d, e)
  BY <1>3, <1>10 DEF __divmoddi4, m
<1>12. QED BY <1>1, <1>3, <1>11

\* __divdi3 and __moddi3 of div.S, by zero too.
LEMMA AsmSignedIsExact ==
  ASSUME NEW a \in 0 .. DwordMod - 1, NEW b \in 0 .. DwordMod - 1
  PROVE  Divide(__divdi3_asm(a, b), __moddi3_asm(a, b)) = Div(a, b)
<1> DEFINE x == Magnitude(a)
           y == Magnitude(b)
<1>1. x \in 0 .. DwordMod - 1 /\ y \in 0 .. DwordMod - 1 /\ (y = 0 <=> b = 0)
  BY MagnitudeIs
<1>2. __udivdi3_asm(x, y) = DivU(x, y)
  BY <1>1, AsmDivides
<1>3. __moddi3_asm(a, b) = WithSign(DivU(x, y).rem, Negative(a))
  BY <1>2 DEF __moddi3_asm
<1>4. DwordMod \in Nat /\ DwordMod >= 1 /\ ~Negative(0) /\ neg(0) = 0
  <2>1. DwordMod \in Nat /\ DwordMod >= 1 /\ ~Negative(0)
    BY Halves
  <2>2. (DwordMod - 0) % DwordMod = 0
    <3>1. Euclid(DwordMod - 0, DwordMod, 1, 0)
      BY <2>1 DEF Euclid
    <3>2. QED BY <3>1, DivIs
  <2>3. QED BY <2>1, <2>2 DEF neg
<1>5. CASE b = 0
  <2>1. DivU(x, y) = Divide(DwordMod - 1, x) /\ y = 0
    BY <1>1, <1>5 DEF DivU
  <2>2. __divdi3_asm(a, b) = DwordMod - 1
    <3>1. CASE Negative(a)
      <4>1. __divdi3_asm(a, b) = __udivdi3_asm(neg(a), neg(b)).quo
        BY <3>1, <1>4, <1>5 DEF __divdi3_asm
      <4>2. neg(a) = x /\ neg(b) = y
        BY <3>1, <1>4, <1>5, <2>1 DEF Magnitude
      <4>3. QED BY <4>1, <4>2, <2>1, <1>2 DEF Divide
    <3>2. CASE ~Negative(a)
      <4>1. __divdi3_asm(a, b) = __udivdi3_asm(a, b).quo
        BY <3>2, <1>4, <1>5 DEF __divdi3_asm
      <4>2. a = x /\ b = y
        BY <3>2, <1>5, <2>1 DEF Magnitude
      <4>3. QED BY <4>1, <4>2, <2>1, <1>2 DEF Divide
    <3>3. QED BY <3>1, <3>2
  <2>3. __moddi3_asm(a, b) = a
    <3>1. __moddi3_asm(a, b) = WithSign(x, Negative(a))
      BY <2>1, <1>3 DEF Divide
    <3>2. CASE Negative(a)
      <4>1. WithSign(x, Negative(a)) = neg(neg(a))
        BY <3>2 DEF WithSign, Magnitude
      <4>2. a >= 1
        BY <3>2, <1>4
      <4>3. neg(a) = DwordMod - a
        <5>1. Euclid(DwordMod - a, DwordMod, 0, DwordMod - a)
          BY <4>2, <1>4 DEF Euclid
        <5>2. QED BY <5>1, DivIs DEF neg
      <4>4. neg(DwordMod - a) = a
        <5>1. DwordMod - (DwordMod - a) = a
          BY <1>4
        <5>2. a % DwordMod = a
          BY <1>4
        <5>3. QED BY <5>1, <5>2 DEF neg
      <4>5. QED BY <3>1, <4>1, <4>3, <4>4
    <3>3. CASE ~Negative(a)
      BY <3>1, <3>3 DEF WithSign, Magnitude
    <3>4. QED BY <3>2, <3>3
  <2>4. Div(a, b) = Divide(DwordMod - 1, a)
    BY <1>5 DEF Div
  <2>5. QED BY <2>2, <2>3, <2>4
<1>6. CASE b # 0
  <2> DEFINE q == x \div y
             r == x % y
  <2>1. Div(a, b) = Divide(WithSign(q, Negative(a) # Negative(b)), WithSign(r, Negative(a)))
    <3>1. b \in 1 .. DwordMod - 1
      BY <1>4, <1>6
    <3>2. QED BY <3>1, DivIsSigned
  <2>2. DivU(x, y) = Divide(q, r)
    BY <1>1, <1>6 DEF DivU
  <2> HIDE DEF q, r
  <2>3. __divdi3_asm(a, b) = WithSign(q, Negative(a) # Negative(b))
    <3>0. Negative(a) \in BOOLEAN /\ Negative(b) \in BOOLEAN
      BY SignIs
    <3>1. CASE ~Negative(a) /\ ~Negative(b)
      <4>1. __divdi3_asm(a, b) = __udivdi3_asm(a, b).quo /\ a = x /\ b = y
        BY <3>1 DEF __divdi3_asm, Magnitude
      <4>2. QED BY <4>1, <3>0, <3>1, <1>2, <2>2 DEF Divide, WithSign
    <3>2. CASE Negative(a) /\ Negative(b)
      <4>1. __divdi3_asm(a, b) = __udivdi3_asm(neg(a), neg(b)).quo /\ neg(a) = x /\ neg(b) = y
        BY <3>2 DEF __divdi3_asm, Magnitude
      <4>2. QED BY <4>1, <3>2, <1>2, <2>2 DEF Divide, WithSign
    <3>3. CASE Negative(a) # Negative(b)
      <4>1. __divdi3_asm(a, b) = neg(__udivdi3_asm(x, y).quo)
        BY <3>0, <3>3, <1>6 DEF __divdi3_asm
      <4>2. QED BY <4>1, <3>3, <1>2, <2>2 DEF Divide, WithSign
    <3>4. QED BY <3>0, <3>1, <3>2, <3>3
  <2>4. __moddi3_asm(a, b) = WithSign(r, Negative(a))
    BY <1>3, <2>2 DEF Divide
  <2>5. QED BY <2>1, <2>3, <2>4
<1>7. QED BY <1>5, <1>6

----------------------------------------------------------------------------

ArithmeticSpec == ArithmeticInit /\ [][CallAll]_<<operands, results>>

\* Whatever the operands, every routine returns what the processor would with an
\* instruction for it, for words of every size: multiplication, division, signs,
\* shifts and the zeros that are counted (int64.c, div.S, muldi3.S, multi3.c,
\* ashldi3.c).
THEOREM RoutinesAreExact == ArithmeticSpec => []ArithmeticIsExact
<1> DEFINE Inv == operands \in Operands /\ ArithmeticIsExact
<1>1. ArithmeticInit => Inv
  BY DEF ArithmeticInit, ArithmeticIsExact
<1>2. ASSUME Inv, [CallAll]_<<operands, results>> PROVE Inv'
  <2>1. CASE CallAll
    <3> DEFINE a == operands[1]
               b == operands[2]
    <3>1. a \in 0 .. DwordMod - 1 /\ b \in 0 .. DwordMod - 1
      BY <1>2, ArithmeticAssumption DEF ArithmeticAssumption, DwordMod
    <3>2. operands' = operands
      BY <2>1 DEF CallAll
    <3>3. /\ results'.asmUnsigned = __udivdi3_asm(a, b)
          /\ results'.asmSigned = Divide(__divdi3_asm(a, b), __moddi3_asm(a, b))
          /\ results'.product = __muldi3_asm(a, b) /\ results'.wideProduct = __multi3(a, b)
          /\ results'.shifted = __ashldi3(a, b % (2 * Bits))
      BY <2>1 DEF CallAll
    <3>4. b # 0 => /\ results'.unsigned = __udivmoddi4(a, b)
                   /\ results'.signed = Divide(__divdi3(a, b), __moddi3(a, b))
                   /\ results'.both = __divmoddi4(a, b)
                   /\ results'.zeros = <<__clzdi2(b), __ctzdi2(b)>>
      BY <2>1 DEF CallAll
    <3> HIDE DEF a, b
    <3>5. DwordMod \in Nat /\ Bits \in Nat /\ 2 * Bits >= 1
      BY Halves, Sizes
    <3>6. b # 0 => b \in 1 .. DwordMod - 1
      BY <3>1, <3>5
    <3>7. b % (2 * Bits) \in 0 .. 2 * Bits - 1
      BY <3>1, <3>5
    <3>8. b # 0 => /\ __udivmoddi4(a, b) = DivU(a, b)
                   /\ Divide(__divdi3(a, b), __moddi3(a, b)) = Div(a, b) /\ __divmoddi4(a, b) = Div(a, b)
      BY <3>1, <3>6, UnsignedIsExact, SignedIsExact DEF DivU
    <3>9. b # 0 =>
             /\ __clzdi2(b) = 2 * Bits - 1 - (CHOOSE k \in 0 .. 2 * Bits - 1 : Pow2[k] <= b /\ b < Pow2[k + 1])
             /\ __ctzdi2(b) = (CHOOSE k \in 0 .. 2 * Bits - 1 : b % Pow2[k] = 0 /\ b % Pow2[k + 1] # 0)
      BY <3>6, ZerosAreExact
    <3>10. __udivdi3_asm(a, b) = DivU(a, b) /\ Divide(__divdi3_asm(a, b), __moddi3_asm(a, b)) = Div(a, b)
      BY <3>1, AsmDivides, AsmSignedIsExact
    <3>11. __muldi3_asm(a, b) = (a * b) % DwordMod /\ __multi3(a, b) = (a * b) % DwordMod
      BY <3>1, ProductIsExact, WideProductIsExact
    <3>12. __ashldi3(a, b % (2 * Bits)) = (a * Pow2[b % (2 * Bits)]) % DwordMod
      BY <3>1, <3>7, ShiftIsExact
    <3>13. ArithmeticIsExact'
      BY <3>2, <3>3, <3>4, <3>8, <3>9, <3>10, <3>11, <3>12 DEF ArithmeticIsExact, a, b, DwordMod
    <3>14. QED BY <1>2, <3>2, <3>13
  <2>2. CASE UNCHANGED <<operands, results>>
    BY <1>2, <2>2 DEF ArithmeticIsExact
  <2>3. QED BY <1>2, <2>1, <2>2
<1>3. QED BY <1>1, <1>2, PTL DEF ArithmeticSpec
\* The states at[0], at[1], ... at[n] of a loop.
IsTrace(at, step, from, n) == at[0] = from /\ \A k \in Nat : k < n => at[k + 1] = step[at[k]]

\* A loop whose states are known, after n iterations or when it has ended then.
LEMMA LoopTrace ==
  ASSUME NEW step, NEW from, NEW n \in Nat, NEW at, IsTrace(at, step, from, n),
         NEW most \in Nat, most >= n, most > n => step[at[n]] = at[n]
  PROVE  Loop(step, from, most) = at[n]
<1> DEFINE g == [k \in 0 .. most |-> IF k <= n THEN at[k] ELSE at[n]]
           Is(f) == f = [k \in 0 .. most |-> IF k = 0 THEN from ELSE step[f[k - 1]]]
           after == CHOOSE f : Is(f)
<1>1. g[0] = from /\ g[most] = at[n]
  BY DEF IsTrace
<1>2. ASSUME NEW k \in Nat, k < most PROVE g[k + 1] = step[g[k]]
  <2>1. CASE k < n
    BY <1>2, <2>1 DEF IsTrace
  <2>2. CASE k >= n
    BY <1>2, <2>2
  <2>3. QED BY <2>1, <2>2
<1>3. Is(g)
  <2> DEFINE h == [k \in 0 .. most |-> IF k = 0 THEN from ELSE step[g[k - 1]]]
  <2>1. ASSUME NEW k \in 0 .. most PROVE g[k] = h[k]
    <3>1. CASE k = 0
      BY <3>1, <1>1
    <3>2. CASE k # 0
      <4>1. k - 1 \in Nat /\ k - 1 < most /\ (k - 1) + 1 = k
        BY <3>2
      <4>2. g[k] = step[g[k - 1]]
        BY <4>1, <1>2
      <4> HIDE DEF g
      <4>3. QED BY <4>2, <3>2
    <3>3. QED BY <3>1, <3>2
  <2>2. g = [k \in 0 .. most |-> g[k]] /\ h = [k \in 0 .. most |-> h[k]]
    OBVIOUS
  <2> HIDE DEF g, h
  <2>3. g = h
    BY <2>1, <2>2, Zenon
  <2>4. QED BY <2>3 DEF h
<1> HIDE DEF g
<1>4. Is(after)
  BY <1>3, Zenon
<1>5. Loop(step, from, most) = after[most]
  BY DEF Loop
<1> HIDE DEF after
<1> DEFINE A == {k \in Nat : k <= most => after[k] = g[k]}
<1>6. 0 \in A
  BY <1>1, <1>4
<1>7. ASSUME NEW k \in Nat, k \in A PROVE k + 1 \in A
  <2>1. CASE k + 1 <= most
    <3>1. after[k + 1] = step[after[k]]
      BY <1>4, <2>1
    <3>2. QED BY <3>1, <1>2, <1>7, <2>1
  <2>2. QED BY <2>1
<1> HIDE DEF A
<1>8. most \in A
  BY <1>6, <1>7, Induction
<1>9. QED BY <1>1, <1>5, <1>8 DEF A

\* A function on 1 .. N is a sequence of length N.
LEMMA SeqIs ==
  ASSUME NEW N \in Nat, NEW m, m \in [1 .. N -> Nat]
  PROVE  m \in Seq(Nat) /\ Len(m) = N
OBVIOUS

\* Two sequences one after the other.
LEMMA JoinIs ==
  ASSUME NEW a \in Seq(Nat), NEW b \in Seq(Nat)
  PROVE  /\ a \o b \in Seq(Nat) /\ Len(a) \in Nat /\ Len(b) \in Nat /\ Len(a \o b) = Len(a) + Len(b)
         /\ \A i \in 1 .. Len(a) : (a \o b)[i] = a[i]
         /\ \A i \in 1 .. Len(b) : (a \o b)[Len(a) + i] = b[i]
OBVIOUS
----------------------------------------------------------------------------
(* The string functions of klib.                                           *)

\* A set of natural numbers with a member has a least one.
LEMMA Least ==
  ASSUME NEW S, S \subseteq Nat, S # {}
  PROVE  \E x \in S : \A z \in S : x <= z
<1>1. PICK x \in S : \A z \in S : ~(<<z, x>> \in OpToRel(<, Nat))
  BY NatLessThanWellFounded, WFMin
<1>2. \A z \in S : ~(z < x)
  BY <1>1 DEF OpToRel
<1>3. QED BY <1>2

IsMemory(mem) == mem \in Seq(Nat)
IsPointer(p) == p \in Nat /\ p >= 1

\* The end of a string, and its bytes.
LEMMA EndIs ==
  ASSUME NEW mem, IsMemory(mem), NEW p, IsPointer(p), IsString(mem, p)
  PROVE  /\ EndOf(mem, p) \in Nat /\ p <= EndOf(mem, p) /\ EndOf(mem, p) <= Len(mem)
         /\ mem[EndOf(mem, p)] = 0
         /\ \A j \in Nat : p <= j /\ j < EndOf(mem, p) => mem[j] # 0
<1> DEFINE S == {i \in p .. Len(mem) : mem[i] = 0}
           Is(i) == mem[i] = 0 /\ \A j \in p .. i - 1 : mem[j] # 0
<1>1. p \in Nat /\ Len(mem) \in Nat /\ S \subseteq Nat /\ S # {}
  BY DEF IsString, IsMemory, IsPointer
<1>2. PICK x \in S : \A z \in S : x <= z
  BY <1>1, Least
<1>3. x \in p .. Len(mem) /\ Is(x)
  BY <1>1, <1>2
<1> DEFINE e == EndOf(mem, p)
<1>4. e \in p .. Len(mem) /\ Is(e)
  BY <1>3 DEF EndOf
<1> HIDE DEF e
<1>5. e \in Nat /\ p <= e /\ e <= Len(mem) /\ mem[e] = 0 /\ \A j \in Nat : p <= j /\ j < e => mem[j] # 0
  BY <1>1, <1>4
<1>6. QED BY <1>5 DEF e

\* The bytes of a block.
LEMMA BlockIs ==
  ASSUME NEW mem, IsMemory(mem), NEW p, IsPointer(p), NEW n \in Nat, Fits(mem, p, n)
  PROVE  /\ Block(mem, p, n) \in Seq(Nat) /\ Len(Block(mem, p, n)) = n
         /\ \A i \in 1 .. n : Block(mem, p, n)[i] = mem[p + i - 1]
<1>1. p \in Nat /\ p >= 1 /\ Len(mem) \in Nat /\ p + n - 1 <= Len(mem) /\ mem \in Seq(Nat)
  BY DEF IsMemory, IsPointer, Fits
<1>2. Block(mem, p, n) = [i \in 1 .. n |-> mem[p + i - 1]]
  BY <1>1 DEF Block
<1>3. \A i \in 1 .. n : mem[p + i - 1] \in Nat
  BY <1>1
<1>4. QED BY <1>1, <1>2, <1>3

\* A string is the block up to its end.
LEMMA StringIs ==
  ASSUME NEW mem, IsMemory(mem), NEW p, IsPointer(p), IsString(mem, p)
  PROVE  LET n == EndOf(mem, p) - p
         IN  n \in Nat /\ Fits(mem, p, n) /\ String(mem, p) = Block(mem, p, n)
<1>1. p \in Nat /\ EndOf(mem, p) \in Nat /\ p <= EndOf(mem, p) /\ EndOf(mem, p) <= Len(mem) /\ Len(mem) \in Nat
  BY EndIs DEF IsPointer, IsMemory
<1> DEFINE e == EndOf(mem, p)
<1>2. p + (e - p) - 1 = e - 1
  BY <1>1
<1>3. String(mem, p) = Block(mem, p, e - p)
  BY <1>2 DEF String, Block
<1>4. e - p \in Nat /\ p + (e - p) - 1 <= Len(mem)
  BY <1>1
<1>5. QED BY <1>3, <1>4 DEF Fits

\* strlen is the length.
LEMMA StrlenIs ==
  ASSUME NEW mem, IsMemory(mem), NEW p, IsPointer(p), IsString(mem, p)
  PROVE  strlen(mem, p) = EndOf(mem, p) - p
<1> DEFINE e == EndOf(mem, p)
           most == Len(mem)
           S == {q \in Nat : p <= q /\ q <= e}
           step == lengthStep(mem)
           left == [q \in S |-> e - q]
<1>1. /\ p \in Nat /\ p >= 1 /\ e \in Nat /\ p <= e /\ e <= most /\ most \in Nat
      /\ mem[e] = 0 /\ \A j \in Nat : p <= j /\ j < e => mem[j] # 0
  BY EndIs DEF IsPointer, IsMemory
<1> HIDE DEF e, most
<1>2. \A q \in S : step[q] = IF q = e THEN q ELSE q + 1
  BY <1>1 DEF lengthStep
<1> HIDE DEF step
<1>3. Ends(S, step, p, most, S, left)
  <2>1. IsLoop(S, step, p, most)
    BY <1>1, <1>2 DEF IsLoop
  <2>2. left \in [S -> Int] /\ p \in S /\ left[p] <= most
    BY <1>1
  <2>3. \A s \in S : step[s] \in S /\ left[s] >= 0 /\ (step[s] = s \/ left[step[s]] < left[s])
    BY <1>1, <1>2
  <2>4. QED BY <2>1, <2>2, <2>3 DEF Ends
<1>4. Loop(step, p, most) \in S /\ step[Loop(step, p, most)] = Loop(step, p, most)
  BY <1>3, LoopRule
<1>5. Loop(step, p, most) = e
  <2> DEFINE q == Loop(step, p, most)
  <2> HIDE DEF q
  <2>1. q \in S /\ step[q] = q
    BY <1>4 DEF q
  <2>2. q \in Nat /\ q = e
    BY <2>1, <1>2, <1>1
  <2>3. QED BY <2>2 DEF q
<1>6. QED BY <1>5 DEF strlen, step, most, e

----------------------------------------------------------------------------
(* Copies.                                                                 *)

\* Memory when the first k bytes at src, or the last k of n, have been copied.
Copied(mem, dst, src, k) ==
  [i \in DOMAIN mem |-> IF dst <= i /\ i < dst + k THEN mem[src + (i - dst)] ELSE mem[i]]
CopiedLast(mem, dst, src, n, k) ==
  [i \in DOMAIN mem |-> IF dst + (n - k) <= i /\ i < dst + n THEN mem[src + (i - dst)] ELSE mem[i]]

\* Memory with the byte v stored at p.
Stored(mem, p, v) == [mem EXCEPT ![p] = v]

\* The blocks of n bytes at dst and src are in memory.
InMemory(mem, dst, src, n) ==
  IsMemory(mem) /\ IsPointer(dst) /\ IsPointer(src) /\ n \in Nat /\ Fits(mem, dst, n) /\ Fits(mem, src, n)

\* What Copied is, and that one more byte stored is the next of them.
LEMMA CopiedIs ==
  ASSUME NEW mem, NEW dst, NEW src, NEW n, InMemory(mem, dst, src, n), NEW k \in 0 .. n
  PROVE  /\ Copied(mem, dst, src, k) \in Seq(Nat) /\ Copied(mem, dst, src, 0) = mem
         /\ k < n => Stored(Copied(mem, dst, src, k), dst + k, mem[src + k]) = Copied(mem, dst, src, k + 1)
         /\ \A i \in 1 .. Len(mem) : ~(dst <= i /\ i < dst + k) => Copied(mem, dst, src, k)[i] = mem[i]
<1>1. /\ mem \in Seq(Nat) /\ dst \in Nat /\ dst >= 1 /\ src \in Nat /\ src >= 1 /\ n \in Nat
      /\ Len(mem) \in Nat /\ dst + n - 1 <= Len(mem) /\ src + n - 1 <= Len(mem)
      /\ DOMAIN mem = 1 .. Len(mem)
  BY DEF InMemory, IsMemory, IsPointer, Fits
<1> DEFINE m == Copied(mem, dst, src, k)
           size == Len(mem)
<1>2. \A i \in 1 .. size : dst <= i /\ i < dst + k => src + (i - dst) \in 1 .. size
  BY <1>1
<1>3. mem \in [1 .. size -> Nat]
  BY <1>1
<1>4. m \in [1 .. size -> Nat]
  BY <1>1, <1>2, <1>3 DEF Copied
<1>5. m \in Seq(Nat)
  BY <1>1, <1>4
<1>6. Copied(mem, dst, src, 0) = mem
  BY <1>1, <1>3 DEF Copied
<1>7. ASSUME k < n PROVE [m EXCEPT ![dst + k] = mem[src + k]] = Copied(mem, dst, src, k + 1)
  <2> DEFINE l == [m EXCEPT ![dst + k] = mem[src + k]]
             r == Copied(mem, dst, src, k + 1)
  <2>1. k + 1 \in Nat /\ dst + k \in 1 .. size
    BY <1>1, <1>7
  <2>2. l \in [1 .. size -> Nat]
    BY <1>3, <1>4, <1>1, <1>7
  <2>3. r = [i \in 1 .. size |-> r[i]]
    BY <1>1 DEF Copied
  <2>4. ASSUME NEW i \in 1 .. size PROVE l[i] = r[i]
    <3>1. l[i] = IF i = dst + k THEN mem[src + k] ELSE m[i]
      BY <1>4
    <3>2. m[i] = IF dst <= i /\ i < dst + k THEN mem[src + (i - dst)] ELSE mem[i]
      BY <1>1 DEF Copied
    <3>3. r[i] = IF dst <= i /\ i < dst + (k + 1) THEN mem[src + (i - dst)] ELSE mem[i]
      BY <1>1 DEF Copied
    <3> HIDE DEF l, r, m
    <3>4. CASE i = dst + k
      BY <3>4, <3>1, <3>3, <1>1
    <3>5. CASE i # dst + k
      BY <3>5, <3>1, <3>2, <3>3, <1>1
    <3>6. QED BY <3>4, <3>5
  <2> HIDE DEF l, r
  <2>5. l = [i \in 1 .. size |-> l[i]]
    BY <2>2
  <2>6. l = r
    BY <2>3, <2>4, <2>5, Zenon
  <2>7. QED BY <2>6 DEF l, r
<1>8. \A i \in 1 .. Len(mem) : ~(dst <= i /\ i < dst + k) => m[i] = mem[i]
  BY <1>1 DEF Copied
<1>9. QED BY <1>5, <1>6, <1>7, <1>8 DEF Stored

\* The same of CopiedLast, which ends with all n bytes.
LEMMA CopiedLastIs ==
  ASSUME NEW mem, NEW dst, NEW src, NEW n, InMemory(mem, dst, src, n), NEW k \in 0 .. n
  PROVE  /\ CopiedLast(mem, dst, src, n, k) \in Seq(Nat) /\ CopiedLast(mem, dst, src, n, 0) = mem
         /\ CopiedLast(mem, dst, src, n, n) = Copied(mem, dst, src, n)
         /\ k < n => Stored(CopiedLast(mem, dst, src, n, k), dst + (n - 1 - k), mem[src + (n - 1 - k)])
                       = CopiedLast(mem, dst, src, n, k + 1)
         /\ \A i \in 1 .. Len(mem) :
              ~(dst + (n - k) <= i /\ i < dst + n) => CopiedLast(mem, dst, src, n, k)[i] = mem[i]
<1>1. /\ mem \in Seq(Nat) /\ dst \in Nat /\ dst >= 1 /\ src \in Nat /\ src >= 1 /\ n \in Nat
      /\ Len(mem) \in Nat /\ dst + n - 1 <= Len(mem) /\ src + n - 1 <= Len(mem)
      /\ DOMAIN mem = 1 .. Len(mem)
  BY DEF InMemory, IsMemory, IsPointer, Fits
<1> DEFINE m == CopiedLast(mem, dst, src, n, k)
           size == Len(mem)
<1>2. \A i \in 1 .. size : dst <= i /\ i < dst + n => src + (i - dst) \in 1 .. size
  BY <1>1
<1>3. mem \in [1 .. size -> Nat]
  BY <1>1
<1>4. m \in [1 .. size -> Nat]
  <2>1. \A i \in 1 .. size : dst + (n - k) <= i /\ i < dst + n => src + (i - dst) \in 1 .. size
    BY <1>1
  <2>2. QED BY <1>1, <2>1, <1>3 DEF CopiedLast
<1>5. m \in Seq(Nat)
  BY <1>1, <1>4, SeqIs
<1>6. CopiedLast(mem, dst, src, n, 0) = mem
  BY <1>1, <1>3 DEF CopiedLast
<1>7. ASSUME k < n
      PROVE  [m EXCEPT ![dst + (n - 1 - k)] = mem[src + (n - 1 - k)]] = CopiedLast(mem, dst, src, n, k + 1)
  <2> DEFINE p == dst + (n - 1 - k)
             v == mem[src + (n - 1 - k)]
             l == [m EXCEPT ![p] = v]
             r == CopiedLast(mem, dst, src, n, k + 1)
  <2>1. k + 1 \in Nat /\ p \in 1 .. size /\ src + (n - 1 - k) \in 1 .. size
    BY <1>1, <1>7
  <2>2. v \in Nat
    BY <2>1, <1>3
  <2> HIDE DEF m
  <2>3. l \in [1 .. size -> Nat]
    BY <1>4, <2>2
  <2>4. r = [i \in 1 .. size |-> r[i]]
    BY <1>1 DEF CopiedLast
  <2>5. ASSUME NEW i \in 1 .. size PROVE l[i] = r[i]
    <3>1. l[i] = IF i = p THEN v ELSE m[i]
      BY <1>4
    <3>2. m[i] = IF dst + (n - k) <= i /\ i < dst + n THEN mem[src + (i - dst)] ELSE mem[i]
      BY <1>1 DEF CopiedLast, m
    <3>3. r[i] = IF dst + (n - (k + 1)) <= i /\ i < dst + n THEN mem[src + (i - dst)] ELSE mem[i]
      BY <1>1 DEF CopiedLast
    <3> HIDE DEF l, r
    <3>4. CASE i = dst + (n - 1 - k)
      <4>1. i - dst = n - 1 - k /\ dst + (n - (k + 1)) <= i /\ i < dst + n
        BY <3>4, <1>1, <1>7
      <4>2. QED BY <4>1, <3>1, <3>3, <3>4
    <3>5. CASE i # dst + (n - 1 - k)
      <4>1. (dst + (n - (k + 1)) <= i) <=> (dst + (n - k) <= i)
        BY <3>5, <1>1, <1>7
      <4>2. QED BY <4>1, <3>1, <3>2, <3>3, <3>5
    <3>6. QED BY <3>4, <3>5
  <2> HIDE DEF l, r
  <2>6. l = [i \in 1 .. size |-> l[i]]
    BY <2>3
  <2>7. l = r
    BY <2>4, <2>5, <2>6, Zenon
  <2>8. QED BY <2>7 DEF l, r, p, v, m
<1>8. \A i \in 1 .. Len(mem) : ~(dst + (n - k) <= i /\ i < dst + n) => m[i] = mem[i]
  BY <1>1 DEF CopiedLast
<1>9. CopiedLast(mem, dst, src, n, n) = Copied(mem, dst, src, n)
  BY <1>1 DEF CopiedLast, Copied
<1>10. QED BY <1>5, <1>6, <1>7, <1>8, <1>9 DEF Stored

\* A block that has been copied is what the properties call it.
LEMMA CopiedIsWith ==
  ASSUME NEW mem, NEW dst, NEW src, NEW n, InMemory(mem, dst, src, n)
  PROVE  Copied(mem, dst, src, n) = With(mem, dst, Block(mem, src, n))
<1>1. /\ mem \in Seq(Nat) /\ dst \in Nat /\ dst >= 1 /\ src \in Nat /\ src >= 1 /\ n \in Nat
      /\ Len(mem) \in Nat /\ dst + n - 1 <= Len(mem) /\ src + n - 1 <= Len(mem)
      /\ DOMAIN mem = 1 .. Len(mem)
  BY DEF InMemory, IsMemory, IsPointer, Fits
<1> DEFINE b == Block(mem, src, n)
<1>2. Len(b) = n /\ \A i \in 1 .. n : b[i] = mem[src + i - 1]
  BY BlockIs DEF InMemory
<1> HIDE DEF b
<1>3. ASSUME NEW i \in 1 .. Len(mem)
      PROVE  (IF dst <= i /\ i < dst + n THEN mem[src + (i - dst)] ELSE mem[i])
               = (IF i \in dst .. dst + Len(b) - 1 THEN b[i - dst + 1] ELSE mem[i])
  <2>1. CASE dst <= i /\ i < dst + n
    <3>1. i - dst + 1 \in 1 .. n /\ src + (i - dst + 1) - 1 = src + (i - dst) /\ i \in dst .. dst + Len(b) - 1
      BY <2>1, <1>1, <1>2
    <3>2. QED BY <3>1, <2>1, <1>2
  <2>2. CASE ~(dst <= i /\ i < dst + n)
    BY <2>2, <1>1, <1>2
  <2>3. QED BY <2>1, <2>2
<1>4. QED BY <1>1, <1>3 DEF Copied, With, b

\* upStep and downStep copy a byte, stringStep one that is not zero.
LEMMA UpIs ==
  ASSUME NEW m \in Seq(Nat), NEW d \in Int, NEW s \in Int
  PROVE  /\ CopyIn(m, d, s).mem = m
         /\ upStep[CopyIn(m, d, s)] = CopyIn(Stored(m, d, m[s]), d + 1, s + 1)
         /\ downStep[CopyIn(m, d, s)] = CopyIn(Stored(m, d, m[s]), d - 1, s - 1)
         /\ m[s] = 0 => stringStep[CopyIn(m, d, s)] = CopyIn(m, d, s)
         /\ m[s] # 0 => stringStep[CopyIn(m, d, s)] = CopyIn(Stored(m, d, m[s]), d + 1, s + 1)
<1> DEFINE t == CopyIn(m, d, s)
<1>1. t \in Copying /\ t.mem = m /\ t.dst = d /\ t.src = s
  BY DEF Copying, CopyIn
<1> HIDE DEF t
<1>2. upStep[t] = CopyIn(Stored(m, d, m[s]), d + 1, s + 1)
  BY <1>1 DEF upStep, Stored
<1>3. downStep[t] = CopyIn(Stored(m, d, m[s]), d - 1, s - 1)
  BY <1>1 DEF downStep, Stored
<1>4. stringStep[t] = IF m[s] = 0 THEN t ELSE upStep[t]
  BY <1>1 DEF stringStep
<1>5. QED BY <1>1, <1>2, <1>3, <1>4 DEF t

\* fillStep stores one.
LEMMA FillIs ==
  ASSUME NEW m \in Seq(Nat), NEW d \in Int, NEW s \in Int, NEW c
  PROVE  fillStep(c)[CopyIn(m, d, s)] = CopyIn(Stored(m, d, c), d + 1, s)
<1> DEFINE t == CopyIn(m, d, s)
<1>1. t \in Copying /\ t.mem = m /\ t.dst = d /\ t.src = s
  BY DEF Copying, CopyIn
<1> HIDE DEF t
<1>2. fillStep(c)[t] = CopyIn(Stored(m, d, c), d + 1, s)
  BY <1>1 DEF fillStep, Stored
<1>3. QED BY <1>2 DEF t

\* A byte that is moved up is not read again, where the copy is below.
LEMMA MovesUp ==
  ASSUME NEW mem, NEW dst, NEW src, NEW n, InMemory(mem, dst, src, n),
         dst < src \/ Disjoint(dst, n, src, n)
  PROVE  Loop(upStep, CopyIn(mem, dst, src), n).mem = Copied(mem, dst, src, n)
<1>1. /\ dst \in Nat /\ dst >= 1 /\ src \in Nat /\ src >= 1 /\ n \in Nat /\ mem \in Seq(Nat)
      /\ Len(mem) \in Nat /\ dst + n - 1 <= Len(mem) /\ src + n - 1 <= Len(mem)
  BY DEF InMemory, IsMemory, IsPointer, Fits
<1> DEFINE at == [k \in 0 .. n |-> CopyIn(Copied(mem, dst, src, k), dst + k, src + k)]
           from == CopyIn(mem, dst, src)
<1>2. at[0] = from /\ at[n].mem = Copied(mem, dst, src, n)
  <2>1. 0 \in 0 .. n /\ n \in 0 .. n /\ dst + 0 = dst /\ src + 0 = src
    BY <1>1
  <2>2. Copied(mem, dst, src, 0) = mem
    BY <2>1, CopiedIs
  <2>3. QED BY <2>1, <2>2 DEF CopyIn
<1>3. ASSUME NEW k \in Nat, k < n PROVE at[k + 1] = upStep[at[k]]
  <2> DEFINE m == Copied(mem, dst, src, k)
  <2>1. /\ m \in Seq(Nat) /\ Stored(m, dst + k, mem[src + k]) = Copied(mem, dst, src, k + 1)
        /\ \A i \in 1 .. Len(mem) : ~(dst <= i /\ i < dst + k) => m[i] = mem[i]
    <3>1. k \in 0 .. n /\ k < n
      BY <1>1, <1>3
    <3>2. QED BY <3>1, CopiedIs
  <2> HIDE DEF m
  <2>2. m[src + k] = mem[src + k]
    <3>1. src + k \in 1 .. Len(mem) /\ ~(dst <= src + k /\ src + k < dst + k)
      BY <1>1, <1>3 DEF Disjoint
    <3>2. QED BY <2>1, <3>1
  <2> DEFINE d == dst + k
             s == src + k
  <2>3. d \in Int /\ s \in Int /\ d + 1 = dst + (k + 1) /\ s + 1 = src + (k + 1)
    BY <1>1
  <2>4. at[k] = CopyIn(m, d, s) /\ at[k + 1] = CopyIn(Copied(mem, dst, src, k + 1), d + 1, s + 1)
    BY <1>1, <1>3, <2>3 DEF m
  <2> HIDE DEF d, s, at
  <2>5. upStep[CopyIn(m, d, s)] = CopyIn(Stored(m, d, m[s]), d + 1, s + 1)
    BY <2>1, <2>3, UpIs
  <2>6. Stored(m, d, m[s]) = Copied(mem, dst, src, k + 1)
    BY <2>1, <2>2 DEF d, s
  <2>7. QED BY <2>4, <2>5, <2>6, Zenon
<1> HIDE DEF at
<1>4. IsTrace(at, upStep, from, n)
  BY <1>2, <1>3 DEF IsTrace
<1>5. Loop(upStep, from, n) = at[n]
  BY <1>1, <1>4, LoopTrace
<1>6. QED BY <1>2, <1>5

\* A byte that is moved down is not read again, where the copy is above.
LEMMA MovesDown ==
  ASSUME NEW mem, NEW dst, NEW src, NEW n, InMemory(mem, dst, src, n), dst >= src
  PROVE  Loop(downStep, CopyIn(mem, dst + n - 1, src + n - 1), n).mem = Copied(mem, dst, src, n)
<1>1. /\ dst \in Nat /\ dst >= 1 /\ src \in Nat /\ src >= 1 /\ n \in Nat /\ mem \in Seq(Nat)
      /\ Len(mem) \in Nat /\ dst + n - 1 <= Len(mem) /\ src + n - 1 <= Len(mem)
  BY DEF InMemory, IsMemory, IsPointer, Fits
<1> DEFINE at == [k \in 0 .. n |-> CopyIn(CopiedLast(mem, dst, src, n, k), dst + (n - 1 - k), src + (n - 1 - k))]
           from == CopyIn(mem, dst + n - 1, src + n - 1)
<1>2. at[0] = from
  <2>1. 0 \in 0 .. n /\ dst + (n - 1 - 0) = dst + n - 1 /\ src + (n - 1 - 0) = src + n - 1
    BY <1>1
  <2>2. CopiedLast(mem, dst, src, n, 0) = mem
    BY <2>1, CopiedLastIs
  <2>3. QED BY <2>1, <2>2
<1>3. at[n].mem = Copied(mem, dst, src, n)
  <2>1. n \in 0 .. n
    BY <1>1
  <2>2. CopiedLast(mem, dst, src, n, n) = Copied(mem, dst, src, n)
    BY <2>1, CopiedLastIs
  <2>3. QED BY <2>1, <2>2 DEF CopyIn
<1>4. ASSUME NEW k \in Nat, k < n PROVE at[k + 1] = downStep[at[k]]
  <2> DEFINE m == CopiedLast(mem, dst, src, n, k)
             d == dst + (n - 1 - k)
             s == src + (n - 1 - k)
  <2>1. /\ m \in Seq(Nat) /\ Stored(m, d, mem[s]) = CopiedLast(mem, dst, src, n, k + 1)
        /\ \A i \in 1 .. Len(mem) : ~(dst + (n - k) <= i /\ i < dst + n) => m[i] = mem[i]
    <3>1. k \in 0 .. n /\ k < n
      BY <1>1, <1>4
    <3>2. QED BY <3>1, CopiedLastIs
  <2> HIDE DEF m
  <2>2. m[s] = mem[s]
    <3>1. s \in 1 .. Len(mem) /\ ~(dst + (n - k) <= s /\ s < dst + n)
      BY <1>1, <1>4
    <3>2. QED BY <2>1, <3>1
  <2>3. d \in Int /\ s \in Int /\ d - 1 = dst + (n - 1 - (k + 1)) /\ s - 1 = src + (n - 1 - (k + 1))
    BY <1>1
  <2>4. at[k] = CopyIn(m, d, s) /\ at[k + 1] = CopyIn(CopiedLast(mem, dst, src, n, k + 1), d - 1, s - 1)
    BY <1>1, <1>4, <2>3 DEF m
  <2> HIDE DEF d, s, at
  <2>5. downStep[CopyIn(m, d, s)] = CopyIn(Stored(m, d, m[s]), d - 1, s - 1)
    BY <2>1, <2>3, UpIs
  <2>6. Stored(m, d, m[s]) = CopiedLast(mem, dst, src, n, k + 1)
    BY <2>1, <2>2
  <2>7. QED BY <2>4, <2>5, <2>6, Zenon
<1> HIDE DEF at
<1>5. IsTrace(at, downStep, from, n)
  BY <1>2, <1>4 DEF IsTrace
<1>6. Loop(downStep, from, n) = at[n]
  BY <1>1, <1>5, LoopTrace
<1>7. QED BY <1>3, <1>6

\* memmove and memcpy leave the block they were given.
LEMMA MoveIsExact ==
  ASSUME NEW mem, NEW dst, NEW src, NEW n, InMemory(mem, dst, src, n)
  PROVE  /\ memmove(mem, dst, src, n) = With(mem, dst, Block(mem, src, n))
         /\ Disjoint(dst, n, src, n) => memcpy(mem, dst, src, n) = With(mem, dst, Block(mem, src, n))
<1>1. dst \in Nat /\ src \in Nat
  BY DEF InMemory, IsPointer
<1>2. Copied(mem, dst, src, n) = With(mem, dst, Block(mem, src, n))
  BY CopiedIsWith
<1>3. CASE dst < src
  BY <1>2, <1>3, MovesUp DEF memmove, memcpy
<1>4. CASE ~(dst < src)
  <2>1. dst >= src
    BY <1>1, <1>4
  <2>2. QED BY <1>2, <1>4, <2>1, MovesUp, MovesDown DEF memmove, memcpy
<1>5. QED BY <1>3, <1>4

\* The bytes of a string with its end.
SizeOf(mem, p, n) == n = (EndOf(mem, p) - p) + 1

\* strcpy copies a string and its end.
LEMMA CopyIsExact ==
  ASSUME NEW mem, NEW dst, NEW src, IsMemory(mem), IsPointer(src), IsString(mem, src),
         NEW n, SizeOf(mem, src, n), InMemory(mem, dst, src, n), Disjoint(dst, n, src, n)
  PROVE  strcpy(mem, dst, src) = Copied(mem, dst, src, n)
<1> DEFINE e == EndOf(mem, src)
<1>1. /\ dst \in Nat /\ dst >= 1 /\ src \in Nat /\ src >= 1 /\ n \in Nat /\ mem \in Seq(Nat)
      /\ Len(mem) \in Nat /\ dst + n - 1 <= Len(mem) /\ src + n - 1 <= Len(mem)
  BY DEF InMemory, IsMemory, IsPointer, Fits
<1>2. /\ e \in Nat /\ src <= e /\ e <= Len(mem) /\ mem[e] = 0
      /\ \A j \in Nat : src <= j /\ j < e => mem[j] # 0
  BY EndIs
<1>3. n = (e - src) + 1
  BY DEF SizeOf
<1> HIDE DEF e
<1> DEFINE l == e - src
<1>4. l \in Nat /\ n = l + 1 /\ e = src + l /\ l <= Len(mem) /\ l \in 0 .. n
  <2> DEFINE size == Len(mem)
  <2>1. /\ src \in Nat /\ src >= 1 /\ e \in Nat /\ src <= e /\ e <= size /\ size \in Nat
        /\ n \in Nat /\ n = (e - src) + 1
    BY <1>1, <1>2, <1>3
  <2> HIDE DEF size
  <2>2. e - src \in Nat /\ e = src + (e - src) /\ e - src <= size
    BY <2>1
  <2>3. QED BY <2>1, <2>2 DEF size
<1> HIDE DEF l
<1> DEFINE at == [k \in 0 .. l |-> CopyIn(Copied(mem, dst, src, k), dst + k, src + k)]
           from == CopyIn(mem, dst, src)
           most == Len(mem)
<1>5. at[0] = from
  <2>1. 0 \in 0 .. n /\ 0 \in 0 .. l /\ dst + 0 = dst /\ src + 0 = src
    BY <1>1, <1>4
  <2>2. Copied(mem, dst, src, 0) = mem
    BY <2>1, CopiedIs
  <2>3. QED BY <2>1, <2>2
<1>6. ASSUME NEW k \in Nat, k <= l
      PROVE  /\ k < l => at[k + 1] = stringStep[at[k]]
             /\ k = l => stringStep[at[k]] = at[k]
             /\ at[k] = CopyIn(Copied(mem, dst, src, k), dst + k, src + k)
             /\ Copied(mem, dst, src, k) \in Seq(Nat)
             /\ Stored(Copied(mem, dst, src, k), dst + k, mem[src + k]) = Copied(mem, dst, src, k + 1)
  <2> DEFINE m == Copied(mem, dst, src, k)
             d == dst + k
             s == src + k
  <2>1. /\ m \in Seq(Nat) /\ Stored(m, d, mem[s]) = Copied(mem, dst, src, k + 1)
        /\ \A i \in 1 .. Len(mem) : ~(dst <= i /\ i < dst + k) => m[i] = mem[i]
    <3>1. k \in 0 .. n /\ k < n
      BY <1>1, <1>4, <1>6
    <3>2. QED BY <3>1, CopiedIs
  <2>2. at[k] = CopyIn(m, d, s)
    BY <1>6
  <2>3. d \in Int /\ s \in Int /\ d + 1 = dst + (k + 1) /\ s + 1 = src + (k + 1)
    BY <1>1
  <2>4. k < l => at[k + 1] = CopyIn(Copied(mem, dst, src, k + 1), d + 1, s + 1)
    BY <1>4, <1>6, <2>3
  <2> HIDE DEF m
  <2>5. m[s] = mem[s]
    <3>1. src + k \in 1 .. Len(mem) /\ ~(dst <= src + k /\ src + k < dst + k)
      <4>1. dst + n <= src \/ src + n <= dst
        BY DEF Disjoint
      <4>2. k < n /\ src + k <= (src + n) - 1
        BY <1>1, <1>4, <1>6
      <4>3. QED BY <1>1, <1>6, <4>1, <4>2
    <3>2. QED BY <2>1, <3>1
  <2>6. (mem[s] = 0) <=> (k = l)
    <3>1. s \in Nat /\ src <= s /\ (k = l => s = e) /\ (k # l => s < e)
      BY <1>1, <1>4, <1>6
    <3> HIDE DEF s
    <3>2. QED BY <1>2, <3>1
  <2> HIDE DEF d, s, at
  <2>7. CASE k = l
    <3>1. stringStep[CopyIn(m, d, s)] = CopyIn(m, d, s)
      BY <2>1, <2>3, <2>5, <2>6, <2>7, UpIs
    <3>2. QED BY <3>1, <2>1, <2>2, <2>7 DEF m, d, s
  <2>8. CASE k < l
    <3>1. m[s] # 0
      BY <2>5, <2>6, <2>8, <1>4
    <3>2. stringStep[CopyIn(m, d, s)] = CopyIn(Stored(m, d, m[s]), d + 1, s + 1)
      BY <2>1, <2>3, <3>1, UpIs
    <3>3. at[k + 1] = stringStep[at[k]]
      BY <2>1, <2>2, <2>4, <2>5, <2>8, <3>2
    <3>4. k # l
      BY <1>4, <2>8
    <3>5. QED BY <3>3, <3>4, <2>1, <2>2 DEF m, d, s
  <2>9. QED BY <1>4, <1>6, <2>7, <2>8
<1> HIDE DEF at
<1>7. IsTrace(at, stringStep, from, l)
  BY <1>4, <1>5, <1>6 DEF IsTrace
<1>8. Loop(stringStep, from, most) = at[l]
  <2>1. stringStep[at[l]] = at[l] /\ most \in Nat /\ most >= l
    BY <1>1, <1>4, <1>6
  <2>2. QED BY <1>4, <1>7, <2>1, LoopTrace
<1>9. /\ at[l] = CopyIn(Copied(mem, dst, src, l), dst + l, src + l)
      /\ Stored(Copied(mem, dst, src, l), dst + l, mem[src + l]) = Copied(mem, dst, src, l + 1)
  BY <1>4, <1>6
<1>10. mem[src + l] = 0 /\ Copied(mem, dst, src, l + 1) = Copied(mem, dst, src, n)
  BY <1>2, <1>4
<1>11. at[l].mem = Copied(mem, dst, src, l) /\ at[l].dst = dst + l
  BY <1>9 DEF CopyIn
<1>12. strcpy(mem, dst, src) = Stored(at[l].mem, at[l].dst, 0)
  BY <1>8 DEF strcpy, Stored
<1>13. QED BY <1>9, <1>10, <1>11, <1>12

\* A string with its end is a block.
LEMMA StringEnds ==
  ASSUME NEW mem, IsMemory(mem), NEW p, IsPointer(p), IsString(mem, p), NEW n, SizeOf(mem, p, n)
  PROVE  /\ n \in Nat /\ Fits(mem, p, n) /\ String(mem, p) \o <<0>> = Block(mem, p, n)
         /\ Len(String(mem, p)) + 1 = n /\ String(mem, p) \in Seq(Nat)
<1> DEFINE e == EndOf(mem, p)
           s == String(mem, p)
           b == Block(mem, p, n)
<1>1. p \in Nat /\ p >= 1 /\ e \in Nat /\ p <= e /\ e <= Len(mem) /\ Len(mem) \in Nat /\ mem[e] = 0
  BY EndIs DEF IsPointer, IsMemory
<1>2. e - p \in Nat /\ Fits(mem, p, e - p) /\ s = Block(mem, p, e - p)
  BY StringIs
<1>3. s \in Seq(Nat) /\ Len(s) = e - p /\ \A i \in 1 .. e - p : s[i] = mem[p + i - 1]
  BY <1>2, BlockIs
<1>4. n = (e - p) + 1
  BY DEF SizeOf
<1> HIDE DEF e, s
<1>5. n \in Nat /\ p + n - 1 <= Len(mem)
  BY <1>1, <1>4
<1>6. b \in Seq(Nat) /\ Len(b) = n /\ \A i \in 1 .. n : b[i] = mem[p + i - 1]
  BY <1>5, BlockIs DEF Fits
<1> HIDE DEF b
<1> DEFINE z == s \o <<0>>
<1>7. z \in Seq(Nat) /\ Len(z) = n /\ (\A i \in 1 .. Len(s) : z[i] = s[i]) /\ z[Len(s) + 1] = 0
  <2> DEFINE last == <<0>>
  <2>1. last \in Seq(Nat) /\ Len(last) = 1 /\ last[1] = 0
    OBVIOUS
  <2> HIDE DEF last
  <2>2. /\ s \o last \in Seq(Nat) /\ Len(s \o last) = Len(s) + Len(last)
        /\ \A i \in 1 .. Len(s) : (s \o last)[i] = s[i]
        /\ \A i \in 1 .. Len(last) : (s \o last)[Len(s) + i] = last[i]
    BY <1>3, <2>1, JoinIs
  <2>3. Len(s \o last) = n
    BY <1>3, <1>4, <2>1, <2>2
  <2>4. (s \o last)[Len(s) + 1] = 0
    BY <2>1, <2>2
  <2>5. QED BY <2>2, <2>3, <2>4 DEF last
<1> HIDE DEF z
<1>8. ASSUME NEW i \in 1 .. n PROVE z[i] = b[i]
  <2>1. CASE i <= e - p
    <3>1. i \in 1 .. Len(s) /\ i \in 1 .. e - p
      BY <2>1, <1>1, <1>3
    <3>2. z[i] = s[i]
      BY <3>1, <1>7
    <3>3. QED BY <3>1, <3>2, <1>3, <1>6
  <2>2. CASE i > e - p
    <3>1. i = n /\ i = Len(s) + 1 /\ p + i - 1 = e
      BY <2>2, <1>1, <1>3, <1>4, <1>5
    <3>2. z[i] = 0
      BY <3>1, <1>7
    <3>3. QED BY <3>1, <3>2, <1>1, <1>6
  <2>3. QED BY <2>1, <2>2, <1>1, <1>5
<1>9. z = b
  BY <1>6, <1>7, <1>8
<1>10. QED BY <1>1, <1>3, <1>4, <1>5, <1>9 DEF z, s, b, Fits

\* What is stored behind a string is stored with it from its beginning.
LEMMA WithAppended ==
  ASSUME NEW mem, IsMemory(mem), NEW p, IsPointer(p), IsString(mem, p),
         NEW b \in Seq(Nat), Fits(mem, EndOf(mem, p), Len(b))
  PROVE  With(mem, EndOf(mem, p), b) = With(mem, p, String(mem, p) \o b)
<1> DEFINE e == EndOf(mem, p)
           s == String(mem, p)
           z == s \o b
           size == Len(mem)
<1>1. p \in Nat /\ p >= 1 /\ e \in Nat /\ p <= e /\ e <= size /\ size \in Nat /\ mem[e] = 0 /\ DOMAIN mem = 1 .. size
  BY EndIs DEF IsPointer, IsMemory
<1>2. e - p \in Nat /\ Fits(mem, p, e - p) /\ s = Block(mem, p, e - p)
  BY StringIs
<1>3. s \in Seq(Nat) /\ Len(s) = e - p /\ \A i \in 1 .. e - p : s[i] = mem[p + i - 1]
  BY <1>2, BlockIs
<1> HIDE DEF e, s
<1>4. /\ Len(b) \in Nat /\ Len(z) = (e - p) + Len(b)
      /\ \A i \in 1 .. Len(s) : z[i] = s[i]
      /\ \A i \in 1 .. Len(b) : z[Len(s) + i] = b[i]
  <2>1. s \in Seq(Nat)
    BY <1>3
  <2>2. /\ Len(b) \in Nat /\ Len(z) = Len(s) + Len(b)
        /\ \A i \in 1 .. Len(s) : z[i] = s[i]
        /\ \A i \in 1 .. Len(b) : z[Len(s) + i] = b[i]
    BY <2>1, JoinIs
  <2>3. QED BY <1>3, <2>2
<1> HIDE DEF z
<1> DEFINE n == Len(b)
           l(i) == IF i \in e .. e + Len(b) - 1 THEN b[i - e + 1] ELSE mem[i]
           r(i) == IF i \in p .. p + Len(z) - 1 THEN z[i - p + 1] ELSE mem[i]
<1>5. ASSUME NEW i \in 1 .. size PROVE l(i) = r(i)
  <2> HIDE DEF n, size
  <2>1. i \in Nat /\ n \in Nat
    BY <1>1, <1>4 DEF n
  <2>2. CASE i < p
    <3>1. ~(i \in e .. e + n - 1) /\ ~(i \in p .. p + Len(z) - 1)
      BY <2>1, <2>2, <1>1
    <3>2. QED BY <3>1 DEF n
  <2>3. CASE p <= i /\ i < e
    <3> DEFINE j == i - p + 1
    <3>1. ~(i \in e .. e + n - 1) /\ i \in p .. p + Len(z) - 1 /\ j \in 1 .. e - p /\ p + j - 1 = i
      BY <2>1, <2>3, <1>1, <1>4 DEF n
    <3> HIDE DEF j
    <3>2. z[j] = s[j] /\ s[j] = mem[p + j - 1]
      BY <3>1, <1>3, <1>4
    <3>3. QED BY <3>1, <3>2 DEF n, j
  <2>4. CASE e <= i /\ i < e + n
    <3> DEFINE j == i - e + 1
    <3>1. i \in e .. e + n - 1 /\ i \in p .. p + Len(z) - 1 /\ j \in 1 .. n /\ i - p + 1 = Len(s) + j
      BY <2>1, <2>4, <1>1, <1>3, <1>4 DEF n
    <3> HIDE DEF j
    <3>2. z[Len(s) + j] = b[j]
      BY <3>1, <1>4 DEF n
    <3>3. QED BY <3>1, <3>2 DEF n, j
  <2>5. CASE e + n <= i
    <3>1. ~(i \in e .. e + n - 1) /\ ~(i \in p .. p + Len(z) - 1)
      BY <2>1, <2>5, <1>1, <1>4 DEF n
    <3>2. QED BY <3>1 DEF n
  <2>6. QED BY <2>1, <2>2, <2>3, <2>4, <2>5, <1>1
<1>6. With(mem, e, b) = [i \in 1 .. size |-> l(i)] /\ With(mem, p, z) = [i \in 1 .. size |-> r(i)]
  BY <1>1 DEF With
<1> HIDE DEF l, r
<1>7. With(mem, e, b) = With(mem, p, z)
  BY <1>5, <1>6
<1>8. QED BY <1>7 DEF e, z, s

\* Three sequences one after the other.
LEMMA JoinedThrice ==
  ASSUME NEW a \in Seq(Nat), NEW b \in Seq(Nat), NEW c \in Seq(Nat)
  PROVE  (a \o b) \o c = a \o (b \o c)
OBVIOUS

\* strcpy and strcat.
LEMMA StringIsCopied ==
  ASSUME NEW mem, IsMemory(mem), NEW dst, IsPointer(dst), NEW src, IsPointer(src), IsString(mem, src),
         NEW n, SizeOf(mem, src, n), Fits(mem, dst, n), Disjoint(dst, n, src, n)
  PROVE  strcpy(mem, dst, src) = With(mem, dst, String(mem, src) \o <<0>>)
<1>1. n \in Nat /\ Fits(mem, src, n) /\ String(mem, src) \o <<0>> = Block(mem, src, n)
  BY StringEnds
<1>2. InMemory(mem, dst, src, n)
  BY <1>1 DEF InMemory
<1>3. strcpy(mem, dst, src) = Copied(mem, dst, src, n)
  BY <1>2, CopyIsExact
<1>4. QED BY <1>1, <1>2, <1>3, CopiedIsWith

\* strcat is strcpy at the end of the first string.
LEMMA StringIsAppended ==
  ASSUME NEW mem, IsMemory(mem), NEW dst, IsPointer(dst), NEW src, IsPointer(src),
         IsString(mem, src), IsString(mem, dst),
         NEW n, SizeOf(mem, src, n), Fits(mem, EndOf(mem, dst), n), Disjoint(EndOf(mem, dst), n, src, n)
  PROVE  strcat(mem, dst, src) = With(mem, dst, String(mem, dst) \o String(mem, src) \o <<0>>)
<1> DEFINE e == EndOf(mem, dst)
           d == String(mem, dst)
           s == String(mem, src)
           m == EndOf(mem, dst) - dst + 1
<1>1. IsPointer(e) /\ e \in Nat /\ dst \in Nat /\ dst + (e - dst) = e
  BY EndIs DEF IsPointer
<1>2. dst + strlen(mem, dst) = e
  BY <1>1, StrlenIs
<1>3. strcat(mem, dst, src) = strcpy(mem, e, src)
  BY <1>2 DEF strcat
<1>4. strcpy(mem, e, src) = With(mem, e, s \o <<0>>)
  BY <1>1, StringIsCopied
<1>5. s \in Seq(Nat) /\ Len(s) + 1 = n
  BY StringEnds
<1>6. d \in Seq(Nat)
  <2>1. SizeOf(mem, dst, m)
    BY DEF SizeOf
  <2>2. QED BY <2>1, StringEnds
<1> HIDE DEF d, s, m
<1>7. s \o <<0>> \in Seq(Nat) /\ Len(s \o <<0>>) = n /\ <<0>> \in Seq(Nat)
  BY <1>5
<1>8. With(mem, e, s \o <<0>>) = With(mem, dst, d \o (s \o <<0>>))
  BY <1>7, WithAppended DEF d
<1>9. (d \o s) \o <<0>> = d \o (s \o <<0>>)
  BY <1>5, <1>6, <1>7, JoinedThrice
<1>10. QED BY <1>3, <1>4, <1>8, <1>9 DEF d, s

----------------------------------------------------------------------------
(* memset.                                                                 *)

\* Memory when k bytes from p are v.
Filled(mem, p, v, k) == [i \in DOMAIN mem |-> IF p <= i /\ i < p + k THEN v ELSE mem[i]]

\* One byte more.
LEMMA FilledIs ==
  ASSUME NEW mem, IsMemory(mem), NEW p, IsPointer(p), NEW n \in Nat, Fits(mem, p, n),
         NEW v \in Nat, NEW k \in 0 .. n
  PROVE  /\ Filled(mem, p, v, k) \in Seq(Nat) /\ Filled(mem, p, v, 0) = mem
         /\ k < n => Stored(Filled(mem, p, v, k), p + k, v) = Filled(mem, p, v, k + 1)
<1>1. /\ mem \in Seq(Nat) /\ p \in Nat /\ p >= 1 /\ Len(mem) \in Nat /\ p + n - 1 <= Len(mem)
      /\ DOMAIN mem = 1 .. Len(mem)
  BY DEF IsMemory, IsPointer, Fits
<1> DEFINE m == Filled(mem, p, v, k)
           size == Len(mem)
<1>2. mem \in [1 .. size -> Nat]
  BY <1>1
<1>3. m \in [1 .. size -> Nat]
  BY <1>1, <1>2 DEF Filled
<1>4. m \in Seq(Nat)
  BY <1>1, <1>3, SeqIs
<1>5. Filled(mem, p, v, 0) = mem
  BY <1>1, <1>2 DEF Filled
<1>6. ASSUME k < n PROVE [m EXCEPT ![p + k] = v] = Filled(mem, p, v, k + 1)
  <2> DEFINE l == [m EXCEPT ![p + k] = v]
             r == Filled(mem, p, v, k + 1)
  <2>1. k + 1 \in Nat /\ p + k \in 1 .. size
    BY <1>1, <1>6
  <2>2. l \in [1 .. size -> Nat]
    BY <1>3
  <2>3. r = [i \in 1 .. size |-> r[i]]
    BY <1>1 DEF Filled
  <2>4. ASSUME NEW i \in 1 .. size PROVE l[i] = r[i]
    <3>1. l[i] = IF i = p + k THEN v ELSE m[i]
      BY <1>3
    <3>2. m[i] = IF p <= i /\ i < p + k THEN v ELSE mem[i]
      BY <1>1 DEF Filled
    <3>3. r[i] = IF p <= i /\ i < p + (k + 1) THEN v ELSE mem[i]
      BY <1>1 DEF Filled
    <3> HIDE DEF l, r, m
    <3>4. QED BY <3>1, <3>2, <3>3, <1>1
  <2> HIDE DEF l, r
  <2>5. l = [i \in 1 .. size |-> l[i]]
    BY <2>2
  <2>6. l = r
    BY <2>3, <2>4, <2>5, Zenon
  <2>7. QED BY <2>6 DEF l, r
<1>7. QED BY <1>4, <1>5, <1>6 DEF Stored

\* memset fills the block.
Alike(n, v) == [i \in 1 .. n |-> v]

\* memset fills the block with the byte.
LEMMA MemsetIsExact ==
  ASSUME NEW mem, IsMemory(mem), NEW p, IsPointer(p), NEW n \in Nat, Fits(mem, p, n), NEW v \in Nat
  PROVE  memset(mem, p, v, n) = With(mem, p, Alike(n, v))
<1>1. p \in Nat /\ p >= 1 /\ Len(mem) \in Nat /\ DOMAIN mem = 1 .. Len(mem)
  BY DEF IsMemory, IsPointer
<1> DEFINE at == [k \in 0 .. n |-> CopyIn(Filled(mem, p, v, k), p + k, p)]
           from == CopyIn(mem, p, p)
<1>2. at[0] = from /\ at[n].mem = Filled(mem, p, v, n)
  <2>1. 0 \in 0 .. n /\ p + 0 = p /\ n \in 0 .. n
    BY <1>1
  <2>2. Filled(mem, p, v, 0) = mem
    BY <2>1, FilledIs
  <2>3. QED BY <2>1, <2>2 DEF CopyIn
<1>3. ASSUME NEW k \in Nat, k < n PROVE at[k + 1] = fillStep(v)[at[k]]
  <2> DEFINE m == Filled(mem, p, v, k)
             d == p + k
  <2>1. m \in Seq(Nat) /\ Stored(m, d, v) = Filled(mem, p, v, k + 1)
    <3>1. k \in 0 .. n /\ k < n
      BY <1>3
    <3>2. QED BY <3>1, FilledIs
  <2>2. d \in Int /\ p \in Int /\ d + 1 = p + (k + 1)
    BY <1>1
  <2>3. at[k] = CopyIn(m, d, p) /\ at[k + 1] = CopyIn(Filled(mem, p, v, k + 1), d + 1, p)
    BY <1>3, <2>2
  <2> HIDE DEF m, d, at
  <2>4. fillStep(v)[CopyIn(m, d, p)] = CopyIn(Stored(m, d, v), d + 1, p)
    BY <2>1, <2>2, FillIs
  <2>5. QED BY <2>1, <2>3, <2>4, Zenon
<1> HIDE DEF at
<1>4. IsTrace(at, fillStep(v), from, n)
  BY <1>2, <1>3 DEF IsTrace
<1>5. Loop(fillStep(v), from, n) = at[n]
  BY <1>4, LoopTrace
<1>6. memset(mem, p, v, n) = Filled(mem, p, v, n)
  BY <1>2, <1>5 DEF memset
<1> DEFINE b == Alike(n, v)
<1>7. Len(b) = n /\ \A i \in 1 .. n : b[i] = v
  BY DEF Alike
<1> HIDE DEF b
<1>8. ASSUME NEW i \in 1 .. Len(mem)
      PROVE  (IF p <= i /\ i < p + n THEN v ELSE mem[i])
               = (IF i \in p .. p + Len(b) - 1 THEN b[i - p + 1] ELSE mem[i])
  BY <1>1, <1>7
<1>9. Filled(mem, p, v, n) = With(mem, p, b)
  BY <1>1, <1>8 DEF Filled, With
<1>10. QED BY <1>6, <1>9 DEF b

----------------------------------------------------------------------------
(* Comparisons.                                                            *)

\* The bytes at a and at b are the same before the i-th, counted from 0; and s
\* is what the memory from p begins with.
Agree(mem, a, b, i) == \A j \in Nat : j < i => mem[a + j] = mem[b + j]
Shows(s, mem, p) == s \in Seq(Nat) /\ \A j \in Nat : j < Len(s) => s[j + 1] = mem[p + j]

\* The first difference of two sequences tells their order.
LEMMA OrderIs ==
  ASSUME NEW mem, NEW a, NEW b, NEW s, NEW t, Shows(s, mem, a), Shows(t, mem, b),
         NEW i \in Nat, i <= Len(s), i <= Len(t), Agree(mem, a, b, i)
  PROVE  /\ i < Len(s) /\ i < Len(t) /\ mem[a + i] # mem[b + i] => Order(s, t) = Sign(mem[a + i] - mem[b + i])
         /\ i = Len(s) => Order(s, t) = Sign(Len(s) - Len(t))
         /\ i = Len(t) /\ i < Len(s) => Order(s, t) = 1
<1> DEFINE differ == {k \in 1 .. Len(s) : k > Len(t) \/ s[k] # t[k]}
           first == CHOOSE k \in differ : \A j \in differ : k <= j
<1>1. s \in Seq(Nat) /\ t \in Seq(Nat) /\ Len(s) \in Nat /\ Len(t) \in Nat
  BY DEF Shows
<1>2. /\ \A j \in Nat : j < Len(s) => s[j + 1] = mem[a + j]
      /\ \A j \in Nat : j < Len(t) => t[j + 1] = mem[b + j]
  BY DEF Shows
<1>3. Order(s, t) = IF differ = {} THEN Sign(Len(s) - Len(t))
                    ELSE IF first > Len(t) THEN 1 ELSE Sign(s[first] - t[first])
  BY DEF Order
<1>4. ASSUME NEW k \in 1 .. i PROVE k \notin differ
  <2>1. k - 1 \in Nat /\ k - 1 < i /\ (k - 1) + 1 = k /\ k - 1 < Len(s) /\ k - 1 < Len(t)
    BY <1>1
  <2>2. s[k] = mem[a + (k - 1)] /\ t[k] = mem[b + (k - 1)]
    BY <2>1, <1>2
  <2>3. mem[a + (k - 1)] = mem[b + (k - 1)]
    BY <2>1 DEF Agree
  <2>4. QED BY <2>1, <2>2, <2>3, <1>1
<1>5. ASSUME i < Len(s), i < Len(t) => mem[a + i] # mem[b + i]
      PROVE  differ # {} /\ first = i + 1
  <2>1. i + 1 \in differ
    <3>1. CASE i < Len(t)
      BY <3>1, <1>1, <1>2, <1>5
    <3>2. CASE i = Len(t)
      BY <3>2, <1>1, <1>5
    <3>3. QED BY <3>1, <3>2, <1>1
  <2>2. \A j \in differ : j \in Nat /\ i + 1 <= j
    BY <1>4, <1>1
  <2> HIDE DEF differ
  <2>3. first \in differ /\ \A j \in differ : first <= j
    BY <2>1, <2>2
  <2> HIDE DEF first
  <2>4. first = i + 1
    BY <2>1, <2>2, <2>3
  <2>5. QED BY <2>1, <2>4
<1>6. ASSUME i < Len(s), i < Len(t), mem[a + i] # mem[b + i]
      PROVE  Order(s, t) = Sign(mem[a + i] - mem[b + i])
  <2>1. s[i + 1] = mem[a + i] /\ t[i + 1] = mem[b + i] /\ ~(i + 1 > Len(t))
    BY <1>1, <1>2, <1>6
  <2>2. differ # {} /\ first = i + 1
    BY <1>5, <1>6
  <2> HIDE DEF differ, first
  <2>3. QED BY <2>1, <2>2, <1>3
<1>7. ASSUME i = Len(s) PROVE Order(s, t) = Sign(Len(s) - Len(t))
  <2>1. differ = {}
    BY <1>4, <1>7, <1>1
  <2> HIDE DEF differ, first
  <2>2. QED BY <2>1, <1>3
<1>8. ASSUME i = Len(t), i < Len(s) PROVE Order(s, t) = 1
  <2> HIDE DEF differ, first
  <2>1. ~(i < Len(t))
    BY <1>8, <1>1
  <2>2. differ # {} /\ first = i + 1 /\ first > Len(t)
    BY <2>1, <1>5, <1>8, <1>1
  <2>3. QED BY <2>1, <2>2, <1>3
<1>9. QED BY <1>6, <1>7, <1>8

\* The sign of a number.
LEMMA SignOfSign ==
  ASSUME NEW x \in Int
  PROVE  Sign(Sign(x)) = Sign(x) /\ (x > 0 => Sign(x) = 1) /\ (x < 0 => Sign(x) = -1) /\ Sign(0) = 0
<1>1. CASE x < 0
  BY <1>1 DEF Sign
<1>2. CASE x = 0
  BY <1>2 DEF Sign
<1>3. CASE x > 0
  BY <1>3 DEF Sign
<1>4. x < 0 \/ x = 0 \/ x > 0
  OBVIOUS
<1>5. QED BY <1>1, <1>2, <1>3, <1>4, Zenon

\* The length of a string; its end, and only that, is zero.
LEMMA StringBytes ==
  ASSUME NEW mem, IsMemory(mem), NEW p, IsPointer(p), IsString(mem, p)
  PROVE  /\ Len(String(mem, p)) \in Nat /\ Shows(String(mem, p), mem, p)
         /\ p + Len(String(mem, p)) = EndOf(mem, p) /\ Len(String(mem, p)) < Len(mem)
         /\ mem[p + Len(String(mem, p))] = 0
         /\ \A j \in Nat : j < Len(String(mem, p)) => mem[p + j] \in Nat /\ mem[p + j] > 0
<1> DEFINE e == EndOf(mem, p)
           s == String(mem, p)
           size == Len(mem)
<1>1. /\ p \in Nat /\ p >= 1 /\ e \in Nat /\ p <= e /\ e <= size /\ size \in Nat /\ mem[e] = 0
      /\ \A j \in Nat : p <= j /\ j < e => mem[j] # 0
  BY EndIs DEF IsPointer, IsMemory
<1>2. \A j \in Nat : 1 <= j /\ j <= size => mem[j] \in Nat
  BY DEF IsMemory
<1>3. e - p \in Nat /\ Fits(mem, p, e - p) /\ s = Block(mem, p, e - p)
  BY StringIs
<1> HIDE DEF e, s, size
<1>4. s \in Seq(Nat) /\ Len(s) = e - p /\ \A i \in 1 .. e - p : s[i] = mem[p + i - 1]
  BY <1>3, BlockIs
<1>5. Len(s) \in Nat /\ p + Len(s) = e /\ Len(s) < size /\ mem[p + Len(s)] = 0
  BY <1>1, <1>4
<1>6. ASSUME NEW j \in Nat, j < Len(s)
      PROVE  s[j + 1] = mem[p + j] /\ mem[p + j] \in Nat /\ mem[p + j] > 0
  <2>1. j + 1 \in 1 .. e - p /\ p + (j + 1) - 1 = p + j /\ p + j \in Nat /\ p <= p + j /\ p + j < e
        /\ 1 <= p + j /\ p + j <= size
    BY <1>1, <1>4, <1>6
  <2>2. mem[p + j] \in Nat /\ mem[p + j] # 0
    BY <2>1, <1>1, <1>2
  <2>3. QED BY <2>1, <2>2, <1>4
<1>7. Shows(s, mem, p)
  BY <1>4, <1>6 DEF Shows
<1>8. QED BY <1>5, <1>6, <1>7 DEF e, s, size

\* strcmp is the order of the strings.
LEMMA StrcmpIsExact ==
  ASSUME NEW mem, IsMemory(mem), NEW a, IsPointer(a), IsString(mem, a), NEW b, IsPointer(b), IsString(mem, b)
  PROVE  Sign(strcmp(mem, a, b)) = Order(String(mem, a), String(mem, b))
<1> DEFINE s == String(mem, a)
           t == String(mem, b)
           m == Len(s)
           n == Len(t)
           most == Len(mem)
           S == {i \in Nat : i <= m /\ i <= n /\ Agree(mem, a, b, i)}
           step == alikeStep(mem, a, b)
           left == [i \in S |-> m - i]
<1>1. /\ m \in Nat /\ Shows(s, mem, a) /\ m < most /\ mem[a + m] = 0
      /\ \A j \in Nat : j < m => mem[a + j] \in Nat /\ mem[a + j] > 0
  BY StringBytes
<1>2. /\ n \in Nat /\ Shows(t, mem, b) /\ n < most /\ mem[b + n] = 0
      /\ \A j \in Nat : j < n => mem[b + j] \in Nat /\ mem[b + j] > 0
  BY StringBytes
<1>3. most \in Nat /\ a \in Nat /\ b \in Nat
  BY DEF IsMemory, IsPointer
<1> HIDE DEF most
<1>4. ASSUME NEW i \in S
      PROVE  IF i < m /\ i < n /\ mem[a + i] = mem[b + i] THEN step[i] = i + 1 ELSE step[i] = i
  <2>1. step[i] = IF mem[a + i] # 0 /\ mem[b + i] # 0 /\ mem[a + i] = mem[b + i] THEN i + 1 ELSE i
    BY DEF alikeStep
  <2> DEFINE x == mem[a + i]
             y == mem[b + i]
  <2>2. (i < m => x > 0 /\ x \in Nat) /\ (i < n => y > 0 /\ y \in Nat) /\ (i = m => x = 0) /\ (i = n => y = 0)
    BY <1>1, <1>2
  <2> HIDE DEF x, y, step
  <2>3. step[i] = IF x # 0 /\ y # 0 /\ x = y THEN i + 1 ELSE i
    BY <2>1 DEF x, y
  <2>4. (x # 0 /\ y # 0 /\ x = y) <=> (i < m /\ i < n /\ x = y)
    BY <2>2, <1>1, <1>2
  <2>5. QED BY <2>3, <2>4 DEF x, y
<1> HIDE DEF s, t, m, n, step
<1>5. ASSUME NEW i \in S PROVE step[i] \in S /\ left[i] >= 0 /\ (step[i] = i \/ left[step[i]] < left[i])
  <2>1. CASE i < m /\ i < n /\ mem[a + i] = mem[b + i]
    <3>1. step[i] = i + 1 /\ i + 1 \in Nat /\ i + 1 <= m /\ i + 1 <= n
      BY <1>1, <1>2, <1>4, <2>1
    <3>2. Agree(mem, a, b, i + 1)
      <4>1. ASSUME NEW j \in Nat, j < i + 1 PROVE mem[a + j] = mem[b + j]
        <5>1. j < i \/ j = i
          BY <4>1
        <5>2. QED BY <5>1, <2>1 DEF Agree
      <4>2. QED BY <4>1 DEF Agree
    <3>3. QED BY <3>1, <3>2, <1>1
  <2>2. CASE ~(i < m /\ i < n /\ mem[a + i] = mem[b + i])
    <3>1. step[i] = i
      BY <1>4, <2>2
    <3>2. QED BY <3>1, <1>1
  <2>3. QED BY <2>1, <2>2
<1>6. Ends(S, step, 0, most, S, left)
  <2>1. 0 \in S
    BY <1>1, <1>2 DEF Agree
  <2>2. IsLoop(S, step, 0, most)
    BY <2>1, <1>3, <1>5 DEF IsLoop
  <2>3. left \in [S -> Int] /\ left[0] <= most
    BY <2>1, <1>1, <1>3
  <2> HIDE DEF S, left
  <2>4. QED BY <2>1, <2>2, <2>3, <1>5 DEF Ends
<1> DEFINE i == Loop(step, 0, most)
<1>7. i \in S /\ step[i] = i
  BY <1>6, LoopRule
<1>8. strcmp(mem, a, b) = mem[a + i] - mem[b + i]
  BY DEF strcmp, step, most
<1> HIDE DEF i
<1>9. i \in Nat /\ i <= m /\ i <= n /\ Agree(mem, a, b, i) /\ ~(i < m /\ i < n /\ mem[a + i] = mem[b + i])
  BY <1>4, <1>7
<1>10. /\ i < m /\ i < n /\ mem[a + i] # mem[b + i] => Order(s, t) = Sign(mem[a + i] - mem[b + i])
       /\ i = m => Order(s, t) = Sign(m - n)
       /\ i = n /\ i < m => Order(s, t) = 1
  BY <1>1, <1>2, <1>9, OrderIs DEF m, n
<1>11. ASSUME i < m, i < n PROVE Sign(strcmp(mem, a, b)) = Order(s, t)
  BY <1>8, <1>9, <1>10, <1>11
<1>12. ASSUME i = m PROVE Sign(strcmp(mem, a, b)) = Order(s, t)
  <2> DEFINE y == mem[b + i]
  <2>1. mem[a + i] = 0 /\ Order(s, t) = Sign(m - n) /\ (i < n => y > 0 /\ y \in Nat) /\ (i = n => y = 0)
    BY <1>1, <1>2, <1>9, <1>10, <1>12
  <2>2. strcmp(mem, a, b) = 0 - y
    BY <1>8, <2>1
  <2> HIDE DEF y
  <2>3. CASE i < n
    BY <2>1, <2>2, <2>3, <1>1, <1>2, <1>12 DEF Sign
  <2>4. CASE i = n
    BY <2>1, <2>2, <2>4, <1>1, <1>2, <1>12 DEF Sign
  <2>5. QED BY <2>3, <2>4, <1>9, <1>2
<1>13. ASSUME i = n, i < m PROVE Sign(strcmp(mem, a, b)) = Order(s, t)
  <2> DEFINE x == mem[a + i]
  <2>1. mem[b + i] = 0 /\ Order(s, t) = 1 /\ x > 0 /\ x \in Nat
    BY <1>1, <1>2, <1>9, <1>10, <1>13
  <2>2. strcmp(mem, a, b) = x - 0
    BY <1>8, <2>1
  <2> HIDE DEF x
  <2>3. QED BY <2>1, <2>2 DEF Sign
<1>14. Sign(strcmp(mem, a, b)) = Order(s, t)
  BY <1>11, <1>12, <1>13, <1>9, <1>1, <1>2
<1>15. QED BY <1>14 DEF s, t

\* Where the comparison of n bytes stops.
LEMMA SameIs ==
  ASSUME NEW mem, NEW a, NEW b, NEW n \in Nat, NEW i, i = Loop(sameStep(mem, a, b, n), 0, n)
  PROVE  i \in Nat /\ i <= n /\ Agree(mem, a, b, i)
         /\ (i < n /\ Inside(mem, a, b, i) => mem[a + i] # mem[b + i])
<1> DEFINE S == {k \in Nat : k <= n /\ Agree(mem, a, b, k)}
           step == sameStep(mem, a, b, n)
           left == [k \in S |-> n - k]
<1>1. ASSUME NEW k \in S
      PROVE  IF k < n /\ Inside(mem, a, b, k) /\ mem[a + k] = mem[b + k] THEN step[k] = k + 1 ELSE step[k] = k
  BY DEF sameStep
<1> HIDE DEF step
<1>2. ASSUME NEW k \in S PROVE step[k] \in S /\ left[k] >= 0 /\ (step[k] = k \/ left[step[k]] < left[k])
  <2>1. CASE k < n /\ Inside(mem, a, b, k) /\ mem[a + k] = mem[b + k]
    <3>1. step[k] = k + 1 /\ k + 1 \in Nat /\ k + 1 <= n
      BY <1>1, <2>1
    <3>2. Agree(mem, a, b, k + 1)
      <4>1. ASSUME NEW j \in Nat, j < k + 1 PROVE mem[a + j] = mem[b + j]
        <5>1. j < k \/ j = k
          BY <4>1
        <5>2. QED BY <5>1, <2>1 DEF Agree
      <4>2. QED BY <4>1 DEF Agree
    <3>3. QED BY <3>1, <3>2
  <2>2. CASE ~(k < n /\ Inside(mem, a, b, k) /\ mem[a + k] = mem[b + k])
    <3>1. step[k] = k
      BY <1>1, <2>2
    <3>2. QED BY <3>1
  <2>3. QED BY <2>1, <2>2
<1>3. Ends(S, step, 0, n, S, left)
  <2>1. 0 \in S
    BY DEF Agree
  <2>2. IsLoop(S, step, 0, n)
    BY <2>1, <1>2 DEF IsLoop
  <2>3. left \in [S -> Int] /\ left[0] <= n
    BY <2>1
  <2> HIDE DEF S, left
  <2>4. QED BY <2>1, <2>2, <2>3, <1>2 DEF Ends
<1>4. i \in S /\ step[i] = i
  BY <1>3, LoopRule DEF step
<1>5. ~(i < n /\ Inside(mem, a, b, i) /\ mem[a + i] = mem[b + i])
  BY <1>1, <1>4
<1>6. QED BY <1>4, <1>5

\* A block is what the memory shows.
LEMMA BlockShows ==
  ASSUME NEW mem, IsMemory(mem), NEW p, IsPointer(p), NEW n \in Nat, Fits(mem, p, n)
  PROVE  Shows(Block(mem, p, n), mem, p) /\ Len(Block(mem, p, n)) = n
         /\ \A j \in Nat : j < n => mem[p + j] \in Nat
<1> DEFINE s == Block(mem, p, n)
<1>1. s \in Seq(Nat) /\ Len(s) = n /\ \A i \in 1 .. n : s[i] = mem[p + i - 1]
  BY BlockIs
<1> HIDE DEF s
<1>2. p \in Nat
  BY DEF IsPointer
<1>3. ASSUME NEW j \in Nat, j < n PROVE s[j + 1] = mem[p + j] /\ mem[p + j] \in Nat
  <2>1. j + 1 \in 1 .. n /\ p + (j + 1) - 1 = p + j
    BY <1>2, <1>3
  <2>2. QED BY <2>1, <1>1
<1>4. Shows(s, mem, p)
  BY <1>1, <1>3 DEF Shows
<1>5. QED BY <1>1, <1>3, <1>4 DEF s

\* A comparison of blocks stays in memory, and does not leave it.
LEMMA BlockInside ==
  ASSUME NEW mem, IsMemory(mem), NEW a, IsPointer(a), NEW b, IsPointer(b), NEW n \in Nat,
         Fits(mem, a, n), Fits(mem, b, n), NEW i \in Nat, i < n
  PROVE  Inside(mem, a, b, i)
<1>1. a \in Nat /\ b \in Nat /\ Len(mem) \in Nat
  BY DEF IsPointer, IsMemory
<1>2. a + n - 1 <= Len(mem) /\ b + n - 1 <= Len(mem)
  BY DEF Fits
<1>3. a + i <= Len(mem) /\ b + i <= Len(mem)
  BY <1>1, <1>2
<1>4. QED BY <1>3 DEF Inside

\* memcmp is the order of the blocks.
LEMMA MemcmpIsExact ==
  ASSUME NEW mem, IsMemory(mem), NEW a, IsPointer(a), NEW b, IsPointer(b), NEW n \in Nat,
         Fits(mem, a, n), Fits(mem, b, n)
  PROVE  Sign(memcmp(mem, a, b, n)) = Order(Block(mem, a, n), Block(mem, b, n))
<1> DEFINE s == Block(mem, a, n)
           t == Block(mem, b, n)
           i == Loop(sameStep(mem, a, b, n), 0, n)
<1>1. Shows(s, mem, a) /\ Len(s) = n
  BY BlockShows
<1>2. Shows(t, mem, b) /\ Len(t) = n
  BY BlockShows
<1>3. memcmp(mem, a, b, n) = IF i = n THEN 0 ELSE mem[a + i] - mem[b + i]
  BY DEF memcmp
<1> HIDE DEF s, t, i
<1>4. i \in Nat /\ i <= n /\ Agree(mem, a, b, i) /\ (i < n => mem[a + i] # mem[b + i])
  <2>1. /\ i \in Nat /\ i <= n /\ Agree(mem, a, b, i)
        /\ (i < n /\ Inside(mem, a, b, i) => mem[a + i] # mem[b + i])
    BY SameIs DEF i
  <2>2. i < n => Inside(mem, a, b, i)
    BY <2>1, BlockInside
  <2>3. QED BY <2>1, <2>2
<1>5. /\ i < n /\ mem[a + i] # mem[b + i] => Order(s, t) = Sign(mem[a + i] - mem[b + i])
      /\ i = n => Order(s, t) = Sign(n - n)
  BY <1>1, <1>2, <1>4, OrderIs
<1>6. Sign(memcmp(mem, a, b, n)) = Order(s, t)
  <2>1. CASE i = n
    BY <2>1, <1>3, <1>5
  <2>2. CASE i # n
    BY <2>2, <1>3, <1>4, <1>5
  <2>3. QED BY <2>1, <2>2
<1>7. QED BY <1>6 DEF s, t

\* What strncmp compares: the bytes before the end of a string, or n of them.
StartsAt(u, k, mem, p, n) ==
  /\ k \in Nat /\ k <= n /\ Shows(u, mem, p) /\ Len(u) = k
  /\ \A j \in Nat : j < k => mem[p + j] \in Nat /\ mem[p + j] > 0 /\ p + j <= Len(mem)
  /\ k < n => mem[p + k] = 0 /\ p + k <= Len(mem)
LEMMA ComparedIs ==
  ASSUME NEW mem, IsMemory(mem), NEW p, IsPointer(p), NEW n \in Nat, IsString(mem, p) \/ Fits(mem, p, n)
  PROVE  StartsAt(StartOf(mem, p, n), Len(StartOf(mem, p, n)), mem, p, n)
<1> DEFINE s == String(mem, p)
           m == Len(s)
<1>1. p \in Nat /\ p >= 1 /\ Len(mem) \in Nat /\ mem \in Seq(Nat)
  BY DEF IsMemory, IsPointer
<1>2. IsString(mem, p) =>
        /\ m \in Nat /\ Shows(s, mem, p) /\ p + m = EndOf(mem, p) /\ mem[p + m] = 0
        /\ \A j \in Nat : j < m => mem[p + j] \in Nat /\ mem[p + j] > 0
  BY StringBytes
<1>3. IsString(mem, p) => EndOf(mem, p) \in Nat /\ EndOf(mem, p) <= Len(mem)
  BY EndIs
<1> HIDE DEF m
<1>4. CASE IsString(mem, p) /\ m < n
  <2>1. StartOf(mem, p, n) = s /\ Len(s) = m
    BY <1>4 DEF StartOf, m
  <2> HIDE DEF s
  <2>2. m \in Nat /\ m <= n /\ Shows(s, mem, p) /\ mem[p + m] = 0 /\ p + m <= Len(mem)
    BY <1>1, <1>2, <1>3, <1>4
  <2>3. ASSUME NEW j \in Nat, j < m PROVE mem[p + j] \in Nat /\ mem[p + j] > 0 /\ p + j <= Len(mem)
    <3>1. mem[p + j] \in Nat /\ mem[p + j] > 0
      BY <2>3, <1>2, <1>4
    <3>2. p + j <= Len(mem)
      BY <2>2, <2>3, <1>1
    <3>3. QED BY <3>1, <3>2
  <2>4. QED BY <2>1, <2>2, <2>3 DEF StartsAt
<1>5. CASE ~(IsString(mem, p) /\ m < n)
  <2>1. StartOf(mem, p, n) = Block(mem, p, n)
    BY <1>5 DEF StartOf, m
  <2> HIDE DEF s
  <2>2. Fits(mem, p, n)
    <3>1. CASE IsString(mem, p)
      <4>1. m \in Nat /\ n <= m /\ p + m <= Len(mem)
        BY <3>1, <1>1, <1>2, <1>3, <1>5
      <4>2. p + n - 1 <= Len(mem)
        BY <4>1, <1>1
      <4>3. QED BY <4>2 DEF Fits
    <3>2. QED BY <3>1
  <2>3. Shows(Block(mem, p, n), mem, p) /\ Len(Block(mem, p, n)) = n /\ \A j \in Nat : j < n => mem[p + j] \in Nat
    BY <2>2, BlockShows
  <2>4. p + n - 1 <= Len(mem)
    BY <2>2 DEF Fits
  <2>5. ASSUME NEW j \in Nat, j < n PROVE mem[p + j] \in Nat /\ mem[p + j] > 0 /\ p + j <= Len(mem)
    <3>1. mem[p + j] \in Nat /\ p + j <= Len(mem) /\ p + j \in p .. Len(mem)
      BY <2>3, <2>4, <2>5, <1>1
    <3>2. CASE IsString(mem, p)
      <4>1. j < m
        BY <3>2, <2>5, <1>2, <1>5
      <4>2. QED BY <3>1, <3>2, <4>1, <1>2
    <3>3. CASE ~IsString(mem, p)
      <4>1. mem[p + j] # 0
        BY <3>1, <3>3 DEF IsString
      <4>2. QED BY <3>1, <4>1
    <3>4. QED BY <3>2, <3>3
  <2>6. QED BY <2>1, <2>3, <2>5 DEF StartsAt
<1>6. QED BY <1>4, <1>5

\* A comparison that goes beyond the end of one of them has met equal strings.
LEMMA AgreeBeyond ==
  ASSUME NEW mem, NEW a, NEW b, NEW n \in Nat, NEW u, NEW v, NEW k, NEW l,
         StartsAt(u, k, mem, a, n), StartsAt(v, l, mem, b, n),
         NEW i \in Nat, i <= n, Agree(mem, a, b, i), i > k \/ i > l
  PROVE  u = v /\ k = l
<1>1. /\ k \in Nat /\ k <= n /\ Shows(u, mem, a) /\ Len(u) = k /\ (k < n => mem[a + k] = 0)
      /\ \A j \in Nat : j < k => mem[a + j] \in Nat /\ mem[a + j] > 0
  BY DEF StartsAt
<1>2. /\ l \in Nat /\ l <= n /\ Shows(v, mem, b) /\ Len(v) = l /\ (l < n => mem[b + l] = 0)
      /\ \A j \in Nat : j < l => mem[b + j] \in Nat /\ mem[b + j] > 0
  BY DEF StartsAt
<1>3. i > k \/ i > l
  OBVIOUS
<1>4. k = l
  <2>1. ASSUME k < l PROVE FALSE
    <3>1. mem[b + k] > 0 /\ k < i /\ k < n
      BY <2>1, <1>1, <1>2, <1>3
    <3>2. mem[a + k] = mem[b + k]
      BY <3>1, <1>1 DEF Agree
    <3>3. QED BY <3>1, <3>2, <1>1
  <2>2. ASSUME l < k PROVE FALSE
    <3>1. mem[a + l] > 0 /\ l < i /\ l < n
      BY <2>2, <1>1, <1>2, <1>3
    <3>2. mem[a + l] = mem[b + l]
      BY <3>1, <1>2 DEF Agree
    <3>3. QED BY <3>1, <3>2, <1>2
  <2>3. QED BY <2>1, <2>2, <1>1, <1>2
<1>5. u \in Seq(Nat) /\ v \in Seq(Nat) /\ Len(u) = k /\ Len(v) = k
  BY <1>1, <1>2, <1>4 DEF Shows
<1>6. ASSUME NEW j \in 1 .. k PROVE u[j] = v[j]
  <2>1. j - 1 \in Nat /\ j - 1 < k /\ (j - 1) + 1 = j /\ j - 1 < i
    BY <1>1, <1>3, <1>4
  <2>2. u[j] = mem[a + (j - 1)] /\ v[j] = mem[b + (j - 1)]
    BY <2>1, <1>1, <1>2, <1>5 DEF Shows
  <2>3. QED BY <2>1, <2>2 DEF Agree
<1>7. u = v
  BY <1>5, <1>6
<1>8. QED BY <1>4, <1>7

\* strncmp stays in memory and is the order of the first n bytes of the strings,
\* but where it runs on.
LEMMA StrncmpIsExact ==
  ASSUME NEW mem, NEW a \in Nat, NEW b \in Nat, NEW n \in Nat, NEW u, NEW v, NEW p, NEW q,
         StartsAt(u, p, mem, a, n), StartsAt(v, q, mem, b, n), ~(u = v /\ q + 1 < n)
  PROVE  ~LeavesMemory(mem, a, b, n) /\ Sign(strncmp(mem, a, b, n)) = Order(u, v)
<1> DEFINE i == Loop(sameStep(mem, a, b, n), 0, n)
<1>1. /\ p \in Nat /\ p <= n /\ Shows(u, mem, a) /\ Len(u) = p
      /\ \A j \in Nat : j < p => mem[a + j] \in Nat /\ mem[a + j] > 0 /\ a + j <= Len(mem)
      /\ p < n => mem[a + p] = 0 /\ a + p <= Len(mem)
  BY DEF StartsAt
<1>2. /\ q \in Nat /\ q <= n /\ Shows(v, mem, b) /\ Len(v) = q
      /\ \A j \in Nat : j < q => mem[b + j] \in Nat /\ mem[b + j] > 0 /\ b + j <= Len(mem)
      /\ q < n => mem[b + q] = 0 /\ b + q <= Len(mem)
  BY DEF StartsAt
<1>3. strncmp(mem, a, b, n) = IF i = n THEN 0 ELSE Sign(mem[a + i] - mem[b + i])
  BY DEF strncmp
<1>4. LeavesMemory(mem, a, b, n) <=> i < n /\ ~Inside(mem, a, b, i)
  BY DEF LeavesMemory
<1>4a. Shows(u, mem, a) /\ Len(u) = p
  BY DEF StartsAt
<1>4b. Shows(v, mem, b) /\ Len(v) = q
  BY DEF StartsAt
<1> HIDE DEF i
<1>5. /\ i \in Nat /\ i <= n /\ Agree(mem, a, b, i)
      /\ (i < n /\ Inside(mem, a, b, i) => mem[a + i] # mem[b + i])
  BY SameIs DEF i
<1>6. i > p \/ i > q => u = v /\ p = q
  BY <1>5, AgreeBeyond
<1>7. ASSUME i < n
      PROVE  /\ i <= p /\ i <= q /\ (i = p => p < n) /\ (i = q => q < n)
             /\ Inside(mem, a, b, i) /\ mem[a + i] # mem[b + i]
  <2>1. i <= p /\ i <= q
    <3>1. ASSUME i > p \/ i > q PROVE FALSE
      BY <3>1, <1>1, <1>2, <1>5, <1>6, <1>7
    <3>2. QED BY <3>1, <1>1, <1>2, <1>5
  <2>2. (i = p => p < n) /\ (i = q => q < n)
    BY <2>1, <1>1, <1>2, <1>5, <1>7
  <2>3. a + i <= Len(mem) /\ b + i <= Len(mem)
    <3>1. CASE i = p /\ i = q
      BY <3>1, <2>2, <1>1, <1>2
    <3>2. CASE i < p /\ i = q
      BY <3>2, <2>2, <1>1, <1>2, <1>5
    <3>3. CASE i = p /\ i < q
      BY <3>3, <2>2, <1>1, <1>2, <1>5
    <3>4. CASE i < p /\ i < q
      BY <3>4, <2>2, <1>1, <1>2, <1>5
    <3>5. QED BY <3>1, <3>2, <3>3, <3>4, <2>1, <1>1, <1>2, <1>5
  <2>4. Inside(mem, a, b, i)
    BY <2>3 DEF Inside
  <2>5. QED BY <2>1, <2>2, <2>4, <1>5, <1>7
<1>8. ~LeavesMemory(mem, a, b, n)
  BY <1>4, <1>7
<1>9. ASSUME i < n PROVE Sign(strncmp(mem, a, b, n)) = Order(u, v)
  <2>1. i <= p /\ i <= q /\ mem[a + i] # mem[b + i] /\ (i = p => p < n) /\ (i = q => q < n)
    BY <1>7, <1>9
  <2>2. /\ i < p /\ i < q /\ mem[a + i] # mem[b + i] => Order(u, v) = Sign(mem[a + i] - mem[b + i])
        /\ i = p => Order(u, v) = Sign(p - q)
        /\ i = q /\ i < p => Order(u, v) = 1
    BY <2>1, <1>4a, <1>4b, <1>5, OrderIs
  <2>3. strncmp(mem, a, b, n) = Sign(mem[a + i] - mem[b + i])
    BY <1>3, <1>5, <1>9
  <2> DEFINE x == mem[a + i]
             y == mem[b + i]
  <2>4. /\ (i < p => x > 0 /\ x \in Nat) /\ (i < q => y > 0 /\ y \in Nat)
        /\ (i = p /\ p < n => x = 0) /\ (i = q /\ q < n => y = 0)
    BY <1>1, <1>2, <1>5
  <2>5. /\ i < p /\ i < q => Order(u, v) = Sign(x - y)
        /\ strncmp(mem, a, b, n) = Sign(x - y) /\ x # y
    BY <2>1, <2>2, <2>3
  <2> HIDE DEF x, y
  <2>6. x \in Nat /\ y \in Nat /\ x - y \in Int
    BY <2>1, <2>4, <1>1, <1>2, <1>5
  <2>7. Sign(Sign(x - y)) = Sign(x - y)
    BY <2>6, SignOfSign
  <2>8. CASE i < p /\ i < q
    BY <2>5, <2>7, <2>8
  <2>9. CASE i = p /\ i < q
    <3>1. x = 0 /\ y > 0 /\ Order(u, v) = Sign(p - q) /\ p - q \in Int /\ p - q < 0
      BY <2>1, <2>2, <2>4, <2>9, <1>1, <1>2, <1>5
    <3>2. x - y < 0
      BY <3>1, <2>6
    <3>3. Sign(x - y) = -1 /\ Sign(p - q) = -1
      BY <3>1, <3>2, <2>6, SignOfSign
    <3>4. QED BY <3>1, <3>3, <2>5, <2>7
  <2>10. CASE i = q /\ i < p
    <3>1. y = 0 /\ x > 0 /\ Order(u, v) = 1
      BY <2>1, <2>2, <2>4, <2>10, <1>1, <1>2, <1>5
    <3>2. x - y > 0
      BY <3>1, <2>6
    <3>3. Sign(x - y) = 1
      BY <3>2, <2>6, SignOfSign
    <3>4. QED BY <3>1, <3>3, <2>5, <2>7
  <2>11. ~(i = p /\ i = q)
    BY <2>1, <2>4, <2>5, <1>1, <1>2, <1>5
  <2>12. QED BY <2>1, <2>8, <2>9, <2>10, <2>11, <1>1, <1>2, <1>5
<1>10. ASSUME i = n PROVE Sign(strncmp(mem, a, b, n)) = Order(u, v)
  <2>1. p = q /\ p \in Nat /\ p <= i
    BY <1>1, <1>2, <1>5, <1>6, <1>10
  <2>2. Agree(mem, a, b, p)
    BY <2>1, <1>5 DEF Agree
  <2>3. Order(u, v) = Sign(p - q)
    BY <2>1, <2>2, <1>4a, <1>4b, OrderIs
  <2>4. p - q = 0
    BY <2>1
  <2>5. Sign(0) = 0
    BY SignOfSign
  <2>6. QED BY <2>3, <2>4, <2>5, <1>3, <1>10
<1>11. QED BY <1>5, <1>8, <1>9, <1>10

\* Within two blocks strncmp says what memcmp says, also where it runs on.
LEMMA StrncmpOfBlocks ==
  ASSUME NEW mem, IsMemory(mem), NEW a, IsPointer(a), NEW b, IsPointer(b), NEW n \in Nat,
         Fits(mem, a, n), Fits(mem, b, n)
  PROVE  /\ ~LeavesMemory(mem, a, b, n)
         /\ Sign(strncmp(mem, a, b, n)) = Order(Block(mem, a, n), Block(mem, b, n))
<1> DEFINE i == Loop(sameStep(mem, a, b, n), 0, n)
           e == mem[a + i] - mem[b + i]
<1>1. /\ memcmp(mem, a, b, n) = IF i = n THEN 0 ELSE e
      /\ strncmp(mem, a, b, n) = IF i = n THEN 0 ELSE Sign(e)
      /\ LeavesMemory(mem, a, b, n) <=> i < n /\ ~Inside(mem, a, b, i)
  BY DEF memcmp, strncmp, LeavesMemory
<1> HIDE DEF i, e
<1>2. i \in Nat /\ i <= n
  BY SameIs DEF i
<1>3. i < n => Inside(mem, a, b, i)
  BY <1>2, BlockInside
<1>4. ~LeavesMemory(mem, a, b, n)
  BY <1>1, <1>3
<1>5. ASSUME i < n PROVE Sign(Sign(e)) = Sign(e)
  <2>1. a + i \in 1 .. Len(mem) /\ b + i \in 1 .. Len(mem) /\ mem \in Seq(Nat)
    BY <1>2, <1>3, <1>5 DEF Inside, IsMemory, IsPointer
  <2>2. mem[a + i] \in Nat /\ mem[b + i] \in Nat
    BY <2>1
  <2>3. e \in Int
    BY <2>2 DEF e
  <2>4. QED BY <2>3, SignOfSign
<1>6. Sign(strncmp(mem, a, b, n)) = Sign(memcmp(mem, a, b, n))
  BY <1>1, <1>2, <1>5
<1>7. Sign(memcmp(mem, a, b, n)) = Order(Block(mem, a, n), Block(mem, b, n))
  BY MemcmpIsExact
<1>8. QED BY <1>4, <1>6, <1>7

----------------------------------------------------------------------------
(* atoi.                                                                   *)

\* The spaces before a number are skipped, and nothing else.
LEMMA SpacesAreSkipped ==
  ASSUME NEW mem, IsMemory(mem), NEW p, IsPointer(p), IsString(mem, p),
         NEW q, q = Loop(spaceStep(mem), p, Len(mem))
  PROVE  /\ q \in Nat /\ p <= q /\ q <= EndOf(mem, p) /\ mem[q] # Space
         /\ \A j \in Nat : p <= j /\ j < q => mem[j] = Space
<1> DEFINE e == EndOf(mem, p)
           most == Len(mem)
           Spaces(r) == \A j \in Nat : p <= j /\ j < r => mem[j] = Space
           S == {r \in Nat : p <= r /\ r <= e /\ Spaces(r)}
           step == spaceStep(mem)
           left == [r \in S |-> e - r]
<1>1. p \in Nat /\ p >= 1 /\ e \in Nat /\ p <= e /\ e <= most /\ most \in Nat /\ mem[e] = 0
  BY EndIs DEF IsPointer, IsMemory
<1> HIDE DEF e, most
<1>2. ASSUME NEW r \in S PROVE IF mem[r] = Space THEN r < e /\ step[r] = r + 1 ELSE step[r] = r
  <2>1. step[r] = IF mem[r] = Space THEN r + 1 ELSE r
    BY DEF spaceStep
  <2>2. mem[r] = Space => r # e
    BY <1>1 DEF Space
  <2> HIDE DEF step
  <2>3. QED BY <2>1, <2>2, <1>1
<1> HIDE DEF step
<1>3. ASSUME NEW r \in S PROVE step[r] \in S /\ left[r] >= 0 /\ (step[r] = r \/ left[step[r]] < left[r])
  <2>1. CASE mem[r] = Space
    <3>1. step[r] = r + 1 /\ r + 1 \in Nat /\ p <= r + 1 /\ r + 1 <= e
      BY <1>1, <1>2, <2>1
    <3>2. Spaces(r + 1)
      <4>1. ASSUME NEW j \in Nat, p <= j, j < r + 1 PROVE mem[j] = Space
        <5>1. j < r \/ j = r
          BY <4>1
        <5>2. QED BY <5>1, <4>1, <2>1
      <4>2. QED BY <4>1
    <3>3. QED BY <3>1, <3>2, <1>1
  <2>2. CASE mem[r] # Space
    <3>1. step[r] = r
      BY <1>2, <2>2
    <3>2. QED BY <3>1, <1>1
  <2>3. QED BY <2>1, <2>2
<1>4. Ends(S, step, p, most, S, left)
  <2>1. p \in S
    BY <1>1
  <2>2. IsLoop(S, step, p, most)
    BY <2>1, <1>1, <1>3 DEF IsLoop
  <2>3. left \in [S -> Int] /\ left[p] <= most
    BY <2>1, <1>1
  <2> HIDE DEF S, left
  <2>4. QED BY <2>1, <2>2, <2>3, <1>3 DEF Ends
<1>5. q \in S /\ step[q] = q
  BY <1>4, LoopRule DEF step, most
<1>6. mem[q] # Space
  BY <1>2, <1>5
<1>7. QED BY <1>5, <1>6 DEF e

\* The digits from q on, up to a byte before the end of the string.
LEMMA DigitsEnd ==
  ASSUME NEW mem, IsMemory(mem), NEW p, IsPointer(p), IsString(mem, p),
         NEW q \in Nat, p <= q, q <= EndOf(mem, p)
  PROVE  \E r \in Nat : /\ q <= r /\ r <= EndOf(mem, p) /\ ~IsDigit(mem[r])
                        /\ \A j \in Nat : q <= j /\ j < r => IsDigit(mem[j])
<1> DEFINE e == EndOf(mem, p)
           S == {r \in Nat : q <= r /\ ~IsDigit(mem[r])}
<1>1. e \in Nat /\ mem[e] = 0
  BY EndIs
<1> HIDE DEF e
<1>2. ~IsDigit(0)
  BY DEF IsDigit, Zero
<1>3. e \in S
  BY <1>1, <1>2 DEF e
<1>4. PICK r \in S : \A z \in S : r <= z
  <2>1. S \subseteq Nat /\ S # {}
    BY <1>3
  <2>2. QED BY <2>1, Least
<1>5. ASSUME NEW j \in Nat, q <= j, j < r PROVE IsDigit(mem[j])
  <2>1. ASSUME ~IsDigit(mem[j]) PROVE FALSE
    <3>1. j \in S
      BY <2>1, <1>5
    <3>2. r <= j
      BY <3>1, <1>4
    <3>3. QED BY <3>2, <1>5, <1>4
  <2>2. QED BY <2>1
<1>6. r <= e
  BY <1>3, <1>4
<1>7. QED BY <1>4, <1>5, <1>6 DEF e

\* The state of atoi, and its step as one.
Scanned(p, x) == [p |-> p, x |-> x]

\* A step of the loop over digits.
LEMMA DigitStepIs ==
  ASSUME NEW mem, NEW p \in Nat, NEW x \in Nat
  PROVE  /\ Scanned(p, x).p = p /\ Scanned(p, x).x = x
         /\ IsDigit(mem[p]) => /\ digitStep(mem)[Scanned(p, x)] = Scanned(p + 1, x * 10 + (mem[p] - Zero))
                               /\ x * 10 + (mem[p] - Zero) \in Nat
         /\ ~IsDigit(mem[p]) => digitStep(mem)[Scanned(p, x)] = Scanned(p, x)
<1> DEFINE s == Scanned(p, x)
<1>1. s \in [p : Nat, x : Nat] /\ s.p = p /\ s.x = x
  BY DEF Scanned
<1> HIDE DEF s
<1>2. digitStep(mem)[s] = IF IsDigit(mem[p]) THEN Scanned(p + 1, x * 10 + (mem[p] - Zero)) ELSE s
  BY <1>1 DEF digitStep, Scanned
<1>3. IsDigit(mem[p]) => x * 10 + (mem[p] - Zero) \in Nat
  BY DEF IsDigit, Zero
<1>4. QED BY <1>1, <1>2, <1>3 DEF s

\* The value of the first k digits from q on.
IsValue(val, mem, q, n) ==
  /\ val \in [0 .. n -> Nat] /\ val[0] = 0
  /\ \A k \in Nat : k < n => val[k + 1] = val[k] * 10 + (mem[q + k] - Zero)

\* Digits have a value.
LEMMA ValueExists ==
  ASSUME NEW mem, NEW q \in Nat, NEW most \in Nat, \A k \in Nat : k < most => IsDigit(mem[q + k])
  PROVE  \E val : IsValue(val, mem, q, most)
<1> DEFINE A == {n \in Nat : n <= most => \E val : IsValue(val, mem, q, n)}
<1>1. 0 \in A
  <2> DEFINE val == [k \in 0 .. 0 |-> 0]
  <2>1. val \in [0 .. 0 -> Nat] /\ val[0] = 0
    OBVIOUS
  <2> HIDE DEF val
  <2>2. IsValue(val, mem, q, 0)
    BY <2>1 DEF IsValue
  <2>3. QED BY <2>2
<1>2. ASSUME NEW n \in Nat, n \in A PROVE n + 1 \in A
  <2>1. SUFFICES ASSUME n + 1 <= most PROVE \E val : IsValue(val, mem, q, n + 1)
    OBVIOUS
  <2>2. n <= most /\ n < most
    BY <2>1
  <2>3. PICK val : IsValue(val, mem, q, n)
    BY <2>2, <1>2
  <2> DEFINE c == mem[q + n]
             x == val[n]
             next == x * 10 + (c - Zero)
             h == [k \in 0 .. n + 1 |-> IF k = n + 1 THEN next ELSE val[k]]
  <2>4. next \in Nat
    <3>1. IsDigit(c)
      BY <2>2
    <3>2. x \in Nat
      BY <2>3 DEF IsValue
    <3> HIDE DEF c, x
    <3>3. QED BY <3>1, <3>2 DEF IsDigit, Zero
  <2> HIDE DEF next
  <2>5. h \in [0 .. n + 1 -> Nat] /\ h[0] = 0
    BY <2>3, <2>4 DEF IsValue
  <2>6. ASSUME NEW k \in Nat, k < n + 1 PROVE h[k + 1] = h[k] * 10 + (mem[q + k] - Zero)
    <3>1. h[k] = val[k]
      BY <2>6
    <3>2. CASE k = n
      BY <3>1, <3>2 DEF next
    <3>3. CASE k < n
      <4>1. h[k + 1] = val[k + 1]
        BY <3>3
      <4>2. val[k + 1] = val[k] * 10 + (mem[q + k] - Zero)
        BY <3>3, <2>3 DEF IsValue
      <4>3. QED BY <3>1, <4>1, <4>2
    <3>4. QED BY <3>2, <3>3, <2>6
  <2> HIDE DEF h
  <2>7. IsValue(h, mem, q, n + 1)
    BY <2>5, <2>6 DEF IsValue
  <2>8. QED BY <2>7
<1> HIDE DEF A
<1>3. most \in A
  BY <1>1, <1>2, Induction
<1>4. QED BY <1>3 DEF A

\* atoi is the value of the digits behind the spaces.
LEMMA AtoiIs ==
  ASSUME NEW mem, IsMemory(mem), NEW p, IsPointer(p), IsString(mem, p),
         NEW q, q = Loop(spaceStep(mem), p, Len(mem)), NEW r \in Nat,
         q <= r, r <= EndOf(mem, p), ~IsDigit(mem[r]), \A j \in Nat : q <= j /\ j < r => IsDigit(mem[j]),
         NEW val, IsValue(val, mem, q, r - q)
  PROVE  atoi(mem, p) = val[r - q]
<1> DEFINE n == r - q
           step == digitStep(mem)
           from == Scanned(q, 0)
           most == Len(mem)
           at == [k \in 0 .. n |-> Scanned(q + k, val[k])]
<1>1. q \in Nat /\ p <= q
  BY SpacesAreSkipped
<1>2. p \in Nat /\ p >= 1 /\ most \in Nat /\ r <= most
  <2>1. EndOf(mem, p) \in Nat /\ EndOf(mem, p) <= most /\ p \in Nat /\ p >= 1 /\ most \in Nat
    BY EndIs DEF IsPointer, IsMemory
  <2>2. QED BY <2>1
<1> HIDE DEF most
<1>3. n \in Nat /\ n <= most /\ q + n = r
  BY <1>1, <1>2
<1> HIDE DEF n
<1>4. /\ val \in [0 .. n -> Nat] /\ val[0] = 0
      /\ \A k \in Nat : k < n => val[k + 1] = val[k] * 10 + (mem[q + k] - Zero)
  BY DEF IsValue, n
<1>5. at[0] = from
  BY <1>1, <1>3, <1>4
<1>6. ASSUME NEW k \in Nat, k < n PROVE at[k + 1] = step[at[k]]
  <2> DEFINE w == q + k
             x == val[k]
  <2>1. w \in Nat /\ q <= w /\ w < r /\ k \in 0 .. n /\ k + 1 \in 0 .. n /\ q + (k + 1) = w + 1
    <3>1. k + 1 <= n /\ q + k < q + n
      BY <1>1, <1>3, <1>6
    <3>2. q + k < r
      BY <3>1, <1>3
    <3>3. q + k \in Nat /\ q <= q + k /\ q + (k + 1) = (q + k) + 1
      BY <1>1, <1>6
    <3>4. k \in 0 .. n /\ k + 1 \in 0 .. n
      BY <3>1, <1>3, <1>6
    <3>5. QED BY <3>2, <3>3, <3>4
  <2>2. x \in Nat
    BY <2>1, <1>4
  <2>3. at[k] = Scanned(w, x) /\ at[k + 1] = Scanned(w + 1, x * 10 + (mem[w] - Zero))
    BY <2>1, <1>4, <1>6
  <2>4. IsDigit(mem[w])
    BY <2>1
  <2>5. w \in Nat
    BY <2>1
  <2> HIDE DEF w, x, at
  <2>6. digitStep(mem)[Scanned(w, x)] = Scanned(w + 1, x * 10 + (mem[w] - Zero))
    BY <2>2, <2>4, <2>5, DigitStepIs
  <2>7. QED BY <2>3, <2>6
<1>7. at[n] = Scanned(r, val[n]) /\ val[n] \in Nat
  BY <1>3, <1>4
<1> HIDE DEF at
<1>8. step[at[n]] = at[n] /\ at[n].x = val[n]
  BY <1>7, DigitStepIs
<1> HIDE DEF step
<1>9. IsTrace(at, step, from, n)
  BY <1>5, <1>6 DEF IsTrace
<1> HIDE DEF from
<1>10. Loop(step, from, most) = at[n]
  BY <1>2, <1>3, <1>8, <1>9, LoopTrace
<1>11. atoi(mem, p) = Loop(step, from, most).x
  BY DEF atoi, step, from, most, Scanned
<1>12. QED BY <1>8, <1>10, <1>11 DEF n

\* The parts of Number.
FirstOf(s) == IF \A i \in DOMAIN s : s[i] = Space THEN Len(s) + 1
              ELSE CHOOSE i \in DOMAIN s : s[i] # Space /\ \A j \in 1 .. i - 1 : s[j] = Space
IsLast(s, from, k) == (\A i \in from .. k : IsDigit(s[i])) /\ (k < Len(s) => ~IsDigit(s[k + 1]))
LastOf(s, from) == CHOOSE k \in from - 1 .. Len(s) : IsLast(s, from, k)
IsValueOf(value, s, from, upto) ==
  value = [k \in from - 1 .. upto |-> IF k = from - 1 THEN 0 ELSE value[k - 1] * 10 + (s[k] - Zero)]
ValueOf(s, from, upto) == CHOOSE value : IsValueOf(value, s, from, upto)

\* Number by its three parts: the first digit, the last, and the value.
LEMMA NumberParts ==
  ASSUME NEW s
  PROVE  Number(s) = ValueOf(s, FirstOf(s), LastOf(s, FirstOf(s)))[LastOf(s, FirstOf(s))]
BY DEF Number, ValueOf, IsValueOf, LastOf, IsLast, FirstOf

\* The first byte that is no space.
LEMMA FirstIs ==
  ASSUME NEW s \in Seq(Nat), NEW f \in Nat, f <= Len(s), \A j \in 1 .. f : s[j] = Space,
         f < Len(s) => s[f + 1] # Space
  PROVE  FirstOf(s) = f + 1
<1> DEFINE Is(i) == s[i] # Space /\ \A j \in 1 .. i - 1 : s[j] = Space
           m == Len(s)
<1>1. m \in Nat /\ DOMAIN s = 1 .. m /\ f <= m
  OBVIOUS
<1> HIDE DEF m
<1>2. CASE f = m
  <2>1. \A i \in DOMAIN s : s[i] = Space
    BY <1>1, <1>2
  <2>2. QED BY <2>1, <1>2 DEF FirstOf, m
<1>3. CASE f < m
  <2>1. f + 1 \in 1 .. m /\ (f + 1) - 1 = f
    BY <1>1, <1>3
  <2>2. Is(f + 1)
    BY <2>1, <1>3 DEF m
  <2>3. ASSUME NEW i \in 1 .. m, Is(i) PROVE i = f + 1
    <3>1. ~(i <= f)
      BY <2>3
    <3>2. ~(i > f + 1)
      <4>1. ASSUME i > f + 1 PROVE FALSE
        <5>1. f + 1 \in 1 .. i - 1
          BY <4>1
        <5>2. QED BY <5>1, <2>2, <2>3
      <4>2. QED BY <4>1
    <3>3. QED BY <3>1, <3>2
  <2>4. ~(\A i \in DOMAIN s : s[i] = Space)
    BY <2>1, <2>2, <1>1
  <2>5. FirstOf(s) = CHOOSE i \in 1 .. m : Is(i)
    BY <2>4, <1>1 DEF FirstOf
  <2> HIDE DEF Is
  <2>6. QED BY <2>1, <2>2, <2>3, <2>5
<1>4. f = m \/ f < m
  BY <1>1
<1>5. QED BY <1>2, <1>3, <1>4

\* The last digit.
LEMMA LastIs ==
  ASSUME NEW s, NEW m \in Nat, Len(s) = m, NEW f \in Nat, NEW u \in Nat, f <= u, u <= m,
         \A k \in f + 1 .. u : IsDigit(s[k]), u < m => ~IsDigit(s[u + 1])
  PROVE  LastOf(s, f + 1) = u
<1> DEFINE from == f + 1
<1>1. from - 1 = f /\ from \in Nat
  OBVIOUS
<1>2. u \in from - 1 .. m /\ IsLast(s, from, u)
  BY DEF IsLast
<1>3. ASSUME NEW k \in from - 1 .. m, IsLast(s, from, k) PROVE k = u
  <2>1. k \in Nat /\ f <= k /\ k <= m
    BY <1>1
  <2>2. ~(k < u)
    <3>1. ASSUME k < u PROVE FALSE
      <4>1. k + 1 \in f + 1 .. u /\ k < m
        BY <2>1, <3>1
      <4>2. QED BY <4>1, <1>3 DEF IsLast
    <3>2. QED BY <3>1
  <2>3. ~(k > u)
    <3>1. ASSUME k > u PROVE FALSE
      <4>1. u + 1 \in from .. k /\ u < m
        BY <2>1, <3>1
      <4>2. QED BY <4>1, <1>3 DEF IsLast
    <3>2. QED BY <3>1
  <2>4. QED BY <2>1, <2>2, <2>3
<1> HIDE DEF from
<1>4. QED BY <1>2, <1>3 DEF LastOf, from

\* The value of the digits of a sequence is that of the memory that it shows.
LEMMA ValueIs ==
  ASSUME NEW s, NEW mem, NEW p \in Nat, NEW f \in Nat, NEW u \in Nat, f <= u, u <= Len(s),
         Shows(s, mem, p), NEW val, IsValue(val, mem, p + f, u - f)
  PROVE  ValueOf(s, f + 1, u)[u] = val[u - f]
<1> DEFINE n == u - f
           Is(v) == IsValueOf(v, s, f + 1, u)
           V == [k \in f .. u |-> val[k - f]]
           value == ValueOf(s, f + 1, u)
<1>1. n \in Nat /\ f + n = u /\ (f + 1) - 1 = f
  OBVIOUS
<1>2. /\ val \in [0 .. n -> Nat] /\ val[0] = 0
      /\ \A k \in Nat : k < n => val[k + 1] = val[k] * 10 + (mem[(p + f) + k] - Zero)
  BY DEF IsValue
<1>3. \A j \in Nat : j < Len(s) => s[j + 1] = mem[p + j]
  BY DEF Shows
<1>4. Len(s) \in Nat
  BY DEF Shows
<1>5. ASSUME NEW k \in Nat, k < n PROVE s[f + k + 1] = mem[(p + f) + k]
  <2>1. f + k \in Nat /\ f + k < Len(s) /\ p + (f + k) = (p + f) + k
    BY <1>1, <1>4, <1>5
  <2>2. QED BY <2>1, <1>3
<1>6. Is(V)
  <2> DEFINE W == [k \in f .. u |-> IF k = f THEN 0 ELSE V[k - 1] * 10 + (s[k] - Zero)]
  <2>1. ASSUME NEW k \in f .. u PROVE V[k] = W[k]
    <3>1. CASE k = f
      BY <3>1, <1>2
    <3>2. CASE k # f
      <4> DEFINE j == k - 1 - f
      <4>1. j \in Nat /\ j < n /\ j + 1 = k - f /\ k - 1 \in f .. u /\ (k - 1) - f = j /\ f + j + 1 = k
        BY <1>1, <3>2
      <4>2. V[k] = val[j + 1] /\ V[k - 1] = val[j]
        BY <4>1
      <4>3. s[k] = mem[(p + f) + j]
        BY <4>1, <1>5
      <4> HIDE DEF j, V
      <4>4. val[j + 1] = val[j] * 10 + (mem[(p + f) + j] - Zero)
        BY <4>1, <1>2
      <4>5. W[k] = V[k - 1] * 10 + (s[k] - Zero)
        BY <3>2
      <4>6. QED BY <4>2, <4>3, <4>4, <4>5
    <3>3. QED BY <3>1, <3>2
  <2>2. V = [k \in f .. u |-> V[k]] /\ W = [k \in f .. u |-> W[k]]
    OBVIOUS
  <2> HIDE DEF V, W
  <2>3. V = W
    BY <2>1, <2>2, Zenon
  <2>4. QED BY <2>3, <1>1 DEF W, IsValueOf
<1> HIDE DEF V
<1>7. Is(value)
  BY <1>6, Zenon DEF ValueOf
<1> HIDE DEF value, n
<1>8. value = [k \in f .. u |-> IF k = f THEN 0 ELSE value[k - 1] * 10 + (s[k] - Zero)]
  BY <1>1, <1>7 DEF IsValueOf
<1>9. value[f] = 0
  BY <1>8
<1>10. ASSUME NEW k \in Nat, k < n
       PROVE  value[f + (k + 1)] = value[f + k] * 10 + (mem[(p + f) + k] - Zero)
  <2> DEFINE j == f + (k + 1)
  <2>1. j \in f .. u /\ j # f /\ j - 1 = f + k /\ j = f + k + 1
    BY <1>1, <1>10
  <2>2. s[j] = mem[(p + f) + k]
    BY <2>1, <1>5, <1>10
  <2> HIDE DEF j
  <2>3. value[j] = value[j - 1] * 10 + (s[j] - Zero)
    BY <2>1, <1>8
  <2>4. QED BY <2>1, <2>2, <2>3 DEF j
<1> HIDE DEF Is
<1> DEFINE A == {k \in Nat : k <= n => value[f + k] = val[k]}
<1>11. 0 \in A
  BY <1>2, <1>9
<1>12. ASSUME NEW k \in Nat, k \in A PROVE k + 1 \in A
  <2>1. SUFFICES ASSUME k + 1 <= n PROVE value[f + (k + 1)] = val[k + 1]
    OBVIOUS
  <2>2. k < n /\ k <= n
    BY <2>1, <1>1
  <2>3. value[f + k] = val[k]
    BY <2>2, <1>12
  <2>4. QED BY <2>2, <2>3, <1>2, <1>10
<1> HIDE DEF A
<1>13. n \in A
  BY <1>1, <1>11, <1>12, Induction
<1>14. value[u] = val[n]
  BY <1>1, <1>13 DEF A
<1>15. QED BY <1>14 DEF value, n

\* atoi is the number at the start of the string.
LEMMA AtoiIsExact ==
  ASSUME NEW mem, IsMemory(mem), NEW p, IsPointer(p), IsString(mem, p)
  PROVE  atoi(mem, p) = Number(String(mem, p))
<1> DEFINE s == String(mem, p)
           m == Len(s)
           e == EndOf(mem, p)
           q == Loop(spaceStep(mem), p, Len(mem))
<1>1. m \in Nat /\ Shows(s, mem, p) /\ p + m = e
  BY StringBytes
<1>2. p \in Nat
  BY DEF IsPointer
<1>3. /\ q \in Nat /\ p <= q /\ q <= e /\ mem[q] # Space
      /\ \A j \in Nat : p <= j /\ j < q => mem[j] = Space
  BY SpacesAreSkipped
<1> HIDE DEF q
<1>4. PICK r \in Nat : /\ q <= r /\ r <= e /\ ~IsDigit(mem[r])
                       /\ \A j \in Nat : q <= j /\ j < r => IsDigit(mem[j])
  BY <1>3, DigitsEnd
<1> HIDE DEF e
<1>5. r - q \in Nat
  BY <1>3, <1>4
<1>6. PICK val : IsValue(val, mem, q, r - q)
  <2>1. ASSUME NEW k \in Nat, k < r - q PROVE IsDigit(mem[q + k])
    <3>1. q + k \in Nat /\ q <= q + k /\ q + k < r
      BY <2>1, <1>3, <1>4
    <3>2. QED BY <3>1, <1>4
  <2>2. QED BY <2>1, <1>3, <1>5, ValueExists
<1>7. atoi(mem, p) = val[r - q]
  BY <1>3, <1>4, <1>6, AtoiIs DEF q, e
<1> HIDE DEF s
<1> DEFINE f == q - p
           u == r - p
<1>8. /\ f \in Nat /\ u \in Nat /\ f <= u /\ u <= m /\ p + f = q /\ u - f = r - q
      /\ (f < m <=> q < e) /\ (u < m <=> r < e) /\ p + u = r
  BY <1>1, <1>2, <1>3, <1>4
<1>9. s \in Seq(Nat) /\ \A j \in Nat : j < m => s[j + 1] = mem[p + j]
  BY <1>1 DEF Shows
<1> HIDE DEF f, u, m
<1>10. ASSUME NEW k \in 1 .. m PROVE s[k] = mem[p + k - 1]
  <2>1. k - 1 \in Nat /\ k - 1 < m /\ (k - 1) + 1 = k /\ p + (k - 1) = p + k - 1
    BY <1>1, <1>2
  <2>2. QED BY <2>1, <1>9
<1>11. FirstOf(s) = f + 1
  <2>1. ASSUME NEW j \in 1 .. f PROVE s[j] = Space
    <3>1. j \in 1 .. m /\ p + j - 1 \in Nat /\ p <= p + j - 1 /\ p + j - 1 < q
      BY <1>1, <1>2, <1>8
    <3>2. QED BY <3>1, <1>3, <1>10
  <2>2. f < m => s[f + 1] # Space
    BY <1>3, <1>8, <1>9
  <2>3. QED BY <2>1, <2>2, <1>8, <1>9, FirstIs DEF m
<1>12. LastOf(s, f + 1) = u
  <2>1. ASSUME NEW k \in f + 1 .. u PROVE IsDigit(s[k])
    <3>1. k \in 1 .. m /\ p + k - 1 \in Nat /\ q <= p + k - 1 /\ p + k - 1 < r
      BY <1>1, <1>2, <1>8
    <3>2. QED BY <3>1, <1>4, <1>10
  <2>2. u < m => ~IsDigit(s[u + 1])
    BY <1>4, <1>8, <1>9
  <2>3. QED BY <2>1, <2>2, <1>1, <1>8, LastIs DEF m
<1>13. ValueOf(s, f + 1, u)[u] = val[u - f]
  BY <1>1, <1>2, <1>6, <1>8, ValueIs DEF m
<1>14. Number(s) = val[r - q]
  BY <1>8, <1>11, <1>12, <1>13, NumberParts
<1>15. QED BY <1>7, <1>14 DEF s

----------------------------------------------------------------------------
(* The digits of a number.                                                 *)

\* The recursion of Pow10, over the natural numbers.
LEMMA TenIs ==
  /\ Pow10[0] = 1
  /\ \A k \in Nat : Pow10[k] \in Nat /\ Pow10[k] >= 1 /\ Pow10[k + 1] = 10 * Pow10[k]
<1> DEFINE tenfold == [x \in Nat |-> 10 * x]
           f == [k \in Nat |-> Loop(tenfold, 1, k)]
           Is(g) == g = [k \in Nat |-> IF k = 0 THEN 1 ELSE 10 * g[k - 1]]
<1>1. tenfold \in [Nat -> Nat]
  OBVIOUS
<1> HIDE DEF tenfold
<1>2. \A n \in Nat : /\ Loop(tenfold, 1, 0) = 1
                     /\ Loop(tenfold, 1, n) \in Nat
                     /\ Loop(tenfold, 1, n + 1) = tenfold[Loop(tenfold, 1, n)]
  <2>1. \A n \in Nat : IsLoop(Nat, tenfold, 1, n)
    BY <1>1 DEF IsLoop
  <2>2. QED BY <2>1, LoopNext
<1>3. \A n \in Nat : Loop(tenfold, 1, n + 1) = 10 * Loop(tenfold, 1, n)
  BY <1>2 DEF tenfold
<1>4. Is(f)
  <2>1. \A k \in Nat : k # 0 => k - 1 \in Nat /\ k - 1 + 1 = k
    OBVIOUS
  <2>2. ASSUME NEW k \in Nat PROVE f[k] = IF k = 0 THEN 1 ELSE 10 * f[k - 1]
    BY <1>2, <1>3, <2>1
  <2>3. QED BY <2>2
<1> HIDE DEF f
<1>5. Is(Pow10)
  BY <1>4, Zenon DEF Pow10
<1>6. Pow10[0] = 1 /\ \A k \in Nat : Pow10[k + 1] = 10 * Pow10[k]
  BY <1>5
<1> DEFINE A == {k \in Nat : Pow10[k] \in Nat /\ Pow10[k] >= 1}
<1>7. 0 \in A
  BY <1>6
<1>8. \A k \in Nat : k \in A => k + 1 \in A
  BY <1>6
<1> HIDE DEF A
<1>9. \A k \in Nat : k \in A
  BY <1>7, <1>8, Induction
<1>10. QED BY <1>6, <1>9 DEF A

\* A power of ten is larger than its exponent, and the larger the more.
LEMMA TenIsLarge == \A k \in Nat : Pow10[k] >= k + 1
<1> DEFINE A == {k \in Nat : Pow10[k] >= k + 1}
<1>1. 0 \in A
  BY TenIs
<1>2. ASSUME NEW k \in Nat, k \in A PROVE k + 1 \in A
  <2>1. Pow10[k + 1] = 10 * Pow10[k] /\ Pow10[k] \in Nat
    BY TenIs
  <2>2. QED BY <2>1, <1>2
<1> HIDE DEF A
<1>3. \A k \in Nat : k \in A
  BY <1>1, <1>2, Induction
<1>4. QED BY <1>3 DEF A

\* A greater exponent gives no smaller power.
LEMMA TenRises ==
  ASSUME NEW a \in Nat, NEW b \in Nat, a <= b
  PROVE  Pow10[a] <= Pow10[b]
<1> DEFINE A == {k \in Nat : Pow10[a] <= Pow10[a + k]}
<1>1. 0 \in A
  BY TenIs
<1>2. ASSUME NEW k \in Nat, k \in A PROVE k + 1 \in A
  <2>1. a + k \in Nat /\ a + (k + 1) = (a + k) + 1
    OBVIOUS
  <2>2. Pow10[a + (k + 1)] = 10 * Pow10[a + k] /\ Pow10[a + k] \in Nat /\ Pow10[a] \in Nat
    BY <2>1, TenIs
  <2>3. QED BY <2>2, <1>2
<1> HIDE DEF A
<1>3. b - a \in Nat /\ a + (b - a) = b
  OBVIOUS
<1>4. b - a \in A
  BY <1>1, <1>2, <1>3, Induction
<1>5. QED BY <1>3, <1>4 DEF A

\* The number of digits of v.
IsLength(v, n) == v < Pow10[n] /\ (n = 1 \/ v >= Pow10[n - 1])
LengthOf(v) == CHOOSE n \in 1 .. v + 1 : IsLength(v, n)
Digit(v, k) == (v \div Pow10[k]) % 10

\* Every number has a length in digits.
LEMMA LengthIs ==
  ASSUME NEW v \in Nat
  PROVE  LengthOf(v) \in 1 .. v + 1 /\ IsLength(v, LengthOf(v))
<1> DEFINE S == {n \in Nat : n >= 1 /\ v < Pow10[n]}
<1>1. v + 1 \in S
  <2>1. v + 1 \in Nat /\ Pow10[v + 1] \in Nat /\ Pow10[v + 1] >= (v + 1) + 1
    BY TenIs, TenIsLarge
  <2>2. QED BY <2>1
<1>2. PICK n \in S : \A z \in S : n <= z
  <2>1. S \subseteq Nat /\ S # {}
    BY <1>1
  <2>2. QED BY <2>1, Least
<1>3. n \in 1 .. v + 1
  BY <1>1, <1>2
<1>4. n = 1 \/ v >= Pow10[n - 1]
  <2>1. ASSUME n # 1, ~(v >= Pow10[n - 1]) PROVE FALSE
    <3>1. n - 1 \in Nat /\ n - 1 >= 1
      BY <1>3, <2>1
    <3>2. Pow10[n - 1] \in Nat
      BY <3>1, TenIs
    <3>3. n - 1 \in S
      BY <3>1, <3>2, <2>1
    <3>4. n <= n - 1
      BY <3>3, <1>2
    <3>5. QED BY <3>4, <1>3
  <2>2. QED BY <2>1
<1>5. IsLength(v, n)
  BY <1>2, <1>4 DEF IsLength
<1>6. QED BY <1>3, <1>5 DEF LengthOf

\* The first k places of v, the last one first.
PlacesOf(v, k) == [i \in 1 .. k |-> Digit(v, i - 1)]
Inverted(left, places) == [left |-> left, invert |-> places]

\* A step of the loop that takes the digits.
LEMMA InvertStepIs ==
  ASSUME NEW left \in Nat, NEW places \in Seq(0 .. 9)
  PROVE  /\ Inverted(left, places).invert = places
         /\ left = 0 => invertStep[Inverted(left, places)] = Inverted(left, places)
         /\ left # 0 => invertStep[Inverted(left, places)] = Inverted(left \div 10, Append(places, left % 10))
<1> DEFINE s == Inverted(left, places)
<1>1. s \in [left : Nat, invert : Seq(0 .. 9)] /\ s.left = left /\ s.invert = places
  BY DEF Inverted
<1> HIDE DEF s
<1>2. invertStep[s] = IF left = 0 THEN s ELSE Inverted(left \div 10, Append(places, left % 10))
  BY <1>1 DEF invertStep, Inverted
<1>3. QED BY <1>1, <1>2 DEF s

\* A place is a digit.
LEMMA DigitIs ==
  ASSUME NEW v \in Nat, NEW k \in Nat
  PROVE  Digit(v, k) \in 0 .. 9
<1>1. Pow10[k] \in Nat /\ Pow10[k] >= 1
  BY TenIs
<1> DEFINE q == v \div Pow10[k]
<1>2. q \in Int
  BY <1>1, DivMod
<1> HIDE DEF q
<1>3. q % 10 \in 0 .. 9
  BY <1>2
<1>4. QED BY <1>3 DEF q, Digit

\* One place more.
LEMMA PlacesRise ==
  ASSUME NEW v \in Nat, NEW k \in Nat
  PROVE  /\ PlacesOf(v, k) \in Seq(0 .. 9) /\ Len(PlacesOf(v, k)) = k /\ PlacesOf(v, 0) = <<>>
         /\ Append(PlacesOf(v, k), Digit(v, k)) = PlacesOf(v, k + 1)
         /\ \A i \in 1 .. k : PlacesOf(v, k)[i] = Digit(v, i - 1)
<1>1. \A j \in Nat : Digit(v, j) \in 0 .. 9
  BY DigitIs
<1> HIDE DEF Digit
<1>2. \A i \in 1 .. k + 1 : Digit(v, i - 1) \in 0 .. 9
  BY <1>1
<1> DEFINE s == PlacesOf(v, k)
           t == PlacesOf(v, k + 1)
<1>3. s \in Seq(0 .. 9) /\ Len(s) = k /\ \A i \in 1 .. k : s[i] = Digit(v, i - 1)
  BY <1>2 DEF PlacesOf
<1>4. t \in Seq(0 .. 9) /\ Len(t) = k + 1 /\ \A i \in 1 .. k + 1 : t[i] = Digit(v, i - 1)
  BY <1>2 DEF PlacesOf
<1>5. PlacesOf(v, 0) = <<>>
  BY DEF PlacesOf
<1> HIDE DEF s, t
<1> DEFINE d == Digit(v, k)
<1>6. d \in 0 .. 9 /\ (k + 1) - 1 = k
  BY <1>1
<1> HIDE DEF d
<1>7. Append(s, d) \in Seq(0 .. 9) /\ Len(Append(s, d)) = k + 1
      /\ (\A i \in 1 .. k : Append(s, d)[i] = s[i]) /\ Append(s, d)[k + 1] = d
  BY <1>3, <1>6
<1>8. ASSUME NEW i \in 1 .. k + 1 PROVE Append(s, d)[i] = t[i]
  <2>1. CASE i = k + 1
    BY <2>1, <1>4, <1>6, <1>7 DEF d
  <2>2. CASE i # k + 1
    <3>1. i \in 1 .. k
      BY <2>2
    <3>2. QED BY <3>1, <1>3, <1>4, <1>7
  <2>3. QED BY <2>1, <2>2
<1>9. Append(s, d) = t
  BY <1>4, <1>7, <1>8
<1>10. QED BY <1>3, <1>5, <1>9 DEF s, t, d

\* The places of a number in order, which digits leaves.
LEMMA DigitsAreExact ==
  ASSUME NEW v \in Nat
  PROVE  digits(v) = Natural(v)
<1> DEFINE n == LengthOf(v)
<1>1. n \in Nat /\ n >= 1 /\ n <= v + 1 /\ v < Pow10[n] /\ (n = 1 \/ v >= Pow10[n - 1])
  BY LengthIs DEF IsLength
<1>2. Natural(v) = [i \in 1 .. n |-> DigitChar[Digit(v, n - i) + 1]]
  BY DEF Natural, LengthOf, IsLength, Digit
<1> HIDE DEF n
<1>3. CASE v = 0
  <2>1. n = 1
    BY <1>1, <1>3
  <2>2. Pow10[0] = 1
    BY TenIs
  <2>3. Digit(v, 0) = 0
    BY <1>3, <2>2 DEF Digit
  <2>4. DigitChar[Digit(v, 0) + 1] = "0"
    BY <2>3 DEF DigitChar
  <2>5. Natural(v) = <<"0">>
    BY <1>2, <2>1, <2>4
  <2>6. QED BY <1>3, <2>5 DEF digits
<1>4. CASE v > 0
  <2> DEFINE at == [k \in 0 .. n |-> Inverted(v \div Pow10[k], PlacesOf(v, k))]
             from == Inverted(v, <<>>)
  <2>1. at[0] = from
    <3>1. Pow10[0] = 1 /\ v \div 1 = v /\ 0 \in 0 .. n
      BY <1>1, TenIs
    <3>2. QED BY <3>1, PlacesRise
  <2>2. ASSUME NEW k \in Nat, k < n PROVE at[k + 1] = invertStep[at[k]]
    <3> DEFINE p == Pow10[k]
               left == v \div p
               places == PlacesOf(v, k)
    <3>1. p \in Nat /\ p >= 1 /\ Pow10[k + 1] = 10 * p /\ p * 10 = 10 * p
      BY TenIs
    <3>2. p <= v
      <4>1. CASE n = 1
        BY <4>1, <1>4, <2>2, TenIs
      <4>2. CASE n # 1
        <5>1. n - 1 \in Nat /\ k <= n - 1 /\ v >= Pow10[n - 1]
          BY <4>2, <1>1, <2>2
        <5>2. p <= Pow10[n - 1] /\ Pow10[n - 1] \in Nat
          BY <5>1, TenRises, TenIs
        <5> HIDE DEF p
        <5>3. QED BY <5>1, <5>2, <3>1
      <4>3. QED BY <4>1, <4>2
    <3>3. places \in Seq(0 .. 9) /\ Append(places, Digit(v, k)) = PlacesOf(v, k + 1)
      BY PlacesRise
    <3>4. at[k] = Inverted(left, places) /\ at[k + 1] = Inverted(v \div Pow10[k + 1], PlacesOf(v, k + 1))
      BY <2>2, <1>1
    <3>5. Digit(v, k) = left % 10
      BY DEF Digit
    <3> HIDE DEF p, at, places
    <3>6. left \in Nat /\ left \div 10 = v \div Pow10[k + 1]
      <4>1. Divisors(v, p, 10)
        BY <3>1 DEF Divisors
      <4>2. left \div 10 = v \div (p * 10)
        BY <4>1, DivDiv
      <4>3. left \in Nat
        BY <3>1, DivMod
      <4>4. QED BY <3>1, <4>2, <4>3
    <3>7. left # 0
      BY <3>1, <3>2
    <3> HIDE DEF left
    <3>8. invertStep[Inverted(left, places)] = Inverted(left \div 10, Append(places, left % 10))
      BY <3>3, <3>6, <3>7, InvertStepIs
    <3>9. QED BY <3>3, <3>4, <3>5, <3>6, <3>8
  <2> DEFINE places == PlacesOf(v, n)
  <2>3. at[n] = Inverted(0, places)
    <3>1. v \div Pow10[n] = 0
      <4> DEFINE p == Pow10[n]
      <4>1. p \in Nat /\ p >= 1 /\ v < p
        BY <1>1, TenIs
      <4> HIDE DEF p
      <4>2. Euclid(v, p, 0, v)
        BY <4>1 DEF Euclid
      <4>3. QED BY <4>2, DivIs DEF p
    <3>2. QED BY <3>1, <1>1
  <2>4. places \in Seq(0 .. 9) /\ Len(places) = n /\ \A i \in 1 .. n : places[i] = Digit(v, i - 1)
    BY <1>1, PlacesRise
  <2> HIDE DEF at, from, places
  <2>5. invertStep[at[n]] = at[n] /\ at[n].invert = places
    BY <2>3, <2>4, InvertStepIs
  <2>6. IsTrace(at, invertStep, from, n)
    BY <2>1, <2>2 DEF IsTrace
  <2>7. n <= v
    <3>1. CASE n = 1
      BY <3>1, <1>4
    <3>2. CASE n # 1
      <4>1. n - 1 \in Nat /\ v >= Pow10[n - 1]
        BY <3>2, <1>1
      <4>2. Pow10[n - 1] >= (n - 1) + 1 /\ Pow10[n - 1] \in Nat
        BY <4>1, TenIs, TenIsLarge
      <4>3. QED BY <4>1, <4>2, <1>1
    <3>3. QED BY <3>1, <3>2
  <2>8. Loop(invertStep, from, v) = at[n]
    BY <1>1, <2>5, <2>6, <2>7, LoopTrace
  <2>9. digits(v) = [i \in 1 .. Len(places) |-> DigitChar[Reverse(places)[i] + 1]]
    BY <1>4, <2>5, <2>8 DEF digits, from, Inverted
  <2>10. ASSUME NEW i \in 1 .. n PROVE Reverse(places)[i] = Digit(v, n - i)
    <3>1. Reverse(places)[i] = places[(n - i) + 1]
      BY <2>4 DEF Reverse
    <3>2. (n - i) + 1 \in 1 .. n /\ ((n - i) + 1) - 1 = n - i
      BY <1>1
    <3>3. QED BY <3>1, <3>2, <2>4
  <2>11. QED BY <1>2, <2>4, <2>9, <2>10
<1>5. QED BY <1>3, <1>4

\* The digits are characters.
LEMMA NaturalIs ==
  ASSUME NEW v \in Nat
  PROVE  Natural(v) \in Seq(Characters)
<1> DEFINE n == LengthOf(v)
<1>1. n \in Nat /\ n >= 1
  BY LengthIs
<1>2. Natural(v) = [i \in 1 .. n |-> DigitChar[Digit(v, n - i) + 1]]
  BY DEF Natural, LengthOf, IsLength, Digit
<1> HIDE DEF n
<1>3. \A i \in 1 .. 10 : DigitChar[i] \in Characters
  BY KlibAssumption
<1>4. ASSUME NEW i \in 1 .. n PROVE DigitChar[Digit(v, n - i) + 1] \in Characters
  <2>1. n - i \in Nat
    BY <1>1
  <2> DEFINE d == Digit(v, n - i)
  <2>2. d \in 0 .. 9
    BY <2>1, DigitIs
  <2> HIDE DEF d
  <2>3. d + 1 \in 1 .. 10
    BY <2>2
  <2>4. QED BY <2>3, <1>3 DEF d
<1>5. QED BY <1>1, <1>2, <1>4

\* A number that its type holds is taken as what it is.
LEMMA TakenAs ==
  ASSUME NEW w \in Nat \ {0}, NEW v
  PROVE  /\ v \in 0 .. Pow2[w] - 1 => AsUnsigned(v, w) = v
         /\ v \in -Pow2[w - 1] .. Pow2[w - 1] - 1 => AsSigned(v, w) = v
<1> DEFINE p == Pow2[w - 1]
           q == Pow2[w]
<1>1. p \in Nat /\ p >= 1 /\ q = 2 * p
  BY PowDown
<1>2. /\ AsUnsigned(v, w) = v % q
      /\ AsSigned(v, w) = IF AsUnsigned(v, w) >= p THEN AsUnsigned(v, w) - q ELSE AsUnsigned(v, w)
  BY DEF AsUnsigned, AsSigned
<1> HIDE DEF p, q
<1>3. ASSUME v \in 0 .. q - 1 PROVE v % q = v
  <2>1. Euclid(v, q, 0, v)
    BY <1>1, <1>3 DEF Euclid
  <2>2. QED BY <2>1, DivIs
<1>4. ASSUME v \in -p .. p - 1 PROVE AsSigned(v, w) = v
  <2>1. CASE v >= 0
    <3>1. v \in 0 .. q - 1 /\ v < p
      BY <2>1, <1>1, <1>4
    <3>2. v % q = v
      BY <3>1, <1>3
    <3>3. QED BY <3>1, <3>2, <1>1, <1>2, <1>4
  <2>2. CASE v < 0
    <3>1. Euclid(v, q, -1, v + q)
      BY <2>2, <1>1, <1>4 DEF Euclid
    <3>2. v % q = v + q
      BY <3>1, DivIs
    <3>3. v + q >= p /\ (v + q) - q = v
      BY <2>2, <1>1, <1>4
    <3>4. QED BY <3>2, <3>3, <1>2
  <2>3. QED BY <2>1, <2>2, <1>1, <1>4
<1>5. QED BY <1>2, <1>3, <1>4 DEF p, q

\* What a conversion of a number shows.
ShownAs(v, c, flags) == IF c = "d" THEN decimal(v, flags) ELSE unsigned(v, flags)

\* It shows the number, when its type holds it, but the least long long.
LEMMA ShownIs ==
  ASSUME NEW v, NEW c \in {"d", "u"}, NEW flags \in 0 .. 2, IsNumber(v, c, flags)
  PROVE  ShownAs(v, c, flags) = ShownNumber(v) /\ ShownNumber(v) \in Seq(Characters)
<1> DEFINE w == Width(flags)
           p == Pow2[w]
           h == Pow2[w - 1]
<1>1. w \in Nat \ {0}
  BY KlibAssumption DEF Width
<1>2. p \in Nat /\ h \in Nat
  BY <1>1, PowDown, PowIs
<1>3. \A k \in Nat : digits(k) = Natural(k) /\ Natural(k) \in Seq(Characters)
  BY DigitsAreExact, NaturalIs
<1> DEFINE least == IsLeast(v)
<1>7. least <=> -v = Pow2[LongLongBits - 1]
  BY DEF IsLeast
<1>8. Pow2[LongLongBits - 1] \in Nat /\ Pow2[LongLongBits - 1] >= 1
  <2>1. LongLongBits \in Nat \ {0}
    BY KlibAssumption
  <2>2. QED BY <2>1, PowDown
<1>9. ~least => ShownNumber(v) = Decimal(v)
  BY DEF ShownNumber
<1> HIDE DEF w, least
<1>4. CASE c = "u"
  <2>1. v \in 0 .. p - 1
    BY <1>4 DEF IsNumber, w
  <2>2. AsUnsigned(v, w) = v
    BY <2>1, <1>1, TakenAs
  <2> HIDE DEF p, h
  <2>3. v \in Nat /\ ~(v < 0) /\ ~least
    BY <2>1, <1>2, <1>7, <1>8
  <2>4. ShownAs(v, c, flags) = digits(v)
    BY <2>2, <1>4 DEF ShownAs, unsigned, w
  <2>5. QED BY <2>3, <2>4, <1>3, <1>9 DEF Decimal
<1>5. CASE c = "d"
  <2>1. v \in -h .. h - 1
    BY <1>5 DEF IsNumber, w
  <2>2. AsSigned(v, w) = v
    BY <2>1, <1>1, TakenAs
  <2> HIDE DEF p, h
  <2>3. v \in Int
    BY <2>1, <1>2
  <2> DEFINE positive == IF least THEN Overflowed ELSE digits(-v)
  <2>4. ShownAs(v, c, flags) = IF v < 0 THEN <<"-">> \o positive ELSE digits(v)
    BY <2>2, <1>5, <1>7 DEF ShownAs, decimal, w
  <2>5. CASE v < 0
    <3>1. -v \in Nat
      BY <2>3, <2>5
    <3> DEFINE d == positive
    <3>2. (~least => d = Natural(-v)) /\ d \in Seq(Characters)
      BY <3>1, <1>3, KlibAssumption
    <3>3. ShownNumber(v) = <<"-">> \o d
      BY <3>2, <2>5, <1>9 DEF Decimal, ShownNumber, least
    <3> HIDE DEF d
    <3>4. <<"-">> \o d \in Seq(Characters)
      <4> DEFINE minus == <<"-">>
      <4>1. minus \in Seq(Characters)
        BY KlibAssumption
      <4> HIDE DEF minus
      <4>2. minus \o d \in Seq(Characters)
        BY <3>2, <4>1
      <4>3. QED BY <4>2 DEF minus
    <3>5. QED BY <3>3, <3>4, <2>4, <2>5 DEF d
  <2>6. CASE ~(v < 0)
    <3>1. v \in Nat
      BY <2>3, <2>6
    <3>2. ~least
      BY <3>1, <1>7, <1>8
    <3>3. QED BY <3>1, <3>2, <2>4, <2>6, <1>3, <1>9 DEF Decimal
  <2>7. QED BY <2>5, <2>6
<1>6. QED BY <1>4, <1>5

----------------------------------------------------------------------------
(* Sequences one after the other.                                          *)

\* P[k] are the first k sequences of ss one after the other.
ArePrefixes(P, ss, T) ==
  /\ P \in [0 .. Len(ss) -> Seq(T)] /\ P[0] = <<>>
  /\ \A k \in Nat : k < Len(ss) => P[k + 1] = P[k] \o ss[k + 1]

\* Two sequences over any set, one after the other.
LEMMA JoinOf ==
  ASSUME NEW T, NEW a \in Seq(T), NEW b \in Seq(T)
  PROVE  /\ a \o b \in Seq(T) /\ Len(a) \in Nat /\ Len(b) \in Nat /\ Len(a \o b) = Len(a) + Len(b)
         /\ \A i \in 1 .. Len(a) : (a \o b)[i] = a[i]
         /\ \A i \in 1 .. Len(b) : (a \o b)[Len(a) + i] = b[i]
OBVIOUS

\* Every sequence of sequences has its prefixes.
LEMMA PrefixesExist ==
  ASSUME NEW T, NEW ss \in Seq(Seq(T))
  PROVE  \E P : ArePrefixes(P, ss, T)
<1> DEFINE most == Len(ss)
           Is(P, n) == /\ P \in [0 .. n -> Seq(T)] /\ P[0] = <<>>
                       /\ \A k \in Nat : k < n => P[k + 1] = P[k] \o ss[k + 1]
           Has(n) == \E P : Is(P, n)
           A == {n \in Nat : n <= most => Has(n)}
<1>1. most \in Nat /\ \A k \in Nat : k < most => ss[k + 1] \in Seq(T)
  OBVIOUS
<1> HIDE DEF most
<1>2. 0 \in A
  <2> DEFINE P == [k \in 0 .. 0 |-> <<>>]
  <2>1. P \in [0 .. 0 -> Seq(T)] /\ P[0] = <<>>
    OBVIOUS
  <2> HIDE DEF P
  <2>2. \A k \in Nat : ~(k < 0)
    OBVIOUS
  <2>3. \A k \in Nat : k < 0 => P[k + 1] = P[k] \o ss[k + 1]
    BY <2>2, Zenon
  <2>4. Is(P, 0)
    BY <2>1, <2>3, Zenon
  <2>5. Has(0)
    BY <2>4
  <2> HIDE DEF Has
  <2>6. QED BY <2>5
<1>3. ASSUME NEW n \in Nat, n \in A PROVE n + 1 \in A
  <2> HIDE DEF Has
  <2>1. SUFFICES ASSUME n + 1 <= most PROVE Has(n + 1)
    OBVIOUS
  <2>2. n <= most /\ n < most
    BY <2>1, <1>1
  <2>3. PICK P : Is(P, n)
    BY <2>2, <1>3 DEF Has
  <2> DEFINE a == P[n]
             b == ss[n + 1]
             next == a \o b
             Q == [k \in 0 .. n + 1 |-> IF k = n + 1 THEN next ELSE P[k]]
  <2>4. a \in Seq(T) /\ b \in Seq(T)
    BY <2>2, <2>3, <1>1
  <2> HIDE DEF a, b
  <2>5. next \in Seq(T)
    BY <2>4, JoinOf
  <2> HIDE DEF next
  <2>6. Q \in [0 .. n + 1 -> Seq(T)] /\ Q[0] = <<>>
    BY <2>3, <2>5
  <2>7. ASSUME NEW k \in Nat, k < n + 1 PROVE Q[k + 1] = Q[k] \o ss[k + 1]
    <3>1. Q[k] = P[k]
      BY <2>7
    <3>2. CASE k = n
      <4>1. Q[n + 1] = next
        OBVIOUS
      <4>2. next = P[n] \o ss[n + 1]
        BY DEF next, a, b
      <4>3. QED BY <3>1, <3>2, <4>1, <4>2
    <3>3. CASE k < n
      <4>1. Q[k + 1] = P[k + 1]
        BY <3>3
      <4>2. P[k + 1] = P[k] \o ss[k + 1]
        BY <3>3, <2>3
      <4>3. QED BY <3>1, <4>1, <4>2
    <3>4. k = n \/ k < n
      BY <2>7
    <3>5. QED BY <3>2, <3>3, <3>4
  <2> HIDE DEF Q
  <2>8. Is(Q, n + 1)
    BY <2>6, <2>7
  <2>9. QED BY <2>8 DEF Has
<1> HIDE DEF A, Is, Has
<1>4. most \in A
  BY <1>1, <1>2, <1>3, Induction
<1>5. PICK P : Is(P, most)
  BY <1>1, <1>4 DEF A, Has
<1>6. ArePrefixes(P, ss, T)
  BY <1>5 DEF Is, most, ArePrefixes
<1>7. QED BY <1>6

\* FlattenSeq is the last of them.
LEMMA FlattenIs ==
  ASSUME NEW T, NEW ss \in Seq(Seq(T)), NEW P, ArePrefixes(P, ss, T)
  PROVE  FlattenSeq(ss) = P[Len(ss)]
<1> DEFINE n == Len(ss)
           Is(f) == f = [i \in 1 .. n |-> IF i = 1 THEN ss[i] ELSE f[i - 1] \o ss[i]]
           flatten == CHOOSE f : Is(f)
<1>1. n \in Nat /\ \A k \in Nat : k < n => ss[k + 1] \in Seq(T)
  OBVIOUS
<1>2. FlattenSeq(ss) = IF n = 0 THEN ss ELSE flatten[n]
  BY DEF FlattenSeq
<1>3. n = 0 => ss = <<>>
  OBVIOUS
<1> HIDE DEF n
<1>4. /\ P \in [0 .. n -> Seq(T)] /\ P[0] = <<>>
      /\ \A k \in Nat : k < n => P[k + 1] = P[k] \o ss[k + 1]
  BY DEF ArePrefixes, n
<1>5. CASE n = 0
  BY <1>2, <1>3, <1>4, <1>5 DEF n
<1>6. CASE n > 0
  <2> DEFINE V == [i \in 1 .. n |-> P[i]]
             W == [i \in 1 .. n |-> IF i = 1 THEN ss[i] ELSE V[i - 1] \o ss[i]]
  <2>1. P[1] = ss[1]
    <3>1. P[1] = <<>> \o ss[1] /\ ss[1] \in Seq(T)
      <4>1. 0 \in Nat /\ 0 < n /\ 0 + 1 = 1
        BY <1>1, <1>6
      <4>2. P[0 + 1] = P[0] \o ss[0 + 1] /\ ss[0 + 1] \in Seq(T)
        BY <4>1, <1>1, <1>4
      <4>3. QED BY <4>1, <4>2, <1>4
    <3> DEFINE s == ss[1]
    <3>2. s \in Seq(T)
      BY <3>1
    <3> HIDE DEF s
    <3>3. <<>> \o s = s
      BY <3>2
    <3>4. QED BY <3>1, <3>3 DEF s
  <2>2. ASSUME NEW i \in 1 .. n PROVE V[i] = W[i]
    <3>1. CASE i = 1
      BY <3>1, <2>1
    <3>2. CASE i # 1
      <4>1. i - 1 \in Nat /\ i - 1 < n /\ (i - 1) + 1 = i /\ i - 1 \in 1 .. n
        BY <3>2, <1>1
      <4>2. P[i] = P[i - 1] \o ss[i]
        BY <4>1, <1>4
      <4>3. V[i] = P[i] /\ V[i - 1] = P[i - 1]
        BY <4>1
      <4> HIDE DEF V
      <4>4. W[i] = V[i - 1] \o ss[i]
        BY <3>2
      <4>5. QED BY <4>2, <4>3, <4>4
    <3>3. QED BY <3>1, <3>2
  <2>3. V = [i \in 1 .. n |-> V[i]] /\ W = [i \in 1 .. n |-> W[i]]
    OBVIOUS
  <2> HIDE DEF V, W
  <2>4. V = W
    BY <2>2, <2>3, Zenon
  <2>5. Is(V)
    BY <2>4 DEF W
  <2>6. Is(flatten)
    BY <2>5, Zenon
  <2> HIDE DEF flatten
  <2>7. /\ flatten[1] = ss[1]
        /\ \A k \in Nat : k >= 1 /\ k < n => flatten[k + 1] = flatten[k] \o ss[k + 1]
    <3>1. flatten[1] = ss[1]
      BY <2>6, <1>1, <1>6
    <3>2. ASSUME NEW k \in Nat, k >= 1, k < n PROVE flatten[k + 1] = flatten[k] \o ss[k + 1]
      <4>1. k + 1 \in 1 .. n /\ k + 1 # 1 /\ (k + 1) - 1 = k
        BY <1>1, <3>2
      <4>2. flatten[k + 1] = flatten[(k + 1) - 1] \o ss[k + 1]
        BY <2>6, <4>1
      <4>3. QED BY <4>1, <4>2
    <3>3. QED BY <3>1, <3>2
  <2> HIDE DEF Is
  <2> DEFINE A == {k \in Nat : k + 1 <= n => flatten[k + 1] = P[k + 1]}
  <2>8. 0 \in A
    BY <2>1, <2>7
  <2>9. ASSUME NEW k \in Nat, k \in A PROVE k + 1 \in A
    <3>1. SUFFICES ASSUME (k + 1) + 1 <= n PROVE flatten[(k + 1) + 1] = P[(k + 1) + 1]
      OBVIOUS
    <3>2. k + 1 \in Nat /\ k + 1 >= 1 /\ k + 1 < n /\ k + 1 <= n
      BY <3>1, <1>1
    <3>3. flatten[k + 1] = P[k + 1]
      BY <3>2, <2>9
    <3>4. QED BY <3>2, <3>3, <2>7, <1>4
  <2> HIDE DEF A
  <2>10. n - 1 \in A /\ (n - 1) + 1 = n /\ n - 1 \in Nat
    <3>1. n - 1 \in Nat /\ (n - 1) + 1 = n
      BY <1>1, <1>6
    <3>2. QED BY <3>1, <2>8, <2>9, Induction
  <2>11. flatten[n] = P[n]
    BY <2>10 DEF A
  <2>12. QED BY <2>11, <1>2, <1>6 DEF n
<1>7. QED BY <1>1, <1>5, <1>6

\* A prefix is the beginning of every longer one.
LEMMA PrefixStays ==
  ASSUME NEW T, NEW ss \in Seq(Seq(T)), NEW P, ArePrefixes(P, ss, T),
         NEW j \in 0 .. Len(ss), NEW m \in 0 .. Len(ss), j <= m
  PROVE  /\ P[j] \in Seq(T) /\ P[m] \in Seq(T) /\ Len(P[j]) <= Len(P[m])
         /\ \A i \in 1 .. Len(P[j]) : P[m][i] = P[j][i]
<1> DEFINE n == Len(ss)
           Begins(a, b) == Len(a) <= Len(b) /\ \A i \in 1 .. Len(a) : b[i] = a[i]
           A == {k \in Nat : j + k <= n => Begins(P[j], P[j + k])}
<1>1. n \in Nat /\ j \in 0 .. n /\ m \in 0 .. n /\ \A k \in Nat : k < n => ss[k + 1] \in Seq(T)
  OBVIOUS
<1> HIDE DEF n
<1>2. /\ P \in [0 .. n -> Seq(T)]
      /\ \A k \in Nat : k < n => P[k + 1] = P[k] \o ss[k + 1]
  BY DEF ArePrefixes, n
<1>3. 0 \in A
  <2>1. j + 0 = j /\ P[j] \in Seq(T) /\ Len(P[j]) <= Len(P[j])
    BY <1>1, <1>2
  <2>2. QED BY <2>1
<1>4. ASSUME NEW k \in Nat, k \in A PROVE k + 1 \in A
  <2>1. SUFFICES ASSUME j + (k + 1) <= n PROVE Begins(P[j], P[j + (k + 1)])
    OBVIOUS
  <2>2. j + k \in Nat /\ j + k < n /\ j + k <= n /\ j + (k + 1) = (j + k) + 1
    BY <2>1, <1>1
  <2> DEFINE a == P[j]
             b == P[j + k]
             c == ss[(j + k) + 1]
  <2>3. a \in Seq(T) /\ b \in Seq(T) /\ c \in Seq(T) /\ P[j + (k + 1)] = b \o c
    <3>1. a \in Seq(T) /\ b \in Seq(T)
      BY <2>2, <1>1, <1>2
    <3>2. c \in Seq(T) /\ P[(j + k) + 1] = b \o c
      BY <2>2, <1>1, <1>2
    <3>3. QED BY <3>1, <3>2, <2>2
  <2>4. Begins(a, b)
    BY <2>2, <1>4
  <2> HIDE DEF a, b, c
  <2>5. Len(b) <= Len(b \o c) /\ \A i \in 1 .. Len(b) : (b \o c)[i] = b[i]
    BY <2>3
  <2>6. Begins(a, b \o c)
    <3>1. Len(a) \in Nat /\ Len(b) \in Nat /\ Len(b \o c) \in Nat
      BY <2>3
    <3>2. Len(a) <= Len(b \o c)
      BY <2>4, <2>5, <3>1
    <3>3. ASSUME NEW i \in 1 .. Len(a) PROVE (b \o c)[i] = a[i]
      <4>1. i \in 1 .. Len(b)
        BY <2>4, <3>1
      <4>2. QED BY <4>1, <2>4, <2>5
    <3>4. QED BY <3>2, <3>3
  <2>7. QED BY <2>3, <2>6 DEF a
<1> HIDE DEF A, Begins
<1>5. m - j \in Nat /\ j + (m - j) = m /\ m <= n
  BY <1>1
<1>6. m - j \in A
  BY <1>3, <1>4, <1>5, Induction
<1>7. Begins(P[j], P[m])
  BY <1>5, <1>6 DEF A
<1>8. P[j] \in Seq(T) /\ P[m] \in Seq(T)
  BY <1>1, <1>2
<1>9. QED BY <1>7, <1>8 DEF Begins

\* Where a sequence stands, in all of them.
StandsAt(ss, P, T, j, all) ==
  /\ ss[j + 1] \in Seq(T) /\ P[j] \in Seq(T) /\ P[j + 1] = P[j] \o ss[j + 1]
  /\ all \in Seq(T) /\ Len(P[j]) + Len(ss[j + 1]) <= Len(all)
  /\ \A k \in 1 .. Len(ss[j + 1]) : all[Len(P[j]) + k] = ss[j + 1][k]

\* The sequence j + 1 stands in all of them after the first j.
LEMMA FlattenAt ==
  ASSUME NEW T, NEW ss \in Seq(Seq(T)), NEW P, ArePrefixes(P, ss, T), NEW j \in Nat, j < Len(ss)
  PROVE  StandsAt(ss, P, T, j, FlattenSeq(ss))
<1> DEFINE n == Len(ss)
           a == P[j]
           b == ss[j + 1]
           c == P[n]
<1>1. n \in Nat /\ b \in Seq(T) /\ j \in 0 .. n /\ j + 1 \in 0 .. n /\ n \in 0 .. n /\ j + 1 <= n
  OBVIOUS
<1>2. P[j + 1] = a \o b
  BY DEF ArePrefixes
<1>3. /\ P[j + 1] \in Seq(T) /\ c \in Seq(T) /\ Len(P[j + 1]) <= Len(c)
      /\ \A i \in 1 .. Len(P[j + 1]) : c[i] = P[j + 1][i]
  BY <1>1, PrefixStays
<1>4. a \in Seq(T)
  BY <1>1 DEF ArePrefixes
<1>5. FlattenSeq(ss) = c
  BY FlattenIs
<1> HIDE DEF a, b, c, StandsAt, n
<1>6. /\ Len(a) \in Nat /\ Len(b) \in Nat /\ Len(a \o b) = Len(a) + Len(b)
      /\ \A i \in 1 .. Len(b) : (a \o b)[Len(a) + i] = b[i]
  BY <1>1, <1>4, JoinOf
<1>7. ASSUME NEW k \in 1 .. Len(b) PROVE c[Len(a) + k] = b[k]
  <2>1. Len(a) + k \in 1 .. Len(a \o b)
    BY <1>6
  <2>2. QED BY <2>1, <1>2, <1>3, <1>6
<1>8. Len(a) + Len(b) <= Len(c)
  BY <1>2, <1>3, <1>6
<1>9. QED BY <1>1, <1>2, <1>3, <1>4, <1>5, <1>7, <1>8 DEF a, b, c, StandsAt

----------------------------------------------------------------------------
(* A step of vprintf.                                                      *)

\* A state outside of a conversion, and one inside after l times "l".
IsPlain(s, at, taken, out, pos) ==
  /\ s \in Printing /\ s.at = at /\ s.taken = taken /\ s.out = out /\ s.pos = pos
  /\ ~s.in_format /\ s.long_flags = 0 /\ ~s.failed
IsInside(s, at, taken, out, pos, l) ==
  /\ s \in Printing /\ s.at = at /\ s.taken = taken /\ s.out = out /\ s.pos = pos
  /\ s.in_format /\ s.long_flags = l /\ ~s.failed

\* A state with another field.
WithFlags(s, k) == [s EXCEPT !.long_flags = k]

\* What the helpers make of a state.
LEMMA SkipsIs ==
  ASSUME NEW s \in Printing, NEW k \in Nat, NEW t, t = Skips(s, k)
  PROVE  /\ t \in Printing /\ t.at = s.at + k /\ t.taken = s.taken /\ t.out = s.out /\ t.pos = s.pos
         /\ t.in_format = s.in_format /\ t.long_flags = s.long_flags /\ t.failed = s.failed
BY DEF Skips, Printing

\* The state enters a conversion.
LEMMA EntersIs ==
  ASSUME NEW s \in Printing, NEW t, t = [s EXCEPT !.in_format = TRUE]
  PROVE  /\ t \in Printing /\ t.at = s.at /\ t.taken = s.taken /\ t.out = s.out /\ t.pos = s.pos
         /\ t.in_format /\ t.long_flags = s.long_flags /\ t.failed = s.failed
BY DEF Printing

\* The state leaves a conversion.
LEMMA LeavesIs ==
  ASSUME NEW s \in Printing, NEW t, t = [s EXCEPT !.in_format = FALSE]
  PROVE  /\ t \in Printing /\ t.at = s.at /\ t.taken = s.taken /\ t.out = s.out /\ t.pos = s.pos
         /\ ~t.in_format /\ t.long_flags = s.long_flags /\ t.failed = s.failed
BY DEF Printing

\* The state with other flags.
LEMMA FlagsIs ==
  ASSUME NEW s \in Printing, NEW k \in Nat, NEW t, t = WithFlags(s, k)
  PROVE  /\ t \in Printing /\ t.at = s.at /\ t.taken = s.taken /\ t.out = s.out /\ t.pos = s.pos
         /\ t.in_format = s.in_format /\ t.long_flags = k /\ t.failed = s.failed
BY DEF WithFlags, Printing

\* The state with another text.
LEMMA OutIs ==
  ASSUME NEW s \in Printing, NEW w \in Seq(Characters), NEW t, t = [s EXCEPT !.out = w]
  PROVE  /\ t \in Printing /\ t.at = s.at /\ t.taken = s.taken /\ t.out = w /\ t.pos = s.pos
         /\ t.in_format = s.in_format /\ t.long_flags = s.long_flags /\ t.failed = s.failed
BY DEF Printing

\* The state with another count.
LEMMA PosIs ==
  ASSUME NEW s \in Printing, NEW k \in Nat, NEW t, t = [s EXCEPT !.pos = k]
  PROVE  /\ t \in Printing /\ t.at = s.at /\ t.taken = s.taken /\ t.out = s.out /\ t.pos = k
         /\ t.in_format = s.in_format /\ t.long_flags = s.long_flags /\ t.failed = s.failed
BY DEF Printing

\* The state after characters that are put and counted.
LEMMA PutsIs ==
  ASSUME NEW s \in Printing, NEW chars \in Seq(Characters), NEW t, t = Puts(s, chars)
  PROVE  /\ t \in Printing /\ t.at = s.at /\ t.taken = s.taken /\ t.out = s.out \o chars
         /\ t.pos = s.pos + Len(chars)
         /\ t.in_format = s.in_format /\ t.long_flags = s.long_flags /\ t.failed = s.failed
<1> DEFINE n == Len(chars)
           w == s.out \o chars
           u == [s EXCEPT !.out = w]
           k == u.pos + n
<1>1. n \in Nat
  OBVIOUS
<1>2. w \in Seq(Characters)
  <2>1. s.out \in Seq(Characters)
    BY DEF Printing
  <2>2. QED BY <2>1, JoinOf
<1>3. t = [u EXCEPT !.pos = k]
  BY DEF Puts
<1> HIDE DEF n, w, k
<1>4. /\ u \in Printing /\ u.at = s.at /\ u.taken = s.taken /\ u.out = w /\ u.pos = s.pos
      /\ u.in_format = s.in_format /\ u.long_flags = s.long_flags /\ u.failed = s.failed
  BY <1>2, OutIs
<1> HIDE DEF u
<1>5. u.pos \in Nat
  BY <1>4 DEF Printing
<1>6. k \in Nat
  BY <1>1, <1>5 DEF k
<1>7. /\ t \in Printing /\ t.at = u.at /\ t.taken = u.taken /\ t.out = u.out /\ t.pos = k
      /\ t.in_format = u.in_format /\ t.long_flags = u.long_flags /\ t.failed = u.failed
  BY <1>3, <1>4, <1>6, PosIs
<1>8. QED BY <1>4, <1>7 DEF n, w, k

\* The state after an argument that is taken.
LEMMA TakesIs ==
  ASSUME NEW s \in Printing, NEW t, t = Takes(s)
  PROVE  /\ t \in Printing /\ t.at = s.at /\ t.taken = s.taken + 1 /\ t.out = s.out /\ t.pos = s.pos
         /\ ~t.in_format /\ t.long_flags = s.long_flags /\ t.failed = s.failed
<1> DEFINE u == [s EXCEPT !.taken = @ + 1]
<1>1. /\ u \in Printing /\ u.at = s.at /\ u.taken = s.taken + 1 /\ u.out = s.out /\ u.pos = s.pos
      /\ u.in_format = s.in_format /\ u.long_flags = s.long_flags /\ u.failed = s.failed
  BY DEF Printing
<1>2. t = [u EXCEPT !.in_format = FALSE]
  BY DEF Takes
<1> HIDE DEF u
<1>3. QED BY <1>1, <1>2, LeavesIs

\* The number is put and the conversion is left.
Numbered(s, chars) == [Takes(Puts(s, chars)) EXCEPT !.long_flags = 0]

\* What putting a number makes of a state.
LEMMA NumberPuts ==
  ASSUME NEW s \in Printing, NEW chars \in Seq(Characters),
         NEW v, v = Numbered(s, chars)
  PROVE  /\ v \in Printing /\ v.at = s.at /\ v.taken = s.taken + 1 /\ v.out = s.out \o chars
         /\ v.pos = s.pos + Len(chars) /\ ~v.in_format /\ v.long_flags = 0 /\ v.failed = s.failed
<1> DEFINE t == Puts(s, chars)
           u == Takes(t)
<1>1. /\ t \in Printing /\ t.at = s.at /\ t.taken = s.taken /\ t.out = s.out \o chars
      /\ t.pos = s.pos + Len(chars)
      /\ t.in_format = s.in_format /\ t.long_flags = s.long_flags /\ t.failed = s.failed
  BY PutsIs
<1> HIDE DEF t
<1>2. /\ u \in Printing /\ u.at = t.at /\ u.taken = t.taken + 1 /\ u.out = t.out /\ u.pos = t.pos
      /\ ~u.in_format /\ u.long_flags = t.long_flags /\ u.failed = t.failed
  BY <1>1, TakesIs
<1>3. v = WithFlags(u, 0) /\ 0 \in Nat
  BY DEF t, Numbered, WithFlags
<1> HIDE DEF u
<1>4. /\ v \in Printing /\ v.at = u.at /\ v.taken = u.taken /\ v.out = u.out /\ v.pos = u.pos
      /\ v.in_format = u.in_format /\ v.long_flags = 0 /\ v.failed = u.failed
  BY <1>2, <1>3, FlagsIs
<1>5. QED BY <1>1, <1>2, <1>4

\* The text is replaced and the conversion is left.
Percent(s, w) == [[s EXCEPT !.out = w] EXCEPT !.in_format = FALSE]

\* What putting a "%" makes of a state.
LEMMA PercentPuts ==
  ASSUME NEW s \in Printing, NEW w \in Seq(Characters),
         NEW u, u = Percent(s, w)
  PROVE  /\ u \in Printing /\ u.at = s.at /\ u.taken = s.taken /\ u.out = w
         /\ u.pos = s.pos /\ ~u.in_format /\ u.long_flags = s.long_flags /\ u.failed = s.failed
<1> DEFINE t == [s EXCEPT !.out = w]
<1>1. /\ t \in Printing /\ t.at = s.at /\ t.taken = s.taken /\ t.out = w /\ t.pos = s.pos
      /\ t.in_format = s.in_format /\ t.long_flags = s.long_flags /\ t.failed = s.failed
  BY OutIs
<1>2. u = [t EXCEPT !.in_format = FALSE]
  BY DEF Percent
<1> HIDE DEF t
<1>3. /\ u \in Printing /\ u.at = t.at /\ u.taken = t.taken /\ u.out = t.out /\ u.pos = t.pos
      /\ ~u.in_format /\ u.long_flags = t.long_flags /\ u.failed = t.failed
  BY <1>1, <1>2, LeavesIs
<1>4. QED BY <1>1, <1>3

\* What a conversion does.
LEMMA ConvertIs ==
  ASSUME NEW s, NEW at, NEW taken, NEW out, NEW pos, NEW l, IsInside(s, at, taken, out, pos, l), NEW arg
  PROVE  /\ IsInside(Convert(s, "l", arg), at, taken, out, pos, l + 1)
         /\ l = 0 /\ arg \in Seq(Characters) =>
              IsPlain(Convert(s, "s", arg), at, taken + 1, out \o arg, pos + Len(arg))
         /\ l = 0 /\ arg \in Characters =>
              IsPlain(Convert(s, "c", arg), at, taken + 1, out \o <<arg>>, pos + 1)
         /\ l = 0 => IsPlain(Convert(s, "%", arg), at, taken, out \o <<"%">>, pos)
<1>1. /\ s \in Printing /\ s.at = at /\ s.taken = taken /\ s.out = out /\ s.pos = pos
      /\ s.in_format /\ s.long_flags = l /\ ~s.failed
  BY DEF IsInside
<1>8. s \in Printing
  BY DEF IsInside
<1>2. IsInside(Convert(s, "l", arg), at, taken, out, pos, l + 1)
  <2> DEFINE k == s.long_flags + 1
             t == WithFlags(s, k)
  <2>1. Convert(s, "l", arg) = t
    BY DEF Convert, WithFlags
  <2>2. s.long_flags + 1 \in Nat
    BY <1>1 DEF Printing
  <2>3. /\ t \in Printing /\ t.at = s.at /\ t.taken = s.taken /\ t.out = s.out /\ t.pos = s.pos
        /\ t.in_format = s.in_format /\ t.long_flags = s.long_flags + 1 /\ t.failed = s.failed
    BY <1>1, <2>2, FlagsIs
  <2> HIDE DEF t
  <2>4. QED BY <2>1, <2>3, <1>1 DEF IsInside
<1>3. ASSUME l = 0, NEW chars \in Seq(Characters)
      PROVE  IsPlain(Takes(Puts(s, chars)), at, taken + 1, out \o chars, pos + Len(chars))
  <2> DEFINE t == Puts(s, chars)
             u == Takes(t)
  <2>1. /\ t \in Printing /\ t.at = s.at /\ t.taken = s.taken /\ t.out = s.out \o chars
        /\ t.pos = s.pos + Len(chars)
        /\ t.in_format = s.in_format /\ t.long_flags = s.long_flags /\ t.failed = s.failed
    BY <1>1, PutsIs
  <2> HIDE DEF t
  <2>2. /\ u \in Printing /\ u.at = t.at /\ u.taken = t.taken + 1 /\ u.out = t.out /\ u.pos = t.pos
        /\ ~u.in_format /\ u.long_flags = t.long_flags /\ u.failed = t.failed
    BY <2>1, TakesIs
  <2> HIDE DEF u
  <2>3. IsPlain(u, at, taken + 1, out \o chars, pos + Len(chars))
    BY <2>1, <2>2, <1>1, <1>3 DEF IsPlain
  <2>4. QED BY <2>3 DEF u, t
<1>4. ASSUME l = 0, arg \in Seq(Characters)
      PROVE  IsPlain(Convert(s, "s", arg), at, taken + 1, out \o arg, pos + Len(arg))
  <2>1. Convert(s, "s", arg) = IF s.long_flags # 0 THEN Fails(s) ELSE Takes(Puts(s, arg))
    BY DEF Convert
  <2>2. Convert(s, "s", arg) = Takes(Puts(s, arg))
    BY <2>1, <1>1, <1>4
  <2>3. QED BY <2>2, <1>3, <1>4
<1>5. ASSUME l = 0, arg \in Characters
      PROVE  IsPlain(Convert(s, "c", arg), at, taken + 1, out \o <<arg>>, pos + 1)
  <2> DEFINE chars == <<arg>>
  <2>1. Convert(s, "c", arg) = IF s.long_flags # 0 THEN Fails(s) ELSE Takes(Puts(s, chars))
    BY DEF Convert
  <2>2. chars \in Seq(Characters) /\ Len(chars) = 1
    BY <1>5
  <2> HIDE DEF chars
  <2>3. Convert(s, "c", arg) = Takes(Puts(s, chars))
    BY <2>1, <1>1, <1>5
  <2>4. IsPlain(Convert(s, "c", arg), at, taken + 1, out \o chars, pos + Len(chars))
    BY <2>2, <2>3, <1>3, <1>5
  <2>5. QED BY <2>2, <2>4 DEF chars
<1>6. ASSUME l = 0 PROVE IsPlain(Convert(s, "%", arg), at, taken, out \o <<"%">>, pos)
  <2> DEFINE percent == "%"
             o == s.out
             w == Append(o, percent)
             t == [s EXCEPT !.out = w]
             u == [t EXCEPT !.in_format = FALSE]
  <2>1. Convert(s, "%", arg) = u
    BY DEF Convert
  <2>2. percent \in Characters
    BY KlibAssumption
  <2>3. o \in Seq(Characters) /\ o = out
    BY <1>1 DEF Printing
  <2> DEFINE u2 == Percent(s, w)
  <2>4. u = u2
    BY DEF Percent
  <2> HIDE DEF percent, o, t, u
  <2>5. w \in Seq(Characters) /\ w = o \o <<percent>>
    BY <2>2, <2>3
  <2>9. w \in Seq(Characters)
    BY <2>5
  <2> HIDE DEF w
  <2>6. /\ u2 \in Printing /\ u2.at = s.at /\ u2.taken = s.taken /\ u2.out = w
        /\ u2.pos = s.pos /\ ~u2.in_format /\ u2.long_flags = s.long_flags /\ u2.failed = s.failed
    BY <1>8, <2>9, PercentPuts
  <2> HIDE DEF u2
  <2>7. IsPlain(u2, at, taken, out \o <<percent>>, pos)
    BY <2>3, <2>5, <2>6, <1>1, <1>6 DEF IsPlain
  <2>8. QED BY <2>1, <2>4, <2>7 DEF percent
<1>7. QED BY <1>2, <1>4, <1>5, <1>6

\* A conversion of a number, after at most two times "l".
LEMMA ConvertNumber ==
  ASSUME NEW s, NEW at, NEW taken, NEW out, NEW pos, NEW l \in 0 .. 2, IsInside(s, at, taken, out, pos, l),
         NEW arg, NEW c \in {"d", "u"}, NEW shown \in Seq(Characters), shown = ShownAs(arg, c, l)
  PROVE  IsPlain(Convert(s, c, arg), at, taken + 1, out \o shown, pos + Len(shown))
<1>1. /\ s \in Printing /\ s.at = at /\ s.taken = taken /\ s.out = out /\ s.pos = pos
      /\ s.in_format /\ s.long_flags = l /\ ~s.failed
  BY DEF IsInside
<1>2. shown = IF c = "d" THEN decimal(arg, s.long_flags) ELSE unsigned(arg, s.long_flags)
  BY <1>1 DEF ShownAs
<1>3. Convert(s, c, arg) =
        LET sh == IF c = "d" THEN decimal(arg, s.long_flags) ELSE unsigned(arg, s.long_flags)
        IN  IF s.long_flags > 2 THEN Fails(s) ELSE [Takes(Puts(s, sh)) EXCEPT !.long_flags = 0]
  <2>1. c # "l" /\ c # "s" /\ c # "c" /\ c # "%"
    OBVIOUS
  <2>2. QED BY <2>1 DEF Convert
<1>4. ~(s.long_flags > 2)
  BY <1>1
<1>10. s \in Printing
  BY DEF IsInside
<1> DEFINE v == Numbered(s, shown)
<1>5. Convert(s, c, arg) = v
  BY <1>2, <1>3, <1>4 DEF Numbered
<1>8. /\ v \in Printing /\ v.at = s.at /\ v.taken = s.taken + 1 /\ v.out = s.out \o shown
      /\ v.pos = s.pos + Len(shown) /\ ~v.in_format /\ v.long_flags = 0 /\ v.failed = s.failed
  BY <1>10, NumberPuts
<1> HIDE DEF v
<1>9. QED BY <1>1, <1>5, <1>8 DEF IsPlain

\* A step of vprintf, by where it stands in the format.
LEMMA StepEnds ==
  ASSUME NEW s \in Printing, NEW fmt, NEW args, s.at > Len(fmt)
  PROVE  printStep(fmt, args)[s] = s
BY DEF printStep

\* The step converts with c, after what IsInside says.
Converts(next, at, taken, out, pos, l, c, arg) ==
  \E u : IsInside(u, at, taken, out, pos, l) /\ next = Convert(u, c, arg)

\* Inside of a conversion the next character goes on with it.
LEMMA StepInside ==
  ASSUME NEW fmt, NEW args, Len(fmt) \in Nat,
         NEW s, NEW at \in Nat, NEW taken, NEW out, NEW pos, NEW l,
         IsInside(s, at, taken, out, pos, l), at <= Len(fmt)
  PROVE  Converts(printStep(fmt, args)[s], at + 1, taken, out, pos, l, fmt[at], args[taken + 1])
<1>1. s \in Printing /\ s.at = at /\ s.taken = taken /\ s.in_format /\ ~s.failed
  BY DEF IsInside
<1>9. s \in Printing
  BY <1>1
<1> DEFINE u == Skips(s, 1)
           t == [u EXCEPT !.in_format = TRUE]
           n == Len(fmt)
<1>2. ~(s.at > n \/ s.failed)
  BY <1>1
<1>3. printStep(fmt, args)[s] = Convert(t, fmt[s.at], args[s.taken + 1])
  BY <1>1, <1>2 DEF printStep
<1>4. /\ u \in Printing /\ u.at = s.at + 1 /\ u.taken = s.taken /\ u.out = s.out /\ u.pos = s.pos
      /\ u.in_format = s.in_format /\ u.long_flags = s.long_flags /\ u.failed = s.failed
  BY <1>9, SkipsIs
<1> HIDE DEF u
<1>5. /\ t \in Printing /\ t.at = u.at /\ t.taken = u.taken /\ t.out = u.out /\ t.pos = u.pos
      /\ t.in_format /\ t.long_flags = u.long_flags /\ t.failed = u.failed
  BY <1>4, EntersIs
<1> HIDE DEF t
<1>6. IsInside(t, at + 1, taken, out, pos, l)
  BY <1>4, <1>5 DEF IsInside
<1>7. QED BY <1>1, <1>3, <1>6 DEF Converts

\* After "%" and a character the state is inside of a conversion.
LEMMA Starts ==
  ASSUME NEW s, NEW at \in Nat, NEW taken, NEW out, NEW pos, IsPlain(s, at, taken, out, pos)
  PROVE  IsInside([Skips(s, 2) EXCEPT !.in_format = TRUE], at + 2, taken, out, pos, 0)
<1>1. s \in Printing
  BY DEF IsPlain
<1> DEFINE u == Skips(s, 2)
           t == [u EXCEPT !.in_format = TRUE]
<1>2. /\ u \in Printing /\ u.at = s.at + 2 /\ u.taken = s.taken /\ u.out = s.out /\ u.pos = s.pos
      /\ u.in_format = s.in_format /\ u.long_flags = s.long_flags /\ u.failed = s.failed
  BY <1>1, SkipsIs
<1> HIDE DEF u
<1>3. /\ t \in Printing /\ t.at = u.at /\ t.taken = u.taken /\ t.out = u.out /\ t.pos = u.pos
      /\ t.in_format /\ t.long_flags = u.long_flags /\ t.failed = u.failed
  BY <1>2, EntersIs
<1> HIDE DEF t
<1>4. IsInside(t, at + 2, taken, out, pos, 0)
  BY <1>2, <1>3 DEF IsInside, IsPlain
<1>5. QED BY <1>4 DEF t, u

\* A "%" outside of a conversion starts one.
LEMMA StepStarts ==
  ASSUME NEW fmt, NEW args, Len(fmt) \in Nat,
         NEW s, NEW at \in Nat, NEW taken, NEW out, NEW pos,
         IsPlain(s, at, taken, out, pos), at <= Len(fmt), fmt[at] = "%"
  PROVE  Converts(printStep(fmt, args)[s], at + 2, taken, out, pos, 0, fmt[at + 1], args[taken + 1])
<1>1. s \in Printing /\ s.at = at /\ s.taken = taken /\ ~s.in_format /\ ~s.failed
  BY DEF IsPlain
<1> DEFINE t == [Skips(s, 2) EXCEPT !.in_format = TRUE]
           n == Len(fmt)
<1>2. ~(s.at > n \/ s.failed)
  BY <1>1
<1>3. printStep(fmt, args)[s] = Convert(t, fmt[s.at + 1], args[s.taken + 1])
  BY <1>1, <1>2 DEF printStep
<1>4. IsInside(t, at + 2, taken, out, pos, 0)
  BY Starts
<1> HIDE DEF t
<1>5. QED BY <1>1, <1>3, <1>4 DEF Converts

\* Another character is put.
LEMMA StepPuts ==
  ASSUME NEW fmt, NEW args, Len(fmt) \in Nat,
         NEW s, NEW at \in Nat, NEW taken, NEW out, NEW pos,
         IsPlain(s, at, taken, out, pos), at <= Len(fmt), fmt[at] # "%", fmt[at] \in Characters
  PROVE  IsPlain(printStep(fmt, args)[s], at + 1, taken, out \o <<fmt[at]>>, pos + 1)
<1>1. s \in Printing /\ s.at = at /\ s.taken = taken /\ ~s.in_format /\ ~s.failed
  BY DEF IsPlain
<1>9. s \in Printing
  BY <1>1
<1> DEFINE u == Skips(s, 1)
           chars == <<fmt[at]>>
           t == Puts(u, chars)
           n == Len(fmt)
<1>2. ~(s.at > n \/ s.failed)
  BY <1>1
<1>3. printStep(fmt, args)[s] = t
  BY <1>1, <1>2 DEF printStep
<1>4. /\ u \in Printing /\ u.at = s.at + 1 /\ u.taken = s.taken /\ u.out = s.out /\ u.pos = s.pos
      /\ u.in_format = s.in_format /\ u.long_flags = s.long_flags /\ u.failed = s.failed
  BY <1>9, SkipsIs
<1>5. chars \in Seq(Characters) /\ Len(chars) = 1
  OBVIOUS
<1> HIDE DEF u, chars
<1>6. /\ t \in Printing /\ t.at = u.at /\ t.taken = u.taken /\ t.out = u.out \o chars
      /\ t.pos = u.pos + Len(chars)
      /\ t.in_format = u.in_format /\ t.long_flags = u.long_flags /\ t.failed = u.failed
  BY <1>4, <1>5, PutsIs
<1> HIDE DEF t
<1>7. IsPlain(t, at + 1, taken, out \o chars, pos + 1)
  BY <1>4, <1>5, <1>6 DEF IsPlain
<1>8. QED BY <1>3, <1>7 DEF chars

----------------------------------------------------------------------------
(* A step of vprintf inside of an item of the format.                      *)

\* The item stands in the format after the first a characters, and its argument
\* is the one after the first t.
Stands(item, fmt, args, a, t) ==
  /\ fmt \in Seq(Characters) /\ a \in Nat /\ t \in Nat
  /\ item.fmt \in Seq(Characters) /\ a + Len(item.fmt) <= Len(fmt)
  /\ \A i \in 1 .. Len(item.fmt) : fmt[a + i] = item.fmt[i]
  /\ item.arg # <<>> => args[t + 1] = item.arg[1]

\* A character of a text.
LEMMA TextStep ==
  ASSUME NEW item, NEW fmt, NEW args, NEW a, NEW t, Stands(item, fmt, args, a, t),
         \A i \in 1 .. Len(item.fmt) : item.fmt[i] # "%",
         NEW k \in Nat, k < Len(item.fmt), NEW o \in Seq(Characters), NEW p \in Nat, NEW s,
         IsPlain(s, a + k + 1, t, o \o SubSeq(item.fmt, 1, k), p + k)
  PROVE  IsPlain(printStep(fmt, args)[s], a + (k + 1) + 1, t, o \o SubSeq(item.fmt, 1, k + 1), p + (k + 1))
<1> DEFINE f == item.fmt
           at == a + k + 1
           out == o \o SubSeq(f, 1, k)
           pos == p + k
           n == Len(fmt)
<1>1. /\ fmt \in Seq(Characters) /\ a \in Nat /\ f \in Seq(Characters) /\ a + Len(f) <= n
      /\ \A i \in 1 .. Len(f) : fmt[a + i] = f[i]
  BY DEF Stands
<1>2. n \in Nat
  BY <1>1
<1>3. IsPlain(s, at, t, out, pos) /\ k < Len(f) /\ \A i \in 1 .. Len(f) : f[i] # "%"
  OBVIOUS
<1> HIDE DEF f
<1>4. at \in Nat /\ at <= n /\ a + (k + 1) = at /\ at + 1 = a + (k + 1) + 1 /\ pos + 1 = p + (k + 1)
      /\ k + 1 \in 1 .. Len(f)
  BY <1>1, <1>2, <1>3
<1>5. fmt[at] = f[k + 1] /\ f[k + 1] # "%" /\ f[k + 1] \in Characters
  <2>1. fmt[a + (k + 1)] = f[k + 1] /\ f[k + 1] # "%"
    BY <1>1, <1>3, <1>4
  <2>2. f[k + 1] \in Characters
    BY <1>1, <1>4
  <2>3. QED BY <2>1, <2>2, <1>4
<1>6. out \o <<f[k + 1]>> = o \o SubSeq(f, 1, k + 1)
  <2>1. SubSeq(f, 1, k + 1) = SubSeq(f, 1, k) \o <<f[k + 1]>>
    BY <1>1, <1>4
  <2> DEFINE b == SubSeq(f, 1, k)
             c == <<f[k + 1]>>
  <2>2. b \in Seq(Characters) /\ c \in Seq(Characters)
    BY <1>1, <1>4, <1>5
  <2> HIDE DEF b, c
  <2>3. (o \o b) \o c = o \o (b \o c)
    BY <2>2
  <2>4. QED BY <2>1, <2>3 DEF b, c
<1> HIDE DEF at, out, pos, n
<1> DEFINE next == printStep(fmt, args)[s]
<1>7. IsPlain(next, at + 1, t, out \o <<fmt[at]>>, pos + 1)
  BY <1>2, <1>3, <1>4, <1>5, StepPuts DEF n
<1> HIDE DEF next
<1>8. IsPlain(next, a + (k + 1) + 1, t, o \o SubSeq(f, 1, k + 1), p + (k + 1))
  BY <1>4, <1>5, <1>6, <1>7
<1>9. QED BY <1>8 DEF next, f

\* The beginning of a conversion.
LEMMA FirstStep ==
  ASSUME NEW item, NEW fmt, NEW args, NEW a, NEW t, Stands(item, fmt, args, a, t),
         Len(item.fmt) >= 2, item.fmt[1] = "%", NEW o, NEW p, NEW s, IsPlain(s, a + 1, t, o, p)
  PROVE  Converts(printStep(fmt, args)[s], a + 3, t, o, p, 0, item.fmt[2], args[t + 1])
<1> DEFINE f == item.fmt
           at == a + 1
           n == Len(fmt)
<1>1. /\ fmt \in Seq(Characters) /\ a \in Nat /\ f \in Seq(Characters) /\ a + Len(f) <= n
      /\ \A i \in 1 .. Len(f) : fmt[a + i] = f[i]
  BY DEF Stands
<1>2. Len(f) \in Nat /\ n \in Nat
  BY <1>1
<1>3. IsPlain(s, at, t, o, p) /\ Len(f) >= 2 /\ f[1] = "%"
  OBVIOUS
<1> HIDE DEF f
<1>4. 1 \in 1 .. Len(f) /\ 2 \in 1 .. Len(f)
  BY <1>2, <1>3
<1>5. at \in Nat /\ at <= n /\ at + 2 = a + 3 /\ at + 1 = a + 2
  BY <1>1, <1>2, <1>3
<1>6. fmt[at] = "%" /\ fmt[at + 1] = f[2]
  BY <1>1, <1>3, <1>4, <1>5
<1> HIDE DEF at, n
<1> DEFINE next == printStep(fmt, args)[s]
<1>7. Converts(next, at + 2, t, o, p, 0, fmt[at + 1], args[t + 1])
  <2>1. Len(fmt) \in Nat /\ at <= Len(fmt) /\ at \in Nat /\ fmt[at] = "%" /\ IsPlain(s, at, t, o, p)
    BY <1>2, <1>3, <1>5, <1>6 DEF n
  <2>2. QED BY <2>1, StepStarts
<1> HIDE DEF next
<1>8. Converts(next, a + 3, t, o, p, 0, f[2], args[t + 1])
  BY <1>5, <1>6, <1>7
<1>9. QED BY <1>8 DEF next, f

\* Where a conversion without "l" leaves the loop.
LEMMA ConvertsShort ==
  ASSUME NEW next, NEW at, NEW t, NEW o, NEW p, NEW c, NEW arg, Converts(next, at, t, o, p, 0, c, arg)
  PROVE  /\ c = "%" => IsPlain(next, at, t, o \o <<"%">>, p)
         /\ c = "c" /\ arg \in Characters => IsPlain(next, at, t + 1, o \o <<arg>>, p + 1)
         /\ c = "s" /\ arg \in Seq(Characters) => IsPlain(next, at, t + 1, o \o arg, p + Len(arg))
<1>1. PICK u : IsInside(u, at, t, o, p, 0) /\ next = Convert(u, c, arg)
  BY DEF Converts
<1>2. c = "%" => IsPlain(next, at, t, o \o <<"%">>, p)
  BY <1>1, ConvertIs
<1>3. c = "c" /\ arg \in Characters => IsPlain(next, at, t + 1, o \o <<arg>>, p + 1)
  BY <1>1, ConvertIs
<1>4. c = "s" /\ arg \in Seq(Characters) => IsPlain(next, at, t + 1, o \o arg, p + Len(arg))
  BY <1>1, ConvertIs
<1>5. QED BY <1>2, <1>3, <1>4

\* "l" stays in the conversion.
LEMMA ConvertsLong ==
  ASSUME NEW next, NEW at, NEW t, NEW o, NEW p, NEW l, NEW arg, Converts(next, at, t, o, p, l, "l", arg)
  PROVE  IsInside(next, at, t, o, p, l + 1)
<1>1. PICK u : IsInside(u, at, t, o, p, l) /\ next = Convert(u, "l", arg)
  BY DEF Converts
<1>2. QED BY <1>1, ConvertIs

\* "d" and "u" put the number in decimal.
LEMMA ConvertsNumber ==
  ASSUME NEW next, NEW at, NEW t, NEW o, NEW p, NEW l \in 0 .. 2, NEW c \in {"d", "u"}, NEW arg,
         Converts(next, at, t, o, p, l, c, arg), IsNumber(arg, c, l)
  PROVE  IsPlain(next, at, t + 1, o \o ShownNumber(arg), p + Len(ShownNumber(arg)))
<1>1. PICK u : IsInside(u, at, t, o, p, l) /\ next = Convert(u, c, arg)
  BY DEF Converts
<1> DEFINE shown == ShownNumber(arg)
<1>2. shown \in Seq(Characters) /\ shown = ShownAs(arg, c, l)
  BY ShownIs
<1> HIDE DEF shown
<1>3. IsPlain(Convert(u, c, arg), at, t + 1, o \o shown, p + Len(shown))
  BY <1>1, <1>2, ConvertNumber
<1>4. QED BY <1>1, <1>3 DEF shown

\* The format of a number.
IsNumberFormat(f, l, c) ==
  /\ f \in Seq({"%", "l", "d", "u"}) /\ Len(f) = l + 2
  /\ f[1] = "%" /\ f[l + 2] = c /\ \A i \in 2 .. l + 1 : f[i] = "l"

\* The format of a number with l times "l" is one.
LEMMA NumberFormat ==
  ASSUME NEW l \in 0 .. 2, NEW c \in {"d", "u"}
  PROVE  IsNumberFormat(<<"%">> \o [i \in 1 .. l |-> "l"] \o <<c>>, l, c)
<1> DEFINE T == {"%", "l", "d", "u"}
           ls == [i \in 1 .. l |-> "l"]
           x == <<"%">>
           y == <<c>>
<1>1. ls \in Seq(T) /\ Len(ls) = l /\ \A i \in 1 .. l : ls[i] = "l"
  OBVIOUS
<1>2. x \in Seq(T) /\ y \in Seq(T) /\ Len(x) = 1 /\ Len(y) = 1 /\ x[1] = "%" /\ y[1] = c
  OBVIOUS
<1> HIDE DEF ls, x, y, T
<1>3. /\ x \o ls \in Seq(T) /\ Len(x \o ls) = 1 + l
      /\ (x \o ls)[1] = "%" /\ \A i \in 1 .. l : (x \o ls)[1 + i] = "l"
  BY <1>1, <1>2, JoinOf
<1> DEFINE z == x \o ls
<1> HIDE DEF z
<1>4. z \in Seq(T) /\ Len(z) = 1 + l /\ z[1] = "%" /\ \A i \in 1 .. l : z[1 + i] = "l"
  BY <1>3 DEF z
<1>5. /\ z \o y \in Seq(T) /\ Len(z \o y) = l + 2
      /\ \A i \in 1 .. 1 + l : (z \o y)[i] = z[i]
      /\ (z \o y)[(1 + l) + 1] = c
  BY <1>2, <1>4, JoinOf
<1>6. (z \o y)[1] = "%" /\ (z \o y)[l + 2] = c
  BY <1>4, <1>5
<1>7. ASSUME NEW i \in 2 .. l + 1 PROVE (z \o y)[i] = "l"
  <2>1. i - 1 \in 1 .. l /\ 1 + (i - 1) = i /\ i \in 1 .. 1 + l
    OBVIOUS
  <2>2. z[1 + (i - 1)] = "l"
    BY <1>4, <2>1
  <2>3. QED BY <1>5, <2>1, <2>2
<1>8. IsNumberFormat(z \o y, l, c)
  BY <1>5, <1>6, <1>7 DEF IsNumberFormat, T
<1>9. QED BY <1>8 DEF z, x, y, ls

\* What vprintf has done when it has read k characters of an item, before which
\* it had read a characters, taken t arguments, put o and counted p.
Counted(item) == IF item.kind = "percent" THEN 0 ELSE Len(Shown(item))
AfterItem(item, s, a, t, o, p) ==
  IsPlain(s, a + Len(item.fmt) + 1, t + Len(item.arg), o \o Shown(item), p + Counted(item))
InText(item, k, s, a, t, o, p) ==
  /\ item.kind = "text"
  /\ IsPlain(s, a + k + 1, t, o \o SubSeq(item.fmt, 1, k), p + k)
InNumber(item, k, s, a, t, o, p) ==
  item.kind = "number" /\ k >= 2 /\ IsInside(s, a + k + 1, t, o, p, k - 1)
OnItem(item, k, s, a, t, o, p) ==
  \/ k = 0 /\ IsPlain(s, a + 1, t, o, p)
  \/ k = Len(item.fmt) /\ AfterItem(item, s, a, t, o, p)
  \/ k < Len(item.fmt) /\ InText(item, k, s, a, t, o, p)
  \/ k < Len(item.fmt) /\ InNumber(item, k, s, a, t, o, p)
Moves(item, k, s, a, t, o, p) ==
  \E m \in Nat : k < m /\ m <= Len(item.fmt) /\ OnItem(item, m, s, a, t, o, p)

\* A text.
LEMMA TextMoves ==
  ASSUME NEW item, NEW fmt, NEW args, NEW a, NEW t, Stands(item, fmt, args, a, t), IsItem(item),
         NEW k \in Nat, k < Len(item.fmt), NEW o \in Seq(Characters), NEW p \in Nat, NEW s,
         InText(item, k, s, a, t, o, p)
  PROVE  Moves(item, k, printStep(fmt, args)[s], a, t, o, p)
<1> DEFINE next == printStep(fmt, args)[s]
           f == item.fmt
<1>1. item.kind = "text" /\ f \in Seq(Characters) /\ item.arg = <<>> /\ \A i \in DOMAIN f : f[i] # "%"
  BY DEF InText, IsItem
<1>2. DOMAIN f = 1 .. Len(f) /\ Len(f) \in Nat
  BY <1>1
<1>3. IsPlain(next, a + (k + 1) + 1, t, o \o SubSeq(f, 1, k + 1), p + (k + 1))
  <2>1. \A i \in 1 .. Len(item.fmt) : item.fmt[i] # "%"
    BY <1>1, <1>2
  <2>2. IsPlain(s, a + k + 1, t, o \o SubSeq(item.fmt, 1, k), p + k)
    BY DEF InText
  <2>3. QED BY <2>1, <2>2, TextStep
<1> HIDE DEF next
<1>4. a \in Nat /\ t \in Nat
  BY DEF Stands
<1>5. CASE k + 1 < Len(f)
  <2>1. InText(item, k + 1, next, a, t, o, p)
    BY <1>1, <1>3 DEF InText
  <2>2. k + 1 \in Nat /\ k < k + 1 /\ k + 1 <= Len(item.fmt) /\ k + 1 < Len(item.fmt)
    BY <1>5, <1>2
  <2>3. OnItem(item, k + 1, next, a, t, o, p)
    BY <2>1, <2>2 DEF OnItem
  <2>4. QED BY <2>2, <2>3 DEF Moves, next
<1>6. CASE k + 1 = Len(f)
  <2>1. Shown(item) = f
    BY <1>1 DEF Shown
  <2>2. SubSeq(f, 1, Len(f)) = f
    BY <1>1
  <2>3. Counted(item) = Len(f)
    BY <1>1, <2>1 DEF Counted
  <2>4. Len(item.arg) = 0 /\ t + 0 = t
    BY <1>1, <1>4
  <2>5. AfterItem(item, next, a, t, o, p)
    BY <1>3, <1>6, <2>1, <2>2, <2>3, <2>4 DEF AfterItem
  <2>6. OnItem(item, k + 1, next, a, t, o, p)
    BY <2>5, <1>6 DEF OnItem
  <2>7. k + 1 \in Nat /\ k < k + 1 /\ k + 1 <= Len(item.fmt)
    BY <1>6, <1>2
  <2>8. QED BY <2>6, <2>7 DEF Moves, next
<1>7. k + 1 < Len(f) \/ k + 1 = Len(f)
  BY <1>2
<1>8. QED BY <1>5, <1>6, <1>7

\* A conversion without "l".
LEMMA ShortMoves ==
  ASSUME NEW item, NEW fmt, NEW args, NEW a, NEW t, Stands(item, fmt, args, a, t), IsItem(item),
         item.kind \in {"percent", "char", "string"},
         NEW o \in Seq(Characters), NEW p \in Nat, NEW s, IsPlain(s, a + 1, t, o, p)
  PROVE  Moves(item, 0, printStep(fmt, args)[s], a, t, o, p)
<1> DEFINE next == printStep(fmt, args)[s]
           f == item.fmt
           arg == args[t + 1]
<1>1. a \in Nat /\ t \in Nat /\ (item.arg # <<>> => arg = item.arg[1])
  BY DEF Stands
<1>2. Len(f) = 2 /\ f[1] = "%"
  BY DEF IsItem
<1>3. Converts(next, a + 3, t, o, p, 0, f[2], arg)
  BY <1>2, FirstStep
<1> HIDE DEF next
<1> DEFINE at == a + 3
<1>4. at = a + Len(f) + 1
  BY <1>1, <1>2
<1> HIDE DEF at
<1>5. AfterItem(item, next, a, t, o, p)
  <2>1. CASE item.kind = "percent"
    <3>1. f[2] = "%" /\ item.arg = <<>>
      BY <2>1 DEF IsItem
    <3>2. IsPlain(next, at, t, o \o <<"%">>, p)
      BY <3>1, <1>3, ConvertsShort DEF at
    <3>3. Shown(item) = <<"%">> /\ Counted(item) = 0
      BY <2>1 DEF Shown, Counted
    <3>4. Len(item.arg) = 0 /\ t + 0 = t /\ p + 0 = p
      BY <3>1, <1>1
    <3>5. QED BY <3>2, <3>3, <3>4, <1>4 DEF AfterItem
  <2>2. CASE item.kind = "char"
    <3> DEFINE x == item.arg[1]
    <3>1. f[2] = "c" /\ item.arg = <<x>> /\ x \in Characters
      BY <2>2 DEF IsItem
    <3>2. arg = x
      BY <3>1, <1>1
    <3>3. IsPlain(next, at, t + 1, o \o <<x>>, p + 1)
      BY <3>1, <3>2, <1>3, ConvertsShort DEF at
    <3> HIDE DEF x
    <3>4. Shown(item) = <<x>> /\ Counted(item) = Len(Shown(item)) /\ Len(<<x>>) = 1
      BY <2>2, <3>1 DEF Shown, Counted
    <3>5. Counted(item) = 1 /\ Len(item.arg) = 1
      BY <3>1, <3>4
    <3>6. QED BY <3>3, <3>4, <3>5, <1>4 DEF AfterItem
  <2>3. CASE item.kind = "string"
    <3> DEFINE x == item.arg[1]
    <3>1. f[2] = "s" /\ item.arg = <<x>> /\ x \in Seq(Characters)
      BY <2>3 DEF IsItem
    <3>2. arg = x
      BY <3>1, <1>1
    <3>3. IsPlain(next, at, t + 1, o \o x, p + Len(x))
      BY <3>1, <3>2, <1>3, ConvertsShort DEF at
    <3>4. Shown(item) = x /\ Counted(item) = Len(Shown(item))
      BY <2>3 DEF Shown, Counted
    <3> HIDE DEF x
    <3>5. Counted(item) = Len(x) /\ Len(item.arg) = 1
      BY <3>1, <3>4
    <3>6. QED BY <3>3, <3>4, <3>5, <1>4 DEF AfterItem
  <2>4. QED BY <2>1, <2>2, <2>3
<1>6. OnItem(item, 2, next, a, t, o, p)
  BY <1>2, <1>5 DEF OnItem
<1>7. 2 \in Nat /\ 0 < 2 /\ 2 <= Len(item.fmt)
  BY <1>2
<1>8. QED BY <1>6, <1>7 DEF Moves, next

\* A number: its format and its argument.
IsNumberItem(item, l, c) ==
  IsNumberFormat(item.fmt, l, c) /\ IsNumber(item.arg[1], c, l) /\ item.arg = <<item.arg[1]>>

\* An item that is a number has such a format.
LEMMA NumberItem ==
  ASSUME NEW item, IsItem(item), item.kind = "number"
  PROVE  \E l \in 0 .. 2, c \in {"d", "u"} : IsNumberItem(item, l, c)
<1>1. PICK l \in 0 .. 2, c \in {"d", "u"} :
        /\ item.fmt = <<"%">> \o [i \in 1 .. l |-> "l"] \o <<c>>
        /\ IsNumber(item.arg[1], c, l) /\ item.arg = <<item.arg[1]>>
  BY DEF IsItem
<1>2. IsNumberFormat(item.fmt, l, c)
  BY <1>1, NumberFormat
<1>3. QED BY <1>1, <1>2 DEF IsNumberItem

\* The character c ends the number, "l" does not.
LEMMA NumberEnds ==
  ASSUME NEW item, NEW a \in Nat, NEW t \in Nat, NEW o, NEW p, item.kind = "number",
         NEW l \in 0 .. 2, NEW c \in {"d", "u"}, IsNumberItem(item, l, c),
         NEW next, Converts(next, a + l + 3, t, o, p, l, c, item.arg[1])
  PROVE  OnItem(item, l + 2, next, a, t, o, p)
<1> DEFINE at == a + l + 3
           arg == item.arg[1]
           n == Len(item.fmt)
<1>1. n = l + 2 /\ IsNumber(arg, c, l) /\ item.arg = <<arg>>
  BY DEF IsNumberItem, IsNumberFormat
<1>2. at = a + n + 1 /\ Len(item.arg) = 1
  <2>1. at = a + n + 1
    BY <1>1
  <2> HIDE DEF arg
  <2>2. Len(item.arg) = 1
    BY <1>1
  <2>3. QED BY <2>1, <2>2
<1>3. Shown(item) = ShownNumber(arg) /\ Counted(item) = Len(Shown(item))
  BY DEF Shown, Counted
<1> HIDE DEF at, arg, n
<1>4. IsPlain(next, at, t + 1, o \o ShownNumber(arg), p + Len(ShownNumber(arg)))
  BY <1>1, ConvertsNumber DEF at, arg
<1>5. AfterItem(item, next, a, t, o, p)
  BY <1>2, <1>3, <1>4 DEF AfterItem, n
<1>6. QED BY <1>1, <1>5 DEF OnItem, n

\* After "l" the format goes on inside of the number.
LEMMA NumberGoesOn ==
  ASSUME NEW item, NEW a \in Nat, NEW t \in Nat, NEW o, NEW p, item.kind = "number",
         NEW l \in 0 .. 2, NEW c \in {"d", "u"}, IsNumberItem(item, l, c),
         NEW j \in Nat, j < l, NEW next, NEW arg, Converts(next, a + j + 3, t, o, p, j, "l", arg)
  PROVE  OnItem(item, j + 2, next, a, t, o, p)
<1> DEFINE k == j + 2
<1>1. Len(item.fmt) = l + 2
  BY DEF IsNumberItem, IsNumberFormat
<1>2. k >= 2 /\ k < Len(item.fmt) /\ a + j + 3 = a + k + 1 /\ j + 1 = k - 1
  BY <1>1
<1>3. IsInside(next, a + j + 3, t, o, p, j + 1)
  BY ConvertsLong
<1> HIDE DEF k
<1>4. InNumber(item, k, next, a, t, o, p)
  BY <1>2, <1>3 DEF InNumber
<1>5. OnItem(item, k, next, a, t, o, p)
  BY <1>2, <1>4 DEF OnItem
<1>6. QED BY <1>5 DEF k

\* A step in the format of a number.
LEMMA NumberMoves ==
  ASSUME NEW item, NEW fmt, NEW args, NEW a, NEW t, Stands(item, fmt, args, a, t), IsItem(item),
         item.kind = "number", NEW o \in Seq(Characters), NEW p \in Nat, NEW s, NEW k \in Nat,
         k < Len(item.fmt), (k = 0 /\ IsPlain(s, a + 1, t, o, p)) \/ InNumber(item, k, s, a, t, o, p)
  PROVE  Moves(item, k, printStep(fmt, args)[s], a, t, o, p)
<1> DEFINE next == printStep(fmt, args)[s]
           f == item.fmt
           arg == args[t + 1]
           j == IF k = 0 THEN 0 ELSE k - 1
           m == j + 2
<1>1. PICK l \in 0 .. 2, c \in {"d", "u"} : IsNumberItem(item, l, c)
  BY NumberItem
<1>2. /\ a \in Nat /\ t \in Nat /\ fmt \in Seq(Characters) /\ f \in Seq(Characters)
      /\ a + Len(f) <= Len(fmt) /\ (\A i \in 1 .. Len(f) : fmt[a + i] = f[i])
      /\ (item.arg # <<>> => arg = item.arg[1])
  BY DEF Stands
<1>3. Len(f) = l + 2 /\ f[1] = "%" /\ f[l + 2] = c /\ (\A i \in 2 .. l + 1 : f[i] = "l")
  BY <1>1 DEF IsNumberItem, IsNumberFormat
<1>4. arg = item.arg[1]
  <2>1. item.arg = <<item.arg[1]>>
    BY <1>1 DEF IsNumberItem
  <2>2. QED BY <1>2, <2>1
<1>5. j \in 0 .. l /\ j \in Nat /\ m \in Nat /\ k < m /\ m <= Len(f)
  <2>1. k = 0 \/ k >= 2
    BY DEF InNumber
  <2>2. QED BY <2>1, <1>3
<1>6. Converts(next, a + j + 3, t, o, p, j, f[m], arg)
  <2>1. CASE k = 0
    <3>1. IsPlain(s, a + 1, t, o, p)
      BY <2>1 DEF InNumber
    <3>2. Converts(next, a + 3, t, o, p, 0, f[2], arg)
      BY <3>1, <1>3, FirstStep
    <3>3. j = 0 /\ m = 2 /\ a + j + 3 = a + 3
      BY <2>1, <1>2
    <3>4. QED BY <3>2, <3>3
  <2>2. CASE k # 0
    <3>1. IsInside(s, a + k + 1, t, o, p, k - 1)
      BY <2>2 DEF InNumber
    <3> DEFINE at == a + k + 1
               n == Len(fmt)
    <3>2. n \in Nat /\ Len(f) \in Nat
      BY <1>2
    <3>3. j = k - 1 /\ m = k + 1 /\ at + 1 = a + j + 3 /\ at = a + m /\ at \in Nat
      BY <2>2, <1>2
    <3>4. at <= n
      BY <3>2, <3>3, <1>2, <1>5
    <3>5. m \in 1 .. Len(f)
      BY <1>5, <3>2
    <3>6. fmt[at] = f[m]
      BY <3>3, <3>5, <1>2
    <3> HIDE DEF j, m
    <3>7. IsInside(s, at, t, o, p, j)
      BY <3>1, <3>3
    <3> HIDE DEF at, next, f
    <3>8. Converts(next, at + 1, t, o, p, j, fmt[at], arg)
      BY <3>2, <3>3, <3>4, <3>7, StepInside DEF n, next
    <3>9. QED BY <3>3, <3>6, <3>8
  <2>3. QED BY <2>1, <2>2
<1> HIDE DEF next
<1>7. OnItem(item, m, next, a, t, o, p)
  <2>1. CASE j = l
    <3>1. f[m] = c
      BY <2>1, <1>3
    <3> HIDE DEF j
    <3>2. Converts(next, a + l + 3, t, o, p, l, c, item.arg[1])
      BY <3>1, <1>4, <1>6, <2>1
    <3>3. OnItem(item, l + 2, next, a, t, o, p)
      BY <3>2, <1>1, <1>2, NumberEnds
    <3>4. QED BY <3>3, <2>1
  <2>2. CASE j # l
    <3>1. m \in 2 .. l + 1 /\ j < l
      BY <2>2, <1>5
    <3>2. f[m] = "l"
      BY <3>1, <1>3
    <3> HIDE DEF j
    <3>3. Converts(next, a + j + 3, t, o, p, j, "l", arg)
      BY <3>2, <1>6
    <3>4. QED BY <3>1, <3>3, <1>1, <1>2, <1>5, NumberGoesOn
  <2>3. QED BY <2>1, <2>2
<1> HIDE DEF j
<1>8. QED BY <1>5, <1>7 DEF Moves, next

\* Every step moves in the item.
LEMMA ItemMoves ==
  ASSUME NEW item, NEW fmt, NEW args, NEW a, NEW t, Stands(item, fmt, args, a, t), IsItem(item),
         NEW k \in Nat, k < Len(item.fmt), NEW o \in Seq(Characters), NEW p \in Nat, NEW s,
         OnItem(item, k, s, a, t, o, p)
  PROVE  Moves(item, k, printStep(fmt, args)[s], a, t, o, p)
<1>1. CASE k = 0 /\ IsPlain(s, a + 1, t, o, p)
  <2>1. CASE item.kind = "text"
    <3>1. InText(item, k, s, a, t, o, p)
      <4> DEFINE f == item.fmt
      <4>1. a \in Nat /\ f \in Seq(Characters)
        BY DEF Stands
      <4> HIDE DEF f
      <4>2. o \o SubSeq(f, 1, 0) = o
        <5>1. SubSeq(f, 1, 0) = <<>>
          BY <4>1
        <5>2. o \o <<>> = o
          OBVIOUS
        <5>3. QED BY <5>1, <5>2
      <4>3. a + k + 1 = a + 1 /\ p + k = p
        BY <1>1, <4>1
      <4>4. IsPlain(s, a + k + 1, t, o \o SubSeq(f, 1, k), p + k)
        BY <1>1, <4>2, <4>3
      <4>5. QED BY <4>4, <2>1 DEF InText, f
    <3>2. QED BY <3>1, TextMoves
  <2>2. CASE item.kind \in {"percent", "char", "string"}
    BY <1>1, <2>2, ShortMoves
  <2>3. CASE item.kind = "number"
    BY <1>1, <2>3, NumberMoves
  <2>4. QED BY <2>1, <2>2, <2>3 DEF IsItem
<1>2. CASE InText(item, k, s, a, t, o, p)
  BY <1>2, TextMoves
<1>3. CASE InNumber(item, k, s, a, t, o, p)
  BY <1>3, NumberMoves DEF InNumber
<1>4. k # Len(item.fmt)
  OBVIOUS
<1>5. QED BY <1>1, <1>2, <1>3, <1>4 DEF OnItem

\* Where vprintf stands.
LEMMA OnItemAt ==
  ASSUME NEW item, NEW a \in Nat, NEW k \in Nat, NEW t, NEW o, NEW p, NEW s, OnItem(item, k, s, a, t, o, p)
  PROVE  s \in Printing /\ s.at = a + k + 1
<1>1. CASE k = 0 /\ IsPlain(s, a + 1, t, o, p)
  BY <1>1 DEF IsPlain
<1>2. CASE k = Len(item.fmt) /\ AfterItem(item, s, a, t, o, p)
  BY <1>2 DEF AfterItem, IsPlain
<1>3. CASE InText(item, k, s, a, t, o, p)
  BY <1>3 DEF InText, IsPlain
<1>4. CASE InNumber(item, k, s, a, t, o, p)
  BY <1>4 DEF InNumber, IsInside
<1>5. QED BY <1>1, <1>2, <1>3, <1>4 DEF OnItem

----------------------------------------------------------------------------
(* vprintf, item after item.                                               *)

\* The lengths of the formats and of the arguments of the first items, what they
\* put and what of it they count.
Layout(items, fmt, args, n, fl, al, os, ps) ==
  /\ n \in Nat /\ fl \in [0 .. n -> Nat] /\ al \in [0 .. n -> Nat]
  /\ os \in [0 .. n -> Seq(Characters)] /\ ps \in [0 .. n -> Nat]
  /\ fl[0] = 0 /\ al[0] = 0 /\ os[0] = <<>> /\ ps[0] = 0
  /\ Len(fmt) \in Nat /\ fl[n] = Len(fmt)
  /\ \A j \in Nat : j < n =>
       LET item == items[j + 1]
       IN  /\ IsItem(item) /\ Len(item.fmt) \in Nat /\ Len(item.fmt) > 0
           /\ Stands(item, fmt, args, fl[j], al[j])
           /\ fl[j + 1] = fl[j] + Len(item.fmt) /\ al[j + 1] = al[j] + Len(item.arg)
           /\ os[j + 1] = os[j] \o Shown(item) /\ ps[j + 1] = ps[j] + Counted(item)

\* After the first j items, and inside of the one after them.
After(s, j, fl, al, os, ps) == IsPlain(s, fl[j] + 1, al[j], os[j], ps[j])
Within(s, items, j, k, fl, al, os, ps) == OnItem(items[j + 1], k, s, fl[j], al[j], os[j], ps[j])

\* A step moves within its item, or to the end of it.
LEMMA LayoutMoves ==
  ASSUME NEW items, NEW fmt, NEW args, NEW n, NEW fl, NEW al, NEW os, NEW ps,
         Layout(items, fmt, args, n, fl, al, os, ps),
         NEW j \in Nat, j < n, NEW k \in Nat, k < Len(items[j + 1].fmt), NEW s,
         Within(s, items, j, k, fl, al, os, ps), NEW next, next = printStep(fmt, args)[s]
  PROVE  /\ s \in Printing /\ next \in Printing /\ s.at < next.at /\ next.at <= Len(fmt) + 1
         /\ \/ After(next, j + 1, fl, al, os, ps)
            \/ \E m \in Nat : m < Len(items[j + 1].fmt) /\ Within(next, items, j, m, fl, al, os, ps)
<1> DEFINE item == items[j + 1]
           a == fl[j]
           t == al[j]
           o == os[j]
           p == ps[j]
           size == Len(item.fmt)
<1>1. /\ IsItem(item) /\ size \in Nat /\ Stands(item, fmt, args, a, t)
      /\ fl[j + 1] = a + size /\ al[j + 1] = t + Len(item.arg)
      /\ os[j + 1] = o \o Shown(item) /\ ps[j + 1] = p + Counted(item)
      /\ n \in Nat /\ Len(fmt) \in Nat
  BY DEF Layout
<1>2. a \in Nat /\ t \in Nat /\ o \in Seq(Characters) /\ p \in Nat
  BY <1>1 DEF Layout
<1>3. a + size <= Len(fmt)
  BY <1>1 DEF Stands
<1>4. OnItem(item, k, s, a, t, o, p) /\ k < size
  BY DEF Within
<1> HIDE DEF item, a, t, o, p
<1>5. Moves(item, k, next, a, t, o, p)
  BY <1>1, <1>2, <1>4, ItemMoves
<1>6. PICK m \in Nat : k < m /\ m <= size /\ OnItem(item, m, next, a, t, o, p)
  BY <1>5 DEF Moves
<1>7. s \in Printing /\ s.at = a + k + 1 /\ next \in Printing /\ next.at = a + m + 1
  BY <1>2, <1>4, <1>6, OnItemAt
<1>8. s.at < next.at /\ next.at <= Len(fmt) + 1
  BY <1>1, <1>2, <1>3, <1>6, <1>7
<1>9. CASE m < size
  <2>1. Within(next, items, j, m, fl, al, os, ps)
    BY <1>6 DEF Within, item, a, t, o, p
  <2>2. QED BY <2>1, <1>6, <1>7, <1>8, <1>9 DEF item
<1>10. CASE m = size
  <2>1. ~(m < size) /\ m # 0
    BY <1>1, <1>6, <1>10
  <2>2. AfterItem(item, next, a, t, o, p)
    BY <2>1, <1>6 DEF OnItem
  <2>3. IsPlain(next, fl[j + 1] + 1, al[j + 1], os[j + 1], ps[j + 1])
    BY <2>2, <1>1 DEF AfterItem
  <2>4. After(next, j + 1, fl, al, os, ps)
    BY <2>3 DEF After
  <2>5. QED BY <2>4, <1>7, <1>8
<1>11. QED BY <1>1, <1>6, <1>9, <1>10

\* The loop ends after the last item.
LEMMA LayoutIsPrinted ==
  ASSUME NEW items, NEW fmt, NEW args, NEW n, NEW fl, NEW al, NEW os, NEW ps,
         Layout(items, fmt, args, n, fl, al, os, ps)
  PROVE  After(vprintf(fmt, args), n, fl, al, os, ps)
<1> DEFINE step == printStep(fmt, args)
           most == Len(fmt)
           At(s, j) == After(s, j, fl, al, os, ps)
           On(s, j, k) == Within(s, items, j, k, fl, al, os, ps)
           size(j) == Len(items[j + 1].fmt)
           Between(s) == \E j \in Nat, k \in Nat : j < n /\ k < size(j) /\ On(s, j, k)
           S == {s \in Printing : s.at <= most + 1 /\ (At(s, n) \/ Between(s))}
           left == [s \in S |-> most + 1 - s.at]
<1>1. /\ n \in Nat /\ most \in Nat /\ fl[0] = 0 /\ al[0] = 0 /\ os[0] = <<>> /\ ps[0] = 0
      /\ fl[n] = most /\ (\A j \in Nat : j < n => size(j) \in Nat /\ size(j) > 0)
  BY DEF Layout
<1>2. ASSUME NEW s, NEW j \in Nat, j <= n, At(s, j), s.at <= most + 1 PROVE s \in S
  <2>1. s \in Printing
    BY <1>2 DEF After, IsPlain
  <2>2. CASE j = n
    BY <2>1, <2>2, <1>2
  <2>3. CASE j # n
    <3>1. j < n /\ 0 < size(j)
      BY <2>3, <1>1, <1>2
    <3>2. On(s, j, 0)
      <4>1. IsPlain(s, fl[j] + 1, al[j], os[j], ps[j])
        BY <1>2 DEF After
      <4>2. QED BY <4>1 DEF Within, OnItem
    <3>3. 0 \in Nat
      OBVIOUS
    <3> HIDE DEF On, size
    <3>4. Between(s)
      BY <3>1, <3>2, <3>3, <1>2
    <3> HIDE DEF Between
    <3>5. QED BY <3>4, <2>1, <1>2
  <2>4. QED BY <2>2, <2>3
<1>3. ASSUME NEW s \in S, ~At(s, n)
      PROVE  step[s] \in S /\ s.at < step[s].at /\ s.at \in Nat /\ step[s].at \in Nat
  <2>1. PICK j \in Nat, k \in Nat : j < n /\ k < size(j) /\ On(s, j, k)
    BY <1>3
  <2> DEFINE next == step[s]
  <2>2. /\ s \in Printing /\ next \in Printing /\ s.at < next.at /\ next.at <= Len(fmt) + 1
        /\ \/ After(next, j + 1, fl, al, os, ps)
           \/ \E m \in Nat : m < Len(items[j + 1].fmt) /\ Within(next, items, j, m, fl, al, os, ps)
    BY <2>1, LayoutMoves
  <2> HIDE DEF next
  <2>3. s.at \in Nat /\ next.at \in Nat /\ next.at <= most + 1
    BY <2>2 DEF Printing
  <2>4. CASE After(next, j + 1, fl, al, os, ps)
    <3>1. j + 1 \in Nat /\ j + 1 <= n
      BY <2>1, <1>1
    <3>2. next \in S
      BY <3>1, <2>3, <2>4, <1>2
    <3>3. QED BY <3>2, <2>2, <2>3 DEF next
  <2>5. CASE \E m \in Nat : m < Len(items[j + 1].fmt) /\ Within(next, items, j, m, fl, al, os, ps)
    <3>1. Between(next)
      BY <2>5, <2>1
    <3> HIDE DEF Between
    <3>2. next \in S
      BY <3>1, <2>2, <2>3
    <3>3. QED BY <3>2, <2>2, <2>3 DEF next
  <2>6. QED BY <2>2, <2>4, <2>5
<1>4. ASSUME NEW s \in S, At(s, n) PROVE step[s] = s
  <2>1. s \in Printing /\ s.at = most + 1
    BY <1>4, <1>1 DEF After, IsPlain
  <2>2. s.at > Len(fmt)
    BY <2>1, <1>1
  <2>3. QED BY <2>1, <2>2, StepEnds
<1>5. Start \in S /\ Start.at = 1
  <2>1. IsPlain(Start, 1, 0, <<>>, 0)
    BY DEF Start, IsPlain, Printing
  <2>2. At(Start, 0)
    BY <2>1, <1>1 DEF After
  <2>3. Start.at = 1 /\ Start.at <= most + 1 /\ 0 <= n /\ 0 \in Nat
    BY <2>1, <1>1 DEF IsPlain
  <2>4. QED BY <2>2, <2>3, <1>2
<1>6. ASSUME NEW s \in S PROVE s.at \in Nat /\ s.at <= most + 1
  BY DEF Printing
<1> HIDE DEF S, At, step
<1>7. left \in [S -> Int] /\ left[Start] <= most
  BY <1>1, <1>5, <1>6
<1>8. ASSUME NEW s \in S PROVE step[s] \in S /\ left[s] >= 0 /\ (step[s] = s \/ left[step[s]] < left[s])
  <2>1. left[s] >= 0
    BY <1>1, <1>6
  <2>2. CASE At(s, n)
    BY <2>1, <2>2, <1>4
  <2>3. CASE ~At(s, n)
    BY <2>1, <2>3, <1>1, <1>3
  <2>4. QED BY <2>2, <2>3
<1>9. Ends(S, step, Start, most, S, left)
  <2>1. IsLoop(S, step, Start, most)
    BY <1>1, <1>5, <1>8 DEF IsLoop
  <2> HIDE DEF left, most
  <2>2. QED BY <2>1, <1>5, <1>7, <1>8 DEF Ends
<1> DEFINE r == Loop(step, Start, most)
<1>10. r \in S /\ step[r] = r
  BY <1>9, LoopRule
<1> HIDE DEF r
<1>11. At(r, n)
  BY <1>3, <1>10
<1>12. vprintf(fmt, args) = r
  BY DEF vprintf, r, step, most
<1>13. QED BY <1>11, <1>12 DEF At

\* What an item is made of.
LEMMA ItemIs ==
  ASSUME NEW item, IsItem(item)
  PROVE  /\ item.fmt \in Seq(Characters) /\ Len(item.fmt) > 0
         /\ item.arg = <<>> \/ item.arg = <<item.arg[1]>>
         /\ Shown(item) \in Seq(Characters) /\ (item.kind = "percent" => Len(Shown(item)) = 1)
<1>0. \A x \in {"%", "c", "s", "l", "d", "u"} : x \in Characters
  BY KlibAssumption
<1>1. CASE item.kind = "text"
  <2>1. item.fmt \in Seq(Characters) \ {<<>>} /\ item.arg = <<>> /\ Shown(item) = item.fmt
    BY <1>1 DEF IsItem, Shown
  <2>2. QED BY <2>1, <1>1
<1>2. CASE item.kind = "percent"
  <2>1. item.fmt = <<"%", "%">> /\ item.arg = <<>> /\ Shown(item) = <<"%">>
    BY <1>2 DEF IsItem, Shown
  <2>2. QED BY <2>1, <1>0
<1>3. CASE item.kind = "char"
  <2> DEFINE x == item.arg[1]
  <2>1. item.fmt = <<"%", "c">> /\ item.arg = <<x>> /\ x \in Characters /\ Shown(item) = item.arg
    BY <1>3 DEF IsItem, Shown
  <2> HIDE DEF x
  <2>2. <<x>> \in Seq(Characters)
    BY <2>1
  <2>3. item.fmt \in Seq(Characters) /\ Len(item.fmt) > 0
    BY <2>1, <1>0
  <2>4. QED BY <2>1, <2>2, <2>3, <1>3 DEF x
<1>4. CASE item.kind = "string"
  <2> DEFINE x == item.arg[1]
  <2>1. item.fmt = <<"%", "s">> /\ item.arg = <<x>> /\ x \in Seq(Characters) /\ Shown(item) = x
    BY <1>4 DEF IsItem, Shown
  <2> HIDE DEF x
  <2>2. item.fmt \in Seq(Characters) /\ Len(item.fmt) > 0
    BY <2>1, <1>0
  <2>3. QED BY <2>1, <2>2, <1>4 DEF x
<1>5. CASE item.kind = "number"
  <2>1. PICK l \in 0 .. 2, c \in {"d", "u"} : IsNumberItem(item, l, c)
    BY <1>5, NumberItem
  <2> DEFINE f == item.fmt
             x == item.arg[1]
             T == {"%", "l", "d", "u"}
  <2>2. f \in Seq(T) /\ Len(f) = l + 2 /\ IsNumber(x, c, l) /\ item.arg = <<x>>
    BY <2>1 DEF IsNumberItem, IsNumberFormat
  <2>3. T \subseteq Characters
    BY <1>0
  <2>4. Shown(item) = ShownNumber(x)
    BY <1>5 DEF Shown
  <2>5. ShownNumber(x) \in Seq(Characters)
    BY <2>2, ShownIs
  <2> HIDE DEF f, x, T
  <2>6. f \in Seq(Characters)
    BY <2>2, <2>3
  <2>7. QED BY <2>2, <2>4, <2>5, <2>6, <1>5 DEF f, x
<1>6. QED BY <1>1, <1>2, <1>3, <1>4, <1>5 DEF IsItem

\* A format given by its items.
IsItems(items, n) ==
  /\ n \in Nat /\ Len(items) = n /\ DOMAIN items = 1 .. n
  /\ \A i \in 1 .. n : IsItem(items[i])
FormatOf(items) == [i \in DOMAIN items |-> items[i].fmt]
ArgumentsOf(items) == [i \in DOMAIN items |-> items[i].arg]
ShownOf(items) == [i \in DOMAIN items |-> Shown(items[i])]
PercentsOf(items, j) == {i \in 1 .. j : items[i].kind = "percent"}

\* The %% among one more item.
LEMMA PercentsAre ==
  ASSUME NEW items, NEW j \in Nat, IsFiniteSet(PercentsOf(items, j))
  PROVE  LET c == Cardinality(PercentsOf(items, j))
         IN  /\ IsFiniteSet(PercentsOf(items, j + 1)) /\ c \in Nat
             /\ Cardinality(PercentsOf(items, j + 1)) =
                  IF items[j + 1].kind = "percent" THEN c + 1 ELSE c
<1> DEFINE A == PercentsOf(items, j)
           B == PercentsOf(items, j + 1)
<1>1. items[j + 1].kind = "percent" => B = A \cup {j + 1}
  BY DEF PercentsOf
<1>2. items[j + 1].kind # "percent" => B = A
  BY DEF PercentsOf
<1>3. j + 1 \notin A
  BY DEF PercentsOf
<1> HIDE DEF A, B
<1>4. IsFiniteSet(A)
  BY DEF A
<1>5. Cardinality(A) \in Nat
  BY <1>4, FS_CardinalityType
<1>6. IsFiniteSet(A \cup {j + 1}) /\ Cardinality(A \cup {j + 1}) = Cardinality(A) + 1
  BY <1>3, <1>4, FS_AddElement
<1>7. IsFiniteSet(B) /\ Cardinality(B) = IF items[j + 1].kind = "percent" THEN Cardinality(A) + 1 ELSE Cardinality(A)
  BY <1>1, <1>2, <1>4, <1>6
<1>8. QED BY <1>5, <1>7 DEF A, B

\* The parts of the items, one after the other.
LEMMA PartsExist ==
  ASSUME NEW items, NEW n, IsItems(items, n)
  PROVE  \E T, FP, AP, OP :
           /\ FormatOf(items) \in Seq(Seq(Characters)) /\ ArePrefixes(FP, FormatOf(items), Characters)
           /\ ArgumentsOf(items) \in Seq(Seq(T)) /\ ArePrefixes(AP, ArgumentsOf(items), T)
           /\ ShownOf(items) \in Seq(Seq(Characters)) /\ ArePrefixes(OP, ShownOf(items), Characters)
<1> DEFINE T == {items[i].arg[1] : i \in 1 .. n}
<1>1. n \in Nat /\ DOMAIN items = 1 .. n /\ \A i \in 1 .. n : IsItem(items[i])
  BY DEF IsItems
<1>2. ASSUME NEW i \in 1 .. n
      PROVE  items[i].fmt \in Seq(Characters) /\ items[i].arg \in Seq(T) /\ Shown(items[i]) \in Seq(Characters)
  <2> DEFINE item == items[i]
             x == item.arg[1]
  <2>1. IsItem(item) /\ x \in T
    BY <1>1
  <2> HIDE DEF T, item
  <2>2. /\ item.fmt \in Seq(Characters) /\ (item.arg = <<>> \/ item.arg = <<x>>)
        /\ Shown(item) \in Seq(Characters)
    BY <2>1, ItemIs
  <2> HIDE DEF x
  <2>3. item.arg \in Seq(T)
    <3>1. x \in T
      BY <2>1
    <3>2. <<x>> \in Seq(T) /\ <<>> \in Seq(T)
      BY <3>1
    <3>3. QED BY <2>2, <3>2, Zenon
  <2>4. QED BY <2>2, <2>3 DEF item
<1> HIDE DEF T
<1>3. FormatOf(items) \in Seq(Seq(Characters))
  BY <1>1, <1>2 DEF FormatOf
<1>4. ArgumentsOf(items) \in Seq(Seq(T))
  BY <1>1, <1>2 DEF ArgumentsOf
<1>5. ShownOf(items) \in Seq(Seq(Characters))
  BY <1>1, <1>2 DEF ShownOf
<1>6. \E FP : ArePrefixes(FP, FormatOf(items), Characters)
  BY <1>3, PrefixesExist
<1>7. \E AP : ArePrefixes(AP, ArgumentsOf(items), T)
  BY <1>4, PrefixesExist
<1>8. \E OP : ArePrefixes(OP, ShownOf(items), Characters)
  BY <1>5, PrefixesExist
<1>9. QED BY <1>3, <1>4, <1>5, <1>6, <1>7, <1>8

\* Every format of items has a layout.
LEMMA LayoutExists ==
  ASSUME NEW items, NEW n, IsItems(items, n)
  PROVE  \E fl, al, os, ps :
           /\ Layout(items, FlattenSeq(FormatOf(items)), FlattenSeq(ArgumentsOf(items)), n, fl, al, os, ps)
           /\ os[n] = FlattenSeq(ShownOf(items))
           /\ ps[n] = Len(os[n]) - Cardinality(PercentsOf(items, n))
<1>1. n \in Nat /\ DOMAIN items = 1 .. n /\ \A i \in 1 .. n : IsItem(items[i])
  BY DEF IsItems
<1>2. PICK T, FP, AP, OP :
           /\ FormatOf(items) \in Seq(Seq(Characters)) /\ ArePrefixes(FP, FormatOf(items), Characters)
           /\ ArgumentsOf(items) \in Seq(Seq(T)) /\ ArePrefixes(AP, ArgumentsOf(items), T)
           /\ ShownOf(items) \in Seq(Seq(Characters)) /\ ArePrefixes(OP, ShownOf(items), Characters)
  BY PartsExist
<1> DEFINE F == FormatOf(items)
           A == ArgumentsOf(items)
           O == ShownOf(items)
           fmt == FlattenSeq(F)
           args == FlattenSeq(A)
           C(j) == Cardinality(PercentsOf(items, j))
<1>3. Len(F) = n /\ Len(A) = n /\ Len(O) = n
  BY <1>1 DEF FormatOf, ArgumentsOf, ShownOf
<1>4. \A i \in 1 .. n : F[i] = items[i].fmt /\ A[i] = items[i].arg /\ O[i] = Shown(items[i])
  BY <1>1 DEF FormatOf, ArgumentsOf, ShownOf
<1>5. F \in Seq(Seq(Characters)) /\ A \in Seq(Seq(T)) /\ O \in Seq(Seq(Characters))
  BY <1>2
<1>6. ArePrefixes(FP, F, Characters) /\ ArePrefixes(AP, A, T) /\ ArePrefixes(OP, O, Characters)
  BY <1>2
<1> HIDE DEF F, A, O
<1>7. /\ FP \in [0 .. n -> Seq(Characters)] /\ FP[0] = <<>>
      /\ AP \in [0 .. n -> Seq(T)] /\ AP[0] = <<>>
      /\ OP \in [0 .. n -> Seq(Characters)] /\ OP[0] = <<>>
  BY <1>3, <1>6 DEF ArePrefixes
<1>8. fmt = FP[n] /\ args = AP[n] /\ FlattenSeq(O) = OP[n]
  BY <1>3, <1>5, <1>6, FlattenIs
<1> HIDE DEF fmt, args
<1>9. ASSUME NEW j \in Nat, j < n
      PROVE  LET item == items[j + 1]
             IN  /\ IsItem(item) /\ item.fmt \in Seq(Characters) /\ Len(item.fmt) > 0
                 /\ FP[j] \in Seq(Characters) /\ FP[j + 1] = FP[j] \o item.fmt
                 /\ Len(FP[j]) + Len(item.fmt) <= Len(fmt) /\ fmt \in Seq(Characters)
                 /\ (\A i \in 1 .. Len(item.fmt) : fmt[Len(FP[j]) + i] = item.fmt[i])
                 /\ item.arg \in Seq(T) /\ AP[j] \in Seq(T) /\ AP[j + 1] = AP[j] \o item.arg
                 /\ (item.arg # <<>> => args[Len(AP[j]) + 1] = item.arg[1])
                 /\ Shown(item) \in Seq(Characters) /\ OP[j] \in Seq(Characters)
                 /\ OP[j + 1] = OP[j] \o Shown(item)
                 /\ (item.kind = "percent" => Len(Shown(item)) = 1)
  <2> DEFINE item == items[j + 1]
             f == item.fmt
             g == item.arg
             h == Shown(item)
  <2>1. j + 1 \in 1 .. n
    BY <1>1, <1>9
  <2>2. IsItem(item) /\ F[j + 1] = f /\ A[j + 1] = g /\ O[j + 1] = h
    BY <2>1, <1>1, <1>4
  <2>3. Len(f) > 0 /\ (g = <<>> \/ g = <<g[1]>>) /\ (item.kind = "percent" => Len(h) = 1)
    BY <2>2, ItemIs
  <2> HIDE DEF item, f, g, h
  <2>4. j < Len(F) /\ j < Len(A) /\ j < Len(O)
    BY <1>3, <1>9
  <2>5. /\ f \in Seq(Characters) /\ FP[j] \in Seq(Characters) /\ FP[j + 1] = FP[j] \o f
        /\ fmt \in Seq(Characters) /\ Len(FP[j]) + Len(f) <= Len(fmt)
        /\ (\A i \in 1 .. Len(f) : fmt[Len(FP[j]) + i] = f[i])
    <3>1. StandsAt(F, FP, Characters, j, FlattenSeq(F))
      BY <1>5, <1>6, <2>4, <1>9, FlattenAt, Zenon
    <3>2. QED BY <3>1, <2>2 DEF fmt, StandsAt
  <2>6. /\ g \in Seq(T) /\ AP[j] \in Seq(T) /\ AP[j + 1] = AP[j] \o g
        /\ (\A i \in 1 .. Len(g) : args[Len(AP[j]) + i] = g[i])
    <3>1. StandsAt(A, AP, T, j, FlattenSeq(A))
      BY <1>5, <1>6, <2>4, <1>9, FlattenAt, Zenon
    <3>2. QED BY <3>1, <2>2 DEF args, StandsAt
  <2>7. h \in Seq(Characters) /\ OP[j] \in Seq(Characters) /\ OP[j + 1] = OP[j] \o h
    <3>1. StandsAt(O, OP, Characters, j, FlattenSeq(O))
      BY <1>5, <1>6, <2>4, <1>9, FlattenAt, Zenon
    <3>2. QED BY <3>1, <2>2 DEF StandsAt
  <2>8. g # <<>> => args[Len(AP[j]) + 1] = g[1]
    <3>1. g # <<>> => 1 \in 1 .. Len(g)
      BY <2>6
    <3>2. QED BY <3>1, <2>6
  <2>9. QED BY <2>2, <2>3, <2>5, <2>6, <2>7, <2>8 DEF item, f, g, h
<1> DEFINE D == {j \in Nat : j <= n => /\ IsFiniteSet(PercentsOf(items, j))
                                       /\ C(j) \in Nat /\ C(j) <= Len(OP[j])}
<1>10. 0 \in D
  <2>1. PercentsOf(items, 0) = {}
    BY DEF PercentsOf
  <2>2. IsFiniteSet({}) /\ Cardinality({}) = 0
    BY FS_EmptySet
  <2>3. Len(OP[0]) = 0
    BY <1>7
  <2>4. QED BY <2>1, <2>2, <2>3
<1>11. ASSUME NEW j \in Nat, j \in D PROVE j + 1 \in D
  <2>1. SUFFICES ASSUME j + 1 <= n
                 PROVE  /\ IsFiniteSet(PercentsOf(items, j + 1))
                        /\ C(j + 1) \in Nat /\ C(j + 1) <= Len(OP[j + 1])
    OBVIOUS
  <2> DEFINE h == Shown(items[j + 1])
             o == OP[j]
             c == C(j)
             percent == items[j + 1].kind = "percent"
  <2>2. j < n /\ j <= n
    BY <2>1, <1>1
  <2>3. IsFiniteSet(PercentsOf(items, j)) /\ c \in Nat /\ c <= Len(o)
    BY <2>2, <1>11
  <2>4. IsFiniteSet(PercentsOf(items, j + 1)) /\ C(j + 1) = IF percent THEN c + 1 ELSE c
    BY <2>3, PercentsAre
  <2>5. o \in Seq(Characters) /\ h \in Seq(Characters) /\ OP[j + 1] = o \o h /\ (percent => Len(h) = 1)
    BY <2>2, <1>9
  <2> HIDE DEF h, o, c, C
  <2>6. Len(OP[j + 1]) = Len(o) + Len(h) /\ Len(o) \in Nat /\ Len(h) \in Nat
    BY <2>5
  <2>7. C(j + 1) \in Nat /\ C(j + 1) <= Len(OP[j + 1])
    <3>1. CASE percent
      <4>1. C(j + 1) = c + 1 /\ Len(h) = 1
        BY <3>1, <2>4, <2>5
      <4> HIDE DEF percent
      <4>2. QED BY <4>1, <2>3, <2>6
    <3>2. CASE ~percent
      <4>1. C(j + 1) = c
        BY <3>2, <2>4
      <4> HIDE DEF percent
      <4>2. QED BY <4>1, <2>3, <2>6
    <3>3. QED BY <3>1, <3>2
  <2>8. QED BY <2>4, <2>7
<1> HIDE DEF D
<1>12. \A j \in Nat : j \in D
  BY <1>10, <1>11, Induction
<1>13. ASSUME NEW j \in Nat, j <= n
       PROVE IsFiniteSet(PercentsOf(items, j)) /\ C(j) \in Nat /\ C(j) <= Len(OP[j])
  BY <1>12, <1>13 DEF D
<1> DEFINE fl == [j \in 0 .. n |-> Len(FP[j])]
           al == [j \in 0 .. n |-> Len(AP[j])]
           ps == [j \in 0 .. n |-> Len(OP[j]) - C(j)]
<1>14. fl \in [0 .. n -> Nat] /\ al \in [0 .. n -> Nat]
  BY <1>7
<1>15. ps \in [0 .. n -> Nat]
  <2>1. ASSUME NEW j \in 0 .. n PROVE Len(OP[j]) - C(j) \in Nat
    <3>1. OP[j] \in Seq(Characters) /\ j \in Nat /\ j <= n
      BY <1>1, <1>7
    <3>2. Len(OP[j]) \in Nat
      BY <3>1
    <3> HIDE DEF C
    <3>3. C(j) \in Nat /\ C(j) <= Len(OP[j])
      BY <3>1, <1>13
    <3>4. QED BY <3>2, <3>3
  <2> HIDE DEF C
  <2>2. QED BY <2>1
<1>16. \A j \in 0 .. n : fl[j] = Len(FP[j]) /\ al[j] = Len(AP[j]) /\ ps[j] = Len(OP[j]) - C(j)
  OBVIOUS
<1> HIDE DEF fl, al, ps, C
<1>17. 0 \in 0 .. n /\ n \in 0 .. n
  BY <1>1
<1>18. fl[0] = 0 /\ al[0] = 0 /\ ps[0] = 0
  <2>1. Len(FP[0]) = 0 /\ Len(AP[0]) = 0 /\ Len(OP[0]) = 0
    BY <1>7
  <2>2. C(0) = 0
    <3>1. C(0) \in Nat /\ C(0) <= Len(OP[0])
      BY <1>1, <1>13
    <3>2. QED BY <3>1, <2>1
  <2>3. QED BY <2>1, <2>2, <1>16, <1>17
<1>19. fl[n] = Len(fmt) /\ Len(fmt) \in Nat
  BY <1>7, <1>8, <1>16, <1>17
<1>20. ASSUME NEW j \in Nat, j < n
       PROVE  LET item == items[j + 1]
              IN  /\ IsItem(item) /\ Len(item.fmt) \in Nat /\ Len(item.fmt) > 0
                  /\ Stands(item, fmt, args, fl[j], al[j])
                  /\ fl[j + 1] = fl[j] + Len(item.fmt) /\ al[j + 1] = al[j] + Len(item.arg)
                  /\ OP[j + 1] = OP[j] \o Shown(item) /\ ps[j + 1] = ps[j] + Counted(item)
  <2> DEFINE item == items[j + 1]
             f == item.fmt
             g == item.arg
             h == Shown(item)
             percent == item.kind = "percent"
             a == FP[j]
             b == AP[j]
             o == OP[j]
  <2>1. /\ IsItem(item) /\ f \in Seq(Characters) /\ Len(f) > 0
        /\ a \in Seq(Characters) /\ FP[j + 1] = a \o f
        /\ Len(a) + Len(f) <= Len(fmt) /\ fmt \in Seq(Characters)
        /\ (\A i \in 1 .. Len(f) : fmt[Len(a) + i] = f[i])
        /\ g \in Seq(T) /\ b \in Seq(T) /\ AP[j + 1] = b \o g
        /\ (g # <<>> => args[Len(b) + 1] = g[1])
        /\ h \in Seq(Characters) /\ o \in Seq(Characters) /\ OP[j + 1] = o \o h
        /\ (percent => Len(h) = 1)
    BY <1>9, <1>20
  <2>2. Counted(item) = IF percent THEN 0 ELSE Len(h)
    BY DEF Counted
  <2>3. j \in 0 .. n /\ j + 1 \in 0 .. n /\ j + 1 \in Nat /\ j + 1 <= n /\ j <= n
    BY <1>1, <1>20
  <2>4. C(j + 1) = IF percent THEN C(j) + 1 ELSE C(j)
    BY <2>3, <1>13, PercentsAre DEF C
  <2>5. C(j) \in Nat
    BY <2>3, <1>13
  <2>6. fl[j] = Len(a) /\ al[j] = Len(b) /\ ps[j] = Len(o) - C(j)
    BY <2>3, <1>16
  <2>7. /\ fl[j + 1] = Len(FP[j + 1]) /\ al[j + 1] = Len(AP[j + 1])
        /\ ps[j + 1] = Len(OP[j + 1]) - C(j + 1)
    BY <2>3, <1>16
  <2> HIDE DEF item, f, g, h, a, b, o
  <2>8. /\ Len(a \o f) = Len(a) + Len(f) /\ Len(b \o g) = Len(b) + Len(g) /\ Len(o \o h) = Len(o) + Len(h)
        /\ Len(a) \in Nat /\ Len(f) \in Nat /\ Len(b) \in Nat /\ Len(g) \in Nat /\ Len(o) \in Nat
        /\ Len(h) \in Nat
    BY <2>1, JoinOf
  <2>9. Stands(item, fmt, args, fl[j], al[j])
    BY <2>1, <2>6, <2>8 DEF Stands, f, g
  <2>10. fl[j + 1] = fl[j] + Len(f) /\ al[j + 1] = al[j] + Len(g)
    BY <2>1, <2>6, <2>7, <2>8
  <2>11. ps[j + 1] = ps[j] + Counted(item)
    <3>1. OP[j + 1] = o \o h
      BY <2>1
    <3> DEFINE d == C(j + 1)
    <3>2. ps[j + 1] = (Len(o) + Len(h)) - C(j + 1)
      <4>1. Len(OP[j + 1]) = Len(o) + Len(h)
        BY <3>1, <2>8
      <4>2. ps[j + 1] = Len(OP[j + 1]) - d
        BY <2>7
      <4> HIDE DEF d
      <4>3. ps[j + 1] = (Len(o) + Len(h)) - d
        BY <4>1, <4>2
      <4>4. QED BY <4>3 DEF d
    <3>3. CASE percent
      <4>1. C(j + 1) = C(j) + 1 /\ Len(h) = 1 /\ Counted(item) = 0
        BY <3>3, <2>1, <2>2, <2>4
      <4> HIDE DEF percent
      <4>2. QED BY <4>1, <3>2, <2>5, <2>6, <2>8
    <3>4. CASE ~percent
      <4>1. C(j + 1) = C(j) /\ Counted(item) = Len(h)
        BY <3>4, <2>2, <2>4
      <4> HIDE DEF percent
      <4>2. QED BY <4>1, <3>2, <2>5, <2>6, <2>8
    <3>5. QED BY <3>3, <3>4
  <2>12. QED BY <2>1, <2>8, <2>9, <2>10, <2>11 DEF item, f, g, h, o
<1>21. Layout(items, fmt, args, n, fl, al, OP, ps)
  BY <1>1, <1>7, <1>14, <1>15, <1>18, <1>19, <1>20 DEF Layout
<1>22. OP[n] = FlattenSeq(O) /\ ps[n] = Len(OP[n]) - Cardinality(PercentsOf(items, n))
  BY <1>8, <1>16, <1>17 DEF C
<1>23. QED BY <1>21, <1>22 DEF fmt, args, F, A, O

\* vprintf prints what the items show.
LEMMA VprintfIsExact ==
  ASSUME NEW items, NEW n, IsItems(items, n),
         NEW done, done = vprintf(FlattenSeq(FormatOf(items)), FlattenSeq(ArgumentsOf(items)))
  PROVE  /\ ~done.failed /\ done.out = FlattenSeq(ShownOf(items))
         /\ done.pos = Len(done.out) - Cardinality(PercentsOf(items, n))
<1> DEFINE fmt == FlattenSeq(FormatOf(items))
           args == FlattenSeq(ArgumentsOf(items))
<1>1. PICK fl, al, os, ps :
           /\ Layout(items, fmt, args, n, fl, al, os, ps)
           /\ os[n] = FlattenSeq(ShownOf(items))
           /\ ps[n] = Len(os[n]) - Cardinality(PercentsOf(items, n))
  BY LayoutExists
<1> HIDE DEF fmt, args
<1>2. After(vprintf(fmt, args), n, fl, al, os, ps)
  BY <1>1, LayoutIsPrinted
<1>3. IsPlain(done, fl[n] + 1, al[n], os[n], ps[n])
  BY <1>2 DEF After, fmt, args
<1>4. ~done.failed /\ done.out = os[n] /\ done.pos = ps[n]
  BY <1>3 DEF IsPlain
<1>5. QED BY <1>1, <1>4

----------------------------------------------------------------------------
(* The calls.                                                              *)

\* The parts of a valid call.
LEMMA CallIs ==
  ASSUME NEW c, Valid(c)
  PROVE  IsMemory(c.mem) /\ IsPointer(c.dst) /\ IsPointer(c.src) /\ c.n \in Nat
BY DEF Valid, IsMemory, IsPointer

\* The size of a string with its end.
LEMMA SizeIs ==
  ASSUME NEW mem, IsMemory(mem), NEW p, IsPointer(p), IsString(mem, p)
  PROVE  strlen(mem, p) = Len(String(mem, p)) /\ SizeOf(mem, p, Len(String(mem, p)) + 1)
<1> DEFINE e == EndOf(mem, p)
           m == Len(String(mem, p))
<1>1. strlen(mem, p) = e - p
  BY StrlenIs
<1>2. m \in Nat /\ p + m = e
  BY StringBytes
<1>3. p \in Nat /\ e \in Nat
  BY EndIs DEF IsPointer
<1> HIDE DEF e, m
<1>4. strlen(mem, p) = m /\ m + 1 = e - p + 1 /\ m = e - p
  BY <1>1, <1>2, <1>3
<1>5. QED BY <1>4 DEF SizeOf, e, m

\* The calls that write memory.
LEMMA CopyCallsAreC ==
  ASSUME NEW c, Valid(c)
  PROVE  /\ c.fn = "strcpy" => strcpy(c.mem, c.dst, c.src) = With(c.mem, c.dst, String(c.mem, c.src) \o <<0>>)
         /\ c.fn = "strcat" => strcat(c.mem, c.dst, c.src)
                                 = With(c.mem, c.dst, String(c.mem, c.dst) \o String(c.mem, c.src) \o <<0>>)
         /\ c.fn = "memmove" => memmove(c.mem, c.dst, c.src, c.n) = With(c.mem, c.dst, Block(c.mem, c.src, c.n))
         /\ c.fn = "memcpy" => memcpy(c.mem, c.dst, c.src, c.n) = With(c.mem, c.dst, Block(c.mem, c.src, c.n))
         /\ c.fn = "memset" => memset(c.mem, c.dst, 7, c.n) = With(c.mem, c.dst, [i \in 1 .. c.n |-> 7])
<1> DEFINE mem == c.mem
           dst == c.dst
           src == c.src
           n == c.n
           size == Len(String(mem, src)) + 1
<1>1. IsMemory(mem) /\ IsPointer(dst) /\ IsPointer(src) /\ n \in Nat
  BY CallIs
<1>2. ASSUME c.fn = "strcpy" PROVE strcpy(mem, dst, src) = With(mem, dst, String(mem, src) \o <<0>>)
  <2>1. IsString(mem, src) /\ Fits(mem, dst, size) /\ Disjoint(dst, size, src, size)
    BY <1>2 DEF Valid, ValidString
  <2>2. SizeOf(mem, src, size)
    BY <1>1, <2>1, SizeIs
  <2> HIDE DEF mem, dst, src, size
  <2>3. QED BY <1>1, <2>1, <2>2, StringIsCopied
<1>3. ASSUME c.fn = "strcat"
      PROVE  strcat(mem, dst, src) = With(mem, dst, String(mem, dst) \o String(mem, src) \o <<0>>)
  <2> DEFINE e == EndOf(mem, dst)
  <2>1. IsString(mem, src) /\ IsString(mem, dst) /\ Fits(mem, e, size) /\ Disjoint(e, size, src, size)
    BY <1>3 DEF Valid, ValidString
  <2>2. SizeOf(mem, src, size)
    BY <1>1, <2>1, SizeIs
  <2> HIDE DEF mem, dst, src, size
  <2>3. QED BY <1>1, <2>1, <2>2, StringIsAppended
<1>4. c.fn \in {"memmove", "memcpy"} => InMemory(mem, dst, src, n)
  <2>1. c.fn \in {"memmove", "memcpy"} => Fits(mem, dst, n) /\ Fits(mem, src, n)
    BY DEF Valid, ValidString
  <2>2. QED BY <1>1, <2>1 DEF InMemory
<1>5. ASSUME c.fn = "memmove" PROVE memmove(mem, dst, src, n) = With(mem, dst, Block(mem, src, n))
  <2>1. InMemory(mem, dst, src, n)
    BY <1>4, <1>5
  <2> HIDE DEF mem, dst, src, n
  <2>2. QED BY <2>1, MoveIsExact
<1>6. ASSUME c.fn = "memcpy" PROVE memcpy(mem, dst, src, n) = With(mem, dst, Block(mem, src, n))
  <2>1. InMemory(mem, dst, src, n)
    BY <1>4, <1>6
  <2>2. Disjoint(dst, n, src, n)
    BY <1>6 DEF Valid, ValidString
  <2> HIDE DEF mem, dst, src, n
  <2>3. QED BY <2>1, <2>2, MoveIsExact
<1>7. ASSUME c.fn = "memset" PROVE memset(mem, dst, 7, n) = With(mem, dst, [i \in 1 .. n |-> 7])
  <2>1. Fits(mem, dst, n)
    BY <1>7 DEF Valid, ValidString
  <2> HIDE DEF mem, dst, n
  <2>2. 7 \in Nat
    OBVIOUS
  <2>3. memset(mem, dst, 7, n) = With(mem, dst, Alike(n, 7))
    BY <1>1, <2>1, <2>2, MemsetIsExact
  <2>4. QED BY <2>3 DEF Alike
<1>8. QED BY <1>2, <1>3, <1>5, <1>6, <1>7

\* strncmp of a call: that it stays in memory, and what it returns.
Compares(c, order) ==
  ~LeavesMemory(c.mem, c.dst, c.src, c.n) /\ Sign(strncmp(c.mem, c.dst, c.src, c.n)) = order
StartsOrder(c) == Order(StartOf(c.mem, c.dst, c.n), StartOf(c.mem, c.src, c.n))
BlocksOrder(c) == Order(Block(c.mem, c.dst, c.n), Block(c.mem, c.src, c.n))
BlocksFit(c) == Fits(c.mem, c.dst, c.n) /\ Fits(c.mem, c.src, c.n)
LEMMA StrncmpCallIsC ==
  ASSUME NEW c, Valid(c), c.fn = "strncmp"
  PROVE  (~RunsOn(c) => Compares(c, StartsOrder(c))) /\ (BlocksFit(c) => Compares(c, BlocksOrder(c)))
<1> DEFINE mem == c.mem
           dst == c.dst
           src == c.src
           n == c.n
           u == StartOf(mem, dst, n)
           v == StartOf(mem, src, n)
           p == Len(u)
           q == Len(v)
<1>1. IsMemory(mem) /\ IsPointer(dst) /\ IsPointer(src) /\ n \in Nat
  BY CallIs
<1>2. (IsString(mem, dst) \/ Fits(mem, dst, n)) /\ (IsString(mem, src) \/ Fits(mem, src, n))
  BY DEF Valid, ValidString
<1>3. RunsOn(c) <=> (u = v /\ q + 1 < n)
  BY DEF RunsOn
<1>4. StartsOrder(c) = Order(u, v) /\ BlocksOrder(c) = Order(Block(mem, dst, n), Block(mem, src, n))
  BY DEF StartsOrder, BlocksOrder
<1>5. BlocksFit(c) <=> Fits(mem, dst, n) /\ Fits(mem, src, n)
  BY DEF BlocksFit
<1>6. \A order : Compares(c, order) <=> ~LeavesMemory(mem, dst, src, n) /\ Sign(strncmp(mem, dst, src, n)) = order
  BY DEF Compares
<1> HIDE DEF mem, dst, src, n
<1>7. StartsAt(u, p, mem, dst, n)
  BY <1>1, <1>2, ComparedIs
<1>8. StartsAt(v, q, mem, src, n)
  BY <1>1, <1>2, ComparedIs
<1> HIDE DEF u, v, p, q
<1>9. ASSUME ~RunsOn(c) PROVE Compares(c, Order(u, v))
  <2>1. dst \in Nat /\ src \in Nat
    BY <1>1 DEF IsPointer
  <2>2. ~(u = v /\ q + 1 < n)
    BY <1>3, <1>9
  <2>3. ~LeavesMemory(mem, dst, src, n) /\ Sign(strncmp(mem, dst, src, n)) = Order(u, v)
    BY <1>1, <1>7, <1>8, <2>1, <2>2, StrncmpIsExact
  <2>4. QED BY <2>3, <1>6
<1>10. ASSUME BlocksFit(c) PROVE Compares(c, Order(Block(mem, dst, n), Block(mem, src, n)))
  <2>1. Fits(mem, dst, n) /\ Fits(mem, src, n)
    BY <1>5, <1>10
  <2>2. ~LeavesMemory(mem, dst, src, n) /\ Sign(strncmp(mem, dst, src, n)) = Order(Block(mem, dst, n), Block(mem, src, n))
    BY <1>1, <2>1, StrncmpOfBlocks
  <2>3. QED BY <2>2, <1>6
<1>11. QED BY <1>4, <1>9, <1>10

\* The calls that read memory.
LEMMA ReadCallsAreC ==
  ASSUME NEW c, Valid(c)
  PROVE  /\ c.fn = "strlen" => strlen(c.mem, c.src) = Len(String(c.mem, c.src))
         /\ c.fn = "strcmp" => Sign(strcmp(c.mem, c.dst, c.src)) = Order(String(c.mem, c.dst), String(c.mem, c.src))
         /\ c.fn = "memcmp" => Sign(memcmp(c.mem, c.dst, c.src, c.n))
              = Order(Block(c.mem, c.dst, c.n), Block(c.mem, c.src, c.n))
         /\ c.fn = "atoi" => atoi(c.mem, c.src) = Number(String(c.mem, c.src))
<1> DEFINE mem == c.mem
           dst == c.dst
           src == c.src
           n == c.n
<1>1. IsMemory(mem) /\ IsPointer(dst) /\ IsPointer(src) /\ n \in Nat
  BY CallIs
<1>2. ASSUME c.fn = "strlen" PROVE strlen(mem, src) = Len(String(mem, src))
  <2>1. IsString(mem, src)
    BY <1>2 DEF Valid, ValidString
  <2> HIDE DEF mem, src
  <2>2. QED BY <1>1, <2>1, SizeIs
<1>3. ASSUME c.fn = "strcmp" PROVE Sign(strcmp(mem, dst, src)) = Order(String(mem, dst), String(mem, src))
  <2>1. IsString(mem, src) /\ IsString(mem, dst)
    BY <1>3 DEF Valid, ValidString
  <2> HIDE DEF mem, dst, src
  <2>2. QED BY <1>1, <2>1, StrcmpIsExact
<1>4. ASSUME c.fn = "memcmp"
      PROVE  Sign(memcmp(mem, dst, src, n)) = Order(Block(mem, dst, n), Block(mem, src, n))
  <2>1. Fits(mem, dst, n) /\ Fits(mem, src, n)
    BY <1>4 DEF Valid, ValidString
  <2> HIDE DEF mem, dst, src, n
  <2>2. QED BY <1>1, <2>1, MemcmpIsExact
<1>5. ASSUME c.fn = "atoi" PROVE atoi(mem, src) = Number(String(mem, src))
  <2>1. IsString(mem, src)
    BY <1>5 DEF Valid, ValidString
  <2> HIDE DEF mem, src
  <2>2. QED BY <1>1, <2>1, AtoiIsExact
<1>6. QED BY <1>2, <1>3, <1>4, <1>5

\* Every answer of string.c and of atoi.
LEMMA StringAnswersAreC ==
  ASSUME call \in Calls, StringCall
  PROVE  KlibIsC'
<1> DEFINE mem == call.mem
           dst == call.dst
           src == call.src
           n == call.n
           s == String(mem, src)
           d == String(mem, dst)
           fn == call.fn
           Ret(r) == [is |-> "made", ret |-> r, mem |-> mem]
           Left(x) == [is |-> "made", ret |-> 0, mem |-> x]
<1>1. Valid(call) /\ fn # "printf" /\ call' = call
  BY KlibAssumption DEF StringCall
<1>2. fn \in {"strlen", "strcpy", "strcat", "strcmp", "strncmp", "memset", "memmove", "memcpy", "memcmp", "atoi"}
  BY <1>1 DEF Valid, ValidString
<1>3. /\ fn = "strlen" => answer' = Ret(strlen(mem, src))
      /\ fn = "strcpy" => answer' = Left(strcpy(mem, dst, src))
      /\ fn = "strcat" => answer' = Left(strcat(mem, dst, src))
      /\ fn = "strcmp" => answer' = Ret(Sign(strcmp(mem, dst, src)))
      /\ fn = "strncmp" => answer' = IF LeavesMemory(mem, dst, src, n) THEN [is |-> "died"]
                                     ELSE Ret(Sign(strncmp(mem, dst, src, n)))
      /\ fn = "memset" => answer' = Left(memset(mem, dst, 7, n))
      /\ fn = "memmove" => answer' = Left(memmove(mem, dst, src, n))
      /\ fn = "memcpy" => answer' = Left(memcpy(mem, dst, src, n))
      /\ fn = "memcmp" => answer' = Ret(Sign(memcmp(mem, dst, src, n)))
      /\ fn = "atoi" => answer' = Ret(atoi(mem, src))
  BY DEF StringCall
<1>4. /\ \A r : Ret(r).ret = r /\ Ret(r).is = "made"
      /\ \A x : Left(x).mem = x
  OBVIOUS
<1> HIDE DEF Ret, Left
<1>5. /\ fn = "strcpy" => answer'.mem = With(mem, dst, s \o <<0>>)
      /\ fn = "strcat" => answer'.mem = With(mem, dst, d \o s \o <<0>>)
      /\ fn \in {"memmove", "memcpy"} => answer'.mem = With(mem, dst, Block(mem, src, n))
      /\ fn = "memset" => answer'.mem = With(mem, dst, [i \in 1 .. n |-> 7])
  <2>1. /\ fn = "strcpy" => strcpy(mem, dst, src) = With(mem, dst, s \o <<0>>)
        /\ fn = "strcat" => strcat(mem, dst, src) = With(mem, dst, d \o s \o <<0>>)
        /\ fn = "memmove" => memmove(mem, dst, src, n) = With(mem, dst, Block(mem, src, n))
        /\ fn = "memcpy" => memcpy(mem, dst, src, n) = With(mem, dst, Block(mem, src, n))
        /\ fn = "memset" => memset(mem, dst, 7, n) = With(mem, dst, [i \in 1 .. n |-> 7])
    BY <1>1, CopyCallsAreC
  <2> DEFINE copy == strcpy(mem, dst, src)
             cat == strcat(mem, dst, src)
             move == memmove(mem, dst, src, n)
             cpy == memcpy(mem, dst, src, n)
             set == memset(mem, dst, 7, n)
  <2>2. /\ Left(copy).mem = copy /\ Left(cat).mem = cat /\ Left(move).mem = move
        /\ Left(cpy).mem = cpy /\ Left(set).mem = set
    BY <1>4
  <2>3. fn = "strcpy" => answer'.mem = copy
    BY <1>3, <2>2
  <2>4. fn = "strcat" => answer'.mem = cat
    BY <1>3, <2>2
  <2>5. fn = "memmove" => answer'.mem = move
    BY <1>3, <2>2
  <2>6. fn = "memcpy" => answer'.mem = cpy
    BY <1>3, <2>2
  <2>7. fn = "memset" => answer'.mem = set
    BY <1>3, <2>2
  <2>8. fn = "strcpy" => answer'.mem = With(mem, dst, s \o <<0>>)
    BY <2>1, <2>3
  <2>9. fn = "strcat" => answer'.mem = With(mem, dst, d \o s \o <<0>>)
    BY <2>1, <2>4
  <2>10. fn \in {"memmove", "memcpy"} => answer'.mem = With(mem, dst, Block(mem, src, n))
    BY <2>1, <2>5, <2>6
  <2>11. fn = "memset" => answer'.mem = With(mem, dst, [i \in 1 .. n |-> 7])
    <3> DEFINE w == With(mem, dst, [i \in 1 .. n |-> 7])
    <3>1. fn = "memset" => set = w
      BY <2>1
    <3> HIDE DEF w, set
    <3>2. fn = "memset" => answer'.mem = w
      BY <3>1, <2>7
    <3>3. QED BY <3>2 DEF w
  <2> HIDE DEF fn, mem, dst, src, n, s, d
  <2>12. QED BY <2>8, <2>9, <2>10, <2>11, Zenon
<1>6. /\ fn = "strlen" => answer'.ret = Len(s)
      /\ fn = "strcmp" => answer'.ret = Order(d, s)
      /\ fn = "memcmp" => answer'.ret = Order(Block(mem, dst, n), Block(mem, src, n))
      /\ fn = "atoi" => answer'.ret = Number(s)
  <2>1. /\ fn = "strlen" => strlen(mem, src) = Len(s)
        /\ fn = "strcmp" => Sign(strcmp(mem, dst, src)) = Order(d, s)
        /\ fn = "memcmp" => Sign(memcmp(mem, dst, src, n)) = Order(Block(mem, dst, n), Block(mem, src, n))
        /\ fn = "atoi" => atoi(mem, src) = Number(s)
    BY <1>1, ReadCallsAreC
  <2> DEFINE len == strlen(mem, src)
             cmp == Sign(strcmp(mem, dst, src))
             mcmp == Sign(memcmp(mem, dst, src, n))
             num == atoi(mem, src)
  <2>2. /\ Ret(len).ret = len /\ Ret(cmp).ret = cmp /\ Ret(mcmp).ret = mcmp
        /\ Ret(num).ret = num
    BY <1>4
  <2>3. fn = "strlen" => answer'.ret = len
    BY <1>3, <2>2
  <2>4. fn = "strcmp" => answer'.ret = cmp
    BY <1>3, <2>2
  <2>5. fn = "memcmp" => answer'.ret = mcmp
    BY <1>3, <2>2
  <2>6. fn = "atoi" => answer'.ret = num
    BY <1>3, <2>2
  <2>7. QED BY <2>1, <2>3, <2>4, <2>5, <2>6
<1> DEFINE Made(order) == answer'.is = "made" /\ answer'.ret = order
           leaves == LeavesMemory(mem, dst, src, n)
           ncmp == Sign(strncmp(mem, dst, src, n))
           runs == RunsOn(call)
           fit == Fits(mem, dst, n) /\ Fits(mem, src, n)
           so == Order(StartOf(mem, dst, n), StartOf(mem, src, n))
           bo == Order(Block(mem, dst, n), Block(mem, src, n))
<1>7. fn = "strncmp" => IF runs THEN fit => Made(bo) ELSE Made(so)
  <2>1. fn = "strncmp" => (~runs => ~leaves /\ ncmp = so) /\ (fit => ~leaves /\ ncmp = bo)
    BY <1>1, StrncmpCallIsC DEF Compares, StartsOrder, BlocksOrder, BlocksFit
  <2>2. fn = "strncmp" /\ ~leaves => answer' = Ret(ncmp)
    BY <1>3
  <2>3. Ret(ncmp).ret = ncmp /\ Ret(ncmp).is = "made"
    BY <1>4
  <2> HIDE DEF leaves, ncmp, runs, fit, so, bo, fn
  <2>4. fn = "strncmp" /\ ~leaves => Made(ncmp)
    BY <2>2, <2>3
  <2>5. QED BY <2>1, <2>4
<1>8. KlibIsC' = (answer' # Unanswered =>
         CASE fn = "strlen" -> answer'.ret = Len(s)
           [] fn = "strcpy" -> answer'.mem = With(mem, dst, s \o <<0>>)
           [] fn = "strcat" -> answer'.mem = With(mem, dst, d \o s \o <<0>>)
           [] fn = "strcmp" -> answer'.ret = Order(d, s)
           [] fn = "strncmp" -> IF runs THEN fit => Made(bo) ELSE Made(so)
           [] fn = "memset" -> answer'.mem = With(mem, dst, [i \in 1 .. n |-> 7])
           [] fn \in {"memmove", "memcpy"} -> answer'.mem = With(mem, dst, Block(mem, src, n))
           [] fn = "memcmp" -> answer'.ret = Order(Block(mem, dst, n), Block(mem, src, n))
           [] fn = "atoi" -> answer'.ret = Number(s)
           [] fn = "printf" ->
               LET out == FlattenSeq([i \in DOMAIN call.items |-> Shown(call.items[i])])
                   percents == {i \in DOMAIN call.items : call.items[i].kind = "percent"}
               IN  ~answer'.failed /\ answer'.out = out
                   /\ answer'.ret = Len(out) - Cardinality(percents))
  BY <1>1 DEF KlibIsC
<1> HIDE DEF mem, dst, src, n, s, d, fn, runs, fit, so, bo, Made
<1>9. QED BY <1>1, <1>2, <1>5, <1>6, <1>7, <1>8

\* Every answer of printf.
LEMMA PrintfAnswersAreC ==
  ASSUME call \in Calls, printf
  PROVE  KlibIsC'
<1> DEFINE items == call.items
           n == Len(items)
           done == vprintf(FlattenSeq(FormatOf(items)), FlattenSeq(ArgumentsOf(items)))
           out == FlattenSeq(ShownOf(items))
           percents == PercentsOf(items, n)
<1>1. call.fn = "printf" /\ call' = call
  BY DEF printf
<1>2. items \in Seq({items[i] : i \in DOMAIN items}) /\ \A i \in DOMAIN items : IsItem(items[i])
  BY <1>1, KlibAssumption
<1>3. IsItems(items, n)
  <2> HIDE DEF items
  <2>1. n \in Nat /\ DOMAIN items = 1 .. n
    BY <1>2
  <2>2. QED BY <1>2, <2>1 DEF IsItems
<1>4. answer' = [is |-> "made", ret |-> done.pos, out |-> done.out, failed |-> done.failed]
  BY DEF printf, FormatOf, ArgumentsOf
<1>5. ~done.failed /\ done.out = out /\ done.pos = Len(done.out) - Cardinality(percents)
  <2> HIDE DEF items, n
  <2>1. QED BY <1>3, VprintfIsExact
<1> HIDE DEF done
<1>6. ~answer'.failed /\ answer'.out = out /\ answer'.ret = Len(out) - Cardinality(percents)
  BY <1>4, <1>5
<1>7. /\ out = FlattenSeq([i \in DOMAIN items |-> Shown(items[i])])
      /\ percents = {i \in DOMAIN items : items[i].kind = "percent"}
  BY <1>3 DEF ShownOf, PercentsOf, IsItems
<1> HIDE DEF out, percents
<1>8. QED BY <1>1, <1>6, <1>7 DEF KlibIsC

\* What a call of string.c, of atoi or of printf leaves is what KlibIsC says: what C
\* says, for every memory, every string and block in it and every format of items,
\* with the exceptions KlibIsC names, and of each what klib does instead.
THEOREM CallsAreC == KlibSpec => []KlibIsC
<1> DEFINE Inv == call \in Calls /\ KlibIsC
<1>1. KlibInit => Inv
  BY DEF KlibInit, KlibIsC
<1>2. Inv /\ [StringCall \/ printf]_<<call, answer>> => Inv'
  <2> SUFFICES ASSUME Inv, [StringCall \/ printf]_<<call, answer>> PROVE Inv'
    OBVIOUS
  <2>1. CASE StringCall
    BY <2>1, StringAnswersAreC DEF StringCall
  <2>2. CASE printf
    BY <2>2, PrintfAnswersAreC DEF printf
  <2>3. CASE UNCHANGED <<call, answer>>
    BY <2>3 DEF KlibIsC
  <2>4. QED BY <2>1, <2>2, <2>3
<1>3. QED BY <1>1, <1>2, PTL DEF KlibSpec
=============================================================================
