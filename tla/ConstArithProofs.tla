------------------------- MODULE ConstArithProofs -------------------------
(***************************************************************************)
(* The operators of Int128 are exact for every word: carries, borrows and  *)
(* shifts cross the two words rightly, the loop of mul128_o multiplies and *)
(* that of div128_o divides, and the signed operators on top of them       *)
(* compute with the integers the pairs stand for.  So the action           *)
(* properties of ConstArith hold for every set of integer types, every     *)
(* operand and every word size.                                            *)
(*                                                                         *)
(* The loops, and the powers of two, are recursive functions: that they    *)
(* take the steps that define them follows from the principle of induction *)
(* over numbers, which is stated of sets.                                  *)
(***************************************************************************)
EXTENDS ConstArith, WellFoundedInduction, TLAPS

(***************************************************************************)
(* Numbers and loops.                                                      *)
(***************************************************************************)
\* A set of numbers has a least one.
LEMMA LeastNatural ==
    ASSUME NEW T, T \subseteq Nat, T # {}
    PROVE  \E x \in T : \A y \in T : x <= y
<1> DEFINE Below == {p \in Nat \X Nat : p[1] < p[2]}
<1>1. IsWellFoundedOn(Below, Nat)
  BY NatLessThanWellFounded DEF OpToRel
<1> HIDE DEF Below
<1>2. PICK x \in T : \A y \in T : ~(<<y, x>> \in Below)
  BY <1>1, WFMin
<1>3. ASSUME NEW y \in T PROVE x <= y
  <2>1. x \in Nat /\ y \in Nat OBVIOUS
  <2>2. y < x => <<y, x>> \in Below BY <2>1 DEF Below
  <2> QED BY <1>2, <2>1, <2>2
<1> QED BY <1>3

\* A set with 0, and with n + 1 when with n, has all numbers.
LEMMA NaturalInduction ==
    ASSUME NEW T, 0 \in T, \A n \in Nat : n \in T => n + 1 \in T
    PROVE  Nat \subseteq T
<1> SUFFICES ASSUME Nat \ T # {} PROVE FALSE
  OBVIOUS
<1> DEFINE U == Nat \ T
<1>1. PICK x \in U : \A y \in U : x <= y
  <2>1. U \subseteq Nat /\ U # {} OBVIOUS
  <2> HIDE DEF U
  <2> QED BY <2>1, LeastNatural
<1>2. x \in Nat /\ x # 0 BY <1>1
<1>3. x - 1 \in Nat /\ x - 1 \notin U BY <1>1, <1>2
<1> QED BY <1>1, <1>2, <1>3

\* A loop that starts with start and takes its steps from step.
Runs(g, n, start, step) ==
    g[0] = start /\ \A k \in 0 .. n - 1 : g[k + 1] = step[<<k, g[k]>>]

\* There is a run of every length ...
LEMMA RunExists ==
    ASSUME NEW S, NEW start \in S, NEW step \in [Nat \X S -> S]
    PROVE  \A n \in Nat : \E g \in [0 .. n -> S] : Runs(g, n, start, step)
<1> DEFINE T == {n \in Nat : \E g \in [0 .. n -> S] : Runs(g, n, start, step)}
<1>1. 0 \in T
  <2> DEFINE g == [k \in 0 .. 0 |-> start]
  <2>1. g \in [0 .. 0 -> S] /\ Runs(g, 0, start, step)
    BY DEF Runs
  <2> QED BY <2>1
<1>2. ASSUME NEW n \in Nat, n \in T PROVE n + 1 \in T
  <2>1. PICK g \in [0 .. n -> S] : Runs(g, n, start, step)
    BY <1>2
  <2> DEFINE h == [k \in 0 .. n + 1 |-> IF k = n + 1 THEN step[<<n, g[n]>>] ELSE g[k]]
  <2>2. g[n] \in S /\ step[<<n, g[n]>>] \in S
    OBVIOUS
  <2>3. h \in [0 .. n + 1 -> S]
    <3>1. ASSUME NEW k \in 0 .. n + 1, k # n + 1 PROVE g[k] \in S
      BY <3>1
    <3> QED BY <2>2, <3>1
  <2>4. h[0] = start /\ h[n + 1] = step[<<n, h[n]>>]
    <3>1. h[0] = g[0] /\ h[n] = g[n] /\ h[n + 1] = step[<<n, g[n]>>]
      OBVIOUS
    <3> QED BY <2>1, <3>1 DEF Runs
  <2>5. ASSUME NEW k \in 0 .. n - 1 PROVE h[k + 1] = step[<<k, h[k]>>]
    <3>1. h[k] = g[k] /\ h[k + 1] = g[k + 1]
      OBVIOUS
    <3> QED BY <2>1, <3>1 DEF Runs
  <2>6. Runs(h, n + 1, start, step)
    <3> HIDE DEF h
    <3>1. ASSUME NEW k \in 0 .. (n + 1) - 1 PROVE k = n \/ k \in 0 .. n - 1
      OBVIOUS
    <3> QED BY <2>4, <2>5, <3>1 DEF Runs
  <2> HIDE DEF h
  <2> QED BY <2>3, <2>6
<1> HIDE DEF T
<1>3. Nat \subseteq T
  BY <1>1, <1>2, NaturalInduction
<1> QED BY <1>3 DEF T

\* ... and runs agree as far as they go.
LEMMA RunsAgree ==
    ASSUME NEW S, NEW start, NEW step, NEW n \in Nat, NEW m \in Nat, NEW g, NEW h,
           Runs(g, n, start, step), Runs(h, m, start, step)
    PROVE  \A k \in Nat : k <= n /\ k <= m => g[k] = h[k]
<1> DEFINE T == {k \in Nat : k <= n /\ k <= m => g[k] = h[k]}
<1>1. 0 \in T
  BY DEF Runs
<1>2. ASSUME NEW k \in Nat, k \in T PROVE k + 1 \in T
  <2> SUFFICES ASSUME k + 1 <= n, k + 1 <= m PROVE g[k + 1] = h[k + 1]
    OBVIOUS
  <2>1. k \in 0 .. n - 1 /\ k \in 0 .. m - 1
    OBVIOUS
  <2>2. g[k] = h[k]
    BY <1>2
  <2> QED BY <2>1, <2>2 DEF Runs
<1> HIDE DEF T
<1>3. Nat \subseteq T
  BY <1>1, <1>2, NaturalInduction
<1> QED BY <1>3 DEF T

\* The steps of a loop that never ends.
RunsForever(f, start, step) ==
    f[0] = start /\ \A n \in Nat : f[n + 1] = step[<<n, f[n]>>]

\* So there is one that never ends.
LEMMA Iteration ==
    ASSUME NEW S, NEW start \in S, NEW step \in [Nat \X S -> S]
    PROVE  \E f \in [Nat -> S] : RunsForever(f, start, step)
<1> DEFINE run(n) == CHOOSE g \in [0 .. n -> S] : Runs(g, n, start, step)
           f == [n \in Nat |-> run(n)[n]]
<1>1. \A n \in Nat : run(n) \in [0 .. n -> S] /\ Runs(run(n), n, start, step)
  BY RunExists
<1> HIDE DEF run
<1>2. f \in [Nat -> S]
  <2>1. ASSUME NEW n \in Nat PROVE run(n)[n] \in S
    <3>1. run(n) \in [0 .. n -> S] /\ n \in 0 .. n
      BY <1>1
    <3> QED BY <3>1
  <2> QED BY <2>1
<1>3. f[0] = start
  BY <1>1 DEF Runs
<1>4. ASSUME NEW n \in Nat PROVE f[n + 1] = step[<<n, f[n]>>]
  <2> DEFINE g == run(n)
             h == run(n + 1)
  <2>1. /\ n + 1 \in Nat
        /\ g \in [0 .. n -> S] /\ Runs(g, n, start, step)
        /\ h \in [0 .. n + 1 -> S] /\ Runs(h, n + 1, start, step)
    BY <1>1
  <2>2. f[n] = g[n] /\ f[n + 1] = h[n + 1]
    BY <2>1
  <2> HIDE DEF g, h, f
  <2>3. n <= n /\ n <= n + 1
    OBVIOUS
  <2>4. g[n] = h[n]
    <3>1. \A k \in Nat : k <= n /\ k <= n + 1 => g[k] = h[k]
      BY <2>1, RunsAgree
    <3> QED BY <2>3, <3>1
  <2>5. n \in 0 .. (n + 1) - 1
    OBVIOUS
  <2>6. h[n + 1] = step[<<n, h[n]>>]
    BY <2>1, <2>5 DEF Runs
  <2> QED BY <2>2, <2>4, <2>6
<1> HIDE DEF f
<1> QED BY <1>2, <1>3, <1>4 DEF RunsForever

\* The recursive definition of the powers has a solution.
LEMMA PowerDefined ==
    Power = [n \in Nat |-> IF n = 0 THEN 1 ELSE 2 * Power[n - 1]]
<1> DEFINE step == [p \in Nat \X Nat |-> 2 * p[2]]
<1>1. step \in [Nat \X Nat -> Nat]
  OBVIOUS
<1>2. PICK f \in [Nat -> Nat] : RunsForever(f, 1, step)
  <2>1. 1 \in Nat
    OBVIOUS
  <2> HIDE DEF step
  <2> QED BY <1>1, <2>1, Iteration
<1>3. ASSUME NEW n \in Nat, n # 0 PROVE f[n] = 2 * f[n - 1]
  <2>1. n - 1 \in Nat /\ (n - 1) + 1 = n
    BY <1>3
  <2>2. f[n] = step[<<n - 1, f[n - 1]>>]
    BY <1>2, <2>1 DEF RunsForever
  <2>3. f[n - 1] \in Nat
    BY <2>1
  <2> QED BY <2>1, <2>2, <2>3
<1> HIDE DEF step
<1>4. f = [n \in Nat |-> IF n = 0 THEN 1 ELSE 2 * f[n - 1]]
  <2>1. ASSUME NEW n \in Nat PROVE f[n] = IF n = 0 THEN 1 ELSE 2 * f[n - 1]
    BY <1>2, <1>3 DEF RunsForever
  <2> QED BY <2>1
<1> QED BY <1>4 DEF Power

\* The first power, and from each the next.
LEMMA PowerFacts ==
    /\ Power[0] = 1
    /\ \A n \in Nat : Power[n] \in Nat \ {0} /\ Power[n + 1] = 2 * Power[n]
<1>1. ASSUME NEW n \in Nat
      PROVE Power[n] = IF n = 0 THEN 1 ELSE 2 * Power[n - 1]
  BY PowerDefined, Zenon
<1>2. Power[0] = 1
  BY <1>1
<1>3. ASSUME NEW n \in Nat PROVE Power[n + 1] = 2 * Power[n]
  <2>1. n + 1 \in Nat /\ n + 1 # 0 /\ (n + 1) - 1 = n
    OBVIOUS
  <2> QED BY <1>1, <2>1
<1> DEFINE T == {n \in Nat : Power[n] \in Nat \ {0}}
<1>4. 0 \in T
  BY <1>2
<1>5. ASSUME NEW n \in Nat, n \in T PROVE n + 1 \in T
  BY <1>3, <1>5
<1>6. Nat \subseteq T
  <2> HIDE DEF T
  <2> QED BY <1>4, <1>5, NaturalInduction
<1> QED BY <1>2, <1>3, <1>6

\* Exponents are added.
LEMMA PowerSum == \A m, n \in Nat : Power[m + n] = Power[m] * Power[n]
<1> SUFFICES ASSUME NEW m \in Nat
             PROVE \A n \in Nat : Power[m + n] = Power[m] * Power[n]
  OBVIOUS
<1> DEFINE T == {n \in Nat : Power[m + n] = Power[m] * Power[n]}
<1>1. 0 \in T
  BY PowerFacts
<1>2. ASSUME NEW n \in Nat, n \in T PROVE n + 1 \in T
  <2> DEFINE p == Power[m]
             q == Power[n]
  <2>1. p \in Nat /\ q \in Nat /\ Power[n + 1] = 2 * q
    BY PowerFacts
  <2>2. m + n \in Nat /\ m + (n + 1) = (m + n) + 1
    OBVIOUS
  <2>3. Power[m + (n + 1)] = 2 * (p * q)
    BY <1>2, <2>2, PowerFacts
  <2>4. 2 * (p * q) = p * (2 * q)
    <3> HIDE DEF p, q
    <3> QED BY <2>1
  <2> QED BY <2>1, <2>3, <2>4
<1>3. Nat \subseteq T
  <2> HIDE DEF T
  <2> QED BY <1>1, <1>2, NaturalInduction
<1> QED BY <1>3

\* A larger power is a multiple of a smaller one.
LEMMA PowerParts ==
    \A m, n \in Nat : m <= n =>
        /\ n - m \in Nat /\ Power[n] = Power[m] * Power[n - m]
        /\ Power[m] <= Power[n]
<1> SUFFICES ASSUME NEW m \in Nat, NEW n \in Nat, m <= n
             PROVE /\ n - m \in Nat /\ Power[n] = Power[m] * Power[n - m]
                   /\ Power[m] <= Power[n]
  OBVIOUS
<1>1. n - m \in Nat /\ m + (n - m) = n
  OBVIOUS
<1>2. Power[n] = Power[m] * Power[n - m]
  BY <1>1, PowerSum
<1>3. Power[m] \in Nat \ {0} /\ Power[n - m] \in Nat \ {0}
  BY <1>1, PowerFacts
<1>4. ASSUME NEW p \in Nat \ {0}, NEW q \in Nat \ {0} PROVE p <= p * q
  OBVIOUS
<1> QED BY <1>1, <1>2, <1>3, <1>4

\* The number of pairs, 2^128 in the code.
Limit == Base * Base

\* A word has two values or more, and Limit is a power of two.
LEMMA BaseFacts ==
    /\ WordBits \in Nat \ {0} /\ Bits \in Nat
    /\ Base \in Nat \ {0, 1} /\ Limit = Power[Bits]
<1>1. WordBits \in Nat \ {0}
  BY WordAssumption
<1>2. WordBits - 1 \in Nat /\ (WordBits - 1) + 1 = WordBits
  BY <1>1
<1>3. Power[WordBits - 1] \in Nat \ {0} /\ Base = 2 * Power[WordBits - 1]
  BY <1>2, PowerFacts DEF Base
<1>4. Base \in Nat \ {0, 1}
  BY <1>3
<1>5. Bits \in Nat /\ WordBits + WordBits = Bits
  BY <1>1 DEF Bits
<1> QED BY <1>1, <1>4, <1>5, PowerSum DEF Base, Limit

(***************************************************************************)
(* Quotients and remainders.                                               *)
(***************************************************************************)
\* A division leaves a remainder below the divisor ...
LEMMA Divided ==
    ASSUME NEW x \in Nat, NEW d \in Nat \ {0}
    PROVE  /\ x \div d \in Nat /\ x % d \in 0 .. d - 1
           /\ x = (x \div d) * d + (x % d)
  OBVIOUS

\* ... which determines it.
LEMMA Quotients ==
    ASSUME NEW q \in Int, NEW d \in Nat \ {0}, NEW r \in 0 .. d - 1
    PROVE  (q * d + r) \div d = q /\ (q * d + r) % d = r
  OBVIOUS

\* Moving a word of p * d up by p: what leaves it, and what stays.
LEMMA MovedUp ==
    ASSUME NEW p \in Nat \ {0}, NEW d \in Nat \ {0}, NEW x \in Nat
    PROVE  /\ (x * p) % (p * d) = (x % d) * p
           /\ x * p = (x \div d) * (p * d) + (x % d) * p
           /\ (x % d) * p + p <= p * d
           /\ x < p * d => x \div d < p
<1> DEFINE q == x \div d
           r == x % d
<1>1. q \in Nat /\ r \in 0 .. d - 1 /\ x = q * d + r
  BY Divided
<1> HIDE DEF q, r
<1>2. p * d \in Nat \ {0}
  OBVIOUS
<1>3. r * p + p <= p * d
  <2>1. (r + 1) * p <= d * p
    BY <1>1
  <2>2. (r + 1) * p = r * p + p
    BY <1>1
  <2>3. d * p = p * d
    OBVIOUS
  <2>4. r * p \in Nat
    BY <1>1
  <2> QED BY <1>2, <2>1, <2>2, <2>3, <2>4
<1>4. x * p = q * (p * d) + r * p
  <2>1. (q * d + r) * p = (q * d) * p + r * p
    BY <1>1
  <2>2. (q * d) * p = q * (p * d)
    BY <1>1
  <2> QED BY <1>1, <2>1, <2>2
<1>5. r * p \in 0 .. p * d - 1
  <2>1. r * p \in Nat
    BY <1>1
  <2> QED BY <1>2, <1>3, <2>1
<1>6. (x * p) % (p * d) = r * p
  <2> DEFINE lim == p * d
             y == r * p
  <2>1. lim \in Nat \ {0} /\ y \in 0 .. lim - 1 /\ x * p = q * lim + y
    BY <1>2, <1>4, <1>5
  <2> HIDE DEF lim, y
  <2>2. (q * lim + y) % lim = y
    BY <1>1, <2>1, Quotients
  <2>3. (x * p) % lim = y
    BY <2>1, <2>2
  <2> QED BY <2>3 DEF lim, y
<1>7. ASSUME x < p * d PROVE q < p
  <2> SUFFICES ASSUME p <= q PROVE FALSE
    BY <1>1
  <2>1. p * d <= q * d
    BY <1>1
  <2>2. q * d \in Nat
    BY <1>1
  <2> QED BY <1>1, <1>2, <1>7, <2>1, <2>2
<1> QED BY <1>3, <1>4, <1>6, <1>7 DEF q, r

\* Moving it down by p.
LEMMA MovedDown ==
    ASSUME NEW p \in Nat \ {0}, NEW d \in Nat \ {0}, NEW h \in Nat, NEW l \in 0 .. p * d - 1
    PROVE  LET low == (l \div p) + (h % p) * d
           IN /\ (h * d) % (p * d) = (h % p) * d
              /\ low \in 0 .. p * d - 1
              /\ (h * (p * d) + l) \div p = (h \div p) * (p * d) + low
<1> DEFINE q == h \div p
           r == h % p
           q2 == l \div p
           r2 == l % p
           B == p * d
<1>1. /\ q \in Nat /\ r \in 0 .. p - 1 /\ h = q * p + r
      /\ l \in Nat
      /\ q2 \in Nat /\ r2 \in 0 .. p - 1 /\ l = q2 * p + r2
  <2>1. l \in Nat
    OBVIOUS
  <2>2. q \in Nat /\ r \in 0 .. p - 1 /\ h = q * p + r
    BY Divided
  <2>3. q2 \in Nat /\ r2 \in 0 .. p - 1 /\ l = q2 * p + r2
    BY <2>1, Divided
  <2> QED BY <2>1, <2>2, <2>3
<1>2. B \in Nat \ {0} /\ B = d * p
  OBVIOUS
<1>3. (h * d) % B = r * d /\ r * d + d <= B
  <2>1. (h * d) % (d * p) = r * d /\ r * d + d <= d * p
    BY MovedUp
  <2> HIDE DEF B, r
  <2> QED BY <1>2, <2>1
<1>4. q2 < d
  <2>1. l < d * p
    BY <1>2
  <2> QED BY <1>1, <2>1, MovedUp
<1>5. h * B + l = (q * B + (q2 + r * d)) * p + r2
  <2> HIDE DEF q, r, q2, r2
  <2>1. h * B = (q * p) * B + r * B
    BY <1>1, <1>2
  <2>2. r * B = (r * d) * p
    BY <1>1, <1>2
  <2>3. (q * p) * B = (q * B) * p
    BY <1>1, <1>2
  <2>4. q * B \in Nat /\ r * d \in Nat
    BY <1>1, <1>2
  <2>5. (q * B + (q2 + r * d)) * p = (q * B) * p + (q2 * p + (r * d) * p)
    BY <1>1, <2>4
  <2>6. (q * B) * p \in Nat /\ q2 * p \in Nat /\ (r * d) * p \in Nat
    BY <1>1, <2>4
  <2>7. h * B + l = ((q * B) * p + (r * d) * p) + (q2 * p + r2)
    BY <1>1, <2>1, <2>2, <2>3
  <2> HIDE DEF B
  <2> QED BY <1>1, <2>5, <2>6, <2>7
<1> DEFINE m == q * B + (q2 + r * d)
<1>6. r * d \in Nat /\ m \in Nat
  <2> HIDE DEF q, r, q2, r2, B
  <2> QED BY <1>1, <1>2
<1>7. (h * B + l) \div p = m
  <2> HIDE DEF m, r2, B
  <2>1. r2 \in 0 .. p - 1 /\ m \in Int
    BY <1>1, <1>6
  <2>2. (m * p + r2) \div p = m
    BY <2>1, Quotients
  <2> QED BY <1>5, <2>2 DEF m
<1>8. q2 + r * d \in 0 .. B - 1
  <2> HIDE DEF q, r, q2, B
  <2> QED BY <1>1, <1>2, <1>3, <1>4, <1>6
<1> QED BY <1>3, <1>7, <1>8

\* The words of a pair, and the number it stands for.
LEMMA PairFacts ==
    \A a \in U128 : /\ a.hi \in 0 .. Base - 1 /\ a.lo \in 0 .. Base - 1
                    /\ Value(a) \in Nat /\ Value(a) < Limit
<1> SUFFICES ASSUME NEW a \in U128
             PROVE /\ a.hi \in 0 .. Base - 1 /\ a.lo \in 0 .. Base - 1
                   /\ Value(a) \in Nat /\ Value(a) < Limit
  OBVIOUS
<1>1. a.hi \in 0 .. Base - 1 /\ a.lo \in 0 .. Base - 1
  BY DEF U128, Word
<1>2. Base \in Nat \ {0, 1}
  BY BaseFacts
<1>3. (a.hi + 1) * Base <= Base * Base /\ (a.hi + 1) * Base = a.hi * Base + Base
  BY <1>1, <1>2
<1>4. a.hi * Base \in Nat /\ Base * Base \in Nat
  BY <1>1, <1>2
<1> QED BY <1>1, <1>2, <1>3, <1>4 DEF Value, Limit

\* Two words make a pair.
LEMMA PairOf ==
    ASSUME NEW h \in 0 .. Base - 1, NEW l \in 0 .. Base - 1
    PROVE  [lo |-> l, hi |-> h] \in U128 /\ Value([lo |-> l, hi |-> h]) = h * Base + l
  BY DEF U128, Word, Value

\* A whole number of Limits is lost.
LEMMA Lost ==
    ASSUME NEW x, NEW q \in Int, NEW r \in Nat, r < Limit, x = q * Limit + r
    PROVE  r = x % Limit
<1>1. Limit \in Nat \ {0}
  BY BaseFacts DEF Limit
<1> QED BY <1>1, Quotients

\* A number at most once above or below 0 .. B - 1 is reduced by one B.
LEMMA ReduceOnce ==
    ASSUME NEW B \in Nat \ {0}, NEW x \in Int
    PROVE /\ x \in 0 .. B - 1 => x % B = x
          /\ x - B \in 0 .. B - 1 => x % B = x - B
          /\ x + B \in 0 .. B - 1 => x % B = x + B
<1>1. ASSUME NEW q \in Int, NEW r \in 0 .. B - 1, x = q * B + r PROVE x % B = r
  BY <1>1, Quotients
<1> QED
  BY <1>1

\* The same for a word, whose operations wrap.
LEMMA ReduceOnceBase ==
    \A x \in Int : /\ x \in 0 .. Base - 1 => x % Base = x
                   /\ x - Base \in 0 .. Base - 1 => x % Base = x - Base
                   /\ x + Base \in 0 .. Base - 1 => x % Base = x + Base
<1>1. Base \in Nat \ {0}
  BY BaseFacts
<1> QED
  BY <1>1, ReduceOnce, Zenon

\* The same facts, with the numbers as an interval.
LEMMA LimitFacts ==
    /\ Base \in Nat \ {0, 1} /\ Limit \in Nat \ {0}
    /\ \A a \in U128 : Value(a) \in 0 .. Limit - 1
<1>1. Base \in Nat \ {0, 1} /\ Limit \in Nat \ {0}
  BY BaseFacts DEF Limit
<1> QED BY <1>1, PairFacts

\* The number a pair stands for determines the order of pairs.
THEOREM LessExact == \A a, b \in U128 : Less(a, b) <=> Value(a) < Value(b)
<1> SUFFICES ASSUME NEW a \in U128, NEW b \in U128
             PROVE Less(a, b) <=> Value(a) < Value(b)
  OBVIOUS
<1>1. /\ Base \in Nat \ {0, 1}
      /\ a.hi \in 0 .. Base - 1 /\ a.lo \in 0 .. Base - 1
      /\ b.hi \in 0 .. Base - 1 /\ b.lo \in 0 .. Base - 1
  BY BaseFacts DEF U128, Word
<1>2. ASSUME NEW x \in 0 .. Base - 1, NEW y \in 0 .. Base - 1, x < y
      PROVE x * Base + Base <= y * Base
  BY <1>1, <1>2
<1>3. CASE a.hi < b.hi
  BY <1>1, <1>2, <1>3 DEF Less, Value
<1>4. CASE b.hi < a.hi
  BY <1>1, <1>2, <1>4 DEF Less, Value
<1>5. CASE a.hi = b.hi
  BY <1>1, <1>5 DEF Less, Value
<1> QED
  BY <1>1, <1>3, <1>4, <1>5

(***************************************************************************)
(* Sums and differences.                                                   *)
(***************************************************************************)
\* The sum of two pairs, and what was lost from it: nothing or one Limit.
LEMMA SumOfPairs ==
    ASSUME NEW a \in U128, NEW b \in U128
    PROVE /\ Add(a, b) \in U128
          /\ \/ Value(Add(a, b)) = Value(a) + Value(b)
             \/ Value(Add(a, b)) = Value(a) + Value(b) - Limit
<1>1. /\ Base \in Nat \ {0, 1}
      /\ a.hi \in 0 .. Base - 1 /\ a.lo \in 0 .. Base - 1
      /\ b.hi \in 0 .. Base - 1 /\ b.lo \in 0 .. Base - 1
  BY BaseFacts DEF U128, Word
<1> DEFINE lo == (a.lo + b.lo) % Base
           carry == IF lo < a.lo THEN 1 ELSE 0
           h == a.hi + b.hi + carry
           hi == h % Base
<1>2. Add(a, b) = [lo |-> lo, hi |-> hi]
  BY DEF Add
<1>3. lo \in 0 .. Base - 1 /\ carry \in 0 .. 1 /\ lo = a.lo + b.lo - carry * Base
  <2>1. a.lo + b.lo \in Int
    BY <1>1
  <2> DEFINE s == a.lo + b.lo
  <2>2. s \in 0 .. Base - 1 => lo = s
    BY <2>1, ReduceOnceBase, Zenon
  <2>3. s - Base \in 0 .. Base - 1 => lo = s - Base
    <3>1. s \in Int /\ lo = s % Base
      BY <2>1
    <3> HIDE DEF s, lo
    <3> QED
      BY <3>1, ReduceOnceBase, Zenon
  <2> HIDE DEF lo
  <2> QED
    BY <1>1, <2>2, <2>3
<1> HIDE DEF lo, carry
<1>4. h \in 0 .. 2 * Base - 1
  BY <1>1, <1>3
<1>5. hi \in 0 .. Base - 1 /\ (hi = h \/ hi = h - Base)
  <2> HIDE DEF h
  <2>1. h \in Int
    BY <1>1, <1>4
  <2>2. h \in 0 .. Base - 1 => hi = h
    BY <2>1, ReduceOnceBase, Zenon
  <2>3. h - Base \in 0 .. Base - 1 => hi = h - Base
    BY <2>1, ReduceOnceBase, Zenon
  <2> HIDE DEF hi
  <2> QED
    BY <1>1, <1>4, <2>2, <2>3
<1> HIDE DEF hi
<1>6. Add(a, b) \in U128 /\ Value(Add(a, b)) = hi * Base + lo
  BY <1>2, <1>3, <1>5 DEF U128, Word, Value
<1>7. h * Base + lo = Value(a) + Value(b)
  <2>1. h * Base = a.hi * Base + b.hi * Base + carry * Base
    BY <1>1, <1>3
  <2> HIDE DEF h
  <2> QED
    BY <1>1, <1>3, <1>4, <2>1 DEF Value
<1>8. (h - Base) * Base = h * Base - Limit
  BY <1>1, <1>4 DEF Limit
<1> HIDE DEF h
<1>9. h * Base \in Int /\ Limit \in Int /\ lo \in Int
  BY <1>1, <1>3, <1>4 DEF Limit
<1>10. hi * Base = h * Base \/ hi * Base = h * Base - Limit
  BY <1>5, <1>8
<1> QED
  BY <1>6, <1>7, <1>9, <1>10, LimitFacts

\* The difference of two pairs, and what was added to it: nothing or one Limit.
LEMMA DifferenceOfPairs ==
    ASSUME NEW a \in U128, NEW b \in U128
    PROVE /\ Sub(a, b) \in U128
          /\ \/ Value(Sub(a, b)) = Value(a) - Value(b)
             \/ Value(Sub(a, b)) = Value(a) - Value(b) + Limit
<1>1. /\ Base \in Nat \ {0, 1}
      /\ a.hi \in 0 .. Base - 1 /\ a.lo \in 0 .. Base - 1
      /\ b.hi \in 0 .. Base - 1 /\ b.lo \in 0 .. Base - 1
  BY BaseFacts DEF U128, Word
<1> DEFINE lo == (a.lo - b.lo) % Base
           borrow == IF lo > a.lo THEN 1 ELSE 0
           h == a.hi - b.hi - borrow
           hi == h % Base
<1>2. Sub(a, b) = [lo |-> lo, hi |-> hi]
  BY DEF Sub
<1>3. lo \in 0 .. Base - 1 /\ borrow \in 0 .. 1 /\ lo = a.lo - b.lo + borrow * Base
  <2>1. a.lo - b.lo \in Int
    BY <1>1
  <2>2. a.lo - b.lo \in 0 .. Base - 1 => lo = a.lo - b.lo
    BY <2>1, ReduceOnceBase, Zenon
  <2>3. a.lo - b.lo + Base \in 0 .. Base - 1 => lo = a.lo - b.lo + Base
    BY <2>1, ReduceOnceBase, Zenon
  <2> HIDE DEF lo
  <2> QED
    BY <1>1, <2>2, <2>3
<1> HIDE DEF lo, borrow
<1>4. h \in 0 - Base .. Base - 1
  BY <1>1, <1>3
<1>5. hi \in 0 .. Base - 1 /\ (hi = h \/ hi = h + Base)
  <2> HIDE DEF h
  <2>1. h \in Int
    BY <1>1, <1>4
  <2>2. h \in 0 .. Base - 1 => hi = h
    BY <2>1, ReduceOnceBase, Zenon
  <2>3. h + Base \in 0 .. Base - 1 => hi = h + Base
    BY <2>1, ReduceOnceBase, Zenon
  <2> HIDE DEF hi
  <2> QED
    BY <1>1, <1>4, <2>2, <2>3
<1> HIDE DEF hi
<1>6. Sub(a, b) \in U128 /\ Value(Sub(a, b)) = hi * Base + lo
  BY <1>2, <1>3, <1>5 DEF U128, Word, Value
<1>7. h * Base + lo = Value(a) - Value(b)
  <2>1. h * Base = a.hi * Base - b.hi * Base - borrow * Base
    <3>1. (a.hi - b.hi) * Base = a.hi * Base - b.hi * Base
      BY <1>1
    <3>2. (a.hi - b.hi - 1) * Base = (a.hi - b.hi) * Base - Base
      BY <1>1
    <3>3. CASE borrow = 0
      BY <1>1, <3>1, <3>3
    <3>4. CASE borrow = 1
      BY <1>1, <3>1, <3>2, <3>4
    <3> QED
      BY <1>3, <3>3, <3>4
  <2> HIDE DEF h
  <2> QED
    BY <1>1, <1>3, <1>4, <2>1 DEF Value
<1>8. (h + Base) * Base = h * Base + Limit
  BY <1>1, <1>4 DEF Limit
<1> HIDE DEF h
<1>9. h * Base \in Int /\ Limit \in Int /\ lo \in Int
  BY <1>1, <1>3, <1>4 DEF Limit
<1>10. hi * Base = h * Base \/ hi * Base = h * Base + Limit
  BY <1>5, <1>8
<1> QED
  BY <1>6, <1>7, <1>9, <1>10, LimitFacts

\* add128_o computes the sum modulo 2^128, and the sum is smaller than an
\* operand exactly when it did not fit, the test do_arith_checked uses.
THEOREM AddExact ==
    \A a, b \in U128 :
        /\ Add(a, b) \in U128
        /\ Value(Add(a, b)) = (Value(a) + Value(b)) % Limit
        /\ Less(Add(a, b), a) <=> Value(a) + Value(b) >= Limit
<1> SUFFICES ASSUME NEW a \in U128, NEW b \in U128
             PROVE /\ Add(a, b) \in U128
                   /\ Value(Add(a, b)) = (Value(a) + Value(b)) % Limit
                   /\ Less(Add(a, b), a) <=> Value(a) + Value(b) >= Limit
  OBVIOUS
<1> DEFINE s == Value(Add(a, b))
           x == Value(a) + Value(b)
<1>1. Add(a, b) \in U128
  BY SumOfPairs
<1>2. /\ Limit \in Nat \ {0} /\ Value(a) \in 0 .. Limit - 1
      /\ Value(b) \in 0 .. Limit - 1 /\ s \in 0 .. Limit - 1
  BY <1>1, LimitFacts
<1>3. s = x \/ s = x - Limit
  BY <1>2, SumOfPairs
<1>4. s = x % Limit
  <2>1. x \in Int
    BY <1>2
  <2>2. x \in 0 .. Limit - 1 => x % Limit = x
    BY <1>2, <2>1, ReduceOnce, Zenon
  <2>3. x - Limit \in 0 .. Limit - 1 => x % Limit = x - Limit
    BY <1>2, <2>1, ReduceOnce, Zenon
  <2> HIDE DEF s, x
  <2> QED
    BY <1>2, <1>3, <2>1, <2>2, <2>3
<1>5. Less(Add(a, b), a) <=> s < Value(a)
  BY <1>1, LessExact
<1>6. s < Value(a) <=> x >= Limit
  <2> HIDE DEF s
  <2> QED
    BY <1>2, <1>3
<1> QED
  BY <1>1, <1>4, <1>5, <1>6

\* sub128_o computes the difference modulo 2^128, and the difference is greater
\* than the minuend exactly when the subtrahend is greater.
THEOREM SubExact ==
    \A a, b \in U128 :
        /\ Sub(a, b) \in U128
        /\ Value(Sub(a, b)) = (Value(a) - Value(b)) % Limit
        /\ Less(a, Sub(a, b)) <=> Value(a) < Value(b)
<1> SUFFICES ASSUME NEW a \in U128, NEW b \in U128
             PROVE /\ Sub(a, b) \in U128
                   /\ Value(Sub(a, b)) = (Value(a) - Value(b)) % Limit
                   /\ Less(a, Sub(a, b)) <=> Value(a) < Value(b)
  OBVIOUS
<1> DEFINE s == Value(Sub(a, b))
           x == Value(a) - Value(b)
<1>1. Sub(a, b) \in U128
  BY DifferenceOfPairs
<1>2. /\ Limit \in Nat \ {0} /\ Value(a) \in 0 .. Limit - 1
      /\ Value(b) \in 0 .. Limit - 1 /\ s \in 0 .. Limit - 1
  BY <1>1, LimitFacts
<1>3. s = x \/ s = x + Limit
  BY DifferenceOfPairs
<1>4. s = x % Limit
  <2>1. x \in Int
    BY <1>2
  <2>2. x \in 0 .. Limit - 1 => x % Limit = x
    BY <1>2, <2>1, ReduceOnce, Zenon
  <2>3. x + Limit \in 0 .. Limit - 1 => x % Limit = x + Limit
    BY <1>2, <2>1, ReduceOnce, Zenon
  <2> HIDE DEF s, x
  <2> QED
    BY <1>2, <1>3, <2>1, <2>2, <2>3
<1>5. Less(a, Sub(a, b)) <=> Value(a) < s
  BY <1>1, LessExact
<1>6. Value(a) < s <=> Value(a) < Value(b)
  <2> HIDE DEF s
  <2> QED
    BY <1>2, <1>3
<1> QED
  BY <1>1, <1>4, <1>5, <1>6

\* Inverting and adding one negates modulo 2^128, also zero and the minimum.
THEOREM NegExact ==
    \A a \in U128 : Neg(a) \in U128 /\ Value(Neg(a)) = (0 - Value(a)) % Limit
<1> SUFFICES ASSUME NEW a \in U128
             PROVE Neg(a) \in U128 /\ Value(Neg(a)) = (0 - Value(a)) % Limit
  OBVIOUS
<1> DEFINE i == Inverse128(a)
<1>1. /\ Base \in Nat \ {0, 1}
      /\ a.hi \in 0 .. Base - 1 /\ a.lo \in 0 .. Base - 1
  BY BaseFacts DEF U128, Word
<1>2. i \in U128 /\ One \in U128
  BY <1>1 DEF Inverse128, One, U128, Word
<1>3. Value(i) = Limit - 1 - Value(a)
  <2>1. (Base - 1 - a.hi) * Base = Limit - Base - a.hi * Base
    BY <1>1 DEF Limit
  <2>2. Limit \in Int /\ a.hi * Base \in Int
    BY <1>1 DEF Limit
  <2>3. i.hi = Base - 1 - a.hi /\ i.lo = Base - 1 - a.lo
    BY DEF Inverse128
  <2>4. Value(i) = (Limit - Base - a.hi * Base) + (Base - 1 - a.lo)
    BY <2>1, <2>3 DEF Value
  <2>5. Value(a) = a.hi * Base + a.lo
    BY DEF Value
  <2> HIDE DEF i
  <2> QED
    BY <1>1, <2>2, <2>4, <2>5
<1>4. Value(One) = 1
  BY <1>1 DEF Value, One
<1>5. Limit \in Nat \ {0} /\ Value(a) \in 0 .. Limit - 1
  BY LimitFacts
<1> DEFINE x == 0 - Value(a)
           n == Value(Neg(a))
<1>6. Neg(a) \in U128 /\ (n = x + Limit \/ n = x)
  <2>1. Neg(a) = Add(i, One)
    BY DEF Neg
  <2>2. \/ n = Value(i) + Value(One)
        \/ n = Value(i) + Value(One) - Limit
    BY <1>2, <1>3, <1>4, <1>5, <2>1, SumOfPairs
  <2>3. Neg(a) \in U128
    BY <1>2, <2>1, SumOfPairs
  <2> HIDE DEF i, n
  <2> QED
    BY <1>3, <1>4, <1>5, <2>2, <2>3
<1>7. n \in 0 .. Limit - 1
  BY <1>6, LimitFacts
<1>8. x \in Int
  BY <1>5
<1>9. x \in 0 .. Limit - 1 => x % Limit = x
  BY <1>5, <1>8, ReduceOnce, Zenon
<1>10. x + Limit \in 0 .. Limit - 1 => x % Limit = x + Limit
  BY <1>5, <1>8, ReduceOnce, Zenon
<1> HIDE DEF n, x
<1>11. n = x % Limit
  BY <1>5, <1>6, <1>7, <1>8, <1>9, <1>10
<1> QED
  BY <1>6, <1>11 DEF n, x

(***************************************************************************)
(* Shifts.                                                                 *)
(***************************************************************************)
\* operator<< moves the number up, and loses what leaves the pair.
THEOREM ShlExact ==
    \A a \in U128, n \in Nat :
        Shl(a, n) \in U128 /\ Value(Shl(a, n)) = (Value(a) * Power[n]) % Limit
<1> SUFFICES ASSUME NEW a \in U128, NEW n \in Nat
             PROVE  Shl(a, n) \in U128 /\ Value(Shl(a, n)) = (Value(a) * Power[n]) % Limit
  OBVIOUS
<1> DEFINE h == a.hi
           l == a.lo
           W == WordBits
           p == Power[n]
           s == Shl(a, n)
<1>1. /\ W \in Nat \ {0} /\ Bits = W + W /\ Base \in Nat \ {0, 1}
      /\ h \in 0 .. Base - 1 /\ l \in 0 .. Base - 1
      /\ Value(a) = h * Base + l
      /\ Value(a) \in Nat /\ Value(a) < Limit
      /\ p \in Nat \ {0}
  BY BaseFacts, PairFacts, PowerFacts DEF Value, Bits
<1>2. CASE n = 0
  <2>1. s = a /\ p = 1
    <3>1. s = a
      BY <1>1, <1>2 DEF Shl
    <3>2. p = 1
      BY <1>2, PowerFacts
    <3> QED BY <3>1, <3>2
  <2>2. Value(a) = 0 * Limit + Value(a)
    BY <1>1, BaseFacts DEF Limit
  <2> HIDE DEF p, s
  <2>3. Value(a) * p = Value(a)
    BY <1>1, <2>1
  <2>4. Value(a) = Value(a) % Limit
    BY <1>1, <2>2, Lost
  <2> QED BY <2>1, <2>3, <2>4 DEF s, p
<1>3. CASE n >= Bits
  <2>1. s = Zero
    BY <1>1, <1>3 DEF Shl
  <2>2. Zero \in U128 /\ Value(Zero) = 0
    BY <1>1 DEF Zero, U128, Word, Value
  <2> DEFINE k == Power[n - Bits]
  <2>3. p = Limit * k /\ k \in Nat
    BY <1>1, <1>3, BaseFacts, PowerParts, PowerFacts
  <2>4. Value(a) * p = (Value(a) * k) * Limit + 0
    <3> HIDE DEF p, k
    <3> QED BY <1>1, <2>3, BaseFacts DEF Limit
  <2>5. 0 = (Value(a) * p) % Limit
    <3> HIDE DEF p, k, h, l
    <3>1. Value(a) * k \in Int /\ 0 < Limit
      BY <1>1, <2>3, BaseFacts DEF Limit
    <3> QED BY <2>4, <3>1, Lost
  <2> QED BY <2>1, <2>2, <2>5
<1>4. CASE n >= W /\ n < Bits
  <2> DEFINE k == Power[n - W]
             x == l * k
  <2>1. s = [lo |-> 0, hi |-> x % Base]
    BY <1>1, <1>4 DEF Shl
  <2>2. p = Base * k /\ k \in Nat
    BY <1>1, <1>4, PowerParts, PowerFacts DEF Base
  <2>3. x \in Nat
    BY <1>1, <2>2
  <2> DEFINE q == x \div Base
             r == x % Base
  <2>4. q \in Nat /\ r \in 0 .. Base - 1 /\ x = q * Base + r
    <3> HIDE DEF x
    <3> QED BY <1>1, <2>3, Divided
  <2>5. s \in U128 /\ Value(s) = r * Base
    <3> HIDE DEF q, r, s
    <3>1. 0 \in 0 .. Base - 1
      BY <1>1
    <3>2. s \in U128 /\ Value(s) = r * Base + 0
      BY <2>1, <2>4, <3>1, PairOf DEF r
    <3>3. r * Base \in Nat
      BY <1>1, <2>4
    <3> QED BY <3>2, <3>3
  <2>6. Value(a) * p = (h * k + q) * Limit + Value(s)
    <3> HIDE DEF p, k, q, r, s, h, l
    <3>1. (h * Base + l) * (Base * k) = (h * k) * (Base * Base) + (l * k) * Base
      BY <1>1, <2>2
    <3>2. (q * Base + r) * Base = q * (Base * Base) + r * Base
      BY <1>1, <2>4
    <3>3. h * k \in Nat /\ Base * Base \in Nat /\ r * Base \in Nat
      BY <1>1, <2>2, <2>4
    <3>4. (h * k + q) * (Base * Base) = (h * k) * (Base * Base) + q * (Base * Base)
      BY <2>4, <3>3
    <3>5. (h * k) * (Base * Base) \in Nat /\ q * (Base * Base) \in Nat
      BY <2>4, <3>3
    <3> QED BY <1>1, <2>2, <2>4, <2>5, <3>1, <3>2, <3>3, <3>4, <3>5 DEF Limit
  <2>7. Value(s) \in Nat /\ Value(s) < Limit
    BY <2>5, PairFacts
  <2>8. h * k + q \in Int
    BY <1>1, <2>2, <2>4
  <2> HIDE DEF p, k, q, r, s, h, l
  <2>9. Value(s) = (Value(a) * p) % Limit
    BY <2>6, <2>7, <2>8, Lost
  <2> QED BY <2>5, <2>9 DEF s, p
<1>5. CASE n > 0 /\ n < W
  <2> DEFINE d == Power[W - n]
             q == l \div d
             r == l % d
             q2 == h \div d
             r2 == h % d
  <2>1. s = [lo |-> (l * p) % Base, hi |-> ((h * p) % Base) + q]
    BY <1>1, <1>5 DEF Shl
  <2>2. Base = p * d /\ d \in Nat \ {0}
    <3>1. n <= W /\ W - n \in Nat
      BY <1>1, <1>5
    <3> QED BY <1>1, <3>1, PowerParts, PowerFacts DEF Base
  <2> HIDE DEF p, d, s, h, l
  <2>3. /\ h \in Nat /\ l \in Nat
        /\ q \in Nat /\ r \in Nat /\ q2 \in Nat /\ r2 \in Nat
    BY <1>1, <2>2, Divided
  <2>4. /\ (l * p) % Base = r * p /\ l * p = q * Base + r * p
        /\ r * p + p <= Base /\ q < p
    <3>1. l < p * d
      BY <1>1, <2>2
    <3>2. /\ (l * p) % (p * d) = r * p /\ l * p = q * (p * d) + r * p
          /\ r * p + p <= p * d /\ q < p
      BY <1>1, <2>2, <2>3, <3>1, MovedUp
    <3> QED BY <2>2, <3>2
  <2>5. /\ (h * p) % Base = r2 * p /\ h * p = q2 * Base + r2 * p
        /\ r2 * p + p <= Base
    BY <1>1, <2>2, <2>3, MovedUp
  <2> HIDE DEF q, r, q2, r2
  <2>6. r * p \in 0 .. Base - 1 /\ r2 * p + q \in 0 .. Base - 1
    <3>1. r * p \in Nat /\ r2 * p \in Nat
      BY <1>1, <2>3
    <3> QED BY <1>1, <2>3, <2>4, <2>5, <3>1
  <2>7. s \in U128 /\ Value(s) = (r2 * p + q) * Base + r * p
    BY <2>1, <2>4, <2>5, <2>6, PairOf
  <2>8. Value(a) * p = q2 * Limit + Value(s)
    <3>1. (h * Base + l) * p = (h * p) * Base + l * p
      BY <1>1
    <3>2. r2 * p \in Nat /\ r * p \in Nat
      BY <1>1, <2>3
    <3>3. (q2 * Base + r2 * p) * Base = q2 * (Base * Base) + (r2 * p) * Base
      BY <1>1, <2>3, <3>2
    <3>4. (r2 * p + q) * Base = (r2 * p) * Base + q * Base
      BY <1>1, <2>3, <3>2
    <3>5. (r2 * p) * Base \in Nat /\ q * Base \in Nat /\ q2 * (Base * Base) \in Nat
      BY <1>1, <2>3, <3>2
    <3> QED BY <1>1, <2>4, <2>5, <2>7, <3>1, <3>2, <3>3, <3>4, <3>5 DEF Limit
  <2>9. Value(s) \in Nat /\ Value(s) < Limit
    BY <2>7, PairFacts
  <2>10. Value(s) = (Value(a) * p) % Limit
    BY <2>3, <2>8, <2>9, Lost
  <2> QED BY <2>7, <2>10 DEF s, p
<1>6. n = 0 \/ n >= Bits \/ (n >= W /\ n < Bits) \/ (n > 0 /\ n < W)
  BY <1>1
<1> QED BY <1>2, <1>3, <1>4, <1>5, <1>6

\* operator>> moves the number down, and loses what leaves the pair.
THEOREM ShrExact ==
    \A a \in U128, n \in Nat :
        Shr(a, n) \in U128 /\ Value(Shr(a, n)) = Value(a) \div Power[n]
<1> SUFFICES ASSUME NEW a \in U128, NEW n \in Nat
             PROVE  Shr(a, n) \in U128 /\ Value(Shr(a, n)) = Value(a) \div Power[n]
  OBVIOUS
<1> DEFINE h == a.hi
           l == a.lo
           W == WordBits
           p == Power[n]
           s == Shr(a, n)
<1>1. /\ W \in Nat \ {0} /\ Bits = W + W /\ Base \in Nat \ {0, 1}
      /\ h \in 0 .. Base - 1 /\ l \in 0 .. Base - 1
      /\ Value(a) = h * Base + l
      /\ Value(a) \in Nat /\ Value(a) < Limit
      /\ p \in Nat \ {0}
  BY BaseFacts, PairFacts, PowerFacts DEF Value, Bits
<1>2. CASE n = 0
  <2>1. s = a
    BY <1>1, <1>2 DEF Shr
  <2>2. p = 1
    BY <1>2, PowerFacts
  <2> HIDE DEF p, s
  <2>3. Value(a) \div p = Value(a)
    BY <1>1, <2>2
  <2> QED BY <2>1, <2>3 DEF s, p
<1>3. CASE n >= Bits
  <2>1. s = Zero
    BY <1>1, <1>3 DEF Shr
  <2>2. Zero \in U128 /\ Value(Zero) = 0
    BY <1>1 DEF Zero, U128, Word, Value
  <2>3. Limit <= p
    BY <1>1, <1>3, BaseFacts, PowerParts
  <2> HIDE DEF p, s
  <2>4. Limit \in Nat
    BY <1>1 DEF Limit
  <2> DEFINE v == Value(a)
  <2>5. v \in 0 .. p - 1
    BY <1>1, <2>3, <2>4
  <2> HIDE DEF v
  <2>6. 0 \in Int /\ 0 * p + v = v
    BY <1>1, <2>5
  <2>7. (0 * p + v) \div p = 0
    BY <1>1, <2>5, <2>6, Quotients
  <2> QED BY <2>1, <2>2, <2>6, <2>7 DEF s, p, v
<1>4. CASE n >= W /\ n < Bits
  <2> DEFINE k == Power[n - W]
             q == h \div k
             r == h % k
  <2>1. s = [lo |-> q, hi |-> 0]
    BY <1>1, <1>4 DEF Shr
  <2>2. p = Base * k /\ k \in Nat \ {0}
    BY <1>1, <1>4, PowerParts, PowerFacts DEF Base
  <2> HIDE DEF p, k, s, h, l
  <2>3. /\ h \in Nat /\ l \in Nat
        /\ q \in Nat /\ r \in 0 .. k - 1 /\ h = q * k + r
    <3>1. h \in Nat /\ l \in Nat
      BY <1>1
    <3> QED BY <2>2, <3>1, Divided
  <2> HIDE DEF q, r
  <2>4. q \in 0 .. Base - 1
    <3>1. q <= q * k /\ q * k \in Nat
      BY <2>2, <2>3
    <3> QED BY <1>1, <2>2, <2>3, <3>1
  <2>5. s \in U128 /\ Value(s) = q
    <3>1. 0 \in 0 .. Base - 1 /\ 0 * Base + q = q
      BY <1>1, <2>3
    <3> QED BY <2>1, <2>4, <3>1, PairOf
  <2>6. Value(a) = q * p + (r * Base + l)
    <3>1. h * Base = q * (Base * k) + r * Base
      BY <1>1, <2>2, <2>3
    <3>2. q * p \in Nat /\ r * Base \in Nat
      BY <1>1, <2>3
    <3> QED BY <1>1, <2>2, <2>3, <3>1, <3>2
  <2>7. r * Base + l \in 0 .. p - 1
    <3>1. (r + 1) * Base <= k * Base /\ (r + 1) * Base = r * Base + Base
      BY <1>1, <2>2, <2>3
    <3>2. r * Base \in Nat /\ k * Base = p
      BY <1>1, <2>2, <2>3
    <3> QED BY <1>1, <2>3, <3>1, <3>2
  <2>8. Value(a) \div p = q
    <3> DEFINE m == r * Base + l
    <3>1. m \in 0 .. p - 1 /\ q \in Int
      BY <2>3, <2>7
    <3> HIDE DEF m
    <3>2. (q * p + m) \div p = q
      BY <1>1, <3>1, Quotients
    <3> QED BY <2>6, <3>2 DEF m
  <2> QED BY <2>5, <2>8 DEF s, p
<1>5. CASE n > 0 /\ n < W
  <2> DEFINE d == Power[W - n]
             low == (l \div p) + (h % p) * d
             q == h \div p
  <2>1. s = [lo |-> (l \div p) + ((h * d) % Base), hi |-> q]
    BY <1>1, <1>5 DEF Shr
  <2>2. Base = p * d /\ d \in Nat \ {0}
    <3>1. n <= W /\ W - n \in Nat
      BY <1>1, <1>5
    <3> QED BY <1>1, <3>1, PowerParts, PowerFacts DEF Base
  <2> HIDE DEF p, d, s, h, l
  <2>3. h \in Nat /\ l \in 0 .. p * d - 1
    BY <1>1, <2>2
  <2>4. /\ (h * d) % (p * d) = (h % p) * d
        /\ low \in 0 .. p * d - 1
        /\ (h * (p * d) + l) \div p = (h \div p) * (p * d) + low
    <3>1. p \in Nat \ {0} /\ d \in Nat \ {0}
      BY <1>1, <2>2
    <3> QED BY <2>3, <3>1, MovedDown, Zenon
  <2>5. q \in Nat /\ h = q * p + (h % p) /\ (h % p) \in Nat
    <3>1. h \in Nat
      BY <1>1
    <3> QED BY <1>1, <3>1, Divided
  <2>6. q \in 0 .. Base - 1
    <3> HIDE DEF q
    <3>1. q <= q * p /\ q * p \in Nat
      BY <1>1, <2>5
    <3> QED BY <1>1, <2>5, <3>1
  <2> HIDE DEF q
  <2>7. s = [lo |-> low, hi |-> q]
    BY <2>1, <2>2, <2>4
  <2> HIDE DEF low
  <2>8. s \in U128 /\ Value(s) = q * Base + low
    BY <2>2, <2>4, <2>6, <2>7, PairOf
  <2>9. Value(a) \div p = q * Base + low
    BY <1>1, <2>2, <2>4 DEF q
  <2> QED BY <2>8, <2>9 DEF s, p
<1>6. n = 0 \/ n >= Bits \/ (n >= W /\ n < Bits) \/ (n > 0 /\ n < W)
  BY <1>1
<1> QED BY <1>2, <1>3, <1>4, <1>5, <1>6

(***************************************************************************)
(* Products.                                                               *)
(***************************************************************************)
\* Sums and products modulo lim.
LEMMA ModuloSum ==
    ASSUME NEW x \in Nat, NEW y \in Nat, NEW lim \in Nat \ {0}
    PROVE  ((x % lim) + (y % lim)) % lim = (x + y) % lim
<1> DEFINE q == x \div lim
           r == x % lim
           k == y \div lim
           m == y % lim
           u == (r + m) \div lim
           v == (r + m) % lim
<1>1. /\ q \in Nat /\ r \in Nat /\ x = q * lim + r
      /\ k \in Nat /\ m \in Nat /\ y = k * lim + m
  BY Divided
<1> HIDE DEF q, r, k, m
<1>2. u \in Nat /\ v \in 0 .. lim - 1 /\ r + m = u * lim + v
  <2>1. r + m \in Nat
    BY <1>1
  <2> QED BY <2>1, Divided
<1> HIDE DEF u, v
<1>3. x + y = (q + k + u) * lim + v
  <2>1. (q + k + u) * lim = q * lim + k * lim + u * lim
    BY <1>1, <1>2
  <2>2. q * lim \in Nat /\ k * lim \in Nat /\ u * lim \in Nat
    BY <1>1, <1>2
  <2> QED BY <1>1, <1>2, <2>1, <2>2
<1>4. q + k + u \in Int
  BY <1>1, <1>2
<1>5. ((q + k + u) * lim + v) % lim = v
  BY <1>2, <1>4, Quotients
<1> QED BY <1>3, <1>5 DEF r, m, v

\* A factor may be reduced first.
LEMMA ModuloProduct ==
    ASSUME NEW x \in Nat, NEW y \in Nat, NEW lim \in Nat \ {0}
    PROVE  ((x % lim) * y) % lim = (x * y) % lim
<1> DEFINE q == x \div lim
           r == x % lim
           u == (r * y) \div lim
           v == (r * y) % lim
<1>1. q \in Nat /\ r \in Nat /\ x = q * lim + r
  BY Divided
<1> HIDE DEF q, r
<1>2. u \in Nat /\ v \in 0 .. lim - 1 /\ r * y = u * lim + v
  <2>1. r * y \in Nat
    BY <1>1
  <2> QED BY <2>1, Divided
<1> HIDE DEF u, v
<1>3. x * y = (q * y + u) * lim + v
  <2>1. (q * lim + r) * y = (q * y) * lim + r * y
    BY <1>1
  <2>2. q * y \in Nat
    BY <1>1
  <2>3. (q * y + u) * lim = (q * y) * lim + u * lim
    BY <1>2, <2>2
  <2>4. (q * y) * lim \in Nat /\ u * lim \in Nat
    BY <1>2, <2>2
  <2> QED BY <1>1, <1>2, <2>1, <2>3, <2>4
<1>4. q * y + u \in Int
  BY <1>1, <1>2
<1>5. ((q * y + u) * lim + v) % lim = v
  BY <1>2, <1>4, Quotients
<1> QED BY <1>3, <1>5 DEF r, v

\* One more bit of a number.
LEMMA OneMoreBit ==
    ASSUME NEW x \in Nat, NEW p \in Nat \ {0}
    PROVE  x % (2 * p) = (x % p) + (IF (x \div p) % 2 = 1 THEN p ELSE 0)
<1> DEFINE q == x \div p
           r == x % p
           k == q \div 2
           t == q % 2
<1>1. q \in Nat /\ r \in 0 .. p - 1 /\ x = q * p + r
  BY Divided
<1> HIDE DEF q, r
<1>2. k \in Nat /\ t \in 0 .. 1 /\ q = k * 2 + t
  BY <1>1
<1> HIDE DEF k, t
<1> DEFINE m == IF t = 1 THEN p + r ELSE r
           P == 2 * p
<1>3. x = k * P + m
  <2>1. (k * 2) * p = k * (2 * p) /\ (k * 2 + 1) * p = k * (2 * p) + p
    BY <1>2
  <2>2. k * (2 * p) \in Nat
    BY <1>2
  <2> QED BY <1>1, <1>2, <2>1, <2>2
<1>4. m \in 0 .. P - 1 /\ P \in Nat \ {0} /\ k \in Int
  BY <1>1, <1>2
<1> HIDE DEF P
<1>5. x % P = m
  <2> HIDE DEF m
  <2>1. (k * P + m) % P = m
    BY <1>4, Quotients
  <2> QED BY <1>3, <2>1
<1> QED BY <1>1, <1>5 DEF r, q, t, P

\* U128::bit(i).
LEMMA BitExact ==
    ASSUME NEW a \in U128, NEW i \in Nat, i < Bits
    PROVE  Bit(a, i) <=> (Value(a) \div Power[i]) % 2 = 1
<1> DEFINE h == a.hi
           l == a.lo
           W == WordBits
           p == Power[i]
<1>1. /\ W \in Nat \ {0} /\ Bits = W + W /\ Base \in Nat \ {0, 1}
      /\ h \in 0 .. Base - 1 /\ l \in 0 .. Base - 1
      /\ Value(a) = h * Base + l
      /\ p \in Nat \ {0}
  BY BaseFacts, PairFacts, PowerFacts DEF Value, Bits
<1>2. CASE i < W
  <2> DEFINE e == Power[W - i - 1]
             d == 2 * e
  <2>1. Base = p * d /\ e \in Nat \ {0}
    <3>1. i <= W /\ W - i \in Nat /\ W - i - 1 \in Nat /\ (W - i - 1) + 1 = W - i
      BY <1>1, <1>2
    <3>2. Power[W - i] = d /\ e \in Nat \ {0}
      BY <3>1, PowerFacts
    <3> QED BY <1>1, <3>1, <3>2, PowerParts DEF Base
  <2>2. Bit(a, i) <=> (l \div p) % 2 = 1
    BY <1>2 DEF Bit
  <2> HIDE DEF e, p, h, l
  <2> DEFINE low == (l \div p) + (h % p) * d
  <2>3. h \in Nat /\ l \in Nat
    BY <1>1
  <2>4. d \in Nat \ {0} /\ l \in 0 .. p * d - 1
    BY <1>1, <2>1
  <2>5. (h * (p * d) + l) \div p = (h \div p) * (p * d) + low
    <3> HIDE DEF d
    <3> QED BY <1>1, <2>3, <2>4, MovedDown, Zenon
  <2>6. l \div p \in Nat /\ h \div p \in Nat /\ (h % p) \in Nat
    BY <1>1, <2>3, Divided
  <2> DEFINE x == l \div p
             y == (h \div p) * (p * e) + (h % p) * e
  <2>7. x \in Nat /\ y \in Nat
    BY <1>1, <2>1, <2>6
  <2>8. Value(a) \div p = y * 2 + x
    <3> DEFINE u == h \div p
               v == h % p
    <3>1. u \in Nat /\ v \in Nat
      BY <2>6
    <3> HIDE DEF u, v, x
    <3>2. u * (p * (2 * e)) = (u * (p * e)) * 2 /\ v * (2 * e) = (v * e) * 2
      BY <1>1, <2>1, <3>1
    <3>3. u * (p * e) \in Nat /\ v * e \in Nat
      BY <1>1, <2>1, <3>1
    <3>4. Value(a) \div p = u * (p * (2 * e)) + (x + v * (2 * e))
      BY <1>1, <2>1, <2>5 DEF u, v, x
    <3>5. y = u * (p * e) + v * e
      BY DEF u, v
    <3> HIDE DEF y
    <3> QED BY <2>7, <3>2, <3>3, <3>4, <3>5
  <2>9. (y * 2 + x) % 2 = x % 2
    <3> HIDE DEF x, y
    <3> QED BY <2>7
  <2> HIDE DEF y
  <2> QED BY <2>2, <2>8, <2>9 DEF p
<1>3. CASE i >= W
  <2>1. Shr(a, i) = [lo |-> h \div Power[i - W], hi |-> 0]
    BY <1>1, <1>3 DEF Shr
  <2>2. Value(Shr(a, i)) = Value(a) \div p
    BY ShrExact
  <2>3. h \div Power[i - W] \in Nat
    <3>1. h \in Nat /\ i - W \in Nat
      BY <1>1, <1>3
    <3> QED BY <3>1, PowerFacts, Divided
  <2>4. Value(Shr(a, i)) = h \div Power[i - W]
    BY <1>1, <2>1, <2>3 DEF Value
  <2>5. Bit(a, i) <=> (h \div Power[i - W]) % 2 = 1
    BY <1>1, <1>3 DEF Bit
  <2> QED BY <2>2, <2>4, <2>5
<1> QED BY <1>1, <1>2, <1>3

\* When mul128_o stops.
Spent128(a, i) == LET m == Power[i % WordBits]
                  IN \/ a.hi = 0 /\ a.lo < m
                     \/ i >= WordBits /\ a.hi < m

\* Then the first operand has no bit left.
LEMMA SpentExact ==
    ASSUME NEW a \in U128, NEW i \in Nat, i < Bits, Spent128(a, i)
    PROVE  Value(a) < Power[i]
<1> DEFINE h == a.hi
           l == a.lo
           W == WordBits
           m == Power[i % W]
<1>1. /\ W \in Nat \ {0} /\ Bits = W + W /\ Base \in Nat \ {0, 1}
      /\ h \in 0 .. Base - 1 /\ l \in 0 .. Base - 1
      /\ Value(a) = h * Base + l
  BY BaseFacts, PairFacts DEF Value, Bits
<1>2. (h = 0 /\ l < m) \/ (i >= W /\ h < m)
  BY DEF Spent128
<1>3. CASE i < W
  <2>1. i % W = i
    BY <1>1, <1>3
  <2>2. m = Power[i]
    BY <2>1
  <2> HIDE DEF m
  <2>3. h = 0 /\ l < Power[i]
    BY <1>1, <1>2, <1>3, <2>2
  <2> HIDE DEF h, l
  <2> QED BY <1>1, <2>3
<1>4. CASE i >= W
  <2> DEFINE k == i - W
             p == Power[k]
  <2>1. k \in 0 .. W - 1 /\ i = W + k /\ i = 1 * W + k
    BY <1>1, <1>4
  <2>2. i % W = k
    <3> HIDE DEF k
    <3>0. 1 \in Int
      OBVIOUS
    <3>1. (1 * W + k) % W = k
      BY <3>0, <1>1, <2>1, Quotients
    <3> QED BY <2>1, <3>1
  <2>3. m = p
    BY <2>2
  <2>4. p \in Nat \ {0} /\ Power[i] = Base * p
    <3>1. k \in Nat
      BY <2>1
    <3> HIDE DEF k
    <3> QED BY <1>1, <2>1, <3>1, PowerFacts, PowerSum DEF Base
  <2> HIDE DEF m, p, k, h, l
  <2>5. h < p
    BY <1>1, <1>2, <2>3, <2>4
  <2>6. (h + 1) * Base <= Base * p /\ (h + 1) * Base = h * Base + Base
    BY <1>1, <2>4, <2>5
  <2>7. h * Base \in Nat /\ Base * p \in Nat
    BY <1>1, <2>4
  <2> QED BY <1>1, <2>4, <2>6, <2>7
<1> QED BY <1>1, <1>3, <1>4

\* operator* is exact modulo the square of the word.
THEOREM MulExact ==
    \A a, b \in U128 :
        Mul(a, b) \in U128 /\ Value(Mul(a, b)) = (Value(a) * Value(b)) % Limit
<1> SUFFICES ASSUME NEW a \in U128, NEW b \in U128
             PROVE  Mul(a, b) \in U128 /\ Value(Mul(a, b)) = (Value(a) * Value(b)) % Limit
  OBVIOUS
<1> DEFINE x == Value(a)
           y == Value(b)
           S == [o : U128, b : U128, done : BOOLEAN]
           start == [o |-> Zero, b |-> b, done |-> FALSE]
           Step(acc, i) ==
               IF acc.done \/ Spent128(a, i) THEN [acc EXCEPT !.done = TRUE]
               ELSE [o |-> IF Bit(a, i) THEN Add(acc.o, acc.b) ELSE acc.o,
                     b |-> Shl(acc.b, 1), done |-> FALSE]
           step == [z \in Nat \X S |-> Step(z[2], z[1])]
           run[n \in 0 .. Bits] == IF n = 0 THEN start ELSE Step(run[n - 1], n - 1)
<1>1. Mul(a, b) = run[Bits].o
  BY DEF Mul, Spent128
<1>2. x \in Nat /\ x < Limit /\ y \in Nat /\ y < Limit /\ Limit \in Nat \ {0}
  BY PairFacts, BaseFacts DEF Limit
<1>3. start \in S /\ Zero \in U128 /\ Value(Zero) = 0
  BY BaseFacts DEF Zero, U128, Word, Value
<1>4. ASSUME NEW acc \in S, NEW i \in Nat PROVE Step(acc, i) \in S
  <2>1. Add(acc.o, acc.b) \in U128 /\ Shl(acc.b, 1) \in U128
    BY SumOfPairs, ShlExact
  <2> QED BY <2>1
<1>5. step \in [Nat \X S -> S]
  BY <1>4
<1>6. run = [n \in 0 .. Bits |-> IF n = 0 THEN start ELSE Step(run[n - 1], n - 1)]
  <2>1. PICK g \in [0 .. Bits -> S] : Runs(g, Bits, start, step)
    <3> HIDE DEF S, start, step
    <3> QED BY <1>3, <1>5, RunExists, BaseFacts
  <2>2. g[0] = start
    BY <2>1 DEF Runs
  <2>3. ASSUME NEW n \in 0 .. Bits, n # 0 PROVE g[n] = Step(g[n - 1], n - 1)
    <3>1. /\ n - 1 \in Nat /\ n - 1 \in 0 .. Bits /\ n - 1 \in 0 .. Bits - 1
          /\ (n - 1) + 1 = n
      BY <2>3, BaseFacts
    <3>2. g[n - 1] \in S
      BY <3>1
    <3> HIDE DEF S, Step
    <3>3. step[<<n - 1, g[n - 1]>>] = Step(g[n - 1], n - 1)
      BY <3>1, <3>2
    <3> HIDE DEF step, start
    <3>4. g[n] = step[<<n - 1, g[n - 1]>>]
      BY <2>1, <3>1 DEF Runs
    <3> QED BY <3>3, <3>4
  <2> HIDE DEF S, start, step, Step
  <2>4. g = [n \in 0 .. Bits |-> IF n = 0 THEN start ELSE Step(g[n - 1], n - 1)]
    BY <2>2, <2>3
  <2> QED BY <2>4
<1> HIDE DEF run, step
<1> DEFINE Good(z, n) ==
               /\ z \in S
               /\ ~z.done => /\ Value(z.b) = (y * Power[n]) % Limit
                             /\ Value(z.o) = (y * (x % Power[n])) % Limit
               /\ z.done => Value(z.o) = (x * y) % Limit
<1>7. Good(start, 0)
  <2>1. Power[0] = 1 /\ x % 1 = 0
    BY <1>2, PowerFacts
  <2>2. y * 1 = y /\ y % Limit = y /\ y * 0 = 0 /\ 0 % Limit = 0
    BY <1>2
  <2>3. start.b = b /\ start.o = Zero /\ ~start.done
    OBVIOUS
  <2> HIDE DEF start, S, x, y
  <2>4. Value(start.b) = (y * Power[0]) % Limit
    BY <2>1, <2>2, <2>3 DEF y
  <2>5. Value(start.o) = (y * (x % Power[0])) % Limit
    BY <1>3, <2>1, <2>2, <2>3
  <2> QED BY <1>3, <2>3, <2>4, <2>5
<1>8. ASSUME NEW z, NEW n \in Nat, n < Bits, Good(z, n) PROVE Good(Step(z, n), n + 1)
  <2> DEFINE p == Power[n]
             w == Step(z, n)
  <2>1. z \in S /\ w \in S
    BY <1>4, <1>8
  <2>2. p \in Nat \ {0} /\ Power[n + 1] = 2 * p
    BY PowerFacts
  <2>3. (x % p) \in Nat
    <3> HIDE DEF x, p
    <3> QED BY <1>2, <2>2, Divided
  <2>4. CASE z.done
    <3>1. w.done /\ w.o = z.o
      BY <2>1, <2>4
    <3> HIDE DEF w
    <3> QED BY <1>8, <2>1, <2>4, <3>1
  <2>5. CASE ~z.done /\ Spent128(a, n)
    <3>1. w.done /\ w.o = z.o
      BY <2>1, <2>5
    <3>2. x < p
      BY <1>8, <2>5, SpentExact
    <3> HIDE DEF w, x, y, p
    <3>3. x % p = x
      BY <1>2, <2>2, <3>2
    <3>4. Value(z.o) = (x * y) % Limit
      <4>1. Value(z.o) = (y * x) % Limit
        BY <1>8, <2>5, <3>3 DEF p
      <4>2. y * x = x * y
        BY <1>2
      <4> QED BY <4>1, <4>2
    <3>5. Good(w, n + 1)
      BY <2>1, <3>1, <3>4
    <3> QED BY <3>5 DEF w
  <2>6. CASE ~z.done /\ ~Spent128(a, n)
    <3>1. /\ ~w.done /\ w.b = Shl(z.b, 1)
          /\ w.o = IF Bit(a, n) THEN Add(z.o, z.b) ELSE z.o
      BY <2>6
    <3>2. z.b \in U128 /\ z.o \in U128
      BY <2>1
    <3>3. Value(z.b) = (y * p) % Limit /\ Value(z.o) = (y * (x % p)) % Limit
      BY <1>8, <2>6
    <3>4. Value(w.b) = (y * Power[n + 1]) % Limit
      <4>1. Power[1] = 2
        <5>1. 0 \in Nat /\ 0 + 1 = 1
          OBVIOUS
        <5> QED BY <5>1, PowerFacts
      <4>2. Value(w.b) = (Value(z.b) * 2) % Limit
        BY <3>1, <3>2, <4>1, ShlExact
      <4> HIDE DEF w, y, p
      <4>3. y * p \in Nat
        BY <1>2, <2>2
      <4>4. (((y * p) % Limit) * 2) % Limit = ((y * p) * 2) % Limit
        BY <1>2, <4>3, ModuloProduct
      <4>5. (y * p) * 2 = y * (2 * p)
        BY <1>2, <2>2
      <4> QED BY <2>2, <3>3, <4>2, <4>4, <4>5
    <3>5. Value(w.o) = (y * (x % Power[n + 1])) % Limit
      <4>1. Bit(a, n) <=> (x \div p) % 2 = 1
        BY <1>8, BitExact
      <4>2. x % (2 * p) = (x % p) + (IF (x \div p) % 2 = 1 THEN p ELSE 0)
        <5> HIDE DEF x, p
        <5> QED BY <1>2, <2>2, OneMoreBit
      <4>3. CASE ~Bit(a, n)
        <5>1. x % (2 * p) = x % p
          BY <2>3, <4>1, <4>2, <4>3
        <5> HIDE DEF w, x, y, p
        <5> QED BY <2>2, <3>1, <3>3, <4>3, <5>1
      <4>4. CASE Bit(a, n)
        <5>1. x % (2 * p) = (x % p) + p
          BY <4>1, <4>2, <4>4
        <5>2. Value(w.o) = (Value(z.o) + Value(z.b)) % Limit
          BY <3>1, <3>2, <4>4, AddExact
        <5> DEFINE r == x % p
        <5> HIDE DEF w, x, y, p, r
        <5>3. y * r \in Nat /\ y * p \in Nat /\ y * r + y * p = y * (r + p)
          BY <1>2, <2>2, <2>3 DEF r
        <5>4. (((y * r) % Limit) + ((y * p) % Limit)) % Limit = (y * r + y * p) % Limit
          BY <1>2, <5>3, ModuloSum
        <5> QED BY <2>2, <3>3, <5>1, <5>2, <5>3, <5>4 DEF r
      <4> QED BY <4>3, <4>4
    <3> HIDE DEF w
    <3>6. Good(w, n + 1)
      BY <2>1, <3>1, <3>4, <3>5
    <3> QED BY <3>6 DEF w
  <2> QED BY <2>4, <2>5, <2>6
<1> HIDE DEF Good, Step, start
<1> DEFINE T == {n \in Nat : n <= Bits => Good(run[n], n)}
<1>9. 0 \in T
  <2>1. run[0] = start
    BY <1>6, BaseFacts
  <2> QED BY <1>7, <2>1
<1>10. ASSUME NEW n \in Nat, n \in T PROVE n + 1 \in T
  <2> SUFFICES ASSUME n + 1 <= Bits PROVE Good(run[n + 1], n + 1)
    OBVIOUS
  <2>1. n < Bits /\ n + 1 \in 0 .. Bits /\ n + 1 # 0 /\ (n + 1) - 1 = n
    BY BaseFacts
  <2>2. run[n + 1] = Step(run[n], n)
    BY <1>6, <2>1
  <2>3. Good(run[n], n)
    BY <1>10, <2>1, BaseFacts
  <2> QED BY <1>8, <2>1, <2>2, <2>3
<1>11. Good(run[Bits], Bits)
  <2> HIDE DEF T
  <2>1. Nat \subseteq T
    BY <1>9, <1>10, NaturalInduction
  <2>2. Bits \in T /\ Bits <= Bits
    BY <2>1, BaseFacts
  <2> QED BY <2>2 DEF T
<1> DEFINE v == run[Bits]
<1>12. v.o \in U128
  BY <1>11 DEF Good
<1>13. Value(v.o) = (x * y) % Limit
  <2>1. CASE v.done
    BY <1>11, <2>1 DEF Good
  <2>2. CASE ~v.done
    <3>1. Value(v.o) = (y * (x % Limit)) % Limit
      BY <1>11, <2>2, BaseFacts DEF Good
    <3> HIDE DEF x, y, v
    <3>2. x % Limit = x
      BY <1>2
    <3>3. y * x = x * y
      BY <1>2
    <3> QED BY <3>1, <3>2, <3>3
  <2> QED BY <2>1, <2>2
<1> QED BY <1>1, <1>12, <1>13

(***************************************************************************)
(* Quotients.                                                              *)
(***************************************************************************)
\* A shift to the right by one halves.
LEMMA Halved ==
    /\ Power[1] = 2
    /\ \A a \in U128 : Shr(a, 1) \in U128 /\ Value(Shr(a, 1)) = Value(a) \div 2
<1>1. 0 \in Nat /\ 0 + 1 = 1 /\ 1 \in Nat
  OBVIOUS
<1>2. Power[1] = 2
  BY <1>1, PowerFacts
<1> QED BY <1>1, <1>2, ShrExact

\* A number that stays below Limit is moved up exactly.
LEMMA MovedUpWithin ==
    ASSUME NEW a \in U128, NEW n \in Nat, Value(a) * Power[n] < Limit
    PROVE  Shl(a, n) \in U128 /\ Value(Shl(a, n)) = Value(a) * Power[n]
<1> DEFINE x == Value(a) * Power[n]
<1>1. x \in Nat /\ Limit \in Nat \ {0}
  <2>1. Value(a) \in Nat /\ Power[n] \in Nat
    BY PairFacts, PowerFacts
  <2> QED BY <2>1, BaseFacts DEF Limit
<1>2. x % Limit = x
  <2>1. x < Limit
    OBVIOUS
  <2> HIDE DEF x
  <2> QED BY <1>1, <2>1
<1> QED BY <1>2, ShlExact

\* The shift of the divisor that brings it just below the dividend.
LEMMA ShiftsUpExact ==
    ASSUME NEW a \in U128, NEW b \in U128, Value(b) # 0, Value(b) <= Value(a)
    PROVE  LET s == ShiftsUp(a, b)
           IN /\ s \in Nat
              /\ Value(b) * Power[s] <= Value(a)
              /\ Value(a) < 2 * (Value(b) * Power[s])
<1> DEFINE x == Value(a)
           y == Value(b)
           s == ShiftsUp(a, b)
           M == {n \in 0 .. Bits : n = Bits \/ Less(Shr(a, 1), Shl(b, n))}
<1>1. /\ x \in Nat /\ x < Limit /\ y \in Nat \ {0} /\ y <= x
      /\ Limit \in Nat \ {0} /\ Limit = Power[Bits] /\ Bits \in Nat
  BY PairFacts, BaseFacts DEF Limit
<1>2. s \in M /\ \A n \in M : s <= n
  <2>1. M \subseteq Nat /\ Bits \in M
    BY <1>1
  <2>2. s = Min(M)
    BY DEF ShiftsUp
  <2> HIDE DEF M, s
  <2>3. \E n \in M : \A m \in M : n <= m
    BY <2>1, LeastNatural
  <2> QED BY <2>2, <2>3 DEF Min
<1>3. s \in 0 .. Bits /\ s \in Nat
  <2> HIDE DEF s
  <2> QED BY <1>1, <1>2
<1>4. s # Bits => Less(Shr(a, 1), Shl(b, s))
  <2> HIDE DEF s
  <2> QED BY <1>2
<1>5. ASSUME NEW n \in Nat, n < s PROVE ~Less(Shr(a, 1), Shl(b, n))
  <2> HIDE DEF s
  <2>1. n \in 0 .. Bits
    BY <1>1, <1>3, <1>5
  <2>2. n \notin M
    <3> HIDE DEF M
    <3> QED BY <1>2, <1>3, <1>5, <2>1
  <2> QED BY <2>1, <2>2
<1> HIDE DEF M, s
<1>6. ASSUME NEW n \in Nat, y * Power[n] <= x
      PROVE  Less(Shr(a, 1), Shl(b, n)) <=> x < 2 * (y * Power[n])
  <2> DEFINE z == y * Power[n]
  <2>1. z \in Nat /\ z <= x
    <3>1. Power[n] \in Nat
      BY PowerFacts
    <3> QED BY <1>1, <1>6, <3>1
  <2>2. Shl(b, n) \in U128 /\ Value(Shl(b, n)) = z
    <3>1. Value(b) * Power[n] < Limit
      <4> HIDE DEF x
      <4> QED BY <1>1, <2>1
    <3> QED BY <3>1, MovedUpWithin
  <2>3. Shr(a, 1) \in U128 /\ Value(Shr(a, 1)) = x \div 2
    BY Halved
  <2>4. Less(Shr(a, 1), Shl(b, n)) <=> x \div 2 < z
    BY <2>2, <2>3, LessExact
  <2> HIDE DEF x, z
  <2>5. x \div 2 < z <=> x < 2 * z
    BY <1>1, <2>1
  <2> QED BY <2>4, <2>5 DEF z
<1> DEFINE T == {n \in Nat : n <= s => y * Power[n] <= x}
<1>7. 0 \in T
  <2> HIDE DEF x, y
  <2> QED BY <1>1, PowerFacts
<1>8. ASSUME NEW n \in Nat, n \in T PROVE n + 1 \in T
  <2> SUFFICES ASSUME n + 1 <= s PROVE y * Power[n + 1] <= x
    OBVIOUS
  <2>1. n < s
    BY <1>3
  <2>2. y * Power[n] <= x
    BY <1>3, <1>8, <2>1
  <2>3. ~(x < 2 * (y * Power[n]))
    BY <1>5, <1>6, <2>1, <2>2
  <2> DEFINE p == Power[n]
  <2>4. p \in Nat /\ Power[n + 1] = 2 * p
    BY PowerFacts
  <2> HIDE DEF x, y, p
  <2>5. y * (2 * p) = 2 * (y * p) /\ y * p \in Nat
    BY <1>1, <2>4
  <2> QED BY <1>1, <2>3, <2>4, <2>5 DEF p
<1>9. y * Power[s] <= x
  <2> HIDE DEF T
  <2>1. Nat \subseteq T
    BY <1>7, <1>8, NaturalInduction
  <2>2. s \in T /\ s <= s
    BY <1>3, <2>1
  <2> QED BY <2>2 DEF T
<1>10. s # Bits
  <2> SUFFICES ASSUME s = Bits PROVE FALSE
    OBVIOUS
  <2> HIDE DEF x, y
  <2>1. y * Limit <= x
    BY <1>1, <1>9
  <2>2. Limit <= y * Limit /\ y * Limit \in Nat
    BY <1>1
  <2> QED BY <1>1, <2>1, <2>2
<1>11. x < 2 * (y * Power[s])
  BY <1>3, <1>4, <1>6, <1>9, <1>10
<1> QED BY <1>3, <1>9, <1>11 DEF s

\* A number below Base in the low word.
LEMMA LowPair ==
    ASSUME NEW n \in 0 .. Base - 1
    PROVE  Pair(n) \in U128 /\ Value(Pair(n)) = n
<1>1. Base \in Nat \ {0, 1}
  BY BaseFacts
<1>2. n % Base = n /\ n \div Base = 0 /\ 0 % Base = 0
  BY <1>1
<1>3. Pair(n) = [lo |-> n, hi |-> 0]
  BY <1>2 DEF Pair
<1> QED BY <1>1, <1>3, PairOf

\* One step of the long division: the remainder is halved with the divisor.
LEMMA DivisionStep ==
    ASSUME NEW q \in U128, NEW r \in U128, NEW mask \in U128, NEW c \in U128,
           NEW x \in Nat, NEW y \in Nat \ {0}, x < Limit,
           x = Value(q) * y + Value(r),
           Value(c) = y * Value(mask),
           Value(r) < 2 * Value(c)
    PROVE  LET fits == ~Less(r, c)
               q2 == IF fits THEN Add(q, mask) ELSE q
               r2 == IF fits THEN Sub(r, c) ELSE r
           IN /\ q2 \in U128 /\ r2 \in U128
              /\ x = Value(q2) * y + Value(r2)
              /\ Value(r2) < Value(c)
<1> DEFINE vq == Value(q)
           vr == Value(r)
           vm == Value(mask)
           vc == Value(c)
           d == Sub(r, c)
           e == Add(q, mask)
<1>1. /\ Limit \in Nat \ {0}
      /\ vq \in Nat /\ vr \in Nat /\ vm \in Nat /\ vc \in Nat
      /\ vr < Limit /\ vc < Limit
  BY PairFacts, BaseFacts DEF Limit
<1>2. Less(r, c) <=> vr < vc
  BY LessExact
<1>3. CASE Less(r, c)
  BY <1>2, <1>3
<1>4. CASE ~Less(r, c)
  <2>1. vc <= vr
    BY <1>1, <1>2, <1>4
  <2>2. d \in U128 /\ Value(d) = vr - vc
    <3>1. d \in U128 /\ (Value(d) = vr - vc \/ Value(d) = vr - vc + Limit)
      BY DifferenceOfPairs
    <3>2. Value(d) \in Nat /\ Value(d) < Limit
      BY <3>1, PairFacts
    <3> HIDE DEF d, vr, vc
    <3> QED BY <1>1, <2>1, <3>1, <3>2
  <2>3. e \in U128 /\ (Value(e) = vq + vm \/ Value(e) = vq + vm - Limit)
    BY SumOfPairs
  <2>4. Value(e) \in Nat
    BY <2>3, PairFacts
  <2> HIDE DEF d, e, vr, vc, vq, vm
  <2>5. x = (vq + vm) * y + (vr - vc)
    <3>1. (vq + vm) * y = vq * y + y * vm /\ vq * y \in Nat /\ y * vm \in Nat
      BY <1>1
    <3>2. x = vq * y + vr /\ vc = y * vm
      BY DEF vq, vr, vc, vm
    <3> QED BY <1>1, <3>1, <3>2
  <2>6. vq + vm < Limit
    <3>1. vq + vm <= (vq + vm) * y /\ (vq + vm) * y \in Nat
      BY <1>1
    <3> QED BY <1>1, <2>1, <2>5, <3>1
  <2>7. Value(e) = vq + vm
    BY <1>1, <2>3, <2>4, <2>6
  <2>8. vr < 2 * vc
    BY DEF vr, vc
  <2>9. Value(d) < vc
    BY <1>1, <2>1, <2>2, <2>8
  <2> QED BY <1>4, <2>2, <2>3, <2>5, <2>7, <2>9 DEF d, e, vc
<1> QED BY <1>3, <1>4

\* operator/ and operator% give the quotient and the remainder.
THEOREM DivExact ==
    \A a, b \in U128 : Value(b) # 0 =>
        /\ DivMod(a, b).q \in U128 /\ DivMod(a, b).r \in U128
        /\ Value(a) = Value(DivMod(a, b).q) * Value(b) + Value(DivMod(a, b).r)
        /\ Value(DivMod(a, b).r) < Value(b)
<1> DEFINE Divides(a, b, u) == /\ u.q \in U128 /\ u.r \in U128
                             /\ Value(a) = Value(u.q) * Value(b) + Value(u.r)
                             /\ Value(u.r) < Value(b)
<1> SUFFICES ASSUME NEW a \in U128, NEW b \in U128, Value(b) # 0
             PROVE  Divides(a, b, DivMod(a, b))
  OBVIOUS
<1> DEFINE x == Value(a)
           y == Value(b)
           shift == ShiftsUp(a, b)
           S == [q : U128, r : U128, mask : U128, b : U128]
           start == [q |-> Zero, r |-> a, mask |-> Shl(One, shift), b |-> Shl(b, shift)]
           Step(acc) ==
               LET fits == ~Less(acc.r, acc.b)
               IN [q |-> IF fits THEN Add(acc.q, acc.mask) ELSE acc.q,
                   r |-> IF fits THEN Sub(acc.r, acc.b) ELSE acc.r,
                   mask |-> Shr(acc.mask, 1), b |-> Shr(acc.b, 1)]
           run[n \in 0 .. shift + 1] == IF n = 0 THEN start ELSE Step(run[n - 1])
<1>1. DivMod(a, b) =
          IF a.hi = 0 /\ b.hi = 0 THEN [q |-> Pair(a.lo \div b.lo), r |-> Pair(a.lo % b.lo)]
          ELSE IF Less(a, b) THEN [q |-> Zero, r |-> a]
          ELSE [q |-> run[shift + 1].q, r |-> run[shift + 1].r]
  BY DEF DivMod
<1> HIDE DEF run
<1>2. /\ x \in Nat /\ x < Limit /\ y \in Nat \ {0} /\ y < Limit /\ Limit \in Nat \ {0}
      /\ Base \in Nat \ {0, 1}
      /\ Zero \in U128 /\ Value(Zero) = 0
      /\ One \in U128 /\ Value(One) = 1
  BY PairFacts, BaseFacts DEF Limit, Zero, One, U128, Word, Value
<1>3. CASE a.hi = 0 /\ b.hi = 0
  <2> DEFINE l == a.lo
             m == b.lo
             q == l \div m
             r == l % m
  <2>1. l \in 0 .. Base - 1 /\ m \in 0 .. Base - 1 /\ x = l /\ y = m
    <3>1. l \in 0 .. Base - 1 /\ m \in 0 .. Base - 1
      BY PairFacts
    <3> QED BY <1>2, <1>3, <3>1 DEF Value
  <2>2. DivMod(a, b) = [q |-> Pair(q), r |-> Pair(r)]
    BY <1>1, <1>3
  <2> HIDE DEF x, y, l, m
  <2>3. l \in Nat /\ m \in Nat \ {0}
    BY <1>2, <2>1
  <2>4. q \in Nat /\ r \in 0 .. m - 1 /\ l = q * m + r
    BY <2>3, Divided
  <2> HIDE DEF q, r
  <2>5. q \in 0 .. Base - 1 /\ r \in 0 .. Base - 1
    <3>1. q <= q * m /\ q * m \in Nat
      BY <2>3, <2>4
    <3> QED BY <1>2, <2>1, <2>3, <2>4, <3>1
  <2>6. /\ Pair(q) \in U128 /\ Value(Pair(q)) = q
        /\ Pair(r) \in U128 /\ Value(Pair(r)) = r
    BY <2>5, LowPair
  <2>7. x = q * y + r /\ r < y
    BY <2>1, <2>3, <2>4
  <2> QED BY <2>2, <2>6, <2>7 DEF x, y
<1>4. CASE ~(a.hi = 0 /\ b.hi = 0) /\ Less(a, b)
  <2>1. DivMod(a, b) = [q |-> Zero, r |-> a]
    BY <1>1, <1>4
  <2>2. x < y
    BY <1>4, LessExact
  <2>3. x = 0 * y + x
    <3> HIDE DEF x, y
    <3> QED BY <1>2
  <2> QED BY <1>2, <2>1, <2>2, <2>3
<1>5. CASE ~(a.hi = 0 /\ b.hi = 0) /\ ~Less(a, b)
  <2>1. DivMod(a, b) = [q |-> run[shift + 1].q, r |-> run[shift + 1].r]
    BY <1>1, <1>5
  <2>2. y <= x
    <3>1. ~(x < y)
      BY <1>5, LessExact
    <3> HIDE DEF x, y
    <3> QED BY <1>2, <3>1
  <2>3. shift \in Nat /\ y * Power[shift] <= x /\ x < 2 * (y * Power[shift])
    BY <1>2, <2>2, ShiftsUpExact
  <2>4. /\ start.b \in U128 /\ Value(start.b) = y * Power[shift]
        /\ start.mask \in U128 /\ Value(start.mask) = Power[shift]
    <3> DEFINE p == Power[shift]
    <3>1. p \in Nat \ {0}
      BY <2>3, PowerFacts
    <3>2. y * p < Limit /\ 1 * p < Limit /\ 1 * p = p
      <4> HIDE DEF x, y, p
      <4>1. p <= y * p /\ y * p \in Nat
        BY <1>2, <3>1
      <4>2. y * p <= x
        BY <2>3 DEF p
      <4> QED BY <1>2, <3>1, <4>1, <4>2
    <3>3. Shl(b, shift) \in U128 /\ Value(Shl(b, shift)) = y * p
      BY <2>3, <3>2, MovedUpWithin
    <3>4. Shl(One, shift) \in U128 /\ Value(Shl(One, shift)) = 1 * p
      BY <1>2, <2>3, <3>2, MovedUpWithin
    <3> QED BY <3>2, <3>3, <3>4
  <2>5. start \in S
    <3>1. start.b \in U128 /\ start.mask \in U128
      BY <2>4
    <3> QED BY <1>2, <3>1
  <2>6. ASSUME NEW acc \in S PROVE Step(acc) \in S
    <3>1. /\ Add(acc.q, acc.mask) \in U128 /\ Sub(acc.r, acc.b) \in U128
          /\ Shr(acc.mask, 1) \in U128 /\ Shr(acc.b, 1) \in U128
      BY SumOfPairs, DifferenceOfPairs, Halved
    <3> QED BY <3>1
  <2> DEFINE step == [z \in Nat \X S |-> Step(z[2])]
             len == shift + 1
  <2>7. step \in [Nat \X S -> S]
    BY <2>6
  <2>8. len \in Nat
    BY <2>3
  <2>9. run = [n \in 0 .. len |-> IF n = 0 THEN start ELSE Step(run[n - 1])]
    <3>1. PICK g \in [0 .. len -> S] : Runs(g, len, start, step)
      <4> HIDE DEF S, start, step, len
      <4> QED BY <2>5, <2>7, <2>8, RunExists
    <3>2. g[0] = start
      BY <3>1 DEF Runs
    <3>3. ASSUME NEW n \in 0 .. len, n # 0 PROVE g[n] = Step(g[n - 1])
      <4> HIDE DEF len
      <4>1. /\ n - 1 \in Nat /\ n - 1 \in 0 .. len /\ n - 1 \in 0 .. len - 1
            /\ (n - 1) + 1 = n
        BY <2>8, <3>3
      <4>2. g[n - 1] \in S
        BY <4>1
      <4> HIDE DEF S, Step
      <4>3. step[<<n - 1, g[n - 1]>>] = Step(g[n - 1])
        BY <4>1, <4>2
      <4> HIDE DEF step, start
      <4>4. g[n] = step[<<n - 1, g[n - 1]>>]
        BY <3>1, <4>1 DEF Runs
      <4> QED BY <4>3, <4>4
    <3> HIDE DEF S, start, step, Step
    <3>4. g = [n \in 0 .. len |-> IF n = 0 THEN start ELSE Step(g[n - 1])]
      BY <3>2, <3>3
    <3> QED BY <3>4 DEF run
  <2> DEFINE Good(z, n) ==
                 /\ z \in S
                 /\ x = Value(z.q) * y + Value(z.r)
                 /\ n <= shift => /\ Value(z.b) = y * Power[shift - n]
                                  /\ Value(z.mask) = Power[shift - n]
                                  /\ Value(z.r) < 2 * Value(z.b)
                 /\ n = len => Value(z.r) < y
  <2> HIDE DEF step
  <2>10. Good(start, 0)
    <3>1. start.q = Zero /\ start.r = a
      OBVIOUS
    <3>2. x = 0 * y + x
      <4> HIDE DEF x, y
      <4> QED BY <1>2
    <3> HIDE DEF start, S, shift
    <3>3. shift - 0 = shift /\ 0 # len
      BY <2>3
    <3> QED BY <1>2, <2>3, <2>4, <2>5, <3>1, <3>2, <3>3
  <2>11. ASSUME NEW z, NEW n \in Nat, n <= shift, Good(z, n) PROVE Good(Step(z), n + 1)
    <3> DEFINE w == Step(z)
               p == Power[shift - n]
    <3>1. z \in S /\ w \in S
      BY <2>6, <2>11
    <3>2. shift - n \in Nat /\ p \in Nat \ {0}
      <4> HIDE DEF shift
      <4>1. shift - n \in Nat
        BY <2>3, <2>11
      <4> QED BY <4>1, PowerFacts
    <3>3. /\ z.q \in U128 /\ z.r \in U128 /\ z.mask \in U128 /\ z.b \in U128
          /\ x = Value(z.q) * y + Value(z.r)
          /\ Value(z.b) = y * p /\ Value(z.mask) = p
          /\ Value(z.r) < 2 * Value(z.b)
      BY <2>11, <3>1
    <3>4. x = Value(w.q) * y + Value(w.r) /\ Value(w.r) < Value(z.b)
      <4> DEFINE q == z.q
                 r == z.r
                 mask == z.mask
                 c == z.b
                 fits == ~Less(r, c)
                 q2 == IF fits THEN Add(q, mask) ELSE q
                 r2 == IF fits THEN Sub(r, c) ELSE r
      <4>1. w.q = q2 /\ w.r = r2
        OBVIOUS
      <4>2. /\ q \in U128 /\ r \in U128 /\ mask \in U128 /\ c \in U128
            /\ x = Value(q) * y + Value(r) /\ Value(c) = y * Value(mask)
            /\ Value(r) < 2 * Value(c)
        BY <3>3
      <4> HIDE DEF x, y, w, q, r, mask, c
      <4>3. x = Value(q2) * y + Value(r2) /\ Value(r2) < Value(c)
        BY <1>2, <4>2, DivisionStep
      <4> QED BY <4>1, <4>3 DEF c
    <3>5. w.b = Shr(z.b, 1) /\ w.mask = Shr(z.mask, 1)
      OBVIOUS
    <3>6. Value(w.b) = (y * p) \div 2 /\ Value(w.mask) = p \div 2
      BY <3>3, <3>5, Halved
    <3>7. CASE n < shift
      <4> DEFINE e == Power[shift - (n + 1)]
      <4>1. e \in Nat /\ p = 2 * e
        <5> HIDE DEF shift
        <5>1. shift - (n + 1) \in Nat /\ (shift - (n + 1)) + 1 = shift - n
          BY <2>3, <3>7
        <5> QED BY <5>1, PowerFacts
      <4> HIDE DEF e, p, w, x, y, shift
      <4>2. y * (2 * e) = 2 * (y * e) /\ y * e \in Nat
        BY <1>2, <4>1
      <4>3. (2 * (y * e)) \div 2 = y * e /\ (2 * e) \div 2 = e
        BY <4>1, <4>2
      <4>4. Value(w.b) = y * e /\ Value(w.mask) = e /\ Value(z.b) = 2 * (y * e)
        BY <3>3, <3>6, <4>1, <4>2, <4>3
      <4>5. n + 1 # len
        BY <2>3, <3>7
      <4>6. Good(w, n + 1)
        BY <3>1, <3>4, <4>4, <4>5 DEF e
      <4> QED BY <4>6 DEF w
    <3>8. CASE n = shift
      <4>1. p = 1
        <5> HIDE DEF shift
        <5>1. shift - n = 0
          BY <2>3, <3>8
        <5> QED BY <5>1, PowerFacts
      <4>2. y * 1 = y
        <5> HIDE DEF y
        <5> QED BY <1>2
      <4>3. Value(w.r) < y
        <5> HIDE DEF p, w, y
        <5> QED BY <3>3, <3>4, <4>1, <4>2
      <4>4. ~(n + 1 <= shift)
        <5> HIDE DEF shift
        <5> QED BY <2>3, <3>8
      <4> HIDE DEF w, x, y, S, shift
      <4>5. Good(w, n + 1)
        BY <3>1, <3>4, <4>3, <4>4
      <4> QED BY <4>5 DEF w
    <3> QED
      <4> HIDE DEF Good, Step, shift
      <4> QED BY <2>3, <2>11, <3>7, <3>8
  <2> HIDE DEF Good, Step, start
  <2> DEFINE T == {n \in Nat : n <= len => Good(run[n], n)}
  <2>12. 0 \in T
    <3>1. run[0] = start
      BY <2>8, <2>9
    <3> QED BY <2>10, <3>1
  <2>13. ASSUME NEW n \in Nat, n \in T PROVE n + 1 \in T
    <3> HIDE DEF shift
    <3> SUFFICES ASSUME n + 1 <= len PROVE Good(run[n + 1], n + 1)
      OBVIOUS
    <3>1. n <= shift /\ n <= len /\ n + 1 \in 0 .. len /\ n + 1 # 0 /\ (n + 1) - 1 = n
      BY <2>3
    <3>2. run[n + 1] = Step(run[n])
      BY <2>9, <3>1
    <3>3. Good(run[n], n)
      BY <2>13, <3>1
    <3> QED BY <2>11, <3>1, <3>2, <3>3
  <2>14. Good(run[len], len)
    <3> HIDE DEF T, len
    <3>1. Nat \subseteq T
      BY <2>12, <2>13, NaturalInduction
    <3>2. len \in T /\ len <= len
      BY <2>8, <3>1
    <3> QED BY <3>2 DEF T
  <2> DEFINE v == run[len]
  <2>15. /\ v.q \in U128 /\ v.r \in U128
         /\ x = Value(v.q) * y + Value(v.r) /\ Value(v.r) < y
    BY <2>14 DEF Good
  <2>16. DivMod(a, b) = [q |-> v.q, r |-> v.r]
    BY <2>1
  <2> HIDE DEF v
  <2> QED BY <2>15, <2>16
<1> QED BY <1>3, <1>4, <1>5

(***************************************************************************)
(* Signed operators.                                                       *)
(***************************************************************************)
\* The integer a pair stands for in two's complement, and its size.
Signed(a) == IF Limit <= 2 * Value(a) THEN Value(a) - Limit ELSE Value(a)
Size(a) == IF Limit <= 2 * Value(a) THEN Limit - Value(a) ELSE Value(a)

\* The pair u_abs takes for a positive one, which is -2^64.
Excepted == [lo |-> 0, hi |-> Base - 1]

\* The sign is the highest bit.
LEMMA IsNegExact == \A a \in U128 : IsNeg(a) <=> Limit <= 2 * Value(a)
<1> SUFFICES ASSUME NEW a \in U128 PROVE IsNeg(a) <=> Limit <= 2 * Value(a)
  OBVIOUS
<1> DEFINE x == Value(a)
           p == Power[Bits - 1]
           q == x \div p
           r == x % p
<1>1. Bits - 1 \in Nat /\ (Bits - 1) + 1 = Bits /\ Bits - 1 < Bits
  BY BaseFacts DEF Bits
<1>2. p \in Nat \ {0} /\ Limit = 2 * p
  BY <1>1, PowerFacts, BaseFacts
<1>3. x \in Nat /\ x < Limit
  BY PairFacts
<1>4. IsNeg(a) <=> q % 2 = 1
  BY <1>1, BitExact DEF IsNeg
<1> HIDE DEF x, p
<1>5. q \in Nat /\ r \in 0 .. p - 1 /\ x = q * p + r
  BY <1>2, <1>3, Divided
<1> HIDE DEF q, r
<1>6. q < 2
  <2> SUFFICES ASSUME 2 <= q PROVE FALSE
    BY <1>5
  <2>1. 2 * p <= q * p /\ q * p \in Nat
    BY <1>2, <1>5
  <2> QED BY <1>2, <1>3, <1>5, <2>1
<1>7. q = 0 \/ q = 1
  BY <1>5, <1>6
<1>8. q % 2 = 1 <=> q = 1
  BY <1>7
<1>9. q = 1 <=> Limit <= 2 * x
  <2>1. q = 0 => x = r
    BY <1>2, <1>5
  <2>2. q = 1 => x = p + r
    BY <1>2, <1>5
  <2> QED BY <1>2, <1>5, <1>7, <2>1, <2>2
<1> QED BY <1>4, <1>8, <1>9 DEF x

\* A signed integer is its size with its sign.
LEMMA SizeFacts ==
    \A a \in U128 : /\ Size(a) \in Nat /\ Size(a) <= Limit
                    /\ Signed(a) = IF IsNeg(a) THEN 0 - Size(a) ELSE Size(a)
                    /\ Size(a) = 0 <=> Value(a) = 0
<1> SUFFICES ASSUME NEW a \in U128
             PROVE  /\ Size(a) \in Nat /\ Size(a) <= Limit
                    /\ Signed(a) = IF IsNeg(a) THEN 0 - Size(a) ELSE Size(a)
                    /\ Size(a) = 0 <=> Value(a) = 0
  OBVIOUS
<1>1. Value(a) \in Nat /\ Value(a) < Limit /\ Limit \in Nat \ {0}
  BY PairFacts, BaseFacts DEF Limit
<1> QED BY <1>1, IsNegExact DEF Signed, Size

\* u_abs is the size of every i128 but one.
LEMMA AbsExact ==
    \A a \in U128 : a # Excepted => Abs(a) \in U128 /\ Value(Abs(a)) = Size(a)
<1> SUFFICES ASSUME NEW a \in U128, a # Excepted
             PROVE  Abs(a) \in U128 /\ Value(Abs(a)) = Size(a)
  OBVIOUS
<1>1. Value(a) \in Nat /\ Value(a) < Limit /\ Limit \in Nat \ {0}
  BY PairFacts, BaseFacts DEF Limit
<1>2. Abs(a) = IF IsNeg(a) THEN Neg(a) ELSE a
  BY DEF Abs, Excepted
<1>3. IsNeg(a) <=> Limit <= 2 * Value(a)
  BY IsNegExact
<1>4. CASE IsNeg(a)
  <2> DEFINE x == 0 - Value(a)
  <2>1. x \in Int /\ x + Limit \in 0 .. Limit - 1
    BY <1>1, <1>3, <1>4
  <2>2. Neg(a) \in U128 /\ Value(Neg(a)) = x % Limit
    BY NegExact
  <2>3. x % Limit = x + Limit
    <3> DEFINE m == x + Limit
               t == 0 - 1
    <3>1. m \in 0 .. Limit - 1 /\ t \in Int /\ x = t * Limit + m
      BY <1>1, <2>1
    <3> HIDE DEF m, t, x
    <3>2. (t * Limit + m) % Limit = m
      BY <1>1, <3>1, Quotients
    <3> QED BY <3>1, <3>2 DEF m
  <2> QED BY <1>1, <1>2, <1>3, <1>4, <2>2, <2>3 DEF Size
<1>5. CASE ~IsNeg(a)
  BY <1>2, <1>3, <1>5 DEF Size
<1> QED BY <1>4, <1>5

\* Negating what was reduced.
LEMMA ModuloNegation ==
    ASSUME NEW x \in Nat, NEW lim \in Nat \ {0}
    PROVE  (0 - (x % lim)) % lim = (0 - x) % lim
<1> DEFINE q == x \div lim
           r == x % lim
           m == IF r = 0 THEN 0 ELSE lim - r
           t == IF r = 0 THEN 0 ELSE 0 - 1
<1>1. q \in Nat /\ r \in 0 .. lim - 1 /\ x = q * lim + r
  BY Divided
<1> HIDE DEF q, r
<1>2. m \in 0 .. lim - 1 /\ t \in Int /\ t - q \in Int
  BY <1>1
<1>3. 0 - r = t * lim + m
  BY <1>1
<1> HIDE DEF m, t
<1>4. 0 - x = (t - q) * lim + m
  <2>1. (t - q) * lim = t * lim - q * lim /\ t * lim \in Int /\ q * lim \in Int
    BY <1>1, <1>2
  <2> QED BY <1>1, <1>2, <1>3, <2>1
<1>5. (t * lim + m) % lim = m /\ ((t - q) * lim + m) % lim = m
  BY <1>2, Quotients
<1> QED BY <1>3, <1>4, <1>5 DEF r

\* The sign of products and quotients.
LEMMA SignedAsExact ==
    ASSUME NEW a \in U128, NEW b \in U128, NEW u \in U128, NEW x \in Nat, Value(u) = x % Limit
    PROVE  /\ SignedAs(a, b, u) \in U128
           /\ Value(SignedAs(a, b, u)) = (IF IsNeg(a) # IsNeg(b) THEN 0 - x ELSE x) % Limit
<1>1. Limit \in Nat \ {0}
  BY BaseFacts DEF Limit
<1>2. (0 - (x % Limit)) % Limit = (0 - x) % Limit
  BY <1>1, ModuloNegation
<1>3. CASE IsNeg(a) # IsNeg(b)
  <2>1. SignedAs(a, b, u) = Neg(u)
    BY <1>3 DEF SignedAs
  <2> QED BY <1>2, <1>3, <2>1, NegExact
<1>4. CASE ~(IsNeg(a) # IsNeg(b))
  <2>1. SignedAs(a, b, u) = u
    BY <1>4 DEF SignedAs
  <2> QED BY <1>4, <2>1
<1> QED BY <1>3, <1>4

\* Signed multiplication by way of the absolute values is exact modulo the
\* square of the word, except for the one operand u_abs gets wrong.
THEOREM SMulExact ==
    \A a, b \in U128 : a # Excepted /\ b # Excepted =>
        SMul(a, b) \in U128 /\ Value(SMul(a, b)) = (Signed(a) * Signed(b)) % Limit
<1> SUFFICES ASSUME NEW a \in U128, NEW b \in U128, a # Excepted, b # Excepted
             PROVE  SMul(a, b) \in U128 /\ Value(SMul(a, b)) = (Signed(a) * Signed(b)) % Limit
  OBVIOUS
<1> DEFINE x == Size(a)
           y == Size(b)
           u == Mul(Abs(a), Abs(b))
<1>1. /\ x \in Nat /\ Signed(a) = IF IsNeg(a) THEN 0 - x ELSE x
      /\ y \in Nat /\ Signed(b) = IF IsNeg(b) THEN 0 - y ELSE y
  BY SizeFacts
<1>2. u \in U128 /\ Value(u) = (x * y) % Limit
  BY AbsExact, MulExact
<1>3. SMul(a, b) = SignedAs(a, b, u)
  BY DEF SMul
<1> HIDE DEF x, y, u
<1>4. x * y \in Nat
  BY <1>1
<1>5. Signed(a) * Signed(b) = IF IsNeg(a) # IsNeg(b) THEN 0 - x * y ELSE x * y
  <2>1. (0 - x) * y = 0 - x * y /\ x * (0 - y) = 0 - x * y /\ (0 - x) * (0 - y) = x * y
    BY <1>1
  <2>2. IsNeg(a) \in BOOLEAN /\ IsNeg(b) \in BOOLEAN
    BY DEF IsNeg, Bit
  <2>3. CASE IsNeg(a) /\ IsNeg(b)
    BY <1>1, <2>1, <2>3
  <2>4. CASE IsNeg(a) /\ ~IsNeg(b)
    BY <1>1, <2>1, <2>4
  <2>5. CASE ~IsNeg(a) /\ IsNeg(b)
    BY <1>1, <2>1, <2>5
  <2>6. CASE ~IsNeg(a) /\ ~IsNeg(b)
    BY <1>1, <2>2, <2>6
  <2> QED BY <2>3, <2>4, <2>5, <2>6
<1> DEFINE z == x * y
<1>6. z \in Nat /\ Value(u) = z % Limit
  BY <1>2, <1>4
<1> HIDE DEF z
<1>7. /\ SignedAs(a, b, u) \in U128
      /\ Value(SignedAs(a, b, u)) = (IF IsNeg(a) # IsNeg(b) THEN 0 - z ELSE z) % Limit
  BY <1>2, <1>6, SignedAsExact
<1> QED BY <1>3, <1>5, <1>7 DEF z

\* Signed division rounds towards zero, with the same exception; the least
\* integer divided by -1 wraps around.
THEOREM SDivExact ==
    \A a, b \in U128 : a # Excepted /\ b # Excepted /\ Value(b) # 0 =>
        LET size == Size(a) \div Size(b)
            quotient == IF IsNeg(a) # IsNeg(b) THEN 0 - size ELSE size
        IN SDiv(a, b) \in U128 /\ Value(SDiv(a, b)) = quotient % Limit
<1> SUFFICES ASSUME NEW a \in U128, NEW b \in U128,
                    a # Excepted, b # Excepted, Value(b) # 0
             PROVE  LET size == Size(a) \div Size(b)
                        quotient == IF IsNeg(a) # IsNeg(b) THEN 0 - size ELSE size
                    IN SDiv(a, b) \in U128 /\ Value(SDiv(a, b)) = quotient % Limit
  OBVIOUS
<1> DEFINE x == Size(a)
           y == Size(b)
           d == DivMod(Abs(a), Abs(b))
           u == d.q
           r == Value(d.r)
           size == x \div y
<1>1. x \in Nat /\ y \in Nat \ {0}
  BY SizeFacts
<1>2. /\ Abs(a) \in U128 /\ Value(Abs(a)) = x
      /\ Abs(b) \in U128 /\ Value(Abs(b)) = y
  BY AbsExact
<1>3. u \in U128 /\ d.r \in U128 /\ x = Value(u) * y + r /\ r < y
  <2> HIDE DEF x, y
  <2>1. Value(Abs(b)) # 0
    BY <1>1, <1>2
  <2> QED BY <1>2, <2>1, DivExact
<1>4. Value(u) \in Nat /\ Value(u) < Limit /\ r \in Nat /\ Limit \in Nat \ {0}
  BY <1>3, PairFacts, BaseFacts DEF Limit
<1>5. SDiv(a, b) = SignedAs(a, b, u)
  BY DEF SDiv
<1> HIDE DEF x, y, d, u, r
<1>6. size = Value(u)
  <2> DEFINE v == Value(u)
  <2>1. v \in Int /\ r \in 0 .. y - 1 /\ x = v * y + r
    BY <1>1, <1>3, <1>4
  <2> HIDE DEF v
  <2>2. (v * y + r) \div y = v
    BY <1>1, <2>1, Quotients
  <2> QED BY <2>1, <2>2 DEF v
<1> HIDE DEF size
<1>7. size \in Nat /\ Value(u) = size % Limit
  BY <1>4, <1>6
<1>8. /\ SignedAs(a, b, u) \in U128
      /\ Value(SignedAs(a, b, u)) = (IF IsNeg(a) # IsNeg(b) THEN 0 - size ELSE size) % Limit
  BY <1>3, <1>7, SignedAsExact
<1> QED BY <1>5, <1>8 DEF size, x, y

\* Comparing the high words as signed words and the low words as unsigned ones
\* compares integers.
THEOREM SLessExact == \A a, b \in U128 : SLess(a, b) <=> Signed(a) < Signed(b)
<1> SUFFICES ASSUME NEW a \in U128, NEW b \in U128
             PROVE  SLess(a, b) <=> Signed(a) < Signed(b)
  OBVIOUS
<1> DEFINE Hi(x) == IF x.hi >= Base \div 2 THEN x.hi - Base ELSE x.hi
           half == Power[WordBits - 1]
<1>1. Base \in Nat \ {0, 1} /\ half \in Nat \ {0} /\ Base = 2 * half /\ Base \div 2 = half
  <2>1. WordBits - 1 \in Nat /\ (WordBits - 1) + 1 = WordBits
    BY BaseFacts
  <2>2. half \in Nat \ {0} /\ Base = 2 * half
    BY <2>1, PowerFacts DEF Base
  <2> HIDE DEF half
  <2> QED BY <2>2, BaseFacts
<1> HIDE DEF half
<1>2. ASSUME NEW x \in U128
      PROVE  /\ Hi(x) \in 0 - half .. half - 1 /\ x.lo \in 0 .. Base - 1
             /\ Signed(x) = Hi(x) * Base + x.lo
  <2> DEFINE h == x.hi
             l == x.lo
             v == Value(x)
  <2>1. h \in 0 .. Base - 1 /\ l \in 0 .. Base - 1 /\ v = h * Base + l
    BY PairFacts DEF Value
  <2>2. Limit = half * (2 * Base) /\ Limit = Base * Base
    BY <1>1 DEF Limit
  <2> HIDE DEF h, l, v
  <2>3. h * Base \in Nat /\ Limit \in Nat
    BY <1>1, <2>1, <2>2
  <2>4. CASE h >= half
    <3>1. half * Base <= h * Base /\ half * Base \in Nat /\ half * (2 * Base) = 2 * (half * Base)
      BY <1>1, <2>1, <2>4
    <3>2. Limit <= 2 * v
      BY <2>1, <2>2, <2>3, <3>1
    <3>3. (h - Base) * Base = h * Base - Limit
      BY <1>1, <2>1, <2>2
    <3>4. Signed(x) = v - Limit
      BY <3>2 DEF Signed, v
    <3>5. Hi(x) = h - Base
      BY <1>1, <2>4 DEF h
    <3> QED BY <1>1, <2>1, <2>3, <2>4, <3>3, <3>4, <3>5 DEF l
  <2>5. CASE h < half
    <3>1. (h + 1) * Base <= half * Base /\ (h + 1) * Base = h * Base + Base
      BY <1>1, <2>1, <2>5
    <3>2. half * Base \in Nat /\ half * (2 * Base) = 2 * (half * Base)
      BY <1>1
    <3>3. ~(Limit <= 2 * v)
      BY <1>1, <2>1, <2>2, <2>3, <3>1, <3>2
    <3>4. Signed(x) = v
      BY <3>3 DEF Signed, v
    <3>5. Hi(x) = h
      BY <1>1, <2>1, <2>5 DEF h
    <3> QED BY <1>1, <2>1, <2>5, <3>4, <3>5 DEF l
  <2> QED BY <1>1, <2>1, <2>4, <2>5
<1>3. SLess(a, b) <=> (Hi(a) < Hi(b) \/ (Hi(a) = Hi(b) /\ a.lo < b.lo))
  BY DEF SLess
<1> DEFINE h == Hi(a)
           k == Hi(b)
           l == a.lo
           m == b.lo
<1>4. /\ h \in Int /\ k \in Int /\ l \in 0 .. Base - 1 /\ m \in 0 .. Base - 1
      /\ Signed(a) = h * Base + l /\ Signed(b) = k * Base + m
  BY <1>1, <1>2
<1> HIDE DEF h, k, l, m
<1>5. ASSUME NEW x \in Int, NEW y \in Int, x < y
      PROVE x * Base + Base <= y * Base
  <2>1. (x + 1) * Base <= y * Base /\ (x + 1) * Base = x * Base + Base
    BY <1>1, <1>5
  <2> QED BY <2>1
<1>6. h * Base \in Int /\ k * Base \in Int
  BY <1>1, <1>4
<1>7. CASE h < k
  <2>1. h * Base + Base <= k * Base
    BY <1>4, <1>5, <1>7
  <2> QED BY <1>1, <1>3, <1>4, <1>6, <1>7, <2>1 DEF h, k, l, m
<1>8. CASE k < h
  <2>1. k * Base + Base <= h * Base
    BY <1>4, <1>5, <1>8
  <2> QED BY <1>1, <1>3, <1>4, <1>6, <1>8, <2>1 DEF h, k, l, m
<1>9. CASE h = k
  BY <1>1, <1>3, <1>4, <1>6, <1>9 DEF h, k, l, m
<1> QED BY <1>4, <1>7, <1>8, <1>9

\* Below a word and by a word, a signed shift to the right keeps the sign and
\* rounds down.
THEOREM SShrExact ==
    \A a \in U128, n \in 0 .. WordBits :
        SShr(a, n) \in U128 /\ Value(SShr(a, n)) = (Signed(a) \div Power[n]) % Limit
<1> SUFFICES ASSUME NEW a \in U128, NEW n \in 0 .. WordBits
             PROVE  SShr(a, n) \in U128 /\ Value(SShr(a, n)) = (Signed(a) \div Power[n]) % Limit
  OBVIOUS
<1> DEFINE h == a.hi
           l == a.lo
           W == WordBits
           p == Power[n]
           d == Power[W - n]
           e == d * Base
           x == Value(a)
           q == x \div p
           s == SShr(a, n)
           u == Shr(a, n)
<1>1. /\ W \in Nat \ {0} /\ n \in Nat /\ n <= W /\ W - n \in Nat /\ Bits = W + W
      /\ Base \in Nat \ {0, 1} /\ Limit \in Nat \ {0}
      /\ h \in 0 .. Base - 1 /\ l \in 0 .. Base - 1
      /\ x = h * Base + l /\ x \in Nat /\ x < Limit
  BY BaseFacts, PairFacts DEF Value, Bits, Limit
<1>2. p \in Nat \ {0} /\ d \in Nat \ {0} /\ Base = p * d
  BY <1>1, PowerParts, PowerFacts DEF Base
<1>3. u \in U128 /\ Value(u) = q
  BY <1>1, ShrExact
<1>4. IsNeg(a) <=> Limit <= 2 * x
  BY IsNegExact
<1>5. Limit = e * p /\ e \in Nat \ {0} /\ e <= Limit
  <2> HIDE DEF p, d
  <2>1. Limit = e * p /\ e \in Nat \ {0}
    BY <1>1, <1>2 DEF Limit
  <2> HIDE DEF e
  <2> QED BY <1>2, <2>1
<1>6. q \in Nat /\ q < Limit /\ q < e /\ x = q * p + (x % p) /\ x % p \in 0 .. p - 1
  <2> HIDE DEF x, p, e
  <2>1. q \in Nat /\ x = q * p + (x % p) /\ x % p \in 0 .. p - 1
    BY <1>1, <1>2, Divided
  <2> DEFINE r == x % p
  <2> HIDE DEF q, r
  <2>2. r \in Nat /\ x = q * p + r
    BY <2>1 DEF r
  <2>3. q < e
    <3> SUFFICES ASSUME e <= q PROVE FALSE
      BY <1>5, <2>1
    <3>1. e * p <= q * p /\ q * p \in Nat
      BY <1>2, <1>5, <2>1
    <3> QED BY <1>1, <1>5, <2>2, <3>1
  <2> QED BY <1>1, <1>5, <2>1, <2>3
<1>7. s \in U128 /\ Value(s) = IF IsNeg(a) THEN q + (Limit - e) ELSE q
  <2>1. CASE n = 0
    <3>1. s = a
      BY <1>1, <2>1 DEF SShr
    <3>2. p = 1
      BY <2>1, PowerFacts
    <3> HIDE DEF x, p, e, s
    <3>3. q = x /\ e = Limit
      BY <1>1, <1>5, <3>2
    <3> QED BY <1>1, <3>1, <3>3 DEF x
  <2>2. CASE n = W
    <3>1. p = Base /\ Power[n - W] = 1 /\ d = 1 /\ e = Base
      <4>1. n - W = 0 /\ W - n = 0 /\ 1 * Base = Base
        BY <1>1, <2>2
      <4> QED BY <2>2, <4>1, PowerFacts DEF Base
    <3>2. s = [lo |-> h, hi |-> IF IsNeg(a) THEN Base - 1 ELSE 0]
      <4>1. s = [lo |-> h \div Power[n - W], hi |-> IF IsNeg(a) THEN Base - 1 ELSE 0]
        BY <1>1, <2>2 DEF SShr
      <4>2. h \div 1 = h
        BY <1>1
      <4> QED BY <3>1, <4>1, <4>2
    <3>3. q = h
      <4> HIDE DEF h, l, x, p
      <4>1. h \in Int
        BY <1>1
      <4>2. (h * Base + l) \div Base = h
        BY <1>1, <4>1, Quotients
      <4> QED BY <1>1, <3>1, <4>2
    <3> DEFINE k == IF IsNeg(a) THEN Base - 1 ELSE 0
    <3>4. k \in 0 .. Base - 1
      BY <1>1
    <3>5. s \in U128 /\ Value(s) = k * Base + h
      <4> HIDE DEF k, s, h
      <4> QED BY <1>1, <3>2, <3>4, PairOf DEF k
    <3>6. k * Base = IF IsNeg(a) THEN Limit - Base ELSE 0
      BY <1>1 DEF Limit
    <3> HIDE DEF k, s, h, q, e, p
    <3> QED BY <1>1, <3>1, <3>3, <3>5, <3>6
  <2>3. CASE n > 0 /\ n < W
    <3> DEFINE k == IF IsNeg(a) THEN Base - d ELSE 0
    <3>1. s = [u EXCEPT !.hi = @ + k]
      BY <1>1, <2>3 DEF SShr
    <3>2. u.hi = h \div p
      BY <1>1, <2>3 DEF Shr
    <3>3. u.hi \in Nat /\ u.hi < d
      <4> HIDE DEF h, p, d, u
      <4>1. h \in Nat /\ h < d * p
        BY <1>1, <1>2
      <4>2. h \div p \in Nat
        BY <1>2, <4>1, Divided
      <4>3. h \div p < d
        BY <1>2, <4>1, MovedUp
      <4> QED BY <3>2, <4>2, <4>3
    <3>4. d <= Base /\ k \in Nat /\ u.hi + k \in 0 .. Base - 1
      <4> HIDE DEF p, d, u
      <4>1. d <= p * d
        BY <1>2
      <4> QED BY <1>1, <1>2, <3>3, <4>1
    <3>5. u.lo \in 0 .. Base - 1 /\ q = u.hi * Base + u.lo
      BY <1>3, PairFacts DEF Value
    <3>6. s = [lo |-> u.lo, hi |-> u.hi + k]
      <4> HIDE DEF s, k
      <4> QED BY <1>3, <3>1 DEF U128
    <3>7. s \in U128 /\ Value(s) = (u.hi + k) * Base + u.lo
      <4> HIDE DEF s, k, u
      <4> QED BY <3>4, <3>5, <3>6, PairOf
    <3>8. (u.hi + k) * Base = u.hi * Base + k * Base /\ u.hi * Base \in Nat
      <4> HIDE DEF k, u
      <4> QED BY <1>1, <3>3, <3>4
    <3>9. k * Base = IF IsNeg(a) THEN Limit - e ELSE 0
      <4> HIDE DEF d
      <4>1. (Base - d) * Base = Base * Base - d * Base
        BY <1>1, <1>2
      <4> QED BY <1>1, <4>1 DEF Limit
    <3> HIDE DEF s, k, u, e, q
    <3> QED BY <1>1, <1>5, <3>5, <3>7, <3>8, <3>9
  <2> QED BY <1>1, <2>1, <2>2, <2>3
<1>8. Signed(a) \div p = IF IsNeg(a) THEN q - e ELSE q
  <2>1. CASE ~IsNeg(a)
    BY <1>4, <2>1 DEF Signed
  <2>2. CASE IsNeg(a)
    <3> DEFINE r == x % p
               t == q - e
    <3>1. Signed(a) = x - Limit
      BY <1>4, <2>2 DEF Signed
    <3>2. r \in 0 .. p - 1 /\ x = q * p + r /\ t \in Int
      BY <1>5, <1>6
    <3> HIDE DEF q, r, x, p, e
    <3>3. (q - e) * p = q * p - e * p /\ q * p \in Int
      BY <1>2, <1>5, <1>6
    <3>4. Signed(a) = t * p + r
      BY <1>1, <1>5, <3>1, <3>2, <3>3
    <3> HIDE DEF t
    <3>5. (t * p + r) \div p = t
      BY <1>2, <3>2, Quotients
    <3> QED BY <2>2, <3>4, <3>5 DEF t
  <2> QED BY <2>1, <2>2
<1> HIDE DEF s, q, e, p
<1>9. CASE IsNeg(a)
  <2> DEFINE v == q - e
             w == q + (Limit - e)
             t == 0 - 1
  <2>1. w \in 0 .. Limit - 1 /\ t \in Int /\ v = t * Limit + w
    BY <1>1, <1>5, <1>6
  <2> HIDE DEF v, w, t
  <2>2. (t * Limit + w) % Limit = w
    BY <1>1, <2>1, Quotients
  <2> QED BY <1>7, <1>8, <1>9, <2>1, <2>2 DEF s, p, v, w
<1>10. CASE ~IsNeg(a)
  <2>1. q % Limit = q
    BY <1>1, <1>6
  <2> QED BY <1>7, <1>8, <1>10, <2>1 DEF s, p
<1> QED BY <1>9, <1>10

(***************************************************************************)
(* Congruences.                                                            *)
(***************************************************************************)
\* Numbers with the same remainder differ by a multiple of the divisor.
LEMMA SameRemainder ==
    ASSUME NEW x \in Int, NEW y \in Int, NEW m \in Nat \ {0}
    PROVE  x % m = y % m <=> \E k \in Int : x = y + k * m
<1>1. ASSUME NEW z \in Int
      PROVE  z \div m \in Int /\ z % m \in 0 .. m - 1 /\ z = (z \div m) * m + (z % m)
  OBVIOUS
<1>2. ASSUME x % m = y % m PROVE \E k \in Int : x = y + k * m
  <2> DEFINE a == x \div m
             b == y \div m
             r == y % m
  <2>1. a \in Int /\ b \in Int /\ r \in 0 .. m - 1 /\ x = a * m + r /\ y = b * m + r
    BY <1>1, <1>2
  <2> HIDE DEF a, b, r
  <2>2. a - b \in Int /\ (a - b) * m = a * m - b * m /\ a * m \in Int /\ b * m \in Int
    BY <2>1
  <2>3. x = y + (a - b) * m
    BY <2>1, <2>2
  <2> QED BY <2>2, <2>3
<1>3. ASSUME NEW k \in Int, x = y + k * m PROVE x % m = y % m
  <2> DEFINE b == y \div m
             r == y % m
  <2>1. b \in Int /\ r \in 0 .. m - 1 /\ y = b * m + r
    BY <1>1
  <2> HIDE DEF b, r
  <2>2. b + k \in Int /\ (b + k) * m = b * m + k * m /\ b * m \in Int /\ k * m \in Int
    BY <2>1
  <2>3. x = (b + k) * m + r
    BY <1>3, <2>1, <2>2
  <2>4. ((b + k) * m + r) % m = r
    BY <2>1, <2>2, Quotients
  <2> QED BY <2>3, <2>4 DEF r
<1> QED BY <1>2, <1>3

\* x and y have the same remainder, and differ by a multiple of m.
Congruent(x, y, m) == x % m = y % m
Apart(x, y, m) == \E k \in Int : x = y + k * m

\* SameRemainder in these terms.
LEMMA CongruentApart ==
    ASSUME NEW x \in Int, NEW y \in Int, NEW m \in Nat \ {0}
    PROVE  Congruent(x, y, m) <=> Apart(x, y, m)
BY SameRemainder DEF Congruent, Apart

\* Sums, differences and products of numbers with the same remainders.
LEMMA SameRemainders ==
    ASSUME NEW x \in Int, NEW y \in Int, NEW u \in Int, NEW v \in Int, NEW m \in Nat \ {0},
           Congruent(x, u, m), Congruent(y, v, m)
    PROVE  Congruent(x + y, u + v, m) /\ Congruent(x - y, u - v, m) /\ Congruent(x * y, u * v, m)
<1>1. PICK j \in Int : x = u + j * m
  BY SameRemainder DEF Congruent
<1>2. PICK k \in Int : y = v + k * m
  BY SameRemainder DEF Congruent
<1>3. (x + y) % m = (u + v) % m
  <2>1. j + k \in Int /\ (j + k) * m = j * m + k * m /\ j * m \in Int /\ k * m \in Int
    OBVIOUS
  <2>2. x + y \in Int /\ u + v \in Int /\ x + y = (u + v) + (j + k) * m
    BY <1>1, <1>2, <2>1
  <2> DEFINE a == x + y
             b == u + v
             t == j + k
  <2>3. a \in Int /\ b \in Int /\ t \in Int /\ a = b + t * m
    BY <2>1, <2>2
  <2> HIDE DEF a, b, t
  <2>4. Apart(a, b, m)
    BY <2>3 DEF Apart
  <2>5. Congruent(a, b, m)
    BY <2>3, <2>4, CongruentApart
  <2> QED BY <2>5 DEF a, b, Congruent
<1>4. (x - y) % m = (u - v) % m
  <2>1. j - k \in Int /\ (j - k) * m = j * m - k * m /\ j * m \in Int /\ k * m \in Int
    OBVIOUS
  <2>2. x - y \in Int /\ u - v \in Int /\ x - y = (u - v) + (j - k) * m
    BY <1>1, <1>2, <2>1
  <2> DEFINE a == x - y
             b == u - v
             t == j - k
  <2>3. a \in Int /\ b \in Int /\ t \in Int /\ a = b + t * m
    BY <2>1, <2>2
  <2> HIDE DEF a, b, t
  <2>4. Apart(a, b, m)
    BY <2>3 DEF Apart
  <2>5. Congruent(a, b, m)
    BY <2>3, <2>4, CongruentApart
  <2> QED BY <2>5 DEF a, b, Congruent
<1>5. (x * y) % m = (u * v) % m
  <2> DEFINE t == u * k + (j * v + j * (k * m))
  <2>1. t \in Int
    OBVIOUS
  <2>2. x * y \in Int /\ u * v \in Int
    OBVIOUS
  <2>3. x * y = u * v + t * m
    <3>1. (u + j * m) * (v + k * m) = u * v + (u * (k * m) + ((j * m) * v + (j * m) * (k * m)))
      OBVIOUS
    <3>2. u * (k * m) = (u * k) * m /\ (j * m) * v = (j * v) * m /\ (j * m) * (k * m) = (j * (k * m)) * m
      OBVIOUS
    <3>3. t * m = (u * k) * m + ((j * v) * m + (j * (k * m)) * m)
      <4> DEFINE a == u * k
                 b == j * v
                 c == j * (k * m)
      <4>1. a \in Int /\ b \in Int /\ c \in Int
        OBVIOUS
      <4> HIDE DEF a, b, c
      <4>2. (a + (b + c)) * m = a * m + (b * m + c * m)
        BY <4>1
      <4> QED BY <4>2 DEF a, b, c
    <3> HIDE DEF t
    <3> QED BY <1>1, <1>2, <3>1, <3>2, <3>3
  <2> DEFINE a == x * y
             b == u * v
  <2>4. a \in Int /\ b \in Int /\ t \in Int /\ a = b + t * m
    BY <2>1, <2>2, <2>3
  <2> HIDE DEF a, b, t
  <2>5. Apart(a, b, m)
    BY <2>4 DEF Apart
  <2>6. Congruent(a, b, m)
    BY <2>4, <2>5, CongruentApart
  <2> QED BY <2>6 DEF a, b, Congruent
<1> QED BY <1>3, <1>4, <1>5 DEF Congruent

\* A remainder keeps the remainders by the divisors of its divisor.
LEMMA RemainderOfRemainder ==
    ASSUME NEW x \in Int, NEW m \in Nat \ {0}, NEW k \in Nat \ {0}
    PROVE  (x % (m * k)) % m = x % m
<1> DEFINE n == m * k
           q == x \div n
           r == x % n
<1>1. n \in Nat \ {0}
  OBVIOUS
<1>2. q \in Int /\ r \in Int /\ x = q * n + r
  <2> HIDE DEF n
  <2> QED BY <1>1
<1> HIDE DEF q, r
<1>3. q * k \in Int /\ q * (m * k) = (q * k) * m
  BY <1>2
<1>4. x = r + (q * k) * m
  <2>1. q * n \in Int
    BY <1>2, <1>3
  <2> QED BY <1>2, <1>3, <2>1
<1>5. x % m = r % m
  <2> DEFINE t == q * k
  <2>1. t \in Int /\ x = r + t * m
    BY <1>3, <1>4
  <2>2. r \in Int
    BY <1>2
  <2> HIDE DEF t
  <2>3. \E j \in Int : x = r + j * m
    BY <2>1
  <2> QED BY <2>2, <2>3, SameRemainder
<1> QED BY <1>5 DEF r

\* A remainder is congruent to what it is the remainder of.
LEMMA RemainderTwice ==
    ASSUME NEW x \in Int, NEW m \in Nat \ {0}
    PROVE  x % m \in 0 .. m - 1 /\ x % m \in Int /\ (x % m) % m = x % m
<1> DEFINE r == x % m
<1>1. r \in 0 .. m - 1
  OBVIOUS
<1> HIDE DEF r
<1>2. r % m = r
  BY <1>1
<1> QED BY <1>1, <1>2 DEF r

\* Small numbers are their remainders.
LEMMA SmallRemainder ==
    ASSUME NEW m \in Nat \ {0}, NEW x \in 0 .. m - 1
    PROVE  x % m = x
OBVIOUS

(***************************************************************************)
(* Bits.                                                                   *)
(***************************************************************************)
\* The word with the bits of S: the sums of its powers, one bit at a time.
Sums(sum, S) ==
    /\ WordOf(S) = sum[WordBits]
    /\ sum[0] = 0
    /\ \A n \in Nat : sum[n + 1] = sum[n] + (IF n \in S THEN Power[n] ELSE 0)

\* There are such sums, also beyond the word.
LEMMA WordOfSums == \A S : \E sum \in [Nat -> Nat] : Sums(sum, S)
<1> SUFFICES ASSUME NEW S PROVE \E sum \in [Nat -> Nat] : Sums(sum, S)
  OBVIOUS
<1> DEFINE step == [z \in Nat \X Nat |-> z[2] + (IF z[1] \in S THEN Power[z[1]] ELSE 0)]
           sum[n \in 0 .. WordBits] ==
               IF n = 0 THEN 0 ELSE sum[n - 1] + (IF n - 1 \in S THEN Power[n - 1] ELSE 0)
<1>1. WordOf(S) = sum[WordBits]
  BY DEF WordOf
<1>2. step \in [Nat \X Nat -> Nat]
  BY PowerFacts
<1>3. PICK f \in [Nat -> Nat] : RunsForever(f, 0, step)
  <2>1. 0 \in Nat
    OBVIOUS
  <2> HIDE DEF step
  <2> QED BY <1>2, <2>1, Iteration
<1>4. /\ f[0] = 0
      /\ \A n \in Nat : f[n + 1] = f[n] + (IF n \in S THEN Power[n] ELSE 0)
  <2>1. ASSUME NEW n \in Nat
        PROVE step[<<n, f[n]>>] = f[n] + (IF n \in S THEN Power[n] ELSE 0)
    OBVIOUS
  <2> HIDE DEF step
  <2> QED BY <1>3, <2>1 DEF RunsForever
<1>5. sum[WordBits] = f[WordBits]
  <2> DEFINE W == WordBits
             g == [n \in 0 .. W |-> f[n]]
  <2>1. W \in Nat
    BY BaseFacts
  <2> HIDE DEF W
  <2>2. g = [n \in 0 .. W |->
                IF n = 0 THEN 0 ELSE g[n - 1] + (IF n - 1 \in S THEN Power[n - 1] ELSE 0)]
    <3>1. ASSUME NEW n \in 0 .. W
          PROVE g[n] = IF n = 0 THEN 0 ELSE g[n - 1] + (IF n - 1 \in S THEN Power[n - 1] ELSE 0)
      <4>1. CASE n = 0
        BY <1>4, <4>1
      <4>2. CASE n # 0
        <5>1. n - 1 \in Nat /\ n - 1 \in 0 .. W /\ (n - 1) + 1 = n
          BY <2>1, <4>2
        <5> QED BY <1>4, <4>2, <5>1
      <4> QED BY <4>1, <4>2
    <3> QED BY <3>1
  <2>3. sum = [n \in 0 .. W |->
                IF n = 0 THEN 0 ELSE sum[n - 1] + (IF n - 1 \in S THEN Power[n - 1] ELSE 0)]
    <3> HIDE DEF g
    <3> QED BY <2>2 DEF sum, W
  <2> HIDE DEF sum
  <2> DEFINE T == {n \in Nat : n <= W => sum[n] = f[n]}
  <2>4. 0 \in T
    BY <1>4, <2>1, <2>3
  <2>5. ASSUME NEW n \in Nat, n \in T PROVE n + 1 \in T
    <3> SUFFICES ASSUME n + 1 <= W PROVE sum[n + 1] = f[n + 1]
      OBVIOUS
    <3>1. n <= W /\ n + 1 \in 0 .. W /\ n + 1 # 0 /\ (n + 1) - 1 = n
      BY <2>1
    <3>2. sum[n + 1] = sum[n] + (IF n \in S THEN Power[n] ELSE 0)
      BY <2>3, <3>1
    <3> QED BY <1>4, <2>5, <3>1, <3>2
  <2> HIDE DEF T
  <2>6. Nat \subseteq T
    BY <2>4, <2>5, NaturalInduction
  <2>7. W \in T /\ W <= W
    BY <2>1, <2>6
  <2> QED BY <2>7 DEF T, W
<1> HIDE DEF sum
<1>6. Sums(f, S)
  BY <1>1, <1>4, <1>5 DEF Sums
<1> QED BY <1>6

\* It is a word.
LEMMA WordOfIsWord == \A S : WordOf(S) \in Word
<1> SUFFICES ASSUME NEW S PROVE WordOf(S) \in Word
  OBVIOUS
<1>0. PICK sum \in [Nat -> Nat] : Sums(sum, S)
  BY WordOfSums
<1>1. /\ WordOf(S) = sum[WordBits]
      /\ sum[0] = 0
      /\ \A n \in Nat : sum[n + 1] = sum[n] + (IF n \in S THEN Power[n] ELSE 0)
  BY <1>0 DEF Sums
<1> DEFINE T == {n \in Nat : sum[n] < Power[n]}
<1>2. 0 \in T
  BY <1>1, PowerFacts
<1>3. ASSUME NEW n \in Nat, n \in T PROVE n + 1 \in T
  <2>1. sum[n] < Power[n] /\ Power[n] \in Nat /\ Power[n + 1] = 2 * Power[n]
    BY <1>3, PowerFacts
  <2>2. sum[n] \in Nat /\ sum[n + 1] = sum[n] + (IF n \in S THEN Power[n] ELSE 0)
    BY <1>1
  <2> QED BY <2>1, <2>2
<1>4. sum[WordBits] < Base
  <2>1. WordBits \in T
    <3> HIDE DEF T
    <3> QED BY <1>2, <1>3, NaturalInduction, BaseFacts
  <2> QED BY <2>1 DEF Base
<1>5. sum[WordBits] \in Nat
  BY BaseFacts
<1> QED BY <1>1, <1>4, <1>5, BaseFacts DEF Word

\* Of words without a common bit, | is +.
LEMMA DisjointOr ==
    ASSUME NEW x \in Word, NEW y \in Word, BitsOf(x) \cap BitsOf(y) = {}
    PROVE  Or(x, y) = x + y
<1> DEFINE W == WordBits
           S == BitsOf(x) \cup BitsOf(y)
<1>1. W \in Nat /\ Base = Power[W] /\ x \in Nat /\ y \in Nat /\ x < Base /\ y < Base /\ Base \in Nat
  BY BaseFacts DEF Word, Base
<1>2. PICK sum \in [Nat -> Nat] :
          /\ WordOf(S) = sum[WordBits]
          /\ sum[0] = 0
          /\ \A n \in Nat : sum[n + 1] = sum[n] + (IF n \in S THEN Power[n] ELSE 0)
  <2> HIDE DEF S
  <2> QED BY WordOfSums DEF Sums
<1> DEFINE T == {n \in Nat : n <= W => sum[n] = (x % Power[n]) + (y % Power[n])}
<1>3. 0 \in T
  <2>1. Power[0] = 1 /\ x % 1 = 0 /\ y % 1 = 0
    BY <1>1, PowerFacts
  <2> QED BY <1>2, <2>1
<1>4. ASSUME NEW n \in Nat, n \in T PROVE n + 1 \in T
  <2> SUFFICES ASSUME n + 1 <= W PROVE sum[n + 1] = (x % Power[n + 1]) + (y % Power[n + 1])
    OBVIOUS
  <2> DEFINE p == Power[n]
             a == x % p
             b == y % p
  <2>1. n \in 0 .. W - 1 /\ n <= W
    BY <1>1
  <2>2. p \in Nat \ {0} /\ Power[n + 1] = 2 * p
    BY PowerFacts
  <2>3. n \in BitsOf(x) <=> (x \div p) % 2 = 1
    BY <2>1 DEF BitsOf
  <2>4. n \in BitsOf(y) <=> (y \div p) % 2 = 1
    BY <2>1 DEF BitsOf
  <2>5. sum[n] = a + b
    BY <1>4, <2>1
  <2>6. sum[n + 1] = sum[n] + (IF n \in S THEN p ELSE 0)
    BY <1>2
  <2> HIDE DEF p
  <2>7. /\ x % (2 * p) = a + (IF n \in BitsOf(x) THEN p ELSE 0)
        /\ y % (2 * p) = b + (IF n \in BitsOf(y) THEN p ELSE 0)
    BY <1>1, <2>2, <2>3, <2>4, OneMoreBit
  <2>8. a \in Nat /\ b \in Nat
    <3>1. a \in Nat
      BY <1>1, <2>2, Divided
    <3>2. b \in Nat
      BY <1>1, <2>2, Divided
    <3> QED BY <3>1, <3>2
  <2>9. ~(n \in BitsOf(x) /\ n \in BitsOf(y))
    OBVIOUS
  <2> DEFINE c == x % (2 * p)
             d == y % (2 * p)
  <2> HIDE DEF a, b, c, d
  <2>10. sum[n + 1] = c + d
    <3>1. c = a + (IF n \in BitsOf(x) THEN p ELSE 0) /\ d = b + (IF n \in BitsOf(y) THEN p ELSE 0)
      BY <2>7 DEF c, d
    <3> QED BY <2>2, <2>5, <2>6, <2>8, <2>9, <3>1
  <2> QED BY <2>2, <2>10 DEF c, d
<1>5. W \in T
  <2> HIDE DEF T
  <2> QED BY <1>1, <1>3, <1>4, NaturalInduction
<1>6. sum[W] = (x % Base) + (y % Base)
  <2>1. W <= W
    BY <1>1
  <2> QED BY <1>1, <1>5, <2>1
<1>7. x % Base = x /\ y % Base = y
  BY <1>1
<1> QED BY <1>2, <1>6, <1>7 DEF Or

\* | of a multiple of 2^n and a number below it is +.
LEMMA OrExact ==
    ASSUME NEW a \in U128, NEW b \in U128, NEW n \in Nat, NEW k \in Nat,
           Value(a) < Power[n], Value(b) = k * Power[n]
    PROVE  Or128(a, b) \in U128 /\ Value(Or128(a, b)) = Value(a) + Value(b)
<1>1. ASSUME NEW i \in Nat, i < Bits PROVE ~(Bit(a, i) /\ Bit(b, i))
  <2> DEFINE x == Value(a)
             p == Power[i]
  <2>1. x \in Nat /\ p \in Nat \ {0} /\ Power[n] \in Nat \ {0}
    BY PairFacts, PowerFacts
  <2>2. CASE n <= i
    <3>1. Power[n] <= p
      BY <2>2, PowerParts
    <3> HIDE DEF x, p
    <3>2. x \in 0 .. p - 1
      BY <2>1, <3>1 DEF x
    <3>3. 0 \in Int /\ 0 * p + x = x
      BY <2>1
    <3>4. (0 * p + x) \div p = 0
      BY <2>1, <3>2, <3>3, Quotients
    <3>5. (x \div p) % 2 = 0
      BY <3>3, <3>4
    <3> QED BY <1>1, <3>5, BitExact DEF x, p
  <2>3. CASE i < n
    <3> DEFINE e == Power[n - i - 1]
               y == Value(b)
    <3>1. e \in Nat \ {0} /\ Power[n] = p * (2 * e)
      <4>1. i <= n /\ n - i \in Nat /\ n - i - 1 \in Nat /\ (n - i - 1) + 1 = n - i
        BY <2>3
      <4>2. Power[n - i] = 2 * e /\ e \in Nat \ {0}
        BY <4>1, PowerFacts
      <4> QED BY <4>1, <4>2, PowerParts
    <3>2. y = k * Power[n]
      OBVIOUS
    <3> HIDE DEF p, e, y
    <3> DEFINE t == k * e
    <3>3. t \in Nat /\ y = (t * 2) * p + 0 /\ t * 2 \in Int
      BY <2>1, <3>1, <3>2
    <3> HIDE DEF t
    <3>4. ((t * 2) * p + 0) \div p = t * 2
      <4> DEFINE u == t * 2
      <4>1. u \in Int /\ 0 \in 0 .. p - 1
        BY <2>1, <3>3
      <4> HIDE DEF u
      <4>2. (u * p + 0) \div p = u
        BY <2>1, <4>1, Quotients
      <4> QED BY <4>2 DEF u
    <3>5. (y \div p) % 2 = 0
      <4>1. (t * 2) % 2 = 0
        BY <3>3
      <4> QED BY <3>3, <3>4, <4>1
    <3> QED BY <1>1, <3>5, BitExact DEF y, p
  <2> QED BY <2>2, <2>3
<1>2. /\ a.lo \in Word /\ a.hi \in Word /\ b.lo \in Word /\ b.hi \in Word
      /\ a.lo \in Nat /\ a.hi \in Nat /\ b.lo \in Nat /\ b.hi \in Nat
      /\ WordBits \in Nat /\ Bits = WordBits + WordBits /\ Base \in Nat
  BY BaseFacts DEF U128, Word, Bits
<1>3. BitsOf(a.lo) \cap BitsOf(b.lo) = {}
  <2> SUFFICES ASSUME NEW i \in BitsOf(a.lo), i \in BitsOf(b.lo) PROVE FALSE
    OBVIOUS
  <2>1. i \in 0 .. WordBits - 1 /\ (a.lo \div Power[i]) % 2 = 1 /\ (b.lo \div Power[i]) % 2 = 1
    BY DEF BitsOf
  <2>2. i \in Nat /\ i < Bits /\ i < WordBits
    BY <1>2, <2>1
  <2>3. Bit(a, i) /\ Bit(b, i)
    BY <2>1, <2>2 DEF Bit
  <2> QED BY <1>1, <2>2, <2>3
<1>4. BitsOf(a.hi) \cap BitsOf(b.hi) = {}
  <2> SUFFICES ASSUME NEW i \in BitsOf(a.hi), i \in BitsOf(b.hi) PROVE FALSE
    OBVIOUS
  <2>1. i \in 0 .. WordBits - 1 /\ (a.hi \div Power[i]) % 2 = 1 /\ (b.hi \div Power[i]) % 2 = 1
    BY DEF BitsOf
  <2> DEFINE j == i + WordBits
  <2>2. j \in Nat /\ j < Bits /\ ~(j < WordBits) /\ j - WordBits = i
    BY <1>2, <2>1
  <2> HIDE DEF j
  <2>3. Bit(a, j) /\ Bit(b, j)
    BY <2>1, <2>2 DEF Bit
  <2> QED BY <1>1, <2>2, <2>3
<1> DEFINE l == Or(a.lo, b.lo)
           h == Or(a.hi, b.hi)
<1>5. l = a.lo + b.lo /\ h = a.hi + b.hi
  BY <1>2, <1>3, <1>4, DisjointOr
<1>6. Value(a) + Value(b) = h * Base + l
  <2>1. (a.hi + b.hi) * Base = a.hi * Base + b.hi * Base /\ a.hi * Base \in Nat /\ b.hi * Base \in Nat
    BY <1>2
  <2> QED BY <1>2, <1>5, <2>1 DEF Value
<1>7. l \in 0 .. Base - 1 /\ h \in 0 .. Base - 1
  BY WordOfIsWord DEF Or, Word
<1>8. Or128(a, b) = [lo |-> l, hi |-> h]
  BY DEF Or128
<1> HIDE DEF l, h
<1> QED BY <1>6, <1>7, <1>8, PairOf

(***************************************************************************)
(* Values of the integer types.                                            *)
(***************************************************************************)
\* The number of values of a type.
Modulus(t) == Power[t.bits]

\* A type fits a word, or is as wide as two.
LEMMA TypeFacts ==
    \A t \in Types :
        /\ t.signed \in BOOLEAN /\ t.bits \in Nat /\ t.bits - 1 \in Nat
        /\ t.bits <= Bits /\ (t.bits <= WordBits \/ t.bits = Bits)
        /\ Modulus(t) \in Nat \ {0}
        /\ Power[t.bits - 1] \in Nat \ {0} /\ Modulus(t) = 2 * Power[t.bits - 1]
        /\ Power[Bits - t.bits] \in Nat \ {0} /\ Limit = Modulus(t) * Power[Bits - t.bits]
        /\ Modulus(t) <= Limit
        /\ Contents(t) = 0 .. Modulus(t) - 1
<1> SUFFICES ASSUME NEW t \in Types
             PROVE  /\ t.signed \in BOOLEAN /\ t.bits \in Nat /\ t.bits - 1 \in Nat
                    /\ t.bits <= Bits /\ (t.bits <= WordBits \/ t.bits = Bits)
                    /\ Modulus(t) \in Nat \ {0}
                    /\ Power[t.bits - 1] \in Nat \ {0} /\ Modulus(t) = 2 * Power[t.bits - 1]
                    /\ Power[Bits - t.bits] \in Nat \ {0}
                    /\ Limit = Modulus(t) * Power[Bits - t.bits]
                    /\ Modulus(t) <= Limit
                    /\ Contents(t) = 0 .. Modulus(t) - 1
  OBVIOUS
<1> DEFINE n == t.bits
           W == WordBits
<1>1. t.signed \in BOOLEAN /\ n \in (2 .. W) \cup {Bits}
  BY TypesAssumption
<1>2. W \in Nat \ {0} /\ Bits = W + W /\ Limit = Power[Bits]
  BY BaseFacts DEF Bits
<1> HIDE DEF n, W
<1>3. n \in Nat /\ n - 1 \in Nat /\ (n - 1) + 1 = n /\ n <= Bits /\ (n <= W \/ n = Bits)
      /\ Bits \in Nat /\ Bits - n \in Nat
  BY <1>1, <1>2
<1>4. Power[n - 1] \in Nat \ {0} /\ Power[n] = 2 * Power[n - 1]
  BY <1>3, PowerFacts
<1>5. Power[Bits - n] \in Nat \ {0} /\ Power[n] \in Nat \ {0}
  BY <1>3, PowerFacts
<1>6. Power[Bits] = Power[n] * Power[Bits - n] /\ Power[n] <= Power[Bits]
  BY <1>3, PowerParts
<1> QED BY <1>1, <1>2, <1>3, <1>4, <1>5, <1>6 DEF n, W, Modulus, Contents

\* What a word of the type's width keeps of a remainder modulo Limit.
LEMMA WithinLimit ==
    \A t \in Types, x \in Int : (x % Limit) % Modulus(t) = x % Modulus(t)
<1> SUFFICES ASSUME NEW t \in Types, NEW x \in Int
             PROVE  (x % Limit) % Modulus(t) = x % Modulus(t)
  OBVIOUS
<1> DEFINE m == Modulus(t)
           k == Power[Bits - t.bits]
<1>1. m \in Nat \ {0} /\ k \in Nat \ {0} /\ Limit = m * k
  BY TypeFacts
<1> HIDE DEF m, k
<1>2. (x % (m * k)) % m = x % m
  BY <1>1, RemainderOfRemainder
<1> QED BY <1>1, <1>2 DEF m

\* The low bits of the low word are those of the number.
LEMMA LowBits ==
    ASSUME NEW v \in U128, NEW n \in Nat, n <= WordBits
    PROVE  /\ v.lo % Power[n] = Value(v) % Power[n]
           /\ v.lo % Power[n] \in 0 .. Base - 1
<1> DEFINE h == v.hi
           l == v.lo
           p == Power[n]
           d == Power[WordBits - n]
<1>1. /\ h \in 0 .. Base - 1 /\ l \in 0 .. Base - 1 /\ Value(v) = h * Base + l
      /\ Base \in Nat /\ WordBits - n \in Nat
  BY PairFacts, BaseFacts DEF Value
<1>2. p \in Nat \ {0} /\ d \in Nat \ {0} /\ Base = p * d /\ p <= Base
  BY <1>1, BaseFacts, PowerFacts, PowerParts DEF Base
<1> HIDE DEF h, l, p, d
<1>3. h * Base = (h * d) * p /\ h * d \in Int
  BY <1>1, <1>2
<1> DEFINE t == h * d
           x == Value(v)
<1>4. t \in Int /\ x \in Int /\ l \in Int /\ x = l + t * p
  <2>1. (h * d) * p \in Int
    BY <1>1, <1>3
  <2> QED BY <1>1, <1>3, <2>1
<1> HIDE DEF t, x
<1>5. x % p = l % p
  <2>1. \E j \in Int : x = l + j * p
    BY <1>4
  <2> QED BY <1>2, <1>4, <2>1, SameRemainder
<1>6. l % p \in 0 .. p - 1
  BY <1>2, <1>4, RemainderTwice
<1> QED BY <1>1, <1>2, <1>5, <1>6 DEF x, l, p

\* mask() keeps the remainder modulo the number of values.
LEMMA MaskExact ==
    \A t \in Types, v \in U128 :
        Mask(t, v) \in U128 /\ Value(Mask(t, v)) = Value(v) % Modulus(t)
<1> SUFFICES ASSUME NEW t \in Types, NEW v \in U128
             PROVE  Mask(t, v) \in U128 /\ Value(Mask(t, v)) = Value(v) % Modulus(t)
  OBVIOUS
<1>1. /\ t.bits \in Nat /\ (t.bits <= WordBits \/ t.bits = Bits)
      /\ WordBits \in Nat \ {0} /\ Bits = WordBits + WordBits
  BY TypeFacts, BaseFacts DEF Bits
<1>2. v.lo \in 0 .. Base - 1 /\ Value(v) \in Nat /\ Value(v) < Limit
  BY PairFacts
<1>3. CASE t.bits < WordBits
  <2>1. Mask(t, v) = Pair(v.lo % Power[t.bits])
    BY <1>1, <1>3 DEF Mask
  <2>2. t.bits <= WordBits
    BY <1>1, <1>3
  <2> DEFINE w == v.lo % Power[t.bits]
  <2>3. w = Value(v) % Power[t.bits] /\ w \in 0 .. Base - 1
    BY <1>1, <2>2, LowBits
  <2>4. Mask(t, v) = Pair(w)
    BY <2>1
  <2> HIDE DEF w
  <2>5. Pair(w) \in U128 /\ Value(Pair(w)) = w
    BY <2>3, LowPair
  <2> QED BY <2>3, <2>4, <2>5 DEF Modulus
<1>4. CASE t.bits = WordBits
  <2>1. Mask(t, v) = Pair(v.lo)
    <3>1. ~(t.bits < WordBits) /\ t.bits # Bits
      BY <1>1, <1>4
    <3> QED BY <1>4, <3>1 DEF Mask
  <2>2. v.lo % Power[t.bits] = Value(v) % Power[t.bits]
    BY <1>1, <1>4, LowBits
  <2>3. v.lo % Base = v.lo
    BY <1>2, BaseFacts
  <2> QED BY <1>2, <1>4, <2>1, <2>2, <2>3, LowPair DEF Modulus, Base
<1>5. CASE t.bits = Bits
  <2>1. Mask(t, v) = v
    <3>1. ~(t.bits < WordBits) /\ t.bits # WordBits
      BY <1>1, <1>5
    <3> QED BY <1>5, <3>1 DEF Mask
  <2>2. Modulus(t) = Limit
    BY <1>5, BaseFacts DEF Modulus
  <2>3. Value(v) % Limit = Value(v)
    <3> DEFINE x == Value(v)
    <3> HIDE DEF x
    <3>1. x \in Nat /\ x < Limit /\ Limit \in Nat \ {0}
      BY <1>2, BaseFacts DEF x, Limit
    <3>2. x % Limit = x
      BY <3>1
    <3> QED BY <3>2 DEF x
  <2> QED BY <2>1, <2>2, <2>3
<1> QED BY <1>1, <1>3, <1>4, <1>5

\* So does the one for signed values, which masks the absolute value.
LEMMA MaskSExact ==
    \A t \in Types, v \in U128 :
        MaskS(t, v) \in U128 /\ Value(MaskS(t, v)) % Modulus(t) = Value(v) % Modulus(t)
<1> SUFFICES ASSUME NEW t \in Types, NEW v \in U128
             PROVE  MaskS(t, v) \in U128 /\ Value(MaskS(t, v)) % Modulus(t) = Value(v) % Modulus(t)
  OBVIOUS
<1> DEFINE m == Modulus(t)
           x == Value(v)
<1>1. m \in Nat \ {0} /\ x \in Nat /\ x \in Int /\ Limit \in Nat \ {0}
  BY TypeFacts, PairFacts, BaseFacts DEF Limit
<1>2. CASE ~SLess(v, Zero)
  <2>1. MaskS(t, v) = Mask(t, v)
    BY <1>2 DEF MaskS
  <2>2. (x % m) % m = x % m
    BY <1>1, RemainderTwice
  <2> QED BY <2>1, <2>2, MaskExact
<1>3. CASE SLess(v, Zero)
  <2> DEFINE u == Neg(v)
             w == Mask(t, u)
             y == 0 - x
  <2>1. MaskS(t, v) = Neg(w)
    BY <1>3 DEF MaskS
  <2>2. u \in U128 /\ Value(u) = y % Limit
    BY NegExact
  <2>3. w \in U128 /\ Value(w) = Value(u) % m
    BY <2>2, MaskExact
  <2>4. y \in Int
    BY <1>1
  <2>5. Value(w) = y % m
    <3> HIDE DEF m, y, w, u, x
    <3>1. (y % Limit) % m = y % m
      BY <2>4, WithinLimit DEF m
    <3> QED BY <2>2, <2>3, <3>1
  <2> DEFINE z == 0 - Value(w)
  <2>6. Neg(w) \in U128 /\ Value(Neg(w)) = z % Limit
    BY <2>3, NegExact
  <2>7. z \in Int /\ Value(w) \in Int
    BY <2>3, PairFacts
  <2>8. (z % Limit) % m = z % m
    <3> HIDE DEF z, m
    <3> QED BY <2>7, WithinLimit DEF m
  <2>9. z % m = x % m
    <3> HIDE DEF m, x, w, z, y
    <3>1. Value(w) % m = y % m /\ 0 \in Int
      <4>1. (y % m) % m = y % m
        BY <1>1, <2>4, RemainderTwice
      <4> QED BY <2>5, <4>1
    <3>2. (0 - Value(w)) % m = (0 - y) % m
      <4> DEFINE c == Value(w)
                 o == 0
      <4>1. /\ o \in Int /\ c \in Int /\ y \in Int /\ m \in Nat \ {0}
            /\ Congruent(c, y, m) /\ Congruent(o, o, m)
        BY <1>1, <2>4, <2>7, <3>1 DEF Congruent
      <4> HIDE DEF c, o
      <4>2. Congruent(o - c, o - y, m)
        BY <4>1, SameRemainders
      <4> QED BY <4>2 DEF c, o, Congruent
    <3>3. 0 - y = x
      BY <1>1 DEF y
    <3> QED BY <3>2, <3>3 DEF z
  <2> QED BY <2>1, <2>6, <2>8, <2>9
<1> QED BY <1>2, <1>3

\* The number that bytes encode is congruent to them.
LEMMA NumFacts ==
    \A t \in Types : \A n \in Contents(t) :
        LET m == Modulus(t)
            half == Power[t.bits - 1]
        IN /\ n \in Nat /\ n < m /\ n % m = n
           /\ Num(t, n) \in Int /\ Num(t, n) % m = n
           /\ ~t.signed => Num(t, n) = n
           /\ t.signed => Num(t, n) = IF n >= half THEN n - m ELSE n
<1> SUFFICES ASSUME NEW t \in Types, NEW n \in Contents(t)
             PROVE  LET m == Modulus(t)
                        half == Power[t.bits - 1]
                    IN /\ n \in Nat /\ n < m /\ n % m = n
                       /\ Num(t, n) \in Int /\ Num(t, n) % m = n
                       /\ ~t.signed => Num(t, n) = n
                       /\ t.signed => Num(t, n) = IF n >= half THEN n - m ELSE n
  OBVIOUS
<1> DEFINE m == Modulus(t)
           half == Power[t.bits - 1]
           x == Num(t, n)
<1>1. m \in Nat \ {0} /\ n \in 0 .. m - 1 /\ t.signed \in BOOLEAN
  BY TypeFacts
<1>2. x = IF t.signed /\ n >= half THEN n - m ELSE n
  BY DEF Num, Modulus
<1> HIDE DEF m, half, x
<1>3. n % m = n /\ n \in Int /\ n \in Nat
  BY <1>1
<1>4. x \in Int /\ (x = n \/ x = n + (0 - 1) * m)
  BY <1>1, <1>2
<1>5. x % m = n
  <2>1. 0 \in Int /\ 0 - 1 \in Int /\ n = n + 0 * m
    BY <1>1
  <2>2. \E j \in Int : x = n + j * m
    BY <1>4, <2>1
  <2> QED BY <1>1, <1>3, <1>4, <2>2, SameRemainder
<1>6. n < m
  BY <1>1
<1>7. ~t.signed => x = n
  BY <1>2
<1>8. t.signed => x = IF n >= half THEN n - m ELSE n
  BY <1>2
<1> QED BY <1>3, <1>4, <1>5, <1>6, <1>7, <1>8 DEF m, half, x

\* The low 2 * WordBits bits of a number below Limit are the number.
LEMMA PairExact ==
    ASSUME NEW n \in Nat, n < Limit
    PROVE  Pair(n) \in U128 /\ Value(Pair(n)) = n
<1> DEFINE q == n \div Base
           r == n % Base
<1>1. Base \in Nat \ {0}
  BY BaseFacts
<1>2. q \in Nat /\ r \in 0 .. Base - 1 /\ n = q * Base + r
  BY <1>1, Divided
<1>3. q < Base
  <2>1. n < Base * Base
    BY DEF Limit
  <2> QED BY <1>1, <2>1, MovedUp
<1> HIDE DEF q, r
<1>4. q % Base = q
  BY <1>1, <1>2, <1>3
<1>5. Pair(n) = [lo |-> r, hi |-> q]
  BY <1>4 DEF Pair, q, r
<1>6. q \in 0 .. Base - 1
  BY <1>1, <1>2, <1>3
<1> QED BY <1>2, <1>5, <1>6, PairOf

\* The mask that extends a sign.
LEMMA OnesShifted ==
    \A t \in Types :
        /\ Shl(Ones, t.bits) \in U128
        /\ Value(Shl(Ones, t.bits)) = Limit - Modulus(t)
<1> SUFFICES ASSUME NEW t \in Types
             PROVE  /\ Shl(Ones, t.bits) \in U128
                    /\ Value(Shl(Ones, t.bits)) = Limit - Modulus(t)
  OBVIOUS
<1> DEFINE m == Modulus(t)
           s == Shl(Ones, t.bits)
<1>1. Limit \in Nat \ {0} /\ Base \in Nat \ {0, 1} /\ m \in Nat \ {0} /\ m <= Limit /\ t.bits \in Nat
  BY TypeFacts, BaseFacts DEF Limit
<1>2. Ones \in U128 /\ Value(Ones) = Limit - 1
  <2>1. Base - 1 \in 0 .. Base - 1
    BY <1>1
  <2>2. Ones \in U128 /\ Value(Ones) = (Base - 1) * Base + (Base - 1)
    BY <2>1, PairOf DEF Ones
  <2>3. (Base - 1) * Base = Base * Base - Base /\ Base * Base \in Nat
    BY <1>1
  <2> QED BY <1>1, <2>2, <2>3 DEF Limit
<1>3. s \in U128 /\ Value(s) = ((Limit - 1) * m) % Limit
  BY <1>1, <1>2, ShlExact DEF Modulus
<1> HIDE DEF m, s
<1> DEFINE r == Limit - m
           q == m - 1
<1>4. (Limit - 1) * m = q * Limit + r
  <2>1. (Limit - 1) * m = Limit * m - m /\ (m - 1) * Limit = Limit * m - Limit /\ Limit * m \in Nat
    BY <1>1
  <2> QED BY <1>1, <2>1
<1>5. q \in Int /\ r \in 0 .. Limit - 1
  BY <1>1
<1> HIDE DEF q, r
<1>6. (q * Limit + r) % Limit = r
  BY <1>1, <1>5, Quotients
<1> QED BY <1>3, <1>4, <1>6 DEF r, m, s

\* The two readings of a pair are congruent.
LEMMA SignedCongruent ==
    \A t \in Types, a \in U128 :
        Signed(a) \in Int /\ Signed(a) % Modulus(t) = Value(a) % Modulus(t)
<1> SUFFICES ASSUME NEW t \in Types, NEW a \in U128
             PROVE  Signed(a) \in Int /\ Signed(a) % Modulus(t) = Value(a) % Modulus(t)
  OBVIOUS
<1> DEFINE m == Modulus(t)
           k == Power[Bits - t.bits]
           x == Value(a)
           y == Signed(a)
<1>1. /\ m \in Nat \ {0} /\ k \in Nat /\ Limit = m * k /\ x \in Nat
      /\ (y = x \/ y = x - Limit) /\ Limit \in Nat
  BY TypeFacts, PairFacts, BaseFacts DEF Signed, Limit
<1> HIDE DEF m, k, x, y
<1>2. x \in Int /\ y \in Int
  BY <1>1
<1>3. \E j \in Int : y = x + j * m
  <2>1. CASE y = x
    <3>1. 0 \in Int /\ y = x + 0 * m
      BY <1>1, <2>1
    <3> QED BY <3>1
  <2>2. CASE y = x - Limit
    <3>1. 0 - k \in Int /\ (0 - k) * m = 0 - m * k
      BY <1>1
    <3>2. y = x + (0 - k) * m
      BY <1>1, <2>2, <3>1
    <3> QED BY <3>1, <3>2
  <2> QED BY <1>1, <2>1, <2>2
<1>4. y % m = x % m
  BY <1>1, <1>2, <1>3, SameRemainder
<1> QED BY <1>2, <1>4 DEF m, x, y

\* read_uint and read_sint: the pair stands for the number the bytes encode.
LEMMA ReadExact ==
    \A t \in Types : \A n \in Contents(t) :
        /\ Read(t, n) \in U128
        /\ ~t.signed => Value(Read(t, n)) = n
        /\ t.signed => Signed(Read(t, n)) = Num(t, n)
        /\ Value(Read(t, n)) % Modulus(t) = n
<1> SUFFICES ASSUME NEW t \in Types, NEW n \in Contents(t)
             PROVE  /\ Read(t, n) \in U128
                    /\ ~t.signed => Value(Read(t, n)) = n
                    /\ t.signed => Signed(Read(t, n)) = Num(t, n)
                    /\ Value(Read(t, n)) % Modulus(t) = n
  OBVIOUS
<1> DEFINE m == Modulus(t)
           half == Power[t.bits - 1]
           v == Pair(n)
           x == Read(t, n)
           ones == Shl(Ones, t.bits)
<1>1. /\ t.signed \in BOOLEAN /\ t.bits \in Nat /\ t.bits - 1 \in Nat /\ t.bits <= Bits
      /\ m \in Nat \ {0} /\ half \in Nat \ {0} /\ m = 2 * half /\ m <= Limit
      /\ Limit \in Nat \ {0} /\ Bits \in Nat
  BY TypeFacts, BaseFacts DEF Limit
<1>2. n \in Nat /\ n < m /\ n % m = n /\ (t.signed => Num(t, n) = IF n >= half THEN n - m ELSE n)
  BY NumFacts
<1>3. v \in U128 /\ Value(v) = n
  <2>1. n < Limit
    <3> HIDE DEF m
    <3> QED BY <1>1, <1>2
  <2> QED BY <1>2, <2>1, PairExact
<1> HIDE DEF v, m, half, ones
<1>4. CASE ~t.signed
  <2>1. x = v
    BY <1>4 DEF Read, ReadUint, v
  <2> QED BY <1>2, <1>3, <1>4, <2>1 DEF m
<1>5. ASSUME t.signed PROVE x \in U128 /\ Signed(x) = Num(t, n)
  <2>1. x = IF t.bits < Bits /\ Bit(v, t.bits - 1) THEN Or128(v, ones) ELSE v
    BY <1>5 DEF Read, SignExtended, v, ones
  <2>2. CASE t.bits = Bits
    <3>1. x = v
      BY <1>1, <2>1, <2>2
    <3>2. m = Limit
      BY <2>2, BaseFacts DEF m, Modulus
    <3> HIDE DEF x
    <3> QED BY <1>1, <1>2, <1>3, <1>5, <3>1, <3>2 DEF Signed
  <2>3. CASE t.bits < Bits
    <3>1. Bit(v, t.bits - 1) <=> (n \div half) % 2 = 1
      <4>1. t.bits - 1 < Bits
        BY <1>1
      <4> QED BY <1>1, <1>3, <4>1, BitExact DEF half
    <3>2. (n \div half) % 2 = 1 <=> n >= half
      <4>1. CASE n >= half
        <5> DEFINE r == n - half
        <5>1. r \in 0 .. half - 1 /\ n = 1 * half + r /\ 1 \in Int
          BY <1>1, <1>2, <4>1
        <5> HIDE DEF r
        <5>2. (1 * half + r) \div half = 1
          BY <1>1, <5>1, Quotients
        <5>3. n \div half = 1
          BY <5>1, <5>2
        <5> QED BY <4>1, <5>3
      <4>2. CASE n < half
        <5>1. n \in 0 .. half - 1 /\ n = 0 * half + n /\ 0 \in Int
          BY <1>1, <1>2, <4>2
        <5>2. (0 * half + n) \div half = 0
          BY <1>1, <5>1, Quotients
        <5>3. n \div half = 0
          BY <5>1, <5>2
        <5> QED BY <1>1, <1>2, <4>2, <5>3
      <4> QED BY <1>1, <1>2, <4>1, <4>2
    <3>3. CASE n >= half
      <4>1. x = Or128(v, ones)
        BY <2>1, <2>3, <3>1, <3>2, <3>3
      <4> DEFINE k == Power[Bits - t.bits]
      <4>2. k \in Nat \ {0} /\ Limit = m * k
        BY TypeFacts DEF m
      <4>3. ones \in U128 /\ Value(ones) = Limit - m
        BY OnesShifted DEF ones, m
      <4> HIDE DEF k
      <4>4. k - 1 \in Nat /\ Value(ones) = (k - 1) * m
        <5>1. (k - 1) * m = m * k - m /\ m * k \in Nat
          BY <1>1, <4>2
        <5> QED BY <1>1, <4>2, <4>3, <5>1
      <4>5. Value(v) < Power[t.bits] /\ Value(ones) = (k - 1) * Power[t.bits]
        BY <1>2, <1>3, <4>4 DEF m, Modulus
      <4>6. Or128(v, ones) \in U128 /\ Value(Or128(v, ones)) = Value(v) + Value(ones)
        BY <1>1, <1>3, <4>3, <4>4, <4>5, OrExact
      <4>7. x \in U128 /\ Value(x) = n + (Limit - m)
        BY <1>3, <4>1, <4>3, <4>6
      <4>8. Limit <= 2 * (n + (Limit - m))
        BY <1>1, <1>2, <3>3
      <4> HIDE DEF x
      <4>9. Signed(x) = (n + (Limit - m)) - Limit
        BY <4>7, <4>8 DEF Signed
      <4> QED BY <1>1, <1>2, <1>5, <3>3, <4>7, <4>9
    <3>4. CASE n < half
      <4>1. x = v
        BY <1>1, <1>2, <2>1, <3>1, <3>2, <3>4
      <4>2. ~(Limit <= 2 * n)
        BY <1>1, <1>2, <3>4
      <4> HIDE DEF x
      <4> QED BY <1>1, <1>2, <1>3, <1>5, <3>4, <4>1, <4>2 DEF Signed
    <3> QED BY <1>1, <1>2, <3>3, <3>4
  <2> QED BY <1>1, <2>2, <2>3
<1>6. CASE t.signed
  <2>1. x \in U128 /\ Signed(x) = Num(t, n)
    BY <1>5, <1>6
  <2> HIDE DEF x
  <2>2. Value(x) % m = n
    BY <2>1, SignedCongruent, NumFacts DEF m
  <2> QED BY <1>6, <2>1, <2>2 DEF x, m
<1> QED BY <1>1, <1>4, <1>6

\* The pair u_abs takes for a positive one is -2^64 as an i128.
LEMMA ExceptedExact ==
    \A t \in Types : \A n \in Contents(t) :
        t.signed /\ Read(t, n) = Excepted => t.bits = Bits /\ Num(t, n) = 0 - Base
<1> SUFFICES ASSUME NEW t \in Types, NEW n \in Contents(t), t.signed, Read(t, n) = Excepted
             PROVE  t.bits = Bits /\ Num(t, n) = 0 - Base
  OBVIOUS
<1> DEFINE half == Power[t.bits - 1]
           m == Modulus(t)
<1>1. Base \in Nat \ {0, 1} /\ Limit = Base * Base /\ WordBits \in Nat
  BY BaseFacts DEF Limit
<1>2. Value(Excepted) = Limit - Base
  <2>1. (Base - 1) * Base = Limit - Base /\ Limit \in Nat
    BY <1>1
  <2>2. Value(Excepted) = (Base - 1) * Base + 0
    BY DEF Value, Excepted
  <2> QED BY <1>1, <2>1, <2>2
<1>3. Limit <= 2 * (Limit - Base)
  <2>1. 2 * Base <= Base * Base
    BY <1>1
  <2> QED BY <1>1, <2>1
<1>4. Signed(Excepted) = 0 - Base
  <2>1. Limit \in Nat
    BY <1>1
  <2> QED BY <1>1, <1>2, <1>3, <2>1 DEF Signed
<1>5. Num(t, n) = 0 - Base
  BY <1>4, ReadExact
<1>6. t.bits = Bits
  <2> SUFFICES ASSUME t.bits # Bits PROVE FALSE
    OBVIOUS
  <2>1. t.bits <= WordBits /\ t.bits \in Nat
    BY TypeFacts
  <2>2. m <= Base
    BY <1>1, <2>1, PowerParts DEF Modulus, Base
  <2>3. m \in Nat \ {0} /\ half \in Nat \ {0} /\ m = 2 * half
    BY TypeFacts
  <2>4. n \in Nat /\ Num(t, n) = IF n >= half THEN n - m ELSE n
    BY NumFacts
  <2> HIDE DEF m, half
  <2> QED BY <1>1, <1>5, <2>2, <2>3, <2>4
<1> QED BY <1>5, <1>6

(***************************************************************************)
(* The evaluator.                                                          *)
(***************************************************************************)
\* What a statement's fields hold.
Fields(t, s) ==
    /\ s # NoStmt
    /\ s.op \in {"ADD", "SUB", "MUL"} =>
         /\ s.how \in {"plain", "overflow", "saturating"} /\ s.r \in Contents(t)
         /\ s.op = "MUL" => s.how # "saturating"
    /\ s.op \in {"DIV", "MOD", "OR", "AND", "XOR", "EQ", "NE", "GT", "GE", "LT", "LE", "ROL", "ROR"}
         => s.r \in Contents(t)
    /\ s.op \in {"SHL", "SHR"} =>
         s.how \in {"plain", "unchecked"} /\ s.tr \in Types /\ s.r \in Contents(s.tr)
    /\ s.op = "CAST" => s.to \in Types

\* The fields of a statement hold what its operation takes.
LEMMA StatementFacts == \A t \in Types : \A s \in Statements(t) : Fields(t, s)
<1> SUFFICES ASSUME NEW t \in Types, NEW s \in Statements(t) PROVE Fields(t, s)
  OBVIOUS
<1> DEFINE A == [op : {"ADD", "SUB", "MUL"}, how : {"plain", "overflow"}, r : Contents(t)]
           B == [op : {"ADD", "SUB"}, how : {"saturating"}, r : Contents(t)]
           C == [op : {"DIV", "MOD", "OR", "AND", "XOR", "EQ", "NE", "GT", "GE", "LT", "LE", "ROL", "ROR"},
                 r : Contents(t)]
           E == UNION {[op : {"SHL", "SHR"}, how : {"plain", "unchecked"}, r : Contents(tr), tr : {tr}]
                       : tr \in Types}
           F == [op : {"NEG", "INV"}]
           G == [op : {"CAST"}, to : Types]
<1>1. Statements(t) = A \cup B \cup C \cup E \cup F \cup G
  BY DEF Statements
<1>2. ASSUME s \in A PROVE Fields(t, s)
  BY <1>2 DEF NoStmt, Fields
<1>3. ASSUME s \in B PROVE Fields(t, s)
  BY <1>3 DEF NoStmt, Fields
<1>4. ASSUME s \in C PROVE Fields(t, s)
  BY <1>4 DEF NoStmt, Fields
<1>5. ASSUME s \in E PROVE Fields(t, s)
  <2>1. PICK tr \in Types :
            s \in [op : {"SHL", "SHR"}, how : {"plain", "unchecked"}, r : Contents(tr), tr : {tr}]
    BY <1>5
  <2>2. /\ s.op \in {"SHL", "SHR"} /\ s.how \in {"plain", "unchecked"}
        /\ s.tr \in Types /\ s.r \in Contents(s.tr)
    BY <2>1
  <2> QED BY <2>2 DEF NoStmt, Fields
<1>6. ASSUME s \in F PROVE Fields(t, s)
  BY <1>6 DEF NoStmt, Fields
<1>7. ASSUME s \in G PROVE Fields(t, s)
  BY <1>7 DEF NoStmt, Fields
<1> HIDE DEF A, B, C, E, F, G
<1> QED BY <1>1, <1>2, <1>3, <1>4, <1>5, <1>6, <1>7

\* Only the action of a statement ends it.
LEMMA ItsAction ==
    ASSUME [Next]_vars, stmt' = NoStmt
    PROVE  /\ stmt.op \in {"ADD", "SUB", "MUL"} => RunArith
           /\ stmt.op \in {"DIV", "MOD"} => RunDiv
           /\ stmt.op \in {"SHL", "SHR"} => RunShift
           /\ stmt.op \in {"EQ", "NE", "GT", "GE", "LT", "LE"} => RunCompare
           /\ stmt.op \in {"NEG", "INV"} => RunUnary
           /\ stmt.op = "CAST" => RunCast
           /\ stmt.op \in {"ROL", "ROR"} => RunRotate
<1>1. CASE UNCHANGED vars
  BY <1>1 DEF vars, NoStmt
<1>2. CASE Fetch
  BY <1>2 DEF Fetch, NoStmt
<1>3. CASE RunArith
  <2>1. stmt.op \in {"ADD", "SUB", "MUL"}
    BY <1>3 DEF RunArith, Running
  <2> QED BY <1>3, <2>1
<1>4. CASE RunDiv
  <2>1. stmt.op \in {"DIV", "MOD"}
    BY <1>4 DEF RunDiv, Running
  <2> QED BY <1>4, <2>1
<1>5. CASE RunShift
  <2>1. stmt.op \in {"SHL", "SHR"}
    BY <1>5 DEF RunShift, Running
  <2> QED BY <1>5, <2>1
<1>6. CASE RunBits
  <2>1. stmt.op \in {"OR", "AND", "XOR"}
    BY <1>6 DEF RunBits, Running
  <2> QED BY <2>1
<1>7. CASE RunCompare
  <2>1. stmt.op \in {"EQ", "NE", "GT", "GE", "LT", "LE"}
    BY <1>7 DEF RunCompare, Running
  <2> QED BY <1>7, <2>1
<1>8. CASE RunUnary
  <2>1. stmt.op \in {"NEG", "INV"}
    BY <1>8 DEF RunUnary, Running
  <2> QED BY <1>8, <2>1
<1>9. CASE RunCast
  <2>1. stmt.op = "CAST"
    BY <1>9 DEF RunCast, Running
  <2> QED BY <1>9, <2>1
<1>10. CASE RunRotate
  <2>1. stmt.op \in {"ROL", "ROR"}
    BY <1>10 DEF RunRotate, Running
  <2> QED BY <1>10, <2>1
<1> QED BY <1>1, <1>2, <1>3, <1>4, <1>5, <1>6, <1>7, <1>8, <1>9, <1>10 DEF Next

(***************************************************************************)
(* The operators stay within the pairs.                                    *)
(***************************************************************************)
\* Zero and Ones, the only constants the operators use.
LEMMA ConstantPairs ==
    /\ Zero \in U128 /\ Ones \in U128
    /\ Value(Zero) = 0 /\ Signed(Zero) = 0 /\ Value(Ones) = Limit - 1
    /\ \A a \in U128 : a = Zero <=> Value(a) = 0
<1>1. Base \in Nat \ {0, 1} /\ Limit = Base * Base /\ Limit \in Nat \ {0}
  BY BaseFacts DEF Limit
<1>2. Zero \in U128 /\ Value(Zero) = 0
  BY <1>1, PairOf DEF Zero
<1>3. Signed(Zero) = 0
  BY <1>1, <1>2 DEF Signed
<1>4. Ones \in U128 /\ Value(Ones) = Limit - 1
  <2>1. Base - 1 \in 0 .. Base - 1
    BY <1>1
  <2>2. Ones \in U128 /\ Value(Ones) = (Base - 1) * Base + (Base - 1)
    BY <2>1, PairOf DEF Ones
  <2>3. (Base - 1) * Base = Base * Base - Base
    BY <1>1
  <2> QED BY <1>1, <2>2, <2>3
<1>5. ASSUME NEW a \in U128, Value(a) = 0 PROVE a = Zero
  <2>1. a.hi \in Nat /\ a.lo \in Nat /\ a = [lo |-> a.lo, hi |-> a.hi] /\ Value(a) = a.hi * Base + a.lo
    BY <1>1 DEF U128, Word, Value
  <2>2. a.hi * Base \in Nat
    BY <1>1, <2>1
  <2>3. a.lo = 0 /\ a.hi * Base = 0
    BY <1>5, <2>1, <2>2
  <2>4. a.hi = 0
    <3>1. a.hi <= a.hi * Base
      BY <1>1, <2>1
    <3> QED BY <2>1, <2>3, <3>1
  <2> QED BY <2>1, <2>3, <2>4 DEF Zero
<1> QED BY <1>2, <1>3, <1>4, <1>5

\* Also where u_abs is wrong, signed operators give pairs.
LEMMA SignedPairs ==
    ASSUME NEW a \in U128, NEW b \in U128
    PROVE  /\ Abs(a) \in U128 /\ SMul(a, b) \in U128
           /\ Value(Abs(b)) # 0 => SDiv(a, b) \in U128 /\ SMod(a, b) \in U128
<1>1. \A c \in U128 : Abs(c) \in U128
  BY NegExact DEF Abs
<1>2. \A u \in U128 : SignedAs(a, b, u) \in U128
  BY NegExact DEF SignedAs
<1>3. SMul(a, b) \in U128
  BY <1>1, <1>2, MulExact DEF SMul
<1>4. ASSUME Value(Abs(b)) # 0 PROVE SDiv(a, b) \in U128 /\ SMod(a, b) \in U128
  BY <1>1, <1>2, <1>4, DivExact DEF SDiv, SMod
<1> QED BY <1>1, <1>3, <1>4

\* A quotient is at most the dividend.
LEMMA QuotientAtMost ==
    ASSUME NEW x \in Nat, NEW d \in Nat \ {0}
    PROVE  x \div d \in Nat /\ x \div d <= x
<1> DEFINE q == x \div d
<1>1. q \in Nat /\ x % d \in Nat /\ x = q * d + (x % d)
  BY Divided
<1> HIDE DEF q
<1>2. q <= q * d /\ q * d \in Nat
  BY <1>1
<1> QED BY <1>1, <1>2 DEF q

\* A shift that keeps the sign gives a pair, whatever the amount.
LEMMA SShrIsPair == \A a \in U128, n \in Nat : SShr(a, n) \in U128
<1> SUFFICES ASSUME NEW a \in U128, NEW n \in Nat PROVE SShr(a, n) \in U128
  OBVIOUS
<1>1. CASE n <= WordBits
  <2>1. n \in 0 .. WordBits
    BY <1>1, BaseFacts
  <2> QED BY <2>1, SShrExact
<1>2. CASE n > WordBits
  <2> DEFINE sign == IF IsNeg(a) THEN Base - 1 ELSE 0
  <2>1. Base \in Nat \ {0, 1} /\ WordBits \in Nat \ {0} /\ Bits \in Nat /\ Bits = WordBits + WordBits
    BY BaseFacts DEF Bits
  <2>2. sign \in Word
    BY <2>1 DEF Word
  <2> HIDE DEF sign
  <2>3. CASE n >= Bits
    <3>1. SShr(a, n) = [lo |-> sign, hi |-> sign]
      BY <1>2, <2>1, <2>3 DEF SShr, sign
    <3> QED BY <2>2, <3>1 DEF U128
  <2>4. CASE n < Bits
    <3>1. SShr(a, n) = [lo |-> a.hi \div Power[n - WordBits], hi |-> sign]
      BY <1>2, <2>1, <2>4 DEF SShr, sign
    <3>2. Power[n - WordBits] \in Nat \ {0}
      <4>1. n - WordBits \in Nat
        BY <1>2, <2>1
      <4> QED BY <4>1, PowerFacts
    <3>3. a.hi \in Nat /\ a.hi < Base
      BY <2>1, PairFacts
    <3>4. a.hi \div Power[n - WordBits] \in Word
      <4> DEFINE h == a.hi
                 p == Power[n - WordBits]
      <4>1. h \in Nat /\ p \in Nat \ {0} /\ h < Base
        BY <3>2, <3>3
      <4> HIDE DEF h, p
      <4>2. h \div p \in Nat /\ h \div p <= h
        BY <4>1, QuotientAtMost
      <4>3. h \div p \in Word
        BY <2>1, <4>1, <4>2 DEF Word
      <4> QED BY <4>3 DEF h, p
    <3> QED BY <2>2, <3>1, <3>4 DEF U128
  <2> QED BY <2>1, <2>3, <2>4
<1> QED BY <1>1, <1>2, BaseFacts

(***************************************************************************)
(* The types of the evaluator's state, which every step keeps.             *)
(***************************************************************************)
TypeOK == /\ ty \in Types /\ val \in Contents(ty)
          /\ stmt = NoStmt \/ stmt \in Statements(ty)

\* What Store writes.
LEMMA Written ==
    \A t \in Types, v \in U128 :
        /\ Write(t, v) = Value(v) % Modulus(t) /\ Write(t, v) \in Contents(t)
        /\ 0 \in Contents(t)
<1> SUFFICES ASSUME NEW t \in Types, NEW v \in U128
             PROVE  /\ Write(t, v) = Value(v) % Modulus(t) /\ Write(t, v) \in Contents(t)
                    /\ 0 \in Contents(t)
  OBVIOUS
<1> DEFINE x == Value(v)
           m == Modulus(t)
<1>1. x \in Int /\ m \in Nat \ {0} /\ Contents(t) = 0 .. m - 1
  BY PairFacts, TypeFacts
<1>2. Write(t, v) = x % m
  BY DEF Write, Modulus
<1> HIDE DEF x, m
<1>3. x % m \in 0 .. m - 1 /\ 0 \in 0 .. m - 1
  BY <1>1, RemainderTwice
<1> QED BY <1>1, <1>2, <1>3 DEF x, m

\* The operands are pairs.
LEMMA Operands ==
    ASSUME TypeOK
    PROVE  /\ L \in U128 /\ ReadUint(val) \in U128 /\ Value(ReadUint(val)) = val
           /\ \A n \in Contents(ty) : ReadUint(n) \in U128 /\ Value(ReadUint(n)) = n
<1>1. ty \in Types /\ val \in Contents(ty)
  BY DEF TypeOK
<1>2. ASSUME NEW n \in Contents(ty) PROVE ReadUint(n) \in U128 /\ Value(ReadUint(n)) = n
  <2>1. n \in Nat /\ n < Modulus(ty) /\ Modulus(ty) <= Limit /\ Modulus(ty) \in Nat /\ Limit \in Nat
    BY <1>1, NumFacts, TypeFacts, BaseFacts DEF Limit
  <2>2. n < Limit
    BY <2>1
  <2> QED BY <2>1, <2>2, PairExact DEF ReadUint
<1> QED BY <1>1, <1>2, ReadExact DEF L

\* Checked arithmetic writes pairs.
LEMMA ArithPairs ==
    ASSUME NEW t \in Types, NEW l \in U128, NEW r \in U128, NEW op \in {"ADD", "SUB", "MUL"}
    PROVE  /\ Arith(t, op, l, r).res \in U128
           /\ Arith(t, op, l, r).saturated # NoStmt => Arith(t, op, l, r).saturated \in U128
<1>1. t.signed \in BOOLEAN
  BY TypeFacts
<1>2. Add(l, r) \in U128 /\ Sub(l, r) \in U128 /\ Mul(l, r) \in U128 /\ SMul(l, r) \in U128
  BY AddExact, SubExact, MulExact, SignedPairs
<1>3. \A v \in U128 : Mask(t, v) \in U128 /\ MaskS(t, v) \in U128
  BY MaskExact, MaskSExact
<1>4. Zero \in U128 /\ Ones \in U128
  BY ConstantPairs
<1>5. /\ UAdd(t, l, r).res \in U128 /\ UAdd(t, l, r).saturated \in U128
      /\ USub(t, l, r).res \in U128 /\ USub(t, l, r).saturated \in U128
      /\ UMul(t, l, r).res \in U128 /\ UMul(t, l, r).saturated \in U128
  BY <1>2, <1>3, <1>4 DEF UAdd, USub, UMul
<1>6. IAdd(t, l, r).res \in U128 /\ IAdd(t, l, r).saturated \in U128
  BY <1>2, <1>4 DEF IAdd
<1>7. ISub(t, l, r).res \in U128 /\ ISub(t, l, r).saturated = NoStmt
  BY <1>2, <1>3 DEF ISub
<1>8. IMul(t, l, r).res \in U128 /\ IMul(t, l, r).saturated = NoStmt
  BY <1>2, <1>3 DEF IMul
<1>9. Arith(t, op, l, r) \in {UAdd(t, l, r), USub(t, l, r), UMul(t, l, r),
                              IAdd(t, l, r), ISub(t, l, r), IMul(t, l, r)}
  BY <1>1 DEF Arith
<1> QED BY <1>5, <1>6, <1>7, <1>8, <1>9

\* Division by a pair other than Zero does.
LEMMA QuotientPairs ==
    ASSUME NEW t \in Types, NEW l \in U128, NEW r \in U128, r # Zero, NEW op \in {"DIV", "MOD"}
    PROVE  Quotient(t, op, l, r) \in U128
<1>1. t.signed \in BOOLEAN /\ Value(r) # 0
  BY TypeFacts, ConstantPairs
<1>2. DivMod(l, r).q \in U128 /\ DivMod(l, r).r \in U128
  BY <1>1, DivExact
<1>3. Value(Abs(r)) # 0
  <2>1. CASE r = Excepted
    <3>1. Abs(r) = r
      BY <2>1 DEF Abs, Excepted
    <3> QED BY <1>1, <3>1
  <2>2. CASE r # Excepted
    BY <1>1, <2>2, AbsExact, SizeFacts
  <2> QED BY <2>1, <2>2
<1>4. SDiv(l, r) \in U128 /\ SMod(l, r) \in U128
  BY <1>3, SignedPairs
<1> QED BY <1>1, <1>2, <1>4, MaskExact, MaskSExact DEF Quotient

\* The low word of an amount is a natural number.
LEMMA AmountFacts ==
    ASSUME NEW t \in Types, NEW s, s.tr \in Types, s.r \in Contents(s.tr)
    PROVE  ShiftAmount(t, s) \in Nat
<1>1. Read(s.tr, s.r) \in U128
  BY ReadExact
<1>2. Read(s.tr, s.r).lo \in Nat
  BY <1>1, PairFacts, BaseFacts
<1> QED BY <1>2 DEF ShiftAmount

\* Or128, And128 and Xor128 give pairs.
LEMMA OrPairs ==
    \A a, b : Or128(a, b) \in U128 /\ And128(a, b) \in U128 /\ Xor128(a, b) \in U128
BY WordOfIsWord DEF Or128, And128, Xor128, Or, And, Xor, U128

\* So does a shift of either kind and direction.
LEMMA ShiftPairs ==
    ASSUME NEW t \in Types, NEW l \in U128, NEW n \in Nat, NEW op
    PROVE  Shifted(t, op, l, n) \in U128
<1>1. Shl(l, n) \in U128 /\ Shr(l, n) \in U128 /\ SShr(l, n) \in U128
  BY ShlExact, ShrExact, SShrIsPair
<1> QED BY <1>1, MaskExact, MaskSExact DEF Shifted

\* The local always holds a value of its type, and a statement operands of
\* the types it takes.
THEOREM TypesHold == Spec => []TypeOK
<1>1. Init => TypeOK
  BY DEF Init, TypeOK
<1>2. TypeOK /\ [Next]_vars => TypeOK'
  <2> SUFFICES ASSUME TypeOK, [Next]_vars PROVE TypeOK'
    OBVIOUS
  <2>0. /\ ty \in Types /\ val \in Contents(ty)
        /\ stmt = NoStmt \/ (stmt \in Statements(ty) /\ Fields(ty, stmt))
    BY StatementFacts DEF TypeOK
  <2>11. ASSUME NEW t \in Types, NEW v \in U128, Store(t, v) PROVE TypeOK'
    BY <2>11, Written DEF Store, TypeOK
  <2>12. ASSUME Abort PROVE TypeOK'
    BY <2>0, <2>12 DEF Abort, TypeOK
  <2>1. CASE UNCHANGED vars
    BY <2>1 DEF vars, TypeOK
  <2>2. CASE Fetch
    BY <2>0, <2>2 DEF Fetch, TypeOK
  <2>3. CASE RunArith
    <3>1. stmt.op \in {"ADD", "SUB", "MUL"}
      BY <2>3 DEF RunArith, Running
    <3>2. stmt.r \in Contents(ty)
      BY <2>0, <3>1 DEF Fields, NoStmt
    <3> DEFINE a == Arith(ty, stmt.op, L, R)
    <3>3. a.res \in U128 /\ (a.saturated # NoStmt => a.saturated \in U128)
      <4>1. L \in U128 /\ R \in U128
        BY <2>0, <3>2, ReadExact DEF L, R
      <4> QED BY <2>0, <3>1, <4>1, ArithPairs
    <3>4. IF stmt.how = "saturating" /\ a.over
          THEN IF a.saturated = NoStmt THEN Abort ELSE Store(ty, a.saturated)
          ELSE Store(ty, a.res)
      BY <2>3 DEF RunArith
    <3> HIDE DEF a
    <3> QED BY <2>0, <2>11, <2>12, <3>3, <3>4
  <2>4. CASE RunDiv
    <3>1. stmt.op \in {"DIV", "MOD"}
      BY <2>4 DEF RunDiv, Running
    <3>2. stmt.r \in Contents(ty)
      BY <2>0, <3>1 DEF Fields, NoStmt
    <3>3. L \in U128 /\ R \in U128
      BY <2>0, <3>2, ReadExact DEF L, R
    <3>4. CASE R = Zero
      <4>1. val' = 0 /\ stmt' = NoStmt /\ ty' = ty
        BY <2>4, <3>4 DEF RunDiv
      <4>2. 0 \in Contents(ty)
        BY <2>0, <3>3, Written
      <4> QED BY <2>0, <4>1, <4>2 DEF TypeOK
    <3>5. CASE R # Zero
      <4>1. Store(ty, Quotient(ty, stmt.op, L, R))
        BY <2>4, <3>5 DEF RunDiv
      <4>2. Quotient(ty, stmt.op, L, R) \in U128
        BY <2>0, <3>1, <3>3, <3>5, QuotientPairs
      <4> QED BY <2>0, <2>11, <4>1, <4>2
    <3> QED BY <3>4, <3>5
  <2>5. CASE RunShift
    <3>1. stmt.op \in {"SHL", "SHR"}
      BY <2>5 DEF RunShift, Running
    <3>2. stmt.tr \in Types /\ stmt.r \in Contents(stmt.tr)
      BY <2>0, <3>1 DEF Fields, NoStmt
    <3> DEFINE v == Shifted(ty, stmt.op, L, ShiftAmount(ty, stmt))
    <3>3. v \in U128
      <4>1. ShiftAmount(ty, stmt) \in Nat
        BY <2>0, <3>2, AmountFacts
      <4>2. L \in U128
        BY Operands
      <4> QED BY <2>0, <4>1, <4>2, ShiftPairs
    <3>4. ty' = ty /\ val' = Write(ty, v) /\ stmt' = NoStmt
      BY <2>5 DEF RunShift
    <3> HIDE DEF v
    <3> QED BY <2>0, <3>3, <3>4, Written DEF TypeOK
  <2>6. CASE RunBits
    <3>1. stmt.op \in {"OR", "AND", "XOR"}
      BY <2>6 DEF RunBits, Running
    <3>2. Store(ty, Or128(L, R)) \/ Store(ty, And128(L, R)) \/ Store(ty, Xor128(L, R))
      BY <2>6, <3>1 DEF RunBits
    <3> QED BY <2>0, <2>11, <3>2, OrPairs
  <2>7. CASE RunCompare
    BY <2>0, <2>7 DEF RunCompare, TypeOK
  <2>8. CASE RunUnary
    <3> DEFINE v == ReadUint(val)
    <3>1. Store(ty, Mask(ty, Inverse128(v))) \/ Store(ty, Neg(v))
      BY <2>8 DEF RunUnary
    <3>2. v \in U128 /\ Base \in Nat
      BY Operands, BaseFacts
    <3> HIDE DEF v
    <3>3. Inverse128(v) \in U128
      BY <3>2 DEF Inverse128, U128, Word
    <3> QED BY <2>0, <2>11, <3>1, <3>2, <3>3, MaskExact, NegExact
  <2>9. CASE RunCast
    <3>1. stmt.op = "CAST" /\ Store(stmt.to, L)
      BY <2>9 DEF RunCast, Running
    <3>2. stmt.to \in Types
      BY <2>0, <3>1 DEF Fields, NoStmt
    <3> QED BY <2>11, <3>1, <3>2, Operands
  <2>10. CASE RunRotate
    <3>1. stmt.op \in {"ROL", "ROR"}
      BY <2>10 DEF RunRotate, Running
    <3> DEFINE v == ReadUint(val)
               n == ReadUint(stmt.r).lo
    <3>2. Abort \/ Store(ty, Rotated(ty, stmt.op, v, n))
      BY <2>10 DEF RunRotate
    <3>3. Rotated(ty, stmt.op, v, n) \in U128
      BY Operands, OrPairs DEF Rotated
    <3> HIDE DEF v, n
    <3> QED BY <2>0, <2>11, <2>12, <3>2, <3>3
  <2> QED BY <2>1, <2>2, <2>3, <2>4, <2>5, <2>6, <2>7, <2>8, <2>9, <2>10 DEF Next
<1> QED BY <1>1, <1>2, PTL DEF Spec

(***************************************************************************)
(* Results.                                                                *)
(***************************************************************************)
\* However a pair is masked, what is written of it is the number modulo the
\* number of values.
LEMMA Masked ==
    ASSUME NEW t \in Types, NEW v \in U128, NEW z \in Int, Value(v) = z % Limit
    PROVE  /\ Value(v) % Modulus(t) = z % Modulus(t)
           /\ Value(Mask(t, v)) % Modulus(t) = z % Modulus(t)
           /\ Value(MaskS(t, v)) % Modulus(t) = z % Modulus(t)
<1> DEFINE m == Modulus(t)
           x == Value(v)
<1>1. m \in Nat \ {0} /\ x \in Int
  BY TypeFacts, PairFacts
<1> HIDE DEF m
<1>2. x % m = z % m
  BY WithinLimit DEF m
<1>3. (x % m) % m = x % m
  <2> HIDE DEF x
  <2> QED BY <1>1, RemainderTwice
<1> HIDE DEF x
<1>4. Value(Mask(t, v)) = x % m
  BY MaskExact DEF m, x
<1>5. Value(MaskS(t, v)) % m = x % m
  BY MaskSExact DEF m, x
<1> QED BY <1>2, <1>3, <1>4, <1>5 DEF m, x

\* The arithmetic of two operands, of one word or two and of either sign.
LEMMA ArithExact ==
    ASSUME NEW t \in Types, NEW a \in Contents(t), NEW b \in Contents(t)
    PROVE  LET l == Read(t, a)
               r == Read(t, b)
               x == Num(t, a)
               y == Num(t, b)
               Result(op) == Value(Arith(t, op, l, r).res) % Modulus(t)
           IN /\ Result("ADD") = (x + y) % Modulus(t)
              /\ Result("SUB") = (x - y) % Modulus(t)
              /\ ~(t.signed /\ (l = Excepted \/ r = Excepted))
                    => Result("MUL") = (x * y) % Modulus(t)
<1> DEFINE l == Read(t, a)
           r == Read(t, b)
           x == Num(t, a)
           y == Num(t, b)
           m == Modulus(t)
           u == Value(l)
           v == Value(r)
<1>1. l \in U128 /\ r \in U128 /\ u % m = a /\ v % m = b /\ t.signed \in BOOLEAN
  BY ReadExact, TypeFacts
<1>2. x \in Int /\ y \in Int /\ x % m = a /\ y % m = b /\ m \in Nat \ {0}
  BY NumFacts, TypeFacts
<1>3. u \in Int /\ v \in Int
  BY <1>1, PairFacts
<1> HIDE DEF l, r, x, y, m
<1>4. (u + v) % m = (x + y) % m /\ (u - v) % m = (x - y) % m /\ (u * v) % m = (x * y) % m
  <2> HIDE DEF u, v
  <2>1. Congruent(u, x, m) /\ Congruent(v, y, m)
    BY <1>1, <1>2 DEF Congruent
  <2>2. u \in Int /\ v \in Int /\ x \in Int /\ y \in Int /\ m \in Nat \ {0}
    BY <1>2, <1>3
  <2>3. Congruent(u + v, x + y, m) /\ Congruent(u - v, x - y, m) /\ Congruent(u * v, x * y, m)
    BY <2>1, <2>2, SameRemainders
  <2> QED BY <2>3 DEF Congruent
<1>5. Add(l, r) \in U128 /\ Value(Add(l, r)) = (u + v) % Limit
  BY <1>1, AddExact
<1>6. Sub(l, r) \in U128 /\ Value(Sub(l, r)) = (u - v) % Limit
  BY <1>1, SubExact
<1>7. Mul(l, r) \in U128 /\ Value(Mul(l, r)) = (u * v) % Limit
  BY <1>1, MulExact
<1>8. u + v \in Int /\ u - v \in Int /\ u * v \in Int
  BY <1>3
<1> HIDE DEF u, v
<1>9. Value(Arith(t, "ADD", l, r).res) % m = (x + y) % m
  <2>1. Arith(t, "ADD", l, r).res = IF t.signed THEN Add(l, r) ELSE Mask(t, Add(l, r))
    BY <1>1 DEF Arith, IAdd, UAdd
  <2> DEFINE w == Add(l, r)
             z == u + v
  <2>2. w \in U128 /\ z \in Int /\ Value(w) = z % Limit
    BY <1>5, <1>8
  <2> HIDE DEF w, z
  <2>3. Value(w) % m = z % m /\ Value(Mask(t, w)) % m = z % m
    BY <2>2, Masked DEF m
  <2> QED BY <1>4, <2>1, <2>3 DEF w, z
<1>10. Value(Arith(t, "SUB", l, r).res) % m = (x - y) % m
  <2>1. Arith(t, "SUB", l, r).res = IF t.signed THEN MaskS(t, Sub(l, r)) ELSE Mask(t, Sub(l, r))
    BY <1>1 DEF Arith, ISub, USub
  <2> DEFINE w == Sub(l, r)
             z == u - v
  <2>2. w \in U128 /\ z \in Int /\ Value(w) = z % Limit
    BY <1>6, <1>8
  <2> HIDE DEF w, z
  <2>3. Value(MaskS(t, w)) % m = z % m /\ Value(Mask(t, w)) % m = z % m
    BY <2>2, Masked DEF m
  <2> QED BY <1>4, <2>1, <2>3 DEF w, z
<1>11. ASSUME ~(t.signed /\ (l = Excepted \/ r = Excepted))
       PROVE  Value(Arith(t, "MUL", l, r).res) % m = (x * y) % m
  <2>1. CASE ~t.signed
    <3>1. Arith(t, "MUL", l, r).res = Mask(t, Mul(l, r))
      BY <1>1, <2>1 DEF Arith, UMul
    <3> DEFINE w == Mul(l, r)
               z == u * v
    <3>2. w \in U128 /\ z \in Int /\ Value(w) = z % Limit
      BY <1>7, <1>8
    <3> HIDE DEF w, z
    <3>3. Value(Mask(t, w)) % m = z % m
      BY <3>2, Masked DEF m
    <3> QED BY <1>4, <3>1, <3>3 DEF w, z
  <2>2. CASE t.signed
    <3>1. Arith(t, "MUL", l, r).res = MaskS(t, SMul(l, r))
      BY <1>1, <2>2 DEF Arith, IMul
    <3>2. Signed(l) = x /\ Signed(r) = y
      BY <2>2, ReadExact DEF l, r, x, y
    <3> DEFINE w == SMul(l, r)
               z == x * y
    <3>3. w \in U128 /\ Value(w) = z % Limit
      BY <1>1, <1>11, <2>2, <3>2, SMulExact
    <3>4. z \in Int
      BY <1>2
    <3> HIDE DEF w, z
    <3>5. Value(MaskS(t, w)) % m = z % m
      BY <3>3, <3>4, Masked DEF m
    <3> QED BY <3>1, <3>5 DEF w, z
  <2> QED BY <1>1, <2>1, <2>2
<1> QED BY <1>9, <1>10, <1>11 DEF l, r, x, y, m

\* WrapsAround for every type, every operand and every word size.
THEOREM WrapsAroundHolds == Spec => WrapsAround
<1> DEFINE A == Ran({"ADD", "SUB", "MUL", "NEG"})
                /\ (stmt.op = "NEG" \/ stmt.how # "saturating")
                /\ (stmt.op = "MUL" => ~MinusBase(Left) /\ ~MinusBase(Right))
                => val' = Bytes(ty, Exact)
<1>1. TypeOK /\ [Next]_vars => A
  <2> SUFFICES ASSUME TypeOK, [Next]_vars, stmt.op \in {"ADD", "SUB", "MUL", "NEG"}, stmt' = NoStmt,
                      stmt.op = "NEG" \/ stmt.how # "saturating",
                      stmt.op = "MUL" => ~MinusBase(Left) /\ ~MinusBase(Right)
               PROVE  val' = Bytes(ty, Exact)
    BY DEF Ran
  <2>1. /\ ty \in Types /\ val \in Contents(ty) /\ Fields(ty, stmt)
    BY StatementFacts DEF TypeOK, NoStmt
  <2>2. ty.signed \in BOOLEAN
    BY <2>1, TypeFacts
  <2>3. CASE stmt.op = "NEG"
    <3> DEFINE v == ReadUint(val)
               z == 0 - val
               w == Neg(v)
               m == Modulus(ty)
    <3>1. RunUnary
      BY <2>3, ItsAction
    <3>2. val' = Write(ty, w)
      BY <2>3, <3>1 DEF RunUnary, Store
    <3>3. w \in U128 /\ Value(w) = z % Limit
      BY Operands, NegExact
    <3>4. z \in Int /\ val \in Int /\ Left \in Int /\ Left % m = val /\ val % m = val /\ m \in Nat \ {0}
      BY <2>1, NumFacts, TypeFacts DEF Left
    <3>5. Write(ty, w) = Value(w) % m
      BY <2>1, <3>3, Written
    <3>6. Value(w) % m = z % m
      <4> HIDE DEF w, z
      <4> QED BY <2>1, <3>3, <3>4, Masked
    <3> DEFINE o == 0
               x == Left
               y == val
    <3>7. /\ o \in Int /\ x \in Int /\ y \in Int /\ m \in Nat \ {0}
          /\ Congruent(o, o, m) /\ Congruent(y, x, m)
      BY <3>4 DEF Congruent
    <3> HIDE DEF o, x, y, m
    <3>8. Congruent(o - y, o - x, m)
      BY <3>7, SameRemainders
    <3>9. Exact = 0 - Left
      BY <2>3 DEF Exact
    <3> QED BY <3>2, <3>5, <3>6, <3>8, <3>9 DEF Bytes, Modulus, Congruent, o, x, y, m
  <2>4. CASE stmt.op \in {"ADD", "SUB", "MUL"}
    <3> DEFINE a == Arith(ty, stmt.op, L, R)
               m == Modulus(ty)
    <3>1. RunArith
      BY <2>4, ItsAction
    <3>2. stmt.r \in Contents(ty) /\ stmt.how # "saturating"
      BY <2>1, <2>4 DEF Fields
    <3>3. val' = Write(ty, a.res)
      BY <3>1, <3>2 DEF RunArith, Store
    <3>4. L \in U128 /\ R \in U128
      BY <2>1, <3>2, ReadExact DEF L, R
    <3>5. Write(ty, a.res) = Value(a.res) % m
      <4>1. a.res \in U128
        BY <2>1, <2>4, <3>4, ArithPairs
      <4> HIDE DEF a, m
      <4> QED BY <2>1, <4>1, Written DEF m
    <3>6. stmt.op = "MUL" => ~(ty.signed /\ (L = Excepted \/ R = Excepted))
      <4> SUFFICES ASSUME stmt.op = "MUL", ty.signed, L = Excepted \/ R = Excepted PROVE FALSE
        OBVIOUS
      <4>1. MinusBase(Left) \/ MinusBase(Right)
        BY <2>1, <3>2, ExceptedExact DEF L, R, Left, Right, MinusBase
      <4> QED BY <4>1
    <3>7. /\ stmt.op = "ADD" => Value(a.res) % m = (Left + Right) % m
          /\ stmt.op = "SUB" => Value(a.res) % m = (Left - Right) % m
          /\ stmt.op = "MUL" => Value(a.res) % m = (Left * Right) % m
      BY <2>1, <3>2, <3>6, ArithExact DEF L, R, Left, Right
    <3>8. Value(a.res) % m = Exact % m
      <4> HIDE DEF a, m
      <4> QED BY <2>4, <3>7 DEF Exact
    <3> QED BY <3>3, <3>5, <3>8 DEF Bytes, Modulus
  <2> QED BY <2>3, <2>4
<1> QED BY <1>1, TypesHold, PTL DEF Spec, WrapsAround

\* A sum and a difference of two numbers below m, and what they are modulo m.
LEMMA WrappedOnce ==
    ASSUME NEW m \in Nat \ {0}, NEW x \in 0 .. m - 1, NEW y \in 0 .. m - 1
    PROVE  /\ (x + y) % m = IF x + y < m THEN x + y ELSE x + y - m
           /\ (x - y) % m = IF x < y THEN x - y + m ELSE x - y
<1> DEFINE s == x + y
           d == x - y
<1>1. s \in Int /\ d \in Int /\ s = x + y /\ d = x - y
  OBVIOUS
<1> HIDE DEF s, d
<1>2. s % m = IF s < m THEN s ELSE s - m
  <2>1. /\ s \in 0 .. m - 1 => s % m = s
        /\ s - m \in 0 .. m - 1 => s % m = s - m
    BY <1>1, ReduceOnce
  <2>2. IF s < m THEN s \in 0 .. m - 1 ELSE s - m \in 0 .. m - 1
    BY <1>1
  <2> QED BY <2>1, <2>2
<1>3. d % m = IF x < y THEN d + m ELSE d
  <2>1. CASE x < y
    BY <1>1, <2>1, ReduceOnce
  <2>2. CASE ~(x < y)
    BY <1>1, <2>2, ReduceOnce
  <2> QED BY <2>1, <2>2
<1> QED BY <1>2, <1>3 DEF s, d

\* Sums and differences of unsigned operands, and when they are said to overflow.
LEMMA UnsignedExact ==
    ASSUME NEW t \in Types, ~t.signed, NEW x \in Contents(t), NEW y \in Contents(t)
    PROVE  LET l == Read(t, x)
               r == Read(t, y)
               sum == Arith(t, "ADD", l, r)
               diff == Arith(t, "SUB", l, r)
               m == Modulus(t)
           IN /\ sum.res \in U128 /\ Value(sum.res) = (x + y) % m
              /\ sum.over <=> x + y >= m
              /\ sum.saturated \in U128 /\ Value(sum.saturated) = m - 1
              /\ diff.res \in U128 /\ Value(diff.res) = (x - y) % m
              /\ diff.over <=> x < y
              /\ diff.saturated \in U128 /\ Value(diff.saturated) = 0
<1> DEFINE l == Read(t, x)
           r == Read(t, y)
           m == Modulus(t)
           a == Mask(t, Add(l, r))
           d == Mask(t, Sub(l, r))
           ones == Mask(t, Ones)
<1>1. l \in U128 /\ r \in U128 /\ Value(l) = x /\ Value(r) = y
  BY ReadExact
<1>2. m \in Nat \ {0} /\ x \in 0 .. m - 1 /\ y \in 0 .. m - 1 /\ m <= Limit /\ Limit \in Nat \ {0}
  BY TypeFacts, BaseFacts DEF Limit
<1>3. /\ Arith(t, "ADD", l, r) = [res |-> a, over |-> Less(a, l), saturated |-> ones]
      /\ Arith(t, "SUB", l, r) = [res |-> d, over |-> Less(l, d), saturated |-> Zero]
  BY DEF Arith, UAdd, USub
<1> HIDE DEF l, r, m
<1>4. x + y \in Int /\ x - y \in Int /\ x \in Int /\ y \in Int
  BY <1>2
<1>5. a \in U128 /\ Value(a) = (x + y) % m
  <2> DEFINE w == Add(l, r)
             z == x + y
  <2>1. w \in U128 /\ Value(w) = z % Limit /\ z \in Int
    BY <1>1, <1>4, AddExact
  <2>2. a = Mask(t, w)
    OBVIOUS
  <2> HIDE DEF w, z, a
  <2>3. a \in U128 /\ Value(a) = Value(w) % m
    BY <2>1, <2>2, MaskExact DEF m
  <2>4. (z % Limit) % m = z % m
    BY <2>1, WithinLimit DEF m
  <2> QED BY <2>1, <2>3, <2>4 DEF z
<1>6. d \in U128 /\ Value(d) = (x - y) % m
  <2> DEFINE w == Sub(l, r)
             z == x - y
  <2>1. w \in U128 /\ Value(w) = z % Limit /\ z \in Int
    BY <1>1, <1>4, SubExact
  <2>2. d = Mask(t, w)
    OBVIOUS
  <2> HIDE DEF w, z, d
  <2>3. d \in U128 /\ Value(d) = Value(w) % m
    BY <2>1, <2>2, MaskExact DEF m
  <2>4. (z % Limit) % m = z % m
    BY <2>1, WithinLimit DEF m
  <2> QED BY <2>1, <2>3, <2>4 DEF z
<1>7. ones \in U128 /\ Value(ones) = m - 1
  <2>1. Ones \in U128 /\ Value(Ones) = Limit - 1
    BY ConstantPairs
  <2>2. ones \in U128 /\ Value(ones) = (Limit - 1) % m
    BY <2>1, MaskExact DEF m
  <2> DEFINE k == Power[Bits - t.bits]
  <2>3. k \in Nat \ {0} /\ Limit = m * k
    BY TypeFacts DEF m
  <2> HIDE DEF k, ones
  <2>4. Limit - 1 = (k - 1) * m + (m - 1)
    <3>1. (k - 1) * m = m * k - m /\ m * k \in Nat
      BY <1>2, <2>3
    <3> QED BY <1>2, <2>3, <3>1
  <2>5. k - 1 \in Int /\ m - 1 \in 0 .. m - 1
    BY <1>2, <2>3
  <2> DEFINE q == k - 1
             c == m - 1
  <2>6. q \in Int /\ c \in 0 .. m - 1 /\ Limit - 1 = q * m + c
    BY <2>4, <2>5
  <2> HIDE DEF q, c
  <2>7. (q * m + c) % m = c
    BY <1>2, <2>6, Quotients
  <2> QED BY <2>2, <2>6, <2>7 DEF c
<1>8. Zero \in U128 /\ Value(Zero) = 0
  BY ConstantPairs
<1>9. /\ (x + y) % m = IF x + y < m THEN x + y ELSE x + y - m
      /\ (x - y) % m = IF x < y THEN x - y + m ELSE x - y
  BY <1>2, WrappedOnce
<1> HIDE DEF a, d, ones
<1>10. Less(a, l) <=> x + y >= m
  <2>1. Less(a, l) <=> Value(a) < x
    BY <1>1, <1>5, LessExact
  <2> QED BY <1>2, <1>5, <1>9, <2>1
<1>11. Less(l, d) <=> x < y
  <2>1. Less(l, d) <=> x < Value(d)
    BY <1>1, <1>6, LessExact
  <2> QED BY <1>2, <1>6, <1>9, <2>1
<1> QED BY <1>3, <1>5, <1>6, <1>7, <1>8, <1>10, <1>11 DEF l, r, m

\* OverflowNoticed for every type, every operand and every word size.
THEOREM OverflowNoticedHolds == Spec => OverflowNoticed
<1> DEFINE A == /\ Ran({"ADD", "SUB"}) /\ ~ty.signed /\ stmt.how = "overflow"
                     => flag' = ~Fits(ty, Exact)
                /\ Ran({"ADD", "SUB"}) /\ ~ty.signed /\ stmt.how = "saturating"
                     => val' = Clamped(ty, Exact)
<1>1. TypeOK /\ [Next]_vars => A
  <2> SUFFICES ASSUME TypeOK, [Next]_vars, stmt.op \in {"ADD", "SUB"}, stmt' = NoStmt, ~ty.signed
               PROVE  /\ stmt.how = "overflow" => flag' = ~Fits(ty, Exact)
                      /\ stmt.how = "saturating" => val' = Clamped(ty, Exact)
    BY DEF Ran
  <2> DEFINE a == Arith(ty, stmt.op, L, R)
             m == Modulus(ty)
             x == val
             y == stmt.r
             z == IF stmt.op = "ADD" THEN x + y ELSE x - y
  <2>1. /\ ty \in Types /\ val \in Contents(ty) /\ Fields(ty, stmt)
    BY StatementFacts DEF TypeOK, NoStmt
  <2>2. y \in Contents(ty)
    BY <2>1 DEF Fields
  <2>3. Left = x /\ Right = y /\ m \in Nat \ {0} /\ x \in 0 .. m - 1 /\ y \in 0 .. m - 1
    BY <2>1, <2>2, NumFacts, TypeFacts DEF Left, Right
  <2>4. Exact = z
    BY <2>3 DEF Exact
  <2>5. /\ stmt.op = "ADD" => /\ a.res \in U128 /\ Value(a.res) = (x + y) % m
                              /\ a.over <=> x + y >= m
                              /\ a.saturated \in U128 /\ Value(a.saturated) = m - 1
        /\ stmt.op = "SUB" => /\ a.res \in U128 /\ Value(a.res) = (x - y) % m
                              /\ a.over <=> x < y
                              /\ a.saturated \in U128 /\ Value(a.saturated) = 0
    BY <2>1, <2>2, UnsignedExact DEF L, R
  <2> HIDE DEF a, m, x, y
  <2>6. /\ (x + y) % m = IF x + y < m THEN x + y ELSE x + y - m
        /\ (x - y) % m = IF x < y THEN x - y + m ELSE x - y
    BY <2>3, WrappedOnce
  <2>7. /\ a.res \in U128 /\ Value(a.res) = z % m /\ a.saturated \in U128
        /\ a.over <=> ~(0 <= z /\ z < m)
        /\ a.over => Value(a.saturated) = IF z < 0 THEN 0 ELSE m - 1
        /\ z % m \in 0 .. m - 1
        /\ z % m = z <=> 0 <= z /\ z < m
    <3>1. CASE stmt.op = "ADD"
      BY <2>3, <2>5, <2>6, <3>1
    <3>2. CASE stmt.op = "SUB"
      <4>1. z = x - y
        BY <3>2
      <4>2. a.over <=> ~(0 <= z /\ z < m)
        BY <2>3, <2>5, <3>2, <4>1
      <4>3. a.over => z < 0
        BY <2>3, <2>5, <3>2, <4>1
      <4> QED BY <2>3, <2>5, <2>6, <3>2, <4>1, <4>2
    <3> QED BY <3>1, <3>2
  <2> HIDE DEF z
  <2>8. z \in Int
    BY <2>3 DEF z
  <2>9. Fits(ty, z) <=> 0 <= z /\ z < m
    <3>1. Bytes(ty, z) = z % m
      BY DEF Bytes, Modulus, m
    <3>2. Num(ty, z % m) = z % m
      BY DEF Num
    <3> QED BY <2>7, <3>1, <3>2 DEF Fits
  <2>10. Clamped(ty, z) = IF z < 0 THEN 0 ELSE IF z > m - 1 THEN m - 1 ELSE z
    BY DEF Clamped, Modulus, m
  <2>11. RunArith
    BY ItsAction
  <2>12. CASE stmt.how = "overflow"
    <3>1. flag' = (stmt.how = "overflow" /\ a.over)
      BY <2>11, <2>12 DEF RunArith, a
    <3> QED BY <2>4, <2>7, <2>9, <2>12, <3>1
  <2>13. CASE stmt.how = "saturating"
    <3>1. a.saturated # NoStmt
      BY <2>7 DEF U128, NoStmt
    <3>2. val' = IF a.over THEN Write(ty, a.saturated) ELSE Write(ty, a.res)
      BY <2>11, <2>13, <3>1 DEF RunArith, Store, a
    <3>3. Write(ty, a.saturated) = Value(a.saturated) % m /\ Write(ty, a.res) = Value(a.res) % m
      BY <2>1, <2>7, Written DEF m
    <3>4. 0 % m = 0 /\ (m - 1) % m = m - 1
      <4>1. 0 \in 0 .. m - 1 /\ m - 1 \in 0 .. m - 1
        BY <2>3
      <4> QED BY <2>3, <4>1, SmallRemainder
    <3>5. (z % m) % m = z % m
      BY <2>3, <2>8, RemainderTwice
    <3>6. CASE a.over
      <4>1. val' = IF z < 0 THEN 0 ELSE m - 1
        BY <2>7, <3>2, <3>3, <3>4, <3>6
      <4> QED BY <2>3, <2>4, <2>7, <2>8, <2>10, <2>13, <3>6, <4>1
    <3>7. CASE ~a.over
      <4>1. val' = z /\ 0 <= z /\ z < m
        BY <2>7, <3>2, <3>3, <3>5, <3>7
      <4> QED BY <2>3, <2>4, <2>8, <2>10, <2>13, <4>1
    <3> QED BY <3>6, <3>7
  <2> QED BY <2>12, <2>13
<1> QED BY <1>1, TypesHold, PTL DEF Spec, OverflowNoticed

\* Sign and size of the integer that a pair stands for.
LEMMA SignFacts ==
    \A a \in U128 :
        /\ Signed(a) \in Int /\ Size(a) = AbsInt(Signed(a))
        /\ IsNeg(a) = (Signed(a) < 0)
        /\ Signed(a) = 0 <=> Value(a) = 0
<1> SUFFICES ASSUME NEW a \in U128
             PROVE  /\ Signed(a) \in Int /\ Size(a) = AbsInt(Signed(a))
                    /\ IsNeg(a) = (Signed(a) < 0)
                    /\ Signed(a) = 0 <=> Value(a) = 0
  OBVIOUS
<1> DEFINE x == Value(a)
           s == Signed(a)
           z == Size(a)
<1>1. x \in Nat /\ x < Limit /\ Limit \in Nat /\ (IsNeg(a) <=> Limit <= 2 * x)
  BY PairFacts, BaseFacts, IsNegExact DEF Limit
<1>2. /\ s = IF Limit <= 2 * x THEN x - Limit ELSE x
      /\ z = IF Limit <= 2 * x THEN Limit - x ELSE x
  BY DEF Signed, Size
<1> HIDE DEF x, s, z
<1>3. AbsInt(s) = IF s < 0 THEN 0 - s ELSE s
  BY DEF AbsInt
<1>4. s \in Int /\ (IsNeg(a) = (s < 0)) /\ (s = 0 <=> x = 0)
  <2>1. IsNeg(a) \in BOOLEAN
    BY DEF IsNeg, Bit
  <2> QED BY <1>1, <1>2, <2>1
<1>5. z = AbsInt(s)
  BY <1>1, <1>2, <1>3
<1> QED BY <1>4, <1>5 DEF x, s, z

\* The quotients and remainders of two operands.
LEMMA QuotientExact ==
    ASSUME NEW t \in Types, NEW a \in Contents(t), NEW b \in Contents(t)
    PROVE  LET l == Read(t, a)
               r == Read(t, b)
               x == Num(t, a)
               y == Num(t, b)
               m == Modulus(t)
           IN /\ r = Zero <=> y = 0
              /\ y # 0 /\ ~(t.signed /\ (l = Excepted \/ r = Excepted))
                    => Value(Quotient(t, "DIV", l, r)) % m
                          = (Signum(x) * Signum(y) * (AbsInt(x) \div AbsInt(y))) % m
              /\ y # 0 /\ ~t.signed
                    => Value(Quotient(t, "MOD", l, r)) % m = x - y * (x \div y)
<1> DEFINE l == Read(t, a)
           r == Read(t, b)
           x == Num(t, a)
           y == Num(t, b)
           m == Modulus(t)
           z == Signum(x) * Signum(y) * (AbsInt(x) \div AbsInt(y))
<1>1. l \in U128 /\ r \in U128 /\ t.signed \in BOOLEAN
  BY ReadExact, TypeFacts
<1>2. x \in Int /\ y \in Int /\ m \in Nat \ {0}
  BY NumFacts, TypeFacts
<1>3. ~t.signed => Value(l) = x /\ Value(r) = y /\ x \in 0 .. m - 1 /\ y \in 0 .. m - 1
  <2> SUFFICES ASSUME ~t.signed
               PROVE  Value(l) = x /\ Value(r) = y /\ x \in 0 .. m - 1 /\ y \in 0 .. m - 1
    OBVIOUS
  <2>1. x = a /\ y = b
    BY NumFacts
  <2>2. Value(l) = a /\ Value(r) = b
    BY ReadExact
  <2>3. a \in 0 .. m - 1 /\ b \in 0 .. m - 1
    BY TypeFacts
  <2> QED BY <2>1, <2>2, <2>3
<1>4. t.signed => Signed(l) = x /\ Signed(r) = y
  BY ReadExact
<1> HIDE DEF l, r, x, y, m
<1>5. r = Zero <=> y = 0
  <2>1. r = Zero <=> Value(r) = 0
    BY <1>1, ConstantPairs
  <2> QED BY <1>1, <1>3, <1>4, <2>1, SignFacts
<1>6. ASSUME y # 0, ~t.signed
      PROVE  /\ Value(Quotient(t, "DIV", l, r)) % m = z % m
             /\ Value(Quotient(t, "MOD", l, r)) % m = x - y * (x \div y)
  <2> DEFINE u == DivMod(l, r)
             q == Value(u.q)
             c == Value(u.r)
  <2>1. u.q \in U128 /\ u.r \in U128 /\ x = q * y + c /\ c < y
    BY <1>1, <1>3, <1>6, DivExact
  <2>2. Quotient(t, "DIV", l, r) = Mask(t, u.q) /\ Quotient(t, "MOD", l, r) = Mask(t, u.r)
    BY <1>6 DEF Quotient
  <2>3. q \in Nat /\ c \in Nat
    BY <2>1, PairFacts
  <2>4. Value(Mask(t, u.q)) = q % m /\ Value(Mask(t, u.r)) = c % m
    BY <2>1, MaskExact DEF m
  <2> HIDE DEF u, q, c
  <2>5. (q % m) % m = q % m /\ (c % m) % m = c % m
    <3>1. q \in Int /\ c \in Int
      BY <2>3
    <3>2. (q % m) % m = q % m
      BY <1>2, <3>1, RemainderTwice
    <3>3. (c % m) % m = c % m
      BY <1>2, <3>1, RemainderTwice
    <3> QED BY <3>2, <3>3
  <2>6. x \div y = q
    <3>1. y \in Nat \ {0} /\ c \in 0 .. y - 1 /\ q \in Int
      BY <1>3, <1>6, <2>1, <2>3
    <3>2. (q * y + c) \div y = q
      BY <3>1, Quotients
    <3> QED BY <2>1, <3>2
  <2>7. z = q
    <3>1. Signum(x) = 1 /\ Signum(y) = 1 /\ AbsInt(x) = x /\ AbsInt(y) = y
      BY <1>2, <1>3, <1>6 DEF Signum, AbsInt
    <3> QED BY <2>3, <2>6, <3>1
  <2>8. c % m = x - y * (x \div y)
    <3>1. c \in 0 .. m - 1
      BY <1>2, <1>3, <1>6, <2>1, <2>3
    <3>2. c % m = c
      BY <1>2, <3>1, SmallRemainder
    <3>3. q * y = y * q /\ q * y \in Int
      BY <1>2, <2>3
    <3> QED BY <1>2, <2>1, <2>3, <2>6, <3>2, <3>3
  <2> HIDE DEF z
  <2> QED BY <2>2, <2>4, <2>5, <2>7, <2>8
<1>7. ASSUME y # 0, t.signed, l # Excepted, r # Excepted
      PROVE  Value(Quotient(t, "DIV", l, r)) % m = z % m
  <2> DEFINE w == SDiv(l, r)
             size == Size(l) \div Size(r)
             quotient == IF IsNeg(l) # IsNeg(r) THEN 0 - size ELSE size
  <2>1. Quotient(t, "DIV", l, r) = MaskS(t, w)
    BY <1>7 DEF Quotient
  <2>2. Value(r) # 0
    BY <1>1, <1>4, <1>7, SignFacts
  <2>3. w \in U128 /\ Value(w) = quotient % Limit
    BY <1>1, <1>7, <2>2, SDivExact
  <2>4. /\ Size(l) = AbsInt(x) /\ Size(r) = AbsInt(y)
        /\ IsNeg(l) = (x < 0) /\ IsNeg(r) = (y < 0)
    BY <1>1, <1>4, <1>7, SignFacts
  <2>5. size \in Nat
    <3> DEFINE c == AbsInt(x)
               d == AbsInt(y)
    <3>1. c \in Nat /\ d \in Nat \ {0}
      BY <1>2, <1>7 DEF AbsInt
    <3> HIDE DEF c, d
    <3>2. c \div d \in Nat
      BY <3>1, Divided
    <3> QED BY <2>4, <3>2 DEF c, d
  <2>6. z = quotient
    <3> DEFINE k == AbsInt(x) \div AbsInt(y)
    <3>1. k = size
      BY <2>4
    <3>2. z = Signum(x) * Signum(y) * k
      OBVIOUS
    <3>3. /\ Signum(x) = IF x < 0 THEN 0 - 1 ELSE 1
          /\ Signum(y) = IF y < 0 THEN 0 - 1 ELSE 1
      BY DEF Signum
    <3>4. quotient = IF (x < 0) # (y < 0) THEN 0 - size ELSE size
      BY <2>4
    <3> HIDE DEF k, size, z, quotient
    <3>5. CASE x < 0 /\ y < 0
      BY <1>2, <2>5, <3>1, <3>2, <3>3, <3>4, <3>5
    <3>6. CASE x < 0 /\ ~(y < 0)
      BY <1>2, <2>5, <3>1, <3>2, <3>3, <3>4, <3>6
    <3>7. CASE ~(x < 0) /\ y < 0
      BY <1>2, <2>5, <3>1, <3>2, <3>3, <3>4, <3>7
    <3>8. CASE ~(x < 0) /\ ~(y < 0)
      BY <1>2, <2>5, <3>1, <3>2, <3>3, <3>4, <3>8
    <3> QED BY <3>5, <3>6, <3>7, <3>8
  <2>7. quotient \in Int
    <3> HIDE DEF size
    <3> QED BY <2>5
  <2> HIDE DEF w, quotient, z
  <2>8. Value(MaskS(t, w)) % m = quotient % m
    BY <2>3, <2>7, Masked DEF m
  <2> QED BY <2>1, <2>6, <2>8
<1> HIDE DEF z
<1> QED BY <1>1, <1>5, <1>6, <1>7 DEF l, r, x, y, m, z

\* DivisionExact for every type, every operand and every word size.
THEOREM DivisionExactHolds == Spec => DivisionExact
<1> DEFINE A == /\ Ran({"DIV", "MOD"}) => (status' = "aborted" <=> Right = 0)
                /\ Ran({"DIV"}) /\ Right # 0 /\ ~MinusBase(Left) /\ ~MinusBase(Right)
                     => val' = Bytes(ty, Signum(Left) * Signum(Right) * (AbsInt(Left) \div AbsInt(Right)))
                /\ Ran({"MOD"}) /\ Right # 0 /\ ~ty.signed
                     => val' = Left - Right * (Left \div Right)
<1>1. TypeOK /\ [Next]_vars => A
  <2> SUFFICES ASSUME TypeOK, [Next]_vars, stmt.op \in {"DIV", "MOD"}, stmt' = NoStmt PROVE A
    BY DEF Ran
  <2> DEFINE m == Modulus(ty)
             u == Quotient(ty, stmt.op, L, R)
  <2>1. ty \in Types /\ val \in Contents(ty) /\ Fields(ty, stmt)
    BY StatementFacts DEF TypeOK, NoStmt
  <2>2. stmt.r \in Contents(ty) /\ ty.signed \in BOOLEAN
    BY <2>1, TypeFacts DEF Fields
  <2>3. RunDiv
    BY ItsAction
  <2>4. L \in U128 /\ R \in U128
    BY <2>1, <2>2, ReadExact DEF L, R
  <2>5. R = Zero <=> Right = 0
    BY <2>1, <2>2, QuotientExact DEF L, R, Left, Right
  <2>6. status' = "aborted" <=> Right = 0
    <3>1. status = "run"
      BY <2>3 DEF RunDiv, Running
    <3>2. CASE R = Zero
      BY <2>3, <2>5, <3>2 DEF RunDiv
    <3>3. CASE R # Zero
      <4>1. status' = status
        BY <2>3, <3>3 DEF RunDiv, Store
      <4> QED BY <2>5, <3>1, <3>3, <4>1
    <3> QED BY <3>2, <3>3
  <2>7. ASSUME Right # 0 PROVE val' = Value(u) % m
    <3>1. R # Zero
      BY <2>5, <2>7
    <3>2. val' = Write(ty, u)
      BY <2>3, <3>1 DEF RunDiv, Store
    <3>3. u \in U128
      BY <2>1, <2>4, <3>1, QuotientPairs
    <3> HIDE DEF u
    <3> QED BY <2>1, <3>2, <3>3, Written
  <2>8. ASSUME stmt.op = "DIV", Right # 0, ~MinusBase(Left), ~MinusBase(Right)
        PROVE  val' = Bytes(ty, Signum(Left) * Signum(Right) * (AbsInt(Left) \div AbsInt(Right)))
    <3>1. ~(ty.signed /\ (L = Excepted \/ R = Excepted))
      <4> SUFFICES ASSUME ty.signed, L = Excepted \/ R = Excepted PROVE FALSE
        OBVIOUS
      <4>1. MinusBase(Left) \/ MinusBase(Right)
        BY <2>1, <2>2, ExceptedExact DEF L, R, Left, Right, MinusBase
      <4> QED BY <2>8, <4>1
    <3>2. Value(u) % m = (Signum(Left) * Signum(Right) * (AbsInt(Left) \div AbsInt(Right))) % m
      BY <2>1, <2>2, <2>8, <3>1, QuotientExact DEF L, R, Left, Right
    <3> QED BY <2>7, <2>8, <3>2 DEF Bytes, Modulus
  <2>9. ASSUME stmt.op = "MOD", Right # 0, ~ty.signed
        PROVE  val' = Left - Right * (Left \div Right)
    <3>1. Value(u) % m = Left - Right * (Left \div Right)
      BY <2>1, <2>2, <2>9, QuotientExact DEF L, R, Left, Right
    <3> QED BY <2>7, <2>9, <3>1
  <2> QED BY <2>6, <2>8, <2>9 DEF Ran
<1> QED BY <1>1, TypesHold, PTL DEF Spec, DivisionExact

\* Comparisons of two operands.
LEMMA CompareExact ==
    ASSUME NEW t \in Types, NEW a \in Contents(t), NEW b \in Contents(t)
    PROVE  LET l == Read(t, a)
               r == Read(t, b)
               x == Num(t, a)
               y == Num(t, b)
           IN /\ Compare(t, "LT", l, r) = (x < y) /\ Compare(t, "GE", l, r) = ~(x < y)
              /\ Compare(t, "GT", l, r) = (x > y) /\ Compare(t, "LE", l, r) = ~(x > y)
<1> DEFINE l == Read(t, a)
           r == Read(t, b)
           x == Num(t, a)
           y == Num(t, b)
           lt(c, d) == IF t.signed THEN SLess(c, d) ELSE Less(c, d)
<1>1. l \in U128 /\ r \in U128 /\ t.signed \in BOOLEAN
  BY ReadExact, TypeFacts
<1>2. ~t.signed => Value(l) = x /\ Value(r) = y
  BY ReadExact, NumFacts
<1>3. t.signed => Signed(l) = x /\ Signed(r) = y
  BY ReadExact
<1>4. x \in Int /\ y \in Int
  BY NumFacts
<1>5. /\ Compare(t, "LT", l, r) = lt(l, r) /\ Compare(t, "GE", l, r) = ~lt(l, r)
      /\ Compare(t, "GT", l, r) = lt(r, l) /\ Compare(t, "LE", l, r) = ~lt(r, l)
  BY DEF Compare
<1> HIDE DEF l, r, x, y
<1>6. (lt(l, r) <=> x < y) /\ (lt(r, l) <=> y < x)
  <2>1. CASE t.signed
    BY <1>1, <1>3, <2>1, SLessExact
  <2>2. CASE ~t.signed
    BY <1>1, <1>2, <2>2, LessExact
  <2> QED BY <2>1, <2>2
<1>7. lt(l, r) \in BOOLEAN /\ lt(r, l) \in BOOLEAN
  BY <1>1 DEF SLess, Less
<1> HIDE DEF lt
<1>8. y < x <=> x > y
  BY <1>4
<1> QED BY <1>5, <1>6, <1>7, <1>8 DEF l, r, x, y

\* What a cast writes.
LEMMA CastExact ==
    ASSUME NEW t \in Types, NEW a \in Contents(t), NEW to \in Types
    PROVE  Value(Read(t, a)) % Modulus(to) = Num(t, a) % Modulus(to)
<1>1. CASE t.signed
  BY <1>1, ReadExact, SignedCongruent
<1>2. CASE ~t.signed
  BY <1>2, ReadExact, NumFacts
<1> QED BY <1>1, <1>2

\* ValuesKept for every type, every operand and every word size.
THEOREM ValuesKeptHolds == Spec => ValuesKept
<1> DEFINE A == /\ Ran({"LT", "GE"}) => flag' = ((Left < Right) = (stmt.op = "LT"))
                /\ Ran({"GT", "LE"}) => flag' = ((Left > Right) = (stmt.op = "GT"))
                /\ Ran({"CAST"}) /\ Fits(stmt.to, Left) => Num(ty', val') = Left
<1>1. TypeOK /\ [Next]_vars => A
  <2> SUFFICES ASSUME TypeOK, [Next]_vars, stmt' = NoStmt, stmt # NoStmt PROVE A
    BY DEF Ran, NoStmt
  <2>1. ty \in Types /\ val \in Contents(ty) /\ Fields(ty, stmt)
    BY StatementFacts DEF TypeOK
  <2>2. ASSUME stmt.op \in {"LT", "GE", "GT", "LE"}
        PROVE  /\ stmt.op = "LT" => flag' = (Left < Right)
               /\ stmt.op = "GE" => flag' = ~(Left < Right)
               /\ stmt.op = "GT" => flag' = (Left > Right)
               /\ stmt.op = "LE" => flag' = ~(Left > Right)
    <3>1. stmt.r \in Contents(ty)
      BY <2>1, <2>2 DEF Fields
    <3>2. RunCompare
      BY <2>2, ItsAction
    <3>3. flag' = Compare(ty, stmt.op, L, R)
      BY <3>2 DEF RunCompare
    <3>4. /\ Compare(ty, "LT", L, R) = (Left < Right) /\ Compare(ty, "GE", L, R) = ~(Left < Right)
          /\ Compare(ty, "GT", L, R) = (Left > Right) /\ Compare(ty, "LE", L, R) = ~(Left > Right)
      BY <2>1, <3>1, CompareExact DEF L, R, Left, Right
    <3> QED BY <3>3, <3>4
  <2>3. ASSUME stmt.op = "CAST", Fits(stmt.to, Left) PROVE Num(ty', val') = Left
    <3>1. stmt.to \in Types
      BY <2>1, <2>3 DEF Fields
    <3>2. RunCast
      BY <2>3, ItsAction
    <3>3. ty' = stmt.to /\ val' = Write(stmt.to, L)
      BY <3>2 DEF RunCast, Store
    <3>4. Write(stmt.to, L) = Value(L) % Modulus(stmt.to)
      BY <3>1, Operands, Written
    <3>5. Value(L) % Modulus(stmt.to) = Left % Modulus(stmt.to)
      BY <2>1, <3>1, CastExact DEF L, Left
    <3> QED BY <2>3, <3>3, <3>4, <3>5 DEF Fits, Bytes, Modulus
  <2>4. Ran({"LT", "GE"}) => flag' = ((Left < Right) = (stmt.op = "LT"))
    BY <2>2 DEF Ran
  <2>5. Ran({"GT", "LE"}) => flag' = ((Left > Right) = (stmt.op = "GT"))
    BY <2>2 DEF Ran
  <2>6. Ran({"CAST"}) /\ Fits(stmt.to, Left) => Num(ty', val') = Left
    BY <2>3 DEF Ran
  <2> QED BY <2>4, <2>5, <2>6
<1> QED BY <1>1, TypesHold, PTL DEF Spec, ValuesKept

(***************************************************************************)
(* Shifts and rotations.                                                   *)
(***************************************************************************)
\* A shift amount fits a word: there are at least as many words as bits.
LEMMA AmountsFit == Bits <= Base /\ Base < Limit /\ Bits \in Nat
<1> DEFINE T == {n \in Nat : n = 0 \/ 2 * n <= Power[n]}
<1>1. 0 \in T
  OBVIOUS
<1>2. ASSUME NEW n \in Nat, n \in T PROVE n + 1 \in T
  <2>1. Power[0] = 1 /\ Power[n] \in Nat \ {0} /\ Power[n + 1] = 2 * Power[n]
    BY PowerFacts
  <2>2. CASE n = 0
    BY <2>1, <2>2
  <2>3. CASE n # 0
    <3>1. 2 * n <= Power[n]
      BY <1>2, <2>3
    <3>2. 2 * (n + 1) <= 2 * Power[n]
      BY <2>1, <2>3, <3>1
    <3> QED BY <2>1, <3>2
  <2> QED BY <2>2, <2>3
<1>3. WordBits \in T
  <2> HIDE DEF T
  <2> QED BY <1>1, <1>2, NaturalInduction, BaseFacts
<1>4. WordBits \in Nat \ {0} /\ Base \in Nat \ {0, 1} /\ Bits = 2 * WordBits
  BY BaseFacts DEF Bits
<1>5. Bits <= Base
  BY <1>3, <1>4 DEF Base
<1>6. Base < Base * Base
  BY <1>4
<1> QED BY <1>4, <1>5, <1>6 DEF Limit

\* The low word of a pair below Base is its number.
LEMMA LowWord == \A a \in U128 : Value(a) < Base => a.lo = Value(a)
<1> SUFFICES ASSUME NEW a \in U128, Value(a) < Base PROVE a.lo = Value(a)
  OBVIOUS
<1> DEFINE h == a.hi
           l == a.lo
<1>1. Base \in Nat \ {0} /\ h \in Nat /\ l \in Nat /\ Value(a) = h * Base + l
  BY PairFacts, BaseFacts DEF Value
<1> HIDE DEF h, l
<1>2. h = 0
  <2> SUFFICES ASSUME h # 0 PROVE FALSE
    OBVIOUS
  <2>1. Base <= h * Base
    BY <1>1
  <2> QED BY <1>1, <2>1
<1>3. h * Base = 0
  BY <1>1, <1>2
<1> QED BY <1>1, <1>3 DEF l

\* The amount is the number that the right operand stands for, if it is less
\* than the width.
LEMMA AmountExact ==
    ASSUME NEW t \in Types, NEW s, s.tr \in Types, s.r \in Contents(s.tr),
           Num(s.tr, s.r) \in 0 .. t.bits - 1
    PROVE  ~ShiftOver(t, s) /\ ShiftAmount(t, s) = Num(s.tr, s.r)
<1> DEFINE a == Read(s.tr, s.r)
           n == Num(s.tr, s.r)
<1>1. a \in U128 /\ n \in Nat /\ n < t.bits /\ t.bits <= Bits /\ t.bits \in Nat
  BY ReadExact, TypeFacts
<1>2. Value(a) = n
  <2>1. CASE ~s.tr.signed
    BY <2>1, ReadExact, NumFacts
  <2>2. CASE s.tr.signed
    <3>1. Signed(a) = n
      BY <2>2, ReadExact
    <3>2. Value(a) \in Nat /\ Value(a) < Limit /\ Limit \in Nat
      BY <1>1, PairFacts, BaseFacts DEF Limit
    <3> HIDE DEF a, n
    <3> QED BY <1>1, <3>1, <3>2 DEF Signed
  <2> QED BY <2>1, <2>2
<1> HIDE DEF a, n
<1>3. n < Base
  BY <1>1, AmountsFit, BaseFacts
<1>4. a.lo = n
  BY <1>1, <1>2, <1>3, LowWord
<1>5. ~(a.lo > t.bits)
  BY <1>1, <1>4
<1> QED BY <1>4, <1>5 DEF ShiftOver, ShiftAmount, a, n

\* A shift that keeps the sign of a value that has none is a plain one.
LEMMA SShrNonNegative ==
    ASSUME NEW a \in U128, NEW n \in Nat, ~IsNeg(a)
    PROVE  SShr(a, n) = Shr(a, n)
<1>1. /\ WordBits \in Nat \ {0} /\ Bits = WordBits + WordBits
      /\ Shr(a, n) \in U128
  BY BaseFacts, ShrExact DEF Bits
<1>2. CASE n = 0
  BY <1>1, <1>2 DEF SShr, Shr
<1>3. CASE n >= Bits
  BY <1>1, <1>3 DEF SShr, Shr, Zero
<1>4. CASE n >= WordBits /\ n < Bits
  BY <1>1, <1>4 DEF SShr, Shr
<1>5. CASE n > 0 /\ n < WordBits
  <2> DEFINE u == Shr(a, n)
  <2>1. SShr(a, n) = [u EXCEPT !.hi = @ + 0]
    BY <1>1, <1>5 DEF SShr
  <2>2. u \in U128 /\ u.hi + 0 = u.hi
    BY <1>1, PairFacts
  <2> HIDE DEF u
  <2>3. [u EXCEPT !.hi = u.hi] = u
    BY <2>2 DEF U128
  <2> QED BY <2>1, <2>2, <2>3 DEF u
<1> QED BY <1>1, <1>2, <1>3, <1>4, <1>5

\* What shifts write.
LEMMA ShiftedExact ==
    ASSUME NEW t \in Types, NEW a \in Contents(t), NEW n \in Nat
    PROVE  LET l == Read(t, a)
               x == Num(t, a)
               m == Modulus(t)
           IN /\ Value(Shifted(t, "SHL", l, n)) % m = (x * Power[n]) % m
              /\ x >= 0 \/ n <= WordBits
                   => Value(Shifted(t, "SHR", l, n)) % m = (x \div Power[n]) % m
<1> DEFINE l == Read(t, a)
           x == Num(t, a)
           m == Modulus(t)
           p == Power[n]
           v == Value(l)
<1>1. l \in U128 /\ v % m = a /\ t.signed \in BOOLEAN /\ p \in Nat \ {0}
  BY ReadExact, TypeFacts, PowerFacts
<1>2. x \in Int /\ x % m = a /\ m \in Nat \ {0}
  BY NumFacts, TypeFacts
<1>3. v \in Nat
  BY <1>1, PairFacts
<1>4. ~t.signed => v = x
  BY ReadExact, NumFacts
<1>5. t.signed => Signed(l) = x
  BY ReadExact
<1>12. ~t.signed => x >= 0
  BY NumFacts
<1>6. Shl(l, n) \in U128 /\ Value(Shl(l, n)) = (v * p) % Limit
  BY <1>1, ShlExact
<1>7. Shr(l, n) \in U128 /\ Value(Shr(l, n)) = v \div p
  BY <1>1, ShrExact
<1> HIDE DEF l, x, m, p
<1>8. (v * p) % m = (x * p) % m
  <2> HIDE DEF v
  <2>1. /\ v \in Int /\ x \in Int /\ p \in Int /\ m \in Nat \ {0}
        /\ Congruent(v, x, m) /\ Congruent(p, p, m)
    BY <1>1, <1>2, <1>3 DEF Congruent
  <2>2. Congruent(v * p, x * p, m)
    BY <2>1, SameRemainders
  <2> QED BY <2>2 DEF Congruent
<1>9. Value(Shifted(t, "SHL", l, n)) % m = (x * p) % m
  <2> DEFINE w == Shl(l, n)
             z == v * p
  <2>1. z \in Int
    BY <1>1, <1>3
  <2>2. w \in U128 /\ Value(w) = z % Limit
    BY <1>6
  <2>3. Shifted(t, "SHL", l, n) = IF t.signed THEN MaskS(t, w) ELSE Mask(t, w)
    BY DEF Shifted
  <2> HIDE DEF w, z
  <2>4. Value(Mask(t, w)) % m = z % m /\ Value(MaskS(t, w)) % m = z % m
    BY <2>1, <2>2, Masked DEF m
  <2> QED BY <1>1, <1>8, <2>3, <2>4 DEF z
<1>10. ASSUME ~t.signed PROVE Value(Shifted(t, "SHR", l, n)) % m = (x \div p) % m
  <2> DEFINE w == Shr(l, n)
             z == Value(w)
  <2>1. Shifted(t, "SHR", l, n) = Mask(t, w)
    BY <1>10 DEF Shifted
  <2>2. w \in U128 /\ z = x \div p /\ z \in Int
    BY <1>4, <1>7, <1>10, PairFacts
  <2> HIDE DEF w
  <2>3. Value(Mask(t, w)) = z % m
    BY <2>2, MaskExact DEF m
  <2> HIDE DEF z
  <2>4. (z % m) % m = z % m
    BY <1>2, <2>2, RemainderTwice
  <2> QED BY <2>1, <2>2, <2>3, <2>4
<1>11. ASSUME t.signed, n <= WordBits PROVE Value(Shifted(t, "SHR", l, n)) % m = (x \div p) % m
  <2> DEFINE w == SShr(l, n)
             z == x \div p
  <2>1. Shifted(t, "SHR", l, n) = MaskS(t, w)
    BY <1>11 DEF Shifted
  <2>2. n \in 0 .. WordBits
    BY <1>11, BaseFacts
  <2>3. w \in U128 /\ Value(w) = z % Limit
    BY <1>1, <1>5, <1>11, <2>2, SShrExact DEF p
  <2>4. z \in Int
    BY <1>1, <1>2
  <2> HIDE DEF w, z
  <2>5. Value(MaskS(t, w)) % m = z % m
    BY <2>3, <2>4, Masked DEF m
  <2> QED BY <2>1, <2>5 DEF z
<1>13. ASSUME t.signed, x >= 0 PROVE Value(Shifted(t, "SHR", l, n)) % m = (x \div p) % m
  <2> DEFINE w == Shr(l, n)
             z == x \div p
  <2>1. ~IsNeg(l) /\ v = x
    <3>1. v < Limit /\ Limit \in Nat
      BY <1>1, PairFacts, BaseFacts DEF Limit
    <3>2. x = IF Limit <= 2 * v THEN v - Limit ELSE v
      BY <1>5, <1>13 DEF Signed
    <3>3. IsNeg(l) <=> Limit <= 2 * v
      BY <1>1, IsNegExact
    <3> HIDE DEF v
    <3> QED BY <1>3, <1>13, <3>1, <3>2, <3>3
  <2>2. Shifted(t, "SHR", l, n) = MaskS(t, w)
    BY <1>1, <1>13, <2>1, SShrNonNegative DEF Shifted
  <2>3. w \in U128 /\ Value(w) = z
    BY <1>7, <2>1
  <2> HIDE DEF w, z
  <2>4. z \in Int /\ z = z % Limit
    <3>1. Limit \in Nat \ {0}
      BY BaseFacts DEF Limit
    <3>2. Value(w) \in Nat /\ Value(w) < Limit
      BY <2>3, PairFacts
    <3>3. z \in 0 .. Limit - 1
      BY <2>3, <3>1, <3>2
    <3> QED BY <3>1, <3>3, SmallRemainder
  <2>5. Value(MaskS(t, w)) % m = z % m
    BY <2>3, <2>4, Masked DEF m
  <2> QED BY <2>2, <2>5 DEF z
<1> QED BY <1>1, <1>9, <1>10, <1>11, <1>12, <1>13 DEF l, x, m, p

\* The two parts of a rotation meet without overlap.
LEMMA RotatedExact ==
    ASSUME NEW t \in Types, NEW x \in Contents(t), NEW n \in Nat \ {0}, n < t.bits,
           NEW v \in U128, Value(v) = x
    PROVE  LET high == Shl(v, n)
               low == Shr(v, t.bits - n)
               all == Bytes(t, x * Power[n]) + (x \div Power[t.bits - n])
           IN /\ Or128(low, high) \in U128 /\ Value(Or128(low, high)) % Modulus(t) = all
              /\ Or128(high, low) = Or128(low, high)
<1> DEFINE d == t.bits - n
           high == Shl(v, n)
           low == Shr(v, d)
           p == Power[n]
           q == Power[d]
           e == Power[Bits - n]
           m == Modulus(t)
<1>1. t.bits \in Nat /\ d \in Nat /\ n + d = t.bits /\ n <= t.bits /\ n <= Bits /\ Bits \in Nat
  BY TypeFacts, BaseFacts
<1>2. p \in Nat \ {0} /\ q \in Nat \ {0} /\ m = p * q /\ m \in Nat \ {0}
  <2>1. p \in Nat \ {0} /\ q \in Nat \ {0}
    BY <1>1, PowerFacts
  <2>2. Power[n + d] = Power[n] * Power[d]
    BY <1>1, PowerSum
  <2>3. m = p * q
    BY <1>1, <2>2 DEF Modulus
  <2>4. m \in Nat \ {0}
    BY TypeFacts
  <2> QED BY <2>1, <2>3, <2>4
<1>3. e \in Nat \ {0} /\ Limit = p * e
  <2>1. Bits - n \in Nat
    BY <1>1
  <2> QED BY <1>1, <2>1, PowerFacts, PowerParts, BaseFacts
<1>4. high \in U128 /\ Value(high) = (x * p) % Limit
  BY ShlExact
<1>5. low \in U128 /\ Value(low) = x \div q
  BY <1>1, ShrExact
<1>6. x \in Nat /\ x < m
  BY NumFacts
<1> HIDE DEF d, high, low, p, q, e, m
<1>7. x \div q \in Nat /\ x \div q < p
  <2>1. q * p = p * q
    BY <1>2
  <2>2. x < p * q
    BY <1>2, <1>6
  <2>3. x < p * q => x \div q < p
    BY <1>2, <1>6, MovedUp
  <2>4. x \div q \in Nat
    BY <1>2, <1>6, Divided
  <2> QED BY <2>2, <2>3, <2>4
<1> DEFINE k == x % e
           c == x % q
           l == x \div q
<1>8. (x * p) % Limit = k * p
  BY <1>2, <1>3, <1>6, MovedUp
<1>9. (x * p) % m = c * p /\ c * p + p <= m
  BY <1>2, <1>6, MovedUp
<1>10. k \in Nat /\ c \in Nat
  <2>1. k \in Nat
    BY <1>3, <1>6, Divided
  <2>2. c \in Nat
    BY <1>2, <1>6, Divided
  <2> QED BY <2>1, <2>2
<1> HIDE DEF k, c, l
<1>11. Or128(low, high) \in U128 /\ Value(Or128(low, high)) = Value(low) + Value(high)
  <2>1. Value(low) < Power[n] /\ Value(high) = k * Power[n]
    BY <1>4, <1>5, <1>7, <1>8 DEF p
  <2>2. n \in Nat
    OBVIOUS
  <2> QED BY <1>4, <1>5, <1>10, <2>1, <2>2, OrExact
<1>12. Or128(high, low) = Or128(low, high)
  <2>1. \A a, b : Or(a, b) = Or(b, a)
    <3>1. \A a, b : BitsOf(a) \cup BitsOf(b) = BitsOf(b) \cup BitsOf(a)
      OBVIOUS
    <3> QED BY <3>1 DEF Or
  <2> QED BY <2>1 DEF Or128
<1>13. (l + ((x * p) % Limit)) % m = (c * p) + l
  <2> DEFINE z == x * p
             w == z % Limit
             u == c * p
  <2>1. z \in Int /\ u \in Int /\ l \in Int /\ l \in Nat /\ l < p /\ u \in Nat /\ u + p <= m
    BY <1>2, <1>6, <1>7, <1>9, <1>10 DEF l
  <2>2. w \in Int
    BY <1>2, <1>8, <1>10
  <2>3. w % m = z % m
    <3> HIDE DEF z
    <3> QED BY <2>1, WithinLimit DEF m
  <2>4. z % m = u
    BY <1>9
  <2> HIDE DEF z, w, u
  <2>5. u \in 0 .. m - 1 /\ u + l \in 0 .. m - 1
    BY <1>2, <2>1
  <2>6. u % m = u /\ (u + l) % m = u + l
    <3> DEFINE y == u + l
    <3>1. y \in 0 .. m - 1
      BY <2>5
    <3> HIDE DEF y
    <3>2. y % m = y /\ u % m = u
      BY <1>2, <2>5, <3>1, SmallRemainder
    <3> QED BY <3>2 DEF y
  <2>7. Congruent(l, l, m) /\ Congruent(w, u, m) /\ l \in Int /\ w \in Int /\ u \in Int /\ m \in Nat \ {0}
    BY <1>2, <2>1, <2>2, <2>3, <2>4, <2>6 DEF Congruent
  <2>8. Congruent(l + w, l + u, m)
    BY <2>7, SameRemainders
  <2>9. l + u = u + l
    BY <2>1
  <2>10. (l + w) % m = u + l
    BY <2>6, <2>8, <2>9 DEF Congruent
  <2> QED BY <2>10 DEF z, w, u
<1>14. Value(Or128(low, high)) % m = (c * p) + l
  BY <1>4, <1>5, <1>11, <1>13 DEF l
<1>15. Bytes(t, x * Power[n]) + (x \div Power[t.bits - n]) = (c * p) + l
  BY <1>9 DEF Bytes, Modulus, p, q, m, d, l
<1> QED BY <1>11, <1>12, <1>14, <1>15 DEF low, high, d, m

\* ShiftsKeepSign for every type, every operand and every word size.
THEOREM ShiftsKeepSignHolds == Spec => ShiftsKeepSign
<1> DEFINE A == /\ Ran({"SHL", "SHR"})
                   => LET n == Num(stmt.tr, stmt.r)
                      IN n \in 0 .. ty.bits - 1 /\ ~(stmt.op = "SHR" /\ Left < 0 /\ n > WordBits)
                         => /\ status' = "run"
                            /\ val' = Bytes(ty, IF stmt.op = "SHL" THEN Left * Power[n] ELSE Left \div Power[n])
                /\ Ran({"ROL", "ROR"}) /\ stmt.r < ty.bits /\ (ty.bits = WordBits => stmt.r = 0)
                   => LET n == IF stmt.op = "ROL" THEN stmt.r ELSE ty.bits - stmt.r
                      IN val' = Bytes(ty, val * Power[n]) + (val \div Power[ty.bits - n])
<1>1. TypeOK /\ [Next]_vars => A
  <2> SUFFICES ASSUME TypeOK, [Next]_vars, stmt' = NoStmt, stmt # NoStmt PROVE A
    BY DEF Ran, NoStmt
  <2>1. ty \in Types /\ val \in Contents(ty) /\ Fields(ty, stmt)
    BY StatementFacts DEF TypeOK
  <2> DEFINE m == Modulus(ty)
  <2>2. /\ ty.bits \in Nat \ {0} /\ ty.bits <= Bits /\ Bits <= Base /\ Base < Limit /\ Bits \in Nat
        /\ Base \in Nat /\ Limit \in Nat /\ WordBits \in Nat /\ m \in Nat \ {0}
        /\ ty.signed \in BOOLEAN
    <3>1. ty.bits \in Nat /\ ty.bits - 1 \in Nat
      BY <2>1, TypeFacts
    <3> QED BY <2>1, <3>1, TypeFacts, AmountsFit, BaseFacts DEF Limit
  <2>3. ASSUME stmt.op \in {"SHL", "SHR"}, Num(stmt.tr, stmt.r) \in 0 .. ty.bits - 1,
               ~(stmt.op = "SHR" /\ Left < 0 /\ Num(stmt.tr, stmt.r) > WordBits)
        PROVE  /\ status' = "run"
               /\ val' = Bytes(ty, IF stmt.op = "SHL" THEN Left * Power[Num(stmt.tr, stmt.r)]
                                   ELSE Left \div Power[Num(stmt.tr, stmt.r)])
    <3> DEFINE n == Num(stmt.tr, stmt.r)
               w == Shifted(ty, stmt.op, L, ShiftAmount(ty, stmt))
    <3>1. stmt.tr \in Types /\ stmt.r \in Contents(stmt.tr)
      BY <2>1, <2>3 DEF Fields
    <3>2. ~ShiftOver(ty, stmt) /\ ShiftAmount(ty, stmt) = n
      BY <2>1, <2>3, <3>1, AmountExact
    <3>3. RunShift
      BY <2>3, ItsAction
    <3>4. status' = "run" /\ val' = Write(ty, w)
      BY <3>2, <3>3 DEF RunShift
    <3>5. w \in U128
      <4>1. ShiftAmount(ty, stmt) \in Nat
        BY <2>1, <3>1, AmountFacts
      <4>2. L \in U128
        BY Operands
      <4> QED BY <2>1, <4>1, <4>2, ShiftPairs
    <3>6. w = Shifted(ty, stmt.op, Read(ty, val), n)
      BY <3>2 DEF L
    <3>7. n \in Nat /\ (stmt.op = "SHR" => Left >= 0 \/ n <= WordBits)
      <4>1. Left \in Int
        BY <2>1, NumFacts DEF Left
      <4> HIDE DEF n, m
      <4>2. n \in Nat
        BY <2>2, <2>3 DEF n
      <4> QED BY <2>2, <2>3, <4>1, <4>2 DEF n
    <3> HIDE DEF n, m
    <3>8. /\ Value(Shifted(ty, "SHL", Read(ty, val), n)) % m = (Left * Power[n]) % m
          /\ Left >= 0 \/ n <= WordBits
               => Value(Shifted(ty, "SHR", Read(ty, val), n)) % m = (Left \div Power[n]) % m
      BY <2>1, <3>7, ShiftedExact DEF Left, m
    <3> HIDE DEF w
    <3>9. val' = Value(w) % m
      BY <2>1, <3>4, <3>5, Written DEF m
    <3>10. CASE stmt.op = "SHL"
      BY <3>4, <3>6, <3>8, <3>9, <3>10 DEF Bytes, Modulus, n, m
    <3>11. CASE stmt.op = "SHR"
      BY <3>4, <3>6, <3>7, <3>8, <3>9, <3>11 DEF Bytes, Modulus, n, m
    <3> QED BY <2>3, <3>10, <3>11
  <2>4. ASSUME stmt.op \in {"ROL", "ROR"}, stmt.r < ty.bits, ty.bits = WordBits => stmt.r = 0,
               NEW n, n = IF stmt.op = "ROL" THEN stmt.r ELSE ty.bits - stmt.r
        PROVE  val' = Bytes(ty, val * Power[n]) + (val \div Power[ty.bits - n])
    <3> DEFINE v == ReadUint(val)
               r == stmt.r
               w == Rotated(ty, stmt.op, v, ReadUint(stmt.r).lo)
    <3>1. stmt.r \in Contents(ty)
      BY <2>1, <2>4 DEF Fields
    <3>2. r \in Nat /\ val \in Nat /\ val < m /\ val % m = val
      BY <2>1, <3>1, NumFacts
    <3>3. v \in U128 /\ Value(v) = val
      BY Operands
    <3>4. ReadUint(r) \in U128 /\ Value(ReadUint(r)) = r /\ ReadUint(r).lo = r
      <4>1. ReadUint(r) \in U128 /\ Value(ReadUint(r)) = r
        BY <3>1, Operands
      <4>2. r < Base
        BY <2>2, <2>4, <3>2
      <4> QED BY <4>1, <4>2, LowWord
    <3>5. ~Less(Pair(ty.bits), ReadUint(r))
      <4>1. ty.bits \in Nat /\ ty.bits < Limit
        BY <2>2
      <4>2. Pair(ty.bits) \in U128 /\ Value(Pair(ty.bits)) = ty.bits
        BY <4>1, PairExact
      <4>3. ~(ty.bits < r)
        BY <2>2, <2>4, <3>2
      <4> QED BY <3>4, <4>2, <4>3, LessExact
    <3>6. val' = Write(ty, w)
      <4>1. RunRotate
        BY <2>4, ItsAction
      <4> QED BY <3>5, <4>1 DEF RunRotate, Store
    <3>7. w = Rotated(ty, stmt.op, v, r)
      BY <3>4
    <3> HIDE DEF v, r, w
    <3>8. CASE r = 0
      <4>1. w = v
        BY <3>7, <3>8 DEF Rotated
      <4>2. val' = val
        BY <2>1, <3>2, <3>3, <3>6, <4>1, Written
      <4>3. Power[0] = 1 /\ val * 1 = val /\ val \div 1 = val /\ Power[ty.bits] = m
        BY <3>2, PowerFacts DEF Modulus
      <4>4. val \div m = 0 /\ (val * m) % m = 0
        <5> HIDE DEF m
        <5>1. val \in 0 .. m - 1 /\ 0 \in Int /\ 0 * m + val = val
          BY <2>2, <3>2
        <5>2. (0 * m + val) \div m = 0
          BY <2>2, <5>1, Quotients
        <5>3. val \in Int /\ 0 \in 0 .. m - 1 /\ val * m + 0 = val * m
          BY <2>2, <3>2
        <5>4. (val * m + 0) % m = 0
          BY <2>2, <5>3, Quotients
        <5> QED BY <5>1, <5>2, <5>3, <5>4
      <4>5. CASE stmt.op = "ROL"
        <5>1. n = 0 /\ ty.bits - n = ty.bits
          BY <2>2, <2>4, <3>8, <4>5 DEF r
        <5>2. Bytes(ty, val * Power[n]) = val
          BY <3>2, <4>3, <5>1 DEF Bytes, Modulus
        <5>3. val \div Power[ty.bits - n] = 0
          BY <4>3, <4>4, <5>1
        <5> QED BY <3>2, <4>2, <5>2, <5>3
      <4>6. CASE stmt.op = "ROR"
        <5>1. n = ty.bits /\ ty.bits - n = 0
          BY <2>2, <2>4, <3>8, <4>6 DEF r
        <5>2. Bytes(ty, val * Power[n]) = 0
          BY <4>3, <4>4, <5>1 DEF Bytes, Modulus
        <5>3. val \div Power[ty.bits - n] = val
          BY <4>3, <5>1
        <5> QED BY <3>2, <4>2, <5>2, <5>3
      <4> QED BY <2>4, <4>5, <4>6
    <3>9. CASE r # 0
      <4> DEFINE high == Shl(v, n)
                 low == Shr(v, ty.bits - n)
      <4>1. n \in Nat \ {0} /\ n < ty.bits
        BY <2>2, <2>4, <3>2, <3>9 DEF r
      <4>2. /\ Or128(low, high) \in U128
            /\ Value(Or128(low, high)) % m = Bytes(ty, val * Power[n]) + (val \div Power[ty.bits - n])
            /\ Or128(high, low) = Or128(low, high)
        BY <2>1, <3>3, <4>1, RotatedExact
      <4>3. w = Or128(low, high)
        <5>1. CASE stmt.op = "ROL"
          <6>1. n = r
            BY <2>4, <5>1 DEF r
          <6>2. w = Or128(Shl(v, r), Shr(v, ty.bits - r))
            BY <2>4, <3>7, <3>9, <5>1 DEF Rotated, r
          <6> QED BY <4>2, <6>1, <6>2
        <5>2. CASE stmt.op = "ROR"
          <6>1. n = ty.bits - r /\ ty.bits - n = r
            BY <2>2, <2>4, <3>2, <5>2 DEF r
          <6>2. w = Or128(Shr(v, r), Shl(v, ty.bits - r))
            BY <2>4, <3>7, <3>9, <5>2 DEF Rotated, r
          <6> QED BY <4>2, <6>1, <6>2
        <5> QED BY <2>4, <5>1, <5>2
      <4> HIDE DEF high, low
      <4> QED BY <2>1, <3>6, <4>2, <4>3, Written
    <3> QED BY <3>8, <3>9
  <2>5. Ran({"SHL", "SHR"})
        => LET n == Num(stmt.tr, stmt.r)
           IN n \in 0 .. ty.bits - 1 /\ ~(stmt.op = "SHR" /\ Left < 0 /\ n > WordBits)
              => /\ status' = "run"
                 /\ val' = Bytes(ty, IF stmt.op = "SHL" THEN Left * Power[n] ELSE Left \div Power[n])
    BY <2>3 DEF Ran
  <2>6. Ran({"ROL", "ROR"}) /\ stmt.r < ty.bits /\ (ty.bits = WordBits => stmt.r = 0)
        => LET n == IF stmt.op = "ROL" THEN stmt.r ELSE ty.bits - stmt.r
           IN val' = Bytes(ty, val * Power[n]) + (val \div Power[ty.bits - n])
    BY <2>4 DEF Ran
  <2> QED BY <2>5, <2>6
<1> QED BY <1>1, TypesHold, PTL DEF Spec, ShiftsKeepSign

=============================================================================
