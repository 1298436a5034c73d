------------------------------- MODULE Int128 -------------------------------
(***************************************************************************)
(* The compiler's 128-bit integers (src/include/int128.h): a pair of words *)
(* with carries, shifts across the words, serial multiplication and long   *)
(* division.  A word has WordBits bits, 64 in the code; every operator is  *)
(* the code's algorithm on a pair, never the arithmetic it stands for.     *)
(*                                                                         *)
(* The flags add128_o, sub128_o and mul128_o return are left out: nothing  *)
(* in int128.h uses them.                                                  *)
(***************************************************************************)
EXTENDS Integers, FiniteSetsExt

CONSTANT WordBits

ASSUME WordAssumption == WordBits \in Nat \ {0}

\* Powers of two.
Power[n \in Nat] == IF n = 0 THEN 1 ELSE 2 * Power[n - 1]

Base == Power[WordBits]

Word == 0 .. Base - 1
U128 == [lo : Word, hi : Word]

Bits == 2 * WordBits
Zero == [lo |-> 0, hi |-> 0]
One == [lo |-> 1, hi |-> 0]
Ones == [lo |-> Base - 1, hi |-> Base - 1]

\* The number a pair stands for.
Value(a) == a.hi * Base + a.lo

\* The pair of the low 2 * WordBits bits of a number (from_le_bytes).
Pair(n) == [lo |-> n % Base, hi |-> (n \div Base) % Base]

(***************************************************************************)
(* Unsigned operators.                                                     *)
(***************************************************************************)
Less(a, b) == a.hi < b.hi \/ (a.hi = b.hi /\ a.lo < b.lo)

Inverse128(a) == [lo |-> Base - 1 - a.lo, hi |-> Base - 1 - a.hi]

\* BUG VARIANT: the carry is computed from the high words.
Add_CarryFromHigh(a, b) ==
    LET lo == (a.lo + b.lo) % Base
        carry == IF a.hi + b.hi >= Base THEN 1 ELSE 0
    IN [lo |-> lo, hi |-> (a.hi + b.hi + carry) % Base]

Add(a, b) ==
    LET lo == (a.lo + b.lo) % Base
        carry == IF lo < a.lo THEN 1 ELSE 0
    IN [lo |-> lo, hi |-> (a.hi + b.hi + carry) % Base]

Sub(a, b) ==
    LET lo == (a.lo - b.lo) % Base
        borrow == IF lo > a.lo THEN 1 ELSE 0
    IN [lo |-> lo, hi |-> (a.hi - b.hi - borrow) % Base]

\* The bits of the two words that meet never overlap, so | is +.
Shl(a, n) ==
    CASE n = 0                    -> a
      [] n >= Bits                -> Zero
      [] n >= WordBits /\ n < Bits -> [lo |-> 0, hi |-> (a.lo * Power[n - WordBits]) % Base]
      [] n > 0 /\ n < WordBits    ->
            [lo |-> (a.lo * Power[n]) % Base,
             hi |-> ((a.hi * Power[n]) % Base) + (a.lo \div Power[WordBits - n])]

Shr(a, n) ==
    CASE n = 0                    -> a
      [] n >= Bits                -> Zero
      [] n >= WordBits /\ n < Bits -> [lo |-> a.hi \div Power[n - WordBits], hi |-> 0]
      [] n > 0 /\ n < WordBits    ->
            [lo |-> (a.lo \div Power[n]) + ((a.hi * Power[WordBits - n]) % Base),
             hi |-> a.hi \div Power[n]]

Bit(a, i) == (IF i < WordBits THEN a.lo \div Power[i]
                              ELSE a.hi \div Power[i - WordBits]) % 2 = 1

(***************************************************************************)
(* mul128_o: for each bit of a, from the lowest, until no set bit is left. *)
(***************************************************************************)
Mul(a, b) ==
    LET Spent(i) == LET m == Power[i % WordBits]
                    IN \/ a.hi = 0 /\ a.lo < m
                       \/ i >= WordBits /\ a.hi < m
        Step(acc, i) ==
            IF acc.done \/ Spent(i) THEN [acc EXCEPT !.done = TRUE]
            ELSE [o |-> IF Bit(a, i) THEN Add(acc.o, acc.b) ELSE acc.o,
                  b |-> Shl(acc.b, 1), done |-> FALSE]
        run[n \in 0 .. Bits] == IF n = 0 THEN [o |-> Zero, b |-> b, done |-> FALSE]
                               ELSE Step(run[n - 1], n - 1)
    IN run[Bits].o

(***************************************************************************)
(* div128_o for b # 0, which its callers make sure of: one division when   *)
(* both fit a word, otherwise b is shifted up while it is at most half of  *)
(* a, and subtracted on its way back.                                      *)
(***************************************************************************)
\* BUG VARIANT: one shift too few.
ShiftsUp_OneFewer(a, b) ==
    LET n == Min({s \in 0 .. Bits : s = Bits \/ Less(Shr(a, 1), Shl(b, s))})
    IN IF n = 0 THEN 0 ELSE n - 1

ShiftsUp(a, b) == Min({s \in 0 .. Bits : s = Bits \/ Less(Shr(a, 1), Shl(b, s))})

DivMod(a, b) ==
    LET shift == ShiftsUp(a, b)
        Step(acc) ==
            LET fits == ~Less(acc.r, acc.b)
            IN [q |-> IF fits THEN Add(acc.q, acc.mask) ELSE acc.q,
                r |-> IF fits THEN Sub(acc.r, acc.b) ELSE acc.r,
                mask |-> Shr(acc.mask, 1), b |-> Shr(acc.b, 1)]
        run[n \in 0 .. shift + 1] ==
            IF n = 0 THEN [q |-> Zero, r |-> a, mask |-> Shl(One, shift), b |-> Shl(b, shift)]
            ELSE Step(run[n - 1])
    IN IF a.hi = 0 /\ b.hi = 0 THEN [q |-> Pair(a.lo \div b.lo), r |-> Pair(a.lo % b.lo)]
       ELSE IF Less(a, b) THEN [q |-> Zero, r |-> a]
       ELSE [q |-> run[shift + 1].q, r |-> run[shift + 1].r]

(***************************************************************************)
(* Signed operators (S128): two's complement in the same pair.             *)
(***************************************************************************)
IsNeg(a) == Bit(a, Bits - 1)

Neg(a) == Add(Inverse128(a), One)

\* u_abs returns the pair (0, all ones), which is -2^64, unchanged.
Abs(a) == IF a = [lo |-> 0, hi |-> Base - 1] THEN a
          ELSE IF IsNeg(a) THEN Neg(a) ELSE a

SignedAs(a, b, u) == IF IsNeg(a) # IsNeg(b) THEN Neg(u) ELSE u

SMul(a, b) == SignedAs(a, b, Mul(Abs(a), Abs(b)))
SDiv(a, b) == SignedAs(a, b, DivMod(Abs(a), Abs(b)).q)
SMod(a, b) == SignedAs(a, b, DivMod(Abs(a), Abs(b)).r)

\* The high word is compared as a signed word (cmp128s).
SLess(a, b) ==
    LET Hi(x) == IF x.hi >= Base \div 2 THEN x.hi - Base ELSE x.hi
    IN Hi(a) < Hi(b) \/ (Hi(a) = Hi(b) /\ a.lo < b.lo)

\* For counts of a word and more the low word is shifted without its sign.
SShr(a, n) ==
    LET sign == IF IsNeg(a) THEN Base - 1 ELSE 0
    IN CASE n = 0                    -> a
         [] n >= Bits                -> [lo |-> sign, hi |-> sign]
         [] n >= WordBits /\ n < Bits -> [lo |-> a.hi \div Power[n - WordBits], hi |-> sign]
         [] n > 0 /\ n < WordBits    ->
               [Shr(a, n) EXCEPT !.hi = @ + (IF IsNeg(a) THEN Base - Power[WordBits - n] ELSE 0)]

=============================================================================
