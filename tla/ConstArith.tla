----------------------------- MODULE ConstArith -----------------------------
(***************************************************************************)
(* Integer arithmetic of the constant evaluator                            *)
(* (src/hir_conv/constant_evaluation.cpp): the statements and intrinsics   *)
(* that compute on one integer local while the compiler evaluates a        *)
(* constant.  The local is the bytes in memory, read into a 128-bit pair,  *)
(* computed with as the code does, and truncated when they are written.    *)
(*                                                                         *)
(* Bytes are the number they encode, 0 .. 2^bits - 1, so that the target's *)
(* byte order does not matter.  Floats, pointers, bool and char are left   *)
(* out, and so are ctpop, cttz, ctlz and bswap.                            *)
(***************************************************************************)
EXTENDS Int128

\* The integer types: [signed : BOOLEAN, bits : Nat].
CONSTANT Types

\* i8 to i64 and u8 to u64 fit a word, i128 and u128 fill both.
ASSUME TypesAssumption ==
    \A t \in Types : t.signed \in BOOLEAN /\ t.bits \in (2 .. WordBits) \cup {Bits}

VARIABLES
    ty,      \* the type of the local
    val,     \* its bytes
    flag,    \* the bool that comparisons and *_with_overflow write
    stmt,    \* the statement to run, or NoStmt
    status   \* "run", or "aborted" after MIR_BUG, MIR_TODO or MIR_ASSERT

vars == <<ty, val, flag, stmt, status>>

NoStmt == [op |-> "none"]
Contents(t) == 0 .. Power[t.bits] - 1

(***************************************************************************)
(* Memory.                                                                 *)
(***************************************************************************)
\* The word with the bits that are in S.
WordOf(S) ==
    LET sum[n \in 0 .. WordBits] ==
            IF n = 0 THEN 0 ELSE sum[n - 1] + (IF n - 1 \in S THEN Power[n - 1] ELSE 0)
    IN sum[WordBits]

\* The bits of a word.
BitsOf(x) == {i \in 0 .. WordBits - 1 : (x \div Power[i]) % 2 = 1}

Or(x, y) == WordOf(BitsOf(x) \cup BitsOf(y))
And(x, y) == WordOf(BitsOf(x) \cap BitsOf(y))
Xor(x, y) == WordOf((BitsOf(x) \cup BitsOf(y)) \ (BitsOf(x) \cap BitsOf(y)))

And128(a, b) == [lo |-> And(a.lo, b.lo), hi |-> And(a.hi, b.hi)]
Or128(a, b) == [lo |-> Or(a.lo, b.lo), hi |-> Or(a.hi, b.hi)]
Xor128(a, b) == [lo |-> Xor(a.lo, b.lo), hi |-> Xor(a.hi, b.hi)]

ReadUint(n) == Pair(n)

\* BUG VARIANT: the value is not extended.
SignExtended_Not(bits, v) == v

SignExtended(bits, v) ==
    IF bits < Bits /\ Bit(v, bits - 1) THEN Or128(v, Shl(Ones, bits)) ELSE v

Read(t, n) == IF t.signed THEN SignExtended(t.bits, Pair(n)) ELSE ReadUint(n)

Write(t, v) == Value(v) % Power[t.bits]

(***************************************************************************)
(* TypeInfo::mask, for U128 and for S128 (which masks the absolute value). *)
(***************************************************************************)
Mask(t, v) == CASE t.bits < WordBits -> Pair(v.lo % Power[t.bits])
                [] t.bits = WordBits -> Pair(v.lo)
                [] t.bits = Bits     -> v

MaskS(t, v) == IF SLess(v, Zero) THEN Neg(Mask(t, Neg(v))) ELSE Mask(t, v)

(***************************************************************************)
(* do_arith_checked, one operator per operation: the value to write and    *)
(* did_overflow.  "saturated" is the value written instead on overflow.    *)
(***************************************************************************)
UAdd(t, l, r) ==
    LET res == Mask(t, Add(l, r))
    IN [res |-> res, over |-> Less(res, l), saturated |-> Mask(t, Ones)]

\* BUG VARIANT: the comparison of the addition is used.
USub_ComparesAsAdd(t, l, r) ==
    LET res == Mask(t, Sub(l, r))
    IN [res |-> res, over |-> Less(res, l), saturated |-> Zero]

USub(t, l, r) ==
    LET res == Mask(t, Sub(l, r))
    IN [res |-> res, over |-> Less(l, res), saturated |-> Zero]

UMul(t, l, r) ==
    LET res == Mask(t, Mul(l, r))
    IN [res |-> res, saturated |-> Mask(t, Ones),
        over |-> l # Zero /\ r # Zero /\ (Less(res, l) \/ Less(res, r))]

\* The saturated values are made from U128(0) << (bits - 1), which is 0.
IAdd(t, l, r) ==
    LET la == IF SLess(l, Zero) THEN Neg(l) ELSE l
        ra == IF SLess(r, Zero) THEN Neg(r) ELSE r
        sign == CASE IsNeg(l) = IsNeg(r) -> IsNeg(l)
                  [] IsNeg(r) /\ ~IsNeg(l) -> Less(la, ra)
                  [] IsNeg(l) /\ ~IsNeg(r) -> Less(ra, la)
        res == Add(l, r)
    IN [res |-> res, over |-> SLess(res, Zero) # sign,
        saturated |-> IF sign THEN Zero ELSE Ones]

ISub(t, l, r) ==
    LET res == Sub(l, r)
    IN [res |-> MaskS(t, res), over |-> res # MaskS(t, res), saturated |-> NoStmt]

IMul(t, l, r) ==
    LET res == SMul(l, r)
    IN [res |-> MaskS(t, res), saturated |-> NoStmt,
        over |-> l # Zero /\ r # Zero /\ (Less(Abs(res), Abs(l)) \/ Less(Abs(res), Abs(r)))]

Arith(t, op, l, r) ==
    CASE op = "ADD" -> IF t.signed THEN IAdd(t, l, r) ELSE UAdd(t, l, r)
      [] op = "SUB" -> IF t.signed THEN ISub(t, l, r) ELSE USub(t, l, r)
      [] op = "MUL" -> IF t.signed THEN IMul(t, l, r) ELSE UMul(t, l, r)

Quotient(t, op, l, r) ==
    IF t.signed THEN MaskS(t, IF op = "DIV" THEN SDiv(l, r) ELSE SMod(l, r))
    ELSE Mask(t, IF op = "DIV" THEN DivMod(l, r).q ELSE DivMod(l, r).r)

\* The amount is the low word of the right operand, whatever its type.
ShiftOver(t, s) == Read(s.tr, s.r).lo > t.bits
ShiftAmount(t, s) == IF ShiftOver(t, s) THEN 0 ELSE Read(s.tr, s.r).lo

\* BUG VARIANT: a signed value is shifted right without its sign.
Shifted_Logical(t, op, l, amt) ==
    IF t.signed THEN MaskS(t, IF op = "SHL" THEN Shl(l, amt) ELSE Shr(l, amt))
    ELSE Mask(t, IF op = "SHL" THEN Shl(l, amt) ELSE Shr(l, amt))

Shifted(t, op, l, amt) ==
    IF t.signed THEN MaskS(t, IF op = "SHL" THEN Shl(l, amt) ELSE SShr(l, amt))
    ELSE Mask(t, IF op = "SHL" THEN Shl(l, amt) ELSE Shr(l, amt))

Compare(t, op, l, r) ==
    LET lt(a, b) == IF t.signed THEN SLess(a, b) ELSE Less(a, b)
    IN CASE op = "EQ" -> l = r
         [] op = "NE" -> l # r
         [] op = "GT" -> lt(r, l)
         [] op = "GE" -> ~lt(l, r)
         [] op = "LT" -> lt(l, r)
         [] op = "LE" -> ~lt(r, l)

\* A 64-bit value is never rotated: the test is for the type's width.
Rotated(t, op, v, n) ==
    IF n = 0 \/ t.bits = WordBits THEN v
    ELSE IF op = "ROL" THEN Or128(Shl(v, n), Shr(v, t.bits - n))
    ELSE Or128(Shr(v, n), Shl(v, t.bits - n))

(***************************************************************************)
(* The evaluator.  The program chooses statements; operands are any        *)
(* contents of the right-hand local.                                       *)
(***************************************************************************)
Init ==
    /\ ty \in Types
    /\ val \in Contents(ty)
    /\ flag = FALSE
    /\ stmt = NoStmt
    /\ status = "run"

Statements(t) ==
    [op : {"ADD", "SUB", "MUL"}, how : {"plain", "overflow"}, r : Contents(t)]
    \cup [op : {"ADD", "SUB"}, how : {"saturating"}, r : Contents(t)]
    \cup [op : {"DIV", "MOD", "OR", "AND", "XOR", "EQ", "NE", "GT", "GE", "LT", "LE", "ROL", "ROR"},
          r : Contents(t)]
    \cup (UNION {[op : {"SHL", "SHR"}, how : {"plain", "unchecked"}, r : Contents(tr), tr : {tr}]
                 : tr \in Types})
    \cup [op : {"NEG", "INV"}]
    \cup [op : {"CAST"}, to : Types]

Fetch ==
    /\ status = "run" /\ stmt = NoStmt
    /\ stmt' \in Statements(ty)
    /\ flag' = FALSE
    /\ UNCHANGED <<ty, val, status>>

Running(ops) == status = "run" /\ stmt.op \in ops

Abort == status' = "aborted" /\ stmt' = NoStmt /\ UNCHANGED <<ty, val, flag>>

Store(t, v) ==
    /\ ty' = t /\ val' = Write(t, v)
    /\ stmt' = NoStmt
    /\ UNCHANGED status

L == Read(ty, val)
R == Read(ty, stmt.r)

RunArith ==
    /\ Running({"ADD", "SUB", "MUL"})
    /\ LET a == Arith(ty, stmt.op, L, R)
       IN IF stmt.how = "saturating" /\ a.over
          THEN IF a.saturated = NoStmt THEN Abort
               ELSE Store(ty, a.saturated) /\ UNCHANGED flag
          ELSE /\ Store(ty, a.res)
               /\ flag' = (stmt.how = "overflow" /\ a.over)

\* Division by zero writes zero before it stops the compiler.
RunDiv ==
    /\ Running({"DIV", "MOD"})
    /\ IF R = Zero
       THEN status' = "aborted" /\ val' = 0 /\ stmt' = NoStmt /\ UNCHANGED <<ty, flag>>
       ELSE Store(ty, Quotient(ty, stmt.op, L, R)) /\ UNCHANGED flag

\* A shift out of range is an error in a BinOp, and a shift by zero in the
\* unchecked_ intrinsics.
RunShift ==
    /\ Running({"SHL", "SHR"})
    /\ LET v == Shifted(ty, stmt.op, L, ShiftAmount(ty, stmt))
       IN /\ ty' = ty /\ val' = Write(ty, v) /\ stmt' = NoStmt /\ flag' = flag
          /\ status' = IF stmt.how = "plain" /\ ShiftOver(ty, stmt) THEN "aborted" ELSE "run"

RunBits ==
    /\ Running({"OR", "AND", "XOR"})
    /\ Store(ty, CASE stmt.op = "OR"  -> Or128(L, R)
                   [] stmt.op = "AND" -> And128(L, R)
                   [] stmt.op = "XOR" -> Xor128(L, R))
    /\ UNCHANGED flag

RunCompare ==
    /\ Running({"EQ", "NE", "GT", "GE", "LT", "LE"})
    /\ flag' = Compare(ty, stmt.op, L, R)
    /\ stmt' = NoStmt
    /\ UNCHANGED <<ty, val, status>>

RunUnary ==
    /\ Running({"NEG", "INV"})
    /\ LET v == ReadUint(val)
       IN Store(ty, IF stmt.op = "INV" THEN Mask(ty, Inverse128(v)) ELSE Neg(v))
    /\ UNCHANGED flag

RunCast ==
    /\ Running({"CAST"})
    /\ Store(stmt.to, L)
    /\ UNCHANGED flag

RunRotate ==
    /\ Running({"ROL", "ROR"})
    /\ IF Less(Pair(ty.bits), ReadUint(stmt.r)) THEN Abort
       ELSE Store(ty, Rotated(ty, stmt.op, ReadUint(val), ReadUint(stmt.r).lo)) /\ UNCHANGED flag

Next == \/ Fetch \/ RunArith \/ RunDiv \/ RunShift \/ RunBits
        \/ RunCompare \/ RunUnary \/ RunCast \/ RunRotate

Spec == Init /\ [][Next]_vars

(***************************************************************************)
(* What Rust promises: integers, and the bytes that encode them.           *)
(***************************************************************************)
Num(t, n) == IF t.signed /\ n >= Power[t.bits - 1] THEN n - Power[t.bits] ELSE n
Bytes(t, i) == i % Power[t.bits]
Fits(t, i) == Num(t, Bytes(t, i)) = i
Clamped(t, i) == LET least == IF t.signed THEN 0 - Power[t.bits - 1] ELSE 0
                     most == IF t.signed THEN Power[t.bits - 1] - 1 ELSE Power[t.bits] - 1
                 IN IF i < least THEN least ELSE IF i > most THEN most ELSE i

Left == Num(ty, val)
Right == Num(ty, stmt.r)
Exact == CASE stmt.op = "ADD" -> Left + Right
           [] stmt.op = "SUB" -> Left - Right
           [] stmt.op = "MUL" -> Left * Right
           [] stmt.op = "NEG" -> 0 - Left

AbsInt(i) == IF i < 0 THEN 0 - i ELSE i
Signum(i) == IF i < 0 THEN 0 - 1 ELSE 1

\* The step runs one of these statements.
Ran(ops) == stmt.op \in ops /\ stmt' = NoStmt

\* S128::u_abs returns this i128 (-2^64) as a positive number.
MinusBase(i) == ty.bits = Bits /\ ty.signed /\ i = 0 - Base

\* Plain, wrapping and *_with_overflow arithmetic gives the exact result
\* modulo 2^bits for every type, although it is computed on two words and
\* signed products by way of absolute values; products of -2^64 excepted.
WrapsAround ==
    [][Ran({"ADD", "SUB", "MUL", "NEG"})
       /\ (stmt.op = "NEG" \/ stmt.how # "saturating")
       /\ (stmt.op = "MUL" => ~MinusBase(Left) /\ ~MinusBase(Right))
       => val' = Bytes(ty, Exact)]_vars

\* add_with_overflow and sub_with_overflow report, and saturating_add and
\* saturating_sub clamp, exactly the results that do not fit an unsigned type.
OverflowNoticed ==
    [][/\ Ran({"ADD", "SUB"}) /\ ~ty.signed /\ stmt.how = "overflow"
            => flag' = ~Fits(ty, Exact)
       /\ Ran({"ADD", "SUB"}) /\ ~ty.signed /\ stmt.how = "saturating"
            => val' = Clamped(ty, Exact)]_vars

\* A division stops the compiler exactly when the divisor is zero; otherwise
\* the quotient is truncated towards zero and the remainder of an unsigned
\* division is what is left of it.  The least integer divided by -1 wraps.
DivisionExact ==
    [][/\ Ran({"DIV", "MOD"}) => (status' = "aborted" <=> Right = 0)
       /\ Ran({"DIV"}) /\ Right # 0 /\ ~MinusBase(Left) /\ ~MinusBase(Right)
            => val' = Bytes(ty, Signum(Left) * Signum(Right) * (AbsInt(Left) \div AbsInt(Right)))
       /\ Ran({"MOD"}) /\ Right # 0 /\ ~ty.signed
            => val' = Left - Right * (Left \div Right)]_vars

\* Shifts by less than the width move the value, with its sign to the right,
\* and never stop the compiler, except those of a negative i128 to the right by
\* more than a word.  A rotation by less than the width moves the bits that a
\* shift would lose to the other end, and for a type as wide as a word only a
\* rotation by nothing does.
ShiftsKeepSign ==
    [][/\ Ran({"SHL", "SHR"})
          => LET n == Num(stmt.tr, stmt.r)
             IN n \in 0 .. ty.bits - 1 /\ ~(stmt.op = "SHR" /\ Left < 0 /\ n > WordBits)
                => /\ status' = "run"
                   /\ val' = Bytes(ty, IF stmt.op = "SHL" THEN Left * Power[n] ELSE Left \div Power[n])
       /\ Ran({"ROL", "ROR"}) /\ stmt.r < ty.bits /\ (ty.bits = WordBits => stmt.r = 0)
          => LET n == IF stmt.op = "ROL" THEN stmt.r ELSE ty.bits - stmt.r
             IN val' = Bytes(ty, val * Power[n]) + (val \div Power[ty.bits - n])]_vars

\* Comparisons order values as integers, and a cast keeps an integer that
\* fits the new type, between words of all widths and both signs.
ValuesKept ==
    [][/\ Ran({"LT", "GE"}) => flag' = ((Left < Right) = (stmt.op = "LT"))
       /\ Ran({"GT", "LE"}) => flag' = ((Left > Right) = (stmt.op = "GT"))
       /\ Ran({"CAST"}) /\ Fits(stmt.to, Left) => Num(ty', val') = Left]_vars

\* The remainder of a signed division has the sign of the dividend, as the
\* C code generated for the same expression computes it.
RemainderSign ==
    [][Ran({"MOD"}) /\ Right # 0 /\ ty.signed /\ ~MinusBase(Left) /\ ~MinusBase(Right)
       => val' = Bytes(ty, Signum(Left) * (AbsInt(Left) % AbsInt(Right)))]_vars

=============================================================================
