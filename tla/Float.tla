------------------------------- MODULE Float -------------------------------
(***************************************************************************)
(* Floating point: float/FLOAT.AS with the conversions of LTOF.AS, FTOL.AS,*)
(* FREXP.AS and FRNDINT.AS, the comparison of gen/FRELOP.AS, and FLOOR.C   *)
(* and CEIL.C.  A number is a sign and an exponent, which share a byte, and*)
(* a mantissa of three bytes with its top bit set unless it is 0; its value*)
(* is man * 2^(exp - BIAS - MAN).                                          *)
(***************************************************************************)
EXTENDS Arith

CONSTANT EXP  \* bits of an exponent; the code's 7

ASSUME ExpAssumption == EXP \in Nat \ {0} /\ 2 ^ (EXP - 1) > 2 * WORD /\ WORD >= 8

MAN == 3 * BYTE
BIAS == 2 ^ (EXP - 1)
Top == 2 ^ (MAN - 1)

Zero == [neg |-> FALSE, exp |-> 0, man |-> 0]
Toggled(x) == [x EXCEPT !.neg = ~x.neg]

(* The byte of sign and exponent: an exponent too large runs into the sign. *)
WithByte(neg, e, man) == [neg |-> neg \/ e >= 2 ^ EXP, exp |-> e % 2 ^ EXP, man |-> man]

(* Shifting until a condition holds, counting; the last bit shifted out. *)
ShiftUp(s) == IF s.man >= Top THEN s ELSE [man |-> 2 * s.man, k |-> s.k + 1]
ShiftDown(s) == IF s.man < 2 ^ MAN THEN s
                ELSE [man |-> s.man \div 2, k |-> s.k + 1, out |-> s.man % 2 = 1]
Reduced(p) == Iterate(ShiftDown, MAN, [man |-> p, k |-> 0, out |-> FALSE])

Norm(x) ==
  LET s == Iterate(ShiftUp, MAN, [man |-> x.man, k |-> 0])
  IN IF x.man = 0 \/ x.exp < s.k THEN Zero ELSE [x EXCEPT !.man = s.man, !.exp = x.exp - s.k]

RoundInPlace(x) == [x EXCEPT !.man = (x.man + 1) % 2 ^ MAN]
Round(x) == IF x.man + 1 < 2 ^ MAN THEN [x EXCEPT !.man = x.man + 1]
            ELSE WithByte(x.neg, x.exp + 1, Top)

-----------------------------------------------------------------------------
(* Sum and difference.  The bits of the smaller operand that fall off are   *)
(* lost; the sum is halved, and rounded up, away from 0, by the bit lost.   *)

Signed(x, man) == IF x.neg THEN -man ELSE man
SumOf(small, large) ==
  LET s    == Signed(large, large.man)
                + Signed(small, Shlr(small.man, large.exp - small.exp, MAN))
      half == s \div 2
      byte == WithByte(half < 0, large.exp + 1, 0)
      sum  == [byte EXCEPT !.man = (IF byte.neg THEN -half ELSE half) % 2 ^ MAN]
  IN Norm(IF s % 2 = 1 THEN Round(sum) ELSE sum)
FlAdd(x, y) ==
  IF x.man = 0 THEN y ELSE IF y.man = 0 THEN x
  ELSE LET small == IF y.exp >= x.exp THEN x ELSE y
           large == IF y.exp >= x.exp THEN y ELSE x
       IN IF large.exp - small.exp >= MAN THEN large ELSE SumOf(small, large)
FlSub(x, y) == FlAdd(x, Toggled(y))

-----------------------------------------------------------------------------
(* Product: the multiplicand goes up BYTE - 2 bits with the first bits of   *)
(* the multiplier, then the product down with the others.  Only a negative  *)
(* product is rounded.                                                      *)

Bit(v, j) == (v \div 2 ^ j) % 2
Product(x, y) ==
  LET shifted == x * 2 ^ (BYTE - 2)
      first   == (y % 2 ^ (BYTE - 2)) * x + Bit(y, BYTE - 2) * shifted
      p[j \in (BYTE - 2)..(MAN - 1)] ==
        IF j = BYTE - 2 THEN first ELSE p[j - 1] \div 2 + Bit(y, j) * shifted
  IN p[MAN - 1]
FlMul(x, y) ==
  LET s == Reduced(Product(x.man, y.man))
      e == (x.exp - (BIAS + 1) + s.k - (BYTE - 2) + y.exp) % 2 ^ (EXP + 1)
      p == [neg |-> x.neg # y.neg, exp |-> e, man |-> s.man]
  IN IF s.man < Top \/ e >= 2 ^ EXP THEN Zero
     ELSE IF p.neg /\ s.out THEN Round(p) ELSE p

(* Quotient, by subtracting and shifting; the exponent is not checked. *)
QuotientBit(s) == IF s.n >= s.d THEN [s EXCEPT !.n = 2 * (s.n - s.d), !.q = 2 * s.q + 1]
                  ELSE [s EXCEPT !.n = 2 * s.n, !.q = 2 * s.q]
FlDiv(x, y) ==
  LET q == Iterate(QuotientBit, MAN + BYTE - 2, [n |-> x.man, d |-> y.man, q |-> 0]).q
      s == Reduced(q)
      a == (x.exp - y.exp + BIAS + 1 - (BYTE - 2) + s.k) % 2 ^ (EXP + 1)
      r == WithByte(x.neg # y.neg, a, s.man)
  IN Norm(IF s.out THEN Round(r) ELSE r)

-----------------------------------------------------------------------------
(* Comparison: of the sign, or of the magnitudes as one number. *)
Magnified(x) == x.exp * 2 ^ MAN + x.man
FRelop(x, y) ==
  IF x.neg # y.neg THEN [s |-> x.neg, z |-> FALSE]
  ELSE [s |-> Magnified(x) # Magnified(y) /\ (x.neg # (Magnified(x) < Magnified(y))),
        z |-> Magnified(x) = Magnified(y)]
FLess(x, y) == FRelop(x, y).s

(* Integers.  A long of more bits than a mantissa loses its low byte. *)
LIToF(w) == Norm([neg |-> FALSE, exp |-> BIAS + MAN, man |-> w])
LLToF(l) == IF l < 2 ^ MAN THEN Norm([neg |-> FALSE, exp |-> BIAS + MAN, man |-> l])
            ELSE Norm([neg |-> FALSE, exp |-> BIAS + MAN + BYTE, man |-> l \div 2 ^ BYTE])
AIToF(w) == [LIToF(NegIf(w, WORD)) EXCEPT !.neg = Sign(w, WORD)]
ALToF(l) == [LLToF(NegIf(l, LONG)) EXCEPT !.neg = Sign(l, LONG)]

(* To the nearest integer, the half ones up. *)
FToL(x) ==
  LET v == Signed(x, x.man) % 2 ^ LONG
      n == x.exp - (BIAS + MAN)
  IN IF n >= 0 THEN Shll(v, n, LONG) ELSE Half((Shar(v, -n - 1, LONG) + 1) % 2 ^ LONG, LONG)
FRndInt(x) == ALToF(FToL(x))

FrExp(x) == [fraction |-> [x EXCEPT !.exp = BIAS], expon |-> x.exp - BIAS]
LdExp(x, n) == [x EXCEPT !.exp = (x.exp + n) % 2 ^ EXP]

(* What is known to be an integer already; the code's 32 - 4 bits. *)
Whole(x) == x.exp - BIAS > LONG - BYTE \div 2
One == LIToF(1)
Floor(x) ==
  LET i == FRndInt(x) IN
  IF x.exp < BIAS THEN Zero ELSE IF Whole(x) THEN x
  ELSE IF FLess(x, i) THEN FlSub(i, One) ELSE i
Ceil(x) ==
  LET i == FRndInt(x) IN
  IF x.exp < BIAS THEN Zero ELSE IF Whole(x) THEN x
  ELSE IF FLess(i, x) THEN FlAdd(i, One) ELSE i
=============================================================================
