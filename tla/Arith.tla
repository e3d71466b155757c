------------------------------- MODULE Arith -------------------------------
(***************************************************************************)
(* The integer routines the compiler calls: division of longs (gen/LDIV.AS)*)
(* and of words (gen/IDIV.AS), multiplication (gen/LMUL.AS, gen/IMUL.AS),  *)
(* shifts, comparisons, and bit fields (gen/BITFIELD.AS).  A register of n *)
(* bits is a number below 2^n.                                             *)
(***************************************************************************)
EXTENDS Loops, Sequences

CONSTANT WORD  \* bits of a word; the code's 16

ASSUME WordAssumption == WORD \in 2..512 /\ WORD % 2 = 0

LONG == 2 * WORD
BYTE == WORD \div 2

Sign(x, n) == x >= 2 ^ (n - 1)
Negat(x, n) == (2 ^ n - x) % 2 ^ n
NegIf(x, n) == IF Sign(x, n) THEN Negat(x, n) ELSE x
Doubled(x, n) == (2 * x) % 2 ^ n

-----------------------------------------------------------------------------
(* Division: the divisor is shifted up while the dividend holds it, then    *)
(* subtracted wherever it goes on its way back.                             *)

Subtract(s) ==
  IF s.n >= s.d THEN [n |-> s.n - s.d, d |-> s.d \div 2, quo |-> 2 * s.quo + 1]
                ELSE [n |-> s.n, d |-> s.d \div 2, quo |-> 2 * s.quo]
Subtracted(n, d, count) == Iterate(Subtract, count, [n |-> n, d |-> d, quo |-> 0])

(* Long: up to the first divisor the dividend is less than, or the largest. *)
AlignLong(s) == IF Sign(s.d, LONG) \/ s.n < s.d THEN s
                ELSE [s EXCEPT !.d = 2 * s.d, !.count = s.count + 1]
DivideLong(n, d) ==
  IF d = 0 THEN [n |-> n, d |-> 0, quo |-> 0]
  ELSE LET s == Iterate(AlignLong, LONG, [n |-> n, d |-> d, count |-> 1])
       IN Subtracted(s.n, s.d, s.count)

(* Word: up to the last divisor the dividend is not less than. *)
AlignWord(s) == IF Sign(s.d, WORD) \/ s.n < 2 * s.d THEN s
                ELSE [s EXCEPT !.d = 2 * s.d, !.count = s.count + 1]
DivideWord(n, d) ==
  IF d = 0 THEN [n |-> n, d |-> 0, quo |-> 0]
  ELSE LET s == Iterate(AlignWord, WORD, [n |-> n, d |-> d, count |-> 1])
       IN Subtracted(s.n, s.d, s.count)

(* The sign of the quotient is that of both operands together, the sign of  *)
(* the remainder that of the dividend.                                      *)
LLDiv(n, d) == LET s == DivideLong(n, d) IN <<s.quo, s.n>>
ALDiv(n, d) ==
  LET s == DivideLong(NegIf(n, LONG), NegIf(d, LONG)) IN
  <<IF Sign(n, LONG) # Sign(d, LONG) THEN Negat(s.quo, LONG) ELSE s.quo,
    IF Sign(n, LONG) THEN Negat(s.n, LONG) ELSE s.n>>

LDiv(n, d) == LET s == DivideWord(n, d) IN <<s.quo, s.n>>
NegatesWithDivisor(n, d) == Sign(d, WORD)
NegatesQuotient(n, d) == Sign(n, WORD) # Sign(d, WORD)
ADiv(n, d) ==
  LET s == DivideWord(NegIf(n, WORD), NegIf(d, WORD)) IN
  IF d = 0 THEN <<0, s.n>>
  ELSE <<IF NegatesQuotient(n, d) THEN Negat(s.quo, WORD) ELSE s.quo,
         IF Sign(n, WORD) THEN Negat(s.n, WORD) ELSE s.n>>

-----------------------------------------------------------------------------
(* Multiplication, modulo the width of the result. *)

AddBit(s) == [a |-> s.a \div 2, de |-> Doubled(s.de, LONG),
              hl |-> (s.hl + (s.a % 2) * s.de) % 2 ^ LONG]
LMul(x, y) == Iterate(AddBit, LONG, [a |-> y, de |-> x, hl |-> 0]).hl

(* A byte of the multiplier at a time.  The loop stops at the last bit that *)
(* is set, with its count in b; the multiplicand is shifted by what is left *)
(* of it before the next byte, which counts from 0, that is 256.            *)
StepByte(s) ==
  IF s.stop THEN s
  ELSE LET b == (s.b - 1) % 256 IN
       [a |-> s.a \div 2, de |-> Doubled(s.de, WORD), hl |-> (s.hl + (s.a % 2) * s.de) % 2 ^ WORD,
        b |-> IF s.a \div 2 = 0 THEN s.b ELSE b, stop |-> s.a \div 2 = 0 \/ b = 0]
Mult8b(s) == Iterate(StepByte, BYTE, [s EXCEPT !.stop = FALSE])
LMulWord(x, y) ==
  LET low  == Mult8b([a |-> y % 2 ^ BYTE, de |-> x, hl |-> 0, b |-> BYTE, stop |-> FALSE])
      next == Iterate(LAMBDA m : Doubled(m, WORD), (low.b - 1) % 256, low.de)
  IN Mult8b([low EXCEPT !.a = y \div 2 ^ BYTE, !.de = next, !.b = 0]).hl

-----------------------------------------------------------------------------
(* Shifts by any count: those past the width shift by the width. *)

Limited(count, n) == IF count > n THEN n ELSE count
Half(x, n) == x \div 2 + (IF Sign(x, n) THEN 2 ^ (n - 1) ELSE 0)
Shar(x, count, n) == Iterate(LAMBDA v : Half(v, n), Limited(count, n), x)
Shlr(x, count, n) == Iterate(LAMBDA v : v \div 2, Limited(count, n), x)
Shll(x, count, n) == Iterate(LAMBDA v : Doubled(v, n), Limited(count, n), x)

-----------------------------------------------------------------------------
(* Comparisons leave the flags of a subtraction: sign, zero, carry. *)

Flags(s, z, c) == [s |-> s, z |-> z, c |-> c]
Difference(x, y, n) == (x - y) % 2 ^ n
SubFlags(x, y, n) == Flags(Sign(Difference(x, y, n), n), x = y, x < y)
Relop(x, y, n) == IF Sign(x, n) # Sign(y, n) THEN Flags(Sign(x, n), FALSE, x < y)
                  ELSE SubFlags(x, y, n)
WRelop(x, y) == Relop(x, y, WORD)
BRelop(x, y) == Relop(x, y, BYTE)
Hi(v) == v \div 2 ^ WORD
Lo(v) == v % 2 ^ WORD
LRelop(x, y) ==
  IF Sign(x, LONG) # Sign(y, LONG) THEN Flags(Sign(x, LONG), FALSE, Sign(y, LONG))
  ELSE IF Hi(x) # Hi(y) THEN SubFlags(Hi(x), Hi(y), WORD)
  ELSE Flags(Lo(x) < Lo(y), Lo(x) = Lo(y), Lo(x) < Lo(y))

-----------------------------------------------------------------------------
(* Bit fields.  A word is the set of its bits.  The mask is a 1 shifted up,  *)
(* less 1; a width of 0 shifts it 256 times, out of the word, and masks      *)
(* nothing.                                                                  *)

BitsOf(x) == {k \in 0..(WORD - 1) : (x \div 2 ^ k) % 2 = 1}
WithBits(bits) == CHOOSE x \in 0..(2 ^ WORD - 1) : BitsOf(x) = bits
And(x, y) == WithBits(BitsOf(x) \cap BitsOf(y))
Or(x, y) == WithBits(BitsOf(x) \cup BitsOf(y))

Mask(w) == ((IF w = 0 THEN 0 ELSE 2 ^ w) - 1) % 2 ^ WORD
BfExt(v, off, w) == And(Shlr(v, off, WORD), Mask(w))
BfIns(v, mem, off, w) ==
  LET mask == Shll(Mask(w), off, WORD)
  IN Or(And(mem, 2 ^ WORD - 1 - mask), Shll(And(v, Mask(w)), off, WORD))

-----------------------------------------------------------------------------
(* Numbers in characters: a digit is its value, letters of base 16 included.*)

BLANK == -1
MINUS == -2
PLUS == -3

(* What is left of a number after so many divisions, and its digits: as     *)
(* many as it needs, f at least.                                            *)
Quotients(v, base, n) == LET left[k \in 0..n] == IF k = 0 THEN v ELSE left[k - 1] \div base IN left
Numeral(v, f, base) ==
  LET left == Quotients(v, base, LONG + f)
      need == CHOOSE n \in 0..LONG : left[n] = 0 /\ \A k \in 0..(n - 1) : left[k] # 0
      ndig == IF need = 0 /\ f = 0 THEN 1 ELSE IF need < f THEN f ELSE need
  IN [k \in 1..ndig |-> left[ndig - k] % base]

(* On the right of at least w characters. *)
pnum(i, f, w, s, base) ==
  LET minus  == s /\ Sign(i, LONG)
      number == (IF minus THEN <<MINUS>> ELSE <<>>) \o Numeral(IF minus THEN Negat(i, LONG) ELSE i, f, base)
      pad    == IF w > Len(number) THEN w - Len(number) ELSE 0
  IN [k \in 1..pad |-> BLANK] \o number

(* The digits from a place on, as a number of n bits. *)
Digits(t, from, base, n) ==
  LET v[k \in 0..(Len(t) + 1 - from)] ==
        IF k = 0 THEN [a |-> 0, on |-> TRUE]
        ELSE LET c == t[from + (k - 1)] IN
             IF v[k - 1].on /\ c \in 0..(base - 1) THEN [a |-> (v[k - 1].a * base + c) % 2 ^ n, on |-> TRUE]
             ELSE [v[k - 1] EXCEPT !.on = FALSE]
  IN v[Len(t) + 1 - from].a
Blanks(t) == CHOOSE k \in 0..Len(t) :
  (\A j \in 1..k : t[j] = BLANK) /\ (k < Len(t) => t[k + 1] # BLANK)
Decimal(t, signs, n) ==
  LET k == Blanks(t) + 1
      signed == k <= Len(t) /\ t[k] \in signs
      v == Digits(t, IF signed THEN k + 1 ELSE k, 10, n)
  IN IF signed /\ t[k] = MINUS THEN Negat(v, n) ELSE v
atoi(t) == Decimal(t, {MINUS, PLUS}, WORD)
atol(t) == Decimal(t, {MINUS}, LONG)
xtoi(t) == Digits(t, 1, 16, WORD)

-----------------------------------------------------------------------------
(* What they are to do. *)

Value(x, n) == IF Sign(x, n) THEN x - 2 ^ n ELSE x
Magnitude(v) == IF v < 0 THEN -v ELSE v
Towards0(a, b) == IF (a < 0) # (b < 0) THEN -(Magnitude(a) \div Magnitude(b))
                  ELSE Magnitude(a) \div Magnitude(b)
UnsignedRight(r, n, d) == d # 0 => r = <<n \div d, n % d>>
SignedRight(r, n, d, bits) ==
  LET a == Value(n, bits)  b == Value(d, bits) IN
  d # 0 => r = <<Towards0(a, b) % 2 ^ bits, (a - b * Towards0(a, b)) % 2 ^ bits>>
OrderRight(r, x, y, bits) == /\ r.z = (x = y) /\ r.c = (x < y)
                             /\ r.s = (Value(x, bits) < Value(y, bits))
=============================================================================
