------------------------------ MODULE Library ------------------------------
(***************************************************************************)
(* Calls of the routines that keep no state: the integer routines of gen/  *)
(* (Arith) and its sort (Sort), formatted and line I/O (Format), floating  *)
(* point (Float), dates (Calendar) and the arguments of a program          *)
(* (Arguments).  call is the call in progress with its operands and what   *)
(* it answered.                                                            *)
(***************************************************************************)
EXTENDS Float, Calendar, Sort, Arguments, Format

CONSTANTS
  Words,      \* words tried
  Fields,     \* words tried with bit fields
  Longs,      \* longs tried
  Mantissas,  \* mantissas of the numbers tried, normalized
  Exponents,  \* and their exponents
  Days,       \* days since 1970
  Times,      \* times of a day, <<hour, minute, second>>
  Zones,      \* minutes west of Greenwich
  Strings,         \* texts printed and read
  Keys, MaxSize,   \* elements of arrays, and their largest size
  Items, MaxItems, \* items of command lines, and how many
  Spacing          \* what may stand between them

ASSUME SamplesAssumption ==
  /\ Words \cup Fields \subseteq 0..(2 ^ WORD - 1) /\ Longs \subseteq 0..(2 ^ LONG - 1)
  /\ Mantissas \subseteq Top..(2 ^ MAN - 1) /\ Exponents \subseteq 0..(2 ^ EXP - 1)
  /\ Days \subseteq Nat /\ Times \subseteq (0..23) \X (0..59) \X (0..59)
  /\ Zones \subseteq -(24 * 60)..(24 * 60) /\ \A day \in Days : day + 1 < CumYear(LastYear)
  /\ Keys \subseteq Int /\ MaxSize \in Nat /\ Strings \subseteq Seq(Int \ {NL, EOF})

VARIABLE call
vars == <<call>>

Floats == {Zero} \cup [neg : BOOLEAN, exp : Exponents, man : Mantissas]
Seconds(day, time) == ((day * 24 + time[1]) * 60 + time[2]) * 60 + time[3]
Bcd(v) == 16 * (v \div 10) + (v % 10)

Idle == [op |-> "idle"]
Init == call = Idle
Called(op, x, y, res) == call' = [op |-> op, x |-> x, y |-> y, res |-> res]

WordCall == call = Idle /\ \E x, y \in Words :
  \/ Called("ldiv", x, y, LDiv(x, y))
  \/ Called("adiv", x, y, ADiv(x, y))
  \/ Called("lmul", x, y, LMulWord(x, y))
  \/ Called("wrelop", x, y, WRelop(x, y))
  \/ Called("brelop", x % 2 ^ BYTE, y % 2 ^ BYTE, BRelop(x % 2 ^ BYTE, y % 2 ^ BYTE))
LongCall == call = Idle /\ \E x, y \in Longs :
  \/ Called("lldiv", x, y, LLDiv(x, y))
  \/ Called("aldiv", x, y, ALDiv(x, y))
  \/ Called("llmul", x, y, LMul(x, y))
  \/ Called("lrelop", x, y, LRelop(x, y))
ShiftCall == call = Idle /\ \E x \in Longs, count \in 0..(LONG + 1) :
  \/ Called("shift", x, count, <<Shll(Lo(x), count, WORD), Shlr(Lo(x), count, WORD), Shar(Lo(x), count, WORD)>>)
  \/ Called("lshift", x, count, <<Shll(x, count, LONG), Shlr(x, count, LONG), Shar(x, count, LONG)>>)
BitFieldCall == call = Idle /\ \E x, y \in Fields, off, w \in 0..(WORD - 1) :
  \/ x = y /\ Called("bfext", x, <<off, w>>, BfExt(x, off, w))
  \/ Called("bfins", <<x, y>>, <<off, w>>, BfIns(x, y, off, w))
NumeralCall == call = Idle /\ \E x \in Longs, f \in {0, 3}, w \in {0, 9}, signed \in BOOLEAN :
  LET decimal == pnum(x, f, w, signed, 10)
      digits  == SubSeq(decimal, Blanks(decimal) + 1, Len(decimal))
      plus    == IF signed /\ Sign(x, LONG) THEN decimal ELSE <<BLANK, PLUS>> \o digits
  IN Called("numerals", x, w, [decimal |-> decimal, atoi |-> atoi(decimal), signed |-> atoi(plus),
                               atol |-> atol(decimal), xtoi |-> xtoi(pnum(x, f, 0, FALSE, 16))])
FloatCall == call = Idle /\ \E x, y \in Floats :
  \/ Called("fladd", x, y, FlAdd(x, y))
  \/ Called("flsub", x, y, FlSub(x, y))
  \/ Called("flmul", x, y, FlMul(x, y))
  \/ Called("fldiv", x, y, FlDiv(x, y))
  \/ Called("frelop", x, y, FRelop(x, y))
PartsCall == call = Idle /\ \E x \in Floats :
  \/ Called("ftol", x, x, FToL(x))
  \/ Called("ldexp", x, x, LdExp(FrExp(x).fraction, FrExp(x).expon))
  \/ Called("floor", x, x, Floor(x))
  \/ Called("ceil", x, x, Ceil(x))
ToFloatCall ==
  /\ call = Idle
  /\ \/ \E w \in Words : Called("aitof", w, w, AIToF(w)) \/ Called("litof", w, w, LIToF(w))
     \/ \E l \in Longs : Called("altof", l, l, ALToF(l)) \/ Called("lltof", l, l, LLToF(l))
ExactCall == call = Idle /\ \E x, y \in Words :
  Called("exact", x, y, [sum |-> FlAdd(AIToF(x), AIToF(y)), difference |-> FlSub(AIToF(x), AIToF(y)),
                         product |-> FlMul(AIToF(x), AIToF(y))])
ClockCall == call = Idle /\ \E day \in Days, time \in Times, zone \in Zones :
  LET t == Seconds(day, time) IN
  /\ t >= zone * 60
  /\ \/ Called("localtime", t, zone, localtime(t, zone))
     \/ Called("ctime", t, zone, asctime(localtime(t, zone)))
CpmClockCall == call = Idle /\ \E day \in Days, time \in Times :
  LET tod == [days |-> day + 1, hour |-> Bcd(time[1]), min |-> Bcd(time[2]), sec |-> Bcd(time[3])] IN
  /\ day + EPOCH < 24855
  /\ Called("convtime", day, time, convtime(tod))
SortCall == call = Idle /\ \E nel \in 1..MaxSize : \E a \in [0..(nel - 1) -> Keys] :
  Called("qsort", a, nel, qsort(a))
(* The same conversion twice, with a comma between; a text that is padded on *)
(* the right ends at a blank.                                                *)
ReadBack(d, noass, field, text) ==
  LET first == ScanAs(d.conv, d.long, noass, 0)
      second == ScanAs(d.conv, d.long, FALSE, 0) IN
  sscanf(text, IF d.conv = "c" \/ (d.conv = "s" /\ Last(field) # BLANK) THEN <<first, Literal(COMMA), second>>
               ELSE <<first, Space, Literal(COMMA), second>>)
FormatArgs(conv, long) == CASE conv = "s" -> Strings \X Strings
                            [] conv = "c" -> {0, COMMA} \X {0, COMMA}
                            [] OTHER -> {x \in IF long THEN Longs \X Longs ELSE Words \X Words : (x[1] + x[2]) % 5 = 0}
Formatted(d, x, stars) ==
  LET printed == sprintf(<<d, Literal(COMMA), d>>, stars \o <<x[1]>> \o stars \o <<x[2]>>)
      field == sprintf(<<d>>, stars \o <<x[1]>>)
  IN [field |-> field, printed |-> printed, scanned |-> ReadBack(d, FALSE, field.text, printed.text),
      skipped |-> ReadBack(d, TRUE, field.text, printed.text),
      limited |-> sscanf(printed.text, <<ScanAs(d.conv, d.long, FALSE, 2), Literal(COMMA)>>)]
FormatCall == call = Idle /\ \E left, fill, long, star \in BOOLEAN, width \in {0, 7}, prec \in {NONE, 3},
                               conv \in {"d", "u", "o", "x", "s", "c"} : \E x \in FormatArgs(conv, long) :
  LET d == PrintAs(conv, long, left, fill, IF star THEN STAR ELSE width, IF star /\ prec # NONE THEN STAR ELSE prec)
      stars == IF ~star THEN <<>> ELSE IF prec = NONE THEN <<width>> ELSE <<width, prec>>
  IN /\ conv \in {"s", "c"} => ~long
     /\ fill => width > 0 /\ ~star
     /\ Called("formats", x, [d |-> d, width |-> width, prec |-> prec], Formatted(d, x, stars))
PutAndGot(x, y, n, room) ==
  LET first == puts(Opened(room), x)
      second == puts([first EXCEPT !.ret = 0], y)
      text == second.text
      piece[k \in 0..Len(text)] == IF k = 0 THEN [line |-> <<>>, at |-> 1] ELSE fgets(text, piece[k - 1].at, n)
      line == gets(text, 1)
  IN [text |-> text, ret |-> second.ret, pieces |-> [k \in 1..Len(text) |-> piece[k].line],
      lines |-> <<line.line, gets(text, line.at).line>>]
LinesCall == call = Idle /\ \E x, y \in Strings \cup {<<>>}, n \in 1..4, room \in {0, 1, 3, 100} :
  Called("lines", <<x, y>>, [n |-> n, room |-> room], PutAndGot(x, y, n, room))
PutwCall == call = Idle /\ \E w, v \in Words :
  LET f == putw(putw(Opened(4), w), v)
  IN Called("putw", w, v, <<getw(f.text, 1), getw(f.text, 3), f.ret>>)
LineCall == call = Idle /\ \E n \in 0..MaxItems : \E items \in [1..n -> Items], gap \in Spacing :
  LET interactive == CONT \in ToSet(gap) \cup UNION {ToSet(items[k].typed) : k \in DOMAIN items}
  IN Called("getargs", items, gap, _getargs(Typed(items, gap, interactive)))
Return == call # Idle /\ call' = Idle

Next == \/ WordCall \/ LongCall \/ ShiftCall \/ BitFieldCall \/ NumeralCall \/ FloatCall \/ PartsCall
        \/ ToFloatCall \/ ExactCall \/ ClockCall \/ CpmClockCall \/ SortCall
        \/ FormatCall \/ LinesCall \/ PutwCall \/ LineCall \/ Return
Spec == Init /\ [][Next]_vars

-----------------------------------------------------------------------------
(* Division truncates towards 0 for either sign and length, the largest     *)
(* negative number included, and the remainder goes with it; products and   *)
(* shifts are those of the width; the flags tell the order of any two       *)
(* numbers, signed and unsigned; a field inserted changes no other bit;     *)
(* words come back as they were put; a sort orders an array, keeps its      *)
(* elements, and looks nowhere else (gen/LDIV.AS, IDIV.AS, LMUL.AS, IMUL.AS,*)
(* SHAR.AS, WRELOP.AS, LRELOP.AS, BITFIELD.AS, QSORT.C, stdio/PUTW.C).      *)
Shifted(r, x, count, n) ==
  /\ r[1] = (IF count >= n THEN 0 ELSE ((x % 2 ^ (n - count)) * 2 ^ count))
  /\ r[2] = (IF count >= n THEN 0 ELSE x \div 2 ^ count)
  /\ Value(r[3], n) = (IF count >= n THEN (IF Sign(x, n) THEN -1 ELSE 0) ELSE Value(x, n) \div 2 ^ count)
Width(w) == IF w = 0 THEN WORD ELSE w
RoutinesRight ==
  LET r == call.res  x == call.x  y == call.y IN
  CASE call.op = "ldiv" -> UnsignedRight(r, x, y)
    [] call.op = "adiv" -> SignedRight(r, x, y, WORD)
    [] call.op = "lldiv" -> UnsignedRight(r, x, y)
    [] call.op = "aldiv" -> SignedRight(r, x, y, LONG)
    [] call.op = "lmul" -> r = (x * y) % 2 ^ WORD
    [] call.op = "llmul" -> r = (x * Lo(y) + ((Lo(x) * Hi(y)) % 2 ^ WORD) * 2 ^ WORD) % 2 ^ LONG
    [] call.op = "wrelop" -> OrderRight(r, x, y, WORD)
    [] call.op = "brelop" -> OrderRight(r, x, y, BYTE)
    [] call.op = "lrelop" -> OrderRight(r, x, y, LONG)
    [] call.op = "shift" -> Shifted(r, Lo(x), y, WORD)
    [] call.op = "lshift" -> Shifted(r, x, y, LONG)
    [] call.op = "bfext" ->
       BitsOf(r) = {k \in 0..(Width(y[2]) - 1) : k + y[1] \in BitsOf(x)}
    [] call.op = "bfins" ->
       LET field == y[1]..(y[1] + Width(y[2]) - 1) IN
       BitsOf(r) = {k \in 0..(WORD - 1) : IF k \in field THEN k - y[1] \in BitsOf(x[1]) ELSE k \in BitsOf(x[2])}
    [] call.op = "qsort" -> SortRight(r, x)
    [] call.op = "putw" -> r = <<x, y, y>>
    [] OTHER -> TRUE

(* Numbers that are integers behave as integers; otherwise a sum is less than*)
(* 2 units of the last place of the larger operand off, 4 when negative, a   *)
(* product one of its own and a quotient half of one at most; results        *)
(* out of range at the small end are 0, and at the large end too for         *)
(* products.  Comparison is that of the values; conversion to a long is to   *)
(* the nearest; floor() and ceil() are right for 0 and from a half up, below *)
(* it in one direction, unless the nearest integer is the first one that     *)
(* takes the whole mantissa (float/FLOAT.AS, LTOF.AS, FTOL.AS, FREXP.AS,     *)
(* FRNDINT.AS, FLOOR.C, CEIL.C, gen/FRELOP.AS).                              *)
Normal(x) == x = Zero \/ x.man \in Top..(2 ^ MAN - 1)
At(x, e) == IF x.man = 0 THEN 0 ELSE Signed(x, x.man * 2 ^ (x.exp - e))
LowerOf(a, b) == IF a < b THEN a ELSE b
HigherOf(a, b) == IF a < b THEN b ELSE a
Apart(x, y) == IF x.exp < y.exp THEN y.exp - x.exp ELSE x.exp - y.exp

SumRight(r, x, y) ==
  LET e == IF r.man = 0 THEN LowerOf(x.exp, y.exp) ELSE LowerOf(r.exp, LowerOf(x.exp, y.exp))
      exact == At(x, e) + At(y, e)
      unit == 2 ^ (HigherOf(x.exp, y.exp) - e) IN
  (x.man # 0 /\ y.man # 0 /\ Apart(x, y) <= MAN /\ HigherOf(x.exp, y.exp) < 2 ^ EXP - 2) =>
    IF r.man = 0 THEN Magnitude(exact) <= unit \/ HigherOf(x.exp, y.exp) <= MAN
    ELSE Magnitude(At(r, e) - exact) < (IF exact < 0 THEN 4 ELSE 2) * unit

ProductRight(r, x, y) ==
  LET p == x.man * y.man
      k == IF p >= 2 ^ (2 * MAN - 1) THEN MAN ELSE MAN - 1
      e == x.exp + y.exp - BIAS + k - MAN IN
  IF x.man = 0 \/ y.man = 0 \/ e < 0 \/ e >= 2 ^ EXP THEN r = Zero
  ELSE e < 2 ^ EXP - 1 => /\ r.neg = (x.neg # y.neg)
                          /\ Magnitude(r.man * 2 ^ (r.exp - e) - p \div 2 ^ k) <= 1

QuotientRight(r, x, y) ==
  LET s == IF x.man >= y.man THEN MAN - 1 ELSE MAN
      e == x.exp - y.exp + BIAS + MAN - s IN
  (y.man # 0 /\ e \in 0..(2 ^ EXP - 2)) =>
    IF x.man = 0 THEN r = Zero
    ELSE /\ r.neg = (x.neg # y.neg)
         /\ 2 * Magnitude(r.man * y.man * 2 ^ (r.exp - e) - x.man * 2 ^ s) <= y.man

Greater(x, y) ==
  CASE x.neg # y.neg -> y.neg
    [] x.neg /\ y.neg -> x.exp < y.exp \/ (x.exp = y.exp /\ x.man < y.man)
    [] OTHER -> x.man # 0 /\ (y.man = 0 \/ x.exp > y.exp \/ (x.exp = y.exp /\ x.man > y.man))

(* The integer part of a magnitude below 2^MAN, and whether more is left. *)
Places(x) == BIAS + MAN - x.exp
IntPart(x) == IF Places(x) > MAN THEN 0 ELSE x.man \div 2 ^ Places(x)
Fraction(x) == x.man # 0 /\ (Places(x) > MAN \/ x.man % 2 ^ Places(x) # 0)
Integer(x, v) == x = (IF v < 0 THEN Toggled(LIToF(-v)) ELSE LIToF(v))
Nearest(x) ==
  IF Places(x) > MAN + 1 THEN 0
  ELSE (2 * Signed(x, x.man) + 2 ^ Places(x)) \div 2 ^ (Places(x) + 1)
Units(x) == Places(x) >= 0
Kept(l) == IF l < 2 ^ MAN THEN l ELSE l - (l % 2 ^ BYTE)
Small(x) == x.man # 0 /\ x.exp < BIAS

FloatsRight ==
  LET r == call.res  x == call.x  y == call.y IN
  CASE call.op = "fladd" -> Normal(r) /\ SumRight(r, x, y) /\ r = FlAdd(y, x)
    [] call.op = "flsub" -> x.man # 0 => Normal(r) /\ SumRight(r, x, Toggled(y))
    [] call.op = "flmul" -> Normal(r) /\ ProductRight(r, x, y)
    [] call.op = "fldiv" -> Normal(r) /\ QuotientRight(r, x, y)
    [] call.op = "frelop" -> r.z = (x = y) /\ r.s = Greater(y, x)
    [] call.op = "ldexp" -> r = x
    [] call.op = "ftol" -> Units(x) => Value(r, LONG) = Nearest(x)
    [] call.op = "floor" -> (Units(x) /\ ~(Small(x) /\ x.neg) /\ (Fraction(x) => Nearest(x) # Top)) =>
       Integer(r, IF ~x.neg THEN IntPart(x) ELSE IF Fraction(x) THEN -IntPart(x) - 1 ELSE -IntPart(x))
    [] call.op = "ceil" -> (Units(x) /\ ~(Small(x) /\ ~x.neg)) =>
       Integer(r, IF x.neg THEN -IntPart(x) ELSE IF Fraction(x) THEN IntPart(x) + 1 ELSE IntPart(x))
    [] call.op = "aitof" -> Normal(r) /\ Value(FToL(r), LONG) = Value(x, WORD)
    [] call.op = "litof" -> Normal(r) /\ FToL(r) = x
    [] call.op = "altof" -> Normal(r) /\ FToL(r) = (IF Sign(x, LONG) THEN Negat(Kept(Negat(x, LONG)), LONG) ELSE Kept(x))
    [] call.op = "lltof" -> Normal(r) /\ FToL(r) = Kept(x)
    [] call.op = "exact" ->
       LET a == Value(x, WORD)  b == Value(y, WORD) IN
       /\ Integer(r.sum, a + b)
       /\ a # 0 => Integer(r.difference, a - b)
       /\ Magnitude(a * b) < 2 ^ MAN => Integer(r.product, a * b)
    [] OTHER -> TRUE

(* The date and its letters are those of the calendar up to the last second  *)
(* of 2037 and after, in any zone, and the date CP/M gives is the same       *)
(* moment (stdio/CTIME.C, cpm/CONVTIME.C).                                   *)
DatesRight ==
  LET r == call.res  x == call.x  y == call.y IN
  CASE call.op = "localtime" -> Denotes(r, x - y * 60)
    [] call.op = "ctime" -> Reads(r, gmtime(x - y * 60))
    [] call.op = "convtime" -> r = Seconds(DayNumber(1978, 1, 1) + x, y)
    [] OTHER -> TRUE

(* What printf() puts fills its field and scanf() reads it back, whatever    *)
(* the flags; a number printed, padded or not, is read back as itself; lines *)
(* come back as they were put (gen/PNUM.C, ATOI.AS, ATOL.C, XTOI.AS,         *)
(* stdio/DOPRNT.C, DOSCAN.C, GETS.C, PUTS.C).  The code departs from the     *)
(* manual in three places, and the property says just how: a number that a   *)
(* * suppresses is not counted but is stored through the next argument, so   *)
(* that the number after it goes through the argument after that; fgets()    *)
(* takes up to n characters where n - 1 leave room for the 0; puts() sees an *)
(* error unless it is its newline that fails.  A program gets the arguments  *)
(* its command line says, typed in one line or in several, whatever is       *)
(* quoted and however it is spaced: names with wild characters become the    *)
(* files they match, redirections are taken out and act on their own stream, *)
(* and a line that cannot be obeyed is refused (stdio/GETARGS.C; what Plain  *)
(* leaves out is known to go wrong).                                         *)
Meant(x, f) == IF f.d.conv = "s" THEN LET n == IF f.prec # NONE THEN f.prec ELSE IF f.d.fill THEN f.width ELSE 0
                                      IN IF n # 0 /\ n < Len(x) THEN SubSeq(x, 1, n) ELSE x
               ELSE x
FormatsRight(r, x, f) ==
  /\ FieldRight(r.field.text, f.d, f.width)
  /\ r.printed.ret = Len(r.printed.text)
  /\ f.d.conv = "s" => r.limited.out = <<IF Len(Meant(x[1], f)) > 2 THEN SubSeq(x[1], 1, 2) ELSE Meant(x[1], f)>>
  /\ f.d.conv = "c" => r.limited.out = <<SubSeq(r.printed.text, 1, 2)>>
  /\ f.d.conv # "c" => r.skipped = [ret |-> 1, out |-> IF f.d.conv = "s" THEN <<Meant(x[2], f)>>
                                                       ELSE <<Meant(x[1], f), Meant(x[2], f)>>]
  /\ f.d.conv # "c" => r.scanned = [ret |-> 2, out |-> <<Meant(x[1], f), Meant(x[2], f)>>]
LinesRight(r, x, f) ==
  LET all == x[1] \o <<NL>> \o x[2] \o <<NL>> IN
  /\ r.text = SubSeq(all, 1, IF f.room < Len(all) THEN f.room ELSE Len(all))
  /\ (r.ret = EOF) = (x[2] # <<>> /\ Len(r.text) < Len(all) - 1)
  /\ PiecesRight(r.pieces, r.text, f.n)
  /\ r.text = all => r.lines = x
NumeralsRight(r, x, w) ==
  r.atoi = Lo(x) /\ r.signed = Lo(x) /\ r.atol = x /\ r.xtoi = Lo(x) /\ Len(r.decimal) >= w
TextsRight ==
  LET r == call.res  x == call.x  y == call.y IN
  CASE call.op = "formats" -> FormatsRight(r, x, y)
    [] call.op = "lines" -> LinesRight(r, x, y)
    [] call.op = "numerals" -> NumeralsRight(r, x, y)
    [] call.op = "getargs" -> LineRight(r, x)
    [] OTHER -> TRUE
=============================================================================
