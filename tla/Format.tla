------------------------------- MODULE Format -------------------------------
(***************************************************************************)
(* Formatted and line I/O over strings of characters: stdio/DOPRNT.C,      *)
(* DOSCAN.C, SPRINTF.C, SSCANF.C, GETS.C, PUTS.C, GETW.C, PUTW.C.          *)
(* A digit or letter is its value, as in Arith; cases are not told apart.  *)
(* A format is the sequence of its characters and conversions, in the      *)
(* order they are found in.                                                *)
(***************************************************************************)
EXTENDS Arith, SequencesExt

COMMA == -4
NL == -5
EOF == -99
White == {BLANK, NL}

(* The numbers a conversion may have are digits, a * or not there.         *)
STAR == -1
NONE == -2

Literal(c) == [kind |-> "char", c |-> c]
Space == [kind |-> "space"]
PrintAs(conv, long, left, fill, width, prec) ==
  [kind |-> "conv", conv |-> conv, long |-> long, left |-> left, fill |-> fill, width |-> width, prec |-> prec]
ScanAs(conv, long, noass, width) ==
  [kind |-> "conv", conv |-> conv, long |-> long, noass |-> noass, width |-> width]
Base(conv) == CASE conv = "o" -> 8 [] conv = "x" -> 16 [] OTHER -> 10

-----------------------------------------------------------------------------
(* printf(): p has the arguments left and what has been put.               *)

BlanksPut(n) == [k \in 1..(IF n > 0 THEN n ELSE 0) |-> BLANK]

(* dostring: a precision of 0 is none. *)
StringPut(d, x, width, prec) ==
  LET i == IF prec # 0 /\ prec < Len(x) THEN prec ELSE Len(x)
      text == SubSeq(x, 1, i)
  IN IF d.left THEN text \o BlanksPut(width - i) ELSE BlanksPut(width - i) \o text

Extended(x, sign) == IF sign /\ Sign(x, WORD) THEN x + 2 ^ LONG - 2 ^ WORD ELSE x
NumberPut(d, x, width, prec) ==
  LET sign == d.conv = "d"
      number == pnum(IF d.long THEN x ELSE Extended(x, sign), prec, IF d.left THEN 0 ELSE width, sign, Base(d.conv))
  IN IF d.left THEN number \o BlanksPut(width - Len(number)) ELSE number

(* A width or precision of * is the next argument.  Without a precision, a  *)
(* width that starts with 0 is one too.                                     *)
Taken(n, args) == IF n = STAR THEN [n |-> Head(args), args |-> Tail(args)] ELSE [n |-> n, args |-> args]
Converted(p, d) ==
  LET w == Taken(d.width, p.args)
      f == Taken(IF d.prec # NONE THEN d.prec ELSE IF d.fill THEN w.n ELSE 0, w.args)
      x == Head(f.args)
  IN [args |-> Tail(f.args),
      out |-> p.out \o CASE d.conv = "s" -> StringPut(d, x, w.n, f.n)
                         [] d.conv = "c" -> StringPut(d, <<x>>, w.n, f.n)
                         [] OTHER -> NumberPut(d, x, w.n, f.n)]
vfprintf(format, args) ==
  LET p[k \in 0..Len(format)] ==
        IF k = 0 THEN [args |-> args, out |-> <<>>]
        ELSE IF format[k].kind = "conv" THEN Converted(p[k - 1], format[k])
        ELSE [p[k - 1] EXCEPT !.out = Append(@, format[k].c)]
  IN p[Len(format)].out
sprintf(format, args) == LET wh == vfprintf(format, args) IN [text |-> wh, ret |-> Len(wh)]

-----------------------------------------------------------------------------
(* scanf(): s is where it is in the text and in the format, how many it has *)
(* assigned (n), what it has stored (out), and what it returns when over.   *)

getc(text, k) == IF k > Len(text) THEN EOF ELSE text[k]
First(text, from, Stop(_)) == CHOOSE j \in from..(Len(text) + 1) :
  Stop(getc(text, j)) /\ \A i \in from..(j - 1) : ~Stop(getc(text, i))
wspace(text, from) == First(text, from, LAMBDA c : c \notin White)
range(c, base) == IF c \in 0..(base - 1) THEN c ELSE -1

Over(s, at, ret) == [s EXCEPT !.at = at, !.over = TRUE, !.ret = ret]
Counted(s, none) == IF s.n # 0 THEN s.n ELSE none
Assigned(s, d) == IF d.noass THEN s.n ELSE s.n + 1

(* What is no digit is put back, but a - before it is not.  The number is   *)
(* stored even when that is suppressed; it is only not counted.             *)
Numeric(text, s, d) ==
  LET from == wspace(text, s.at)
      minus == getc(text, from) = MINUS
      first == IF minus THEN from + 1 ELSE from
      stop == First(text, first, LAMBDA c : range(c, Base(d.conv)) = -1)
      end == IF d.width > 0 /\ stop - first > d.width THEN first + d.width ELSE stop
      v == Digits(SubSeq(text, first, end - 1), 1, Base(d.conv), LONG)
      val == IF minus THEN Negat(v, LONG) ELSE v
  IN IF stop = first THEN Over(s, first, Counted(s, IF first > Len(text) THEN EOF ELSE 0))
     ELSE [s EXCEPT !.at = end, !.item = s.item + 1, !.n = Assigned(s, d),
                    !.out = Append(@, IF d.long THEN val ELSE Lo(val))]

(* Up to a blank, to the character that is next in the format, or to the    *)
(* width; blank and character are taken too, and the format passes its own. *)
Letters(text, s, d, format) ==
  LET from == wspace(text, s.at)
      follows == s.item < Len(format) /\ format[s.item + 1].kind = "char"
      Ending(c) == follows /\ c = format[s.item + 1].c
      stop == First(text, from, LAMBDA c : c \in White \cup {EOF} \/ Ending(c))
      full == d.width > 0 /\ stop - from >= d.width
      end == IF full THEN from + d.width ELSE stop
  IN IF from > Len(text) THEN Over(s, from, Counted(s, EOF))
     ELSE [s EXCEPT !.at = IF full \/ end > Len(text) THEN end ELSE end + 1,
                    !.item = IF ~full /\ Ending(getc(text, end)) THEN s.item + 2 ELSE s.item + 1,
                    !.n = Assigned(s, d),
                    !.out = IF d.noass THEN @ ELSE Append(@, SubSeq(text, from, end - 1))]

Characters(text, s, d) ==
  LET end == s.at + (IF d.width = 0 THEN 1 ELSE d.width) IN
  IF end > Len(text) + 1 THEN Over(s, Len(text) + 1, Counted(s, EOF))
  ELSE [s EXCEPT !.at = end, !.item = s.item + 1, !.n = Assigned(s, d),
                 !.out = IF d.noass THEN @ ELSE Append(@, SubSeq(text, s.at, end - 1))]

Matched(text, s, c) ==
  IF getc(text, s.at) = c THEN [s EXCEPT !.at = s.at + 1, !.item = s.item + 1]
  ELSE Over(s, s.at, IF s.at > Len(text) THEN Counted(s, EOF) ELSE s.n)

Scanned(text, s, format) ==
  IF s.over THEN s
  ELSE IF s.item > Len(format) THEN Over(s, s.at, s.n)
  ELSE LET d == format[s.item] IN
       CASE d.kind = "space" -> [s EXCEPT !.at = wspace(text, s.at), !.item = s.item + 1]
         [] d.kind = "char" -> Matched(text, s, d.c)
         [] d.kind = "conv" /\ d.conv = "s" -> Letters(text, s, d, format)
         [] d.kind = "conv" /\ d.conv = "c" -> Characters(text, s, d)
         [] OTHER -> Numeric(text, s, d)
vfscanf(text, format) ==
  Iterate(LAMBDA s : Scanned(text, s, format), Len(format) + 1,
          [at |-> 1, item |-> 1, n |-> 0, out |-> <<>>, over |-> FALSE, ret |-> 0])
sscanf(text, format) == LET s == vfscanf(text, format) IN [ret |-> s.ret, out |-> s.out]

-----------------------------------------------------------------------------
(* Lines and words, to a stream with room for so many characters more.      *)

Opened(room) == [text |-> <<>>, room |-> room, ret |-> 0]
putc(f, c) == IF f.room = 0 THEN [f EXCEPT !.ret = EOF]
              ELSE [f EXCEPT !.text = Append(@, c), !.room = f.room - 1, !.ret = 0]
fputs(f, s) == Iterate(LAMBDA g : IF g.ret = EOF THEN g ELSE putc([g EXCEPT !.k = g.k + 1], s[g.k]), Len(s),
                       [text |-> f.text, room |-> f.room, ret |-> 0, k |-> 1])
puts(f, s) == LET g == fputs(f, s)
                  h == putc(g, NL)
              IN [text |-> h.text, room |-> h.room, ret |-> g.ret]
putw(f, w) == LET lo == putc(f, w % 2 ^ BYTE)
                  hi == putc(lo, w \div 2 ^ BYTE)
              IN IF lo.ret = EOF THEN lo ELSE IF hi.ret = EOF THEN hi ELSE [hi EXCEPT !.ret = w]

fgets(text, from, n) ==
  LET stop == First(text, from, LAMBDA c : c \in {NL, EOF})
      end == IF stop - from >= n THEN from + n ELSE IF stop > Len(text) THEN stop ELSE stop + 1
  IN [line |-> SubSeq(text, from, end - 1), at |-> end]
gets(text, from) ==
  LET f == fgets(text, from, Len(text) + 1)
  IN [f EXCEPT !.line = SubSeq(@, 1, Len(@) - 1)]
getw(text, from) ==
  IF from + 1 > Len(text) THEN 2 ^ WORD - 1
  ELSE (text[from + 1] * 2 ^ BYTE + text[from]) % 2 ^ WORD

-----------------------------------------------------------------------------
(* What they are to do.                                                     *)

(* A field is as wide as asked and no wider than its contents need; the     *)
(* blanks are on the side they belong to.                                   *)
FieldRight(text, d, width) ==
  LET shown == SelectSeq(text, LAMBDA c : c # BLANK)
      pad == BlanksPut(Len(text) - Len(shown)) IN
  /\ text = IF d.left THEN shown \o pad ELSE pad \o shown
  /\ Len(text) = IF Len(shown) < width THEN width ELSE Len(shown)

(* Cut in pieces of n at most, a text loses nothing, and no piece but the   *)
(* last ends elsewhere than at a newline or at its size.                    *)
PiecesRight(pieces, text, n) ==
  /\ FlattenSeq(pieces) = text
  /\ \A k \in DOMAIN pieces : pieces[k] # <<>> =>
       /\ Len(pieces[k]) <= n
       /\ \A j \in 1..(Len(pieces[k]) - 1) : pieces[k][j] # NL
       /\ Len(pieces[k]) = n \/ Last(pieces[k]) = NL \/ \A m \in (k + 1)..Len(pieces) : pieces[m] = <<>>
=============================================================================
