----------------------------- MODULE Arguments -----------------------------
(***************************************************************************)
(* stdio/GETARGS.C: a command line, or lines typed to the program, taken   *)
(* apart into arguments, with quotes, names with wild characters and       *)
(* redirections.  Characters are strings of one character; CONT is the \   *)
(* at the end of a line that is continued on the next.  No argument here   *)
(* is as long as its buffer, and no name has a drive.                      *)
(***************************************************************************)
EXTENDS Loops, Sequences, SequencesExt

CONSTANTS
  MAXARGS,    \* entries for arguments, the program's name among them
  Directory,  \* the names of the files of each user number, in order
  Name        \* the program's name

CONT == "\\"
END == ""
NoQuote == ""
GLOBBED == "^A"
Special(c) == c \in {"<", ">"}
Separator(c) == c \in {" ", "\t", "\n"}
Quotes == {"'", "\""}
Digit(c) == c \in {"0", "1", "2", "3", "4", "5", "6", "7", "8", "9"}

ASSUME ArgumentsAssumption ==
  /\ MAXARGS \in Nat \ {0} /\ "0" \in DOMAIN Directory /\ \A u \in DOMAIN Directory : Digit(u)
OwnUser == "0"

(* look() sees the \ of a continued line, nxtch() reads the next one. *)
Look(line, at) == IF at > Len(line) THEN END ELSE line[at]
NxtCh(line, at) ==
  LET k == IF Look(line, at) = CONT THEN at + 1 ELSE at
  IN [c |-> Look(line, k), at |-> IF k > Len(line) THEN k ELSE k + 1]

-----------------------------------------------------------------------------
(* An argument, character by character from the one in hand.  Characters in *)
(* quotes are marked.                                                       *)

InWord(w) == w.c # END /\ (w.quote # NoQuote \/ (~Special(w.c) /\ ~Separator(w.c)))
Stored(w) == IF w.c = w.quote THEN [w EXCEPT !.quote = NoQuote]
           ELSE IF w.quote = NoQuote /\ w.c \in Quotes THEN [w EXCEPT !.quote = w.c]
           ELSE [w EXCEPT !.buf = Append(@, [c |-> w.c, quoted |-> w.quote # NoQuote])]
Character(line, w) ==
  IF w.over \/ ~InWord(w) THEN [w EXCEPT !.over = TRUE]
  ELSE LET k == Stored(w)
           next == NxtCh(line, w.at)
       IN IF k.quote = NoQuote /\ Special(Look(line, w.at)) THEN [k EXCEPT !.over = TRUE]
          ELSE [k EXCEPT !.c = next.c, !.at = next.at]
Word(line, first, quote) ==
  Iterate(LAMBDA w : Character(line, w), Len(line) + 1,
          [c |-> first.c, at |-> first.at, buf |-> <<>>, quote |-> quote, over |-> FALSE])

(* A name with wild characters stands for the files it matches, under the   *)
(* user number it starts with; a file is found by what comes before the *.  *)
Chars(buf) == [k \in DOMAIN buf |-> buf[k].c]
WildQuoted(buf) == \E k \in DOMAIN buf : buf[k].c = "*"
Wild(buf) == \E k \in DOMAIN buf : buf[k].c = "*" /\ ~buf[k].quoted
HasUser(text) == Len(text) > 1 /\ Digit(text[1]) /\ text[2] = ":"
Matches(text) ==
  LET user == IF HasUser(text) THEN text[1] ELSE OwnUser
      name == IF HasUser(text) THEN SubSeq(text, 3, Len(text)) ELSE text
      stem == SubSeq(name, 1, SelectInSeq(name, LAMBDA c : c = "*") - 1)
      found == SelectSeq(Directory[user], LAMBDA f : IsPrefix(stem, f))
  IN [k \in DOMAIN found |-> (IF HasUser(text) THEN <<user, ":">> ELSE <<>>) \o found[k]]

(* What is in buf becomes an argument, or several.  That a user number was  *)
(* given is kept in quote.                                                  *)
Take(s, w) ==
  LET text == Chars(w.buf)
      t == [s EXCEPT !.at = w.at, !.quote = w.quote] IN
  IF ~Wild(w.buf) THEN [t EXCEPT !.argv = Append(@, text)]
  ELSE IF Matches(text) = <<>> THEN [t EXCEPT !.error = TRUE]
  ELSE [t EXCEPT !.argv = @ \o Matches(text), !.quote = IF HasUser(text) THEN GLOBBED ELSE NoQuote]

Operator(line, first) ==
  LET double == first.c = ">" /\ Look(line, first.at) = ">" IN
  [buf |-> [k \in 1..(IF double THEN 2 ELSE 1) |-> [c |-> first.c, quoted |-> FALSE]],
   at |-> IF double THEN first.at + 1 ELSE first.at]

Argument(line, s) ==
  LET first == Iterate(LAMBDA f : IF Separator(f.c) THEN NxtCh(line, f.at) ELSE f,
                       Len(line), NxtCh(line, s.at))
      op == Operator(line, first) IN
  IF s.error \/ Look(line, s.at) = END THEN s
  ELSE IF Len(s.argv) = MAXARGS THEN [s EXCEPT !.error = TRUE]
  ELSE IF first.c = END THEN [s EXCEPT !.at = first.at]
  ELSE IF Special(first.c) THEN Take(s, [buf |-> op.buf, at |-> op.at, quote |-> s.quote])
  ELSE Take(s, Word(line, first, s.quote))

-----------------------------------------------------------------------------
(* Redirections, once all arguments are there: by their first character.    *)

Console == <<"console">>
Redirect(r, op, name) ==
  LET stream == IF op[1] = "<" THEN "in" ELSE "out"
      mode == IF stream = "in" THEN "r" ELSE IF Len(op) > 1 /\ op[2] = ">" THEN "a" ELSE "w"
      opens == stream = "out" \/ Contains(Directory[OwnUser], name) IN
  IF r[stream] # Console \/ ~opens THEN [r EXCEPT !.error = TRUE]
  ELSE [r EXCEPT ![stream] = <<mode, name>>]
Sift(args, r) ==
  LET arg == args[r.j] IN
  IF r.error \/ r.j > Len(args) THEN r
  ELSE IF arg = <<>> \/ ~Special(arg[1]) THEN [r EXCEPT !.argv = Append(@, arg), !.j = r.j + 1]
  ELSE IF r.j = Len(args) THEN [r EXCEPT !.error = TRUE]
  ELSE [Redirect(r, arg, args[r.j + 1]) EXCEPT !.j = r.j + 2]

_getargs(line) ==
  LET s == Iterate(LAMBDA t : Argument(line, t), Len(line),
                   [at |-> 1, quote |-> NoQuote, argv |-> <<Name>>, error |-> FALSE])
  IN Iterate(LAMBDA r : Sift(s.argv, r), Len(s.argv),
             [j |-> 1, argv |-> <<>>, in |-> Console, out |-> Console, error |-> s.error])

-----------------------------------------------------------------------------
(* What a line means: the items it was put together from are words, with    *)
(* what they say, names with wild characters, and redirections; gaps        *)
(* between them are blanks, or nothing where an item ends by itself.        *)

Typed(items, gap, interactive) ==
  (IF interactive THEN <<CONT>> ELSE <<>>)
    \o FlattenSeq([k \in DOMAIN items |->
                     items[k].typed \o IF k = Len(items) THEN <<>>
                                       ELSE IF gap # <<>> THEN gap
                                       ELSE IF {items[k].kind, items[k + 1].kind} \in {{"op", "word"}, {"op", "wild"}}
                                       THEN <<>> ELSE <<" ">>])

Expanded(items) ==
  FlattenSeq([k \in DOMAIN items |->
    IF items[k].kind = "wild"
    THEN [m \in DOMAIN Matches(items[k].says) |-> [kind |-> "word", says |-> Matches(items[k].says)[m]]]
    ELSE <<[kind |-> items[k].kind, says |-> items[k].says]>>])

Redirections(e, c) == {k \in DOMAIN e : e[k].kind = "op" /\ e[k].says[1] = c}
Given(e, c) == LET k == CHOOSE k \in Redirections(e, c) : TRUE
               IN IF Redirections(e, c) = {} THEN Console
                  ELSE <<CASE e[k].says = <<">">> -> "w" [] e[k].says = <<"<">> -> "r" [] OTHER -> "a", e[k + 1].says>>
Refused(items, e) ==
  \/ \E k \in DOMAIN items : items[k].kind = "wild" /\ Matches(items[k].says) = <<>>
  \/ e # <<>> /\ Last(e).kind = "op"
  \/ \E k, m \in DOMAIN e : k # m /\ {k, m} \subseteq Redirections(e, "<")
  \/ \E k, m \in DOMAIN e : k # m /\ {k, m} \subseteq Redirections(e, ">")
  \/ \E k \in Redirections(e, "<") : ~Contains(Directory[OwnUser], e[k + 1].says)
Rest(e) == LET kept == SelectSeq([k \in DOMAIN e |-> k],
                                 LAMBDA k : e[k].kind # "op" /\ (k > 1 => e[k - 1].kind # "op"))
           IN [k \in DOMAIN kept |-> e[kept[k]].says]

(* What the code is known to get wrong: an item after a name with a user    *)
(* number runs to the end of the line; a quoted < or > that begins a word   *)
(* redirects all the same; a redirection takes another one for its name;    *)
(* and too many names overrun the table.  A < or > that begins a continued  *)
(* line right after a word is lost; such lines are not put together here.   *)
Plain(items, e) ==
  /\ \A k \in 1..(Len(items) - 1) : ~(items[k].kind = "wild" /\ HasUser(items[k].says))
  /\ \A k \in DOMAIN items : items[k].kind = "word" /\ items[k].says # <<>> => ~Special(items[k].says[1])
  /\ \A k \in 1..(Len(e) - 1) : ~(e[k].kind = "op" /\ e[k + 1].kind = "op")
  /\ Len(e) + 1 < MAXARGS
LineRight(r, items) ==
  LET e == Expanded(items) IN
  Plain(items, e) =>
    IF Refused(items, e) THEN r.error
    ELSE ~r.error /\ r.argv = <<Name>> \o Rest(e) /\ r.in = Given(e, "<") /\ r.out = Given(e, ">")
=============================================================================
