---------------------------- MODULE StreamProofs ----------------------------
(***************************************************************************)
(* For any sizes of sector, buffer and disk and any files and modes: the   *)
(* fields of a stream keep to the buffer and the file, and a line buffered *)
(* stream holds no line back; what a careful program can then rely on:     *)
(* fgetc() returns the next character, over any number of refills, with a  *)
(* character pushed back or not; the end of a file is found where it is;   *)
(* and the stream implements the text with a position of module CharFile,  *)
(* whatever its buffer does.                                               *)
(***************************************************************************)
EXTENDS Stream, WellFoundedInduction, TLAPS

(* A set of numbers has a least element.                                   *)
LEMMA LeastExists ==
  ASSUME NEW T \in SUBSET Nat, T # {}
  PROVE  \E m \in T : \A x \in T : m <= x
<1> DEFINE Less == OpToRel(<, Nat)
<1>1. \A x, y \in Nat : x < y => <<x, y>> \in Less
  BY DEF OpToRel
<1>2. PICK m \in T : \A y \in T : <<y, m>> \notin Less
  BY NatLessThanWellFounded, WFMin, Zenon
<1> HIDE DEF Less
<1>3. \A x \in T : ~(x < m)
  BY <1>1, <1>2
<1> QED
  BY <1>3


(***************************************************************************)
(* The inductive invariant.  The types (Disk, Slots, Call) are not         *)
(* inductive: that a byte finds room in the buffer and that what is        *)
(* written out was put there needs the direction of the buffer (Buffered), *)
(* that a call finds the buffer as its earlier steps left it needs its     *)
(* stages (Stage), and what a write under way has done is in the file      *)
(* already (Outgoing, Gone).  No position is behind the end of the file.   *)
(***************************************************************************)
Bits == {"READ", "WRT", "NBF", "LBF", "EOF", "ERR", "BINARY", "DIRN"}
Calls == {"none", "fopen", "fclose", "exit", "fputc", "fgetc", "fflush", "fseek", "seekend"}
Todo == {<<X>>, <<NL>>, <<CR, NL>>}
OpType == [kind : Calls, todo : {<<>>} \cup Todo, left : Nat, done : Nat,
           why : {"none", "flush", "flsbuf", "unbuffered"},
           then : {"none", "done", "close", "exit", "put", "ssize", "lseek"},
           offs : Nat, saved : SUBSET Bits, want : Int, ret : Int]

Disk == /\ file \in Seq(Byte) /\ Len(file) <= MaxPos /\ Len(file) % SECSIZE = 0
        /\ rwp \in 0..Len(file)

Slots == /\ flag \subseteq Bits /\ base \in BOOLEAN /\ size \in {0, BUFSIZ}
         /\ buf \in [0..(BUFSIZ - 1) -> Byte \cup {0}]
         /\ ptr \in 0..size /\ cnt \in 0..size
         /\ tty \in BOOLEAN
         /\ pushed \in {<<>>} \cup {<<c>> : c \in Chars}

Call == /\ op \in OpType
        /\ pc \in {"idle", "done", "lost", "write", "written", "put", "get", "end", "ssize", "seek",
                   "lseek", "close", "exit", "exited"}

Buffered ==
  /\ cnt > 0 => base
  /\ IF Writing THEN ptr = cnt ELSE ptr + cnt <= size /\ ptr + cnt <= rwp
  /\ Writing => pushed = <<>> /\ \A i \in 0..(cnt - 1) : buf[i] \in Byte
  /\ Writing /\ IsOpen => Has("WRT")
  /\ ~IsOpen \/ ~(Has("READ") \/ Writing) => cnt = 0 /\ ptr = 0
  /\ pc \notin {"lost", "exit"} /\ IsOpen => (base <=> size = BUFSIZ)
  /\ pc \notin {"lost", "exit"} /\ Has("READ") => size = BUFSIZ
  /\ Has("LBF") => size = BUFSIZ

InWrite == pc \in {"write", "written"}
Putting == op.kind = "fputc" /\ op.todo \in Todo /\ Writing /\ Has("WRT")
Ending  == op.kind = "seekend" /\ IsOpen /\ base
Seeking == op.kind \in {"fseek", "seekend"} /\ IsOpen /\ base
ToEnd   == Careful /\ op.kind = "seekend"

Stage ==
  /\ pc = "idle" => op = NoOp
  /\ pc = "lost" => ~Writing /\ cnt = 0 /\ ptr = 0
  /\ pc = "put" => Putting
  /\ pc = "get" => op.kind = "fgetc" /\ Has("READ") /\ ~Writing
  /\ pc = "end" => Ending /\ (Careful => ~Has("EOF") /\ ~(Writing /\ cnt > 0))
  /\ pc = "ssize" => /\ Ending /\ Text /\ (Has("WRT") => cnt = 0)
                     /\ Careful => ~Has("EOF") /\ op.saved = Narrow(flag)
  /\ pc = "seek" => /\ Seeking /\ op.offs <= End
                    /\ ToEnd => ~Text /\ op.offs = Len(file) /\ ~(Writing /\ cnt > 0)
  /\ pc = "lseek" => /\ Seeking /\ op.offs <= Len(file) /\ (Writing => cnt = 0)
                     /\ ToEnd => ~Text /\ op.offs = Len(file)
  /\ pc = "close" => op.kind = "fclose" /\ IsOpen /\ cnt = 0 /\ ptr = 0
  /\ pc = "exit" => cnt = 0 /\ ptr = 0
  /\ pc = "exited" => ~IsOpen
  /\ pc = "ssize" \/ (InWrite /\ op.then = "ssize") =>
        /\ op.saved \subseteq Bits \ {"LBF", "DIRN"}
        /\ \A b \in {"READ", "WRT", "BINARY"} : b \in op.saved <=> Has(b)

(* The bytes of the buffer that have gone are in the file. *)
Gone == /\ op.done <= rwp
        /\ \A i \in 0..(op.done - 1) : file[rwp - op.done + i + 1] = buf[i]

Flushing ==
  /\ op.why = "flush"
  /\ op.left + op.done = cnt /\ cnt > 0 /\ Writing
  /\ op.then \in {"done", "close", "exit", "ssize", "lseek"}
  /\ op.then = "done" => op.kind \in {"fflush", "fputc"}
  /\ op.then = "close" => op.kind = "fclose"
  /\ op.then = "ssize" => op.kind = "seekend" /\ Text /\ ~Careful
  /\ op.then = "lseek" => /\ op.kind \in {"fseek", "seekend"} /\ (Careful => op.kind = "fseek")
                          /\ op.offs <= MaxPos
                          /\ op.offs <= Len(file) \/ op.offs <= rwp + op.left
  /\ Gone
Spilling ==
  /\ op.why = "flsbuf" /\ op.then = "put" /\ Putting
  /\ op.left + op.done = cnt /\ cnt = size /\ cnt > 0
  /\ Gone
Passing ==
  /\ op.why = "unbuffered" /\ op.then = "put" /\ Putting
  /\ op.left + op.done = 1 /\ size = 0

Outgoing ==
  /\ ~InWrite => op.done = 0
  /\ pc = "written" => op.left = 0 \/ (rwp = MaxPos /\ Has("ERR"))
  /\ InWrite => IsOpen /\ (Passing \/ Spilling \/ Flushing)

IInv == Disk /\ Slots /\ Call /\ Buffered /\ Stage /\ Outgoing /\ LinesFlushed

USE DEF Has, IsOpen, Writing, Text, fd, buffer
-----------------------------------------------------------------------------
(* Sizes, characters, and the bytes of a file.                             *)

LEMMA Sizes ==
  /\ SECSIZE \in Nat \ {0} /\ BUFSIZ \in Nat /\ BUFSIZ >= SECSIZE /\ BUFSIZ > 0
  /\ MaxPos \in Nat /\ MaxPos % SECSIZE = 0
  BY StreamAssumption

LEMMA Characters ==
  /\ {X, NL, CR, CPMETX} = Byte /\ Byte \subseteq Nat \ {0} /\ EOF \in Int /\ EOF \notin Byte
  /\ Chars \subseteq {X, NL} /\ X # NL /\ X # CR /\ X # CPMETX /\ NL # CR /\ NL # CPMETX /\ CR # CPMETX
  BY StreamAssumption DEF Byte, X, NL, CR, CPMETX, EOF

LEMMA BytesAreNumbers == \A b \in Byte \cup {0} : b \in Int
  BY DEF Byte, X, NL, CR, CPMETX

(* Two texts of the same bytes are the same. *)
LEMMA SameBytes ==
  ASSUME NEW u \in Seq(Byte), NEW v \in Seq(Byte), Len(u) = Len(v), \A i \in 1..Len(u) : u[i] = v[i]
  PROVE  u = v
<1>1. PICK n \in Nat : n = Len(u) /\ n = Len(v)
  OBVIOUS
<1>2. u = [i \in 1..n |-> u[i]] /\ v = [i \in 1..n |-> v[i]]
  BY <1>1
<1>3. [i \in 1..n |-> u[i]] = [i \in 1..n |-> v[i]]
  BY <1>1
<1> QED
  BY <1>2, <1>3

LEMMA Division ==
  ASSUME NEW a \in Nat, NEW s \in Nat \ {0}
  PROVE  a \div s \in Nat /\ a % s \in 0..(s - 1) /\ a = (s * (a \div s)) + (a % s)
  OBVIOUS

LEMMA Multiples ==
  ASSUME NEW s \in Nat \ {0}, NEW p \in Nat, NEW q \in Nat, s * p < (s * q) + s
  PROVE  s * p <= s * q
<1>1. SUFFICES ASSUME p >= q + 1 PROVE FALSE
  <2>1. p <= q => s * p <= s * q
    OBVIOUS
  <2> QED
    BY <2>1
<1>2. s * p >= s * (q + 1)
  BY <1>1
<1>3. s * (q + 1) = (s * q) + s
  OBVIOUS
<1> QED
  BY <1>2, <1>3

LEMMA AMultiple ==
  ASSUME NEW a \in Nat, NEW s \in Nat \ {0}, a % s = 0
  PROVE  \E q \in Nat : a = s * q
<1>1. a \div s \in Nat /\ a = (s * (a \div s)) + (a % s) /\ s * (a \div s) \in Nat
  BY Division
<1>2. a = s * (a \div s)
  BY <1>1
<1> QED
  BY <1>1, <1>2

LEMMA MultipleOf ==
  ASSUME NEW s \in Nat \ {0}, NEW q \in Nat
  PROVE  s * q \in Nat /\ (s * q) % s = 0
  OBVIOUS

(* Padded() is the next multiple of the sector's size. *)
LEMMA Padding ==
  ASSUME NEW n \in Nat
  PROVE  /\ Padded(n) \in Nat /\ Padded(n) >= n /\ Padded(n) % SECSIZE = 0
         /\ \A m \in Nat : m >= n /\ m % SECSIZE = 0 => Padded(n) <= m
<1> DEFINE k == (n + SECSIZE - 1) \div SECSIZE
           r == (n + SECSIZE - 1) % SECSIZE
<1>1. SECSIZE \in Nat \ {0} /\ n + SECSIZE - 1 \in Nat
  BY Sizes
<1>2. k \in Nat /\ r \in 0..(SECSIZE - 1) /\ n + SECSIZE - 1 = (SECSIZE * k) + r
  BY <1>1, Division
<1> HIDE DEF k, r
<1>3. Padded(n) = SECSIZE * k
  BY <1>1, <1>2 DEF Padded, k
<1>4. SECSIZE * k \in Nat /\ (SECSIZE * k) % SECSIZE = 0
  BY <1>1, <1>2, MultipleOf
<1>5. SECSIZE * k >= n
  BY <1>1, <1>2, <1>4
<1>6. ASSUME NEW m \in Nat, m >= n, m % SECSIZE = 0 PROVE SECSIZE * k <= m
  <2>1. PICK q \in Nat : m = SECSIZE * q
    BY <1>1, <1>6, AMultiple
  <2>2. SECSIZE * k < (SECSIZE * q) + SECSIZE
    BY <1>1, <1>2, <1>4, <1>6, <2>1
  <2> QED
    BY <1>1, <1>2, <2>1, <2>2, Multiples
<1> QED
  BY <1>3, <1>4, <1>5, <1>6

(* A sector that does not fit on the disk begins at its end.               *)
LEMMA SectorEnd ==
  ASSUME NEW a \in 0..MaxPos, NEW n \in Nat, n <= SECSIZE - (a % SECSIZE), a + n > MaxPos
  PROVE  a = MaxPos
<1>1. SECSIZE \in Nat \ {0} /\ MaxPos \in Nat /\ a \in Nat
  BY Sizes
<1>2. PICK p \in Nat, r \in 0..(SECSIZE - 1) : a = (SECSIZE * p) + r /\ r = a % SECSIZE
  BY <1>1, Division
<1>3. PICK q \in Nat : MaxPos = SECSIZE * q
  BY <1>1, Sizes, AMultiple
<1>4. SECSIZE * p \in Nat /\ SECSIZE * q \in Nat
  BY <1>1, MultipleOf
<1>5. SECSIZE * q < (SECSIZE * p) + SECSIZE
  BY <1>1, <1>2, <1>3, <1>4
<1>6. SECSIZE * q <= SECSIZE * p
  BY <1>1, <1>5, Multiples
<1> QED
  BY <1>1, <1>2, <1>3, <1>4, <1>6

(* A file that is shorter than a sector is empty. *)
LEMMA ShortIsEmpty ==
  ASSUME NEW n \in Nat, n % SECSIZE = 0, n < SECSIZE
  PROVE  n = 0
  BY Sizes

OverlayLen(n, end) == IF end > n THEN Padded(end) ELSE n

LEMMA Overlaying ==
  ASSUME NEW f \in Seq(Byte), NEW at \in 0..Len(f), NEW b \in Seq(Byte), Len(f) <= MaxPos,
         Len(f) % SECSIZE = 0
  PROVE  LET new == Overlay(f, at, b) IN
         /\ new \in Seq(Byte) /\ Len(new) = OverlayLen(Len(f), at + Len(b))
         /\ at + Len(b) <= MaxPos => Len(new) <= MaxPos
         /\ Len(new) % SECSIZE = 0
         /\ Len(new) >= Len(f) /\ Len(new) >= at + Len(b)
         /\ \A i \in 1..Len(new) : new[i] = IF i > at /\ i <= at + Len(b) THEN b[i - at]
                                            ELSE IF i <= Len(f) THEN f[i] ELSE CPMETX
<1> DEFINE end == at + Len(b)
           m == OverlayLen(Len(f), end)
           e(i) == IF i > at /\ i <= end THEN b[i - at] ELSE IF i <= Len(f) THEN f[i] ELSE CPMETX
<1>1. Len(f) \in Nat /\ Len(b) \in Nat /\ end \in Nat /\ MaxPos \in Nat
  BY Sizes
<1>2. m \in Nat /\ (end <= MaxPos => m <= MaxPos) /\ m % SECSIZE = 0 /\ m >= Len(f) /\ m >= end
  <2> HIDE DEF end
  <2>1. /\ Padded(end) \in Nat /\ Padded(end) >= end /\ Padded(end) % SECSIZE = 0
        /\ MaxPos >= end /\ MaxPos % SECSIZE = 0 => Padded(end) <= MaxPos
    BY <1>1, Padding
  <2>2. MaxPos % SECSIZE = 0
    BY Sizes
  <2> QED
    BY <1>1, <2>1, <2>2 DEF OverlayLen
<1>3. Overlay(f, at, b) = [i \in 1..m |-> e(i)]
  BY DEF Overlay, OverlayLen
<1>4. ASSUME NEW i \in 1..m PROVE e(i) \in Byte
  <2>1. CASE i > at /\ i <= end
    BY <1>1, <2>1
  <2>2. CASE ~(i > at /\ i <= end)
    BY <1>1, <1>2, <2>2, Characters
  <2> QED
    BY <2>1, <2>2
<1> HIDE DEF m, e, end
<1>5. [i \in 1..m |-> e(i)] \in Seq(Byte) /\ Len([i \in 1..m |-> e(i)]) = m
  BY <1>2, <1>4
<1>6. \A i \in 1..m : Overlay(f, at, b)[i] = e(i)
  BY <1>3
<1> QED
  BY <1>2, <1>3, <1>5, <1>6 DEF m, e, end

LEMMA Sliced ==
  ASSUME Slots, NEW n \in Nat, NEW from \in Nat, from + n <= BUFSIZ,
         \A i \in from..(from + n - 1) : buf[i] \in Byte
  PROVE  /\ Slice(from, n) \in Seq(Byte) /\ Len(Slice(from, n)) = n
         /\ \A i \in 1..n : Slice(from, n)[i] = buf[from + i - 1]
<1>1. \A i \in 1..n : buf[from + i - 1] \in Byte
  OBVIOUS
<1> QED
  BY <1>1 DEF Slice
-----------------------------------------------------------------------------
(* How a call goes on: it ends, it goes to the next byte, it writes.       *)

LEMMA Nothing ==
  /\ NoOp \in OpType /\ NoOp.todo = <<>> /\ NoOp.done = 0 /\ <<>> # <<NL>>
  /\ Blank \in [0..(BUFSIZ - 1) -> Byte \cup {0}]
  BY DEF NoOp, OpType, Calls, Blank

LEMMA Finished ==
  ASSUME NEW o \in OpType, NEW ret \in Int, Finish(o, ret)
  PROVE  /\ pc' = "done" /\ Call' /\ Stage' /\ Outgoing'
         /\ op'.kind = o.kind /\ op'.todo = o.todo /\ op'.why = o.why /\ op'.want = o.want
         /\ op'.ret = ret /\ op'.done = 0
<1>1. /\ pc' = "done" /\ op' \in OpType
      /\ op'.kind = o.kind /\ op'.todo = o.todo /\ op'.why = o.why /\ op'.want = o.want
      /\ op'.ret = ret /\ op'.done = 0
  BY Nothing DEF Finish, NoOp, OpType
<1>2. Call'
  BY <1>1 DEF Call
<1>3. Stage' /\ Outgoing'
  BY <1>1 DEF Stage, Outgoing, InWrite
<1> QED
  BY <1>1, <1>2, <1>3

LEMMA StartedWrite ==
  ASSUME NEW o \in OpType, NEW n \in Nat, NEW why \in {"flush", "flsbuf", "unbuffered"},
         NEW then \in {"done", "close", "exit", "put", "ssize", "lseek"},
         StartWrite(o, n, why, then)
  PROVE  /\ pc' = "write" /\ Call'
         /\ op'.kind = o.kind /\ op'.todo = o.todo /\ op'.offs = o.offs /\ op'.saved = o.saved
         /\ op'.left = n /\ op'.done = 0 /\ op'.why = why /\ op'.then = then
  BY DEF StartWrite, OpType, Call

LEMMA NextPut ==
  ASSUME NEW o \in OpType, NEW ret \in Int, o.kind = "fputc", o.todo \in Todo,
         Has("DIRN")', Has("WRT")', NextByte(o, ret)
  PROVE  /\ Call' /\ Stage' /\ Outgoing' /\ pc' \in {"put", "done"} /\ op'.done = 0
         /\ pc' = "done" => op'.todo = o.todo /\ op'.why = o.why /\ o.todo # <<CR, NL>>
<1>1. CASE o.todo = <<CR, NL>>
  <2>1. pc' = "put" /\ op' = [o EXCEPT !.todo = Tail(o.todo), !.done = 0] /\ Tail(o.todo) = <<NL>>
    BY <1>1 DEF NextByte
  <2>2. op' \in OpType /\ op'.kind = "fputc" /\ op'.todo \in Todo /\ op'.done = 0
    BY <2>1 DEF OpType, Todo
  <2>3. Call' /\ Outgoing'
    BY <2>1, <2>2 DEF Call, Outgoing, InWrite
  <2>4. Stage'
    BY <2>1, <2>2 DEF Stage, Putting, InWrite
  <2> QED
    BY <2>1, <2>2, <2>3, <2>4
<1>2. CASE o.todo # <<CR, NL>>
  <2>1. Len(o.todo) = 1
    BY <1>2 DEF Todo
  <2>2. Finish([o EXCEPT !.done = 0], ret)
    BY <2>1 DEF NextByte
  <2>3. /\ [o EXCEPT !.done = 0] \in OpType /\ [o EXCEPT !.done = 0].todo = o.todo
        /\ [o EXCEPT !.done = 0].why = o.why
    BY DEF OpType
  <2> QED
    BY <1>2, <2>2, <2>3, Finished
<1> QED
  BY <1>1, <1>2

LEMMA FirstByte ==
  ASSUME op.todo \in Todo
  PROVE  /\ Head(op.todo) \in Byte /\ Head(op.todo) \in Int
         /\ (IF Has("ERR") THEN EOF ELSE Head(op.todo)) \in Int
<1>1. Head(op.todo) \in {X, NL, CR}
  BY DEF Todo
<1>2. Head(op.todo) \in Byte /\ EOF \in Int /\ Byte \subseteq Int
  BY <1>1, Characters
<1> QED
  BY <1>2

(* A flush writes, or there is nothing in the buffer afterwards.           *)
LEMMA Flushes ==
  ASSUME IInv, NEW o, NEW then, Flush(o, then)
  PROVE  \/ /\ Writing /\ Has("WRT") /\ cnt > 0 /\ StartWrite(o, cnt, "flush", then) /\ UNCHANGED <<buf, cnt, ptr>>
         \/ /\ pc' = then /\ op' = o /\ cnt' = 0 /\ ptr' = 0 /\ ~(Writing /\ cnt > 0)
            /\ buf' \in [0..(BUFSIZ - 1) -> Byte \cup {0}]
<1>1. CASE Unwritten /\ ~(Has("READ") /\ ~Writing)
  BY <1>1 DEF Flush, Unwritten, IInv, Slots
<1>2. CASE Has("READ") /\ ~Writing
  BY <1>2, Nothing DEF Flush, Emptied
<1>3. CASE ~Unwritten /\ ~(Has("READ") /\ ~Writing)
  <2>1. cnt = 0 /\ ptr = 0
    BY <1>3 DEF Unwritten, IInv, Slots, Buffered
  <2> QED
    BY <1>3, <2>1 DEF Flush, IInv, Slots
<1> QED
  BY <1>1, <1>2, <1>3
-----------------------------------------------------------------------------
(* Positions, and the types of what a call begins with.                    *)

LEMMA Positions ==
  ASSUME IInv
  PROVE  /\ Tell \in Nat /\ FSize = Len(file) /\ Len(file) \in 0..MaxPos /\ rwp \in 0..Len(file)
         /\ cnt \in Nat /\ ptr \in Nat
         /\ ~Writing => Tell = rwp - cnt /\ Tell >= ptr
         /\ Writing => Tell = rwp + cnt
<1>1. /\ FSize = Len(file) /\ Len(file) \in 0..MaxPos /\ rwp \in 0..Len(file) /\ cnt \in Nat /\ ptr \in Nat
      /\ cnt > 0 => base
  BY Sizes DEF IInv, Disk, Slots, FSize, Buffered
<1> QED
  BY <1>1 DEF Tell, IInv, Buffered

(* Nobody seeks behind the end of the file but by what is in the buffer.   *)
LEMMA EndIsThere ==
  ASSUME IInv
  PROVE  /\ End \in 0..MaxPos /\ Len(file) <= End
         /\ End <= Len(file) \/ (Writing /\ cnt > 0 /\ End <= rwp + cnt)
<1>1. Tell <= Len(file) \/ (Writing /\ cnt > 0 /\ Tell = rwp + cnt)
  BY Positions
<1>2. FSize = Len(file) /\ Len(file) \in 0..MaxPos /\ Tell \in Nat /\ MaxPos \in Nat
  BY Positions, Sizes
<1> QED
  BY <1>1, <1>2 DEF End, Least

LEMMA EmptyFile == <<>> \in Seq(Byte) /\ Len(<<>>) = 0 /\ 0 % SECSIZE = 0 /\ 0 <= MaxPos
  BY Sizes

(* What comes next in a sequence of bytes is a byte or the end.            *)
LEMMA NextOfFirst ==
  ASSUME NEW s \in Seq(Byte)
  PROVE  \/ Visible(s) = {} /\ NextOf(s) = EOF
         \/ \E i \in Visible(s) : /\ \A j \in Visible(s) : i <= j
                                  /\ NextOf(s) = IF Text /\ s[i] = CPMETX THEN EOF ELSE s[i]
<1>1. CASE Visible(s) = {}
  BY <1>1 DEF NextOf
<1>2. CASE Visible(s) # {}
  <2>1. Visible(s) \in SUBSET Nat
    BY DEF Visible
  <2>2. \E i \in Visible(s) : \A j \in Visible(s) : i <= j
    BY <1>2, <2>1, LeastExists
  <2> QED
    BY <1>2, <2>2 DEF NextOf
<1> QED
  BY <1>1, <1>2

LEMMA NextOfType ==
  ASSUME NEW s \in Seq(Byte)
  PROVE  NextOf(s) \in Int
<1>1. \A i \in Visible(s) : s[i] \in Byte
  BY DEF Visible
<1> QED
  BY <1>1, NextOfFirst, Characters

(* What is still to be read of the stream. *)
Remaining == pushed \o SubSeq(file, Tell + 1 + Len(pushed), Len(file))

LEMMA RemainingType ==
  ASSUME IInv
  PROVE  /\ Remaining \in Seq(Byte) /\ Len(pushed) \in 0..1 /\ pushed \in Seq(Byte)
         /\ SubSeq(file, Tell + 1 + Len(pushed), Len(file)) \in Seq(Byte)
         /\ Wanted = NextOf(Remaining) /\ Wanted \in Int
<1>1. pushed \in Seq(Byte) /\ Len(pushed) \in 0..1
  <2>1. Chars \subseteq Byte
    BY Characters
  <2>2. CASE pushed = <<>>
    BY <2>2
  <2>3. CASE pushed # <<>>
    <3>1. PICK c \in Chars : pushed = <<c>>
      BY <2>3 DEF IInv, Slots
    <3> QED
      BY <2>1, <3>1
  <2> QED
    BY <2>2, <2>3
<1>2. file \in Seq(Byte) /\ Tell + 1 + Len(pushed) \in Nat \ {0} /\ Len(file) \in Nat
  BY <1>1, Positions DEF IInv, Disk
<1>3. SubSeq(file, Tell + 1 + Len(pushed), Len(file)) \in Seq(Byte)
  BY <1>2
<1>4. Remaining \in Seq(Byte)
  BY <1>1, <1>3 DEF Remaining
<1> QED
  BY <1>1, <1>3, <1>4, NextOfType DEF Wanted, Remaining
-----------------------------------------------------------------------------
LEMMA ReturnHolds ==
  ASSUME IInv, Return
  PROVE  IInv'
<1>1. Disk'
  BY DEF IInv, Return, Disk, NoOp
<1>2. Slots'
  BY DEF IInv, Return, Slots, Bits, NoOp
<1>3. Call'
  BY DEF IInv, Return, Call, OpType, NoOp, Calls, Todo, NoOp
<1>4. Buffered'
  BY DEF IInv, Return, Buffered, Disk, Slots, NoOp
<1>5. Stage'
  BY DEF IInv, Return, Stage, Putting, Ending, Seeking, ToEnd, InWrite, NoOp
<1>6. Outgoing'
  BY DEF IInv, Return, Outgoing, InWrite, Passing, Spilling, Flushing, Gone, Putting, NoOp, NoOp
<1>7. LinesFlushed'
  BY DEF IInv, Return, LinesFlushed, Stage, Putting, NoOp
<1> QED
  BY <1>1, <1>2, <1>3, <1>4, <1>5, <1>6, <1>7 DEF IInv


LEMMA WriteEndsHolds ==
  ASSUME IInv, WriteEnds
  PROVE  IInv'
<1>1. Disk'
  BY DEF IInv, WriteEnds, Disk, Passing, Spilling, Flushing, Gone
<1>2. Slots'
  BY DEF IInv, WriteEnds, Slots, Bits, Passing, Spilling, Flushing, Gone
<1>3. Call'
  BY DEF IInv, WriteEnds, Call, OpType, NoOp, Calls, Todo, Passing, Spilling, Flushing, Gone
<1>4. Buffered'
  BY DEF IInv, WriteEnds, Buffered, Disk, Slots, Passing, Spilling, Flushing, Gone
<1>5. Stage'
  BY DEF IInv, WriteEnds, Stage, Putting, Ending, Seeking, ToEnd, InWrite, Passing, Spilling, Flushing, Gone
<1>6. Outgoing'
  BY DEF IInv, WriteEnds, Outgoing, InWrite, Passing, Spilling, Flushing, Gone, Putting, NoOp, Passing, Spilling, Flushing, Gone
<1>7. LinesFlushed'
  BY DEF IInv, WriteEnds, LinesFlushed, Stage, Putting, Passing, Spilling, Flushing, Gone
<1> QED
  BY <1>1, <1>2, <1>3, <1>4, <1>5, <1>6, <1>7 DEF IInv


LEMMA FcloseHolds ==
  ASSUME IInv, Fclose
  PROVE  IInv'
<1>1. Finish(op, (IF Has("ERR") THEN EOF ELSE 0)) /\ op \in OpType /\ (IF Has("ERR") THEN EOF ELSE 0) \in Int
  BY Characters, Nothing DEF IInv, Fclose, Call, OpType, Calls
<1>2. Call' /\ Stage' /\ Outgoing' /\ pc' = "done" /\ op'.kind = op.kind /\ op'.todo = op.todo
  BY <1>1, Finished
<1>3. Disk'
  BY <1>2, Sizes DEF IInv, Fclose, Disk, Shut, Stage
<1>4. Slots'
  BY <1>2, Sizes DEF IInv, Fclose, Slots, Bits, Shut, Stage
<1>5. Buffered'
  BY <1>2, Sizes DEF IInv, Fclose, Buffered, Disk, Slots, Shut, Stage
<1>6. LinesFlushed'
  BY <1>2, Sizes DEF IInv, Fclose, LinesFlushed, Stage, Putting, Shut, Stage
<1> QED
  BY <1>2, <1>3, <1>4, <1>5, <1>6 DEF IInv


LEMMA ExitCloseHolds ==
  ASSUME IInv, ExitClose
  PROVE  IInv'
<1>1. Disk'
  BY Sizes, Nothing DEF IInv, ExitClose, Disk, Shut, NoOp
<1>2. Slots'
  BY Sizes, Nothing DEF IInv, ExitClose, Slots, Bits, Shut, NoOp
<1>3. Call'
  BY Sizes, Nothing DEF IInv, ExitClose, Call, OpType, NoOp, Calls, Todo, Shut, NoOp
<1>4. Buffered'
  BY <1>1, <1>2 DEF IInv, ExitClose, Buffered, Disk, Slots, Stage, Shut
<1>5. Stage'
  BY Sizes, Nothing DEF IInv, ExitClose, Stage, Putting, Ending, Seeking, ToEnd, InWrite, Shut, NoOp
<1>6. Outgoing'
  BY Sizes, Nothing DEF IInv, ExitClose, Outgoing, InWrite, Passing, Spilling, Flushing, Gone, Putting, NoOp, Shut, NoOp
<1>7. LinesFlushed'
  BY Sizes, Nothing DEF IInv, ExitClose, LinesFlushed, Stage, Putting, Shut, NoOp
<1> QED
  BY <1>1, <1>2, <1>3, <1>4, <1>5, <1>6, <1>7 DEF IInv


LEMMA FputcRefusedHolds ==
  ASSUME IInv, FputcRefused
  PROVE  IInv'
<1>1. Finish([NoOp EXCEPT !.kind = "fputc"], EOF) /\ [NoOp EXCEPT !.kind = "fputc"] \in OpType /\ EOF \in Int
  BY Characters, Nothing DEF IInv, FputcRefused, Call, OpType, Calls
<1>2. Call' /\ Stage' /\ Outgoing' /\ pc' = "done" /\ op'.kind = [NoOp EXCEPT !.kind = "fputc"].kind /\ op'.todo = [NoOp EXCEPT !.kind = "fputc"].todo
  BY <1>1, Finished
<1>3. Disk'
  BY <1>2, Characters DEF IInv, FputcRefused, Disk, NoOp
<1>4. Slots'
  BY <1>2, Characters DEF IInv, FputcRefused, Slots, Bits, NoOp
<1>5. Buffered'
  BY <1>2, Characters DEF IInv, FputcRefused, Buffered, Disk, Slots, NoOp
<1>6. LinesFlushed'
  <2>1. [NoOp EXCEPT !.kind = "fputc"].todo = <<>>
    BY Nothing DEF OpType
  <2> QED
    BY <1>2, <2>1, Nothing DEF LinesFlushed
<1> QED
  BY <1>2, <1>3, <1>4, <1>5, <1>6 DEF IInv


LEMMA FgetcBlockedHolds ==
  ASSUME IInv, FgetcBlocked
  PROVE  IInv'
<1> DEFINE o == [NoOp EXCEPT !.kind = "fgetc", !.want = Owed]
<1>1. Owed \in Int
  BY RemainingType, NextOfType, Characters DEF Owed, Wanted, Remaining
<1>2. o \in OpType /\ o.kind = "fgetc"
  BY <1>1, Nothing DEF OpType, Calls
<1>3. Finish(o, EOF) /\ EOF \in Int /\ flag' = flag \cup {"EOF"} /\ UNCHANGED <<fd, buffer, tty, pushed>>
  BY Characters DEF FgetcBlocked
<1> HIDE DEF o
<1>4. Call' /\ Stage' /\ Outgoing' /\ pc' = "done" /\ op'.kind = "fgetc"
  BY <1>2, <1>3, Finished
<1>5. Disk' /\ Slots'
  BY <1>3 DEF IInv, Disk, Slots, Bits
<1>6. Buffered'
  BY <1>3, <1>4 DEF IInv, FgetcBlocked, Buffered
<1>7. LinesFlushed'
  BY <1>4 DEF LinesFlushed
<1> QED
  BY <1>4, <1>5, <1>6, <1>7 DEF IInv


LEMMA FopenNoFileHolds ==
  ASSUME IInv, NEW m \in Modes, FopenNoFile(m)
  PROVE  IInv'
<1>1. Disk'
  BY StreamAssumption, Nothing DEF IInv, FopenNoFile, Disk, NoOp, Buffered
<1>2. Slots'
  BY StreamAssumption, Nothing DEF IInv, FopenNoFile, Slots, Bits, NoOp, Buffered
<1>3. Call'
  BY StreamAssumption, Nothing DEF IInv, FopenNoFile, Call, OpType, NoOp, Calls, Todo, NoOp, Buffered
<1>4. Buffered'
  BY StreamAssumption, Nothing DEF IInv, FopenNoFile, Buffered, Disk, Slots, NoOp, Buffered
<1>5. Stage'
  BY StreamAssumption, Nothing DEF IInv, FopenNoFile, Stage, Putting, Ending, Seeking, ToEnd, InWrite, NoOp, Buffered
<1>6. Outgoing'
  BY StreamAssumption, Nothing DEF IInv, FopenNoFile, Outgoing, InWrite, Passing, Spilling, Flushing, Gone, Putting, NoOp, NoOp, Buffered
<1>7. LinesFlushed'
  BY StreamAssumption, Nothing DEF IInv, FopenNoFile, LinesFlushed, Stage, Putting, NoOp, Buffered
<1> QED
  BY <1>1, <1>2, <1>3, <1>4, <1>5, <1>6, <1>7 DEF IInv


LEMMA FopenNoMemoryHolds ==
  ASSUME IInv, NEW m \in Modes, FopenNoMemory(m)
  PROVE  IInv'
<1>1. Disk'
  <2>1. file' \in {file, <<>>} /\ rwp' = 0
    BY DEF FopenNoMemory
  <2>2. CASE file' = file
    BY <2>1, <2>2, Sizes DEF IInv, Disk
  <2>3. CASE file' = <<>>
    BY <2>1, <2>3, EmptyFile DEF Disk
  <2> QED
    BY <2>1, <2>2, <2>3
<1>2. Slots'
  BY Sizes, Nothing, EmptyFile DEF IInv, FopenNoMemory, Slots, Bits, NoOp
<1>3. Call'
  BY Sizes, Nothing, EmptyFile DEF IInv, FopenNoMemory, Call, OpType, NoOp, Calls, Todo, NoOp
<1>4. Buffered'
  BY Sizes, Nothing, EmptyFile DEF IInv, FopenNoMemory, Buffered, Disk, Slots, NoOp
<1>5. Stage'
  BY Sizes, Nothing, EmptyFile DEF IInv, FopenNoMemory, Stage, Putting, Ending, Seeking, ToEnd, InWrite, NoOp
<1>6. Outgoing'
  BY Sizes, Nothing, EmptyFile DEF IInv, FopenNoMemory, Outgoing, InWrite, Passing, Spilling, Flushing, Gone, Putting, NoOp, NoOp
<1>7. LinesFlushed'
  BY Sizes, Nothing, EmptyFile DEF IInv, FopenNoMemory, LinesFlushed, Stage, Putting, NoOp
<1> QED
  BY <1>1, <1>2, <1>3, <1>4, <1>5, <1>6, <1>7 DEF IInv


LEMMA SetvbufHolds ==
  ASSUME IInv, NEW mode \in Buffering, Setvbuf(mode)
  PROVE  IInv'
<1>1. Disk'
  BY Sizes DEF IInv, Setvbuf, Disk, NoOp
<1>2. Slots'
  BY Sizes DEF IInv, Setvbuf, Slots, Bits, NoOp
<1>3. Call'
  BY Sizes DEF IInv, Setvbuf, Call, OpType, NoOp, Calls, Todo, NoOp
<1>4. Buffered'
  BY Sizes DEF IInv, Setvbuf, Buffered, Disk, Slots, NoOp
<1>5. Stage'
  BY Sizes DEF IInv, Setvbuf, Stage, Putting, Ending, Seeking, ToEnd, InWrite, NoOp
<1>6. Outgoing'
  BY Sizes DEF IInv, Setvbuf, Outgoing, InWrite, Passing, Spilling, Flushing, Gone, Putting, NoOp, NoOp
<1>7. LinesFlushed'
  BY Sizes DEF IInv, Setvbuf, LinesFlushed, Stage, Putting, NoOp
<1> QED
  BY <1>1, <1>2, <1>3, <1>4, <1>5, <1>6, <1>7 DEF IInv


LEMMA FputcCallHolds ==
  ASSUME IInv, NEW c \in Chars, FputcCall(c)
  PROVE  IInv'
<1>1. Disk'
  BY Sizes, Characters DEF IInv, FputcCall, Disk, Turns, Spelled, NoOp
<1>2. Slots'
  BY Sizes, Characters DEF IInv, FputcCall, Slots, Bits, Turns, Spelled, NoOp
<1>3. Call' /\ pc' = "put" /\ Putting' /\ op'.done = 0
  <2>1. Spelled(c) \in Todo
    BY Characters DEF Spelled, Todo
  <2>2. op' \in OpType /\ op'.kind = "fputc" /\ op'.todo = Spelled(c) /\ op'.done = 0
    BY <2>1, Nothing DEF FputcCall, OpType, Calls
  <2> QED
    BY <2>1, <2>2 DEF FputcCall, Call, Putting, Turns
<1>4. Buffered'
  BY Sizes, Characters DEF IInv, FputcCall, Buffered, Disk, Slots, Turns, Spelled, NoOp
<1>5. Stage'
  BY <1>3 DEF Stage, InWrite
<1>6. Outgoing'
  BY <1>3 DEF Outgoing, InWrite
<1>7. LinesFlushed'
  BY Sizes, Characters DEF IInv, FputcCall, LinesFlushed, Stage, Putting, Turns, Spelled, NoOp
<1> QED
  BY <1>1, <1>2, <1>3, <1>4, <1>5, <1>6, <1>7 DEF IInv


LEMMA FgetcCallHolds ==
  ASSUME IInv, FgetcCall
  PROVE  IInv'
<1>1. Disk'
  BY Sizes, Characters, RemainingType DEF IInv, FgetcCall, Disk, Blocked, NoOp
<1>2. Slots'
  BY Sizes, Characters, RemainingType DEF IInv, FgetcCall, Slots, Bits, Blocked, NoOp
<1>3. Call'
  <2>1. Wanted \in Int
    BY RemainingType
  <2> QED
    BY <2>1, Nothing DEF FgetcCall, Call, OpType, Calls
<1>4. Buffered'
  BY Sizes, Characters, RemainingType DEF IInv, FgetcCall, Buffered, Disk, Slots, Blocked, NoOp
<1>5. Stage'
  BY Sizes, Characters, RemainingType DEF IInv, FgetcCall, Stage, Putting, Ending, Seeking, ToEnd, InWrite, Blocked, NoOp
<1>6. Outgoing'
  BY Sizes, Characters, RemainingType DEF IInv, FgetcCall, Outgoing, InWrite, Passing, Spilling, Flushing, Gone, Putting, NoOp, Blocked, NoOp
<1>7. LinesFlushed'
  BY Sizes, Characters, RemainingType DEF IInv, FgetcCall, LinesFlushed, Stage, Putting, Blocked, NoOp
<1> QED
  BY <1>1, <1>2, <1>3, <1>4, <1>5, <1>6, <1>7 DEF IInv


LEMMA UngetcHolds ==
  ASSUME IInv, NEW c \in Chars, Ungetc(c)
  PROVE  IInv'
<1>1. Disk'
  BY Sizes, Characters DEF IInv, Ungetc, Disk
<1>2. Slots'
  BY Sizes, Characters DEF IInv, Ungetc, Slots, Bits
<1>3. Call'
  BY Sizes, Characters DEF IInv, Ungetc, Call, OpType, NoOp, Calls, Todo
<1>4. Buffered'
  BY Sizes, Characters DEF IInv, Ungetc, Buffered, Disk, Slots
<1>5. Stage'
  BY Sizes, Characters DEF IInv, Ungetc, Stage, Putting, Ending, Seeking, ToEnd, InWrite
<1>6. Outgoing'
  BY Sizes, Characters DEF IInv, Ungetc, Outgoing, InWrite, Passing, Spilling, Flushing, Gone, Putting, NoOp
<1>7. LinesFlushed'
  BY Sizes, Characters DEF IInv, Ungetc, LinesFlushed, Stage, Putting
<1> QED
  BY <1>1, <1>2, <1>3, <1>4, <1>5, <1>6, <1>7 DEF IInv


LEMMA SeekUnbufferedHolds ==
  ASSUME IInv, NEW offs \in 0..End, SeekUnbuffered(offs)
  PROVE  IInv'
<1>1. Disk'
  BY Sizes, EndIsThere DEF IInv, SeekUnbuffered, Disk, NoOp, Buffered
<1>2. Slots'
  BY Sizes, EndIsThere DEF IInv, SeekUnbuffered, Slots, Bits, NoOp, Buffered
<1>3. Call'
  BY Sizes, EndIsThere DEF IInv, SeekUnbuffered, Call, OpType, NoOp, Calls, Todo, NoOp, Buffered
<1>4. Buffered'
  BY Sizes, EndIsThere DEF IInv, SeekUnbuffered, Buffered, Disk, Slots, NoOp, Buffered
<1>5. Stage'
  BY Sizes, EndIsThere DEF IInv, SeekUnbuffered, Stage, Putting, Ending, Seeking, ToEnd, InWrite, NoOp, Buffered
<1>6. Outgoing'
  BY Sizes, EndIsThere DEF IInv, SeekUnbuffered, Outgoing, InWrite, Passing, Spilling, Flushing, Gone, Putting, NoOp, NoOp, Buffered
<1>7. LinesFlushed'
  BY Sizes, EndIsThere DEF IInv, SeekUnbuffered, LinesFlushed, Stage, Putting, NoOp, Buffered
<1> QED
  BY <1>1, <1>2, <1>3, <1>4, <1>5, <1>6, <1>7 DEF IInv


LEMMA FseekHolds ==
  ASSUME IInv, NEW offs \in 0..End, Fseek(offs)
  PROVE  IInv'
<1>1. Disk'
  BY Sizes, EndIsThere DEF IInv, Fseek, Disk, NoOp, Slots, Disk, End, Tell, FSize, Least
<1>2. Slots'
  BY Sizes, EndIsThere DEF IInv, Fseek, Slots, Bits, NoOp, Slots, Disk, End, Tell, FSize, Least
<1>3. Call'
  <2>1. offs \in Nat
    BY EndIsThere, Sizes
  <2> QED
    BY <2>1, Nothing DEF Fseek, Call, OpType, Calls
<1>4. Buffered'
  BY Sizes, EndIsThere DEF IInv, Fseek, Buffered, Disk, Slots, NoOp, Slots, Disk, End, Tell, FSize, Least
<1>5. Stage'
  BY Sizes, EndIsThere DEF IInv, Fseek, Stage, Putting, Ending, Seeking, ToEnd, InWrite, NoOp, Slots, Disk, End, Tell, FSize, Least
<1>6. Outgoing'
  BY Sizes, EndIsThere DEF IInv, Fseek, Outgoing, InWrite, Passing, Spilling, Flushing, Gone, Putting, NoOp, NoOp, Slots, Disk, End, Tell, FSize, Least
<1>7. LinesFlushed'
  BY Sizes, EndIsThere DEF IInv, Fseek, LinesFlushed, Stage, Putting, NoOp, Slots, Disk, End, Tell, FSize, Least
<1> QED
  BY <1>1, <1>2, <1>3, <1>4, <1>5, <1>6, <1>7 DEF IInv


LEMMA FseekEndHolds ==
  ASSUME IInv, Careful => ~Unwritten, FseekEnd
  PROVE  IInv'
<1>1. Disk'
  BY Sizes DEF IInv, FseekEnd, Disk, NoOp, Unwritten, Buffered
<1>2. Slots'
  BY Sizes DEF IInv, FseekEnd, Slots, Bits, NoOp, Unwritten, Buffered
<1>3. Call'
  BY Nothing DEF IInv, FseekEnd, Call, OpType, Calls
<1>4. Buffered'
  BY Sizes DEF IInv, FseekEnd, Buffered, Disk, Slots, NoOp, Unwritten, Buffered
<1>5. Stage'
  BY Sizes DEF IInv, FseekEnd, Stage, Putting, Ending, Seeking, ToEnd, InWrite, NoOp, Unwritten, Buffered
<1>6. Outgoing'
  BY Sizes DEF IInv, FseekEnd, Outgoing, InWrite, Passing, Spilling, Flushing, Gone, Putting, NoOp, NoOp, Unwritten, Buffered
<1>7. LinesFlushed'
  BY Sizes DEF IInv, FseekEnd, LinesFlushed, Stage, Putting, NoOp, Unwritten, Buffered
<1> QED
  BY <1>1, <1>2, <1>3, <1>4, <1>5, <1>6, <1>7 DEF IInv


LEMMA EndBinaryHolds ==
  ASSUME IInv, EndBinary
  PROVE  IInv'
<1>1. Disk'
  BY Sizes, EndIsThere, Positions DEF IInv, EndBinary, Disk, NoOp, Slots, Disk, End, Tell, FSize, Least
<1>2. Slots'
  BY Sizes, EndIsThere, Positions DEF IInv, EndBinary, Slots, Bits, NoOp, Slots, Disk, End, Tell, FSize, Least
<1>3. Call'
  <2>1. FSize \in Nat
    BY Positions
  <2> QED
    BY <2>1 DEF IInv, EndBinary, Call, OpType
<1>4. Buffered'
  BY Sizes, EndIsThere, Positions DEF IInv, EndBinary, Buffered, Disk, Slots, NoOp, Slots, Disk, End, Tell, FSize, Least
<1>5. Stage'
  BY Sizes, EndIsThere, Positions DEF IInv, EndBinary, Stage, Putting, Ending, Seeking, ToEnd, InWrite, NoOp, Slots, Disk, End, Tell, FSize, Least
<1>6. Outgoing'
  BY Sizes, EndIsThere, Positions DEF IInv, EndBinary, Outgoing, InWrite, Passing, Spilling, Flushing, Gone, Putting, NoOp, NoOp, Slots, Disk, End, Tell, FSize, Least
<1>7. LinesFlushed'
  BY Sizes, EndIsThere, Positions DEF IInv, EndBinary, LinesFlushed, Stage, Putting, NoOp, Slots, Disk, End, Tell, FSize, Least
<1> QED
  BY <1>1, <1>2, <1>3, <1>4, <1>5, <1>6, <1>7 DEF IInv


LEMMA LseekHolds ==
  ASSUME IInv, Lseek
  PROVE  IInv'
<1>1. Finish(op, 0) /\ op \in OpType /\ 0 \in Int
  BY Nothing DEF IInv, Lseek, Call, OpType, Calls
<1>2. Call' /\ Stage' /\ Outgoing' /\ pc' = "done" /\ op'.kind = op.kind /\ op'.todo = op.todo
  BY <1>1, Finished
<1>3. Disk'
  BY DEF IInv, Lseek, Disk, Call, OpType, Stage
<1>4. Slots'
  BY <1>2, Sizes, Nothing DEF IInv, Lseek, Slots, Bits, Emptied, Stage, Seeking
<1>5. Buffered'
  BY <1>2, <1>3, <1>4, Sizes DEF IInv, Lseek, Buffered, Emptied, Disk, Slots, Stage, Seeking
<1>6. LinesFlushed'
  BY <1>2, Sizes, Nothing DEF IInv, Lseek, LinesFlushed, Stage, Putting, Emptied, Stage, Seeking
<1> QED
  BY <1>2, <1>3, <1>4, <1>5, <1>6 DEF IInv


LEMMA SeekNearHolds ==
  ASSUME IInv, SeekNear
  PROVE  IInv'
<1>1. Finish(op, 0) /\ op \in OpType /\ op.kind # "fputc"
  BY DEF IInv, SeekNear, Call, Stage, Seeking
<1>2. Call' /\ Stage' /\ Outgoing' /\ pc' = "done" /\ op'.kind = op.kind
  BY <1>1, Finished
<1>3. PICK d \in 0..cnt : cnt' = cnt - d /\ ptr' = ptr + d
  BY DEF SeekNear
<1>4. /\ Has("READ") /\ ~Has("WRT") /\ base /\ ~Writing
      /\ cnt \in 0..size /\ ptr \in 0..size /\ ptr + cnt <= size /\ size \in Nat /\ ptr + cnt <= rwp
  BY Sizes DEF IInv, SeekNear, Stage, Seeking, Slots, Buffered
<1>5. Disk'
  BY DEF IInv, SeekNear, Disk
<1>6. cnt' \in 0..size /\ ptr' \in 0..size /\ ptr' + cnt' = ptr + cnt
  BY <1>3, <1>4
<1>7. Slots'
  BY <1>6 DEF IInv, SeekNear, Slots
<1>8. Buffered'
  BY <1>2, <1>4, <1>6 DEF IInv, SeekNear, Buffered
<1>9. LinesFlushed'
  BY <1>1, <1>2 DEF LinesFlushed
<1> QED
  BY <1>2, <1>5, <1>7, <1>8, <1>9 DEF IInv


LEMMA PutFullHolds ==
  ASSUME IInv, PutFull
  PROVE  IInv'
<1>1. /\ StartWrite(op, cnt, "flsbuf", "put") /\ op \in OpType /\ Putting /\ op.done = 0
      /\ cnt = size /\ size # 0 /\ size \in Nat /\ rwp \in Nat
      /\ UNCHANGED <<fd, flag, buffer, tty, pushed>>
  BY Sizes DEF IInv, PutFull, Call, Slots, Disk, Stage, Outgoing, InWrite
<1>2. /\ pc' = "write" /\ Call' /\ op'.kind = op.kind /\ op'.todo = op.todo
      /\ op'.left = cnt /\ op'.done = 0 /\ op'.why = "flsbuf" /\ op'.then = "put"
  BY <1>1, StartedWrite
<1>3. Disk' /\ Slots' /\ Buffered'
  BY <1>1, <1>2, Sizes DEF IInv, PutFull, Disk, Slots, Buffered
<1>4. Putting' /\ IsOpen'
  BY <1>1, <1>2 DEF Putting
<1>5. Gone'
  BY <1>1, <1>2 DEF Gone
<1>6. Spilling'
  BY <1>1, <1>2, <1>4, <1>5 DEF Spilling
<1>7. Outgoing'
  BY <1>2, <1>4, <1>6 DEF Outgoing, InWrite
<1>8. Stage' /\ LinesFlushed'
  BY <1>2 DEF Stage, LinesFlushed, InWrite
<1> QED
  BY <1>2, <1>3, <1>7, <1>8 DEF IInv

LEMMA FlsbufHolds ==
  ASSUME IInv, Flsbuf
  PROVE  IInv'
<1>1. /\ Spilling /\ op \in OpType /\ op.kind = "fputc" /\ op.todo \in Todo /\ Writing /\ Has("WRT")
      /\ size = BUFSIZ /\ base
  BY Sizes DEF IInv, Flsbuf, Call, Slots, Buffered, Outgoing, InWrite, Passing, Spilling, Flushing, Putting
<1>2. /\ NextByte(op, IF Has("ERR") THEN EOF ELSE Head(op.todo)) /\ PutFirst(Head(op.todo))
      /\ UNCHANGED <<fd, flag, base, size, tty, pushed>>
  BY DEF Flsbuf
<1>3. Has("DIRN")' /\ Has("WRT")' /\ Head(op.todo) \in Byte /\ (IF Has("ERR") THEN EOF ELSE Head(op.todo)) \in Int
  BY <1>1, <1>2, FirstByte
<1>4. /\ Call' /\ Stage' /\ Outgoing' /\ pc' \in {"put", "done"}
      /\ pc' = "done" => op'.todo = op.todo /\ op'.why = "flsbuf"
  BY <1>1, <1>2, <1>3, NextPut DEF Spilling
<1>5. /\ buf' \in [0..(BUFSIZ - 1) -> Byte \cup {0}] /\ buf'[0] \in Byte /\ ptr' = 1 /\ cnt' = 1
      /\ buf'[0] = Head(op.todo)
  BY <1>2, <1>3, Nothing, Sizes DEF PutFirst
<1>6. Disk' /\ Slots'
  BY <1>1, <1>2, <1>5, Sizes DEF IInv, Disk, Slots
<1>7. Buffered'
  BY <1>1, <1>2, <1>4, <1>5 DEF IInv, Buffered
<1>8. LinesFlushed'
  <2>1. op.todo = <<NL>> => buf'[0] = NL
    BY <1>5
  <2> QED
    BY <1>4, <1>5, <2>1 DEF LinesFlushed
<1> QED
  BY <1>4, <1>6, <1>7, <1>8 DEF IInv

LEMMA PutUnbufferedHolds ==
  ASSUME IInv, PutUnbuffered
  PROVE  IInv'
<1>1. /\ op \in OpType /\ op.kind = "fputc" /\ op.todo \in Todo /\ Writing /\ Has("WRT") /\ size = 0 /\ cnt = 0
      /\ op.why = "unbuffered"
  BY Sizes DEF IInv, PutUnbuffered, Call, Slots, Outgoing, InWrite, Passing, Spilling, Flushing, Putting
<1>2. /\ NextByte(op, IF op.done = 1 THEN Head(op.todo) ELSE EOF)
      /\ UNCHANGED <<fd, flag, buffer, tty, pushed>>
  BY DEF PutUnbuffered
<1>3. Has("DIRN")' /\ Has("WRT")' /\ (IF op.done = 1 THEN Head(op.todo) ELSE EOF) \in Int
  BY <1>1, <1>2, FirstByte, Characters
<1>4. /\ Call' /\ Stage' /\ Outgoing' /\ pc' \in {"put", "done"}
      /\ pc' = "done" => op'.why = "unbuffered"
  BY <1>1, <1>2, <1>3, NextPut
<1>5. Disk' /\ Slots'
  BY <1>2 DEF IInv, Disk, Slots
<1>6. Buffered'
  BY <1>2, <1>4 DEF IInv, PutUnbuffered, Buffered
<1>7. LinesFlushed'
  BY <1>1, <1>2, <1>4 DEF LinesFlushed
<1> QED
  BY <1>4, <1>5, <1>6, <1>7 DEF IInv

(* A stream without a buffer puts the byte through, or gets a buffer.      *)
LEMMA PutNoBufferHolds ==
  ASSUME IInv, PutNoBuffer
  PROVE  IInv'
<1>1. /\ op \in OpType /\ Putting /\ op.done = 0 /\ op.todo \in Todo /\ op.kind = "fputc"
      /\ Writing /\ Has("WRT") /\ size = 0 /\ cnt = 0 /\ ptr = 0 /\ ~base /\ pc = "put"
      /\ UNCHANGED <<fd, tty, pushed>>
  BY Sizes DEF IInv, PutNoBuffer, Call, Slots, Stage, Outgoing, InWrite, Putting, Buffered
<1>2. CASE /\ base' = FALSE /\ size' = 0 /\ cnt' = 0 /\ flag' = flag \cup {"NBF"}
           /\ StartWrite(op, 1, "unbuffered", "put") /\ UNCHANGED <<buf, ptr>>
  <2>1. /\ pc' = "write" /\ Call' /\ op'.kind = op.kind /\ op'.todo = op.todo
        /\ op'.left = 1 /\ op'.done = 0 /\ op'.why = "unbuffered" /\ op'.then = "put"
    BY <1>1, <1>2, StartedWrite
  <2>2. Disk' /\ Slots' /\ Buffered'
    BY <1>1, <1>2, <2>1, Sizes DEF IInv, Disk, Slots, Buffered, Bits
  <2>3. Putting' /\ IsOpen'
    BY <1>1, <1>2, <2>1 DEF Putting
  <2>4. Passing'
    BY <1>2, <2>1, <2>3 DEF Passing
  <2>5. Outgoing'
    BY <2>1, <2>3, <2>4 DEF Outgoing, InWrite
  <2>6. Stage' /\ LinesFlushed'
    BY <2>1 DEF Stage, LinesFlushed, InWrite
  <2> QED
    BY <2>1, <2>2, <2>5, <2>6 DEF IInv
<1>3. CASE /\ base' = TRUE /\ size' = BUFSIZ /\ PutFirst(Head(op.todo)) /\ UNCHANGED flag
           /\ NextByte(op, IF Has("ERR") THEN EOF ELSE Head(op.todo))
  <2>1. Has("DIRN")' /\ Has("WRT")' /\ Head(op.todo) \in Byte /\ (IF Has("ERR") THEN EOF ELSE Head(op.todo)) \in Int
    BY <1>1, <1>3, FirstByte
  <2>2. Call' /\ Stage' /\ Outgoing' /\ pc' \in {"put", "done"}
    BY <1>1, <1>3, <2>1, NextPut
  <2>3. /\ buf' \in [0..(BUFSIZ - 1) -> Byte \cup {0}] /\ buf'[0] \in Byte /\ ptr' = 1 /\ cnt' = 1
    BY <1>3, <2>1, Nothing, Sizes DEF PutFirst
  <2>4. Disk' /\ Slots'
    BY <1>1, <1>3, <2>3, Sizes DEF IInv, Disk, Slots
  <2>5. Buffered'
    BY <1>1, <1>3, <2>2, <2>3 DEF IInv, Buffered
  <2>6. LinesFlushed'
    BY <1>1, <1>3, Sizes DEF LinesFlushed, IInv, Buffered
  <2> QED
    BY <2>2, <2>4, <2>5, <2>6 DEF IInv
<1> QED
  BY <1>2, <1>3 DEF PutNoBuffer

(* A byte is put into the buffer; a line end sends the buffer out.         *)
LEMMA PutByteHolds ==
  ASSUME IInv, PutByte
  PROVE  IInv'
<1>1. /\ op \in OpType /\ Putting /\ op.done = 0 /\ op.todo \in Todo /\ op.kind = "fputc" /\ pc = "put"
      /\ Writing /\ Has("WRT") /\ UNCHANGED <<fd, flag, base, size, tty, pushed>>
      /\ ptr = cnt /\ cnt \in 0..(BUFSIZ - 1) /\ size = BUFSIZ /\ base
  BY Sizes DEF IInv, PutByte, Call, Slots, Stage, Outgoing, InWrite, Putting, Buffered
<1>2. Head(op.todo) \in Byte /\ Head(op.todo) \in Int
  BY <1>1, FirstByte
<1>3. /\ buf' \in [0..(BUFSIZ - 1) -> Byte \cup {0}] /\ ptr' = cnt + 1 /\ cnt' = cnt + 1
      /\ \A i \in 0..cnt : buf'[i] \in Byte
  <2>1. buf' = [buf EXCEPT ![cnt] = Head(op.todo)] /\ ptr' = cnt + 1 /\ cnt' = cnt + 1
    BY <1>1 DEF PutByte
  <2>2. buf \in [0..(BUFSIZ - 1) -> Byte \cup {0}] /\ \A i \in 0..(cnt - 1) : buf[i] \in Byte
    BY <1>1 DEF IInv, Slots, Buffered
  <2> QED
    BY <1>1, <1>2, <2>1, <2>2, Sizes
<1>4. Disk' /\ Slots'
  BY <1>1, <1>3, Sizes DEF IInv, Disk, Slots
<1>5. CASE LineEnds /\ StartWrite(op, cnt + 1, "flush", "done")
  <2>1. /\ pc' = "write" /\ Call' /\ op'.kind = op.kind /\ op'.todo = op.todo
        /\ op'.left = cnt + 1 /\ op'.done = 0 /\ op'.why = "flush" /\ op'.then = "done"
    BY <1>1, <1>5, StartedWrite
  <2>2. Buffered'
    BY <1>1, <1>3, <2>1 DEF IInv, Buffered
  <2>3. Gone'
    BY <1>1, <2>1 DEF Gone, IInv, Disk
  <2>4. Flushing'
    BY <1>1, <1>3, <2>1, <2>3 DEF Flushing
  <2>5. Outgoing'
    BY <1>1, <2>1, <2>4 DEF Outgoing, InWrite
  <2>6. Stage' /\ LinesFlushed'
    BY <2>1 DEF Stage, LinesFlushed, InWrite
  <2> QED
    BY <1>4, <2>1, <2>2, <2>5, <2>6 DEF IInv
<1>6. CASE ~LineEnds /\ NextByte(op, Head(op.todo))
  <2>1. /\ Call' /\ Stage' /\ Outgoing' /\ pc' \in {"put", "done"}
        /\ pc' = "done" => op'.todo = op.todo
    BY <1>1, <1>2, <1>6, NextPut
  <2>2. Buffered'
    BY <1>1, <1>3, <2>1 DEF IInv, Buffered
  <2>3. LinesFlushed'
    <3>1. SUFFICES ASSUME op.todo = <<NL>>, Has("LBF") PROVE FALSE
      BY <1>1, <2>1 DEF LinesFlushed
    <3>2. Head(op.todo) = NL
      BY <3>1
    <3> QED
      BY <1>1, <1>6, <3>1, <3>2 DEF LineEnds
  <2> QED
    BY <1>4, <2>1, <2>2, <2>3 DEF IInv
<1> QED
  BY <1>5, <1>6 DEF PutByte
-----------------------------------------------------------------------------
(* A flush that has something to write begins to; otherwise the buffer is  *)
(* empty after it.                                                         *)
LEMMA FlushBegins ==
  ASSUME IInv, NEW o \in OpType, NEW then \in {"done", "close", "exit", "ssize", "lseek"},
         Flush(o, then), UNCHANGED <<fd, flag, base, size, tty>>, pushed' \in {pushed, <<>>},
         then = "done" => o.kind \in {"fflush", "fputc"},
         then = "close" => o.kind = "fclose",
         then = "ssize" => /\ o.kind = "seekend" /\ Text
                           /\ o.saved \subseteq Bits \ {"LBF", "DIRN"}
                           /\ \A b \in {"READ", "WRT", "BINARY"} : b \in o.saved <=> Has(b),
         then = "lseek" => o.kind \in {"fseek", "seekend"} /\ o.offs <= End,
         Careful /\ o.kind = "seekend" => ~(Writing /\ cnt > 0),
         pc \notin {"lost", "exit"} \/ then = "exit"
  PROVE  \/ IInv' /\ pc' = "write"
         \/ /\ pc' = then /\ op' = o /\ cnt' = 0 /\ ptr' = 0 /\ Disk' /\ Slots' /\ Buffered'
            /\ ~(Writing /\ cnt > 0)
<1>1. CASE /\ Writing /\ Has("WRT") /\ cnt > 0 /\ StartWrite(o, cnt, "flush", then) /\ UNCHANGED <<buf, cnt, ptr>>
  <2>1. cnt \in Nat /\ IsOpen /\ rwp \in Nat /\ pc \notin {"lost", "exit"}
    BY <1>1, Sizes DEF IInv, Slots, Disk, Stage
  <2>2. /\ pc' = "write" /\ Call' /\ op'.kind = o.kind /\ op'.offs = o.offs /\ op'.saved = o.saved
        /\ op'.left = cnt /\ op'.done = 0 /\ op'.why = "flush" /\ op'.then = then
    BY <1>1, <2>1, StartedWrite
  <2>3. Disk' /\ Slots'
    BY <1>1 DEF IInv, Disk, Slots
  <2>4. Buffered'
    BY <1>1, <2>1, <2>2 DEF IInv, Buffered
  <2>5. Gone'
    BY <2>1, <2>2 DEF Gone
  <2>6. then = "lseek" => o.offs <= MaxPos /\ (o.offs <= Len(file) \/ o.offs <= rwp + cnt)
    BY <2>1, EndIsThere, Positions, Sizes DEF OpType
  <2>7. Flushing'
    <3>1. op'.then = "ssize" => op'.kind = "seekend" /\ Text' /\ ~Careful
      BY <1>1, <2>2
    <3>2. op'.then = "lseek" => /\ op'.kind \in {"fseek", "seekend"} /\ (Careful => op'.kind = "fseek")
                                /\ op'.offs <= MaxPos
                                /\ op'.offs <= Len(file') \/ op'.offs <= rwp' + op'.left
      BY <1>1, <2>2, <2>6
    <3>3. op'.left + op'.done = cnt' /\ cnt' > 0 /\ Has("DIRN")'
      BY <1>1, <2>1, <2>2
    <3> QED
      BY <2>2, <2>5, <3>1, <3>2, <3>3 DEF Flushing
  <2>8. Outgoing'
    BY <2>1, <2>2, <2>7 DEF Outgoing, InWrite
  <2>9. Stage' /\ LinesFlushed'
    BY <2>2 DEF Stage, LinesFlushed, InWrite
  <2> QED
    BY <2>2, <2>3, <2>4, <2>8, <2>9 DEF IInv
<1>2. CASE /\ pc' = then /\ op' = o /\ cnt' = 0 /\ ptr' = 0 /\ ~(Writing /\ cnt > 0)
           /\ buf' \in [0..(BUFSIZ - 1) -> Byte \cup {0}]
  <2>1. Disk' /\ Slots'
    BY <1>2, Sizes DEF IInv, Disk, Slots
  <2>2. Buffered'
    BY <1>2, Sizes DEF IInv, Buffered, Disk, Slots
  <2> QED
    BY <1>2, <2>1, <2>2
<1> QED
  BY <1>1, <1>2, Flushes

LEMMA FflushCallHolds ==
  ASSUME IInv, FflushCall
  PROVE  IInv'
<1> DEFINE o == [NoOp EXCEPT !.kind = "fflush", !.ret = FflushRet]
<1>1. o \in OpType /\ o.kind = "fflush" /\ o.todo = <<>> /\ o.done = 0
  <2>1. PICK i \in Int : i = FflushRet
    BY Characters DEF FflushRet
  <2> QED
    BY <2>1, Nothing DEF OpType, Calls
<1>2. Flush(o, "done") /\ UNCHANGED <<fd, flag, base, size, tty>> /\ pushed' = <<>> /\ pc = "idle"
  BY DEF FflushCall
<1> HIDE DEF o
<1>3. \/ IInv'
      \/ pc' = "done" /\ op' = o /\ Disk' /\ Slots' /\ Buffered'
  BY <1>1, <1>2, FlushBegins
<1>4. CASE pc' = "done" /\ op' = o /\ Disk' /\ Slots' /\ Buffered'
  BY <1>1, <1>4, Nothing DEF IInv, Call, Stage, Outgoing, LinesFlushed, InWrite
<1> QED
  BY <1>3, <1>4

LEMMA FcloseCallHolds ==
  ASSUME IInv, FcloseCall
  PROVE  IInv'
<1> DEFINE o == [NoOp EXCEPT !.kind = "fclose"]
<1>1. o \in OpType /\ o.kind = "fclose" /\ o.done = 0
  BY Nothing DEF OpType, Calls
<1>2. Flush(o, "close") /\ UNCHANGED <<fd, flag, base, size, tty, pushed>> /\ pc = "idle" /\ IsOpen
  BY DEF FcloseCall
<1> HIDE DEF o
<1>3. \/ IInv'
      \/ pc' = "close" /\ op' = o /\ cnt' = 0 /\ ptr' = 0 /\ Disk' /\ Slots' /\ Buffered'
  BY <1>1, <1>2, FlushBegins
<1>4. CASE pc' = "close" /\ op' = o /\ cnt' = 0 /\ ptr' = 0 /\ Disk' /\ Slots' /\ Buffered'
  BY <1>1, <1>2, <1>4 DEF IInv, Call, Stage, Outgoing, LinesFlushed, InWrite
<1> QED
  BY <1>3, <1>4

LEMMA ExitCallHolds ==
  ASSUME IInv, ExitCall
  PROVE  IInv'
<1> DEFINE o == [NoOp EXCEPT !.kind = "exit"]
<1>1. o \in OpType /\ o.kind = "exit" /\ o.done = 0
  BY Nothing DEF OpType, Calls
<1>2. Flush(o, "exit") /\ UNCHANGED <<fd, flag, base, size, tty, pushed>>
  BY DEF ExitCall
<1> HIDE DEF o
<1>3. \/ IInv'
      \/ pc' = "exit" /\ op' = o /\ cnt' = 0 /\ ptr' = 0 /\ Disk' /\ Slots' /\ Buffered'
  BY <1>1, <1>2, FlushBegins
<1>4. CASE pc' = "exit" /\ op' = o /\ cnt' = 0 /\ ptr' = 0 /\ Disk' /\ Slots' /\ Buffered'
  BY <1>1, <1>4 DEF IInv, Call, Stage, Outgoing, LinesFlushed, InWrite
<1> QED
  BY <1>3, <1>4

LEMMA EndFlushHolds ==
  ASSUME IInv, EndFlush
  PROVE  IInv'
<1> DEFINE o == [op EXCEPT !.saved = Narrow(flag)]
<1>1. /\ op \in OpType /\ op.kind = "seekend" /\ op.done = 0 /\ IsOpen /\ base /\ Text /\ pc = "end" /\ flag \subseteq Bits
      /\ Careful => ~Has("EOF") /\ ~(Writing /\ cnt > 0)
  BY DEF IInv, EndFlush, Call, Stage, Ending, Slots, Outgoing, InWrite
<1>2. /\ Narrow(flag) \subseteq Bits \ {"LBF", "DIRN"}
      /\ \A b \in {"READ", "WRT", "BINARY"} : b \in Narrow(flag) <=> Has(b)
  BY <1>1 DEF Narrow
<1>3. o \in OpType /\ o.kind = "seekend" /\ o.done = 0 /\ o.saved = Narrow(flag)
  BY <1>1, <1>2 DEF OpType
<1>4. UNCHANGED <<fd, flag, base, size, tty, pushed>>
  BY DEF EndFlush
<1>5. ASSUME pc' = "ssize", op' = o, Has("WRT") => cnt' = 0, Disk', Slots', Buffered'
      PROVE  IInv'
  <2> HIDE DEF o
  <2>1. Call' /\ Outgoing' /\ LinesFlushed'
    BY <1>3, <1>5 DEF Call, Outgoing, LinesFlushed, InWrite
  <2>2. op'.kind = "seekend" /\ op'.saved = Narrow(flag) /\ flag' = flag /\ base' = base
    BY <1>3, <1>4, <1>5
  <2>3. Narrow(flag)' = Narrow(flag)
    BY <1>4 DEF Narrow
  <2>4. Stage'
    BY <1>1, <1>2, <1>5, <2>2, <2>3 DEF Stage, Ending, InWrite
  <2> QED
    BY <1>5, <2>1, <2>4 DEF IInv
<1>6. CASE Has("WRT")
  <2>1. Flush(o, "ssize")
    BY <1>6 DEF EndFlush
  <2> HIDE DEF o
  <2>2. \/ IInv'
        \/ pc' = "ssize" /\ op' = o /\ cnt' = 0 /\ Disk' /\ Slots' /\ Buffered'
    BY <1>1, <1>2, <1>3, <1>4, <2>1, FlushBegins
  <2> QED
    BY <1>5, <2>2
<1>7. CASE ~Has("WRT")
  <2>1. pc' = "ssize" /\ op' = o /\ UNCHANGED <<buf, cnt, ptr>>
    BY <1>7 DEF EndFlush
  <2>2. Disk' /\ Slots' /\ Buffered'
    BY <1>1, <1>4, <2>1 DEF IInv, Disk, Slots, Buffered
  <2> QED
    BY <1>5, <1>7, <2>1, <2>2
<1> QED
  BY <1>6, <1>7

LEMMA SeekFlushHolds ==
  ASSUME IInv, SeekFlush
  PROVE  IInv'
<1>1. /\ op \in OpType /\ op.kind \in {"fseek", "seekend"} /\ op.done = 0 /\ IsOpen /\ base /\ pc = "seek" /\ op.offs <= End
      /\ ToEnd => ~Text /\ op.offs = Len(file) /\ ~(Writing /\ cnt > 0)
      /\ UNCHANGED <<fd, flag, base, size, tty, pushed>>
  BY DEF IInv, SeekFlush, Call, Stage, Seeking, Outgoing, InWrite
<1>2. CASE MustFlush
  <2>1. Flush(op, "lseek") /\ Writing /\ cnt > 0
    BY <1>2, Sizes DEF SeekFlush, MustFlush, IInv, Slots
  <2>2. \/ IInv'
        \/ pc' = "lseek" /\ ~(Writing /\ cnt > 0)
    BY <1>1, <2>1, FlushBegins DEF ToEnd
  <2> QED
    BY <2>1, <2>2
<1>3. CASE ~MustFlush
  <2>1. pc' = "lseek" /\ UNCHANGED <<op, buf, cnt, ptr>> /\ (Writing => cnt = 0)
    BY <1>3 DEF SeekFlush, MustFlush
  <2>2. Disk' /\ Slots' /\ Buffered' /\ Call' /\ Outgoing' /\ LinesFlushed'
    BY <1>1, <2>1 DEF IInv, Disk, Slots, Buffered, Call, Outgoing, LinesFlushed, InWrite
  <2>3. op.offs <= Len(file)
    BY <1>1, <2>1, EndIsThere, Positions DEF OpType
  <2>4. Stage'
    BY <1>1, <2>1, <2>3 DEF Stage, Seeking, ToEnd, InWrite
  <2> QED
    BY <2>2, <2>4 DEF IInv
<1> QED
  BY <1>2, <1>3
-----------------------------------------------------------------------------
LEMMA FopenHolds ==
  ASSUME IInv, NEW m \in Modes, Fopen(m)
  PROVE  IInv'
<1> DEFINE bits == (IF m.bin THEN {"BINARY"} ELSE {}) \cup (IF m.plus THEN {"READ", "WRT"} ELSE {})
                     \cup (IF m.type = "r" THEN {"READ"} ELSE {"WRT"})
<1>1. bits \subseteq Bits \ {"DIRN", "EOF", "ERR"} /\ ("READ" \in bits \/ "WRT" \in bits)
  BY DEF Bits
<1>2. /\ flag' = bits /\ file' \in {file, <<>>} /\ rwp' = 0
      /\ base' = TRUE /\ size' = BUFSIZ /\ ptr' = 0 /\ cnt' = 0 /\ pushed' = <<>> /\ buf' = buf /\ tty' = FALSE
  BY DEF Fopen
<1> HIDE DEF bits
<1>3. Disk'
  <2>1. CASE file' = file
    BY <1>2, <2>1, Sizes DEF IInv, Disk
  <2>2. CASE file' = <<>>
    BY <1>2, <2>2, EmptyFile DEF Disk
  <2> QED
    BY <1>2, <2>1, <2>2
<1>4. Slots' /\ Buffered'
  BY <1>1, <1>2, Sizes DEF IInv, Slots, Buffered
<1>5. CASE m.type = "a"
  <2>1. pc' = "end" /\ op' = [NoOp EXCEPT !.kind = "seekend"]
    BY <1>5 DEF Fopen
  <2>2. op' \in OpType /\ op'.kind = "seekend" /\ op'.done = 0
    BY <2>1, Nothing DEF OpType, Calls
  <2>3. Call' /\ Outgoing' /\ LinesFlushed'
    BY <2>1, <2>2 DEF Call, Outgoing, LinesFlushed, InWrite
  <2>4. Stage'
    BY <1>1, <1>2, <2>1, <2>2 DEF Stage, Ending, InWrite
  <2> QED
    BY <1>3, <1>4, <2>3, <2>4 DEF IInv
<1>6. CASE m.type # "a"
  <2>1. Finish([NoOp EXCEPT !.kind = "fopen"], 0)
    BY <1>6 DEF Fopen
  <2>2. [NoOp EXCEPT !.kind = "fopen"] \in OpType
    BY Nothing DEF OpType, Calls
  <2>3. Call' /\ Stage' /\ Outgoing'
    BY <2>1, <2>2, Finished
  <2>4. op'.kind = "fopen"
    BY <2>1 DEF Finish, NoOp
  <2> QED
    BY <1>3, <1>4, <2>3, <2>4 DEF IInv, LinesFlushed
<1> QED
  BY <1>5, <1>6

(* A byte that has come is handed over, skipped, or the end of a text.     *)
LEMMA Delivers ==
  ASSUME IInv, pc = "get", NEW c \in Int, NEW p \in Nat, NEW n \in Nat, Deliver(c, p, n, base),
         UNCHANGED <<base, size, tty>>, Disk',
         buf' \in [0..(BUFSIZ - 1) -> Byte \cup {0}],
         base => p > 0 /\ p + n <= size /\ p + n <= rwp', ~base => p = 0 /\ n = 0
  PROVE  IInv'
<1>1. /\ op \in OpType /\ op.kind = "fgetc" /\ op.done = 0 /\ Has("READ") /\ ~Writing /\ flag \subseteq Bits
      /\ base <=> size = BUFSIZ
      /\ size \in Nat /\ size \in {0, BUFSIZ} /\ base \in BOOLEAN /\ tty \in BOOLEAN
      /\ rwp' \in Nat
  BY Sizes DEF IInv, Call, Stage, Slots, Outgoing, InWrite, Buffered, Disk
<1>2. /\ flag' \subseteq Bits /\ Has("READ")' /\ ~Has("DIRN")'
      /\ ptr' \in 0..size /\ cnt' \in 0..size /\ ptr' + cnt' <= size /\ ptr' + cnt' <= rwp'
      /\ cnt' > 0 => base
      /\ pushed' \in {pushed, <<>>}
  <2>1. CASE Text /\ c = CPMETX
    <3>1. flag' = flag \cup {"EOF"} /\ pushed' = pushed
      BY <2>1 DEF Deliver
    <3>2. IF base THEN ptr' = p - 1 /\ cnt' = n + 1 ELSE ptr' = p /\ cnt' = n
      BY <2>1 DEF Deliver
    <3> QED
      BY <1>1, <3>1, <3>2 DEF Bits
  <2>2. CASE ~(Text /\ c = CPMETX)
    <3>1. flag' = flag /\ ptr' = p /\ cnt' = n /\ pushed' = <<>>
      BY <2>2 DEF Deliver
    <3> QED
      BY <1>1, <3>1
  <2> QED
    BY <2>1, <2>2
<1>3. \/ pc' = "get" /\ op' = op
      \/ Finish(op, EOF) \/ Finish(op, c)
  BY DEF Deliver
<1>4. Slots'
  BY <1>1, <1>2 DEF IInv, Slots
<1>5. /\ Call' /\ Stage' /\ Outgoing' /\ pc' \in {"get", "done"}
      /\ op'.kind = "fgetc"
  <2>1. CASE pc' = "get" /\ op' = op
    BY <1>1, <1>2, <2>1 DEF IInv, Call, Stage, Outgoing, InWrite
  <2>2. CASE Finish(op, EOF)
    BY <1>1, <2>2, Finished, Characters
  <2>3. CASE Finish(op, c)
    BY <1>1, <2>3, Finished
  <2> QED
    BY <1>3, <2>1, <2>2, <2>3
<1>6. Buffered'
  <2>1. size = BUFSIZ /\ size' = size /\ base' = base
    BY <1>1 DEF IInv, Stage, Buffered
  <2> QED
    BY <1>1, <1>2, <1>5, <2>1 DEF Buffered
<1>7. LinesFlushed'
  BY <1>5 DEF LinesFlushed
<1> QED
  BY <1>4, <1>5, <1>6, <1>7 DEF IInv

LEMMA GetByteHolds ==
  ASSUME IInv, GetByte
  PROVE  IInv'
<1>1. /\ pc = "get" /\ cnt > 0 /\ Deliver(buf[ptr], ptr + 1, cnt - 1, base)
      /\ UNCHANGED <<fd, base, size, buf, tty>>
  BY DEF GetByte
<1>2. /\ ~Writing /\ base /\ ptr \in Nat /\ cnt \in Nat /\ ptr + cnt <= size /\ ptr + cnt <= rwp /\ size = BUFSIZ
      /\ buf \in [0..(BUFSIZ - 1) -> Byte \cup {0}]
  BY <1>1, Sizes DEF IInv, Stage, Slots, Buffered
<1>3. buf[ptr] \in Int
  <2>1. ptr \in 0..(BUFSIZ - 1)
    BY <1>1, <1>2, Sizes
  <2>2. buf[ptr] \in Byte \cup {0}
    BY <1>2, <2>1
  <2> QED
    BY <2>2, BytesAreNumbers
<1>4. Disk'
  BY <1>1 DEF IInv, Disk
<1>5. ptr + 1 \in Nat /\ cnt - 1 \in Nat /\ (ptr + 1) + (cnt - 1) = ptr + cnt
  BY <1>1, <1>2
<1>6. PICK c \in Int, p \in Nat, n \in Nat : c = buf[ptr] /\ p = ptr + 1 /\ n = cnt - 1
  BY <1>3, <1>5
<1>7. Deliver(c, p, n, base)
  BY <1>1, <1>6
<1>8. p > 0 /\ p + n <= size /\ p + n <= rwp'
  BY <1>1, <1>2, <1>5, <1>6
<1>9. buf' \in [0..(BUFSIZ - 1) -> Byte \cup {0}] /\ UNCHANGED <<base, size, tty>>
  BY <1>1, <1>2
<1> QED
  BY <1>1, <1>2, <1>4, <1>7, <1>8, <1>9, Delivers

LEMMA GetFillHolds ==
  ASSUME IInv, GetFill
  PROVE  IInv'
<1> DEFINE n == Available(IF size = 0 THEN 1 ELSE size)
<1>1. /\ pc = "get" /\ cnt = 0 /\ op \in OpType /\ op.kind = "fgetc" /\ ~Writing /\ Has("READ")
      /\ size \in {0, BUFSIZ} /\ size \in Nat /\ (base <=> size = BUFSIZ) /\ ptr \in 0..size
      /\ rwp \in 0..Len(file) /\ file \in Seq(Byte) /\ Len(file) \in Nat
      /\ UNCHANGED <<file, base, size, tty>>
  BY Sizes DEF IInv, GetFill, Call, Stage, Slots, Buffered, Disk
<1>2. /\ n \in Nat /\ rwp + n <= Len(file) /\ (size # 0 => n <= size) /\ (size = 0 => n <= 1)
  BY <1>1 DEF Available, Least
<1>3. CASE n = 0
  <2>1. /\ flag' = flag \cup {"EOF"} /\ ptr' \in {ptr, 0} /\ Finish(op, EOF) /\ UNCHANGED <<rwp, buf, cnt, pushed>>
    BY <1>3 DEF GetFill
  <2>2. Call' /\ Stage' /\ Outgoing' /\ pc' = "done" /\ op'.kind = "fgetc"
    BY <1>1, <2>1, Finished, Characters
  <2>3. ptr' \in 0..size /\ ptr' <= ptr
    BY <1>1, <2>1
  <2>4. Disk' /\ Slots'
    BY <1>1, <2>1, <2>3 DEF IInv, Disk, Slots, Bits
  <2>5. Has("DIRN")' = FALSE /\ Has("READ")'
    BY <1>1, <2>1
  <2>6. ptr' <= size' /\ ptr' <= rwp' /\ ptr' + cnt' = ptr'
    <3>1. rwp \in Nat /\ ptr \in Nat /\ ptr <= rwp /\ size \in Nat
      BY <1>1, Sizes DEF IInv, Buffered
    <3>2. size' = size /\ rwp' = rwp /\ cnt' = 0 /\ cnt' \in Nat
      BY <1>1, <2>1
    <3>3. ptr' \in Nat
      BY <2>3, <3>1
    <3>4. ptr' <= size
      BY <2>3, <3>1
    <3>5. ptr' <= rwp
      BY <2>3, <3>1, <3>3
    <3>6. PICK k \in Nat : k = ptr'
      BY <3>3
    <3>7. k + 0 = k
      OBVIOUS
    <3>8. ptr' + cnt' = ptr'
      BY <3>2, <3>6, <3>7, Zenon
    <3> QED
      BY <3>2, <3>4, <3>5, <3>8
  <2>7. cnt' = 0 /\ (base' <=> size' = BUFSIZ) /\ size' = BUFSIZ
    BY <1>1, <2>1 DEF IInv, Stage, Buffered
  <2>8. Buffered'
    BY <2>5, <2>6, <2>7 DEF Buffered
  <2> QED
    BY <2>2, <2>4, <2>8 DEF IInv, LinesFlushed
<1>4. CASE n # 0
  <2>1. /\ rwp' = rwp + n
        /\ size = 0 => buf' = buf /\ Deliver(file[rwp + 1], ptr, 0, base)
        /\ size # 0 => /\ buf' = [i \in DOMAIN buf |-> IF i < n THEN file[rwp + 1 + i] ELSE 0]
                       /\ Deliver(file[rwp + 1], 1, n - 1, base)
    BY <1>4 DEF GetFill
  <2> HIDE DEF n
  <2>2. \A i \in 0..(n - 1) : file[rwp + 1 + i] \in Byte
    BY <1>1, <1>2
  <2>3. file[rwp + 1] \in Int
    <3>1. rwp + 1 \in 1..Len(file)
      BY <1>1, <1>2, <1>4
    <3>2. file[rwp + 1] \in Byte
      BY <1>1, <3>1
    <3> QED
      BY <3>2, BytesAreNumbers
  <2>4. Disk'
    BY <1>1, <1>2, <2>1 DEF IInv, Disk
  <2>5. buf' \in [0..(BUFSIZ - 1) -> Byte \cup {0}]
    <3>1. CASE size = 0
      BY <2>1, <3>1 DEF IInv, Slots
    <3>2. CASE size # 0
      <4>1. DOMAIN buf = 0..(BUFSIZ - 1)
        BY DEF IInv, Slots
      <4>2. \A i \in 0..(BUFSIZ - 1) : (IF i < n THEN file[rwp + 1 + i] ELSE 0) \in Byte \cup {0}
        BY <1>2, <2>2
      <4> QED
        BY <2>1, <3>2, <4>1, <4>2
    <3> QED
      BY <3>1, <3>2
  <2>6. PICK c \in Int : c = file[rwp + 1]
    BY <2>3
  <2>7. CASE size = 0
    BY <1>1, <2>1, <2>4, <2>5, <2>6, <2>7, Delivers, Sizes
  <2>8. CASE size # 0
    <3>1. PICK m \in Nat : m = n - 1 /\ 1 + m <= size /\ 1 + m <= rwp'
      BY <1>1, <1>2, <1>4, <2>1, <2>8
    <3>2. Deliver(c, 1, m, base)
      BY <2>1, <2>6, <2>8, <3>1
    <3> QED
      BY <1>1, <2>4, <2>5, <2>8, <3>1, <3>2, Delivers, Sizes
  <2> QED
    BY <2>7, <2>8
<1> QED
  BY <1>3, <1>4
-----------------------------------------------------------------------------
(* One sector: the bytes b, or the disk is full.                           *)
LEMMA SectorOut ==
  ASSUME IInv, WriteSector
  PROVE  \E n \in Nat \ {0}, b \in Seq(Byte) :
           /\ n <= op.left /\ n <= SECSIZE - (rwp % SECSIZE) /\ Len(b) = n
           /\ op.why = "unbuffered" => n = 1
           /\ op.why # "unbuffered" => \A i \in 1..n : b[i] = buf[op.done + i - 1]
           /\ \/ /\ rwp + n > MaxPos
                 /\ flag' = flag \cup {"ERR", "EOF"} /\ pc' = "written" /\ UNCHANGED <<fd, op>>
              \/ /\ rwp + n <= MaxPos
                 /\ file' = Overlay(file, rwp, b) /\ rwp' = rwp + n
                 /\ op' = [op EXCEPT !.left = op.left - n, !.done = op.done + n] /\ UNCHANGED <<pc, flag>>
<1> DEFINE n == Least(SECSIZE - (rwp % SECSIZE), op.left)
           b == IF op.why = "unbuffered" THEN <<Head(op.todo)>> ELSE Slice(op.done, n)
<1>1. /\ op \in OpType /\ op.left \in Nat \ {0} /\ op.done \in Nat /\ rwp \in Nat
      /\ Slots /\ (Passing \/ Spilling \/ Flushing)
  BY Sizes DEF IInv, WriteSector, Call, OpType, Disk, Outgoing, InWrite
<1>2. n \in Nat \ {0} /\ n <= op.left /\ n <= SECSIZE - (rwp % SECSIZE)
  <2>1. SECSIZE \in Nat \ {0} /\ rwp % SECSIZE \in 0..(SECSIZE - 1)
    BY <1>1, Sizes, Division
  <2> QED
    BY <1>1, <2>1 DEF Least
<1>3. /\ b \in Seq(Byte) /\ Len(b) = n
      /\ op.why = "unbuffered" => n = 1
      /\ op.why # "unbuffered" => \A i \in 1..n : b[i] = buf[op.done + i - 1]
  <2>1. CASE Passing
    <3>1. Head(op.todo) \in Byte /\ n = 1 /\ op.why = "unbuffered"
      BY <1>1, <1>2, <2>1, FirstByte DEF Passing, Putting
    <3> QED
      BY <3>1
  <2>2. CASE Spilling \/ Flushing
    <3>1. op.why # "unbuffered" /\ op.left + op.done = cnt /\ Writing /\ cnt \in Nat /\ cnt <= BUFSIZ
      BY <2>2, Sizes DEF Spilling, Flushing, Putting, IInv, Slots
    <3>2. \A i \in 0..(cnt - 1) : buf[i] \in Byte
      BY <3>1 DEF IInv, Buffered
    <3>3. op.done + n <= BUFSIZ /\ \A i \in op.done..(op.done + n - 1) : buf[i] \in Byte
      <4>1. op.done + n <= cnt /\ BUFSIZ \in Nat
        BY <1>1, <1>2, <3>1, Sizes
      <4>2. \A i \in op.done..(op.done + n - 1) : i \in 0..(cnt - 1)
        BY <1>1, <1>2, <3>1, <4>1
      <4> QED
        BY <1>1, <1>2, <3>1, <3>2, <4>1, <4>2
    <3>4. b = Slice(op.done, n)
      BY <3>1
    <3> HIDE DEF n, b
    <3>5. /\ Slice(op.done, n) \in Seq(Byte) /\ Len(Slice(op.done, n)) = n
          /\ \A i \in 1..n : Slice(op.done, n)[i] = buf[op.done + i - 1]
      BY <1>1, <1>2, <3>3, Sliced
    <3> QED
      BY <3>1, <3>4, <3>5
  <2> QED
    BY <1>1, <2>1, <2>2
<1>4. \/ /\ ~(rwp + n <= MaxPos)
         /\ flag' = flag \cup {"ERR", "EOF"} /\ pc' = "written" /\ UNCHANGED <<fd, op>>
      \/ /\ rwp + n <= MaxPos
         /\ file' = Overlay(file, rwp, b) /\ rwp' = rwp + n
         /\ op' = [op EXCEPT !.left = op.left - n, !.done = op.done + n] /\ UNCHANGED <<pc, flag>>
  BY DEF WriteSector
<1> HIDE DEF n, b
<1>5. ~(rwp + n <= MaxPos) => rwp + n > MaxPos
  BY <1>1, <1>2, Sizes
<1> QED
  BY <1>2, <1>3, <1>4, <1>5

(* A sector is written, or does not fit on the disk.                       *)
LEMMA WriteSectorHolds ==
  ASSUME IInv, WriteSector
  PROVE  IInv'
<1>1. /\ op \in OpType /\ pc = "write" /\ op.left \in Nat \ {0} /\ op.done \in Nat
      /\ file \in Seq(Byte) /\ Len(file) \in 0..MaxPos /\ Len(file) % SECSIZE = 0 /\ rwp \in 0..Len(file)
      /\ rwp \in Nat /\ rwp \in 0..MaxPos /\ MaxPos \in Nat
      /\ Slots /\ IsOpen /\ (Passing \/ Spilling \/ Flushing)
      /\ UNCHANGED <<buffer, tty, pushed>>
  BY Sizes DEF IInv, WriteSector, Call, OpType, Disk, Outgoing, InWrite
<1>2. PICK n \in Nat \ {0}, b \in Seq(Byte) :
         /\ n <= op.left /\ n <= SECSIZE - (rwp % SECSIZE) /\ Len(b) = n
         /\ op.why # "unbuffered" => \A i \in 1..n : b[i] = buf[op.done + i - 1]
         /\ \/ /\ rwp + n > MaxPos
               /\ flag' = flag \cup {"ERR", "EOF"} /\ pc' = "written" /\ UNCHANGED <<fd, op>>
            \/ /\ rwp + n <= MaxPos
               /\ file' = Overlay(file, rwp, b) /\ rwp' = rwp + n
               /\ op' = [op EXCEPT !.left = op.left - n, !.done = op.done + n] /\ UNCHANGED <<pc, flag>>
  BY SectorOut
<1>3. CASE rwp + n > MaxPos
  <2>1. flag' = flag \cup {"ERR", "EOF"} /\ pc' = "written" /\ UNCHANGED <<fd, op>>
    BY <1>1, <1>2, <1>3
  <2>2. rwp = MaxPos
    BY <1>1, <1>2, <1>3, SectorEnd
  <2>3. Disk' /\ Slots' /\ Call' /\ LinesFlushed'
    BY <1>1, <2>1 DEF IInv, Disk, Slots, Call, LinesFlushed, Bits
  <2>4. Has("DIRN")' = Has("DIRN") /\ Has("WRT")' = Has("WRT") /\ Has("READ")' = Has("READ") /\ Has("BINARY")' = Has("BINARY")
    BY <2>1
  <2>5. Buffered'
    BY <1>1, <2>1, <2>4 DEF IInv, Buffered
  <2>6. Stage'
    BY <1>1, <2>1, <2>4 DEF IInv, Stage, InWrite
  <2>7. Passing' \/ Spilling' \/ Flushing'
    BY <1>1, <2>1, <2>4 DEF Passing, Spilling, Flushing, Putting, Gone
  <2>8. Outgoing'
    BY <1>1, <2>1, <2>2, <2>4, <2>7 DEF Outgoing, InWrite
  <2> QED
    BY <2>3, <2>5, <2>6, <2>8 DEF IInv
<1>4. CASE rwp + n <= MaxPos
  <2>1. /\ file' = Overlay(file, rwp, b) /\ rwp' = rwp + n
        /\ op' = [op EXCEPT !.left = op.left - n, !.done = op.done + n] /\ UNCHANGED <<pc, flag>>
    BY <1>1, <1>2, <1>4
  <2>2. op.why # "unbuffered" => \A i \in 1..n : b[i] = buf[op.done + i - 1]
    BY <1>2
  <2>3. /\ file' \in Seq(Byte) /\ Len(file') <= MaxPos /\ Len(file') % SECSIZE = 0
        /\ Len(file') >= Len(file) /\ Len(file') >= rwp + n
        /\ \A i \in 1..Len(file') : file'[i] = IF i > rwp /\ i <= rwp + n THEN b[i - rwp]
                                               ELSE IF i <= Len(file) THEN file[i] ELSE CPMETX
    BY <1>1, <1>2, <1>4, <2>1, Overlaying
  <2>4. /\ op' \in OpType /\ op'.left = op.left - n /\ op'.done = op.done + n /\ op'.kind = op.kind
        /\ op'.todo = op.todo /\ op'.why = op.why /\ op'.then = op.then /\ op'.offs = op.offs /\ op'.saved = op.saved
    <3>1. op.left - n \in Nat /\ op.done + n \in Nat
      BY <1>1, <1>2
    <3> QED
      BY <1>1, <2>1, <3>1 DEF OpType
  <2>5. rwp' \in Nat /\ rwp' <= Len(file') /\ Len(file') \in Nat /\ Len(file) \in Nat /\ rwp' = rwp + n
    BY <1>1, <1>2, <2>1, <2>3
  <2>6. Disk'
    BY <2>3, <2>5 DEF Disk
  <2>7. Slots' /\ Call' /\ LinesFlushed'
    BY <1>1, <2>1, <2>4 DEF IInv, Slots, Call, LinesFlushed
  <2>8. Buffered'
    <3>1. ptr \in Nat /\ cnt \in Nat
      BY Sizes DEF IInv, Slots
    <3>2. ~Writing => ptr + cnt <= rwp'
      BY <1>1, <1>2, <2>5, <3>1 DEF IInv, Buffered
    <3> QED
      BY <1>1, <2>1, <3>2 DEF IInv, Buffered
  <2>9. Stage'
    BY <1>1, <2>1, <2>4 DEF IInv, Stage, InWrite
  <2>10. op.why # "unbuffered" => Gone'
    <3>1. SUFFICES ASSUME op.why # "unbuffered" PROVE Gone'
      OBVIOUS
    <3>2. Gone
      BY <1>1, <3>1 DEF Passing, Spilling, Flushing
    <3>3. op'.done <= rwp' /\ rwp' - op'.done = rwp - op.done /\ op.done <= rwp
      BY <1>1, <1>2, <2>4, <2>5, <3>2 DEF Gone
    <3>4. ASSUME NEW i \in 0..(op'.done - 1)
          PROVE  file'[rwp - op.done + i + 1] = buf[i]
      <4>1. CASE i < op.done
        <5>1. file[rwp - op.done + i + 1] = buf[i]
          BY <1>1, <3>2, <3>4, <4>1 DEF Gone
        <5>2. rwp - op.done + i + 1 \in 1..rwp
          BY <1>1, <3>3, <3>4, <4>1
        <5>3. rwp - op.done + i + 1 \in 1..Len(file') /\ rwp - op.done + i + 1 <= Len(file)
              /\ ~(rwp - op.done + i + 1 > rwp)
          BY <1>1, <2>3, <2>5, <5>2
        <5> QED
          BY <2>3, <5>1, <5>3
      <4>2. CASE i >= op.done
        <5>1. PICK j \in 1..n : j = i - op.done + 1
          BY <1>1, <1>2, <2>4, <3>4, <4>2
        <5>2. rwp - op.done + i + 1 = rwp + j /\ i = op.done + j - 1
          BY <1>1, <3>4, <5>1
        <5>3. rwp + j \in 1..Len(file') /\ rwp + j > rwp /\ rwp + j <= rwp + n /\ (rwp + j) - rwp = j
          <6>1. j \in Nat /\ j >= 1 /\ j <= n /\ rwp \in Nat /\ n \in Nat
            BY <1>1, <1>2, <5>1
          <6>2. Len(file') >= rwp + n /\ Len(file') \in Nat
            BY <1>1, <1>2, <2>3, <2>5
          <6> QED
            BY <6>1, <6>2
        <5>4. file'[rwp + j] = b[j]
          BY <2>3, <5>3
        <5>5. b[j] = buf[op.done + j - 1]
          BY <2>2, <3>1, <5>1
        <5> QED
          BY <5>2, <5>4, <5>5
      <4> QED
        BY <1>1, <3>4, <4>1, <4>2
    <3>5. \A i \in 0..(op'.done - 1) : file'[rwp' - op'.done + i + 1] = buf'[i]
      BY <1>1, <3>3, <3>4
    <3> QED
      BY <3>3, <3>5 DEF Gone
  <2>11. Passing' \/ Spilling' \/ Flushing'
    <3>1. op'.left + op'.done = op.left + op.done
      BY <1>1, <1>2, <2>4
    <3>2. CASE Passing
      BY <1>1, <2>1, <2>4, <3>1, <3>2 DEF Passing, Putting
    <3>3. CASE Spilling
      <4>1. op.why # "unbuffered"
        BY <3>3 DEF Spilling
      <4> QED
        BY <1>1, <2>1, <2>4, <2>10, <3>1, <3>3, <4>1 DEF Spilling, Putting
    <3>4. CASE Flushing
      <4>1. op.why = "flush"
        BY <3>4 DEF Flushing
      <4>2. op.then = "lseek" => op.offs <= Len(file') \/ op.offs <= rwp' + op'.left
        <5>1. rwp' + op'.left = rwp + op.left /\ op.offs \in Nat
          BY <1>1, <1>2, <2>4, <2>5 DEF OpType
        <5>2. op.then = "lseek" => op.offs <= Len(file) \/ op.offs <= rwp + op.left
          BY <3>4 DEF Flushing
        <5> QED
          BY <1>1, <2>3, <2>5, <5>1, <5>2
      <4> QED
        BY <1>1, <2>1, <2>4, <2>10, <3>1, <3>4, <4>1, <4>2 DEF Flushing
    <3> QED
      BY <1>1, <3>2, <3>3, <3>4
  <2>12. Outgoing'
    BY <1>1, <2>1, <2>11 DEF Outgoing, InWrite
  <2> QED
    BY <2>6, <2>7, <2>8, <2>9, <2>12 DEF IInv
<1> QED
  BY <1>1, <1>2, <1>3, <1>4

(* What was in the buffer has gone, or the disk is full.                   *)
LEMMA FlushedHolds ==
  ASSUME IInv, Flushed
  PROVE  IInv'
<1>1. /\ op \in OpType /\ pc = "written" /\ Flushing /\ Writing /\ IsOpen /\ Has("WRT") /\ base
      /\ UNCHANGED <<fd, flag, base, size, tty, pushed>>
      /\ rwp \in 0..Len(file) /\ Len(file) \in 0..MaxPos /\ MaxPos \in Nat
      /\ op.left = 0 \/ rwp = MaxPos
  BY Sizes DEF IInv, Flushed, Call, Outgoing, InWrite, Disk, Buffered, Passing, Spilling, Flushing
<1>2. cnt' = 0 /\ ptr' = 0 /\ buf' \in [0..(BUFSIZ - 1) -> Byte \cup {0}]
  BY Nothing DEF Flushed, Emptied
<1>3. Disk' /\ Slots'
  BY <1>1, <1>2, Sizes DEF IInv, Disk, Slots
<1>4. Buffered'
  BY <1>1, <1>2 DEF IInv, Buffered
<1>5. LinesFlushed'
  <2>1. CASE op.then = "done"
    <3>1. PICK r \in Int : r = IF Has("ERR") THEN EOF ELSE 0
      BY Characters
    <3>2. Finish(op, r) /\ op.why = "flush"
      BY <2>1, <3>1 DEF Flushed
    <3>3. op'.why = "flush"
      BY <1>1, <3>2, Finished
    <3> QED
      BY <1>2, <3>3 DEF LinesFlushed
  <2>2. CASE op.then # "done"
    <3>1. pc' = op.then
      BY <2>2 DEF Flushed
    <3> QED
      BY <2>2, <3>1 DEF LinesFlushed
  <2> QED
    BY <2>1, <2>2
<1>6. CASE op.then = "done"
  <2>1. (IF Has("ERR") THEN EOF ELSE 0) \in Int
    BY Characters
  <2>2. Finish(op, IF Has("ERR") THEN EOF ELSE 0)
    BY <1>6 DEF Flushed
  <2> QED
    BY <1>1, <1>3, <1>4, <1>5, <2>1, <2>2, Finished DEF IInv
<1>7. CASE op.then # "done"
  <2>1. pc' = op.then /\ op' = [op EXCEPT !.left = 0, !.done = 0, !.why = "none", !.then = "none"]
    BY <1>7 DEF Flushed
  <2>2. op' \in OpType /\ op'.kind = op.kind /\ op'.done = 0 /\ op'.offs = op.offs /\ op'.saved = op.saved
    BY <1>1, <2>1 DEF OpType
  <2>3. op.then \in {"close", "exit", "ssize", "lseek"}
    BY <1>1, <1>7 DEF Flushing
  <2>4. Call' /\ Outgoing'
    BY <2>1, <2>2, <2>3 DEF Call, Outgoing, InWrite
  <2>5. Stage'
    <3>1. CASE op.then = "close"
      BY <1>1, <1>2, <2>1, <2>2, <3>1 DEF Stage, Flushing, InWrite
    <3>2. CASE op.then = "exit"
      BY <1>1, <1>2, <2>1, <2>2, <3>2 DEF Stage, Flushing, InWrite
    <3>3. CASE op.then = "ssize"
      <4>1. /\ op.saved \subseteq Bits \ {"LBF", "DIRN"}
            /\ \A b \in {"READ", "WRT", "BINARY"} : b \in op.saved <=> Has(b)
        BY <1>1, <3>3 DEF IInv, Stage, InWrite
      <4>2. op.kind = "seekend" /\ Text /\ ~Careful
        BY <1>1, <3>3 DEF Flushing
      <4> QED
        BY <1>1, <1>2, <2>1, <2>2, <3>3, <4>1, <4>2 DEF Stage, Ending, InWrite
    <3>4. CASE op.then = "lseek"
      <4>1. op.kind \in {"fseek", "seekend"} /\ (Careful => op.kind = "fseek")
        BY <1>1, <3>4 DEF Flushing
      <4>2. op.offs <= Len(file)
        <5>1. op.offs \in Nat /\ op.offs <= MaxPos /\ (op.offs <= Len(file) \/ op.offs <= rwp + op.left)
          BY <1>1, <3>4 DEF Flushing, OpType
        <5> QED
          BY <1>1, <5>1
      <4> QED
        BY <1>1, <1>2, <2>1, <2>2, <3>4, <4>1, <4>2 DEF Stage, Seeking, ToEnd, InWrite
    <3> QED
      BY <2>3, <3>1, <3>2, <3>3, <3>4
  <2> QED
    BY <1>3, <1>4, <1>5, <2>4, <2>5 DEF IInv
<1> QED
  BY <1>6, <1>7
-----------------------------------------------------------------------------
(* The end of a text is within its last sector.                            *)
LEMMA EndOfTextIsThere ==
  ASSUME IInv, NEW from \in 0..Len(file)
  PROVE  /\ EndOfText(from) \in from..Len(file)
         /\ \A i \in Ctrlzs(from) : EndOfText(from) <= i
         /\ EndOfText(from) # Len(file) => EndOfText(from) \in Ctrlzs(from)
<1>1. Len(file) \in Nat
  BY Positions
<1>2. CASE Ctrlzs(from) = {}
  BY <1>1, <1>2 DEF EndOfText
<1>3. CASE Ctrlzs(from) # {}
  <2>1. Ctrlzs(from) \in SUBSET Nat /\ \A i \in Ctrlzs(from) : i \in from..Len(file)
    BY <1>1 DEF Ctrlzs
  <2>2. \E i \in Ctrlzs(from) : \A j \in Ctrlzs(from) : i <= j
    BY <1>3, <2>1, LeastExists
  <2>3. EndOfText(from) \in Ctrlzs(from) /\ \A j \in Ctrlzs(from) : EndOfText(from) <= j
    BY <1>3, <2>2 DEF EndOfText
  <2> QED
    BY <2>1, <2>3
<1> QED
  BY <1>2, <1>3

(* The last sector of the file, and what of it _ssize() reads.             *)
LastFrom == IF FSize >= SECSIZE THEN FSize - SECSIZE ELSE rwp
LastRead == IF LastFrom >= Len(file) \/ Has("EOF") THEN 0 ELSE Len(file) - LastFrom
LastEnd  == IF LastRead = 0 THEN LastFrom ELSE EndOfText(LastFrom)

LEMMA LastSectorRead ==
  ASSUME IInv
  PROVE  /\ LastFrom \in 0..Len(file) /\ Len(file) - LastFrom <= BUFSIZ
         /\ Len(file) < SECSIZE => Len(file) = 0 /\ LastFrom = 0
         /\ Len(file) >= SECSIZE => LastFrom = Len(file) - SECSIZE
         /\ LastRead \in 0..(Len(file) - LastFrom)
         /\ LastEnd \in LastFrom..(LastFrom + LastRead)
<1>1. /\ FSize = Len(file) /\ Len(file) \in Nat /\ rwp \in 0..Len(file) /\ Len(file) % SECSIZE = 0
      /\ SECSIZE \in Nat \ {0} /\ BUFSIZ \in Nat /\ BUFSIZ >= SECSIZE
  BY Positions, Sizes DEF IInv, Disk
<1>2. /\ Len(file) < SECSIZE => Len(file) = 0 /\ LastFrom = 0
      /\ Len(file) >= SECSIZE => LastFrom = Len(file) - SECSIZE
  BY <1>1, ShortIsEmpty DEF LastFrom
<1>3. LastFrom \in 0..Len(file) /\ Len(file) - LastFrom <= BUFSIZ
  BY <1>1, <1>2
<1>4. LastRead \in 0..(Len(file) - LastFrom) /\ (LastRead # 0 => LastRead = Len(file) - LastFrom)
  BY <1>1, <1>3 DEF LastRead
<1>5. LastEnd \in LastFrom..(LastFrom + LastRead)
  <2>1. EndOfText(LastFrom) \in LastFrom..Len(file)
    BY <1>3, EndOfTextIsThere
  <2> QED
    BY <1>1, <1>3, <1>4, <2>1 DEF LastEnd
<1> QED
  BY <1>2, <1>3, <1>4, <1>5

LEMMA SsizeReads ==
  ASSUME IInv, Ssize
  PROVE  /\ buf' = [i \in DOMAIN buf |-> IF i < LastRead THEN file[LastFrom + 1 + i] ELSE 0]
         /\ Has("WRT") => rwp' = LastEnd /\ cnt' = 0 /\ ptr' = 0
         /\ ~Has("WRT") => /\ rwp' = LastFrom + LastRead /\ cnt' = LastFrom + LastRead - LastEnd
                           /\ ptr' = LastEnd - LastFrom \/ (ptr' = 0 /\ cnt' = 0)
         /\ flag' = op.saved /\ pushed' = <<>> /\ Finish(op, 0) /\ UNCHANGED <<file, base, size, tty>>
<1>1. LastRead = 0 => LastEnd = LastFrom /\ LastEnd - LastFrom = 0
  BY LastSectorRead DEF LastEnd
<1>2. /\ buf' = [i \in DOMAIN buf |-> IF i < LastRead THEN file[LastFrom + 1 + i] ELSE 0]
      /\ rwp' = IF Has("WRT") THEN LastEnd ELSE LastFrom + LastRead
      /\ cnt' = IF Has("WRT") THEN 0 ELSE LastFrom + LastRead - LastEnd
      /\ ptr' = IF Has("WRT") \/ LastRead = 0 \/ ReadsPast(LastFrom) THEN 0 ELSE LastEnd - LastFrom
      /\ flag' = op.saved /\ pushed' = <<>> /\ Finish(op, 0) /\ UNCHANGED <<file, base, size, tty>>
  BY DEF Ssize, LastFrom, LastRead, LastEnd
<1>3. LastRead # 0 /\ ReadsPast(LastFrom) => LastFrom + LastRead - LastEnd = 0
  <2>1. SUFFICES ASSUME LastRead # 0, ReadsPast(LastFrom) PROVE LastFrom + LastRead - LastEnd = 0
    OBVIOUS
  <2>2. LastEnd = Len(file) /\ LastRead = Len(file) - LastFrom
    BY <2>1 DEF LastEnd, LastRead, EndOfText, ReadsPast
  <2>3. LastFrom \in 0..Len(file) /\ Len(file) \in Nat
    BY LastSectorRead, Positions
  <2> QED
    BY <2>2, <2>3
<1>4. ~Has("WRT") => ptr' = LastEnd - LastFrom \/ (ptr' = 0 /\ cnt' = 0)
  BY <1>1, <1>2, <1>3
<1> QED
  BY <1>2, <1>4

LEMMA SsizeHolds ==
  ASSUME IInv, Ssize
  PROVE  IInv'
<1>1. /\ op \in OpType /\ op.kind = "seekend" /\ IsOpen /\ base /\ Text /\ size = BUFSIZ /\ pc = "ssize"
      /\ op.saved \subseteq Bits \ {"LBF", "DIRN"}
      /\ \A b \in {"READ", "WRT", "BINARY"} : b \in op.saved <=> Has(b)
  BY DEF IInv, Ssize, Call, Stage, Ending, Buffered
<1>2. /\ flag' = op.saved /\ pushed' = <<>> /\ Finish(op, 0) /\ UNCHANGED <<file, base, size, tty>>
      /\ buf' = [i \in DOMAIN buf |-> IF i < LastRead THEN file[LastFrom + 1 + i] ELSE 0]
  BY SsizeReads
<1>3. /\ flag' \subseteq Bits /\ ~Has("DIRN")' /\ (Has("READ")' <=> Has("READ")) /\ (Has("WRT")' <=> Has("WRT"))
  BY <1>1, <1>2
<1>4. rwp' \in 0..Len(file) /\ ptr' \in 0..BUFSIZ /\ cnt' \in 0..BUFSIZ /\ ptr' + cnt' <= BUFSIZ /\ ptr' + cnt' <= rwp'
  <2>1. /\ LastFrom \in Nat /\ LastRead \in Nat /\ LastEnd \in LastFrom..(LastFrom + LastRead)
        /\ LastRead <= BUFSIZ /\ LastFrom + LastRead <= Len(file) /\ BUFSIZ \in Nat /\ Len(file) \in Nat
    BY LastSectorRead, Positions, Sizes
  <2>2. CASE Has("WRT")
    <3>1. rwp' = LastEnd /\ cnt' = 0 /\ ptr' = 0
      BY <2>2, SsizeReads
    <3> QED
      BY <2>1, <3>1
  <2>3. CASE ~Has("WRT")
    <3>1. /\ rwp' = LastFrom + LastRead /\ cnt' = LastFrom + LastRead - LastEnd
          /\ ptr' = LastEnd - LastFrom \/ (ptr' = 0 /\ cnt' = 0)
      BY <2>3, SsizeReads
    <3> QED
      BY <2>1, <3>1
  <2> QED
    BY <2>2, <2>3
<1>5. buf' \in [0..(BUFSIZ - 1) -> Byte \cup {0}]
  <2>1. DOMAIN buf = 0..(BUFSIZ - 1) /\ file \in Seq(Byte)
    BY DEF IInv, Slots, Disk
  <2>2. ASSUME NEW i \in 0..(BUFSIZ - 1), i < LastRead PROVE file[LastFrom + 1 + i] \in Byte
    <3>1. LastFrom + 1 + i \in 1..Len(file)
      BY <2>2, LastSectorRead, Positions
    <3> QED
      BY <2>1, <3>1
  <2>3. \A i \in 0..(BUFSIZ - 1) : (IF i < LastRead THEN file[LastFrom + 1 + i] ELSE 0) \in Byte \cup {0}
    BY <2>2
  <2> QED
    BY <1>2, <2>1, <2>3
<1>6. Disk' /\ Slots'
  BY <1>1, <1>2, <1>3, <1>4, <1>5, Sizes DEF IInv, Disk, Slots
<1>7. /\ pc' = "done" /\ Call' /\ Stage' /\ Outgoing' /\ op'.kind = "seekend"
  BY <1>1, <1>2, Finished
<1>8. ~(Has("READ") \/ Writing)' => cnt' = 0 /\ ptr' = 0
  <2>1. CASE Has("WRT")
    BY <2>1, SsizeReads
  <2>2. CASE ~Has("WRT")
    BY <1>1, <1>3, <2>2
  <2> QED
    BY <2>1, <2>2
<1>9. Buffered'
  BY <1>1, <1>2, <1>3, <1>4, <1>7, <1>8 DEF Buffered
<1>10. LinesFlushed'
  BY <1>7 DEF LinesFlushed
<1> QED
  BY <1>6, <1>7, <1>9, <1>10 DEF IInv
-----------------------------------------------------------------------------
LEMMA InitHolds == Init => IInv
<1> SUFFICES ASSUME Init PROVE IInv
  OBVIOUS
<1>1. /\ file \in Preset /\ rwp = 0 /\ base = FALSE /\ size = 0 /\ ptr = 0 /\ cnt = 0 /\ buf = Blank
      /\ pc = "idle" /\ op = NoOp /\ pushed = <<>>
  BY DEF Init
<1>2. tty \in BOOLEAN /\ flag \in {{}, {"WRT"}, {"WRT", "NBF"}}
  <2>1. PICK s \in Streams : /\ tty \in (IF s = "closed" THEN {FALSE} ELSE BOOLEAN)
                             /\ flag = CASE s = "closed" -> {} [] s = "stdout" -> {"WRT"}
                                         [] s = "stderr" -> {"WRT", "NBF"}
    BY DEF Init
  <2>2. s \in {"closed", "stdout", "stderr"}
    BY StreamAssumption
  <2> QED
    BY <2>1, <2>2
<1>3. Disk
  <2>1. file \in Seq(Byte) /\ Len(file) <= MaxPos /\ Len(file) % SECSIZE = 0
    BY <1>1, StreamAssumption
  <2> QED
    BY <1>1, <2>1 DEF Disk
<1>4. Slots
  <2>1. flag \subseteq Bits
    BY <1>2 DEF Bits
  <2>2. buf \in [0..(BUFSIZ - 1) -> Byte \cup {0}] /\ ptr \in 0..size /\ cnt \in 0..size
    BY <1>1, Nothing
  <2> QED
    BY <1>1, <1>2, <2>1, <2>2 DEF Slots
<1>5. Call /\ Stage /\ Outgoing /\ LinesFlushed
  BY <1>1, Nothing DEF Call, Stage, Outgoing, InWrite, LinesFlushed
<1>6. Buffered
  BY <1>1, <1>2, Sizes DEF Buffered
<1> QED
  BY <1>3, <1>4, <1>5, <1>6 DEF IInv

LEMMA NextHolds ==
  ASSUME IInv, Next
  PROVE  IInv'
<1>1. CASE Step
  <2>1. CASE WriteSector \/ WriteEnds \/ Flushed \/ Fclose \/ ExitClose
    BY <2>1, WriteSectorHolds, WriteEndsHolds, FlushedHolds, FcloseHolds, ExitCloseHolds
  <2>2. CASE PutByte \/ PutNoBuffer \/ PutFull \/ Flsbuf \/ PutUnbuffered
    BY <2>2, PutByteHolds, PutNoBufferHolds, PutFullHolds, FlsbufHolds, PutUnbufferedHolds
  <2>3. CASE GetByte \/ GetFill \/ Return
    BY <2>3, GetByteHolds, GetFillHolds, ReturnHolds
  <2>4. CASE EndBinary \/ EndFlush \/ Ssize \/ SeekNear \/ SeekFlush \/ Lseek
    BY <2>4, EndBinaryHolds, EndFlushHolds, SsizeHolds, SeekNearHolds, SeekFlushHolds, LseekHolds
  <2> QED
    BY <1>1, <2>1, <2>2, <2>3, <2>4 DEF Step
<1>2. CASE Client
  <2>1. CASE \/ (Avoids("ctrlz") => ~AtCtrlZ) /\ FflushCall
             \/ FcloseCall \/ ProgramExits \/ FputcRefused \/ FgetcBlocked \/ FgetcCall
    BY <2>1, FflushCallHolds, FcloseCallHolds, ExitCallHolds, FputcRefusedHolds, FgetcBlockedHolds,
       FgetcCallHolds DEF ProgramExits
  <2>2. ASSUME NEW m \in Modes, Fopen(m) \/ FopenNoFile(m) \/ FopenNoMemory(m) PROVE IInv'
    BY <2>2, FopenHolds, FopenNoFileHolds, FopenNoMemoryHolds
  <2>3. ASSUME NEW mode \in Buffering, Setvbuf(mode) PROVE IInv'
    BY <2>3, SetvbufHolds
  <2>4. ASSUME NEW c \in Chars, FputcCall(c) \/ Ungetc(c) PROVE IInv'
    BY <2>4, FputcCallHolds, UngetcHolds
  <2>5. ASSUME NEW offs \in 0..End, SeekUnbuffered(offs) \/ Fseek(offs) PROVE IInv'
    BY <2>5, SeekUnbufferedHolds, FseekHolds
  <2>6. CASE (Avoids("seekend") => ~Unwritten) /\ FseekEnd
    BY <2>6, FseekEndHolds DEF Careful, Avoids
  <2> QED
    BY <1>2, <2>1, <2>2, <2>3, <2>4, <2>5, <2>6 DEF Client
<1>3. CASE Interrupt
  BY <1>3, ExitCallHolds DEF Interrupt
<1> QED
  BY <1>1, <1>2, <1>3 DEF Next

LEMMA StutterHolds ==
  ASSUME IInv, UNCHANGED vars
  PROVE  IInv'
<1>1. Disk' /\ Slots' /\ Call' /\ Buffered' /\ LinesFlushed'
  BY DEF vars, IInv, Disk, Slots, Call, Buffered, LinesFlushed
<1>2. Stage'
  BY DEF vars, IInv, Stage, Putting, Ending, Seeking, ToEnd, InWrite, Narrow, End, FSize, Tell, Least
<1>3. Outgoing'
  BY DEF vars, IInv, Outgoing, InWrite, Passing, Spilling, Flushing, Gone, Putting
<1> QED
  BY <1>1, <1>2, <1>3 DEF IInv

(* The inductive invariant holds, with control-C at any poll and whatever  *)
(* the program does.                                                       *)
THEOREM Invariance == Spec => []IInv
<1>1. IInv /\ [Next]_vars => IInv'
  BY NextHolds, StutterHolds
<1> QED
  BY <1>1, InitHolds, PTL DEF Spec

(* _ptr and _cnt stay within the buffer, and a buffer is written or read   *)
(* only while there is one, for any sizes and any calls.                   *)
THEOREM TypeCorrect == Spec => []TypeOK
<1>1. IInv => TypeOK
  <2> SUFFICES ASSUME IInv PROVE TypeOK
    OBVIOUS
  <2>1. rwp \in 0..MaxPos
    BY Sizes DEF IInv, Disk
  <2>2. IF Writing THEN cnt > 0 => ptr = cnt ELSE ptr + cnt <= size
    BY DEF IInv, Buffered
  <2>3. cnt > 0 => base
    BY DEF IInv, Buffered
  <2> QED
    BY <2>1, <2>2, <2>3 DEF IInv, Disk, Slots, Bits, TypeOK
<1> QED
  BY <1>1, Invariance, PTL

(* A line that was put out on a line buffered stream does not wait.        *)
THEOREM LinesCorrect == Spec => []LinesFlushed
<1>1. IInv => LinesFlushed
  BY DEF IInv
<1> QED
  BY <1>1, Invariance, PTL
-----------------------------------------------------------------------------

(***************************************************************************)
(* What was read ahead is the file's, but for the character pushed back    *)
(* (Image), and what a call of fgetc() is to return is what it would be if *)
(* it began now (Awaited): refills and skipped returns do not change it.   *)
(* When the end was met, nothing follows but a character pushed back since *)
(* (Met), whatever calls come that do not seek or write.                   *)
(***************************************************************************)
Readable == {"idle", "done", "get", "end", "seek"}

Image ==
  pc \in Readable /\ IsOpen /\ ~Writing =>
    /\ Len(pushed) <= cnt
    /\ \A i \in 0..(cnt - 1) :
         buf[ptr + i] = IF i < Len(pushed) THEN pushed[1] ELSE file[rwp - cnt + i + 1]

Awaited == pc = "get" => op.want = Wanted

(* What remains of f behind its first t bytes, when the first of them is   *)
(* replaced by p.                                                          *)
Behind(p, f, t) == p \o SubSeq(f, t + 1 + Len(p), Len(f))

Ended  == Has("READ") /\ ~Writing /\ Has("EOF") /\ ~Has("ERR")
Beyond == NextOf(Behind(<<>>, file, Tell + Len(pushed)))

Met == Ended => /\ pc \notin {"get", "end", "seek", "lseek"}
                /\ pc \in {"idle", "done"} => Beyond = EOF

ReadInv == IInv /\ Image /\ Awaited /\ Met /\ GetReturnsNext /\ SeekEndIsEnd

USE DEF Has, IsOpen, Writing, Text, fd, buffer
-----------------------------------------------------------------------------
(* A step that leaves nothing to be read, and does not end a call that     *)
(* reads or seeks the end, keeps the invariant.                            *)
Aside == /\ pc' \notin Readable \/ ~IsOpen' \/ Writing' \/ (cnt' = 0 /\ pushed' = <<>>)
         /\ pc' # "get"
         /\ pc' = "done" => op'.kind \notin {"fgetc", "seekend"}

LEMMA AsideHolds ==
  ASSUME Aside
  PROVE  Image' /\ Awaited' /\ GetReturnsNext' /\ SeekEndIsEnd'
<1>1. Image'
  <2>1. CASE pc' \notin Readable \/ ~IsOpen' \/ Writing'
    BY <2>1 DEF Image
  <2>2. CASE cnt' = 0 /\ pushed' = <<>>
    BY <2>2 DEF Image
  <2> QED
    BY <2>1, <2>2 DEF Aside
<1> QED
  BY <1>1 DEF Aside, Awaited, GetReturnsNext, SeekEndIsEnd

LEMMA FinishKind ==
  ASSUME NEW o, NEW ret, Finish(o, ret)
  PROVE  pc' = "done" /\ op'.kind = o.kind /\ op'.ret = ret /\ op'.want = o.want
  BY DEF Finish, NoOp

LEMMA NextByteKind ==
  ASSUME NEW o \in OpType, NEW ret, o.kind = "fputc", NextByte(o, ret)
  PROVE  pc' \in {"put", "done"} /\ op'.kind = "fputc"
<1>1. [o EXCEPT !.done = 0].kind = "fputc" /\ [o EXCEPT !.todo = Tail(o.todo), !.done = 0].kind = "fputc"
  BY DEF OpType
<1> QED
  BY <1>1, FinishKind DEF NextByte

LEMMA PutsAside ==
  ASSUME IInv, PutByte \/ PutNoBuffer \/ PutFull \/ Flsbuf \/ PutUnbuffered
  PROVE  Aside
<1>1. op \in OpType /\ op.kind = "fputc" /\ Writing
  <2>1. CASE pc = "put"
    BY <2>1 DEF IInv, Call, Stage, Putting
  <2>2. CASE pc # "put"
    BY <2>2 DEF PutByte, PutNoBuffer, PutFull, Flsbuf, PutUnbuffered, IInv, Call, Outgoing, InWrite,
                Passing, Spilling, Flushing, Putting
  <2> QED
    BY <2>1, <2>2
<1>2. Writing'
  BY <1>1 DEF PutByte, PutNoBuffer, PutFull, Flsbuf, PutUnbuffered
<1>3. \/ pc' = "write"
      \/ \E ret : NextByte(op, ret)
  BY DEF PutByte, PutNoBuffer, PutFull, Flsbuf, PutUnbuffered, StartWrite
<1>4. pc' \in {"write", "put", "done"} /\ (pc' = "done" => op'.kind = "fputc")
  BY <1>1, <1>3, NextByteKind
<1> QED
  BY <1>2, <1>4 DEF Aside

LEMMA WritesAside ==
  ASSUME IInv, WriteSector \/ WriteEnds \/ Flushed
  PROVE  Aside
<1>1. CASE WriteSector \/ WriteEnds
  <2>1. pc' \in {"write", "written"}
    BY <1>1 DEF WriteSector, WriteEnds
  <2> QED
    BY <2>1 DEF Aside, Readable
<1>2. CASE Flushed
  <2>1. Flushing /\ Writing /\ Writing'
    BY <1>2 DEF Flushed, IInv, Outgoing, InWrite, Passing, Spilling, Flushing
  <2>2. CASE op.then = "done"
    <3>1. Finish(op, IF Has("ERR") THEN EOF ELSE 0) /\ op.kind \in {"fflush", "fputc"}
      BY <1>2, <2>1, <2>2 DEF Flushed, Flushing
    <3> QED
      BY <2>1, <3>1, FinishKind DEF Aside
  <2>3. CASE op.then # "done"
    <3>1. pc' \in {"close", "exit", "ssize", "lseek"}
      BY <1>2, <2>1, <2>3 DEF Flushed, Flushing
    <3> QED
      BY <3>1 DEF Aside, Readable
  <2> QED
    BY <2>2, <2>3
<1> QED
  BY <1>1, <1>2

LEMMA ClosesAside ==
  ASSUME IInv, Fclose \/ ExitClose \/ FflushCall \/ FcloseCall \/ ExitCall
  PROVE  Aside
<1>1. CASE Fclose
  <2>1. op.kind = "fclose" /\ Finish(op, IF Has("ERR") THEN EOF ELSE 0)
    BY <1>1 DEF Fclose, IInv, Stage
  <2>2. ~IsOpen'
    BY <1>1 DEF Fclose, Shut
  <2> QED
    BY <2>1, <2>2, FinishKind DEF Aside
<1>2. CASE ExitClose
  BY <1>2 DEF ExitClose, Aside, Readable
<1>3. CASE FflushCall
  <2> DEFINE o == [NoOp EXCEPT !.kind = "fflush", !.ret = FflushRet]
  <2>1. Flush(o, "done") /\ o.kind = "fflush" /\ pushed' = <<>>
    BY <1>3 DEF FflushCall, NoOp
  <2> HIDE DEF o
  <2>2. pc' = "write" \/ (pc' = "done" /\ op' = o /\ cnt' = 0)
    BY <2>1, Flushes DEF StartWrite
  <2> QED
    BY <2>1, <2>2 DEF Aside, Readable
<1>4. CASE FcloseCall \/ ExitCall
  <2>1. pc' \in {"write", "close", "exit"}
    BY <1>4, Flushes DEF FcloseCall, ExitCall, StartWrite
  <2> QED
    BY <2>1 DEF Aside, Readable
<1> QED
  BY <1>1, <1>2, <1>3, <1>4

LEMMA SeeksAside ==
  ASSUME IInv, EndFlush \/ SeekFlush
  PROVE  Aside
<1>1. pc' \in {"write", "ssize", "lseek"}
  BY Flushes DEF EndFlush, SeekFlush, StartWrite
<1> QED
  BY <1>1 DEF Aside, Readable

LEMMA OpensAside ==
  ASSUME IInv, NEW m \in Modes, Fopen(m) \/ FopenNoFile(m) \/ FopenNoMemory(m)
  PROVE  Aside
<1>1. CASE Fopen(m)
  <2>1. cnt' = 0 /\ pushed' = <<>>
    BY <1>1 DEF Fopen
  <2>2. pc' = "end" \/ Finish([NoOp EXCEPT !.kind = "fopen"], 0)
    BY <1>1 DEF Fopen
  <2>3. [NoOp EXCEPT !.kind = "fopen"].kind = "fopen"
    BY DEF NoOp
  <2> QED
    BY <2>1, <2>2, <2>3, FinishKind DEF Aside
<1>2. CASE FopenNoFile(m)
  <2>1. pc' = "lost" \/ (pc' = "idle" /\ ~IsOpen')
    BY <1>2 DEF FopenNoFile
  <2> QED
    BY <2>1 DEF Aside, Readable
<1>3. CASE FopenNoMemory(m)
  <2>1. pc' = "idle" /\ ~IsOpen'
    BY <1>3 DEF FopenNoMemory
  <2> QED
    BY <2>1 DEF Aside
<1> QED
  BY <1>1, <1>2, <1>3

LEMMA BuffersAside ==
  ASSUME IInv, \/ \E mode \in Buffering : Setvbuf(mode)
               \/ \E c \in Chars : FputcCall(c)
  PROVE  Aside
<1>1. CASE \E mode \in Buffering : Setvbuf(mode)
  <2>1. pc' = "idle" /\ cnt' = 0 /\ pushed' = <<>>
    BY <1>1 DEF Setvbuf
  <2> QED
    BY <2>1 DEF Aside
<1>2. CASE \E c \in Chars : FputcCall(c)
  <2>1. pc' = "put"
    BY <1>2 DEF FputcCall
  <2> QED
    BY <2>1 DEF Aside, Readable
<1> QED
  BY <1>1, <1>2
-----------------------------------------------------------------------------
(* Steps that leave the buffer alone.                                      *)

LEMMA ImageKept ==
  ASSUME Image, pc \in Readable, UNCHANGED <<file, rwp, buf, ptr, cnt, pushed>>,
         IsOpen' => IsOpen, Writing' <=> Writing
  PROVE  Image'
  BY DEF Image

LEMMA CallsKeep ==
  ASSUME ReadInv,
         \/ Return \/ FputcRefused \/ FgetcBlocked \/ FseekEnd \/ EndBinary
         \/ \E offs \in 0..End : Fseek(offs)
  PROVE  Image' /\ Awaited' /\ GetReturnsNext' /\ SeekEndIsEnd'
<1>1. Image'
  <2>1. /\ UNCHANGED <<file, rwp, buf, ptr, cnt, pushed>> /\ (IsOpen' => IsOpen) /\ (Writing' <=> Writing)
        /\ pc \in Readable
    BY DEF Return, FputcRefused, FgetcBlocked, FseekEnd, EndBinary, Fseek, Readable
  <2> QED
    BY <2>1, ImageKept DEF ReadInv
<1>2. /\ pc' # "get"
      /\ pc' = "done" => /\ op'.kind # "seekend"
                         /\ op'.kind = "fgetc" => op'.ret = IF pushed' = <<>> THEN op'.want ELSE EOF
  <2>1. CASE Return \/ FseekEnd \/ EndBinary \/ \E offs \in 0..End : Fseek(offs)
    BY <2>1 DEF Return, FseekEnd, EndBinary, Fseek
  <2>2. CASE FputcRefused
    <3>1. [NoOp EXCEPT !.kind = "fputc"].kind = "fputc"
      BY DEF NoOp
    <3> QED
      BY <2>2, <3>1, FinishKind DEF FputcRefused
  <2>3. CASE FgetcBlocked
    <3> DEFINE o == [NoOp EXCEPT !.kind = "fgetc", !.want = Owed]
    <3>1. o.kind = "fgetc" /\ o.want = Owed
      BY DEF NoOp
    <3>2. Finish(o, EOF) /\ pushed' = pushed /\ pc = "idle" /\ Blocked
      BY <2>3 DEF FgetcBlocked
    <3>3. pushed = <<>> => Owed = EOF
      <4>1. SUFFICES ASSUME pushed = <<>>, Has("READ"), ~Writing, ~Has("ERR") PROVE Wanted = EOF
        BY DEF Owed
      <4>2. Ended
        BY <3>2, <4>1 DEF Blocked, Ended
      <4>3. Beyond = EOF
        BY <3>2, <4>2 DEF ReadInv, Met
      <4>4. Tell + Len(pushed) = Tell
        <5>1. PICK t \in Nat : t = Tell
          BY Positions DEF ReadInv
        <5>2. Len(pushed) = 0 /\ t + 0 = t
          BY <4>1, <5>1
        <5> QED
          BY <5>1, <5>2
      <4> QED
        BY <4>1, <4>3, <4>4 DEF Beyond, Behind, Wanted
    <3> HIDE DEF o
    <3> QED
      BY <3>1, <3>2, <3>3, FinishKind
  <2> QED
    BY <2>1, <2>2, <2>3
<1> QED
  BY <1>1, <1>2 DEF Awaited, GetReturnsNext, SeekEndIsEnd

LEMMA SeekUnbufferedKeeps ==
  ASSUME ReadInv, NEW offs \in 0..End, SeekUnbuffered(offs)
  PROVE  Image' /\ Awaited' /\ GetReturnsNext' /\ SeekEndIsEnd'
<1>1. pc = "idle" /\ pc' = "idle" /\ cnt = 0 /\ cnt' = 0 /\ pushed' = pushed
      /\ (IsOpen' <=> IsOpen) /\ (Writing' <=> Writing)
  BY Positions DEF SeekUnbuffered, ReadInv, IInv, Buffered, Slots
<1>2. Image'
  BY <1>1 DEF ReadInv, Image, Readable
<1> QED
  BY <1>1, <1>2 DEF Awaited, GetReturnsNext, SeekEndIsEnd

LEMMA UngetcKeeps ==
  ASSUME ReadInv, NEW c \in Chars, ptr # 0, Ungetc(c)
  PROVE  Image' /\ Awaited' /\ GetReturnsNext' /\ SeekEndIsEnd'
<1>1. /\ pc = "idle" /\ pc' = "idle" /\ pushed = <<>> /\ pushed' = <<c>> /\ IsOpen /\ ~Writing
      /\ buf' = [buf EXCEPT ![ptr - 1] = c] /\ ptr' = ptr - 1 /\ cnt' = cnt + 1
      /\ UNCHANGED <<file, rwp, flag>>
  BY DEF Ungetc
<1>2. /\ ptr \in Nat /\ cnt \in Nat /\ rwp \in Nat /\ ptr + cnt <= BUFSIZ /\ BUFSIZ \in Nat /\ ptr > 0
      /\ buf \in [0..(BUFSIZ - 1) -> Byte \cup {0}]
  <2>1. size \in {0, BUFSIZ} /\ ptr + cnt <= size
    BY <1>1 DEF ReadInv, IInv, Slots, Buffered
  <2>2. ptr \in Nat /\ cnt \in Nat /\ rwp \in Nat /\ BUFSIZ \in Nat
    BY Positions, Sizes DEF ReadInv
  <2> QED
    BY <2>1, <2>2 DEF ReadInv, IInv, Slots
<1>3. \A i \in 0..(cnt - 1) : buf[ptr + i] = file[rwp - cnt + i + 1]
  <2>1. Image
    BY DEF ReadInv
  <2>2. Len(pushed) = 0
    BY <1>1
  <2>3. \A i \in 0..(cnt - 1) : ~(i < Len(pushed))
    BY <1>2, <2>2
  <2> QED
    BY <1>1, <2>1, <2>3 DEF Image, Readable
<1>4. ASSUME NEW i \in 0..cnt
      PROVE  buf'[ptr - 1 + i] = IF i < 1 THEN c ELSE file[rwp - (cnt + 1) + i + 1]
  <2>1. ptr - 1 + i \in 0..(BUFSIZ - 1) /\ ptr - 1 \in 0..(BUFSIZ - 1)
    BY <1>2
  <2>2. CASE i = 0
    BY <1>1, <1>2, <2>1, <2>2
  <2>3. CASE i # 0
    <3>1. PICK j \in 0..(cnt - 1) : i = j + 1
      BY <1>2, <2>3
    <3>2. buf[ptr + j] = file[rwp - cnt + j + 1]
      BY <1>3, <3>1
    <3>3. ptr - 1 + i = ptr + j /\ rwp - (cnt + 1) + i + 1 = rwp - cnt + j + 1
      BY <1>2, <3>1
    <3>4. buf'[ptr + j] = buf[ptr + j]
      BY <1>1, <1>2, <2>1, <3>1, <3>3
    <3> QED
      BY <1>2, <2>3, <3>2, <3>3, <3>4
  <2> QED
    BY <2>2, <2>3
<1>5. Image'
  <2>1. Len(pushed') = 1 /\ pushed'[1] = c /\ cnt' >= 1 /\ cnt' - 1 = cnt
    BY <1>1, <1>2
  <2> QED
    BY <1>1, <1>4, <2>1 DEF Image
<1> QED
  BY <1>1, <1>5 DEF Awaited, GetReturnsNext, SeekEndIsEnd
-----------------------------------------------------------------------------
(* What comes next of a sequence of bytes.                                 *)

LEMMA NextIsFirst ==
  ASSUME NEW s \in Seq(Byte), s # <<>>, ~(Text /\ s[1] = CR)
  PROVE  NextOf(s) = IF Text /\ s[1] = CPMETX THEN EOF ELSE s[1]
<1>1. 1 \in DOMAIN s /\ \A j \in DOMAIN s : 1 <= j
  OBVIOUS
<1>2. 1 \in Visible(s) /\ \A j \in Visible(s) : j \in Nat /\ 1 <= j
  BY <1>1 DEF Visible
<1>3. PICK i \in Visible(s) : /\ \A j \in Visible(s) : i <= j
                              /\ NextOf(s) = IF Text /\ s[i] = CPMETX THEN EOF ELSE s[i]
  BY <1>2, NextOfFirst
<1>4. i = 1
  BY <1>2, <1>3
<1> QED
  BY <1>3, <1>4

LEMMA NothingIsNext == NextOf(<<>>) = EOF
<1>1. Visible(<<>>) = {}
  BY DEF Visible
<1> QED
  BY <1>1 DEF NextOf

(* Returns do not count in a text. *)
LEMMA NextAfterReturn ==
  ASSUME NEW s \in Seq(Byte), s # <<>>, Text, s[1] = CR
  PROVE  NextOf(s) = NextOf(Tail(s))
<1>1. /\ Tail(s) \in Seq(Byte) /\ Len(s) \in Nat \ {0} /\ Len(Tail(s)) = Len(s) - 1
      /\ \A i \in 1..(Len(s) - 1) : Tail(s)[i] = s[i + 1]
  OBVIOUS
<1>2. Visible(s) = {i \in 1..Len(s) : s[i] # CR} /\ Visible(Tail(s)) = {i \in 1..(Len(s) - 1) : s[i + 1] # CR}
  BY <1>1 DEF Visible
<1>3. ASSUME NEW i, i \in Visible(s) PROVE i - 1 \in Visible(Tail(s)) /\ i \in Nat
  <2>1. i \in 1..Len(s) /\ s[i] # CR /\ i # 1
    BY <1>2, <1>3
  <2>2. i - 1 \in 1..(Len(s) - 1) /\ (i - 1) + 1 = i
    BY <1>1, <2>1
  <2> QED
    BY <1>2, <2>1, <2>2
<1>4. ASSUME NEW i, i \in Visible(Tail(s)) PROVE i + 1 \in Visible(s) /\ i \in 1..(Len(s) - 1)
  BY <1>1, <1>2, <1>4
<1>5. CASE Visible(s) = {}
  BY <1>4, <1>5 DEF NextOf
<1>6. CASE Visible(s) # {}
  <2>1. PICK i \in Visible(s) : /\ \A j \in Visible(s) : i <= j
                                /\ NextOf(s) = IF Text /\ s[i] = CPMETX THEN EOF ELSE s[i]
    BY <1>6, NextOfFirst
  <2>2. Visible(Tail(s)) # {}
    BY <1>3, <2>1
  <2>3. PICK k \in Visible(Tail(s)) :
             /\ \A j \in Visible(Tail(s)) : k <= j
             /\ NextOf(Tail(s)) = IF Text /\ Tail(s)[k] = CPMETX THEN EOF ELSE Tail(s)[k]
    BY <1>1, <2>2, NextOfFirst
  <2>4. k <= i - 1 /\ i <= k + 1 /\ i \in Nat /\ k \in 1..(Len(s) - 1)
    BY <1>3, <1>4, <2>1, <2>3
  <2>5. i = k + 1
    BY <1>1, <2>4
  <2>6. Tail(s)[k] = s[i]
    BY <1>1, <2>4, <2>5
  <2>7. CASE s[i] = CPMETX
    BY <2>1, <2>3, <2>6, <2>7
  <2>8. CASE s[i] # CPMETX
    BY <2>1, <2>3, <2>6, <2>8
  <2> QED
    BY <2>7, <2>8
<1> QED
  BY <1>5, <1>6
-----------------------------------------------------------------------------
(* What remains behind a position.                                         *)
LEMMA BehindIs ==
  ASSUME NEW p \in Seq(Byte), NEW f \in Seq(Byte), NEW t \in Nat, t + Len(p) <= Len(f)
  PROVE  /\ Behind(p, f, t) \in Seq(Byte) /\ Len(Behind(p, f, t)) = Len(f) - t
         /\ \A i \in 1..(Len(f) - t) :
              Behind(p, f, t)[i] = IF i <= Len(p) THEN p[i] ELSE f[t + i]
<1> DEFINE rest == SubSeq(f, t + 1 + Len(p), Len(f))
<1>1. PICK k \in Nat : k = t + Len(p) /\ k <= Len(f) /\ t + 1 + Len(p) = k + 1
  OBVIOUS
<1>2. /\ Len(SubSeq(f, k + 1, Len(f))) = Len(f) - k /\ SubSeq(f, k + 1, Len(f)) \in Seq(Byte)
      /\ \A i \in 1..(Len(f) - k) : SubSeq(f, k + 1, Len(f))[i] = f[k + i]
  BY <1>1
<1>3. rest = SubSeq(f, k + 1, Len(f)) /\ Behind(p, f, t) = p \o rest
  BY <1>1 DEF Behind
<1> HIDE DEF rest
<1>4. Len(rest) = Len(f) - k /\ rest \in Seq(Byte) /\ \A i \in 1..(Len(f) - k) : rest[i] = f[k + i]
  BY <1>2, <1>3
<1>5. Len(p \o rest) = Len(f) - t /\ p \o rest \in Seq(Byte)
  BY <1>1, <1>4
<1>6. ASSUME NEW i \in 1..(Len(f) - t)
      PROVE  (p \o rest)[i] = IF i <= Len(p) THEN p[i] ELSE f[t + i]
  <2>1. CASE i <= Len(p)
    BY <1>4, <2>1
  <2>2. CASE ~(i <= Len(p))
    <3>1. (p \o rest)[i] = rest[i - Len(p)]
      BY <1>1, <1>4, <2>2
    <3>2. i - Len(p) \in 1..(Len(f) - k) /\ k + (i - Len(p)) = t + i
      BY <1>1, <2>2
    <3>3. rest[i - Len(p)] = f[t + i]
      BY <1>4, <3>2
    <3> QED
      BY <2>2, <3>1, <3>3
  <2> QED
    BY <2>1, <2>2
<1> QED
  BY <1>3, <1>5, <1>6

LEMMA BehindNext ==
  ASSUME NEW p \in Seq(Byte), NEW f \in Seq(Byte), NEW t \in Nat, Len(p) <= 1, t + 1 <= Len(f)
  PROVE  /\ Behind(p, f, t) \in Seq(Byte) /\ Behind(p, f, t) # <<>>
         /\ Behind(p, f, t)[1] = IF p = <<>> THEN f[t + 1] ELSE p[1]
         /\ Behind(<<>>, f, t + 1) = Tail(Behind(p, f, t))
<1> DEFINE s == Behind(p, f, t)
           r == Behind(<<>>, f, t + 1)
<1>1. t + Len(p) <= Len(f) /\ <<>> \in Seq(Byte) /\ Len(<<>>) = 0 /\ (t + 1) + 0 <= Len(f) /\ t + 1 \in Nat
  OBVIOUS
<1>2. /\ s \in Seq(Byte) /\ Len(s) = Len(f) - t
      /\ \A i \in 1..(Len(f) - t) : s[i] = IF i <= Len(p) THEN p[i] ELSE f[t + i]
  BY <1>1, BehindIs
<1>3. /\ r \in Seq(Byte) /\ Len(r) = Len(f) - (t + 1)
      /\ \A i \in 1..(Len(f) - (t + 1)) : r[i] = f[(t + 1) + i]
  <2>1. \A i \in 1..(Len(f) - (t + 1)) : ~(i <= Len(<<>>))
    BY <1>1
  <2>2. /\ r \in Seq(Byte) /\ Len(r) = Len(f) - (t + 1)
        /\ \A i \in 1..(Len(f) - (t + 1)) : r[i] = IF i <= Len(<<>>) THEN <<>>[i] ELSE f[(t + 1) + i]
    <3>1. ASSUME NEW e \in Seq(Byte), NEW k \in Nat, k + Len(e) <= Len(f)
          PROVE  /\ Behind(e, f, k) \in Seq(Byte) /\ Len(Behind(e, f, k)) = Len(f) - k
                 /\ \A i \in 1..(Len(f) - k) : Behind(e, f, k)[i] = IF i <= Len(e) THEN e[i] ELSE f[k + i]
      BY <3>1, BehindIs, Zenon
    <3> QED
      BY <1>1, <3>1
  <2> QED
    BY <2>1, <2>2
<1> HIDE DEF s, r
<1>4. s # <<>> /\ s[1] = IF p = <<>> THEN f[t + 1] ELSE p[1]
  BY <1>2
<1>5. /\ Tail(s) \in Seq(Byte) /\ Len(Tail(s)) = Len(f) - (t + 1)
      /\ \A i \in 1..(Len(f) - (t + 1)) : Tail(s)[i] = s[i + 1]
  BY <1>2, <1>4
<1>6. ASSUME NEW i \in 1..(Len(f) - (t + 1)) PROVE s[i + 1] = f[(t + 1) + i]
  <2>1. i + 1 \in 1..(Len(f) - t) /\ ~(i + 1 <= Len(p)) /\ t + (i + 1) = (t + 1) + i
    BY <1>1
  <2> QED
    BY <1>2, <2>1
<1>7. r = Tail(s)
  <2>1. PICK v \in Seq(Byte) : v = Tail(s)
    BY <1>5
  <2>2. Len(r) = Len(v) /\ \A i \in 1..Len(r) : r[i] = v[i]
    BY <1>3, <1>5, <1>6, <2>1
  <2>3. r \in Seq(Byte)
    BY <1>3
  <2> QED
    BY <2>1, <2>2, <2>3, SameBytes
<1> QED
  BY <1>2, <1>4, <1>7 DEF s, r

(* What a reader expects, and how it changes when a character is taken.    *)
LEMMA Awaits ==
  ASSUME IInv
  PROVE  /\ Wanted = NextOf(Behind(pushed, file, Tell)) /\ file \in Seq(Byte) /\ pushed \in Seq(Byte)
         /\ Len(pushed) <= 1 /\ Tell \in Nat /\ Len(file) \in Nat
<1>1. Wanted = NextOf(Behind(pushed, file, Tell))
  BY DEF Wanted, Behind
<1>2. file \in Seq(Byte)
  BY DEF IInv, Disk
<1>3. pushed \in Seq(Byte) /\ Len(pushed) \in 0..1
  BY RemainingType
<1>4. Tell \in Nat /\ Len(file) \in Nat
  BY Positions
<1> QED
  BY <1>1, <1>2, <1>3, <1>4

LEMMA Taken ==
  ASSUME IInv, Tell + 1 <= Len(file), NEW c,
         c = IF pushed = <<>> THEN file[Tell + 1] ELSE pushed[1]
  PROVE  /\ ~(Text /\ c = CR) => Wanted = IF Text /\ c = CPMETX THEN EOF ELSE c
         /\ Text /\ c = CR /\ UNCHANGED <<file, flag>> /\ pushed' = <<>> /\ Tell' = Tell + 1 => Wanted' = Wanted
<1> DEFINE s == Behind(pushed, file, Tell)
<1>1. /\ Wanted = NextOf(s) /\ s \in Seq(Byte) /\ s # <<>> /\ s[1] = c
      /\ Behind(<<>>, file, Tell + 1) = Tail(s)
  BY Awaits, BehindNext
<1> HIDE DEF s
<1>2. ~(Text /\ c = CR) => Wanted = IF Text /\ c = CPMETX THEN EOF ELSE c
  BY <1>1, NextIsFirst
<1>3. ASSUME Text, c = CR, UNCHANGED <<file, flag>>, pushed' = <<>>, Tell' = Tell + 1
      PROVE  Wanted' = Wanted
  <2>1. NextOf(s) = NextOf(Tail(s))
    BY <1>1, <1>3, NextAfterReturn
  <2>2. PICK r : r = Behind(<<>>, file, Tell + 1)
    OBVIOUS
  <2>3. Wanted' = NextOf(r)'
    BY <1>3, <2>2 DEF Wanted, Behind
  <2>4. NextOf(r)' = NextOf(r)
    BY <1>3 DEF NextOf, Visible
  <2> QED
    BY <1>1, <2>1, <2>2, <2>3, <2>4
<1> QED
  BY <1>2, <1>3
-----------------------------------------------------------------------------
LEMMA FgetcCallKeeps ==
  ASSUME ReadInv, FgetcCall
  PROVE  Image' /\ Awaited' /\ GetReturnsNext' /\ SeekEndIsEnd'
<1>1. /\ pc = "idle" /\ pc' = "get" /\ UNCHANGED <<file, rwp, base, size, buf, ptr, cnt, pushed>>
      /\ flag' = flag \ {"DIRN"} /\ op' = [NoOp EXCEPT !.kind = "fgetc", !.want = Wanted]
      /\ Writing => cnt = 0
  BY DEF FgetcCall, Blocked
<1>2. Image'
  <2>1. CASE Writing
    <3>1. cnt' = 0 /\ pushed' = <<>>
      BY <1>1, <2>1 DEF ReadInv, IInv, Buffered
    <3> QED
      BY <3>1 DEF Image
  <2>2. CASE ~Writing
    <3>1. pc \in Readable /\ (IsOpen' => IsOpen) /\ (Writing' <=> Writing)
      BY <1>1, <2>2 DEF Readable
    <3> QED
      BY <1>1, <3>1, ImageKept DEF ReadInv
  <2> QED
    BY <2>1, <2>2
<1>3. Awaited'
  <2>1. op'.want = Wanted
    BY <1>1 DEF NoOp
  <2>2. Tell' = Tell
    <3>1. Tell' = rwp - cnt
      BY <1>1 DEF Tell
    <3>2. CASE Writing
      BY <1>1, <3>1, <3>2, Positions DEF ReadInv
    <3>3. CASE ~Writing
      BY <3>1, <3>3, Positions DEF ReadInv
    <3> QED
      BY <3>2, <3>3
  <2>3. PICK r : r = pushed \o SubSeq(file, Tell + 1 + Len(pushed), Len(file))
    OBVIOUS
  <2>4. Wanted = NextOf(r) /\ Wanted' = NextOf(r)'
    BY <1>1, <2>2, <2>3 DEF Wanted
  <2>5. NextOf(r)' = NextOf(r)
    BY <1>1 DEF NextOf, Visible
  <2> QED
    BY <2>1, <2>4, <2>5 DEF Awaited
<1> QED
  BY <1>1, <1>2, <1>3 DEF GetReturnsNext, SeekEndIsEnd

(* A byte c that remains has been taken from the buffer or the file.       *)
LEMMA TakenKeeps ==
  ASSUME ReadInv, pc = "get", ~Writing, Tell + 1 <= Len(file), NEW c \in Int,
         c = IF pushed = <<>> THEN file[Tell + 1] ELSE pushed[1],
         NEW p, NEW n, NEW more, Deliver(c, p, n, more), UNCHANGED file,
         ~(Text /\ c = CPMETX) => Tell' = Tell + 1,
         Image'
  PROVE  Awaited' /\ GetReturnsNext' /\ SeekEndIsEnd'
<1>1. IInv /\ op.want = Wanted /\ op.kind = "fgetc" /\ op \in OpType
  BY DEF ReadInv, Awaited, IInv, Stage, Call
<1>2. CASE Text /\ c = CPMETX
  <2>1. Finish(op, EOF)
    BY <1>2 DEF Deliver
  <2>2. Wanted = EOF
    <3>1. c # CR
      BY <1>2, Characters
    <3> QED
      BY <1>1, <1>2, <3>1, Taken
  <2> QED
    BY <1>1, <2>1, <2>2, FinishKind DEF Awaited, GetReturnsNext, SeekEndIsEnd
<1>3. CASE Text /\ c = CR
  <2>1. c # CPMETX
    BY <1>3, Characters
  <2>2. UNCHANGED <<flag, pc, op>> /\ pushed' = <<>> /\ Tell' = Tell + 1
    BY <1>3, <2>1 DEF Deliver
  <2>3. Wanted' = Wanted
    BY <1>1, <1>3, <2>2, Taken
  <2> QED
    BY <1>1, <2>2, <2>3 DEF Awaited, GetReturnsNext, SeekEndIsEnd
<1>4. CASE ~(Text /\ c = CPMETX) /\ ~(Text /\ c = CR)
  <2>1. Finish(op, c) /\ pushed' = <<>>
    BY <1>4 DEF Deliver
  <2>2. Wanted = c
    BY <1>1, <1>4, Taken
  <2> QED
    BY <1>1, <2>1, <2>2, FinishKind DEF Awaited, GetReturnsNext, SeekEndIsEnd
<1> QED
  BY <1>2, <1>3, <1>4

LEMMA GetByteKeeps ==
  ASSUME ReadInv, GetByte
  PROVE  Image' /\ Awaited' /\ GetReturnsNext' /\ SeekEndIsEnd'
<1>1. /\ pc = "get" /\ ~Writing /\ IsOpen /\ cnt > 0 /\ cnt \in Nat /\ ptr \in Nat /\ rwp \in Nat
      /\ rwp <= Len(file) /\ Len(file) \in Nat /\ base
      /\ UNCHANGED <<file, rwp, base, size, buf, tty>> /\ Tell = rwp - cnt
      /\ Len(pushed) \in 0..1 /\ buf \in [0..(BUFSIZ - 1) -> Byte \cup {0}] /\ ptr + cnt <= size /\ size \in {0, BUFSIZ}
  BY Positions, RemainingType DEF GetByte, ReadInv, IInv, Stage, Slots, Buffered
<1>2. /\ Len(pushed) <= cnt
      /\ \A i \in 0..(cnt - 1) : buf[ptr + i] = IF i < Len(pushed) THEN pushed[1] ELSE file[rwp - cnt + i + 1]
  BY <1>1 DEF ReadInv, Image, Readable
<1>3. PICK c : c = buf[ptr]
  OBVIOUS
<1>4. c \in Int
  <2>1. ptr \in 0..(BUFSIZ - 1)
    BY <1>1, Sizes
  <2>2. buf[ptr] \in Byte \cup {0}
    BY <1>1, <2>1
  <2> QED
    BY <1>3, <2>2, BytesAreNumbers
<1>5. c = IF pushed = <<>> THEN file[Tell + 1] ELSE pushed[1]
  <2>1. buf[ptr + 0] = IF 0 < Len(pushed) THEN pushed[1] ELSE file[rwp - cnt + 0 + 1]
    BY <1>1, <1>2
  <2>2. ptr + 0 = ptr /\ rwp - cnt + 0 + 1 = Tell + 1
    BY <1>1
  <2>3. 0 < Len(pushed) <=> pushed # <<>>
    BY RemainingType DEF ReadInv
  <2> QED
    BY <1>3, <2>1, <2>2, <2>3
<1>6. Deliver(c, ptr + 1, cnt - 1, base)
  BY <1>3 DEF GetByte
<1>7. /\ Text /\ c = CPMETX => ptr' = ptr /\ cnt' = cnt /\ pushed' = pushed
      /\ ~(Text /\ c = CPMETX) => ptr' = ptr + 1 /\ cnt' = cnt - 1 /\ pushed' = <<>>
      /\ Has("DIRN")' = Has("DIRN")
  <2>1. CASE Text /\ c = CPMETX
    <3>1. ptr' = (ptr + 1) - 1 /\ cnt' = (cnt - 1) + 1 /\ pushed' = pushed /\ flag' = flag \cup {"EOF"}
      BY <1>1, <1>6, <2>1 DEF Deliver
    <3> QED
      BY <1>1, <2>1, <3>1
  <2>2. CASE ~(Text /\ c = CPMETX)
    BY <1>6, <2>2 DEF Deliver
  <2> QED
    BY <2>1, <2>2
<1>8. Image'
  <2>1. CASE Text /\ c = CPMETX
    BY <1>1, <1>2, <1>7, <2>1 DEF Image
  <2>2. CASE ~(Text /\ c = CPMETX)
    <3>1. ptr' = ptr + 1 /\ cnt' = cnt - 1 /\ pushed' = <<>> /\ UNCHANGED <<file, rwp, buf>>
      BY <1>1, <1>7, <2>2
    <3>2. ASSUME NEW i \in 0..(cnt - 2) PROVE buf[(ptr + 1) + i] = file[rwp - (cnt - 1) + i + 1]
      <4>1. i + 1 \in 0..(cnt - 1) /\ ~(i + 1 < Len(pushed)) /\ ptr + (i + 1) = (ptr + 1) + i
            /\ rwp - cnt + (i + 1) + 1 = rwp - (cnt - 1) + i + 1
        BY <1>1, <3>2
      <4> QED
        BY <1>2, <4>1
    <3>3. cnt' - 1 = cnt - 2 /\ Len(pushed') = 0 /\ 0 <= cnt'
      BY <1>1, <3>1
    <3>4. \A i \in 0..(cnt' - 1) : ~(i < Len(pushed'))
      BY <3>3
    <3> QED
      BY <3>1, <3>2, <3>3, <3>4 DEF Image
  <2> QED
    BY <2>1, <2>2
<1>9. ~(Text /\ c = CPMETX) => Tell' = Tell + 1
  <2>1. SUFFICES ASSUME ~(Text /\ c = CPMETX) PROVE Tell' = Tell + 1
    OBVIOUS
  <2>2. cnt' = cnt - 1 /\ ~Has("DIRN")' /\ rwp' = rwp
    BY <1>1, <1>7, <2>1
  <2>3. Tell' = rwp - (cnt - 1)
    BY <2>2 DEF Tell
  <2> QED
    BY <1>1, <2>3
<1>10. Tell + 1 <= Len(file)
  BY <1>1
<1> QED
  BY <1>1, <1>4, <1>5, <1>6, <1>8, <1>9, <1>10, TakenKeeps

LEMMA GetFillKeeps ==
  ASSUME ReadInv, GetFill
  PROVE  Image' /\ Awaited' /\ GetReturnsNext' /\ SeekEndIsEnd'
<1> DEFINE n == Available(IF size = 0 THEN 1 ELSE size)
<1>1. /\ pc = "get" /\ cnt = 0 /\ ~Writing /\ IsOpen /\ op.kind = "fgetc" /\ op.want = Wanted
      /\ rwp \in Nat /\ rwp <= Len(file) /\ Len(file) \in Nat /\ size \in {0, BUFSIZ} /\ size \in Nat /\ base \in BOOLEAN
      /\ base <=> size = BUFSIZ
      /\ file \in Seq(Byte) /\ UNCHANGED <<file, base, size, tty>> /\ Tell = rwp
  BY Positions, Sizes DEF GetFill, ReadInv, IInv, Stage, Slots, Buffered, Awaited, Disk, Call
<1>2. pushed = <<>>
  <2>1. Len(pushed) <= 0 /\ Len(pushed) \in 0..1
    BY <1>1, RemainingType DEF ReadInv, Image, Readable
  <2> QED
    BY <2>1, RemainingType DEF ReadInv
<1>3. /\ n \in Nat /\ rwp + n <= Len(file) /\ (n = 0 => rwp = Len(file)) /\ (size # 0 => n <= size)
  BY <1>1, Sizes DEF Available, Least
<1>4. CASE n = 0
  <2>1. Finish(op, EOF) /\ UNCHANGED <<rwp, buf, cnt, pushed>>
    BY <1>4 DEF GetFill
  <2>2. Image'
    BY <1>1, <1>2, <2>1 DEF Image
  <2>3. Wanted = EOF
    <3>1. Behind(pushed, file, Tell) = <<>>
      <4>1. PICK e \in Seq(Byte) : e = pushed /\ Len(e) = 0
        BY <1>2, EmptyFile
      <4>2. PICK k \in Nat : k = Tell /\ k = Len(file) /\ k + Len(e) <= Len(file)
        BY <1>1, <1>3, <1>4, <4>1
      <4>3. Behind(e, file, k) \in Seq(Byte) /\ Len(Behind(e, file, k)) = Len(file) - k
        BY <1>1, <4>2, BehindIs
      <4> QED
        BY <4>1, <4>2, <4>3
    <3> QED
      BY <3>1, Awaits, NothingIsNext DEF ReadInv
  <2> QED
    BY <1>1, <2>1, <2>2, <2>3, FinishKind DEF Awaited, GetReturnsNext, SeekEndIsEnd
<1>5. CASE n # 0
  <2>1. /\ rwp' = rwp + n
        /\ size = 0 => buf' = buf /\ Deliver(file[rwp + 1], ptr, 0, base)
        /\ size # 0 => /\ buf' = [i \in DOMAIN buf |-> IF i < n THEN file[rwp + 1 + i] ELSE 0]
                       /\ Deliver(file[rwp + 1], 1, n - 1, base)
    BY <1>5 DEF GetFill
  <2> HIDE DEF n
  <2>2. PICK c : c = file[rwp + 1]
    OBVIOUS
  <2>3. c \in Int /\ Tell + 1 <= Len(file)
    <3>1. rwp + 1 \in 1..Len(file)
      BY <1>1, <1>3, <1>5
    <3>2. file[rwp + 1] \in Byte
      BY <1>1, <3>1
    <3> QED
      BY <1>1, <2>2, <3>1, <3>2, BytesAreNumbers
  <2>4. c = IF pushed = <<>> THEN file[Tell + 1] ELSE pushed[1]
    BY <1>1, <1>2, <2>2
  <2>5. CASE size = 0
    <3>1. Deliver(c, ptr, 0, base) /\ n = 1 /\ ~base
      BY <1>1, <1>3, <1>5, <2>1, <2>2, <2>5, Sizes DEF n, Available, Least
    <3>2. cnt' = 0 /\ pushed' = <<>> /\ Has("DIRN")' = Has("DIRN")
      BY <1>2, <3>1 DEF Deliver
    <3>3. Image'
      BY <3>2 DEF Image
    <3>4. Tell' = Tell + 1
      <4>1. Tell' = rwp' - cnt'
        BY <1>1, <3>2 DEF Tell
      <4> QED
        BY <1>1, <2>1, <3>1, <3>2, <4>1
    <3> QED
      BY <1>1, <2>3, <2>4, <3>1, <3>3, <3>4, TakenKeeps
  <2>6. CASE size # 0
    <3>1. Deliver(c, 1, n - 1, base) /\ base /\ size = BUFSIZ
      BY <1>1, <2>1, <2>2, <2>6
    <3>2. /\ pushed' = <<>> /\ Has("DIRN")' = Has("DIRN")
          /\ \/ Text /\ c = CPMETX /\ ptr' = 1 - 1 /\ cnt' = (n - 1) + 1
             \/ ~(Text /\ c = CPMETX) /\ ptr' = 1 /\ cnt' = n - 1
      BY <1>2, <3>1 DEF Deliver
    <3>3. ptr' \in Nat /\ cnt' \in Nat /\ ptr' + cnt' = n
      BY <1>3, <1>5, <3>2
    <3>4. ASSUME NEW i \in 0..(cnt' - 1) PROVE buf'[ptr' + i] = file[rwp' - cnt' + i + 1]
      <4>1. ptr' + i \in 0..(n - 1) /\ ptr' + i \in 0..(BUFSIZ - 1)
        <5>1. PICK u \in Nat, v \in Nat : u = ptr' /\ v = cnt' /\ u + v = n
          BY <3>3
        <5>2. n <= BUFSIZ /\ n \in Nat /\ BUFSIZ \in Nat
          BY <1>3, <2>6, <3>1, Sizes
        <5>3. i \in 0..(v - 1)
          BY <5>1
        <5>4. u + v = n
          BY <5>1
        <5>5. u + i \in 0..(n - 1)
          BY <5>2, <5>3, <5>4
        <5>6. u + i \in 0..(BUFSIZ - 1)
          BY <5>2, <5>5
        <5> QED
          BY <5>1, <5>5, <5>6
      <4>2. DOMAIN buf = 0..(BUFSIZ - 1)
        BY DEF ReadInv, IInv, Slots
      <4>3. buf'[ptr' + i] = file[rwp + 1 + (ptr' + i)]
        BY <1>3, <2>1, <2>6, <4>1, <4>2
      <4>4. rwp + 1 + (ptr' + i) = rwp' - cnt' + i + 1
        BY <1>1, <1>3, <2>1, <3>3
      <4> QED
        BY <4>3, <4>4
    <3>5. Image'
      <4>1. pushed' = <<>> /\ Len(<<>>) = 0 /\ 0 <= cnt'
        BY <3>2, <3>3, EmptyFile
      <4>2. \A i \in 0..(cnt' - 1) : ~(i < Len(pushed'))
        BY <4>1
      <4>3. Len(pushed') <= cnt'
        BY <4>1
      <4>4. \A i \in 0..(cnt' - 1) :
              buf'[ptr' + i] = IF i < Len(pushed') THEN pushed'[1] ELSE file'[rwp' - cnt' + i + 1]
        BY <1>1, <3>4, <4>2
      <4> QED
        BY <4>3, <4>4 DEF Image
    <3>6. ~(Text /\ c = CPMETX) => Tell' = Tell + 1
      <4>1. Tell' = rwp' - cnt'
        BY <1>1, <3>2 DEF Tell
      <4>2. ~(Text /\ c = CPMETX) => cnt' = n - 1
        BY <3>2
      <4>3. rwp' = rwp + n
        BY <2>1
      <4> QED
        BY <1>1, <1>3, <4>1, <4>2, <4>3
    <3> QED
      BY <1>1, <2>3, <2>4, <3>1, <3>5, <3>6, TakenKeeps
  <2> QED
    BY <2>5, <2>6
<1> QED
  BY <1>4, <1>5
-----------------------------------------------------------------------------
(* The end of the stream, once met.                                        *)

LEMMA MetAside ==
  ASSUME ~Ended' \/ pc' \in {"close", "exit", "exited", "write"}
  PROVE  Met'
  BY DEF Met

LEMMA MetKept ==
  ASSUME Met, pc \in {"idle", "done"}, pc' \in {"idle", "done"}, Ended' => Ended,
         file' = file, Text' <=> Text, (Tell + Len(pushed))' = Tell + Len(pushed)
  PROVE  Met'
<1>1. SUFFICES ASSUME Ended' PROVE Beyond' = EOF
  BY DEF Met
<1>2. PICK r : r = Behind(<<>>, file, Tell + Len(pushed))
  OBVIOUS
<1>3. Beyond = NextOf(r) /\ Beyond' = NextOf(r)'
  BY <1>2 DEF Beyond, Behind
<1>4. NextOf(r)' = NextOf(r)
  <2>1. Visible(r)' = Visible(r)
    BY DEF Visible
  <2> QED
    BY <2>1 DEF NextOf
<1> QED
  BY <1>1, <1>3, <1>4 DEF Met

LEMMA TellKept ==
  ASSUME rwp' = rwp, cnt' = cnt, base' = base, Writing' <=> Writing
  PROVE  Tell' = Tell
<1>1. CASE base /\ Writing
  BY <1>1 DEF Tell
<1>2. CASE ~(base /\ Writing)
  BY <1>2 DEF Tell
<1> QED
  BY <1>1, <1>2

LEMMA WritesMeet ==
  ASSUME ReadInv,
         \/ WriteSector \/ WriteEnds \/ Flushed
         \/ PutByte \/ PutNoBuffer \/ PutFull \/ Flsbuf \/ PutUnbuffered
         \/ \E c \in Chars : FputcCall(c)
  PROVE  Met'
<1>1. Writing'
  <2>1. CASE \E c \in Chars : FputcCall(c)
    BY <2>1 DEF FputcCall
  <2>2. CASE WriteSector \/ WriteEnds \/ Flushed \/ Flsbuf \/ PutUnbuffered
    <3>1. Writing
      BY <2>2 DEF WriteSector, WriteEnds, Flushed, Flsbuf, PutUnbuffered, ReadInv, IInv, Outgoing, InWrite,
                  Passing, Spilling, Flushing, Putting
    <3> QED
      BY <2>2, <3>1 DEF WriteSector, WriteEnds, Flushed, Flsbuf, PutUnbuffered
  <2>3. CASE PutByte \/ PutNoBuffer \/ PutFull
    <3>1. Writing
      BY <2>3 DEF PutByte, PutNoBuffer, PutFull, ReadInv, IInv, Stage, Putting
    <3> QED
      BY <2>3, <3>1 DEF PutByte, PutNoBuffer, PutFull
  <2> QED
    BY <2>1, <2>2, <2>3
<1> QED
  BY <1>1, MetAside DEF Ended

LEMMA OpensMeet ==
  ASSUME ReadInv,
         \/ Fclose \/ ExitClose \/ FcloseCall \/ ExitCall \/ FgetcCall \/ FseekEnd
         \/ \E m \in Modes : Fopen(m) \/ FopenNoFile(m) \/ FopenNoMemory(m)
         \/ \E offs \in 0..End : SeekUnbuffered(offs) \/ Fseek(offs)
  PROVE  Met'
<1>1. CASE Fclose \/ ExitClose
  <2>1. ~Has("READ")'
    BY <1>1 DEF Fclose, ExitClose, Shut
  <2> QED
    BY <2>1, MetAside DEF Ended
<1>2. CASE FcloseCall \/ ExitCall
  <2>1. pc' \in {"write", "close", "exit"}
    BY <1>2, Flushes DEF FcloseCall, ExitCall, StartWrite, ReadInv
  <2> QED
    BY <2>1, MetAside
<1>3. CASE FgetcCall
  <2>1. ~Has("EOF")'
    BY <1>3 DEF FgetcCall, Blocked
  <2> QED
    BY <2>1, MetAside DEF Ended
<1>4. CASE \E m \in Modes : Fopen(m) \/ FopenNoFile(m) \/ FopenNoMemory(m)
  <2>1. ~Has("EOF")'
    BY <1>4 DEF Fopen, FopenNoFile, FopenNoMemory
  <2> QED
    BY <2>1, MetAside DEF Ended
<1>5. CASE FseekEnd \/ \E offs \in 0..End : SeekUnbuffered(offs) \/ Fseek(offs)
  <2>1. ~Has("EOF")'
    BY <1>5 DEF FseekEnd, SeekUnbuffered, Fseek
  <2> QED
    BY <2>1, MetAside DEF Ended
<1> QED
  BY <1>1, <1>2, <1>3, <1>4, <1>5

LEMMA SeeksMeet ==
  ASSUME ReadInv, Careful, EndBinary \/ EndFlush \/ SeekNear \/ SeekFlush \/ Lseek \/ Ssize
  PROVE  Met'
<1>1. CASE EndBinary \/ EndFlush \/ SeekNear \/ SeekFlush \/ Lseek
  <2>1. pc \in {"end", "seek", "lseek"} /\ flag' = flag
    BY <1>1 DEF EndBinary, EndFlush, SeekNear, SeekFlush, Lseek
  <2>2. ~Ended
    BY <2>1 DEF ReadInv, Met
  <2> QED
    BY <2>1, <2>2, MetAside DEF Ended
<1>2. CASE Ssize
  <2>1. ~Has("EOF")'
    BY <1>2 DEF Ssize, ReadInv, IInv, Stage, Narrow
  <2> QED
    BY <2>1, MetAside DEF Ended
<1> QED
  BY <1>1, <1>2

LEMMA CallsMeet ==
  ASSUME ReadInv, Return \/ FputcRefused \/ FgetcBlocked
  PROVE  Met'
<1>1. /\ pc \in {"idle", "done"} /\ UNCHANGED <<file, rwp, cnt, base, pushed>>
      /\ (Text' <=> Text) /\ (Writing' <=> Writing) /\ (Ended' => Ended)
  BY DEF Return, FputcRefused, FgetcBlocked, Blocked, Ended
<1>2. pc' \in {"idle", "done"}
  BY FinishKind DEF Return, FputcRefused, FgetcBlocked
<1>3. Tell' = Tell
  BY <1>1, TellKept
<1>4. Met /\ (Tell + Len(pushed))' = Tell + Len(pushed)
  BY <1>1, <1>3 DEF ReadInv
<1> QED
  BY <1>1, <1>2, <1>4, MetKept

(* Nothing that was pushed back is left where nothing is read ahead.       *)
LEMMA NothingPushed ==
  ASSUME ReadInv, pc = "idle", cnt = 0, Has("READ"), ~Writing
  PROVE  pushed = <<>>
<1>1. Len(pushed) <= 0 /\ Len(pushed) \in 0..1
  BY RemainingType DEF ReadInv, Image, Readable
<1> QED
  BY <1>1, RemainingType DEF ReadInv

LEMMA SetvbufMeets ==
  ASSUME ReadInv, NEW mode \in Buffering, Setvbuf(mode)
  PROVE  Met'
<1>1. SUFFICES ASSUME Ended' PROVE Met'
  BY MetAside
<1>2. /\ pc = "idle" /\ pc' = "idle" /\ cnt = 0 /\ cnt' = 0 /\ pushed' = <<>> /\ UNCHANGED <<file, rwp>>
      /\ (Text' <=> Text) /\ (Writing' <=> Writing) /\ Ended
  BY <1>1 DEF Setvbuf, Ended
<1>3. pushed = <<>>
  BY <1>2, NothingPushed DEF Ended
<1>4. Tell' = Tell
  BY <1>2 DEF Tell, Ended
<1>5. Met /\ (Tell + Len(pushed))' = Tell + Len(pushed)
  BY <1>2, <1>3, <1>4 DEF ReadInv
<1> QED
  BY <1>2, <1>5, MetKept

LEMMA FflushMeets ==
  ASSUME ReadInv, ~AtCtrlZ, FflushCall
  PROVE  Met'
<1>1. SUFFICES ASSUME Ended', pc' # "write" PROVE Met'
  BY MetAside
<1>2. /\ pc = "idle" /\ pushed' = <<>> /\ UNCHANGED <<file, rwp, base>>
      /\ (Text' <=> Text) /\ (Writing' <=> Writing) /\ Ended
  BY <1>1 DEF FflushCall, Ended
<1>3. cnt = 0
  BY <1>2 DEF AtCtrlZ, Ended
<1>4. pc' = "done" /\ cnt' = 0
  <2>1. Has("READ") /\ ~Writing
    BY <1>2 DEF Ended
  <2> QED
    BY <2>1 DEF FflushCall, Flush, Emptied
<1>5. pushed = <<>>
  BY <1>2, <1>3, NothingPushed DEF Ended
<1>6. Tell' = Tell
  BY <1>2, <1>3, <1>4, TellKept
<1>7. Met /\ (Tell + Len(pushed))' = Tell + Len(pushed)
  BY <1>2, <1>5, <1>6 DEF ReadInv
<1> QED
  BY <1>2, <1>4, <1>7, MetKept

LEMMA UngetcMeets ==
  ASSUME ReadInv, NEW c \in Chars, ptr # 0, Ungetc(c)
  PROVE  Met'
<1>1. /\ pc = "idle" /\ pc' = "idle" /\ pushed = <<>> /\ pushed' = <<c>> /\ ~Writing
      /\ cnt' = cnt + 1 /\ UNCHANGED <<file, rwp, flag>>
  BY DEF Ungetc
<1>2. /\ Tell' = rwp - (cnt + 1) /\ Tell = rwp - cnt /\ rwp \in Nat /\ cnt \in Nat
  BY <1>1, Positions DEF Tell, ReadInv
<1>3. Len(pushed) = 0 /\ Len(pushed') = 1
  BY <1>1
<1>4. (Tell + Len(pushed))' = Tell + Len(pushed)
  <2>1. Tell' + 1 = Tell + 0
    BY <1>2
  <2> QED
    BY <1>3, <2>1
<1> QED
  BY <1>1, <1>4, MetKept DEF ReadInv, Ended

(* fgetc() meets the end where nothing follows.                            *)
LEMMA EndIsMet ==
  ASSUME ReadInv, GetByte \/ GetFill
  PROVE  Met'
<1>1. /\ pc = "get" /\ IInv /\ Awaited /\ Image /\ Has("READ") /\ ~Writing /\ ~Ended /\ file' = file
      /\ base' = base /\ base /\ size = BUFSIZ /\ op.want = Wanted /\ op.kind = "fgetc"
  <2>1. pc = "get" /\ file' = file /\ base' = base
    BY DEF GetByte, GetFill
  <2>2. Has("READ") /\ ~Writing /\ base /\ size = BUFSIZ /\ op.kind = "fgetc"
    BY <2>1 DEF ReadInv, IInv, Stage, Buffered
  <2> QED
    BY <2>1, <2>2 DEF ReadInv, Met, Awaited
<1>2. SUFFICES ASSUME Ended' PROVE Met'
  BY MetAside
<1>3. Finish(op, EOF) /\ flag' = flag \cup {"EOF"} /\ pushed' = pushed
  <2>1. ~(flag' = flag)
    BY <1>1, <1>2 DEF Ended
  <2>2. ASSUME NEW c, NEW p, NEW n, Deliver(c, p, n, base)
        PROVE  Finish(op, EOF) /\ flag' = flag \cup {"EOF"} /\ pushed' = pushed
    BY <2>1, <2>2 DEF Deliver
  <2>3. CASE GetByte
    BY <2>2, <2>3 DEF GetByte
  <2>4. CASE GetFill
    BY <2>2, <2>4 DEF GetFill
  <2> QED
    BY <2>3, <2>4
<1>4. pc' = "done" /\ op'.kind = "fgetc" /\ op'.ret = EOF /\ op'.want = Wanted
  BY <1>1, <1>3, FinishKind
<1>5. pushed = <<>> /\ Tell' = Tell /\ Tell \in Nat
  <2>0. rwp \in Nat /\ cnt \in Nat /\ Tell = rwp - cnt /\ Tell \in Nat
    BY <1>1, Positions
  <2>1. CASE GetByte
    <3>1. /\ cnt > 0 /\ Deliver(buf[ptr], ptr + 1, cnt - 1, base) /\ rwp' = rwp
      BY <2>1 DEF GetByte
    <3>2. buf[ptr] = CPMETX /\ cnt' = (cnt - 1) + 1
      BY <1>1, <1>2, <3>1 DEF Deliver, Ended
    <3>3. Tell' = Tell
      BY <1>1, <1>3, <2>0, <3>1, <3>2 DEF Tell
    <3>4. pushed = <<>>
      <4>1. SUFFICES ASSUME pushed # <<>> PROVE FALSE
        OBVIOUS
      <4>2. PICK c \in Chars : pushed = <<c>>
        BY <1>1, <4>1 DEF IInv, Slots
      <4>3. buf[ptr + 0] = pushed[1]
        <5>1. 0 \in 0..(cnt - 1) /\ 0 < Len(pushed)
          BY <2>0, <3>1, <4>2
        <5> QED
          BY <1>1, <5>1 DEF Image, Readable
      <4>4. ptr + 0 = ptr
        BY <1>1, Positions
      <4> QED
        BY <3>2, <4>2, <4>3, <4>4, Characters
    <3> QED
      BY <2>0, <3>3, <3>4
  <2>2. CASE GetFill
    <3> DEFINE n == Available(IF size = 0 THEN 1 ELSE size)
    <3>0. cnt = 0
      BY <2>2 DEF GetFill
    <3>1. pushed = <<>>
      <4>1. Len(pushed) <= 0 /\ Len(pushed) \in 0..1
        BY <1>1, <3>0, RemainingType DEF Image, Readable
      <4> QED
        BY <1>1, <4>1, RemainingType
    <3>2. n \in Nat
      BY <1>1, <2>0, Sizes, Positions DEF Available, Least
    <3>3. CASE n = 0
      <4>1. rwp' = rwp /\ cnt' = cnt
        BY <2>2, <3>3 DEF GetFill
      <4> QED
        BY <1>1, <1>3, <2>0, <3>1, <4>1 DEF Tell
    <3>4. CASE n # 0
      <4>0. size # 0
        BY <1>1, Sizes
      <4>1. rwp' = rwp + n /\ Deliver(file[rwp + 1], 1, n - 1, base)
        BY <2>2, <3>4, <4>0 DEF GetFill
      <4> HIDE DEF n
      <4>2. cnt' = (n - 1) + 1
        BY <1>1, <1>2, <4>1 DEF Deliver, Ended
      <4>3. cnt' = n
        BY <3>2, <4>2
      <4>4. Tell' = rwp' - cnt'
        BY <1>3, <1>1 DEF Tell
      <4> QED
        BY <2>0, <3>0, <3>1, <3>2, <4>1, <4>3, <4>4
    <3> QED
      BY <3>3, <3>4
  <2> QED
    BY <2>1, <2>2
<1>6. Wanted = EOF
  BY <1>1, <1>3, <1>4, <1>5, GetByteKeeps, GetFillKeeps DEF GetReturnsNext
<1>7. Beyond' = Wanted'
  <2>1. Tell' + Len(pushed') = Tell'
    <3>1. PICK t \in Nat : t = Tell'
      BY <1>5
    <3>2. Len(pushed') = 0 /\ t + 0 = t
      BY <1>3, <1>5
    <3> QED
      BY <3>1, <3>2
  <2> QED
    BY <1>3, <1>5, <2>1 DEF Beyond, Behind, Wanted
<1>8. Wanted' = Wanted
  <2>1. PICK r : r = pushed \o SubSeq(file, Tell + 1 + Len(pushed), Len(file))
    OBVIOUS
  <2>2. Wanted = NextOf(r) /\ Wanted' = NextOf(r)'
    BY <1>1, <1>3, <1>5, <2>1 DEF Wanted
  <2>3. NextOf(r)' = NextOf(r)
    BY <1>3 DEF NextOf, Visible
  <2> QED
    BY <2>2, <2>3
<1> QED
  BY <1>4, <1>6, <1>7, <1>8 DEF Met
-----------------------------------------------------------------------------
(* The end of the file that a careful program seeks.                       *)

LEMMA WholeFile ==
  ASSUME ~Writing \/ cnt = 0
  PROVE  Contents = file
  BY DEF Contents

LEMMA EndOfBinary ==
  ASSUME ReadInv, ToEnd, pc \in {"seek", "lseek"}, (~Writing \/ cnt = 0)', Tell' = op.offs,
         UNCHANGED <<file, flag>>, Finish(op, 0)
  PROVE  Awaited' /\ GetReturnsNext' /\ SeekEndIsEnd'
<1>1. op.kind = "seekend" /\ ~Text /\ op.offs = Len(file) /\ op \in OpType /\ Len(file) \in Nat /\ file \in Seq(Byte)
  BY Positions DEF ReadInv, IInv, Stage, Call, ToEnd, Disk
<1>2. Contents' = file
  BY DEF Contents
<1>3. SubSeq(file, Len(file) + 1, Len(file)) = <<>>
  BY <1>1
<1>4. NextOf(<<>>)' = EOF
  BY <1>1 DEF NextOf, Visible
<1>5. PICK r : r = SubSeq(file, Len(file) + 1, Len(file)) /\ r = <<>>
  BY <1>3
<1>6. NextOf(SubSeq(Contents, Tell + 1, Len(Contents)))' = NextOf(r)'
  BY <1>1, <1>2, <1>5
<1>7. NextOf(SubSeq(Contents, Tell + 1, Len(Contents)))' = EOF
  BY <1>4, <1>5, <1>6
<1> QED
  BY <1>1, <1>7, FinishKind DEF Awaited, GetReturnsNext, SeekEndIsEnd

LEMMA SeekNearKeeps ==
  ASSUME ReadInv, Careful, SeekNear
  PROVE  Image' /\ Awaited' /\ GetReturnsNext' /\ SeekEndIsEnd'
<1> DEFINE d == op.offs - Tell
<1>1. /\ pc = "seek" /\ Has("READ") /\ ~Has("WRT") /\ d \in 0..cnt /\ op \in OpType
      /\ cnt' = cnt - d /\ ptr' = ptr + d /\ Finish(op, 0)
      /\ UNCHANGED <<file, rwp, flag, base, size, buf, tty>>
  BY DEF SeekNear, ReadInv, IInv, Call
<1>2. /\ op.kind \in {"fseek", "seekend"} /\ ~Writing /\ IsOpen
      /\ cnt \in Nat /\ ptr \in Nat /\ rwp \in Nat /\ op.offs \in Nat /\ Tell = rwp - cnt
      /\ Len(pushed) \in 0..1
  <2>1. op.kind \in {"fseek", "seekend"} /\ ~Writing /\ IsOpen
    BY <1>1 DEF ReadInv, IInv, Stage, Seeking, Buffered
  <2> QED
    BY <1>1, <2>1, Positions, RemainingType DEF ReadInv, OpType
<1>3. /\ Len(pushed) <= cnt
      /\ \A i \in 0..(cnt - 1) : buf[ptr + i] = IF i < Len(pushed) THEN pushed[1] ELSE file[rwp - cnt + i + 1]
  BY <1>1, <1>2 DEF ReadInv, Image, Readable
<1>4. pushed' = IF op.offs = Tell THEN pushed ELSE <<>>
  BY DEF SeekNear
<1>5. Image'
  <2>1. CASE op.offs = Tell
    <3>1. cnt' = cnt /\ ptr' = ptr /\ pushed' = pushed
      BY <1>1, <1>2, <1>4, <2>1
    <3> QED
      BY <1>1, <1>3, <3>1 DEF Image
  <2>2. CASE op.offs # Tell
    <3>1. pushed' = <<>> /\ d \in 1..cnt /\ d \in Nat
      <4>1. Tell \in Nat
        BY Positions DEF ReadInv
      <4>2. d # 0
        BY <1>2, <2>2, <4>1
      <4> QED
        BY <1>1, <1>2, <1>4, <2>2, <4>2
    <3> HIDE DEF d
    <3>2. ASSUME NEW i \in 0..(cnt - d - 1) PROVE buf[(ptr + d) + i] = file[rwp - (cnt - d) + i + 1]
      <4>1. cnt \in Nat /\ ptr \in Nat /\ rwp \in Nat /\ d \in 1..cnt /\ Len(pushed) \in 0..1
        BY <1>2, <3>1
      <4>2. i + d \in 0..(cnt - 1) /\ i + d >= 1
        BY <4>1
      <4>3. ptr + (i + d) = (ptr + d) + i /\ rwp - cnt + (i + d) + 1 = rwp - (cnt - d) + i + 1
        BY <4>1
      <4>4. ~(i + d < Len(pushed))
        <5>1. PICK l \in 0..1, k \in Nat : l = Len(pushed) /\ k = i + d /\ k >= 1
          BY <4>1, <4>2
        <5>2. l \in 0..1 /\ k >= 1
          BY <5>1
        <5>3. ~(k < l)
          BY <5>2
        <5> QED
          BY <5>1, <5>3
      <4> QED
        BY <1>3, <4>2, <4>3, <4>4
    <3>3. Len(pushed') = 0 /\ cnt - d \in Nat
      BY <1>2, <3>1
    <3>4. \A i \in 0..(cnt - d - 1) : ~(i < Len(pushed'))
      BY <3>3
    <3> QED
      BY <1>1, <3>2, <3>3, <3>4 DEF Image
  <2> QED
    BY <2>1, <2>2
<1>6. CASE op.kind = "fseek"
  BY <1>1, <1>5, <1>6, FinishKind DEF Awaited, GetReturnsNext, SeekEndIsEnd
<1>7. CASE op.kind = "seekend"
  <2>1. Tell' = rwp - (cnt - d)
    BY <1>1, <1>2 DEF Tell
  <2>2. Tell' = op.offs
    BY <1>1, <1>2, <2>1
  <2>3. (~Writing \/ cnt = 0)'
    BY <1>1, <1>2
  <2> HIDE DEF d
  <2> QED
    BY <1>1, <1>5, <1>7, <2>2, <2>3, EndOfBinary DEF ToEnd
<1> QED
  BY <1>2, <1>6, <1>7

LEMMA LseekKeeps ==
  ASSUME ReadInv, Careful, Lseek
  PROVE  Image' /\ Awaited' /\ GetReturnsNext' /\ SeekEndIsEnd'
<1>1. /\ pc = "lseek" /\ cnt' = 0 /\ pushed' = <<>> /\ rwp' = op.offs /\ Finish(op, 0) /\ UNCHANGED <<file, flag>>
  BY DEF Lseek, Emptied
<1>2. op.kind \in {"fseek", "seekend"} /\ op.offs \in Nat
  BY <1>1 DEF ReadInv, IInv, Stage, Seeking, Call, OpType
<1>3. Image'
  BY <1>1 DEF Image
<1>4. CASE op.kind = "fseek"
  BY <1>1, <1>3, <1>4, FinishKind DEF Awaited, GetReturnsNext, SeekEndIsEnd
<1>5. CASE op.kind = "seekend"
  <2>1. Tell' = op.offs
    <3>1. Tell' = op.offs + 0 \/ Tell' = op.offs - 0
      BY <1>1 DEF Tell
    <3> QED
      BY <1>2, <3>1
  <2> QED
    BY <1>1, <1>3, <1>5, <2>1, EndOfBinary DEF ToEnd
<1> QED
  BY <1>2, <1>4, <1>5
-----------------------------------------------------------------------------
(* _ssize() finds the end of a text in its last sector.                    *)

LEMMA WholeSectors ==
  ASSUME NEW n \in Nat \ {0}, n % SECSIZE = 0
  PROVE  n >= SECSIZE /\ ((n - 1) \div SECSIZE) * SECSIZE = n - SECSIZE
<1>1. SECSIZE \in Nat \ {0}
  BY Sizes
<1>2. PICK q \in Nat : n = SECSIZE * q
  BY <1>1, AMultiple
<1>3. q # 0
  BY <1>1, <1>2
<1>4. PICK p \in Nat : q = p + 1
  BY <1>3
<1>5. n = (SECSIZE * p) + SECSIZE /\ SECSIZE * p \in Nat
  BY <1>1, <1>2, <1>4, MultipleOf
<1>6. (n - 1) \div SECSIZE = p
  <2> DEFINE k == (n - 1) \div SECSIZE
             r == (n - 1) % SECSIZE
  <2>1. k \in Nat /\ r \in 0..(SECSIZE - 1) /\ n - 1 = (SECSIZE * k) + r /\ SECSIZE * k \in Nat
    <3>1. PICK m \in Nat : m = n - 1
      OBVIOUS
    <3>2. m \div SECSIZE \in Nat /\ m % SECSIZE \in 0..(SECSIZE - 1) /\ m = (SECSIZE * (m \div SECSIZE)) + (m % SECSIZE)
      BY <1>1, <3>1, Division
    <3>3. k \in Nat /\ r \in 0..(SECSIZE - 1) /\ n - 1 = (SECSIZE * k) + r
      BY <3>1, <3>2
    <3> HIDE DEF k, r
    <3> QED
      BY <1>1, <3>3, MultipleOf
  <2> HIDE DEF k, r
  <2>2. SECSIZE * k <= SECSIZE * p
    <3>1. SECSIZE * k < (SECSIZE * p) + SECSIZE
      BY <1>1, <1>5, <2>1
    <3> QED
      BY <1>1, <2>1, <3>1, Multiples
  <2>3. SECSIZE * p <= SECSIZE * k
    <3>1. SECSIZE * p < (SECSIZE * k) + SECSIZE
      BY <1>1, <1>5, <2>1
    <3> QED
      BY <1>1, <2>1, <3>1, Multiples
  <2>4. SECSIZE * p = SECSIZE * k
    BY <1>5, <2>1, <2>2, <2>3
  <2>5. p = k
    <3>1. p < k => SECSIZE * p < SECSIZE * k
      BY <1>1, <2>1
    <3>2. k < p => SECSIZE * k < SECSIZE * p
      BY <1>1, <2>1
    <3> QED
      BY <1>5, <2>1, <2>4, <3>1, <3>2
  <2> QED
    BY <2>5 DEF k
<1> QED
  BY <1>1, <1>5, <1>6

LEMMA SsizeKeeps ==
  ASSUME ReadInv, Careful, Ssize
  PROVE  Image' /\ Awaited' /\ GetReturnsNext' /\ SeekEndIsEnd'
<1>1. /\ op \in OpType /\ op.kind = "seekend" /\ Text /\ ~Has("EOF") /\ size = BUFSIZ
      /\ \A b \in {"READ", "WRT", "BINARY"} : b \in op.saved <=> Has(b)
      /\ op.saved \subseteq Bits \ {"LBF", "DIRN"}
  BY DEF ReadInv, IInv, Ssize, Call, Stage, Ending, Buffered
<1>2. /\ flag' = op.saved /\ pushed' = <<>> /\ Finish(op, 0) /\ UNCHANGED <<file, base, size, tty>>
      /\ buf' = [i \in DOMAIN buf |-> IF i < LastRead THEN file[LastFrom + 1 + i] ELSE 0]
      /\ Has("WRT") => rwp' = LastEnd /\ cnt' = 0 /\ ptr' = 0
      /\ ~Has("WRT") => /\ rwp' = LastFrom + LastRead
                        /\ cnt' = LastFrom + LastRead - LastEnd
                        /\ ptr' = LastEnd - LastFrom \/ (ptr' = 0 /\ cnt' = 0)
  BY SsizeReads DEF ReadInv
<1>3. /\ LastFrom \in Nat /\ LastRead \in Nat /\ LastEnd \in LastFrom..(LastFrom + LastRead) /\ LastEnd \in Nat
      /\ LastRead <= BUFSIZ /\ LastFrom + LastRead <= Len(file) /\ BUFSIZ \in Nat /\ Len(file) \in Nat
      /\ DOMAIN buf = 0..(BUFSIZ - 1) /\ file \in Seq(Byte)
  BY LastSectorRead, Positions, Sizes DEF ReadInv, IInv, Slots, Disk
<1>4. ~Has("DIRN")' /\ ~Has("BINARY")'
  BY <1>1, <1>2
<1>5. Image'
  <2>1. CASE Has("WRT") \/ cnt' = 0
    BY <1>2, <2>1 DEF Image
  <2>2. CASE ~Has("WRT") /\ cnt' # 0
    <3>1. rwp' = LastFrom + LastRead /\ cnt' = LastFrom + LastRead - LastEnd /\ ptr' = LastEnd - LastFrom
      BY <1>2, <2>2
    <3>2. PICK n \in Nat, u \in Nat : n = LastFrom + LastRead - LastEnd /\ u = LastEnd - LastFrom /\ u + n = LastRead
      BY <1>3
    <3>3. ASSUME NEW i \in 0..(n - 1) PROVE buf'[u + i] = file[rwp' - n + i + 1]
      <4>1. u + i \in 0..(LastRead - 1) /\ u + i \in 0..(BUFSIZ - 1)
        BY <1>3, <3>2
      <4>2. buf'[u + i] = file[LastFrom + 1 + (u + i)]
        BY <1>2, <1>3, <4>1
      <4>3. LastFrom + 1 + (u + i) = rwp' - n + i + 1
        BY <1>3, <3>1, <3>2
      <4> QED
        BY <4>2, <4>3
    <3>4. pushed' = <<>> /\ Len(<<>>) = 0 /\ cnt' = n /\ ptr' = u
      BY <1>2, <3>1, <3>2, EmptyFile
    <3>5. \A i \in 0..(n - 1) : ~(i < Len(pushed'))
      BY <3>4
    <3>6. Len(pushed') <= cnt'
      BY <3>4
    <3>7. \A i \in 0..(cnt' - 1) :
            buf'[ptr' + i] = IF i < Len(pushed') THEN pushed'[1] ELSE file'[rwp' - cnt' + i + 1]
      BY <1>2, <3>3, <3>4, <3>5
    <3> QED
      BY <3>6, <3>7 DEF Image
  <2> QED
    BY <2>1, <2>2
<1>6. Tell' = LastEnd /\ Contents' = file
  <2>1. Tell' = rwp' - cnt' /\ Contents' = file
    BY <1>2, <1>4 DEF Tell, Contents
  <2>2. CASE Has("WRT")
    BY <1>2, <1>3, <2>1, <2>2
  <2>3. CASE ~Has("WRT")
    BY <1>2, <1>3, <2>1, <2>3
  <2> QED
    BY <2>1, <2>2, <2>3
<1>7. ASSUME file # <<>>
      PROVE  /\ NextOf(SubSeq(Contents, Tell + 1, Len(Contents)))' = EOF
             /\ \A i \in (LastSector' + 1)..LastEnd : file[i] # CPMETX
  <2>1. /\ Len(file) \in Nat \ {0} /\ Len(file) % SECSIZE = 0 /\ SECSIZE \in Nat \ {0}
    BY <1>3, <1>7, Sizes DEF ReadInv, IInv, Disk
  <2>2. Len(file) >= SECSIZE /\ ((Len(file) - 1) \div SECSIZE) * SECSIZE = Len(file) - SECSIZE
    BY <2>1, WholeSectors
  <2>3. LastFrom = Len(file) - SECSIZE /\ LastSector' = LastFrom
    BY <1>6, <2>2, LastSectorRead DEF LastSector, ReadInv
  <2>4. LastEnd = EndOfText(LastFrom)
    <3>1. LastRead = Len(file) - LastFrom /\ LastRead # 0
      BY <1>1, <2>1, <2>3 DEF LastRead
    <3> QED
      BY <3>1 DEF LastEnd
  <2>5. /\ LastEnd \in LastFrom..Len(file)
        /\ \A i \in Ctrlzs(LastFrom) : LastEnd <= i
        /\ LastEnd # Len(file) => LastEnd \in Ctrlzs(LastFrom)
    BY <1>3, <2>4, EndOfTextIsThere DEF ReadInv
  <2>6. ASSUME NEW i \in (LastSector' + 1)..LastEnd PROVE file[i] # CPMETX
    <3>1. SUFFICES ASSUME file[i] = CPMETX PROVE FALSE
      OBVIOUS
    <3>2. i - 1 \in LastFrom..(Len(file) - 1) /\ (i - 1) + 1 = i /\ i - 1 < LastEnd
      BY <1>3, <2>3, <2>5
    <3>3. i - 1 \in Ctrlzs(LastFrom)
      BY <3>1, <3>2 DEF Ctrlzs
    <3> QED
      BY <1>3, <2>5, <3>2, <3>3
  <2>7. PICK r : r = SubSeq(file, LastEnd + 1, Len(file))
    OBVIOUS
  <2>8. NextOf(SubSeq(Contents, Tell + 1, Len(Contents)))' = NextOf(r)'
    BY <1>6, <2>7
  <2>9. NextOf(r)' = NextOf(r)
    BY <1>1, <1>4 DEF NextOf, Visible
  <2>10. NextOf(r) = EOF
    <3>1. CASE LastEnd = Len(file)
      <4>1. r = <<>>
        BY <1>3, <2>7, <3>1
      <4> QED
        BY <4>1, NothingIsNext
    <3>2. CASE LastEnd # Len(file)
      <4>1. LastEnd + 1 \in 1..Len(file) /\ file[LastEnd + 1] = CPMETX
        BY <1>3, <2>5, <3>2 DEF Ctrlzs
      <4>2. r \in Seq(Byte) /\ r # <<>> /\ r[1] = CPMETX
        <5>1. PICK e \in 1..Len(file) : e = LastEnd + 1 /\ file[e] = CPMETX
          BY <4>1
        <5>2. SubSeq(file, e, Len(file)) \in Seq(Byte) /\ Len(SubSeq(file, e, Len(file))) > 0
          BY <1>3, <5>1
        <5>3. SubSeq(file, e, Len(file))[1] = file[e]
          BY <1>3, <5>1
        <5> QED
          BY <2>7, <5>1, <5>2, <5>3
      <4>3. CPMETX # CR
        BY Characters
      <4> QED
        BY <1>1, <4>2, <4>3, NextIsFirst
    <3> QED
      BY <3>1, <3>2
  <2> QED
    BY <2>6, <2>8, <2>9, <2>10
<1>8. SeekEndIsEnd'
  BY <1>6, <1>7 DEF SeekEndIsEnd
<1>9. Awaited' /\ GetReturnsNext'
  BY <1>1, <1>2, FinishKind DEF Awaited, GetReturnsNext
<1> QED
  BY <1>5, <1>8, <1>9
-----------------------------------------------------------------------------
LEMMA ReadInit == Init => ReadInv
<1> SUFFICES ASSUME Init PROVE ReadInv
  OBVIOUS
<1>1. pc = "idle" /\ cnt = 0 /\ pushed = <<>>
  BY DEF Init
<1>2. Image
  BY <1>1 DEF Image
<1>3. Met
  <2>1. flag \in {{}, {"WRT"}, {"WRT", "NBF"}}
    <3>1. PICK s \in Streams : flag = CASE s = "closed" -> {} [] s = "stdout" -> {"WRT"}
                                         [] s = "stderr" -> {"WRT", "NBF"}
      BY DEF Init
    <3>2. s \in {"closed", "stdout", "stderr"}
      BY StreamAssumption
    <3> QED
      BY <3>1, <3>2
  <2>2. ~Has("READ")
    BY <2>1
  <2> QED
    BY <2>2 DEF Met, Ended
<1> QED
  BY <1>1, <1>2, <1>3, InitHolds DEF ReadInv, Awaited, GetReturnsNext, SeekEndIsEnd

LEMMA ReadNext ==
  ASSUME ReadInv, Careful, Next
  PROVE  ReadInv'
<1>1. IInv /\ IInv'
  BY NextHolds DEF ReadInv
<1>2. CASE Step
  <2>1. CASE WriteSector \/ WriteEnds \/ Flushed
    BY <1>1, <2>1, WritesAside, AsideHolds, WritesMeet DEF ReadInv
  <2>2. CASE PutByte \/ PutNoBuffer \/ PutFull \/ Flsbuf \/ PutUnbuffered
    BY <1>1, <2>2, PutsAside, AsideHolds, WritesMeet DEF ReadInv
  <2>3. CASE GetByte \/ GetFill
    BY <1>1, <2>3, GetByteKeeps, GetFillKeeps, EndIsMet DEF ReadInv
  <2>4. CASE Return
    BY <1>1, <2>4, CallsKeep, CallsMeet DEF ReadInv
  <2>5. CASE EndBinary
    BY <1>1, <2>5, CallsKeep, SeeksMeet DEF ReadInv
  <2>6. CASE EndFlush \/ SeekFlush
    BY <1>1, <2>6, SeeksAside, AsideHolds, SeeksMeet DEF ReadInv
  <2>7. CASE Ssize \/ SeekNear \/ Lseek
    BY <1>1, <2>7, SsizeKeeps, SeekNearKeeps, LseekKeeps, SeeksMeet DEF ReadInv
  <2>8. CASE Fclose \/ ExitClose
    BY <1>1, <2>8, ClosesAside, AsideHolds, OpensMeet DEF ReadInv
  <2> QED
    BY <1>2, <2>1, <2>2, <2>3, <2>4, <2>5, <2>6, <2>7, <2>8 DEF Step
<1>3. CASE Client
  <2>1. CASE FcloseCall \/ ProgramExits
    BY <1>1, <2>1, ClosesAside, AsideHolds, OpensMeet DEF ReadInv, ProgramExits
  <2>2. CASE (Avoids("ctrlz") => ~AtCtrlZ) /\ FflushCall
    <3>1. ~AtCtrlZ /\ FflushCall
      BY <2>2 DEF Careful, Avoids
    <3> QED
      BY <1>1, <3>1, ClosesAside, AsideHolds, FflushMeets DEF ReadInv
  <2>3. ASSUME NEW m \in Modes, Fopen(m) \/ FopenNoFile(m) \/ FopenNoMemory(m) PROVE ReadInv'
    BY <1>1, <2>3, OpensAside, AsideHolds, OpensMeet DEF ReadInv
  <2>4. ASSUME NEW mode \in Buffering, Setvbuf(mode) PROVE ReadInv'
    BY <1>1, <2>4, BuffersAside, AsideHolds, SetvbufMeets DEF ReadInv
  <2>5. ASSUME NEW c \in Chars, FputcCall(c) PROVE ReadInv'
    BY <1>1, <2>5, BuffersAside, AsideHolds, WritesMeet DEF ReadInv
  <2>6. CASE FputcRefused \/ FgetcBlocked
    BY <1>1, <2>6, CallsKeep, CallsMeet DEF ReadInv
  <2>7. CASE (Avoids("seekend") => ~Unwritten) /\ FseekEnd
    BY <1>1, <2>7, CallsKeep, OpensMeet DEF ReadInv
  <2>8. CASE FgetcCall
    BY <1>1, <2>8, FgetcCallKeeps, OpensMeet DEF ReadInv
  <2>9. ASSUME NEW c \in Chars, Avoids("pushback") => ptr # 0, Ungetc(c) PROVE ReadInv'
    <3>1. ptr # 0
      BY <2>9 DEF Careful, Avoids
    <3> QED
      BY <1>1, <2>9, <3>1, UngetcKeeps, UngetcMeets DEF ReadInv
  <2>10. ASSUME NEW offs \in 0..End, SeekUnbuffered(offs) PROVE ReadInv'
    BY <1>1, <2>10, SeekUnbufferedKeeps, OpensMeet DEF ReadInv
  <2>11. ASSUME NEW offs \in 0..End, Fseek(offs) PROVE ReadInv'
    BY <1>1, <2>11, CallsKeep, OpensMeet DEF ReadInv
  <2> QED
    BY <1>3, <2>1, <2>2, <2>3, <2>4, <2>5, <2>6, <2>7, <2>8, <2>9, <2>10, <2>11 DEF Client
<1>4. CASE Interrupt
  BY <1>1, <1>4, ClosesAside, AsideHolds, OpensMeet DEF ReadInv, Interrupt
<1> QED
  BY <1>2, <1>3, <1>4 DEF Next

LEMMA ReadStutter ==
  ASSUME ReadInv, UNCHANGED vars
  PROVE  ReadInv'
<1>1. IInv'
  BY StutterHolds DEF ReadInv
<1>2. Image'
  BY DEF vars, ReadInv, Image
<1>3. Tell' = Tell /\ UNCHANGED <<file, flag, pc, op, pushed>>
  BY DEF vars, Tell
<1>4. ASSUME NEW r PROVE NextOf(r)' = NextOf(r)
  BY <1>3 DEF NextOf, Visible
<1>5. Wanted' = Wanted
  <2>1. PICK r : r = pushed \o SubSeq(file, Tell + 1 + Len(pushed), Len(file))
    OBVIOUS
  <2>2. Wanted = NextOf(r) /\ Wanted' = NextOf(r)'
    BY <1>3, <2>1 DEF Wanted
  <2> QED
    BY <1>4, <2>2
<1>6. Awaited' /\ GetReturnsNext'
  BY <1>3, <1>5 DEF ReadInv, Awaited, GetReturnsNext
<1>7. Contents' = Contents
  BY DEF vars, Contents, Overlay, Slice, Padded
<1>8. SeekEndIsEnd'
  <2>1. PICK r : r = SubSeq(Contents, Tell + 1, Len(Contents))
    OBVIOUS
  <2>2. NextOf(SubSeq(Contents, Tell + 1, Len(Contents))) = NextOf(r)
        /\ NextOf(SubSeq(Contents, Tell + 1, Len(Contents)))' = NextOf(r)'
    BY <1>3, <1>7, <2>1
  <2>3. NextOf(SubSeq(Contents, Tell + 1, Len(Contents)))' = NextOf(SubSeq(Contents, Tell + 1, Len(Contents)))
    BY <1>4, <2>2
  <2>4. LastSector' = LastSector
    BY <1>7 DEF LastSector
  <2> QED
    BY <1>3, <1>7, <2>3, <2>4 DEF ReadInv, SeekEndIsEnd
<1>9. Met'
  <2>1. PICK r : r = Behind(<<>>, file, Tell + Len(pushed))
    OBVIOUS
  <2>2. Beyond = NextOf(r) /\ Beyond' = NextOf(r)'
    BY <1>3, <2>1 DEF Beyond, Behind
  <2> QED
    BY <1>3, <1>4, <2>2 DEF ReadInv, Met, Ended
<1> QED
  BY <1>1, <1>2, <1>6, <1>8, <1>9 DEF ReadInv

(* A careful program pushes back nothing at the beginning of the buffer,   *)
(* does not flush a text that it has read to a ctrl-Z, and asks for the    *)
(* end of a file only when all it put out has gone.                        *)
THEOREM ReadInvariance ==
  ASSUME Careful
  PROVE  Spec => []ReadInv
<1>1. ReadInv /\ [Next]_vars => ReadInv'
  BY ReadNext, ReadStutter
<1> QED
  BY <1>1, ReadInit, PTL DEF Spec

(* For such a program fgetc() returns the character pushed back, or else   *)
(* the next one of the file, over any number of refills; it says that      *)
(* there is none only where there is none, but for a character that was    *)
(* pushed back after the end was met, which it keeps back.                 *)
THEOREM GetCorrect ==
  ASSUME Careful
  PROVE  Spec => []GetReturnsNext
<1>1. ReadInv => GetReturnsNext
  BY DEF ReadInv
<1> QED
  BY <1>1, ReadInvariance, PTL

(* And fseek() to the end of a text stops before the padding.              *)
THEOREM SeekEndCorrect ==
  ASSUME Careful
  PROVE  Spec => []SeekEndIsEnd
<1>1. ReadInv => SeekEndIsEnd
  BY DEF ReadInv
<1> QED
  BY <1>1, ReadInvariance, PTL
-----------------------------------------------------------------------------
(***************************************************************************)
(* The stream is the text with a position that stdio promises.  What waits *)
(* in the buffer lies over the file; a byte that is put out lengthens it   *)
(* by one, and a sector that is written goes where it lay.                 *)
(***************************************************************************)

(* The byte c is put at pos, and padding may follow. *)
Puts(old, new, pos, c) ==
  /\ Len(new) >= Len(old) /\ Len(new) > pos
  /\ \A i \in DOMAIN new : new[i] = IF i = pos + 1 THEN c ELSE IF i \in DOMAIN old THEN old[i] ELSE CPMETX

LEMMA PaddedGrows ==
  ASSUME NEW n \in Nat, NEW i \in Nat, NEW j \in Nat, i <= j, n % SECSIZE = 0
  PROVE  OverlayLen(n, i) <= OverlayLen(n, j)
<1>1. /\ Padded(i) \in Nat /\ Padded(i) >= i
      /\ \A m \in Nat : m >= i /\ m % SECSIZE = 0 => Padded(i) <= m
  BY Padding
<1>2. Padded(j) \in Nat /\ Padded(j) >= j /\ Padded(j) % SECSIZE = 0
  BY Padding
<1>3. Padded(i) <= Padded(j)
  BY <1>1, <1>2
<1>4. n >= i => Padded(i) <= n
  BY <1>1
<1> QED
  BY <1>1, <1>2, <1>3, <1>4 DEF OverlayLen

LEMMA OneMore ==
  ASSUME NEW f \in Seq(Byte), NEW at \in 0..Len(f), NEW b \in Seq(Byte), NEW c \in Byte,
         Len(f) <= MaxPos, Len(f) % SECSIZE = 0
  PROVE  Puts(Overlay(f, at, b), Overlay(f, at, Append(b, c)), at + Len(b), c)
<1> DEFINE old == Overlay(f, at, b)
           d == Append(b, c)
           new == Overlay(f, at, d)
           pos == at + Len(b)
<1>1. /\ Len(f) \in Nat /\ Len(b) \in Nat /\ at \in Nat /\ pos \in Nat
      /\ d \in Seq(Byte) /\ Len(d) = Len(b) + 1 /\ d[Len(b) + 1] = c
      /\ \A i \in 1..Len(b) : d[i] = b[i]
  OBVIOUS
<1>2. /\ old \in Seq(Byte) /\ Len(old) = OverlayLen(Len(f), pos)
      /\ Len(old) >= Len(f) /\ Len(old) >= pos
      /\ \A i \in 1..Len(old) : old[i] = IF i > at /\ i <= pos THEN b[i - at]
                                         ELSE IF i <= Len(f) THEN f[i] ELSE CPMETX
  BY Overlaying
<1> HIDE DEF d
<1>3. /\ new \in Seq(Byte) /\ Len(new) = OverlayLen(Len(f), at + Len(d))
      /\ Len(new) >= at + Len(d)
      /\ \A i \in 1..Len(new) : new[i] = IF i > at /\ i <= at + Len(d) THEN d[i - at]
                                         ELSE IF i <= Len(f) THEN f[i] ELSE CPMETX
  BY <1>1, Overlaying
<1>4. at + Len(d) = pos + 1
  BY <1>1
<1> HIDE DEF old, new, pos
<1>5. Len(new) >= Len(old) /\ Len(new) > pos /\ Len(old) \in Nat /\ Len(new) \in Nat
  <2>1. OverlayLen(Len(f), pos) <= OverlayLen(Len(f), pos + 1)
    BY <1>1, PaddedGrows
  <2> QED
    BY <1>1, <1>2, <1>3, <1>4, <2>1
<1>6. ASSUME NEW i \in 1..Len(new)
      PROVE  new[i] = IF i = pos + 1 THEN c ELSE IF i \in 1..Len(old) THEN old[i] ELSE CPMETX
  <2>1. pos = at + Len(b)
    BY DEF pos
  <2>2. CASE i = pos + 1
    <3>1. i > at /\ i <= at + Len(d) /\ i - at = Len(b) + 1
      BY <1>1, <1>4, <2>1, <2>2
    <3> QED
      BY <1>1, <1>3, <2>2, <3>1
  <2>3. CASE i > at /\ i <= pos
    <3>1. i - at \in 1..Len(b) /\ i <= at + Len(d) /\ i \in 1..Len(old) /\ i # pos + 1
      BY <1>1, <1>2, <1>4, <1>5, <2>1, <2>3
    <3>2. new[i] = d[i - at] /\ old[i] = b[i - at]
      BY <1>2, <1>3, <2>3, <3>1
    <3> QED
      BY <1>1, <3>1, <3>2
  <2>4. CASE i # pos + 1 /\ ~(i > at /\ i <= pos)
    <3>1. ~(i > at /\ i <= at + Len(d)) /\ (i <= Len(f) => i \in 1..Len(old))
      BY <1>1, <1>2, <1>4, <1>5, <2>4
    <3>2. new[i] = IF i <= Len(f) THEN f[i] ELSE CPMETX
      BY <1>3, <3>1
    <3>3. i \in 1..Len(old) => old[i] = IF i <= Len(f) THEN f[i] ELSE CPMETX
      BY <1>2, <2>4
    <3> QED
      BY <2>4, <3>1, <3>2, <3>3
  <2> QED
    BY <2>2, <2>3, <2>4
<1>7. DOMAIN new = 1..Len(new) /\ DOMAIN old = 1..Len(old)
  BY <1>2, <1>3
<1>8. Puts(old, new, pos, c)
  BY <1>5, <1>6, <1>7 DEF Puts
<1> QED
  BY <1>8 DEF old, new, pos, d

(* Nothing, and what the file holds already, lie over it unseen.           *)
LEMMA OverlayUnseen ==
  ASSUME NEW f \in Seq(Byte), NEW at \in 0..Len(f), NEW b \in Seq(Byte), at + Len(b) <= Len(f),
         Len(f) <= MaxPos, Len(f) % SECSIZE = 0,
         \A i \in 1..Len(b) : f[at + i] = b[i]
  PROVE  Overlay(f, at, b) = f
<1> DEFINE new == Overlay(f, at, b)
<1>1. /\ new \in Seq(Byte) /\ Len(new) = OverlayLen(Len(f), at + Len(b))
      /\ \A i \in 1..Len(new) : new[i] = IF i > at /\ i <= at + Len(b) THEN b[i - at]
                                         ELSE IF i <= Len(f) THEN f[i] ELSE CPMETX
  BY Overlaying
<1> HIDE DEF new
<1>2. Len(new) = Len(f)
  BY <1>1 DEF OverlayLen
<1>3. ASSUME NEW i \in 1..Len(f) PROVE new[i] = f[i]
  <2>1. CASE i > at /\ i <= at + Len(b)
    <3>1. i - at \in 1..Len(b) /\ at + (i - at) = i
      BY <2>1
    <3> QED
      BY <1>1, <1>2, <2>1, <3>1
  <2>2. CASE ~(i > at /\ i <= at + Len(b))
    BY <1>1, <1>2, <2>2
  <2> QED
    BY <2>1, <2>2
<1>4. new = f
  BY <1>1, <1>2, <1>3
<1> QED
  BY <1>4 DEF new

(* A part of what lies over the file is written: what is seen is the same. *)
PartOf(p, b, k) == k + Len(p) <= Len(b) /\ \A i \in 1..Len(p) : p[i] = b[k + i]
OnDisk(f) == f \in Seq(Byte) /\ Len(f) <= MaxPos /\ Len(f) % SECSIZE = 0

LEMMA OverlayTwice ==
  ASSUME NEW f, OnDisk(f), NEW at \in 0..Len(f), NEW b \in Seq(Byte),
         NEW k \in Nat, NEW p \in Seq(Byte), PartOf(p, b, k), at + k <= Len(f),
         OnDisk(Overlay(f, at + k, p))
  PROVE  Overlay(Overlay(f, at + k, p), at, b) = Overlay(f, at, b)
<1>1. PICK g \in Seq(Byte) : g = Overlay(f, at + k, p) /\ Len(g) <= MaxPos
  BY DEF OnDisk
<1> DEFINE old == Overlay(f, at, b)
           new == Overlay(g, at, b)
           end == at + Len(b)
<1>2. /\ f \in Seq(Byte) /\ Len(f) <= MaxPos /\ Len(f) % SECSIZE = 0
      /\ g \in Seq(Byte) /\ Len(g) <= MaxPos /\ g = Overlay(f, at + k, p)
      /\ k + Len(p) <= Len(b) /\ \A i \in 1..Len(p) : p[i] = b[k + i]
  BY <1>1 DEF OnDisk, PartOf
<1>3. /\ Len(f) \in Nat /\ Len(b) \in Nat /\ Len(p) \in Nat /\ Len(g) \in Nat /\ at \in Nat /\ end \in Nat
      /\ at + k \in 0..Len(f) /\ at + k + Len(p) <= end
  BY <1>2
<1>4. /\ Len(g) = OverlayLen(Len(f), at + k + Len(p)) /\ Len(g) % SECSIZE = 0 /\ Len(g) >= Len(f)
      /\ Len(g) >= at + k + Len(p)
      /\ \A i \in 1..Len(g) : g[i] = IF i > at + k /\ i <= at + k + Len(p) THEN p[i - (at + k)]
                                     ELSE IF i <= Len(f) THEN f[i] ELSE CPMETX
  <2>1. PICK a \in 0..Len(f) : a = at + k
    BY <1>3
  <2>2. /\ Len(g) = OverlayLen(Len(f), a + Len(p)) /\ Len(g) % SECSIZE = 0 /\ Len(g) >= Len(f)
        /\ Len(g) >= a + Len(p)
        /\ \A i \in 1..Len(g) : g[i] = IF i > a /\ i <= a + Len(p) THEN p[i - a]
                                       ELSE IF i <= Len(f) THEN f[i] ELSE CPMETX
    BY <1>2, <2>1, Overlaying
  <2> QED
    BY <2>1, <2>2
<1>5. /\ old \in Seq(Byte) /\ Len(old) = OverlayLen(Len(f), end) /\ Len(old) >= end
      /\ \A i \in 1..Len(old) : old[i] = IF i > at /\ i <= end THEN b[i - at]
                                         ELSE IF i <= Len(f) THEN f[i] ELSE CPMETX
  BY <1>2, Overlaying
<1>6. /\ new \in Seq(Byte) /\ Len(new) = OverlayLen(Len(g), end)
      /\ \A i \in 1..Len(new) : new[i] = IF i > at /\ i <= end THEN b[i - at]
                                         ELSE IF i <= Len(g) THEN g[i] ELSE CPMETX
  <2>1. at \in 0..Len(g) /\ Len(g) <= MaxPos /\ (Len(g) % SECSIZE) = 0 /\ g \in Seq(Byte) /\ b \in Seq(Byte)
    BY <1>2, <1>3, <1>4
  <2> QED
    BY <2>1, Overlaying
<1> HIDE DEF old, new, end
<1>7. Len(new) = Len(old)
  <2>1. Padded(end) \in Nat /\ Padded(end) >= end
        /\ \A m \in Nat : m >= end /\ m % SECSIZE = 0 => Padded(end) <= m
    BY <1>3, Padding
  <2>2. Len(g) <= OverlayLen(Len(f), end)
    <3>1. PICK e \in Nat : e = at + k + Len(p) /\ e <= end
      BY <1>3
    <3>2. OverlayLen(Len(f), e) <= OverlayLen(Len(f), end)
      BY <1>2, <1>3, <3>1, PaddedGrows
    <3> QED
      BY <1>4, <3>1, <3>2
  <2>3. CASE end <= Len(f)
    BY <1>3, <1>4, <1>5, <1>6, <2>2, <2>3 DEF OverlayLen
  <2>4. CASE end > Len(f) /\ end > Len(g)
    BY <1>5, <1>6, <2>4 DEF OverlayLen
  <2>5. CASE end > Len(f) /\ end <= Len(g)
    BY <1>3, <1>4, <1>5, <1>6, <2>1, <2>2, <2>5 DEF OverlayLen
  <2> QED
    BY <1>3, <2>3, <2>4, <2>5
<1>8. ASSUME NEW i \in 1..Len(new) PROVE new[i] = old[i]
  <2>1. CASE i > at /\ i <= end
    BY <1>2, <1>5, <1>6, <1>7, <2>1
  <2>2. CASE ~(i > at /\ i <= end)
    <3>1. new[i] = (IF i <= Len(g) THEN g[i] ELSE CPMETX) /\ old[i] = IF i <= Len(f) THEN f[i] ELSE CPMETX
      BY <1>5, <1>6, <1>7, <2>2
    <3>2. ~(i > at + k /\ i <= at + k + Len(p))
      BY <1>3, <2>2
    <3>3. i <= Len(g) => g[i] = IF i <= Len(f) THEN f[i] ELSE CPMETX
      BY <1>2, <1>4, <3>2
    <3> QED
      BY <1>3, <1>4, <3>1, <3>3
  <2> QED
    BY <2>1, <2>2
<1>9. new = old
  <2>1. PICK u \in Seq(Byte), v \in Seq(Byte) : u = new /\ v = old
    BY <1>5, <1>6
  <2>2. Len(u) = Len(v) /\ \A i \in 1..Len(u) : u[i] = v[i]
    BY <1>7, <1>8, <2>1
  <2> QED
    BY <2>1, <2>2, SameBytes
<1> QED
  BY <1>2, <1>9 DEF old, new
-----------------------------------------------------------------------------
(* The position in the text, as Abstract has it. *)
Pos == IF base /\ Writing /\ cnt > 0 THEN rwp - op.done + cnt ELSE rwp - cnt

AbstractVars == <<Contents, Pos, Has("ERR"), IsOpen, op.kind>>

(* A step of the text and its position. *)
Elsewhere == op.kind \notin {"fgetc", "fputc"}
Stays == Contents' = Contents /\ Pos' = Pos /\ (Has("ERR")' <=> Has("ERR")) /\ (IsOpen' <=> IsOpen)
Seeks == /\ Elsewhere /\ IsOpen /\ IsOpen' /\ Contents' = Contents /\ Pos' \in 0..Len(Contents)
         /\ (Has("ERR")' <=> Has("ERR"))
Gets  == /\ op.kind = "fgetc" /\ IsOpen /\ IsOpen' /\ Contents' = Contents
         /\ Pos < Len(Contents) /\ Pos' = Pos + 1 /\ (Has("ERR")' <=> Has("ERR"))
Adds  == /\ op.kind = "fputc" /\ IsOpen /\ IsOpen' /\ (Has("ERR")' <=> Has("ERR")) /\ Pos' = Pos + 1
         /\ \E c \in Byte : Puts(Contents, Contents', Pos, c)
Shuts == /\ IsOpen /\ ~IsOpen' /\ Contents' = Contents /\ Pos' = Pos /\ (Has("ERR")' <=> Has("ERR"))
Opens == /\ ~IsOpen /\ ~Has("ERR")' /\ Contents' \in {Contents, <<>>} /\ Pos' \in 0..Len(Contents')
Loses == IsOpen /\ Has("ERR")'

TextStep == Stays \/ Seeks \/ Gets \/ Adds \/ Shuts \/ Opens \/ Loses

LEMMA TextSteps ==
  ASSUME TextStep
  PROVE  [Abstract!Next]_AbstractVars
<1>1. CASE Stays
  BY <1>1 DEF Stays, Abstract!Next, Abstract!Call, Pos
<1>2. CASE Seeks
  BY <1>2 DEF Seeks, Elsewhere, Abstract!Next, Abstract!Seek, Pos
<1>7. CASE Gets
  BY <1>7 DEF Gets, Abstract!Next, Abstract!Get, Pos
<1>3. CASE Adds
  BY <1>3 DEF Adds, Puts, Abstract!Next, Abstract!Put, Pos
<1>4. CASE Shuts
  BY <1>4 DEF Shuts, Abstract!Next, Abstract!Close, Pos
<1>5. CASE Opens
  BY <1>5 DEF Opens, Abstract!Next, Abstract!Open, Pos
<1>6. CASE Loses
  BY <1>6 DEF Loses, Abstract!Next, Abstract!Lose
<1> QED
  BY <1>1, <1>2, <1>3, <1>4, <1>5, <1>6, <1>7 DEF TextStep
-----------------------------------------------------------------------------
(* What is seen of a stream: the bytes that wait lie over the file.        *)
LEMMA Seen ==
  ASSUME IInv
  PROVE  /\ file \in Seq(Byte) /\ Len(file) \in Nat /\ Len(file) <= MaxPos /\ Len(file) % SECSIZE = 0
         /\ rwp \in 0..Len(file) /\ cnt \in Nat /\ cnt <= BUFSIZ
         /\ ~(base /\ Writing /\ cnt > 0) => Contents = file /\ Pos = rwp - cnt
         /\ base /\ Writing => /\ Slice(0, cnt) \in Seq(Byte) /\ Len(Slice(0, cnt)) = cnt
                               /\ \A i \in 1..cnt : Slice(0, cnt)[i] = buf[i - 1]
         /\ base /\ Writing /\ cnt > 0 => Contents = Overlay(file, rwp - op.done, Slice(0, cnt)) /\ Pos = rwp - op.done + cnt
<1>1. /\ file \in Seq(Byte) /\ Len(file) \in Nat /\ Len(file) <= MaxPos /\ Len(file) % SECSIZE = 0
      /\ rwp \in 0..Len(file) /\ cnt \in Nat /\ cnt <= BUFSIZ /\ BUFSIZ \in Nat
  BY Positions, Sizes DEF IInv, Disk, Slots
<1>2. ASSUME Writing
      PROVE  /\ Slice(0, cnt) \in Seq(Byte) /\ Len(Slice(0, cnt)) = cnt
             /\ \A i \in 1..cnt : Slice(0, cnt)[i] = buf[i - 1]
  <2>1. \A i \in 0..(cnt - 1) : buf[i] \in Byte
    BY <1>2 DEF IInv, Buffered
  <2>2. /\ Slice(0, cnt) \in Seq(Byte) /\ Len(Slice(0, cnt)) = cnt
        /\ \A i \in 1..cnt : Slice(0, cnt)[i] = buf[0 + i - 1]
    <3>1. PICK z \in Nat : z = 0 /\ z + cnt <= BUFSIZ /\ \A i \in z..(z + cnt - 1) : buf[i] \in Byte
      BY <1>1, <2>1
    <3>2. /\ Slice(z, cnt) \in Seq(Byte) /\ Len(Slice(z, cnt)) = cnt
          /\ \A i \in 1..cnt : Slice(z, cnt)[i] = buf[z + i - 1]
      BY <1>1, <3>1, Sliced DEF IInv
    <3> QED
      BY <3>1, <3>2
  <2> QED
    BY <2>2
<1>3. ~(base /\ Writing /\ cnt > 0) => Contents = file /\ Pos = rwp - cnt
  BY DEF Contents, Pos
<1>4. base /\ Writing /\ cnt > 0 => Contents = Overlay(file, rwp - op.done, Slice(0, cnt)) /\ Pos = rwp - op.done + cnt
  BY DEF Contents, Pos
<1> QED
  BY <1>1, <1>2, <1>3, <1>4

(* Steps that do not touch what is seen, and steps that move the position. *)
Frozen == /\ UNCHANGED <<file, rwp, cnt>>
          /\ (Has("ERR")' <=> Has("ERR")) /\ (IsOpen' <=> IsOpen)
          /\ \/ cnt = 0
             \/ buf' = buf /\ op'.done = op.done /\ ((base /\ Writing)' <=> (base /\ Writing))

LEMMA FrozenStays ==
  ASSUME IInv, Frozen
  PROVE  Stays
<1>1. UNCHANGED <<file, rwp, cnt>> /\ cnt \in Nat
  BY Positions DEF Frozen
<1>2. CASE cnt = 0
  BY <1>1, <1>2 DEF Frozen, Stays, Contents, Pos
<1>3. CASE buf' = buf /\ op'.done = op.done /\ ((base /\ Writing)' <=> (base /\ Writing))
  <2>1. Contents' = Contents
    BY <1>1, <1>3 DEF Contents, Slice, Overlay, Padded
  <2>2. Pos' = Pos
    BY <1>1, <1>3 DEF Pos
  <2> QED
    BY <2>1, <2>2 DEF Frozen, Stays
<1> QED
  BY <1>2, <1>3 DEF Frozen

LEMMA Difference ==
  ASSUME NEW u \in Nat, NEW v \in Nat, NEW w \in Nat, NEW n \in Nat, u + v <= w, w <= n
  PROVE  v <= w /\ w - v \in 0..n
  OBVIOUS

LEMMA Repositions ==
  ASSUME IInv, IInv', ~(Writing /\ cnt > 0), ~(Writing /\ cnt > 0)', file' = file, IsOpen, IsOpen',
         Has("ERR")' <=> Has("ERR"), Elsewhere
  PROVE  Seeks
<1>1. Contents = file /\ Contents' = file
  BY DEF Contents
<1>2. Pos' = rwp' - cnt'
  BY DEF Pos
<1>3. rwp' \in 0..Len(file) /\ ptr' \in Nat /\ cnt' \in Nat /\ Len(file) \in Nat
  BY Positions, Sizes DEF IInv, Disk, Slots
<1>4. PICK u \in Nat, v \in Nat, w \in 0..Len(file) : u = ptr' /\ v = cnt' /\ w = rwp'
  BY <1>3, Zenon
<1>5. w - v \in 0..Len(file)
  <2>1. CASE Has("DIRN")'
    <3>1. ~(cnt' > 0)
      BY <2>1
    <3>2. ~(v > 0)
      BY <1>4, <3>1, Zenon
    <3>3. v = 0
      BY <3>2
    <3>4. w \in 0..Len(file) /\ Len(file) \in Nat
      BY <1>3, <1>4
    <3> QED
      BY <3>3, <3>4
  <2>2. CASE ~Has("DIRN")'
    <3>1. ptr' + cnt' <= rwp'
      BY <2>2 DEF IInv, Buffered
    <3>2. u + v <= w
      BY <1>4, <3>1, Zenon
    <3>3. w \in Nat /\ w <= Len(file) /\ Len(file) \in Nat
      BY <1>3, <1>4
    <3> QED
      BY <3>2, <3>3, Difference
  <2> QED
    BY <2>1, <2>2
<1>6. Pos' \in 0..Len(Contents)
  BY <1>1, <1>2, <1>4, <1>5, Zenon
<1> QED
  BY <1>1, <1>6 DEF Seeks

(* All that waited has gone. *)
LEMMA AllGone ==
  ASSUME IInv, Gone, op.done = cnt, base, Writing, cnt > 0
  PROVE  Contents = file /\ Pos = rwp
<1>1. /\ file \in Seq(Byte) /\ Len(file) \in Nat /\ Len(file) <= MaxPos /\ Len(file) % SECSIZE = 0
      /\ rwp \in 0..Len(file) /\ cnt \in Nat /\ cnt <= rwp
      /\ Slice(0, cnt) \in Seq(Byte) /\ Len(Slice(0, cnt)) = cnt
      /\ \A i \in 1..cnt : Slice(0, cnt)[i] = buf[i - 1]
      /\ Contents = Overlay(file, rwp - cnt, Slice(0, cnt)) /\ Pos = rwp - cnt + cnt
  BY Seen DEF Gone
<1>2. ASSUME NEW i \in 1..cnt PROVE file[(rwp - cnt) + i] = buf[i - 1]
  <2>1. PICK j \in 0..(cnt - 1) : j = i - 1
    BY <1>1
  <2>2. file[rwp - cnt + j + 1] = buf[j]
    BY <2>1 DEF Gone
  <2>3. rwp - cnt + j + 1 = (rwp - cnt) + i
    BY <1>1, <2>1
  <2> QED
    BY <2>1, <2>2, <2>3
<1>3. PICK b \in Seq(Byte), at \in 0..Len(file) :
        /\ b = Slice(0, cnt) /\ at = rwp - cnt /\ Len(b) = cnt /\ at + Len(b) <= Len(file)
        /\ \A i \in 1..Len(b) : file[at + i] = b[i]
  <2>1. PICK b \in Seq(Byte), at \in 0..Len(file) : b = Slice(0, cnt) /\ at = rwp - cnt
    BY <1>1
  <2>2. Len(b) = cnt /\ at + Len(b) <= Len(file)
    BY <1>1, <2>1
  <2>3. ASSUME NEW i \in 1..Len(b) PROVE file[at + i] = b[i]
    BY <1>1, <1>2, <2>1, <2>2
  <2> QED
    BY <2>1, <2>2, <2>3
<1>4. Overlay(file, at, b) = file
  BY <1>1, <1>3, OverlayUnseen
<1> QED
  BY <1>1, <1>3, <1>4

(* The first byte of an empty buffer, and the next one of another.         *)
LEMMA FirstByteAdds ==
  ASSUME IInv, NEW c \in Byte, PutFirst(c), UNCHANGED fd, (base /\ Writing)', op'.done = 0,
         Contents = file, Pos = rwp, IsOpen, IsOpen', Has("ERR")' <=> Has("ERR"), op.kind = "fputc"
  PROVE  Adds
<1>1. /\ file \in Seq(Byte) /\ Len(file) \in Nat /\ Len(file) <= MaxPos /\ Len(file) % SECSIZE = 0
      /\ rwp \in 0..Len(file)
  BY Seen
<1>2. buf' = [Blank EXCEPT ![0] = c] /\ cnt' = 1
  BY DEF PutFirst
<1>3. buf'[0] = c
  BY <1>2, Sizes DEF Blank
<1>4. Slice(0, cnt)' = <<c>>
  <2>1. Slice(0, cnt)' = [i \in 1..1 |-> buf'[0 + i - 1]]
    BY <1>2 DEF Slice
  <2>2. \A i \in 1..1 : 0 + i - 1 = 0
    OBVIOUS
  <2>3. \A i \in 1..1 : buf'[0 + i - 1] = c
    BY <1>3, <2>2
  <2>4. [i \in 1..1 |-> buf'[0 + i - 1]] = [i \in 1..1 |-> c]
    BY <2>3
  <2>5. [i \in 1..1 |-> c] = <<c>>
    OBVIOUS
  <2> QED
    BY <2>1, <2>4, <2>5
<1>5. Contents' = Overlay(file, rwp, <<c>>) /\ Pos' = rwp + 1
  <2>1. rwp' - op'.done = rwp
    BY <1>1
  <2>2. Contents' = Overlay(file', rwp' - op'.done, Slice(0, cnt)')
    BY <1>2 DEF Contents
  <2>3. Pos' = rwp' - op'.done + 1
    BY <1>2 DEF Pos
  <2>4. Overlay(file', rwp, <<c>>) = Overlay(file, rwp, <<c>>)
    BY DEF Overlay
  <2> QED
    BY <1>4, <2>1, <2>2, <2>3, <2>4
<1>6. Puts(file, Overlay(file, rwp, <<c>>), rwp, c)
  <2>1. PICK e \in Seq(Byte) : e = <<>> /\ Len(e) = 0 /\ Append(e, c) = <<c>>
    <3>1. Append(<<>>, c) = <<c>>
      OBVIOUS
    <3> QED
      BY <3>1, EmptyFile
  <2>2. Puts(Overlay(file, rwp, e), Overlay(file, rwp, Append(e, c)), rwp + Len(e), c)
    BY <1>1, OneMore
  <2>3. Overlay(file, rwp, e) = file
    <3>1. rwp + Len(e) <= Len(file) /\ \A i \in 1..Len(e) : file[rwp + i] = e[i]
      BY <1>1, <2>1
    <3> QED
      BY <1>1, <3>1, OverlayUnseen
  <2>4. rwp + Len(e) = rwp
    BY <1>1, <2>1
  <2> QED
    BY <2>1, <2>2, <2>3, <2>4
<1> QED
  BY <1>5, <1>6 DEF Adds
-----------------------------------------------------------------------------
(* Outside of a write nothing has been done of one.                        *)
LEMMA AtRest ==
  ASSUME IInv, pc \notin {"write", "written"}
  PROVE  op.done = 0
  BY DEF IInv, Outgoing, InWrite

(* Steps of a call that leave what is seen as it is.                       *)
LEMMA CallsStay ==
  ASSUME IInv,
         \/ Return \/ FputcRefused \/ FgetcBlocked \/ FgetcCall \/ FseekEnd \/ EndBinary
         \/ \E offs \in 0..End : Fseek(offs)
         \/ \E c \in Chars : FputcCall(c)
  PROVE  Stays
<1>1. pc \notin {"write", "written"} /\ UNCHANGED <<file, rwp, cnt, buf, base>>
  BY DEF Return, FputcRefused, FgetcBlocked, FgetcCall, FseekEnd, EndBinary, Fseek, FputcCall
<1>2. op.done = 0
  BY <1>1, AtRest
<1>3. op'.done = 0
  <2>1. CASE Return \/ FgetcCall \/ FseekEnd \/ (\E offs \in 0..End : Fseek(offs)) \/ \E c \in Chars : FputcCall(c)
    <3>1. CASE Return \/ FseekEnd
      BY <3>1 DEF Return, FseekEnd, NoOp
    <3>2. CASE FgetcCall
      BY <3>2 DEF FgetcCall, NoOp
    <3>3. ASSUME NEW offs \in 0..End, Fseek(offs) PROVE op'.done = 0
      BY <3>3 DEF Fseek, NoOp
    <3>4. ASSUME NEW c \in Chars, FputcCall(c) PROVE op'.done = 0
      BY <3>4 DEF FputcCall, NoOp
    <3> QED
      BY <2>1, <3>1, <3>2, <3>3, <3>4
  <2>2. CASE EndBinary
    BY <1>2, <2>2 DEF EndBinary, IInv, Call, OpType
  <2>3. CASE FputcRefused \/ FgetcBlocked
    BY <2>3 DEF FputcRefused, FgetcBlocked, Finish, NoOp
  <2> QED
    BY <2>1, <2>2, <2>3
<1>4. /\ Has("ERR")' <=> Has("ERR")
      /\ IsOpen' <=> IsOpen
      /\ cnt = 0 \/ (Writing' <=> Writing)
  <2>1. CASE Return \/ FputcRefused \/ FgetcBlocked \/ FseekEnd \/ EndBinary \/ \E offs \in 0..End : Fseek(offs)
    BY <2>1 DEF Return, FputcRefused, FgetcBlocked, FseekEnd, EndBinary, Fseek
  <2>2. CASE FgetcCall
    <3>1. cnt = 0 \/ ~Writing
      BY <2>2, Positions DEF FgetcCall, Blocked
    <3> QED
      BY <2>2, <3>1 DEF FgetcCall
  <2>3. CASE \E c \in Chars : FputcCall(c)
    <3>1. cnt = 0 \/ Writing
      BY <2>3 DEF FputcCall, Turns
    <3> QED
      BY <2>3, <3>1 DEF FputcCall
  <2> QED
    BY <2>1, <2>2, <2>3
<1>5. Frozen
  BY <1>1, <1>2, <1>3, <1>4 DEF Frozen
<1> QED
  BY <1>5, FrozenStays

(* So do the beginning and the end of a write, and setvbuf().              *)
LEMMA WritesStay ==
  ASSUME IInv, WriteEnds \/ PutFull \/ PutUnbuffered \/ \E mode \in Buffering : Setvbuf(mode)
  PROVE  Stays
<1>1. CASE WriteEnds
  BY <1>1, FrozenStays DEF WriteEnds, Frozen
<1>2. CASE PutFull
  <2>1. op.done = 0 /\ op'.done = 0
    BY <1>2, AtRest DEF PutFull, StartWrite, IInv, Call, OpType
  <2> QED
    BY <1>2, <2>1, FrozenStays DEF PutFull, Frozen
<1>3. CASE PutUnbuffered
  <2>1. size = 0
    BY <1>3 DEF PutUnbuffered, IInv, Outgoing, InWrite, Passing, Spilling, Flushing
  <2>2. cnt = 0
    BY <2>1 DEF IInv, Slots
  <2> QED
    BY <1>3, <2>2, FrozenStays DEF PutUnbuffered, Frozen
<1>4. CASE \E mode \in Buffering : Setvbuf(mode)
  BY <1>4, FrozenStays DEF Setvbuf, Frozen
<1> QED
  BY <1>1, <1>2, <1>3, <1>4

(* A flush begins, or drops what was read ahead.                           *)
LEMMA FlushIsSeen ==
  ASSUME IInv, IInv', NEW o \in OpType, NEW then, Flush(o, then), UNCHANGED <<fd, flag, base>>, op.done = 0,
         cnt = 0 \/ Writing \/ Elsewhere
  PROVE  Stays \/ Seeks
<1>1. /\ Has("ERR")' <=> Has("ERR")
      /\ IsOpen' <=> IsOpen
      /\ Writing' <=> Writing
  OBVIOUS
<1>2. CASE StartWrite(o, cnt, "flush", then) /\ UNCHANGED <<buf, cnt, ptr>>
  <2>1. op'.done = 0
    BY <1>2 DEF StartWrite, OpType
  <2> QED
    BY <1>1, <1>2, <2>1, FrozenStays DEF Frozen
<1>3. CASE cnt' = 0 /\ ~(Writing /\ cnt > 0)
  <2>1. CASE IsOpen /\ Elsewhere
    <3>1. ~(cnt' > 0)
      BY <1>3
    <3> QED
      BY <1>1, <1>3, <2>1, <3>1, Repositions
  <2>2. CASE ~(IsOpen /\ Elsewhere)
    <3>1. cnt = 0
      <4>1. CASE ~IsOpen \/ cnt = 0
        BY <4>1 DEF IInv, Buffered
      <4>2. CASE Writing
        BY <1>3, <4>2, Positions
      <4> QED
        BY <2>2, <4>1, <4>2
    <3> QED
      BY <1>1, <1>3, <3>1, FrozenStays DEF Frozen
  <2> QED
    BY <2>1, <2>2
<1> QED
  BY <1>2, <1>3, Flushes

LEMMA FlushesAreSeen ==
  ASSUME IInv, IInv', Interrupts \subseteq {0},
         FflushCall \/ FcloseCall \/ ProgramExits \/ Interrupt \/ EndFlush \/ SeekFlush
  PROVE  Stays \/ Seeks
<1>1. UNCHANGED <<fd, flag, base>> /\ op \in OpType
  BY DEF FflushCall, FcloseCall, ProgramExits, Interrupt, ExitCall, EndFlush, SeekFlush, IInv, Call
<1>2. op.done = 0
  <2>1. CASE Interrupt
    BY <2>1 DEF Interrupt
  <2>2. CASE FflushCall \/ FcloseCall \/ ProgramExits \/ EndFlush \/ SeekFlush
    <3>1. pc \notin {"write", "written"}
      BY <2>2 DEF FflushCall, FcloseCall, ProgramExits, EndFlush, SeekFlush
    <3> QED
      BY <3>1, AtRest
  <2> QED
    BY <2>1, <2>2
<1>6. cnt = 0 \/ Writing \/ Elsewhere
  <2>1. CASE Interrupt
    BY <2>1 DEF Interrupt, IInv, Outgoing, InWrite, Passing, Spilling, Flushing, Putting
  <2>2. CASE FflushCall \/ FcloseCall \/ ProgramExits
    <3>1. pc \in {"idle", "lost"}
      BY <2>2 DEF FflushCall, FcloseCall, ProgramExits
    <3>2. NoOp.kind = "none"
      BY DEF NoOp
    <3> QED
      BY <3>1, <3>2 DEF IInv, Stage, Elsewhere
  <2>3. CASE EndFlush \/ SeekFlush
    BY <2>3 DEF EndFlush, SeekFlush, IInv, Stage, Ending, Seeking, Elsewhere
  <2> QED
    BY <2>1, <2>2, <2>3
<1>3. CASE FflushCall \/ FcloseCall \/ ProgramExits \/ Interrupt
  <2>1. /\ [NoOp EXCEPT !.kind = "fclose"] \in OpType
        /\ [NoOp EXCEPT !.kind = "exit"] \in OpType
    BY Nothing DEF OpType, Calls
  <2>2. CASE FflushCall
    <3>1. FflushRet \in Int
      BY Characters DEF FflushRet
    <3>2. PICK o \in OpType : o = [NoOp EXCEPT !.kind = "fflush", !.ret = FflushRet]
      BY <3>1, Nothing DEF OpType, Calls
    <3>3. Flush(o, "done")
      BY <2>2, <3>2 DEF FflushCall
    <3> QED
      BY <1>1, <1>2, <1>6, <3>3, FlushIsSeen
  <2>3. CASE FcloseCall \/ ProgramExits \/ Interrupt
    BY <1>1, <1>2, <1>6, <2>1, <2>3, FlushIsSeen DEF FcloseCall, ProgramExits, Interrupt, ExitCall
  <2> QED
    BY <1>3, <2>2, <2>3
<1>4. CASE EndFlush
  <2>1. PICK o \in OpType : o = [op EXCEPT !.saved = Narrow(flag)] /\ o.done = 0
    <3>1. Narrow(flag) \subseteq Bits
      BY DEF Narrow, IInv, Slots
    <3> QED
      <4>1. PICK s \in SUBSET Bits : s = Narrow(flag)
        BY <3>1
      <4>2. [op EXCEPT !.saved = s] \in OpType /\ [op EXCEPT !.saved = s].done = op.done
        BY <1>1 DEF OpType
      <4> QED
        BY <1>2, <4>1, <4>2
  <2>2. CASE Has("WRT")
    <3>1. Flush(o, "ssize")
      BY <1>4, <2>1, <2>2 DEF EndFlush
    <3> QED
      BY <1>1, <1>2, <1>6, <3>1, FlushIsSeen
  <2>3. CASE ~Has("WRT")
    <3>1. op' = o /\ UNCHANGED <<buf, cnt, ptr>>
      BY <1>4, <2>1, <2>3 DEF EndFlush
    <3> QED
      BY <1>1, <1>2, <2>1, <3>1, FrozenStays DEF Frozen
  <2> QED
    BY <2>2, <2>3
<1>5. CASE SeekFlush
  <2>1. CASE MustFlush
    <3>1. Flush(op, "lseek")
      BY <1>5, <2>1 DEF SeekFlush
    <3> QED
      BY <1>1, <1>2, <1>6, <3>1, FlushIsSeen
  <2>2. CASE ~MustFlush
    <3>1. UNCHANGED <<op, buf, cnt, ptr>>
      BY <1>5, <2>2 DEF SeekFlush
    <3> QED
      BY <1>1, <3>1, FrozenStays DEF Frozen
  <2> QED
    BY <2>1, <2>2
<1> QED
  BY <1>3, <1>4, <1>5
-----------------------------------------------------------------------------
(* Steps that put a byte out.                                              *)
LEMMA PutByteAdds ==
  ASSUME IInv, IInv', PutByte
  PROVE  Adds
<1>1. /\ op \in OpType /\ Putting /\ op.done = 0 /\ pc = "put" /\ IsOpen /\ Writing /\ Has("WRT")
      /\ cnt # size /\ cnt \in 0..size /\ size \in {0, BUFSIZ} /\ ptr = cnt /\ cnt \in Nat
  BY AtRest, Positions DEF PutByte, IInv, Call, Slots, Stage, Putting, Buffered
<1>2. base /\ cnt + 1 \in 1..size
  BY <1>1, Sizes DEF IInv, Buffered
<1>3. /\ UNCHANGED <<fd, flag, base>>
      /\ buf' = [buf EXCEPT ![cnt] = Head(op.todo)] /\ cnt' = cnt + 1
  BY <1>1 DEF PutByte
<1>4. op'.done = 0
  <2>1. CASE LineEnds
    BY <1>1, <2>1 DEF PutByte, StartWrite, OpType
  <2>2. CASE ~LineEnds
    <3>1. NextByte(op, Head(op.todo)) /\ Has("DIRN")' /\ Has("WRT")' /\ op.kind = "fputc" /\ op.todo \in Todo
      BY <1>1, <1>3, <2>2 DEF PutByte, Putting
    <3> QED
      BY <1>1, <3>1, NextPut, FirstByte
  <2> QED
    BY <2>1, <2>2
<1>5. PICK c \in Byte : c = Head(op.todo)
  BY <1>1, FirstByte DEF Putting
<1>6. /\ file \in Seq(Byte) /\ Len(file) \in Nat /\ Len(file) <= MaxPos /\ Len(file) % SECSIZE = 0
      /\ rwp \in 0..Len(file)
      /\ Slice(0, cnt) \in Seq(Byte) /\ Len(Slice(0, cnt)) = cnt
      /\ \A i \in 1..cnt : Slice(0, cnt)[i] = buf[i - 1]
      /\ ~(cnt > 0) => Contents = file /\ Pos = rwp - cnt
      /\ cnt > 0 => Contents = Overlay(file, rwp - op.done, Slice(0, cnt)) /\ Pos = rwp - op.done + cnt
  BY <1>1, <1>2, Seen
<1>7. PICK b \in Seq(Byte) : b = Slice(0, cnt) /\ Len(b) = cnt /\ \A i \in 1..cnt : b[i] = buf[i - 1]
  BY <1>6
<1>8. Contents = Overlay(file, rwp, b) /\ Pos = rwp + cnt
  <2>1. CASE cnt > 0
    BY <1>1, <1>6, <1>7, <2>1
  <2>2. CASE ~(cnt > 0)
    <3>1. Len(b) = 0 /\ cnt = 0
      BY <1>1, <1>7, <2>2
    <3>2. Overlay(file, rwp, b) = file
      BY <1>6, <3>1, OverlayUnseen
    <3> QED
      BY <1>6, <2>2, <3>1, <3>2
  <2> QED
    BY <2>1, <2>2
<1>9. Slice(0, cnt)' = Append(b, c)
  <2>1. PICK m \in Nat : m = cnt /\ cnt' = m + 1
    BY <1>1, <1>3
  <2>2. Slice(0, cnt)' = [i \in 1..(m + 1) |-> buf'[0 + i - 1]]
    BY <2>1 DEF Slice
  <2>3. ASSUME NEW i \in 1..(m + 1) PROVE buf'[0 + i - 1] = Append(b, c)[i]
    <3>1. 0 + i - 1 = i - 1 /\ i - 1 \in 0..m /\ m \in 0..(BUFSIZ - 1)
      BY <1>1, <1>2, <2>1, Sizes
    <3>2. buf' = [buf EXCEPT ![m] = c] /\ buf \in [0..(BUFSIZ - 1) -> Byte \cup {0}]
      BY <1>3, <1>5, <2>1 DEF IInv, Slots
    <3>3. CASE i = m + 1
      <4>1. buf'[m] = c
        BY <3>1, <3>2
      <4>2. Append(b, c)[m + 1] = c
        BY <1>7, <2>1
      <4> QED
        BY <3>1, <3>3, <4>1, <4>2
    <3>4. CASE i # m + 1
      <4>1. i \in 1..m /\ i - 1 # m /\ i - 1 \in 0..(BUFSIZ - 1)
        BY <2>1, <3>1, <3>4, Sizes
      <4>2. buf'[i - 1] = buf[i - 1]
        BY <3>2, <4>1
      <4>3. Append(b, c)[i] = b[i]
        BY <1>7, <2>1, <4>1
      <4> QED
        BY <1>7, <2>1, <3>1, <4>1, <4>2, <4>3
    <3> QED
      BY <3>3, <3>4
  <2>4. Append(b, c) \in Seq(Byte) /\ Len(Append(b, c)) = m + 1
    BY <1>7, <2>1
  <2>5. [i \in 1..(m + 1) |-> buf'[0 + i - 1]] = [i \in 1..(m + 1) |-> Append(b, c)[i]]
    BY <2>3
  <2>6. Append(b, c) = [i \in 1..(m + 1) |-> Append(b, c)[i]]
    <3>1. PICK u \in Seq(Byte) : u = Append(b, c) /\ Len(u) = m + 1
      BY <2>4
    <3>2. PICK n \in Nat : n = m + 1 /\ Len(u) = n
      BY <3>1
    <3>3. u = [i \in 1..n |-> u[i]]
      BY <3>2
    <3> QED
      BY <3>1, <3>2, <3>3
  <2> QED
    BY <2>2, <2>5, <2>6
<1>10. Contents' = Overlay(file, rwp, Append(b, c)) /\ Pos' = Pos + 1
  <2>1. (base /\ Writing /\ cnt > 0)'
    BY <1>1, <1>2, <1>3
  <2>2. Contents' = Overlay(file', rwp' - op'.done, Slice(0, cnt)') /\ Pos' = rwp' - op'.done + cnt'
    BY <2>1 DEF Contents, Pos
  <2>3. rwp' - op'.done = rwp
    BY <1>3, <1>4, <1>6
  <2>4. Overlay(file', rwp, Append(b, c)) = Overlay(file, rwp, Append(b, c))
    BY <1>3 DEF Overlay
  <2>5. rwp + (cnt + 1) = rwp + cnt + 1
    BY <1>1, <1>6
  <2> QED
    BY <1>3, <1>8, <1>9, <2>2, <2>3, <2>4, <2>5
<1>11. Puts(Overlay(file, rwp, b), Overlay(file, rwp, Append(b, c)), rwp + Len(b), c)
  BY <1>6, OneMore
<1> QED
  BY <1>1, <1>3, <1>7, <1>8, <1>10, <1>11 DEF Adds, Putting

LEMMA PutNoBufferIsSeen ==
  ASSUME IInv, IInv', PutNoBuffer
  PROVE  Stays \/ Adds
<1>1. /\ op \in OpType /\ Putting /\ op.done = 0 /\ IsOpen /\ Writing /\ Has("WRT")
      /\ size = 0 /\ cnt = 0 /\ UNCHANGED fd
  BY AtRest DEF PutNoBuffer, IInv, Call, Stage, Putting
<1>2. CASE /\ base' = FALSE /\ size' = 0 /\ cnt' = 0 /\ flag' = flag \cup {"NBF"}
  BY <1>1, <1>2, FrozenStays DEF Frozen
<1>3. CASE /\ base' = TRUE /\ PutFirst(Head(op.todo)) /\ UNCHANGED flag
           /\ NextByte(op, IF Has("ERR") THEN EOF ELSE Head(op.todo))
  <2>1. PICK c \in Byte : c = Head(op.todo)
    BY <1>1, FirstByte DEF Putting
  <2>2. op'.done = 0
    BY <1>1, <1>3, NextPut, FirstByte DEF Putting
  <2>3. Contents = file /\ Pos = rwp
    BY <1>1, Seen
  <2> QED
    BY <1>1, <1>3, <2>1, <2>2, <2>3, FirstByteAdds DEF Putting
<1> QED
  BY <1>2, <1>3 DEF PutNoBuffer

(* The buffer has gone out; the byte that found it full is the first of    *)
(* the next one, or what was not written is lost.                          *)
LEMMA FlsbufIsSeen ==
  ASSUME IInv, IInv', Flsbuf
  PROVE  Adds \/ Loses
<1>1. /\ op \in OpType /\ Spilling /\ Putting /\ IsOpen /\ Writing /\ Has("WRT") /\ base /\ cnt > 0
      /\ UNCHANGED <<fd, flag, base>>
      /\ PutFirst(Head(op.todo)) /\ NextByte(op, IF Has("ERR") THEN EOF ELSE Head(op.todo))
      /\ op.left = 0 \/ Has("ERR")
  <2>1. /\ pc = "written" /\ op.why = "flsbuf" /\ UNCHANGED <<fd, flag, base>>
        /\ PutFirst(Head(op.todo)) /\ NextByte(op, IF Has("ERR") THEN EOF ELSE Head(op.todo))
    BY DEF Flsbuf
  <2>2. op \in OpType /\ IsOpen /\ (op.left = 0 \/ Has("ERR")) /\ (Passing \/ Spilling \/ Flushing)
    BY <2>1 DEF IInv, Call, Outgoing, InWrite
  <2>3. Spilling /\ Putting /\ Writing /\ Has("WRT") /\ cnt > 0
    BY <2>1, <2>2 DEF Passing, Spilling, Flushing, Putting
  <2>4. base
    BY <2>3 DEF IInv, Buffered
  <2> QED
    BY <2>1, <2>2, <2>3, <2>4
<1>2. CASE op.left = 0
  <2>1. op.done = cnt /\ Gone
    BY <1>1, <1>2 DEF Spilling, OpType
  <2>2. Contents = file /\ Pos = rwp
    BY <1>1, <2>1, AllGone
  <2>3. PICK c \in Byte : c = Head(op.todo)
    BY <1>1, FirstByte DEF Putting
  <2>4. op'.done = 0
    BY <1>1, NextPut, FirstByte DEF Putting
  <2> QED
    BY <1>1, <2>2, <2>3, <2>4, FirstByteAdds DEF Putting
<1>3. CASE Has("ERR")
  BY <1>1, <1>3 DEF Loses
<1> QED
  BY <1>1, <1>2, <1>3

LEMMA FlushedIsSeen ==
  ASSUME IInv, IInv', Flushed
  PROVE  Stays \/ Loses
<1>1. /\ op \in OpType /\ Flushing /\ IsOpen /\ Writing /\ base /\ cnt > 0
      /\ UNCHANGED <<fd, flag, base>> /\ cnt' = 0
      /\ op.left = 0 \/ Has("ERR")
  BY DEF Flushed, Emptied, IInv, Call, Outgoing, InWrite, Passing, Spilling, Flushing, Buffered
<1>2. CASE op.left = 0
  <2>1. op.done = cnt /\ Gone
    BY <1>1, <1>2 DEF Flushing, OpType
  <2>2. Contents = file /\ Pos = rwp
    BY <1>1, <2>1, AllGone
  <2>3. Contents' = file'
    BY <1>1 DEF Contents
  <2>4. Pos' = rwp
    <3>1. Pos' = rwp' - cnt'
      BY <1>1 DEF Pos
    <3>2. rwp - 0 = rwp
      BY Positions
    <3> QED
      BY <1>1, <3>1, <3>2
  <2> QED
    BY <1>1, <2>2, <2>3, <2>4 DEF Stays
<1>3. CASE Has("ERR")
  BY <1>1, <1>3 DEF Loses
<1> QED
  BY <1>1, <1>2, <1>3
-----------------------------------------------------------------------------
LEMMA OneByte ==
  ASSUME NEW b \in Seq(Byte), Len(b) = 1
  PROVE  \E c \in Byte : b = <<c>>
<1>1. b[1] \in Byte /\ b = [i \in 1..1 |-> b[i]]
  OBVIOUS
<1>2. b = <<b[1]>>
  BY <1>1
<1> QED
  BY <1>1, <1>2

(* A byte of an unbuffered stream goes to the position at once; a sector   *)
(* of the buffer goes where it lay.                                        *)
LEMMA WriteSectorIsSeen ==
  ASSUME IInv, IInv', WriteSector
  PROVE  Stays \/ Adds \/ Loses
<1>1. /\ op \in OpType /\ op.left \in Nat /\ op.done \in Nat /\ IsOpen /\ UNCHANGED <<base, size, buf, ptr, cnt>>
      /\ (Passing \/ Spilling \/ Flushing)
      /\ file \in Seq(Byte) /\ Len(file) \in Nat /\ Len(file) <= MaxPos /\ Len(file) % SECSIZE = 0
      /\ rwp \in 0..Len(file)
  BY Seen DEF IInv, WriteSector, Call, OpType, Outgoing, InWrite
<1>2. PICK n \in Nat \ {0}, b \in Seq(Byte) :
        /\ n <= op.left /\ n <= SECSIZE - (rwp % SECSIZE) /\ Len(b) = n
        /\ op.why = "unbuffered" => n = 1
        /\ op.why # "unbuffered" => \A i \in 1..n : b[i] = buf[op.done + i - 1]
        /\ \/ /\ rwp + n > MaxPos
              /\ flag' = flag \cup {"ERR", "EOF"} /\ pc' = "written" /\ UNCHANGED <<fd, op>>
           \/ /\ rwp + n <= MaxPos
              /\ file' = Overlay(file, rwp, b) /\ rwp' = rwp + n
              /\ op' = [op EXCEPT !.left = op.left - n, !.done = op.done + n] /\ UNCHANGED <<pc, flag>>
  BY SectorOut
<1>3. CASE flag' = flag \cup {"ERR", "EOF"}
  BY <1>1, <1>3 DEF Loses
<1>4. CASE /\ file' = Overlay(file, rwp, b) /\ rwp' = rwp + n
           /\ op' = [op EXCEPT !.left = op.left - n, !.done = op.done + n] /\ UNCHANGED <<pc, flag>>
  <2>1. CASE Passing
    <3>1. n = 1 /\ cnt = 0 /\ cnt' = 0
      BY <1>1, <1>2, <2>1 DEF Passing, IInv, Slots
    <3>2. Contents = file /\ Contents' = file'
      BY <3>1 DEF Contents
    <3>3. Pos = rwp /\ Pos' = rwp + 1
      <4>1. Pos = rwp - cnt /\ Pos' = rwp' - cnt'
        BY <3>1 DEF Pos
      <4>2. PICK p \in Nat, q \in Nat : p = rwp /\ q = rwp' /\ q = p + 1
        BY <1>1, <1>4, <3>1
      <4>3. p - 0 = p /\ q - 0 = q
        OBVIOUS
      <4>4. Pos = p
        BY <3>1, <4>1, <4>2, <4>3, Zenon
      <4>5. Pos' = q
        BY <3>1, <4>1, <4>2, <4>3, Zenon
      <4> QED
        BY <4>2, <4>4, <4>5, Zenon
    <3>4. PICK c \in Byte : b = <<c>>
      <4>1. b \in Seq(Byte) /\ Len(b) = 1
        BY <1>2, <3>1
      <4> QED
        BY <4>1, OneByte
    <3>5. PICK e \in Seq(Byte) : e = <<>> /\ Len(e) = 0 /\ Append(e, c) = <<c>>
      <4>1. Append(<<>>, c) = <<c>>
        OBVIOUS
      <4> QED
        BY <4>1, EmptyFile
    <3>6. Puts(Overlay(file, rwp, e), Overlay(file, rwp, Append(e, c)), rwp + Len(e), c)
      BY <1>1, OneMore
    <3>7. Overlay(file, rwp, e) = file
      <4>1. rwp + Len(e) <= Len(file) /\ \A i \in 1..Len(e) : file[rwp + i] = e[i]
        BY <1>1, <3>5
      <4> QED
        BY <1>1, <4>1, OverlayUnseen
    <3>8. rwp + Len(e) = rwp
      BY <1>1, <3>5
    <3>9. Puts(Contents, Contents', Pos, c)
      BY <1>4, <3>2, <3>3, <3>4, <3>5, <3>6, <3>7, <3>8
    <3>10. IsOpen' /\ (Has("ERR")' <=> Has("ERR")) /\ Pos' = Pos + 1
      BY <1>1, <1>4, <3>3
    <3> QED
      BY <1>1, <2>1, <3>9, <3>10 DEF Adds, Passing, Putting
  <2>2. CASE Spilling \/ Flushing
    <3>1. /\ op.left + op.done = cnt /\ cnt > 0 /\ Writing /\ Gone /\ op.why # "unbuffered" /\ base
      BY <2>2 DEF Spilling, Flushing, Putting, IInv, Buffered
    <3>2. /\ Contents = Overlay(file, rwp - op.done, Slice(0, cnt)) /\ Pos = rwp - op.done + cnt
          /\ Slice(0, cnt) \in Seq(Byte) /\ Len(Slice(0, cnt)) = cnt /\ cnt \in Nat
          /\ \A i \in 1..cnt : Slice(0, cnt)[i] = buf[i - 1]
      BY <3>1, Seen
    <3>3. PICK d \in Seq(Byte), at \in 0..Len(file), k \in Nat :
            /\ d = Slice(0, cnt) /\ at = rwp - op.done /\ k = op.done /\ at + k = rwp
            /\ Len(d) = cnt /\ k + n <= cnt /\ \A i \in 1..cnt : d[i] = buf[i - 1]
      <4>1. op.done <= rwp
        BY <3>1 DEF Gone
      <4>2. rwp - op.done \in 0..Len(file) /\ (rwp - op.done) + op.done = rwp /\ op.done + n <= cnt
        BY <1>1, <1>2, <3>1, <3>2, <4>1
      <4> QED
        BY <1>1, <3>2, <4>2
    <3>4. OnDisk(file) /\ OnDisk(file') /\ file' = Overlay(file, at + k, b)
      BY <1>1, <1>4, <3>3 DEF OnDisk, IInv, Disk
    <3>5. Overlay(Overlay(file, at + k, b), at, d) = Overlay(file, at, d)
      <4>1. ASSUME NEW i \in 1..Len(b) PROVE b[i] = d[k + i]
        <5>1. i \in 1..n /\ k + i \in 1..cnt /\ op.done + i - 1 = k + i - 1
          BY <1>2, <3>2, <3>3
        <5>2. b[i] = buf[op.done + i - 1] /\ d[k + i] = buf[k + i - 1]
          BY <1>2, <3>1, <3>3, <5>1
        <5> QED
          BY <5>1, <5>2
      <4>2. PartOf(b, d, k)
        BY <1>2, <3>3, <4>1 DEF PartOf
      <4>3. at + k <= Len(file) /\ OnDisk(Overlay(file, at + k, b))
        BY <1>1, <3>3, <3>4
      <4>4. at \in 0..Len(file) /\ d \in Seq(Byte) /\ k \in Nat /\ b \in Seq(Byte)
        BY <1>2, <3>3
      <4> QED
        BY <3>4, <4>2, <4>3, <4>4, OverlayTwice
    <3>6. op'.done = k + n /\ rwp' - op'.done = at
      <4>1. op'.done = op.done + n
        BY <1>1, <1>4 DEF OpType
      <4>2. (rwp + n) - (k + n) = at /\ op.done + n = k + n
        BY <1>1, <3>3
      <4> QED
        BY <1>4, <4>1, <4>2
    <3>7. (base /\ Writing /\ cnt > 0)'
      BY <1>1, <1>4, <3>1
    <3>8. Contents' = Overlay(file', rwp' - op'.done, Slice(0, cnt)') /\ Pos' = rwp' - op'.done + cnt'
      BY <3>7 DEF Contents, Pos
    <3>9. Slice(0, cnt)' = Slice(0, cnt)
      BY <1>1 DEF Slice
    <3>10. Overlay(file', at, d) = Overlay(Overlay(file, at + k, b), at, d)
      BY <3>4
    <3>11. Contents' = Contents /\ Pos' = Pos
      BY <1>1, <3>2, <3>3, <3>5, <3>6, <3>8, <3>9, <3>10
    <3> QED
      BY <1>1, <1>4, <3>11 DEF Stays
  <2> QED
    BY <1>1, <2>1, <2>2
<1> QED
  BY <1>2, <1>3, <1>4
-----------------------------------------------------------------------------
(* Steps that read move the position over one byte, or meet the end.       *)
LEMMA ReadsGet ==
  ASSUME IInv, IInv', GetByte \/ GetFill
  PROVE  Stays \/ Gets
<1>1. /\ op.kind = "fgetc" /\ IsOpen /\ ~Writing /\ file' = file /\ base' = base
      /\ rwp \in Nat /\ cnt \in Nat /\ rwp \in 0..Len(file) /\ Len(file) \in Nat /\ size \in Nat
      /\ rwp' \in Nat /\ rwp' <= Len(file) /\ cnt' \in Nat
  BY Positions, Sizes DEF GetByte, GetFill, IInv, Stage, Disk, Slots
<1>2. /\ IsOpen' /\ ~Has("DIRN")' /\ (Has("ERR")' <=> Has("ERR"))
  <2>1. flag' \in {flag, flag \cup {"EOF"}}
    BY DEF GetByte, GetFill, Deliver
  <2> QED
    BY <1>1, <2>1
<1>3. Contents = file /\ Contents' = file /\ Pos = rwp - cnt /\ Pos' = rwp' - cnt'
  BY <1>1, <1>2 DEF Contents, Pos
<1>5. PICK p \in Nat : p = rwp
  BY <1>1
<1>6. PICK c \in Nat : c = cnt
  BY <1>1
<1>7. PICK q \in Nat : q = rwp'
  BY <1>1
<1>8. PICK d \in Nat : d = cnt'
  BY <1>1
<1>9. PICK l \in Nat : l = Len(file)
  BY <1>1
<1>10. p <= l /\ q <= l
  BY <1>1, <1>5, <1>7, <1>9
<1>4. q - d = p - c \/ (q - d = p - c + 1 /\ p - c < l)
  <2>1. CASE GetByte
    <3>1. /\ cnt > 0 /\ Deliver(buf[ptr], ptr + 1, cnt - 1, base) /\ rwp' = rwp
      BY <2>1 DEF GetByte
    <3>2. base
      BY <3>1 DEF IInv, Buffered
    <3>3. cnt' = (cnt - 1) + 1 \/ cnt' = cnt - 1
      BY <3>1, <3>2 DEF Deliver
    <3>4. cnt' = cnt \/ cnt' = cnt - 1
      BY <1>1, <3>3
    <3>5. q = p /\ c > 0 /\ (d = c \/ d = c - 1)
      BY <1>5, <1>6, <1>7, <1>8, <3>1, <3>4
    <3>6. p - c < l
      BY <1>10, <3>5
    <3>7. CASE d = c
      BY <3>5, <3>7
    <3>8. CASE d = c - 1
      <4>1. q - d = p - c + 1
        BY <3>5, <3>8
      <4> QED
        BY <3>6, <4>1
    <3> QED
      BY <3>5, <3>7, <3>8
  <2>2. CASE GetFill
    <3> DEFINE n == Available(IF size = 0 THEN 1 ELSE size)
    <3>1. cnt = 0 /\ n \in Nat /\ rwp + n <= Len(file)
      BY <1>1, <2>2 DEF GetFill, Available, Least
    <3>2. CASE n = 0
      <4>1. rwp' = rwp /\ cnt' = cnt
        BY <2>2, <3>2 DEF GetFill
      <4>2. q = p /\ d = c
        BY <1>5, <1>6, <1>7, <1>8, <4>1
      <4> QED
        BY <4>2
    <3>3. CASE n # 0
      <4>1. rwp' = rwp + n /\ (cnt' = n - 1 \/ cnt' = (n - 1) + 1)
        <5>0. pc = "get" /\ Has("READ")
          BY <2>2 DEF GetFill, IInv, Stage
        <5>1. size = BUFSIZ /\ size # 0 /\ base
          BY <1>1, <5>0, Sizes DEF IInv, Buffered
        <5>2. Deliver(file[rwp + 1], 1, n - 1, base) /\ rwp' = rwp + n
          BY <2>2, <3>3, <5>1 DEF GetFill
        <5> HIDE DEF n
        <5> QED
          BY <5>1, <5>2 DEF Deliver
      <4> HIDE DEF n
      <4>2. cnt' = n \/ cnt' = n - 1
        BY <3>1, <4>1
      <4>3. n > 0
        BY <3>1, <3>3
      <4>4. PICK m \in Nat : m = n
        BY <3>1
      <4>5. m > 0 /\ q = p + m /\ c = 0 /\ (d = m \/ d = m - 1)
        BY <1>5, <1>6, <1>7, <1>8, <3>1, <4>1, <4>2, <4>3, <4>4
      <4>6. CASE d = m
        <5>1. q - d = p - c
          BY <4>5, <4>6
        <5> QED
          BY <5>1
      <4>7. CASE d = m - 1
        <5>1. q - d = p - c + 1 /\ p - c < l
          BY <1>10, <4>5, <4>7
        <5> QED
          BY <5>1
      <4> QED
        BY <4>5, <4>6, <4>7
    <3> QED
      BY <3>2, <3>3
  <2> QED
    BY <2>1, <2>2
<1> QED
  <2>1. Pos = p - c /\ Pos' = q - d /\ Len(Contents) = l
    BY <1>3, <1>5, <1>6, <1>7, <1>8, <1>9
  <2>2. Pos' = Pos \/ (Pos' = Pos + 1 /\ Pos < Len(Contents))
    BY <1>4, <2>1
  <2> QED
    BY <1>1, <1>2, <1>3, <2>2 DEF Stays, Gets

(* Steps that push back or seek move the position alone.                   *)
LEMMA UngetcSeeks ==
  ASSUME IInv, IInv', \E c \in Chars : Ungetc(c)
  PROVE  Seeks
<1>1. /\ pc = "idle" /\ IsOpen /\ ~Writing /\ file' = file /\ flag' = flag
  BY DEF Ungetc
<1>2. Elsewhere
  BY <1>1 DEF IInv, Stage, Elsewhere, NoOp
<1> QED
  BY <1>1, <1>2, Repositions

LEMMA SeeksSeek ==
  ASSUME IInv, IInv', SeekNear \/ Lseek \/ \E offs \in 0..End : SeekUnbuffered(offs)
  PROVE  Seeks
<1>1. IsOpen /\ file' = file /\ (Has("WRT") /\ Writing => cnt = 0)
  BY DEF SeekNear, Lseek, SeekUnbuffered, IInv, Stage, Seeking, Buffered, Slots
<1>2. flag' \in {flag, flag \ {"EOF"}}
  BY DEF SeekNear, Lseek, SeekUnbuffered
<1>3. ~(Writing /\ cnt > 0)
  <2>1. Writing => Has("WRT")
    BY <1>1 DEF IInv, Buffered
  <2>2. ~(0 > 0)
    OBVIOUS
  <2> QED
    BY <1>1, <2>1, <2>2
<1>4. /\ IsOpen' /\ (Has("ERR")' <=> Has("ERR")) /\ (Has("WRT")' <=> Has("WRT")) /\ (Has("DIRN")' <=> Has("DIRN"))
  BY <1>1, <1>2
<1>5. ~(Writing /\ cnt > 0)'
  <2>1. CASE Lseek
    <3>1. cnt' = 0 /\ ~(0 > 0)
      BY <2>1 DEF Lseek, Emptied
    <3> QED
      BY <3>1
  <2>2. CASE SeekNear
    <3>1. ~Has("WRT") /\ (Writing => Has("WRT"))
      BY <1>1, <2>2 DEF SeekNear, IInv, Buffered
    <3> QED
      BY <1>4, <3>1
  <2>3. CASE \E offs \in 0..End : SeekUnbuffered(offs)
    <3>1. cnt' = cnt
      BY <2>3 DEF SeekUnbuffered
    <3> QED
      BY <1>3, <1>4, <3>1
  <2> QED
    BY <2>1, <2>2, <2>3
<1>6. Elsewhere
  BY DEF SeekNear, Lseek, SeekUnbuffered, IInv, Stage, Seeking, Elsewhere, NoOp
<1> QED
  BY <1>1, <1>3, <1>4, <1>5, <1>6, Repositions

(* A careful program asks for the end with nothing unwritten, so that the  *)
(* flags that _ssize() puts back are the stream's own.                     *)
LEMMA SsizeSeeks ==
  ASSUME Careful, IInv, IInv', Ssize
  PROVE  Seeks
<1>1. /\ pc = "ssize" /\ IsOpen /\ op.saved = Narrow(flag) /\ (Has("WRT") => cnt = 0)
      /\ file' = file /\ flag' = op.saved
  BY DEF Ssize, IInv, Stage, Ending
<1>2. /\ IsOpen' /\ ~Has("DIRN")' /\ (Has("ERR")' <=> Has("ERR"))
  BY <1>1 DEF Narrow
<1>3. ~(Writing /\ cnt > 0)
  <2>1. Writing => Has("WRT")
    BY <1>1 DEF IInv, Buffered
  <2>2. ~(0 > 0)
    OBVIOUS
  <2> QED
    BY <1>1, <2>1, <2>2
<1>4. Elsewhere
  BY <1>1 DEF IInv, Stage, Ending, Elsewhere
<1> QED
  BY <1>1, <1>2, <1>3, <1>4, Repositions

(* A stream is opened and closed.                                          *)
LEMMA FcloseIsSeen ==
  ASSUME IInv, Fclose \/ ExitClose
  PROVE  Stays \/ Shuts
<1>1. /\ pc \in {"close", "exit"} /\ cnt = 0 /\ UNCHANGED <<file, rwp, cnt>>
      /\ flag' = flag \ {"READ", "WRT", "NBF", "LBF"}
  BY DEF Fclose, ExitClose, Shut, IInv, Stage
<1>2. ~IsOpen' /\ (Has("ERR")' <=> Has("ERR"))
  BY <1>1
<1>3. Contents' = Contents /\ Pos' = Pos
  BY <1>1 DEF Contents, Pos
<1> QED
  BY <1>2, <1>3 DEF Stays, Shuts

LEMMA FopenOpens ==
  ASSUME IInv, NEW m \in Modes, Fopen(m) \/ FopenNoFile(m) \/ FopenNoMemory(m)
  PROVE  Opens
<1>1. ~IsOpen /\ cnt = 0 /\ cnt' = 0 /\ rwp \in 0..Len(file) /\ Len(file) \in Nat
  <2>1. ~IsOpen
    BY DEF Fopen, FopenNoFile, FopenNoMemory
  <2>2. cnt = 0
    BY <2>1 DEF IInv, Buffered
  <2> QED
    BY <2>1, <2>2, Positions DEF Fopen, FopenNoFile, FopenNoMemory
<1>2. Contents = file /\ Contents' = file' /\ Pos' = rwp' - cnt'
  BY <1>1 DEF Contents, Pos
<1>3. ~Has("ERR")'
  BY DEF Fopen, FopenNoFile, FopenNoMemory
<1>4. file' \in {file, <<>>} /\ rwp' \in {0, rwp} /\ (file' # file => rwp' = 0)
  BY DEF Fopen, FopenNoFile, FopenNoMemory
<1>5. Pos' \in 0..Len(file')
  <2>1. CASE rwp' = 0
    <3>1. Len(file') \in Nat
      BY <1>1, <1>4, EmptyFile
    <3>2. PICK n \in Nat : n = Len(file')
      BY <3>1
    <3>3. 0 - 0 \in 0..n
      OBVIOUS
    <3> QED
      BY <1>1, <1>2, <2>1, <3>2, <3>3
  <2>2. CASE rwp' # 0
    <3>1. file' = file /\ rwp' = rwp
      BY <1>4, <2>2
    <3>2. rwp - 0 \in 0..Len(file)
      BY <1>1
    <3> QED
      BY <1>1, <1>2, <3>1, <3>2
  <2> QED
    BY <2>1, <2>2
<1> QED
  BY <1>1, <1>2, <1>3, <1>4, <1>5 DEF Opens
-----------------------------------------------------------------------------
LEMMA NextIsSeen ==
  ASSUME Careful, Interrupts \subseteq {0}, IInv, IInv', Next
  PROVE  TextStep
<1>1. CASE Step
  <2>1. CASE WriteSector \/ WriteEnds \/ Flushed \/ Fclose \/ ExitClose
    BY <2>1, WriteSectorIsSeen, WritesStay, FlushedIsSeen, FcloseIsSeen DEF TextStep
  <2>2. CASE PutByte \/ PutNoBuffer \/ PutFull \/ Flsbuf \/ PutUnbuffered
    BY <2>2, PutByteAdds, PutNoBufferIsSeen, WritesStay, FlsbufIsSeen DEF TextStep
  <2>3. CASE GetByte \/ GetFill \/ Return
    BY <2>3, ReadsGet, CallsStay DEF TextStep
  <2>4. CASE EndBinary \/ EndFlush \/ Ssize \/ SeekNear \/ SeekFlush \/ Lseek
    BY <2>4, CallsStay, FlushesAreSeen, SsizeSeeks, SeeksSeek DEF TextStep
  <2> QED
    BY <1>1, <2>1, <2>2, <2>3, <2>4 DEF Step
<1>2. CASE Client
  <2>1. CASE FflushCall \/ FcloseCall \/ ProgramExits \/ FputcRefused \/ FgetcBlocked \/ FgetcCall
    BY <2>1, FlushesAreSeen, CallsStay DEF TextStep
  <2>7. CASE \E c \in Chars : Ungetc(c)
    BY <2>7, UngetcSeeks DEF TextStep
  <2>2. ASSUME NEW m \in Modes, Fopen(m) \/ FopenNoFile(m) \/ FopenNoMemory(m) PROVE TextStep
    BY <2>2, FopenOpens DEF TextStep
  <2>3. ASSUME NEW mode \in Buffering, Setvbuf(mode) PROVE TextStep
    BY <2>3, WritesStay DEF TextStep
  <2>4. CASE \E c \in Chars : FputcCall(c)
    BY <2>4, CallsStay DEF TextStep
  <2>5. ASSUME NEW offs \in 0..End, SeekUnbuffered(offs) \/ Fseek(offs) PROVE TextStep
    BY <2>5, SeeksSeek, CallsStay DEF TextStep
  <2>6. CASE FseekEnd
    BY <2>6, CallsStay DEF TextStep
  <2> QED
    BY <1>2, <2>1, <2>2, <2>3, <2>4, <2>5, <2>6, <2>7 DEF Client
<1>3. CASE Interrupt
  BY <1>3, FlushesAreSeen DEF TextStep
<1> QED
  BY <1>1, <1>2, <1>3 DEF Next

(* The stream implements the text with its position: what a program puts   *)
(* out is there, in the buffer or not, a seek loses nothing, and nothing   *)
(* is lost without the error indicator.  The program is a careful one, and *)
(* control-C comes before a write has done anything: when it comes later   *)
(* the buffer is written twice.                                            *)
THEOREM Implementation ==
  ASSUME Careful, Interrupts \subseteq {0}
  PROVE  Spec => ImplementsCharFile
<1>1. Init => Abstract!Init
  <2> SUFFICES ASSUME Init PROVE Abstract!Init
    OBVIOUS
  <2>1. IInv /\ cnt = 0 /\ rwp = 0 /\ ~Has("ERR") /\ op.kind = "none"
    <3>1. PICK s \in Streams : flag = CASE s = "closed" -> {} [] s = "stdout" -> {"WRT"}
                                         [] s = "stderr" -> {"WRT", "NBF"}
      BY DEF Init
    <3>2. s \in {"closed", "stdout", "stderr"}
      BY StreamAssumption
    <3>3. flag \in {{}, {"WRT"}, {"WRT", "NBF"}}
      BY <3>1, <3>2
    <3>4. cnt = 0 /\ rwp = 0 /\ op.kind = "none"
      BY DEF Init, NoOp
    <3> QED
      BY <3>3, <3>4, InitHolds
  <2>2. Contents = file /\ Pos = 0 /\ file \in Seq(Byte)
    BY <2>1, Seen
  <2>3. file \in Seq(Byte \cup {CPMETX})
    <3>1. Byte \cup {CPMETX} = Byte
      BY DEF Byte
    <3> QED
      BY <2>2, <3>1
  <2> QED
    BY <2>1, <2>2, <2>3 DEF Abstract!Init, Pos
<1>2. IInv /\ IInv' /\ [Next]_vars => [Abstract!Next]_AbstractVars
  <2> SUFFICES ASSUME IInv, IInv', [Next]_vars PROVE [Abstract!Next]_AbstractVars
    OBVIOUS
  <2>1. CASE Next
    BY <2>1, NextIsSeen, TextSteps
  <2>2. CASE UNCHANGED vars
    BY <2>2, FrozenStays, TextSteps DEF vars, Frozen, TextStep
  <2> QED
    BY <2>1, <2>2
<1> QED
  BY <1>1, <1>2, Invariance, PTL DEF Spec, ImplementsCharFile, Abstract!Spec, AbstractVars, Pos
-----------------------------------------------------------------------------
=============================================================================
