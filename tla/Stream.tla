------------------------------- MODULE Stream -------------------------------
(***************************************************************************)
(* One stdio stream over one file: stdio/FREOPEN.C, FCLOSE.C, FPUTC.C,     *)
(* FLSBUF.C, FFLUSH.C, FGETC.C, FILBUF.C, UNGETC.C, FSEEK.C, SETBUF.C and  *)
(* STDCLEAN.C.  The descriptor beneath is a string of bytes that grows by  *)
(* whole sectors, padded with ctrl-Z (module ByteFiles says that it is).   *)
(*                                                                         *)
(* A stream has one buffer for both directions: _cnt counts the bytes      *)
(* still to be read, or, when _IODIRN is set, those still to be written.   *)
(* write() goes sector by sector and polls the console before each, and    *)
(* control-C ends the program there: exit() closes the stream, which       *)
(* flushes the buffer that is being flushed.                               *)
(***************************************************************************)
EXTENDS Integers, Sequences

CONSTANTS
  SECSIZE,     \* bytes in a sector
  BUFSIZ,      \* bytes in a buffer, one sector or more
  MaxPos,      \* bytes the disk holds
  Chars,       \* characters the program writes
  Preset,      \* what the file may hold at first
  Streams,     \* what the stream may be at first: "closed", "stdout", "stderr"
  Modes,       \* modes of fopen(), as records
  Buffering,   \* modes of setvbuf()
  Interrupts,  \* bytes of a write that may be done when control-C comes
  Careless     \* the corners of Client that programs do not keep clear of

X  == 1   \* any ordinary character
NL == 10
CR == 13
CPMETX == 26
EOF == -1
Byte == {X, NL, CR, CPMETX}

ASSUME StreamAssumption ==
  /\ SECSIZE \in Nat \ {0} /\ BUFSIZ \in Nat /\ BUFSIZ >= SECSIZE
  /\ MaxPos \in Nat /\ MaxPos % SECSIZE = 0
  /\ Chars \subseteq {X, NL}
  /\ \A f \in Preset : f \in Seq(Byte) /\ Len(f) <= MaxPos /\ Len(f) % SECSIZE = 0
  /\ Streams \subseteq {"closed", "stdout", "stderr"}
  /\ Modes \subseteq [type : {"r", "w", "a"}, plus : BOOLEAN, bin : BOOLEAN]
  /\ Buffering \subseteq {"LBF", "FBF", "NBF"}
  /\ Interrupts \subseteq Nat
  /\ Careless \subseteq {"seekend", "pushback", "ctrlz"}

VARIABLES
  file, rwp,      \* the bytes of the file, the position of the descriptor
  flag,           \* _flag, as the set of its bits
  base, size,     \* is there a buffer; _size
  buf, ptr, cnt,  \* its bytes, _ptr - _base, _cnt
  tty,            \* isatty() of the descriptor
  pc, op,         \* the call in progress
  pushed          \* history: the character pushed back and not read since

vars == <<file, rwp, flag, base, size, buf, ptr, cnt, tty, pc, op, pushed>>

fd     == <<file, rwp>>
buffer == <<base, size, buf, ptr, cnt>>

NoOp == [kind |-> "none", todo |-> <<>>, left |-> 0, done |-> 0, why |-> "none",
         then |-> "none", offs |-> 0, saved |-> {}, want |-> 0, ret |-> 0]

Has(b)  == b \in flag
IsOpen  == Has("READ") \/ Has("WRT")
Writing == Has("DIRN")
Text    == ~Has("BINARY")

(* Bytes of the buffer that nothing will read or write out again are 0.    *)
Blank == [i \in 0..(BUFSIZ - 1) |-> 0]

Init ==
  /\ file \in Preset /\ rwp = 0
  /\ \E s \in Streams :
       /\ tty \in (IF s = "closed" THEN {FALSE} ELSE BOOLEAN)
       /\ flag = CASE s = "closed" -> {} [] s = "stdout" -> {"WRT"} [] s = "stderr" -> {"WRT", "NBF"}
  /\ base = FALSE /\ size = 0 /\ ptr = 0 /\ cnt = 0
  /\ buf = Blank
  /\ pc = "idle" /\ op = NoOp
  /\ pushed = <<>>

Least(i, j) == IF i <= j THEN i ELSE j

(* ftell() *)
Tell == IF base /\ Writing THEN rwp + cnt ELSE rwp - cnt

Finish(o, ret) ==
  /\ pc' = "done"
  /\ op' = [NoOp EXCEPT !.kind = o.kind, !.todo = o.todo, !.why = o.why, !.want = o.want,
                        !.ret = ret]

Return ==
  /\ pc = "done"
  /\ pc' = "idle" /\ op' = NoOp
  /\ UNCHANGED <<fd, flag, buffer, tty, pushed>>
-----------------------------------------------------------------------------
(***************************************************************************)
(* write() under the stream: op.left bytes are to go, op.done have gone;   *)
(* op.why says whose they are and op.then what comes after.                *)
(***************************************************************************)

StartWrite(o, n, why, then) ==
  /\ op' = [o EXCEPT !.left = n, !.done = 0, !.why = why, !.then = then]
  /\ pc' = "write"

(* The file with the bytes b put at offset at; new sectors are padded.     *)
Padded(len) == ((len + SECSIZE - 1) \div SECSIZE) * SECSIZE

Overlay(f, at, b) ==
  LET end == at + Len(b)
  IN [i \in 1..(IF end > Len(f) THEN Padded(end) ELSE Len(f)) |->
        IF i > at /\ i <= end THEN b[i - at]
        ELSE IF i <= Len(f) THEN f[i] ELSE CPMETX]

Slice(from, n) == [i \in 1..n |-> buf[from + i - 1]]

WriteSector ==
  /\ pc = "write" /\ op.left > 0
  /\ LET n == Least(SECSIZE - (rwp % SECSIZE), op.left)
         b == IF op.why = "unbuffered" THEN <<Head(op.todo)>> ELSE Slice(op.done, n)
     IN IF rwp + n <= MaxPos
          THEN /\ file' = Overlay(file, rwp, b)
               /\ rwp' = rwp + n
               /\ op' = [op EXCEPT !.left = op.left - n, !.done = op.done + n]
               /\ UNCHANGED <<pc, flag>>
          ELSE /\ flag' = flag \cup {"ERR", "EOF"}
               /\ pc' = "written"
               /\ UNCHANGED <<fd, op>>
  /\ UNCHANGED <<buffer, tty, pushed>>

WriteEnds ==
  /\ pc = "write" /\ op.left = 0
  /\ pc' = "written"
  /\ UNCHANGED <<fd, flag, buffer, tty, op, pushed>>

(* fflush(): what was read ahead is dropped, what was written goes out.    *)
Unwritten == Has("WRT") /\ Writing /\ base /\ cnt # 0

Emptied == cnt' = 0 /\ ptr' = 0 /\ buf' = Blank

Flush(o, then) ==
  IF Unwritten /\ ~(Has("READ") /\ ~Writing)
    THEN StartWrite(o, cnt, "flush", then) /\ UNCHANGED <<buf, cnt, ptr>>
    ELSE /\ pc' = then /\ op' = o
         /\ IF Has("READ") /\ ~Writing THEN Emptied ELSE UNCHANGED <<buf, cnt, ptr>>

Flushed ==
  /\ pc = "written" /\ op.why = "flush"
  /\ Emptied
  /\ LET ret == IF Has("ERR") THEN EOF ELSE 0
     IN IF op.then = "done" THEN Finish(op, ret)
        ELSE pc' = op.then /\ op' = [op EXCEPT !.left = 0, !.done = 0, !.why = "none", !.then = "none"]
  /\ UNCHANGED <<fd, flag, base, size, tty, pushed>>

(* On a stream that is being read, what was read ahead is gone, with the   *)
(* character pushed back: the descriptor is not moved back to it.          *)
FflushRet == IF Has("READ") /\ ~Writing /\ Has("ERR") THEN EOF ELSE 0

FflushCall ==
  /\ pc = "idle" /\ IsOpen
  /\ Flush([NoOp EXCEPT !.kind = "fflush", !.ret = FflushRet], "done")
  /\ pushed' = <<>>
  /\ UNCHANGED <<fd, flag, base, size, tty>>
-----------------------------------------------------------------------------
(***************************************************************************)
(* fopen(), fclose(), exit() and setvbuf()                                 *)
(***************************************************************************)

(* freopen() of a stream that is closed, on a disk file.  Append mode goes  *)
(* on to fseek().                                                          *)
Fopen(m) ==
  /\ pc = "idle" /\ ~IsOpen
  /\ file' = IF m.type = "w" THEN <<>> ELSE file
  /\ rwp' = 0
  /\ flag' = (IF m.bin THEN {"BINARY"} ELSE {}) \cup (IF m.plus THEN {"READ", "WRT"} ELSE {})
               \cup (IF m.type = "r" THEN {"READ"} ELSE {"WRT"})
  /\ base' = TRUE /\ size' = BUFSIZ /\ ptr' = 0 /\ cnt' = 0 /\ tty' = FALSE
  /\ pushed' = <<>>
  /\ IF m.type = "a"
       THEN pc' = "end" /\ op' = [NoOp EXCEPT !.kind = "seekend"]
       ELSE Finish([NoOp EXCEPT !.kind = "fopen"], 0)
  /\ UNCHANGED buf

(* It fails: there is no such file, or no buffer for it.  The bits of "+"  *)
(* stay when there is no file, and make a slot look taken that nobody has. *)
FopenNoFile(m) ==
  /\ pc = "idle" /\ ~IsOpen
  /\ flag' = (IF m.bin THEN {"BINARY"} ELSE {}) \cup (IF m.plus THEN {"READ", "WRT"} ELSE {})
  /\ pc' = IF m.plus THEN "lost" ELSE "idle"
  /\ UNCHANGED <<fd, buffer, tty, op, pushed>>

FopenNoMemory(m) ==
  /\ pc = "idle" /\ ~IsOpen
  /\ file' = IF m.type = "w" THEN <<>> ELSE file
  /\ rwp' = 0
  /\ flag' = {} /\ size' = BUFSIZ
  /\ UNCHANGED <<base, buf, ptr, cnt, tty, pc, op, pushed>>

FcloseCall ==
  /\ pc = "idle" /\ IsOpen
  /\ Flush([NoOp EXCEPT !.kind = "fclose"], "close")
  /\ UNCHANGED <<fd, flag, base, size, tty, pushed>>

Shut ==
  /\ flag' = flag \ {"READ", "WRT", "NBF", "LBF"}
  /\ base' = FALSE
  /\ UNCHANGED <<fd, size, buf, ptr, cnt, tty, pushed>>

Fclose ==
  /\ pc = "close"
  /\ Shut
  /\ Finish(op, IF Has("ERR") THEN EOF ELSE 0)

(* exit() closes the stream, whatever was going on with it. *)
ExitCall ==
  /\ Flush([NoOp EXCEPT !.kind = "exit"], "exit")
  /\ UNCHANGED <<fd, flag, base, size, tty, pushed>>

ProgramExits == pc \in {"idle", "lost"} /\ ExitCall

(* control-C at the poll before a sector. *)
Interrupt ==
  /\ pc = "write" /\ op.left > 0
  /\ op.done \in Interrupts
  /\ ExitCall

ExitClose ==
  /\ pc = "exit"
  /\ Shut
  /\ pc' = "exited" /\ op' = NoOp

(* setvbuf() without a buffer of the caller's, while nothing is buffered.  *)
(* Only a stream that never had a buffer is made unbuffered: on another    *)
(* one _size would stay, and the next byte would go to address 0.          *)
Setvbuf(mode) ==
  /\ pc = "idle" /\ IsOpen /\ cnt = 0
  /\ mode = "NBF" => size = 0
  /\ IF mode = "NBF"
       THEN /\ base' = FALSE /\ ptr' = 0
            /\ flag' = (flag \ {"LBF"}) \cup {"NBF"}
            /\ UNCHANGED size
       ELSE /\ base' = TRUE /\ size' = BUFSIZ
            /\ flag' = (flag \ {"NBF", "LBF"}) \cup (IF mode = "LBF" THEN {"LBF"} ELSE {})
            /\ UNCHANGED ptr
  /\ cnt' = 0 /\ pushed' = <<>>
  /\ UNCHANGED <<fd, buf, tty, pc, op>>
-----------------------------------------------------------------------------
(***************************************************************************)
(* fputc() and _flsbuf()                                                   *)
(***************************************************************************)

Spelled(c) == IF c = NL /\ Text THEN <<CR, NL>> ELSE <<c>>

TurnsAlways == Has("WRT")
Turns       == Has("WRT") /\ (Writing \/ cnt = 0)

LineStarts == Head(op.todo) = CR /\ Has("LBF") /\ base
LineEnds   == Head(op.todo) = NL /\ Has("LBF") /\ base

FputcRefused ==
  /\ pc = "idle" /\ IsOpen /\ ~Turns
  /\ Finish([NoOp EXCEPT !.kind = "fputc"], EOF)
  /\ UNCHANGED <<fd, flag, buffer, tty, pushed>>

FputcCall(c) ==
  /\ pc = "idle" /\ Turns
  /\ flag' = flag \cup {"DIRN"}
  /\ ptr' = IF cnt = 0 THEN 0 ELSE ptr
  /\ op' = [NoOp EXCEPT !.kind = "fputc", !.todo = Spelled(c)]
  /\ pc' = "put"
  /\ pushed' = <<>>
  /\ UNCHANGED <<fd, base, size, buf, cnt, tty>>

(* What is left to do when a byte is in the buffer: the second byte of a   *)
(* line end, or the end of the call.                                       *)
SameByte(o, ret) == IF Len(o.todo) > 1 THEN pc' = "put" /\ op' = [o EXCEPT !.done = 0]
                                       ELSE Finish([o EXCEPT !.done = 0], ret)
NextByte(o, ret) ==
  IF Len(o.todo) > 1
    THEN pc' = "put" /\ op' = [o EXCEPT !.todo = Tail(o.todo), !.done = 0]
    ELSE Finish([o EXCEPT !.done = 0], ret)

PutByte ==
  /\ pc = "put" /\ cnt # size
  /\ buf' = [buf EXCEPT ![ptr] = Head(op.todo)]
  /\ ptr' = ptr + 1 /\ cnt' = cnt + 1
  /\ IF LineEnds
       THEN StartWrite(op, cnt + 1, "flush", "done")
       ELSE NextByte(op, Head(op.todo))
  /\ UNCHANGED <<fd, flag, base, size, tty, pushed>>

PutFirst(c) ==
  /\ buf' = [Blank EXCEPT ![0] = c]
  /\ ptr' = 1 /\ cnt' = 1

(* A stream that has no buffer gets one now, unless it is unbuffered, a    *)
(* terminal, or there is no memory.                                        *)
PutNoBuffer ==
  /\ pc = "put" /\ cnt = size /\ size = 0
  /\ \/ /\ base' = FALSE /\ size' = 0 /\ cnt' = 0
        /\ flag' = flag \cup {"NBF"}
        /\ StartWrite(op, 1, "unbuffered", "put")
        /\ UNCHANGED <<buf, ptr>>
     \/ /\ ~Has("NBF") /\ ~tty
        /\ base' = TRUE /\ size' = BUFSIZ
        /\ PutFirst(Head(op.todo))
        /\ NextByte(op, IF Has("ERR") THEN EOF ELSE Head(op.todo))
        /\ UNCHANGED flag
  /\ UNCHANGED <<fd, tty, pushed>>

PutFull ==
  /\ pc = "put" /\ cnt = size /\ size # 0
  /\ StartWrite(op, cnt, "flsbuf", "put")
  /\ UNCHANGED <<fd, flag, buffer, tty, pushed>>

Flsbuf ==
  /\ pc = "written" /\ op.why = "flsbuf"
  /\ PutFirst(Head(op.todo))
  /\ NextByte(op, IF Has("ERR") THEN EOF ELSE Head(op.todo))
  /\ UNCHANGED <<fd, flag, base, size, tty, pushed>>

PutUnbuffered ==
  /\ pc = "written" /\ op.why = "unbuffered"
  /\ NextByte(op, IF op.done = 1 THEN Head(op.todo) ELSE EOF)
  /\ UNCHANGED <<fd, flag, buffer, tty, pushed>>
-----------------------------------------------------------------------------
(***************************************************************************)
(* fgetc(), _filbuf() and ungetc()                                         *)
(***************************************************************************)

(* What a reader expects next, from the bytes s: in a text, returns do not *)
(* count and ctrl-Z is the end.                                            *)
Visible(s) == IF Text THEN {i \in DOMAIN s : s[i] # CR} ELSE DOMAIN s

NextOf(s) ==
  IF Visible(s) = {} THEN EOF
  ELSE LET i == CHOOSE i \in Visible(s) : \A j \in Visible(s) : i <= j
       IN IF Text /\ s[i] = CPMETX THEN EOF ELSE s[i]

Wanted == NextOf(pushed \o SubSeq(file, Tell + 1 + Len(pushed), Len(file)))

EofBlocked == Has("EOF") \/ ~Has("READ")
Blocked    == Has("EOF") \/ ~Has("READ") \/ (Writing /\ cnt # 0)

(* What a reader is owed who is turned away: the next character all the    *)
(* same, unless the stream is not for reading, is in its output state or   *)
(* has had an error.                                                       *)
Owed == IF Has("READ") /\ ~Writing /\ ~Has("ERR") THEN Wanted ELSE EOF

FgetcBlocked ==
  /\ pc = "idle" /\ IsOpen /\ Blocked
  /\ flag' = flag \cup {"EOF"}
  /\ Finish([NoOp EXCEPT !.kind = "fgetc", !.want = Owed], EOF)
  /\ UNCHANGED <<fd, buffer, tty, pushed>>

FgetcCall ==
  /\ pc = "idle" /\ IsOpen /\ ~Blocked
  /\ flag' = flag \ {"DIRN"}
  /\ op' = [NoOp EXCEPT !.kind = "fgetc", !.want = Wanted]
  /\ pc' = "get"
  /\ UNCHANGED <<fd, buffer, tty, pushed>>

(* A byte has come, and the buffer is then at p with n bytes left; ctrl-Z  *)
(* stays in the buffer.                                                    *)
Deliver(c, p, n, more) ==
  IF Text /\ c = CPMETX
    THEN /\ flag' = flag \cup {"EOF"}
         /\ IF more THEN ptr' = p - 1 /\ cnt' = n + 1 ELSE ptr' = p /\ cnt' = n
         /\ Finish(op, EOF)
         /\ UNCHANGED pushed
    ELSE /\ UNCHANGED flag
         /\ ptr' = p /\ cnt' = n
         /\ pushed' = <<>>
         /\ IF Text /\ c = CR THEN UNCHANGED <<pc, op>> ELSE Finish(op, c)

GetByte ==
  /\ pc = "get" /\ cnt > 0
  /\ Deliver(buf[ptr], ptr + 1, cnt - 1, base)
  /\ UNCHANGED <<fd, base, size, buf, tty>>

Available(n) == IF rwp >= Len(file) THEN 0 ELSE Least(n, Len(file) - rwp)

GetFill ==
  /\ pc = "get" /\ cnt = 0
  /\ LET n == Available(IF size = 0 THEN 1 ELSE size)
     IN IF n = 0
          THEN /\ flag' = flag \cup {"EOF"}
               /\ ptr' = IF size = 0 THEN ptr ELSE 0
               /\ Finish(op, EOF)
               /\ UNCHANGED <<rwp, buf, cnt, pushed>>
          ELSE /\ rwp' = rwp + n
               /\ IF size = 0
                    THEN UNCHANGED buf /\ Deliver(file[rwp + 1], ptr, 0, base)
                    ELSE /\ buf' = [i \in DOMAIN buf |-> IF i < n THEN file[rwp + 1 + i] ELSE 0]
                         /\ Deliver(file[rwp + 1], 1, n - 1, base)
  /\ UNCHANGED <<file, base, size, tty>>

Ungetc(c) ==
  /\ pc = "idle"
  /\ Has("READ") /\ ~Writing /\ base /\ cnt # size
  /\ pushed = <<>>  \* "at most one level of pushback"
  /\ IF ptr = 0
       THEN buf' = [buf EXCEPT ![0] = c] /\ UNCHANGED <<ptr, cnt>>
       ELSE /\ buf' = [buf EXCEPT ![ptr - 1] = c]
            /\ ptr' = ptr - 1 /\ cnt' = cnt + 1
  /\ pushed' = <<c>>
  /\ UNCHANGED <<fd, flag, base, size, tty, pc, op>>
-----------------------------------------------------------------------------
(***************************************************************************)
(* fseek() and _ssize()                                                    *)
(***************************************************************************)

(* A stream without a buffer is positioned by the descriptor, from the     *)
(* beginning, from where it is or from the end of the file.                *)
SeekUnbuffered(offs) ==
  /\ pc = "idle" /\ IsOpen /\ ~base
  /\ flag' = flag \ {"EOF"}
  /\ rwp' = offs
  /\ UNCHANGED <<file, buffer, tty, pc, op, pushed>>

Fseek(offs) ==
  /\ pc = "idle" /\ IsOpen /\ base
  /\ flag' = flag \ {"EOF"}
  /\ op' = [NoOp EXCEPT !.kind = "fseek", !.offs = offs]
  /\ pc' = "seek"
  /\ UNCHANGED <<fd, buffer, tty, pushed>>

FseekEnd ==
  /\ pc = "idle" /\ IsOpen /\ base
  /\ flag' = flag \ {"EOF"}
  /\ op' = [NoOp EXCEPT !.kind = "seekend"]
  /\ pc' = "end"
  /\ UNCHANGED <<fd, buffer, tty, pushed>>

FSize == IF Len(file) > rwp THEN Len(file) ELSE rwp

EndBinary ==
  /\ pc = "end" /\ ~Text
  /\ op' = [op EXCEPT !.offs = FSize]
  /\ pc' = "seek"
  /\ UNCHANGED <<fd, flag, buffer, tty, pushed>>

(* _ssize() keeps the flags in a byte, and from before it flushes.         *)
Narrow(f) == f \ {"LBF", "DIRN"}

EndFlush ==
  /\ pc = "end" /\ Text
  /\ LET o == [op EXCEPT !.saved = Narrow(flag)]
     IN IF Has("WRT") THEN Flush(o, "ssize")
                      ELSE pc' = "ssize" /\ op' = o /\ UNCHANGED <<buf, cnt, ptr>>
  /\ UNCHANGED <<fd, flag, base, size, tty, pushed>>

(* The last sector is read, to the first ctrl-Z in it. *)
Ctrlzs(from) == {i \in from..(Len(file) - 1) : file[i + 1] = CPMETX}

(* Without one more is asked for than a sector with returns in it has.     *)
ReadsPast(from) == Ctrlzs(from) = {} /\ \E i \in from..(Len(file) - 1) : file[i + 1] = CR

EndOfSector(from) == Len(file)
EndOfText(from) ==
  IF Ctrlzs(from) = {} THEN Len(file)
  ELSE CHOOSE i \in Ctrlzs(from) : \A j \in Ctrlzs(from) : i <= j

Ssize ==
  /\ pc = "ssize"
  /\ LET from == IF FSize >= SECSIZE THEN FSize - SECSIZE ELSE rwp
         n    == IF from >= Len(file) \/ Has("EOF") THEN 0 ELSE Len(file) - from
         x    == IF n = 0 THEN from ELSE EndOfText(from)
     IN /\ buf' = [i \in DOMAIN buf |-> IF i < n THEN file[from + 1 + i] ELSE 0]
        /\ rwp' = IF Has("WRT") THEN x ELSE from + n
        /\ cnt' = IF Has("WRT") THEN 0 ELSE from + n - x
        /\ ptr' = IF Has("WRT") \/ n = 0 \/ ReadsPast(from) THEN 0 ELSE x - from
  /\ flag' = op.saved
  /\ pushed' = <<>>
  /\ Finish(op, 0)
  /\ UNCHANGED <<file, base, size, tty>>

(* Within what was read ahead, or by the descriptor. *)
SeekNear ==
  /\ pc = "seek"
  /\ Has("READ") /\ ~Has("WRT") /\ op.offs - Tell \in 0..cnt
  /\ cnt' = cnt - (op.offs - Tell) /\ ptr' = ptr + (op.offs - Tell)
  /\ pushed' = IF op.offs = Tell THEN pushed ELSE <<>>
  /\ Finish(op, 0)
  /\ UNCHANGED <<fd, flag, base, size, buf, tty>>

NeedNotFlush == FALSE
MustFlush    == Writing /\ cnt # 0

SeekFlush ==
  /\ pc = "seek"
  /\ ~(Has("READ") /\ ~Has("WRT") /\ op.offs - Tell \in 0..cnt)
  /\ IF MustFlush THEN Flush(op, "lseek")
                  ELSE pc' = "lseek" /\ UNCHANGED <<op, buf, cnt, ptr>>
  /\ UNCHANGED <<fd, flag, base, size, tty, pushed>>

Lseek ==
  /\ pc = "lseek"
  /\ Emptied
  /\ rwp' = op.offs
  /\ pushed' = <<>>
  /\ Finish(op, 0)
  /\ UNCHANGED <<file, flag, base, size, tty>>
-----------------------------------------------------------------------------
(***************************************************************************)
(* The calls of a program, one at a time.  None seeks past the end, or     *)
(* past what the disk can hold.  A careful one keeps clear of three        *)
(* corners: it does not ask for the end of the file with bytes unwritten   *)
(* ("seekend"), pushes back nothing at the beginning of the buffer         *)
(* ("pushback"), and does not flush a text that it has read to a ctrl-Z,   *)
(* which would take it past the ctrl-Z ("ctrlz").                          *)
(***************************************************************************)

Careful    == Careless = {}
Avoids(cc) == cc \notin Careless
AtCtrlZ    == Has("EOF") /\ ~Writing /\ cnt # 0

End == Least(MaxPos, IF Tell > FSize THEN Tell ELSE FSize)

Client ==
  \/ (Avoids("ctrlz") => ~AtCtrlZ) /\ FflushCall
  \/ FcloseCall \/ ProgramExits
  \/ \E m \in Modes : Fopen(m) \/ FopenNoFile(m) \/ FopenNoMemory(m)
  \/ \E mode \in Buffering : Setvbuf(mode)
  \/ FputcRefused \/ \E c \in Chars : FputcCall(c)
  \/ FgetcBlocked \/ FgetcCall
  \/ (Avoids("pushback") => ptr # 0) /\ \E c \in Chars : Ungetc(c)
  \/ \E offs \in 0..End : SeekUnbuffered(offs) \/ Fseek(offs)
  \/ (Avoids("seekend") => ~Unwritten) /\ FseekEnd

Step ==
  \/ WriteSector \/ WriteEnds \/ Flushed \/ Fclose \/ ExitClose
  \/ PutByte \/ PutNoBuffer \/ PutFull \/ Flsbuf \/ PutUnbuffered
  \/ GetByte \/ GetFill
  \/ EndBinary \/ EndFlush \/ Ssize \/ SeekNear \/ SeekFlush \/ Lseek
  \/ Return

Next == Step \/ Client \/ Interrupt

Spec     == Init /\ [][Next]_vars
FairSpec == Spec /\ WF_vars(Step)
-----------------------------------------------------------------------------
(***************************************************************************)
(* Properties.                                                             *)
(***************************************************************************)

(* The fields have their types, _ptr and _cnt stay within the buffer, and  *)
(* a buffer is written or read only while there is one.                    *)
TypeOK ==
  /\ file \in Seq(Byte) /\ Len(file) <= MaxPos /\ Len(file) % SECSIZE = 0
  /\ rwp \in 0..MaxPos
  /\ flag \subseteq {"READ", "WRT", "NBF", "LBF", "EOF", "ERR", "BINARY", "DIRN"}
  /\ base \in BOOLEAN /\ size \in {0, BUFSIZ}
  /\ buf \in [0..(BUFSIZ - 1) -> Byte \cup {0}]
  /\ ptr \in 0..size /\ cnt \in 0..size
  /\ cnt > 0 => base
  /\ IF Writing THEN cnt > 0 => ptr = cnt ELSE ptr + cnt <= size
  /\ pushed \in {<<>>} \cup {<<c>> : c \in Chars}

(* The text of the stream: the file with what is still to be written.      *)
Contents == IF base /\ Writing /\ cnt > 0
              THEN Overlay(file, rwp - op.done, Slice(0, cnt)) ELSE file

(* fgetc() returns the character pushed back, or else the next one of the  *)
(* stream as it was when the call began, over any number of refills; and   *)
(* when it answers that there is none, of a stream that is being read, it  *)
(* is so, whatever calls have come since the end was met.  One character   *)
(* is kept back: ungetc() takes one after the end has been met, and        *)
(* fgetc() goes on to answer EOF.                                          *)
GetReturnsNext ==
  pc = "done" /\ op.kind = "fgetc" =>
    op.ret = IF pushed = <<>> THEN op.want ELSE EOF

(* fseek() to the end of a text stops before the padding of the last       *)
(* sector: what follows is the end, and nothing before it in the sector    *)
(* would have been taken for the end.                                      *)
LastSector == ((Len(Contents) - 1) \div SECSIZE) * SECSIZE

SeekEndIsEnd ==
  pc = "done" /\ op.kind = "seekend" /\ Contents # <<>> =>
    /\ NextOf(SubSeq(Contents, Tell + 1, Len(Contents))) = EOF
    /\ Text => \A i \in (LastSector + 1)..Tell : Contents[i] # CPMETX

(* fseek() to the end of a binary file goes to the end of what was put     *)
(* out, in the buffer or not.  So the documents say; it goes to the end of *)
(* what had been written before.                                           *)
SeekAccountsForBuffer ==
  pc = "done" /\ op.kind = "seekend" /\ ~Text => Tell >= Len(Contents)

(* When a line has been put out on a line buffered stream, nothing of it   *)
(* waits in the buffer, with one exception: a newline that found the       *)
(* buffer full has sent the line on its way, and waits there itself.       *)
LinesFlushed ==
  pc = "done" /\ op.kind = "fputc" /\ op.todo = <<NL>> /\ Has("LBF") =>
    IF op.why = "flsbuf" THEN cnt = 1 /\ buf[0] = NL ELSE cnt = 0

(* Every call ends: the refills of fgetc() and the writes before a seek    *)
(* come to an end.                                                         *)
CallEnds == (pc \notin {"idle", "lost", "exited"}) ~> (pc \in {"idle", "lost", "exited"})

(* The buffered stream is the text with its position that stdio promises.  *)
Abstract == INSTANCE CharFile WITH
  Char <- Byte, PAD <- CPMETX,
  text <- Contents,
  pos  <- IF base /\ Writing /\ cnt > 0 THEN rwp - op.done + cnt ELSE rwp - cnt,
  err  <- Has("ERR"),
  open <- IsOpen,
  call <- op.kind

ImplementsCharFile == Abstract!Spec
=============================================================================
