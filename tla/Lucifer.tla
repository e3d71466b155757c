------------------------------ MODULE Lucifer ------------------------------
(***************************************************************************)
(* The monitor of the remote debugger Lucifer, diskB/LUCIFER/TARGET.C with *)
(* PROTO.H: the monitor and the user's program in the target, the serial   *)
(* line, and the debugger at the other end (external).                     *)
(*                                                                         *)
(* The monitor answers commands while the program stands still, its        *)
(* registers pushed on its own stack.  GO pops them, and from then on a    *)
(* byte received interrupts the program; but the program may also call the *)
(* monitor for its console, which uses the same line.  A byte on the line  *)
(* carries, as a ghost, what its sender meant by it.                       *)
(***************************************************************************)
EXTENDS Integers, Sequences, SequencesExt

CONSTANTS
  Data,      \* values of the program's memory and registers
  Stacks,    \* where the debugger sets its stack pointer to
  Keys,      \* characters typed at its console
  LineSizes, \* sizes of the buffers it reads lines into
  Jumps,     \* whether location 5 may, or may not, be a jump already
  Gaps       \* places a byte may reach although they are left within a few
             \* instructions: "going", "saving"

(* The codes of PROTO.H, from HELLO = 0xE0 on; two other bytes that matter. *)
HELLO == 0
ACK == 1
READ == 2
WRITE == 3
WACK == 4
GO == 5
GACK == 6
GREGS == 7
SNDREGS == 8
STOP == 9
STEP == 10
IDENT == 11
IDACK == 12
OUTPUT == 13
INPUT == 15
STOPPED == 17
STOPCALL == 18
CALL_SUB == 19
NEWLINE == 20
BYTE == 21   \* sums of bytes are modulo this

RSIZE == 2   \* sizeof(struct regs): here A and PC
LineRoom == 2 \* bytes on the line that make the output of a program wait
FULL  == 2   \* bytes a READ of count 0 means; the code's 256

(* Memory: two cells of the program, its stack, and the monitor's stack. *)
Cells == {0, 1}
TOP   == 6
MTOP  == 8
User  == {0, 1}          \* where the program's instructions are
DUMMY == 2
AFTER_DUMMY == 3
PROMPT == 4
PROMPTED == 5
OUT1 == 6
OUT2 == 7
CONSTAT == 8
RETURN == 9
MONITOR == 10
OUT3 == 11
UNASKED == 12
LOST == 13
Pcs == 0..13

ASSUME LuciferAssumption ==
  /\ Data \subseteq 0..(BYTE - 1) /\ Data # {} /\ 0 \in Data
  /\ Keys \subseteq 0..(BYTE - 1) \ {STOP}
  /\ Stacks \subseteq {TOP - RSIZE, TOP} /\ Stacks # {}
  /\ LineSizes \subseteq Nat \ {0}
  /\ Jumps \subseteq BOOLEAN
  /\ Gaps \subseteq {"going", "saving"}

VARIABLES
  mem,       \* memory, the stacks included
  cpu,       \* the registers: the program's while it runs
  rptr,      \* where they are pushed while it does not
  enabled,   \* INTEN: a byte received interrupts
  imr,       \* IMR_A
  at,        \* "main", "going", "stepping", "trap", "run" or "saving"
  call,      \* the BDOS call of the program: where it returns, its line
  oldbdos,   \* what else location 5 leads to
  toTarget, toHost,  \* bytes on the line
  host       \* the debugger: what it asked, whether it said STOP, was prompted

target == <<mem, cpu, rptr, enabled, imr, at, call, oldbdos>>
vars == <<target, toTarget, toHost, host>>

Registers == [a : Data \cup Keys \cup {CALL_SUB}, pc : Pcs, sp : Stacks \cup {TOP}]
Nothing == [do |-> "none"]
As(role, s) == [i \in DOMAIN s |-> [v |-> s[i], as |-> role]]
Values(s) == [i \in DOMAIN s |-> s[i].v]
Sum(s) == FoldLeft(LAMBDA x, y : x + y, 0, s) % BYTE
Put(s) == toHost' = toHost \o s
Code(s) == As("code", <<Head(s)>>) \o As("data", Tail(s))

(* The registers as intr() pushes them, and as go() pops them. *)
FrameOtherWay(r) == /\ mem' = [mem EXCEPT ![r.sp - 1] = r.a, ![r.sp - 2] = r.pc]
                    /\ rptr' = r.sp - RSIZE
Frame(r) == /\ mem' = [mem EXCEPT ![r.sp - 1] = r.pc, ![r.sp - 2] = r.a]
            /\ rptr' = r.sp - RSIZE
Saved == [a |-> mem[rptr], pc |-> mem[rptr + 1], sp |-> rptr + RSIZE]

(* The monitor's own registers matter only where they are. *)
Own == [a |-> 0, pc |-> MONITOR, sp |-> MTOP]
NoCall == [ret |-> 0, size |-> 0, line |-> <<>>]

(* The jump that is there, or the one it leads to, is turned to bdostrap,    *)
(* and what it led to is kept.                                              *)
SetupBdosTrap(jump) == IF jump THEN "bdos" ELSE "bdoserr"

Init ==
  /\ \E d \in [Cells -> Data] :
       mem = [i \in 0..(MTOP - 1) |-> IF i \in Cells THEN d[i] ELSE IF i = TOP - 1 THEN DUMMY ELSE 0]
  /\ rptr = TOP - RSIZE
  /\ cpu = Own
  /\ enabled = FALSE /\ imr = FALSE /\ at = "main"
  /\ call = NoCall
  /\ \E jump \in Jumps : oldbdos = SetupBdosTrap(jump)
  /\ toTarget = <<>> /\ toHost = <<>>
  /\ host = [req |-> Nothing, runs |-> FALSE, stop |-> FALSE, asked |-> FALSE]

-----------------------------------------------------------------------------
(* The monitor's commands. *)

Command == Head(toTarget).v
Arg(i)  == toTarget[i + 1].v
Args(i, j) == Values(SubSeq(toTarget, i + 1, j + 1))

(* getch() waits for each byte: a command is carried out once n bytes have  *)
(* followed it, and the line goes on after them.                            *)
Takes(c, n) == /\ at = "main" /\ toTarget # <<>> /\ Command = c
               /\ Len(toTarget) > n
               /\ toTarget' = SubSeq(toTarget, n + 2, Len(toTarget))
               /\ UNCHANGED <<cpu, enabled, imr, call, oldbdos, host>>

Hello == /\ Takes(HELLO, 0) /\ Put(Code(<<ACK>>)) /\ UNCHANGED <<mem, rptr, at>>

(* A STOP that crossed the program's own stop means nothing any more. *)
StopIgnored == /\ Takes(STOP, 0) /\ UNCHANGED <<mem, rptr, at, toHost>>

Ident == /\ Takes(IDENT, 0) /\ Put(Code(<<IDACK, 0, 3>>))
         /\ UNCHANGED <<mem, rptr, at>>

RegBytes == <<rptr + RSIZE, mem[rptr + 1], mem[rptr]>>
GRegs == /\ Takes(GREGS, 0)
         /\ Put(Code(<<RSIZE + 1>> \o RegBytes \o <<Sum(RegBytes)>>))
         /\ UNCHANGED <<mem, rptr, at>>

SndRegs ==
  /\ Takes(SNDREGS, RSIZE + 2)
  /\ Frame([sp |-> Arg(2), pc |-> Arg(3), a |-> Arg(4)])
  /\ Put(Code(<<WACK, Sum(Args(2, 4))>>))
  /\ UNCHANGED at

ReadCount == IF Arg(2) = 0 THEN FULL ELSE Arg(2)
Read ==
  /\ Takes(READ, 2)
  /\ LET bytes == [i \in 1..ReadCount |-> mem[Arg(1) + i - 1]]
     IN  Put(As("data", bytes \o <<Sum(bytes)>>))
  /\ UNCHANGED <<mem, rptr, at>>

(* The sum is of what memory holds after the write. *)
WriteCountLess == Arg(2) - 1
WriteCount == Arg(2)
Write ==
  /\ at = "main" /\ Len(toTarget) > 2
  /\ Takes(WRITE, 2 + WriteCount)
  /\ LET bytes == Args(3, 2 + WriteCount)
     IN  /\ mem' = [m \in DOMAIN mem |->
                      IF m - Arg(1) + 1 \in DOMAIN bytes THEN bytes[m - Arg(1) + 1]
                      ELSE mem[m]]
         /\ Put(Code(<<WACK, Sum(bytes)>>))
  /\ UNCHANGED <<rptr, at>>

Step == /\ Takes(STEP, 0) /\ Put(Code(<<GACK>>)) /\ at' = "stepping"
        /\ UNCHANGED <<mem, rptr>>

(* go() lets a byte interrupt before it has popped the registers. *)
UnmaskHalf == enabled' = TRUE /\ imr' = FALSE
Unmask == enabled' = TRUE /\ imr' = TRUE
Go == /\ at = "main" /\ toTarget # <<>> /\ Command = GO
      /\ toTarget' = Tail(toTarget)
      /\ Put(Code(<<GACK>>))
      /\ Unmask /\ at' = "going"
      /\ UNCHANGED <<mem, cpu, rptr, call, oldbdos, host>>

Serve == Hello \/ StopIgnored \/ Ident \/ GRegs \/ SndRegs \/ Read \/ Write \/ Step \/ Go

-----------------------------------------------------------------------------
(* Stops. *)

(* putch() and getch() wait with the interrupts off.  A byte that comes     *)
(* while getch() waits is what it waits for; one that comes while putch()   *)
(* does (it is Held) interrupts when putch() is through.                    *)
Deaf == {OUT2, PROMPTED, UNASKED}
Held == enabled /\ imr /\ toTarget # <<>>
Pending == Held /\ (at \in Gaps \/ (at = "run" /\ cpu.pc \notin Deaf))

(* After setjmp(sys) has returned 1: what the host is told.  A stop at a    *)
(* CALL instruction names where it would go.                                *)
CodeAt(pc) == IF pc \in Cells THEN mem[pc] ELSE 0
StopMessage(pc) == IF CodeAt(pc) = CALL_SUB
                   THEN <<STOPCALL, mem[pc + 1], mem[pc + 2], pc>>
                   ELSE <<STOPPED, pc>>
Report(pc) == /\ enabled' = FALSE /\ imr' = FALSE /\ at' = "main" /\ cpu' = Own
              /\ Put(Code(StopMessage(pc)))

(* The receive interrupt reaches intr(), which pushes whoever's registers   *)
(* these are; it comes back disabled until the monitor prints.              *)
Interrupt == /\ Pending
             /\ Frame(cpu) /\ Report(cpu.pc)
             /\ UNCHANGED <<call, oldbdos, toTarget, host>>

(* rst 0 reaches intr() too, with the interrupts as they were. *)
Rst(pc) == /\ Frame([cpu EXCEPT !.pc = pc]) /\ at' = "saving"
           /\ cpu' = [Own EXCEPT !.sp = cpu.sp - RSIZE]
           /\ UNCHANGED <<enabled, imr, oldbdos>>
ReportRst == /\ at = "saving" /\ ~Pending
             /\ Report(mem[rptr + 1])
             /\ UNCHANGED <<mem, rptr, call, oldbdos, toTarget, host>>

(* Below the stack pointer memory is anybody's. *)
Popped == mem' = [mem EXCEPT ![rptr] = 0, ![rptr + 1] = 0]
Resume == /\ at = "going" /\ ~Pending
          /\ cpu' = Saved /\ at' = "run" /\ Popped
          /\ UNCHANGED <<rptr, enabled, imr, call, oldbdos, toTarget, toHost, host>>

(* An instruction of the program: it changes A or a cell. *)
Instruction(r) ==
  \E c \in Cells, d \in Data, onA \in BOOLEAN :
    /\ mem' = IF onA THEN mem ELSE [mem EXCEPT ![c] = d]
    /\ cpu' = [r EXCEPT !.a = IF onA THEN d ELSE @, !.pc = 1 - @]

(* step() pops the registers with the timer set to stop after one           *)
(* instruction; the interrupts stay as they were, disabled.                 *)
OneInstruction ==
  /\ at = "stepping" /\ Saved.pc \in User
  /\ Instruction(Saved) /\ at' = "trap"
  /\ UNCHANGED <<rptr, enabled, imr, call, oldbdos, toTarget, toHost, host>>
Trap == /\ at = "trap"
        /\ Frame(cpu) /\ Report(cpu.pc)
        /\ UNCHANGED <<call, oldbdos, toTarget, host>>

-----------------------------------------------------------------------------
(* The program, and the console calls it makes of the monitor. *)

Runs(pcs) == at = "run" /\ cpu.pc \in pcs /\ ~Pending /\ UNCHANGED host
Quiet == UNCHANGED <<toTarget, toHost>>

UserStep == /\ Runs(User) /\ Instruction(cpu) /\ Quiet
            /\ UNCHANGED <<rptr, enabled, imr, at, call, oldbdos>>

(* The program stops by itself: a breakpoint, or dummy(). *)
UserStops == /\ Runs(User \cup {DUMMY}) /\ Quiet /\ UNCHANGED call
             /\ Rst(IF cpu.pc = DUMMY THEN AFTER_DUMMY ELSE 1 - cpu.pc)

(* It returns through a stack nobody set up, to do nobody knows what. *)
LeaveDummy == /\ Runs({AFTER_DUMMY}) /\ Quiet /\ cpu' = [cpu EXCEPT !.pc = LOST]
              /\ UNCHANGED <<mem, rptr, enabled, imr, at, call, oldbdos>>

(* bdostrap: no interrupts, then by the function; those the monitor does    *)
(* not have go to the old BDOS with the interrupt enabled.                  *)
BdosCall(pc, on) ==
  /\ Runs(User) /\ Quiet /\ cpu' = [cpu EXCEPT !.pc = pc] /\ enabled' = on
  /\ UNCHANGED <<mem, rptr, imr, at, oldbdos>>
CallTo(size) == call' = [ret |-> 1 - cpu.pc, size |-> size, line |-> <<>>]
ConIn   == BdosCall(PROMPT, FALSE) /\ CallTo(0)
ReadBuf == \E n \in LineSizes : BdosCall(PROMPT, FALSE) /\ CallTo(n)
ConStat == BdosCall(CONSTAT, FALSE) /\ CallTo(0)
OtherCall == /\ BdosCall(IF oldbdos = "bdos" THEN RETURN ELSE OUT1, TRUE) /\ CallTo(0)

(* myconout: two bytes, and nothing can come between. *)
ConOut == /\ Runs(User) /\ Len(toHost) < LineRoom /\ Put(Code(<<OUTPUT, cpu.a>>))
          /\ enabled' = TRUE /\ cpu' = [cpu EXCEPT !.pc = 1 - @]
          /\ UNCHANGED <<mem, rptr, imr, at, call, oldbdos, toTarget>>

Back(a) == /\ call' = NoCall /\ cpu' = [cpu EXCEPT !.a = a, !.pc = call.ret] /\ enabled' = TRUE
           /\ UNCHANGED <<mem, rptr, imr, at, oldbdos>>

(* Status FF is the other value of A. *)
Status == /\ Runs({CONSTAT}) /\ Quiet
          /\ Back(IF toTarget = <<>> THEN 0 ELSE CALL_SUB)
Return == Runs({RETURN}) /\ Quiet /\ Back(cpu.a)

(* putch(), come to from one place: to another, where what was held for it  *)
(* stops the program before it does anything there.                         *)
PutFrom(from, s) == at = "run" /\ cpu.pc = from /\ Put(s) /\ UNCHANGED <<call, oldbdos, toTarget, host>>
Onto(pc) == /\ cpu' = [cpu EXCEPT !.pc = pc] /\ at' = IF Held THEN "trap" ELSE at
            /\ UNCHANGED <<mem, rptr, enabled, imr>>

(* bdosgetch: the prompt; then STOP stops the program right here, and once  *)
(* it goes on the prompt is given again.  A STOP held until the prompt is   *)
(* out stops it after the prompt, which is then not given again.            *)
Prompt == PutFrom(PROMPT, Code(<<INPUT>>)) /\ Onto(IF Held THEN UNASKED ELSE PROMPTED)
Taken == /\ Runs({PROMPTED, UNASKED}) /\ toTarget # <<>> /\ toTarget' = Tail(toTarget)
         /\ UNCHANGED toHost
AfterStopNoPrompt == PROMPTED
AfterStop == PROMPT
StopTaken == Taken /\ Command = STOP /\ Rst(AfterStop) /\ UNCHANGED call
CharTaken == Taken /\ Command # STOP /\ call.size = 0 /\ Back(Command)

(* bdosreadbuf: up to a newline, or as many as the buffer holds; what the   *)
(* program then does with its line is of no interest here.                  *)
LineFull(line) == Len(line) = call.size
LineTaken ==
  /\ Taken /\ Command # STOP /\ call.size > 0
  /\ LET line == IF Command = NEWLINE THEN call.line ELSE Append(call.line, Command)
     IN  IF Command = NEWLINE \/ LineFull(line)
         THEN Back(cpu.a)
         ELSE /\ call' = [call EXCEPT !.line = line]
              /\ cpu' = [cpu EXCEPT !.pc = PROMPT]
              /\ UNCHANGED <<mem, rptr, enabled, imr, at, oldbdos>>

(* bdoserr prints (a message of one character) with the interrupt enabled,  *)
(* by bdosputch()'s two calls of putch(), then stops the program.           *)
ErrOutput == PutFrom(OUT1, Code(<<OUTPUT>>)) /\ Onto(OUT2)
ErrChar == /\ PutFrom(OUT2, As("data", <<0>>))
           /\ IF Held THEN Onto(OUT3) ELSE Rst(RETURN)
ErrStops == Runs({OUT3}) /\ Rst(RETURN) /\ Quiet /\ UNCHANGED call

Program == \/ UserStep \/ UserStops \/ LeaveDummy \/ ConIn \/ ReadBuf \/ ConStat
           \/ OtherCall \/ ConOut \/ Status \/ Return \/ Prompt \/ StopTaken
           \/ CharTaken \/ LineTaken \/ ErrOutput \/ ErrChar \/ ErrStops
Target == Serve \/ Interrupt \/ ReportRst \/ Resume \/ OneInstruction \/ Trap \/ Program

-----------------------------------------------------------------------------
(* The debugger at the other end: one command at a time, waiting for its    *)
(* answer; STOP whenever the program runs, a key when it was prompted.      *)

Requests ==
  [do : {"hello", "ident", "registers", "go", "step"}]
  \cup [do : {"set"}, regs : {r \in Registers : r.pc \in User /\ r.a \in Data /\ r.sp \in Stacks}]
  \cup {r \in [do : {"read"}, from : Cells, to : Cells] : r.from <= r.to}
  \cup {r \in [do : {"write"}, from : Cells, data : UNION {[1..n -> Data] : n \in 0..2}] :
          r.from + Len(r.data) <= 2}

Encoded(r) ==
  CASE r.do = "hello" -> <<HELLO>>   [] r.do = "ident" -> <<IDENT>>
    [] r.do = "registers" -> <<GREGS>>
    [] r.do = "go" -> <<GO>>         [] r.do = "step" -> <<STEP>>
    [] r.do = "set" -> <<SNDREGS, RSIZE, r.regs.sp, r.regs.pc, r.regs.a>>
    [] r.do = "read" -> <<READ, r.from, (r.to - r.from + 1) % FULL>>
    [] r.do = "write" -> <<WRITE, r.from, Len(r.data)>> \o r.data

(* What the answer means, if that is what came; its sums must be right.     *)
AnswerLen(r) == CASE r.do \in {"hello", "go", "step"} -> 1 [] r.do = "ident" -> 3
                  [] r.do = "registers" -> RSIZE + 3
                  [] r.do \in {"set", "write"} -> 2
                  [] r.do = "read" -> r.to - r.from + 2
                  [] OTHER -> 0
Garbled == [says |-> "garbled"]
Done == [says |-> "done"]
Decoded(r, s) ==
  LET sent == Tail(Encoded(r))
  IN CASE r.do = "registers" ->
            IF s[1] = RSIZE + 1 /\ s[RSIZE + 3] = Sum(SubSeq(s, 2, RSIZE + 2))
            THEN [says |-> "registers", regs |-> [sp |-> s[2], pc |-> s[3], a |-> s[4]]]
            ELSE Garbled
       [] r.do = "read" -> IF Last(s) = Sum(Front(s)) 
            THEN [says |-> "data", data |-> Front(s)] ELSE Garbled
       [] r.do \in {"set", "write"} ->
            IF s = <<WACK, Sum(IF r.do = "set" THEN Tail(sent) ELSE r.data)>> THEN Done ELSE Garbled
       [] OTHER -> IF s[1] = (CASE r.do = "hello" -> ACK [] r.do = "ident" -> IDACK [] OTHER -> GACK)
                   THEN Done ELSE Garbled

Ask(r) ==
  /\ ~host.runs /\ host.req = Nothing
  /\ r.do = "step" => Saved.pc \in User
  /\ host' = [host EXCEPT !.req = r]
  /\ toTarget' = toTarget \o As("command", <<Head(Encoded(r))>>) \o As("arg", Tail(Encoded(r)))
  /\ UNCHANGED <<target, toHost>>

Heard(n) == /\ Len(toHost) >= n /\ toHost' = SubSeq(toHost, n + 1, Len(toHost))
            /\ UNCHANGED <<target, toTarget>>
HearAnswer == /\ host.req # Nothing /\ Heard(AnswerLen(host.req))
              /\ host' = [host EXCEPT !.req = Nothing, !.runs = host.req.do \in {"go", "step"}]

SayStop == /\ host.runs /\ ~host.stop
           /\ host' = [host EXCEPT !.stop = TRUE, !.asked = FALSE]
           /\ toTarget' = Append(toTarget, [v |-> STOP, as |-> "stop"])
           /\ UNCHANGED <<target, toHost>>
Type == /\ host.asked /\ host' = [host EXCEPT !.asked = FALSE]
        /\ \E k \in Keys : toTarget' = Append(toTarget, [v |-> k, as |-> "key"])
        /\ UNCHANGED <<target, toHost>>

(* Messages of a running program, by their first byte. *)
MessageLen(c) == CASE c = INPUT -> 1 [] c = STOPCALL -> 4 [] OTHER -> 2
HearMessage ==
  /\ host.runs /\ toHost # <<>> /\ Heard(MessageLen(Head(toHost).v))
  /\ LET c == Head(toHost).v
     IN  host' = CASE c = INPUT -> [host EXCEPT !.asked = ~host.stop]
                   [] c \in {STOPPED, STOPCALL} ->
                        [host EXCEPT !.runs = FALSE, !.stop = FALSE, !.asked = FALSE]
                   [] OTHER -> host

Host == HearAnswer \/ HearMessage \/ SayStop \/ Type \/ \E r \in Requests : Ask(r)
Next == Target \/ Host
Spec == Init /\ [][Next]_vars

(* The monitor runs whenever it can, the debugger listens.  The program may *)
(* do as it likes, but it does something.                                   *)
FairSpec == Spec /\ WF_vars(Target) /\ WF_vars(HearAnswer \/ HearMessage)

-----------------------------------------------------------------------------
(* bdoserr() was stopped between OUTPUT and its character: the debugger     *)
(* takes STOPPED for the character, and does not hear that it stopped.      *)
Torn == at = "main" /\ host.runs /\ Saved.pc = OUT2

(* Each end reads a byte as what the other end meant: the monitor takes no  *)
(* key or data for a command and no command for a key, the debugger takes   *)
(* no output of the program for a message nor a message for output,        *)
(* whatever crosses on the line, unless bdoserr() was stopped between two   *)
(* bytes (TARGET.C getch() in main() and bdosgetch(), putch() everywhere).  *)
Agreement ==
  /\ at = "main" /\ toTarget # <<>> => Head(toTarget).as \in {"command", "stop"}
  /\ at = "run" /\ cpu.pc \in {PROMPTED, UNASKED} /\ toTarget # <<>>
       => Head(toTarget).as \in {"key", "stop"}
  /\ host.runs /\ toHost # <<>> /\ ~Torn =>
       /\ Head(toHost).as = "code"
       /\ \A i \in DOMAIN toHost : i \in 2..MessageLen(Head(toHost).v) => toHost[i].as = "data"

(* When the program waits for a key, the debugger knows, or is about to: a  *)
(* prompt that STOP followed is given again (bdosgetch()).  One that STOP   *)
(* came in the middle of is not: then the debugger does not know.           *)
PromptOutstanding ==
  at = "run" /\ cpu.pc \in {PROMPTED, UNASKED} /\ toTarget = <<>>
    => \/ host.asked \/ \E i \in DOMAIN toHost : toHost[i].v = INPUT /\ toHost[i].as = "code"
       \/ cpu.pc = UNASKED

(* Every command is answered, and STOP always stops a program that runs, in *)
(* its own code or in the monitor's console calls (go(), intr()): the       *)
(* debugger hears that it has, unless bdoserr() was stopped between two     *)
(* bytes.                                                                   *)
Responds == /\ (host.req # Nothing) ~> (host.req = Nothing)
            /\ host.stop ~> ~host.runs \/ Torn

(* The monitor is a debugger: it carries commands out once and truly, and   *)
(* nothing else touches the registers and memory of a program that stands   *)
(* still; the program resumes from, and stops at, exactly those registers.  *)
D == INSTANCE Debugger WITH
       running <- at # "main",
       regs <- IF at \in {"run", "trap"} THEN cpu ELSE Saved,
       cells <- [c \in Cells |-> mem[c]],
       req <- host.req,
       answer <- IF host.req = Nothing \/ Len(toHost) < AnswerLen(host.req) THEN [says |-> "nothing"]
                 ELSE Decoded(host.req, Values(SubSeq(toHost, 1, AnswerLen(host.req))))
ImplementsDebugger == D!Spec
=============================================================================
