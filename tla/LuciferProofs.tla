---------------------------- MODULE LuciferProofs ----------------------------
(***************************************************************************)
(* The line between the monitor and the debugger, for any program, keys,   *)
(* lines, stacks and data: each end takes every byte for what the other    *)
(* meant by it, and the debugger knows, or is about to, that a key is      *)
(* waited for.  And the monitor is the debugger of Debugger.tla.           *)
(***************************************************************************)
EXTENDS Lucifer, TLAPS

(***************************************************************************)
(* The inductive invariant.  What a byte means depends on what both ends   *)
(* are doing, so it says which phases there are: nothing is asked          *)
(* (Waiting), something is and has not been answered (Asking) or has been  *)
(* (Answered), or the program was let go and not heard to have stopped     *)
(* (Loose), or it was stopped in the middle of bdoserr()'s message and     *)
(* will not be heard to have (Cut).  In phase Loose both ends send as they *)
(* please.                                                                 *)
(***************************************************************************)
Value == Int \cup {Sum(s) : s \in Seq(Int)}
Sent  == [v : Int, as : {"command", "arg", "stop", "key"}]
Told  == [v : Value, as : {"code", "data"}]

Types ==
  /\ mem \in [0..(MTOP - 1) -> Int] /\ rptr \in {TOP - 2 * RSIZE, TOP - RSIZE}
  /\ cpu \in [a : Int, pc : Int, sp : Int]
  /\ at \in {"main", "going", "stepping", "trap", "run", "saving"}
  /\ call \in [ret : User, size : Nat, line : Seq(Int)]
  /\ toTarget \in Seq(Sent) /\ toHost \in Seq(Told)
  /\ host \in [req : Requests \cup {Nothing}, runs : BOOLEAN, stop : BOOLEAN, asked : BOOLEAN]

IsStop(b) == b.as = "stop" /\ b.v = STOP
IsKey(b)  == b.as = "key" /\ b.v # STOP
HasStop == toTarget # <<>> /\ IsStop(toTarget[Len(toTarget)])
HasKey  == toTarget # <<>> /\ IsKey(toTarget[1])

(* The program never stops where the monitor has half finished with it,    *)
(* but for the one place that ends in phase Cut.                           *)
Between == {PROMPTED, OUT2}
Stopped ==
  /\ at \in {"main", "going", "stepping", "saving"} => Torn \/ mem[rptr + 1] \notin Between
  /\ at \in {"run", "trap"} => cpu.sp \in {TOP - RSIZE, TOP}
  /\ at = "trap" => cpu.pc \in User \cup {OUT2, OUT3, UNASKED}

(* The text s is of messages, the last of which is half told or not. *)
Codes == {OUTPUT, INPUT, STOPPED, STOPCALL}
Heads(s) == {i \in DOMAIN s : s[i].as = "code"}
Whole(s, i) == i + MessageLen(s[i].v) <= Len(s) + 1
Messages(s, half) ==
  /\ s # <<>> => 1 \in Heads(s)
  /\ half => Len(s) \in Heads(s) /\ s[Len(s)].v = OUTPUT
  /\ \A i \in Heads(s) :
       /\ s[i].v \in Codes
       /\ Whole(s, i) \/ (half /\ i = Len(s))
       /\ \A j \in DOMAIN s : j > i => /\ j < i + MessageLen(s[i].v) => j \notin Heads(s)
                                       /\ j = i + MessageLen(s[i].v) => j \in Heads(s)

Reports(s) == {i \in Heads(s) : s[i].v \in {STOPPED, STOPCALL}}
Inputs(s)  == {i \in Heads(s) : s[i].v = INPUT}

(* What has been told and not been heard, but for the answer to the GO or  *)
(* STEP that let the program go.                                           *)
Talk == IF host.runs THEN toHost ELSE Tail(toHost)
Half == at \in {"run", "trap"} /\ cpu.pc = OUT2
Prompted == at = "run" /\ cpu.pc = PROMPTED

Still == ~host.runs /\ ~host.stop /\ ~host.asked
OnlyStop == toTarget = <<>> \/ (Len(toTarget) = 1 /\ HasStop)

Request(r) == As("command", <<Head(Encoded(r))>>) \o As("arg", Tail(Encoded(r)))

Waiting == Still /\ at = "main" /\ host.req = Nothing /\ toHost = <<>> /\ OnlyStop
Asking  == /\ Still /\ at = "main" /\ host.req # Nothing /\ toHost = <<>>
           /\ \/ toTarget = Request(host.req)
              \/ toTarget # <<>> /\ IsStop(Head(toTarget)) /\ Tail(toTarget) = Request(host.req)
Answered == /\ Still /\ at = "main" /\ host.req # Nothing /\ toTarget = <<>>
            /\ host.req.do \notin {"go", "step"} /\ Len(toHost) = AnswerLen(host.req)
Loose ==
  /\ host.runs => host.req = Nothing
  /\ ~host.runs => /\ Still /\ toTarget = <<>> /\ toHost # <<>>
                   /\ host.req # Nothing /\ host.req.do \in {"go", "step"}
  /\ \/ OnlyStop
     \/ HasKey /\ (Len(toTarget) = 1 \/ (Len(toTarget) = 2 /\ HasStop))
  /\ Messages(Talk, Half)
  /\ at = "main" <=> Reports(Talk) # {}
  /\ \A i \in Reports(Talk) : i + MessageLen(Talk[i].v) = Len(Talk) + 1
  /\ \A i, j \in Inputs(Talk) : i = j
  /\ Inputs(Talk) # {} => Prompted \/ (host.stop /\ at \in {"saving", "main", "trap"})
  /\ Inputs(Talk) # {} => ~HasKey
  /\ host.asked => Prompted /\ Inputs(Talk) = {} /\ toTarget = <<>> /\ ~host.stop
  /\ HasKey => Prompted
  /\ Prompted => host.asked \/ Inputs(Talk) # {} \/ toTarget # <<>>
  /\ host.stop => HasStop \/ at \in {"saving", "main"}
  /\ HasStop => host.stop
  /\ at = "trap" => cpu.pc \in User \/ HasStop
  /\ ~Torn

(* What is still on the line once bdoserr() was stopped between two bytes: *)
(* messages, OUTPUT, and the report; or its last byte alone.               *)
Before(s) == SubSeq(s, 1, Len(s) - 2)
Rest(s) == /\ s # <<>> /\ s[Len(s)].v = OUT2
           /\ Len(s) = 1 \/ (Len(s) > 2 /\ Messages(Before(s), TRUE) /\ Reports(Before(s)) = {})
Cut == Torn /\ host.stop /\ ~host.asked /\ host.req = Nothing /\ OnlyStop /\ Rest(toHost)

IInv == Types /\ Stopped /\ (Waiting \/ Asking \/ Answered \/ Loose \/ Cut)
-----------------------------------------------------------------------------
(* Texts of bytes.                                                         *)

LEMMA Stacking ==
  /\ \A s \in Stacks : s \in {TOP - RSIZE, TOP}
  /\ TOP = 6 /\ MTOP = 8 /\ RSIZE = 2 /\ User = {0, 1} /\ Cells = {0, 1} /\ FULL = 2
  /\ \A d \in Data \cup Keys : d \in Int
  /\ STOP \notin Keys
<1>1. TOP = 6 /\ MTOP = 8 /\ RSIZE = 2 /\ User = {0, 1} /\ Cells = {0, 1} /\ FULL = 2 /\ BYTE = 21
  BY DEF TOP, MTOP, RSIZE, User, Cells, FULL, BYTE
<1>2. \A s \in Stacks : s \in {TOP - RSIZE, TOP}
  BY LuciferAssumption
<1>3. ASSUME NEW d \in Data \cup Keys PROVE d \in Int
  <2>1. d \in 0..(BYTE - 1)
    BY LuciferAssumption
  <2> QED
    BY <1>1, <2>1
<1>4. STOP \notin Keys
  BY LuciferAssumption
<1> QED
  BY <1>1, <1>2, <1>3, <1>4

LEMMA PcsApart ==
  /\ PROMPTED # OUT2 /\ PROMPTED \notin User /\ OUT2 \notin User
  /\ {DUMMY, AFTER_DUMMY, PROMPT, OUT1, CONSTAT, RETURN, MONITOR, LOST, OUT3, UNASKED} \cap {PROMPTED, OUT2} = {}
  /\ UNASKED \notin User /\ OUT3 \notin User
  /\ Pcs \subseteq Int /\ User \subseteq Int
  /\ {PROMPTED, OUT2, DUMMY, AFTER_DUMMY, PROMPT, OUT1, CONSTAT, RETURN, MONITOR, LOST, OUT3, UNASKED} \subseteq Int
  /\ \A pc \in User : 1 - pc \in User
  BY DEF PROMPTED, OUT2, User, DUMMY, AFTER_DUMMY, PROMPT, OUT1, CONSTAT, RETURN, MONITOR, LOST, Pcs, OUT3, UNASKED

LEMMA CodesApart ==
  /\ {OUTPUT, INPUT, STOPPED, STOPCALL, GACK} \subseteq Int
  /\ OUTPUT # INPUT /\ OUTPUT \notin {STOPPED, STOPCALL} /\ INPUT \notin {STOPPED, STOPCALL}
  /\ MessageLen(INPUT) = 1 /\ MessageLen(STOPCALL) = 4 /\ MessageLen(STOPPED) = 2 /\ MessageLen(OUTPUT) = 2
  BY DEF OUTPUT, INPUT, STOPPED, STOPCALL, GACK, MessageLen

LEMMA SameText ==
  ASSUME NEW S, NEW u \in Seq(S), NEW v \in Seq(S), Len(u) = Len(v), \A i \in 1..Len(u) : u[i] = v[i]
  PROVE  u = v
<1>1. PICK n \in Nat : n = Len(u) /\ n = Len(v)
  OBVIOUS
<1>2. u = [i \in 1..n |-> u[i]] /\ v = [i \in 1..n |-> v[i]]
  BY <1>1
<1>3. [i \in 1..n |-> u[i]] = [i \in 1..n |-> v[i]]
  BY <1>1
<1> QED
  BY <1>2, <1>3

LEMMA Joined ==
  ASSUME NEW S, NEW u \in Seq(S), NEW v \in Seq(S)
  PROVE  /\ u \o v \in Seq(S) /\ Len(u \o v) = Len(u) + Len(v)
         /\ \A i \in 1..(Len(u) + Len(v)) : (u \o v)[i] = IF i <= Len(u) THEN u[i] ELSE v[i - Len(u)]
  OBVIOUS

LEMMA Dropped ==
  ASSUME NEW S, NEW u \in Seq(S), NEW n \in 0..Len(u)
  PROVE  /\ SubSeq(u, n + 1, Len(u)) \in Seq(S) /\ Len(SubSeq(u, n + 1, Len(u))) = Len(u) - n
         /\ \A i \in 1..(Len(u) - n) : SubSeq(u, n + 1, Len(u))[i] = u[n + i]
<1>1. PICK k \in Nat, m \in Nat : k = Len(u) /\ m = k - n /\ n \in Nat
  OBVIOUS
<1>2. SubSeq(u, n + 1, k) = [i \in 1..m |-> u[i + (n + 1) - 1]]
  BY <1>1
<1>3. \A i \in 1..m : i + (n + 1) - 1 = n + i /\ n + i \in 1..k
  BY <1>1
<1>4. [i \in 1..m |-> u[i + (n + 1) - 1]] = [i \in 1..m |-> u[n + i]]
  BY <1>3
<1>5. \A i \in 1..m : u[n + i] \in S
  BY <1>1, <1>3
<1>6. [i \in 1..m |-> u[n + i]] \in Seq(S) /\ Len([i \in 1..m |-> u[n + i]]) = m
  BY <1>1, <1>5
<1> QED
  BY <1>1, <1>2, <1>4, <1>6

LEMMA RestJoined ==
  ASSUME NEW S, NEW u \in Seq(S), NEW v \in Seq(S), u # <<>>
  PROVE  Tail(u \o v) = Tail(u) \o v
<1>1. /\ u \o v \in Seq(S) /\ Len(u \o v) = Len(u) + Len(v) /\ u \o v # <<>>
      /\ \A i \in 1..(Len(u) + Len(v)) : (u \o v)[i] = IF i <= Len(u) THEN u[i] ELSE v[i - Len(u)]
  BY Joined
<1>2. Tail(u) \in Seq(S) /\ Len(Tail(u)) = Len(u) - 1 /\ \A i \in 1..(Len(u) - 1) : Tail(u)[i] = u[i + 1]
  OBVIOUS
<1>3. PICK w \in Seq(S) : w = u \o v /\ w # <<>>
  BY <1>1
<1>4. Tail(w) \in Seq(S) /\ Len(Tail(w)) = Len(w) - 1 /\ \A i \in 1..(Len(w) - 1) : Tail(w)[i] = w[i + 1]
  BY <1>3
<1>5. PICK t \in Seq(S) : t = Tail(u)
  BY <1>2
<1>6. /\ t \o v \in Seq(S) /\ Len(t \o v) = Len(t) + Len(v)
      /\ \A i \in 1..(Len(t) + Len(v)) : (t \o v)[i] = IF i <= Len(t) THEN t[i] ELSE v[i - Len(t)]
  BY Joined
<1>7. PICK x \in Seq(S), y \in Seq(S) : x = Tail(w) /\ y = t \o v
  BY <1>4, <1>6
<1>8. Len(x) = Len(y) /\ Len(x) = Len(u) + Len(v) - 1
  BY <1>1, <1>2, <1>3, <1>4, <1>5, <1>6, <1>7
<1>9. ASSUME NEW i \in 1..Len(x) PROVE x[i] = y[i]
  <2>1. i \in Nat /\ i + 1 \in 1..(Len(u) + Len(v)) /\ Len(u) \in Nat /\ Len(v) \in Nat
    BY <1>8
  <2>2. x[i] = IF i + 1 <= Len(u) THEN u[i + 1] ELSE v[i + 1 - Len(u)]
    BY <1>1, <1>3, <1>4, <1>7, <1>8, <2>1
  <2>3. y[i] = IF i <= Len(u) - 1 THEN u[i + 1] ELSE v[i - (Len(u) - 1)]
    BY <1>2, <1>5, <1>6, <1>7, <1>8, <2>1
  <2>4. (i + 1 <= Len(u) <=> i <= Len(u) - 1) /\ i + 1 - Len(u) = i - (Len(u) - 1)
    BY <2>1
  <2> QED
    BY <2>2, <2>3, <2>4
<1>10. x = y
  BY <1>8, <1>9, SameText
<1> QED
  BY <1>3, <1>5, <1>7, <1>10

(* What is sent with a code in front.                                      *)
LEMMA Coded ==
  ASSUME NEW s \in Seq(Value), s # <<>>
  PROVE  /\ Code(s) \in Seq(Told) /\ Len(Code(s)) = Len(s) /\ Code(s)[1] = [v |-> s[1], as |-> "code"]
         /\ \A i \in 2..Len(s) : Code(s)[i].as = "data"
<1> DEFINE h == As("code", <<Head(s)>>)
           t == As("data", Tail(s))
<1>1. Head(s) = s[1] /\ s[1] \in Value /\ Tail(s) \in Seq(Value) /\ Len(Tail(s)) = Len(s) - 1 /\ Len(s) >= 1
  OBVIOUS
<1>2. h = [i \in 1..1 |-> [v |-> s[1], as |-> "code"]]
  BY <1>1 DEF As
<1>3. h \in Seq(Told) /\ Len(h) = 1 /\ h[1] = [v |-> s[1], as |-> "code"]
  <2>1. [v |-> s[1], as |-> "code"] \in Told
    BY <1>1 DEF Told
  <2> HIDE DEF h
  <2> QED
    BY <1>2, <2>1
<1>4. t \in Seq(Told) /\ Len(t) = Len(s) - 1 /\ \A i \in 1..(Len(s) - 1) : t[i].as = "data"
  <2>1. PICK r \in Seq(Value), n \in Nat : r = Tail(s) /\ n = Len(s) - 1 /\ Len(r) = n
    <3> HIDE DEF h, t
    <3>1. PICK r \in Seq(Value) : r = Tail(s)
      BY <1>1
    <3>2. Len(s) - 1 \in Nat
      BY <1>1
    <3> QED
      BY <1>1, <3>1, <3>2
  <2>2. t = [i \in 1..n |-> [v |-> r[i], as |-> "data"]]
    BY <2>1 DEF As
  <2>3. \A i \in 1..n : [v |-> r[i], as |-> "data"] \in Told
    BY <2>1 DEF Told
  <2> HIDE DEF t
  <2>4. t \in Seq(Told) /\ Len(t) = n /\ \A i \in 1..n : t[i].as = "data"
    BY <2>2, <2>3
  <2> QED
    BY <2>1, <2>4
<1> HIDE DEF h, t
<1>5. /\ h \o t \in Seq(Told) /\ Len(h \o t) = Len(h) + Len(t)
      /\ \A i \in 1..(Len(h) + Len(t)) : (h \o t)[i] = IF i <= Len(h) THEN h[i] ELSE t[i - Len(h)]
  BY <1>3, <1>4, Joined
<1>6. Code(s) = h \o t
  BY DEF Code, h, t
<1>7. (h \o t)[1] = h[1]
  BY <1>1, <1>3, <1>4, <1>5
<1>8. ASSUME NEW i \in 2..Len(s) PROVE (h \o t)[i].as = "data"
  <2>1. i - 1 \in 1..(Len(s) - 1) /\ ~(i <= 1) /\ i \in 1..(1 + (Len(s) - 1))
    BY <1>1
  <2>2. (h \o t)[i] = t[i - 1]
    BY <1>3, <1>4, <1>5, <2>1
  <2> QED
    BY <1>4, <2>1, <2>2
<1>9. 1 + (Len(s) - 1) = Len(s)
  BY <1>1
<1> QED
  BY <1>3, <1>4, <1>5, <1>6, <1>7, <1>8, <1>9

LEMMA AsData ==
  ASSUME NEW s \in Seq(Value)
  PROVE  As("data", s) \in Seq(Told) /\ Len(As("data", s)) = Len(s) /\ \A i \in 1..Len(s) : As("data", s)[i].as = "data"
<1>1. PICK n \in Nat : n = Len(s)
  OBVIOUS
<1>2. As("data", s) = [i \in 1..n |-> [v |-> s[i], as |-> "data"]]
  BY <1>1 DEF As
<1>3. \A i \in 1..n : [v |-> s[i], as |-> "data"] \in Told
  BY <1>1 DEF Told
<1> QED
  BY <1>1, <1>2, <1>3
-----------------------------------------------------------------------------
(* Messages.  A whole one follows the others, the first half of an output  *)
(* does, its second half follows it, and the first one goes.               *)

LEMMA Lengths == \A c \in Codes : MessageLen(c) \in Nat \ {0} /\ MessageLen(OUTPUT) = 2
  BY CodesApart DEF Codes

LEMMA NoMessages ==
  ASSUME NEW s, s = <<>>
  PROVE  Messages(s, FALSE) /\ Heads(s) = {} /\ Inputs(s) = {} /\ Reports(s) = {}
  BY DEF Messages, Heads, Inputs, Reports

LEMMA MessageAdded ==
  ASSUME NEW s \in Seq(Told), NEW m \in Seq(Told), Messages(s, FALSE), m # <<>>,
         m[1].as = "code", m[1].v \in Codes, MessageLen(m[1].v) = Len(m), \A i \in 2..Len(m) : m[i].as = "data"
  PROVE  /\ Messages(s \o m, FALSE)
         /\ Heads(s \o m) = Heads(s) \cup {Len(s) + 1}
         /\ Inputs(s \o m) = Inputs(s) \cup (IF m[1].v = INPUT THEN {Len(s) + 1} ELSE {})
         /\ Reports(s \o m) = Reports(s) \cup (IF m[1].v \in {STOPPED, STOPCALL} THEN {Len(s) + 1} ELSE {})
         /\ (s \o m)[Len(s) + 1] = m[1] /\ Len(s \o m) = Len(s) + Len(m)
         /\ Heads(s) \subseteq 1..Len(s)
<1>1. PICK t \in Seq(Told), k \in Nat, n \in Nat \ {0} : t = s \o m /\ k = Len(s) /\ n = Len(m) /\ Len(t) = k + n
  <2>1. Len(m) \in Nat \ {0} /\ Len(s) \in Nat
    OBVIOUS
  <2>2. s \o m \in Seq(Told) /\ Len(s \o m) = Len(s) + Len(m)
    BY Joined
  <2> QED
    BY <2>1, <2>2
<1>2. /\ \A i \in 1..k : t[i] = s[i]
      /\ t[k + 1] = m[1]
      /\ \A i \in (k + 2)..(k + n) : t[i].as = "data"
  <2>1. \A i \in 1..(k + n) : t[i] = IF i <= k THEN s[i] ELSE m[i - k]
    BY <1>1, Joined
  <2>2. ASSUME NEW i \in (k + 2)..(k + n) PROVE t[i].as = "data"
    <3>1. i \in 1..(k + n) /\ ~(i <= k) /\ i - k \in 2..n
      BY <1>1
    <3> QED
      BY <1>1, <2>1, <3>1
  <2> QED
    BY <1>1, <2>1, <2>2
<1>3. Heads(s) \subseteq 1..k /\ DOMAIN s = 1..k /\ DOMAIN t = 1..(k + n)
  BY <1>1 DEF Heads
<1>4. Heads(t) = Heads(s) \cup {k + 1}
  <2>1. ASSUME NEW i \in 1..(k + n) PROVE t[i].as = "code" <=> i \in Heads(s) \/ i = k + 1
    <3>1. CASE i \in 1..k
      BY <1>1, <1>2, <1>3, <3>1 DEF Heads
    <3>2. CASE i = k + 1
      BY <1>2, <3>2
    <3>3. CASE i \in (k + 2)..(k + n)
      <4>1. i \notin 1..k /\ i # k + 1
        BY <1>1, <3>3
      <4> QED
        BY <1>2, <1>3, <3>3, <4>1
    <3> QED
      BY <1>1, <3>1, <3>2, <3>3
  <2>2. k + 1 \in 1..(k + n) /\ 1..k \subseteq 1..(k + n)
    BY <1>1
  <2> QED
    BY <1>1, <1>3, <2>1, <2>2 DEF Heads
<1>5. \A i \in Heads(s) : i \in 1..k /\ s[i].v \in Codes /\ i + MessageLen(s[i].v) <= k + 1
  BY <1>1, <1>3 DEF Messages, Whole
<1>6. ASSUME NEW i \in Heads(t)
      PROVE  /\ t[i].v \in Codes
             /\ Whole(t, i) \/ (FALSE /\ i = Len(t))
             /\ \A j \in DOMAIN t : j > i => /\ j < i + MessageLen(t[i].v) => j \notin Heads(t)
                                             /\ j = i + MessageLen(t[i].v) => j \in Heads(t)
  <2>1. CASE i \in Heads(s)
    <3>1. PICK l \in Nat \ {0} : l = MessageLen(s[i].v) /\ t[i] = s[i] /\ i \in 1..k /\ i + l <= k + 1
      BY <1>2, <1>5, <2>1, Lengths
    <3>2. \A j \in 1..k : j > i => (j < i + l => j \notin Heads(s)) /\ (j = i + l => j \in Heads(s))
      BY <1>3, <2>1, <3>1 DEF Messages
    <3>3. ASSUME NEW j \in 1..(k + n), j > i
          PROVE  (j < i + l => j \notin Heads(t)) /\ (j = i + l => j \in Heads(t))
      <4>1. CASE j \in 1..k
        <5>1. j # k + 1
          BY <1>1, <4>1
        <5> QED
          BY <1>4, <3>2, <3>3, <4>1, <5>1
      <4>2. CASE j = k + 1
        BY <1>1, <1>4, <3>1, <4>2
      <4>3. CASE j > k + 1
        BY <1>1, <3>1, <4>3
      <4> QED
        BY <1>1, <4>1, <4>2, <4>3
    <3>4. Whole(t, i)
      BY <1>1, <3>1 DEF Whole
    <3> QED
      BY <1>3, <1>5, <2>1, <3>1, <3>3, <3>4
  <2>2. CASE i = k + 1
    <3>1. t[i] = m[1] /\ MessageLen(t[i].v) = n /\ Whole(t, i)
      BY <1>1, <1>2, <2>2 DEF Whole
    <3>2. ASSUME NEW j \in 1..(k + n), j > i
          PROVE  j \notin Heads(t) /\ j # i + n
      BY <1>1, <1>3, <1>4, <2>2, <3>2
    <3> QED
      BY <1>3, <3>1, <3>2
  <2> QED
    BY <1>4, <2>1, <2>2
<1>7. t # <<>> /\ 1 \in Heads(t)
  <2>1. CASE k = 0
    BY <1>1, <1>4, <2>1
  <2>2. CASE k # 0
    <3>1. s # <<>>
      BY <1>1, <2>2
    <3> QED
      BY <1>1, <1>4, <3>1 DEF Messages
  <2> QED
    BY <2>1, <2>2
<1>8. Messages(t, FALSE)
  BY <1>6, <1>7 DEF Messages
<1>9. \A i \in Heads(s) : t[i] = s[i]
  BY <1>2, <1>3
<1>10. Inputs(t) = Inputs(s) \cup (IF m[1].v = INPUT THEN {k + 1} ELSE {})
  BY <1>2, <1>4, <1>9 DEF Inputs
<1>11. Reports(t) = Reports(s) \cup (IF m[1].v \in {STOPPED, STOPCALL} THEN {k + 1} ELSE {})
  BY <1>2, <1>4, <1>9 DEF Reports
<1> QED
  BY <1>1, <1>2, <1>3, <1>4, <1>8, <1>10, <1>11

LEMMA HalfAdded ==
  ASSUME NEW s \in Seq(Told), NEW m \in Seq(Told), Messages(s, FALSE),
         Len(m) = 1, m[1].as = "code", m[1].v = OUTPUT
  PROVE  Messages(s \o m, TRUE) /\ Inputs(s \o m) = Inputs(s) /\ Reports(s \o m) = Reports(s)
<1>1. PICK t \in Seq(Told), k \in Nat : t = s \o m /\ k = Len(s) /\ Len(t) = k + 1
  <2>1. s \o m \in Seq(Told) /\ Len(s \o m) = Len(s) + Len(m) /\ Len(s) \in Nat
    BY Joined
  <2> QED
    BY <2>1
<1>2. (\A i \in 1..k : t[i] = s[i]) /\ t[k + 1] = m[1]
  <2>1. \A i \in 1..(k + 1) : t[i] = IF i <= k THEN s[i] ELSE m[i - k]
    BY <1>1, Joined
  <2> QED
    BY <1>1, <2>1
<1>3. Heads(s) \subseteq 1..k /\ DOMAIN s = 1..k /\ DOMAIN t = 1..(k + 1)
  BY <1>1 DEF Heads
<1>4. Heads(t) = Heads(s) \cup {k + 1}
  <2>1. ASSUME NEW i \in 1..(k + 1) PROVE t[i].as = "code" <=> i \in Heads(s) \/ i = k + 1
    <3>1. CASE i \in 1..k
      BY <1>1, <1>2, <1>3, <3>1 DEF Heads
    <3>2. CASE i = k + 1
      BY <1>2, <3>2
    <3> QED
      BY <1>1, <3>1, <3>2
  <2>2. k + 1 \in 1..(k + 1) /\ 1..k \subseteq 1..(k + 1)
    BY <1>1
  <2> QED
    BY <1>1, <1>3, <2>1, <2>2 DEF Heads
<1>5. \A i \in Heads(s) : i \in 1..k /\ s[i].v \in Codes /\ i + MessageLen(s[i].v) <= k + 1
  BY <1>1, <1>3 DEF Messages, Whole
<1>6. ASSUME NEW i \in Heads(t)
      PROVE  /\ t[i].v \in Codes
             /\ Whole(t, i) \/ i = Len(t)
             /\ \A j \in DOMAIN t : j > i => /\ j < i + MessageLen(t[i].v) => j \notin Heads(t)
                                             /\ j = i + MessageLen(t[i].v) => j \in Heads(t)
  <2>1. CASE i \in Heads(s)
    <3>1. PICK l \in Nat \ {0} : l = MessageLen(s[i].v) /\ t[i] = s[i] /\ i \in 1..k /\ i + l <= k + 1
      BY <1>2, <1>5, <2>1, Lengths
    <3>2. \A j \in 1..k : j > i => (j < i + l => j \notin Heads(s)) /\ (j = i + l => j \in Heads(s))
      BY <1>3, <2>1, <3>1 DEF Messages
    <3>3. ASSUME NEW j \in 1..(k + 1), j > i
          PROVE  (j < i + l => j \notin Heads(t)) /\ (j = i + l => j \in Heads(t))
      <4>1. CASE j \in 1..k
        <5>1. j # k + 1
          BY <1>1, <4>1
        <5> QED
          BY <1>4, <3>2, <3>3, <4>1, <5>1
      <4>2. CASE j = k + 1
        BY <1>1, <1>4, <3>1, <4>2
      <4> QED
        BY <1>1, <4>1, <4>2
    <3>4. Whole(t, i)
      BY <1>1, <3>1 DEF Whole
    <3> QED
      BY <1>3, <1>5, <2>1, <3>1, <3>3, <3>4
  <2>2. CASE i = k + 1
    <3>1. t[i].v \in Codes /\ i = Len(t)
      BY <1>1, <1>2, <2>2 DEF Codes
    <3>2. \A j \in 1..(k + 1) : ~(j > i)
      BY <1>1, <2>2
    <3> QED
      BY <1>3, <3>1, <3>2
  <2> QED
    BY <1>4, <2>1, <2>2
<1>7. t # <<>> /\ 1 \in Heads(t)
  <2>1. CASE k = 0
    BY <1>1, <1>4, <2>1
  <2>2. CASE k # 0
    <3>1. s # <<>>
      BY <1>1, <2>2
    <3> QED
      BY <1>1, <1>4, <3>1 DEF Messages
  <2> QED
    BY <2>1, <2>2
<1>8. Len(t) \in Heads(t) /\ t[Len(t)].v = OUTPUT
  BY <1>1, <1>2, <1>4
<1>9. Messages(t, TRUE)
  BY <1>6, <1>7, <1>8 DEF Messages
<1>10. \A i \in Heads(s) : t[i] = s[i]
  BY <1>2, <1>3
<1>11. OUTPUT # INPUT /\ OUTPUT \notin {STOPPED, STOPCALL}
  BY CodesApart
<1>12. Inputs(t) = Inputs(s) /\ Reports(t) = Reports(s)
  BY <1>2, <1>4, <1>10, <1>11 DEF Inputs, Reports
<1> QED
  BY <1>1, <1>9, <1>12

LEMMA HalfCompleted ==
  ASSUME NEW s \in Seq(Told), NEW m \in Seq(Told), Messages(s, TRUE), Len(m) = 1, m[1].as = "data"
  PROVE  Messages(s \o m, FALSE) /\ Inputs(s \o m) = Inputs(s) /\ Reports(s \o m) = Reports(s)
<1>1. PICK t \in Seq(Told), k \in Nat : t = s \o m /\ k = Len(s) /\ Len(t) = k + 1
  <2>1. s \o m \in Seq(Told) /\ Len(s \o m) = Len(s) + Len(m) /\ Len(s) \in Nat
    BY Joined
  <2> QED
    BY <2>1
<1>2. (\A i \in 1..k : t[i] = s[i]) /\ t[k + 1] = m[1]
  <2>1. \A i \in 1..(k + 1) : t[i] = IF i <= k THEN s[i] ELSE m[i - k]
    BY <1>1, Joined
  <2> QED
    BY <1>1, <2>1
<1>3. Heads(s) \subseteq 1..k /\ DOMAIN s = 1..k /\ DOMAIN t = 1..(k + 1)
  BY <1>1 DEF Heads
<1>4. Heads(t) = Heads(s)
  <2>1. ASSUME NEW i \in 1..(k + 1) PROVE t[i].as = "code" <=> i \in Heads(s)
    <3>1. CASE i \in 1..k
      BY <1>1, <1>2, <1>3, <3>1 DEF Heads
    <3>2. CASE i = k + 1
      <4>1. i \notin 1..k
        BY <1>1, <3>2
      <4> QED
        BY <1>2, <1>3, <3>2, <4>1
    <3> QED
      BY <1>1, <3>1, <3>2
  <2>2. 1..k \subseteq 1..(k + 1)
    BY <1>1
  <2> QED
    BY <1>1, <1>3, <2>1, <2>2 DEF Heads
<1>5. k \in Heads(s) /\ s[k].v = OUTPUT /\ MessageLen(OUTPUT) = 2 /\ 1 \in Heads(s)
  BY <1>1, Lengths DEF Messages, Heads
<1>6. \A i \in Heads(s) : i \in 1..k /\ s[i].v \in Codes /\ (i + MessageLen(s[i].v) <= k + 1 \/ i = k)
  BY <1>1, <1>3 DEF Messages, Whole
<1>7. ASSUME NEW i \in Heads(t)
      PROVE  /\ t[i].v \in Codes
             /\ Whole(t, i)
             /\ \A j \in DOMAIN t : j > i => /\ j < i + MessageLen(t[i].v) => j \notin Heads(t)
                                             /\ j = i + MessageLen(t[i].v) => j \in Heads(t)
  <2>1. CASE i # k
    <3>1. PICK l \in Nat \ {0} : l = MessageLen(s[i].v) /\ t[i] = s[i] /\ i \in 1..k /\ i + l <= k + 1
      BY <1>2, <1>4, <1>6, <2>1, Lengths
    <3>2. \A j \in 1..k : j > i => (j < i + l => j \notin Heads(s)) /\ (j = i + l => j \in Heads(s))
      BY <1>3, <1>4, <3>1 DEF Messages
    <3>3. i + l # k + 1
      <4>1. i + l = k + 1 => k > i /\ k < i + l /\ k \in 1..k
        BY <1>1, <2>1, <3>1
      <4> QED
        BY <1>5, <3>2, <4>1
    <3>4. ASSUME NEW j \in 1..(k + 1), j > i
          PROVE  (j < i + l => j \notin Heads(t)) /\ (j = i + l => j \in Heads(t))
      <4>1. CASE j \in 1..k
        BY <1>4, <3>2, <3>4, <4>1
      <4>2. CASE j = k + 1
        BY <1>1, <3>1, <3>3, <4>2
      <4> QED
        BY <1>1, <4>1, <4>2
    <3>5. Whole(t, i)
      BY <1>1, <3>1 DEF Whole
    <3> QED
      BY <1>3, <1>4, <1>6, <3>1, <3>4, <3>5
  <2>2. CASE i = k
    <3>1. t[i].v = OUTPUT /\ Whole(t, i) /\ OUTPUT \in Codes
      BY <1>1, <1>2, <1>3, <1>5, <2>2 DEF Whole, Codes
    <3>2. ASSUME NEW j \in 1..(k + 1), j > k PROVE j \notin Heads(t) /\ j # k + 2
      BY <1>1, <1>3, <1>4, <3>2
    <3> QED
      BY <1>3, <1>5, <2>2, <3>1, <3>2
  <2> QED
    BY <2>1, <2>2
<1>8. t # <<>> /\ 1 \in Heads(t)
  BY <1>1, <1>4, <1>5
<1>9. Messages(t, FALSE)
  BY <1>7, <1>8 DEF Messages
<1>10. \A i \in Heads(s) : t[i] = s[i]
  BY <1>2, <1>3
<1>11. Inputs(t) = Inputs(s) /\ Reports(t) = Reports(s)
  BY <1>4, <1>10 DEF Inputs, Reports
<1> QED
  BY <1>1, <1>9, <1>11

LEMMA MessageDropped ==
  ASSUME NEW s \in Seq(Told), NEW half \in BOOLEAN, Messages(s, half), s # <<>>,
         NEW n, n = MessageLen(s[1].v), n <= Len(s)
  PROVE  LET r == SubSeq(s, n + 1, Len(s))
         IN  /\ r \in Seq(Told) /\ Messages(r, half) /\ Len(r) = Len(s) - n /\ n \in 1..Len(s)
             /\ \A i \in 1..Len(r) : r[i] = s[n + i] /\ n + i \in 1..Len(s)
             /\ Heads(r) = {i \in 1..Len(r) : n + i \in Heads(s)}
             /\ 1 \in Heads(s) /\ \A i \in Heads(s) : i = 1 \/ i - n \in Heads(r)
<1>1. 1 \in Heads(s) /\ s[1].v \in Codes /\ n \in Nat \ {0} /\ Len(s) \in Nat
  BY Lengths DEF Messages
<1>2. PICK r \in Seq(Told), k \in Nat, m \in Nat :
        /\ r = SubSeq(s, n + 1, Len(s)) /\ k = Len(s) /\ m = k - n /\ Len(r) = m
        /\ \A i \in 1..m : r[i] = s[n + i]
  <2>1. n \in 0..Len(s)
    BY <1>1
  <2>2. /\ SubSeq(s, n + 1, Len(s)) \in Seq(Told) /\ Len(SubSeq(s, n + 1, Len(s))) = Len(s) - n
        /\ \A i \in 1..(Len(s) - n) : SubSeq(s, n + 1, Len(s))[i] = s[n + i]
    BY <2>1, Dropped
  <2>3. Len(s) - n \in Nat
    BY <1>1
  <2> QED
    BY <1>1, <2>2, <2>3
<1>3. /\ DOMAIN s = 1..k /\ DOMAIN r = 1..m /\ Heads(s) \subseteq 1..k /\ Heads(r) \subseteq 1..m
      /\ \A i \in 1..m : n + i \in 1..k
  BY <1>1, <1>2 DEF Heads
<1>4. \A i \in 1..m : i \in Heads(r) <=> n + i \in Heads(s)
  BY <1>2, <1>3 DEF Heads
<1>5. \A j \in 1..k : j > 1 => (j < 1 + n => j \notin Heads(s)) /\ (j = 1 + n => j \in Heads(s))
  BY <1>1, <1>3 DEF Messages
<1>6. ASSUME NEW i \in Heads(s) PROVE i = 1 \/ (i - n \in 1..m /\ i - n \in Heads(r))
  <2>1. i \in 1..k
    BY <1>3
  <2>2. i = 1 \/ i >= 1 + n
    BY <1>1, <1>5, <2>1
  <2>3. i >= 1 + n => i - n \in 1..m /\ n + (i - n) = i
    BY <1>1, <1>2, <2>1
  <2> QED
    BY <1>4, <2>2, <2>3
<1>7. r # <<>> => 1 \in Heads(r)
  <2>1. SUFFICES ASSUME r # <<>> PROVE 1 \in Heads(r)
    OBVIOUS
  <2>2. 1 \in 1..m
    BY <1>2, <2>1
  <2>3. n + 1 \in 1..k /\ n + 1 > 1 /\ n + 1 = 1 + n
    BY <1>1, <1>3, <2>2
  <2> QED
    BY <1>4, <1>5, <2>2, <2>3
<1>8. half => Len(r) \in Heads(r) /\ r[Len(r)].v = OUTPUT
  <2>1. SUFFICES ASSUME half PROVE Len(r) \in Heads(r) /\ r[Len(r)].v = OUTPUT
    OBVIOUS
  <2>2. k \in Heads(s) /\ s[k].v = OUTPUT /\ MessageLen(OUTPUT) = 2
    BY <1>2, <2>1, Lengths DEF Messages
  <2>3. k # 1
    BY <1>1, <1>2, <2>2
  <2>4. k = 1 \/ (k - n \in 1..m /\ k - n \in Heads(r))
    BY <1>6, <2>2
  <2>5. k - n = m /\ n + m = k /\ n \in Int /\ m \in Int
    BY <1>1, <1>2
  <2>6. m \in 1..m /\ m \in Heads(r)
    BY <2>3, <2>4, <2>5
  <2>7. Len(r) = m /\ r[m] = s[n + m]
    BY <1>2, <2>6
  <2> QED
    BY <2>2, <2>5, <2>6, <2>7
<1>9. ASSUME NEW i \in Heads(r)
      PROVE  /\ r[i].v \in Codes
             /\ Whole(r, i) \/ (half /\ i = Len(r))
             /\ \A j \in DOMAIN r : j > i => /\ j < i + MessageLen(r[i].v) => j \notin Heads(r)
                                             /\ j = i + MessageLen(r[i].v) => j \in Heads(r)
  <2>1. i \in 1..m /\ n + i \in Heads(s) /\ r[i] = s[n + i] /\ n + i \in 1..k
    BY <1>2, <1>3, <1>4
  <2>2. /\ s[n + i].v \in Codes /\ (Whole(s, n + i) \/ (half /\ n + i = k))
        /\ \A j \in 1..k : j > n + i => /\ j < n + i + MessageLen(s[n + i].v) => j \notin Heads(s)
                                        /\ j = n + i + MessageLen(s[n + i].v) => j \in Heads(s)
    BY <1>2, <1>3, <2>1 DEF Messages
  <2>3. PICK l \in Nat : l = MessageLen(s[n + i].v) /\ l = MessageLen(r[i].v)
    BY <2>1, <2>2, Lengths
  <2>4. Whole(r, i) \/ (half /\ i = Len(r))
    <3>1. CASE Whole(s, n + i)
      <4>1. n + i + l <= k + 1
        BY <1>2, <2>3, <3>1 DEF Whole
      <4>2. m = k - n /\ k \in Nat /\ m \in Nat /\ n \in Nat /\ i \in Nat /\ l \in Nat
        BY <1>1, <1>2, <2>1, <2>3
      <4>3. i + l <= m + 1
        BY <4>1, <4>2
      <4> QED
        BY <1>2, <2>3, <4>3 DEF Whole
    <3>2. CASE half /\ n + i = k
      BY <1>1, <1>2, <2>1, <3>2
    <3> QED
      BY <2>2, <3>1, <3>2
  <2>5. ASSUME NEW j \in 1..m, j > i
        PROVE  (j < i + l => j \notin Heads(r)) /\ (j = i + l => j \in Heads(r))
    <3>1. n + j \in 1..k /\ n + j > n + i /\ (j < i + l => n + j < n + i + l) /\ (j = i + l => n + j = n + i + l)
      <4>1. n \in Nat /\ i \in Int /\ j \in Int /\ l \in Nat /\ j > i
        BY <1>1, <2>1, <2>3, <2>5
      <4>2. n + j \in 1..k
        BY <1>3, <2>5
      <4>3. n + j > n + i
        BY <4>1
      <4>4. j < i + l => n + j < n + i + l
        BY <4>1
      <4>5. j = i + l => n + j = n + i + l
        BY <4>1
      <4> QED
        BY <4>2, <4>3, <4>4, <4>5, Zenon
    <3> QED
      BY <1>4, <2>2, <2>3, <3>1
  <2> QED
    BY <1>3, <2>1, <2>2, <2>3, <2>4, <2>5
<1>10. Messages(r, half)
  BY <1>7, <1>8, <1>9 DEF Messages
<1>11. Heads(r) = {i \in 1..m : n + i \in Heads(s)}
  BY <1>3, <1>4
<1>12. n \in 1..Len(s)
  BY <1>1
<1> QED
  BY <1>1, <1>2, <1>3, <1>6, <1>10, <1>11, <1>12
-----------------------------------------------------------------------------
(* What the debugger asks, as it goes over the line.                       *)

LEMMA RequestKinds ==
  ASSUME NEW r \in Requests
  PROVE  /\ r # Nothing
         /\ \/ r.do \in {"hello", "ident", "registers", "go", "step"}
            \/ r.do = "set" /\ r.regs.sp \in {TOP - RSIZE, TOP} /\ r.regs.pc \in User /\ r.regs.a \in Int
            \/ r.do = "read" /\ r.from \in Cells /\ r.to \in Cells /\ r.from <= r.to
            \/ r.do = "write" /\ r.from \in Cells /\ r.data \in Seq(Int) /\ Len(r.data) \in 0..2
                              /\ r.from + Len(r.data) <= 2
<1>1. \/ r \in [do : {"hello", "ident", "registers", "go", "step"}]
      \/ r \in [do : {"set"}, regs : {x \in Registers : x.pc \in User /\ x.a \in Data /\ x.sp \in Stacks}]
      \/ r \in [do : {"read"}, from : Cells, to : Cells] /\ r.from <= r.to
      \/ /\ r \in [do : {"write"}, from : Cells, data : UNION {[1..n -> Data] : n \in 0..2}]
         /\ r.from + Len(r.data) <= 2
  BY DEF Requests
<1>2. CASE r \in [do : {"hello", "ident", "registers", "go", "step"}]
  BY <1>2 DEF Nothing
<1>3. CASE r \in [do : {"set"}, regs : {x \in Registers : x.pc \in User /\ x.a \in Data /\ x.sp \in Stacks}]
  BY <1>3, Stacking DEF Nothing
<1>4. CASE r \in [do : {"read"}, from : Cells, to : Cells] /\ r.from <= r.to
  BY <1>4 DEF Nothing
<1>5. CASE /\ r \in [do : {"write"}, from : Cells, data : UNION {[1..n -> Data] : n \in 0..2}]
           /\ r.from + Len(r.data) <= 2
  <2>1. PICK n \in 0..2 : r.data \in [1..n -> Data]
    BY <1>5
  <2>2. r.data \in Seq(Int) /\ Len(r.data) = n
    BY <2>1, Stacking
  <2> QED
    BY <1>5, <2>2 DEF Nothing
<1> QED
  BY <1>1, <1>2, <1>3, <1>4, <1>5

LEMMA WriteHead ==
  ASSUME NEW from \in Cells, NEW d \in Seq(Int)
  PROVE  LET h == <<WRITE, from, Len(d)>> IN h \in Seq(Int) /\ Len(h) = 3 /\ h[1] = WRITE
<1>1. PICK a \in Int, b \in Int, c \in Int : a = WRITE /\ b = from /\ c = Len(d)
  <2>1. WRITE \in Int /\ from \in Int
    BY DEF WRITE, Cells
  <2>2. Len(d) \in Int
    OBVIOUS
  <2> QED
    BY <2>1, <2>2, Zenon
<1>2. <<a, b, c>> \in Seq(Int) /\ Len(<<a, b, c>>) = 3 /\ <<a, b, c>>[1] = a
  OBVIOUS
<1> QED
  BY <1>1, <1>2, Zenon

LEMMA Encoding ==
  ASSUME NEW r \in Requests
  PROVE  /\ Encoded(r) \in Seq(Int) /\ Encoded(r) # <<>>
         /\ r.do = "hello" => Encoded(r) = <<HELLO>>
         /\ r.do = "ident" => Encoded(r) = <<IDENT>>
         /\ r.do = "registers" => Encoded(r) = <<GREGS>>
         /\ r.do = "go" => Encoded(r) = <<GO>>
         /\ r.do = "step" => Encoded(r) = <<STEP>>
         /\ r.do = "set" => Encoded(r) = <<SNDREGS, RSIZE, r.regs.sp, r.regs.pc, r.regs.a>>
         /\ r.do = "read" => Encoded(r) = <<READ, r.from, (r.to - r.from + 1) % FULL>>
         /\ r.do = "write" => Encoded(r) = <<WRITE, r.from, Len(r.data)>> \o r.data
<1>1. {HELLO, IDENT, GREGS, GO, STEP, SNDREGS, READ, WRITE, RSIZE} \subseteq Int /\ User \subseteq Int /\ Cells \subseteq Int
  BY DEF HELLO, IDENT, GREGS, GO, STEP, SNDREGS, READ, WRITE, RSIZE, User, Cells
<1>2. CASE r.do \in {"hello", "ident", "registers", "go", "step"}
  <2>1. /\ r.do = "hello" => Encoded(r) = <<HELLO>>
        /\ r.do = "ident" => Encoded(r) = <<IDENT>>
        /\ r.do = "registers" => Encoded(r) = <<GREGS>>
        /\ r.do = "go" => Encoded(r) = <<GO>>
        /\ r.do = "step" => Encoded(r) = <<STEP>>
    BY DEF Encoded
  <2>2. PICK n \in Int : Encoded(r) = <<n>>
    BY <1>1, <1>2, <2>1
  <2>3. <<n>> \in Seq(Int) /\ <<n>> # <<>>
    OBVIOUS
  <2> QED
    BY <1>2, <2>1, <2>2, <2>3
<1>3. CASE r.do = "set" /\ r.regs.sp \in {TOP - RSIZE, TOP} /\ r.regs.pc \in User /\ r.regs.a \in Int
  <2>1. Encoded(r) = <<SNDREGS, RSIZE, r.regs.sp, r.regs.pc, r.regs.a>>
    BY <1>3 DEF Encoded
  <2>2. r.regs.sp \in Int /\ r.regs.pc \in Int
    BY <1>1, <1>3, Stacking
  <2> QED
    BY <1>1, <1>3, <2>1, <2>2
<1>4. CASE r.do = "read" /\ r.from \in Cells /\ r.to \in Cells /\ r.from <= r.to
  <2>1. Encoded(r) = <<READ, r.from, (r.to - r.from + 1) % FULL>>
    BY <1>4 DEF Encoded
  <2>2. (r.to - r.from + 1) % FULL \in Int
    BY <1>1, <1>4, Stacking
  <2>3. PICK a \in Int, b \in Int, c \in Int : a = READ /\ b = r.from /\ c = (r.to - r.from + 1) % FULL
    BY <1>1, <1>4, <2>2, Zenon
  <2>4. <<a, b, c>> \in Seq(Int) /\ <<a, b, c>> # <<>>
    OBVIOUS
  <2> QED
    BY <1>4, <2>1, <2>3, <2>4, Zenon
<1>5. CASE r.do = "write" /\ r.from \in Cells /\ r.data \in Seq(Int) /\ Len(r.data) \in 0..2
  <2>1. Encoded(r) = <<WRITE, r.from, Len(r.data)>> \o r.data
    BY <1>5 DEF Encoded
  <2>2. PICK h \in Seq(Int) : h = <<WRITE, r.from, Len(r.data)>> /\ Len(h) = 3 /\ h[1] = WRITE
    BY <1>5, WriteHead
  <2>3. h \o r.data \in Seq(Int) /\ Len(h \o r.data) = 3 + Len(r.data)
    BY <1>5, <2>2, Joined
  <2> QED
    BY <1>5, <2>1, <2>2, <2>3
<1> QED
  BY <1>2, <1>3, <1>4, <1>5, RequestKinds

(* The code of a request says which it is, and is not STOP.                *)
LEMMA CommandsApart ==
  ASSUME NEW r \in Requests
  PROVE  /\ Encoded(r)[1] # STOP
         /\ Encoded(r)[1] = HELLO => r.do = "hello"
         /\ Encoded(r)[1] = IDENT => r.do = "ident"
         /\ Encoded(r)[1] = GREGS => r.do = "registers"
         /\ Encoded(r)[1] = GO => r.do = "go"
         /\ Encoded(r)[1] = STEP => r.do = "step"
         /\ Encoded(r)[1] = SNDREGS => r.do = "set"
         /\ Encoded(r)[1] = READ => r.do = "read"
         /\ Encoded(r)[1] = WRITE => r.do = "write"
<1> DEFINE c == Encoded(r)[1]
<1>1. \/ r.do = "hello" /\ c = HELLO
      \/ r.do = "ident" /\ c = IDENT
      \/ r.do = "registers" /\ c = GREGS
      \/ r.do = "go" /\ c = GO
      \/ r.do = "step" /\ c = STEP
      \/ r.do = "set" /\ c = SNDREGS
      \/ r.do = "read" /\ c = READ
      \/ r.do = "write" /\ c = WRITE
  <2>1. CASE r.do = "write"
    <3>1. r.from \in Cells /\ r.data \in Seq(Int)
      BY <2>1, RequestKinds
    <3>2. PICK h \in Seq(Int), d \in Seq(Int) : h = <<WRITE, r.from, Len(r.data)>> /\ d = r.data /\ Len(h) = 3 /\ h[1] = WRITE
      BY <3>1, WriteHead
    <3>3. (h \o d)[1] = h[1]
      BY <3>2
    <3> QED
      BY <2>1, <3>2, <3>3, Encoding
  <2>2. CASE r.do = "set"
    <3>1. Encoded(r) = <<SNDREGS, RSIZE, r.regs.sp, r.regs.pc, r.regs.a>>
      BY <2>2, Encoding, Zenon
    <3> QED
      BY <2>2, <3>1
  <2>3. CASE r.do = "read"
    <3>1. PICK x : Encoded(r) = <<READ, r.from, x>>
      BY <2>3, Encoding, Zenon
    <3> QED
      BY <2>3, <3>1
  <2>4. CASE r.do \in {"hello", "ident", "registers", "go", "step"}
    <3>1. /\ r.do = "hello" => Encoded(r) = <<HELLO>>
          /\ r.do = "ident" => Encoded(r) = <<IDENT>>
          /\ r.do = "registers" => Encoded(r) = <<GREGS>>
          /\ r.do = "go" => Encoded(r) = <<GO>>
          /\ r.do = "step" => Encoded(r) = <<STEP>>
      BY Encoding, Zenon
    <3> QED
      BY <2>4, <3>1
  <2> QED
    BY <2>1, <2>2, <2>3, <2>4, RequestKinds, Zenon
<1> HIDE DEF c
<1>2. /\ c # STOP
      /\ c = HELLO => r.do = "hello"
      /\ c = IDENT => r.do = "ident"
      /\ c = GREGS => r.do = "registers"
      /\ c = GO => r.do = "go"
      /\ c = STEP => r.do = "step"
      /\ c = SNDREGS => r.do = "set"
      /\ c = READ => r.do = "read"
      /\ c = WRITE => r.do = "write"
  BY <1>1 DEF HELLO, IDENT, GREGS, GO, STEP, SNDREGS, READ, WRITE, STOP
<1> QED
  BY <1>2 DEF c

LEMMA Requested ==
  ASSUME NEW r \in Requests
  PROVE  /\ As("command", <<Head(Encoded(r))>>) \in Seq(Sent) /\ As("arg", Tail(Encoded(r))) \in Seq(Sent)
         /\ Request(r) \in Seq(Sent) /\ Len(Request(r)) = Len(Encoded(r)) /\ Request(r) # <<>>
         /\ Request(r)[1].as = "command"
         /\ \A i \in 1..Len(Encoded(r)) : Request(r)[i].v = Encoded(r)[i]
<1>1. PICK e \in Seq(Int), k \in Nat : e = Encoded(r) /\ Len(e) = k + 1
  <2>1. Encoded(r) \in Seq(Int) /\ Encoded(r) # <<>>
    BY Encoding
  <2>2. PICK e \in Seq(Int) : e = Encoded(r) /\ e # <<>>
    BY <2>1
  <2>3. PICK n \in Nat : n = Len(e)
    BY <2>2
  <2>4. n # 0
    BY <2>2, <2>3
  <2>5. n - 1 \in Nat /\ n = (n - 1) + 1
    BY <2>4
  <2> QED
    BY <2>2, <2>3, <2>5, Zenon
<1>2. e # <<>> /\ Head(e) = e[1] /\ e[1] \in Int /\ Tail(e) \in Seq(Int) /\ Len(Tail(e)) = k
      /\ \A i \in 1..k : Tail(e)[i] = e[i + 1]
  BY <1>1
<1>3. PICK h \in Seq(Sent) : h = As("command", <<Head(e)>>) /\ Len(h) = 1 /\ h[1] = [v |-> e[1], as |-> "command"]
  <2>1. As("command", <<Head(e)>>) = [i \in 1..1 |-> [v |-> e[1], as |-> "command"]]
    BY <1>2 DEF As
  <2>2. PICK x \in Sent : x = [v |-> e[1], as |-> "command"]
    BY <1>2 DEF Sent
  <2>3. [i \in 1..1 |-> x] \in Seq(Sent) /\ Len([i \in 1..1 |-> x]) = 1 /\ [i \in 1..1 |-> x][1] = x
    OBVIOUS
  <2> QED
    BY <2>1, <2>2, <2>3
<1>4. PICK t \in Seq(Sent) : t = As("arg", Tail(e)) /\ Len(t) = k /\ \A i \in 1..k : t[i].v = e[i + 1]
  <2>1. As("arg", Tail(e)) = [i \in 1..k |-> [v |-> e[i + 1], as |-> "arg"]]
    <3>1. DOMAIN Tail(e) = 1..k
      BY <1>2
    <3> QED
      BY <1>2, <3>1 DEF As
  <2>2. \A i \in 1..k : [v |-> e[i + 1], as |-> "arg"] \in Sent
    BY <1>1 DEF Sent
  <2> QED
    BY <2>1, <2>2
<1>5. Request(r) = h \o t
  BY <1>1, <1>3, <1>4 DEF Request
<1>6. /\ h \o t \in Seq(Sent) /\ Len(h \o t) = 1 + k
      /\ \A i \in 1..(1 + k) : (h \o t)[i] = IF i <= 1 THEN h[i] ELSE t[i - 1]
  <2>1. /\ h \o t \in Seq(Sent) /\ Len(h \o t) = Len(h) + Len(t)
        /\ \A i \in 1..(Len(h) + Len(t)) : (h \o t)[i] = IF i <= Len(h) THEN h[i] ELSE t[i - Len(h)]
    BY Joined
  <2>2. Len(h) = 1 /\ Len(t) = k
    BY <1>3, <1>4
  <2> QED
    BY <2>1, <2>2, Zenon
<1>7. \A i \in 1..(k + 1) : (h \o t)[i].v = e[i]
  <2>1. ASSUME NEW i \in 1..(k + 1) PROVE (h \o t)[i].v = e[i]
    <3>1. CASE i = 1
      BY <1>1, <1>3, <1>6, <3>1
    <3>2. CASE i # 1
      <4>1. i - 1 \in 1..k /\ ~(i <= 1) /\ (i - 1) + 1 = i /\ i \in 1..(1 + k)
        BY <1>1, <3>2
      <4> QED
        BY <1>4, <1>6, <4>1
    <3> QED
      BY <3>1, <3>2
  <2> QED
    BY <2>1
<1>8. (h \o t)[1].as = "command" /\ h \o t # <<>> /\ 1 + k = k + 1
  BY <1>1, <1>3, <1>6
<1> QED
  BY <1>1, <1>3, <1>4, <1>5, <1>6, <1>7, <1>8
-----------------------------------------------------------------------------
(* Who may do what: phases of the invariant.                               *)

LEMMA Ending ==
  ASSUME NEW S, NEW s \in Seq(S), s # <<>>
  PROVE  /\ SubSeq(s, 2, Len(s)) = Tail(s) /\ SubSeq(s, Len(s) + 1, Len(s)) = <<>>
         /\ Tail(s) \in Seq(S) /\ Len(Tail(s)) = Len(s) - 1 /\ \A i \in 1..(Len(s) - 1) : Tail(s)[i] = s[i + 1]
         /\ Head(s) = s[1] /\ s[1] \in S /\ Len(s) \in Nat \ {0} /\ (Len(s) = 1 => Tail(s) = <<>>)
<1>1. Head(s) = s[1] /\ s[1] \in S /\ Tail(s) \in Seq(S)
  OBVIOUS
<1>2. PICK t \in Seq(S), k \in Nat : t = Tail(s) /\ k = Len(t) /\ Len(s) = k + 1 /\ \A i \in 1..k : t[i] = s[i + 1]
  <2>1. PICK t \in Seq(S) : t = Tail(s)
    BY <1>1
  <2>2. Len(t) = Len(s) - 1 /\ \A i \in 1..(Len(s) - 1) : t[i] = s[i + 1]
    BY <2>1
  <2>3. PICK k \in Nat : k = Len(t)
    BY <2>1
  <2>4. k = Len(s) - 1 /\ Len(s) = k + 1
    BY <2>2, <2>3
  <2> QED
    BY <2>1, <2>2, <2>3, <2>4
<1>3. PICK u \in Seq(S) : u = SubSeq(s, 2, Len(s)) /\ Len(u) = k /\ \A i \in 1..k : u[i] = s[1 + i]
  <2>1. 1 \in 0..Len(s) /\ Len(s) - 1 = k /\ 1 + 1 = 2
    BY <1>2
  <2>2. /\ SubSeq(s, 1 + 1, Len(s)) \in Seq(S) /\ Len(SubSeq(s, 1 + 1, Len(s))) = Len(s) - 1
        /\ \A i \in 1..(Len(s) - 1) : SubSeq(s, 1 + 1, Len(s))[i] = s[1 + i]
    BY <2>1, Dropped
  <2>3. /\ SubSeq(s, 2, Len(s)) \in Seq(S) /\ Len(SubSeq(s, 2, Len(s))) = k
        /\ \A i \in 1..k : SubSeq(s, 2, Len(s))[i] = s[1 + i]
    BY <2>1, <2>2
  <2> QED
    BY <2>3
<1>4. u = t
  <2>1. \A i \in 1..Len(u) : u[i] = t[i]
    BY <1>2, <1>3
  <2> QED
    BY <1>2, <1>3, <2>1, SameText
<1>5. SubSeq(s, Len(s) + 1, Len(s)) = <<>>
  <2>1. Len(s) \in 0..Len(s) /\ Len(s) - Len(s) = 0
    BY <1>2
  <2>2. SubSeq(s, Len(s) + 1, Len(s)) \in Seq(S) /\ Len(SubSeq(s, Len(s) + 1, Len(s))) = Len(s) - Len(s)
    BY <2>1, Dropped
  <2>3. \A v \in Seq(S) : Len(v) = 0 => v = <<>>
    OBVIOUS
  <2> QED
    BY <2>1, <2>2, <2>3
<1>6. /\ Len(t) = Len(s) - 1 /\ (\A i \in 1..(Len(s) - 1) : t[i] = s[i + 1])
      /\ Len(s) \in Nat \ {0} /\ (Len(s) = 1 => t = <<>>)
  BY <1>2
<1> QED
  BY <1>1, <1>2, <1>3, <1>4, <1>5, <1>6

LEMMA Phases ==
  ASSUME IInv
  PROVE  /\ at # "main" => Loose /\ ~Waiting /\ ~Asking /\ ~Answered
         /\ host.runs => Loose \/ Cut
         /\ host.asked => Loose /\ host.runs
         /\ Cut <=> Torn
         /\ Loose \/ Cut \/ (Still /\ ~Torn)
         /\ ~host.runs /\ host.req = Nothing => Waiting
         /\ ~host.runs /\ host.req # Nothing => Asking \/ Answered \/ (Loose /\ toTarget = <<>>)
  BY DEF IInv, Waiting, Asking, Answered, Loose, Still, Cut, Torn

(* A byte at the monitor's command loop that is no STOP: the whole of what *)
(* was asked is on the line, and nothing else is.                          *)
LEMMA Carried ==
  ASSUME IInv, at = "main", toTarget # <<>>, Command # STOP
  PROVE  /\ Asking /\ toTarget = Request(host.req) /\ host.req \in Requests
         /\ Len(toTarget) = Len(Encoded(host.req)) /\ Encoded(host.req)[1] = Command
         /\ \A i \in 1..Len(toTarget) : toTarget[i].v = Encoded(host.req)[i]
<1>1. toTarget \in Seq(Sent) /\ Head(toTarget) = toTarget[1] /\ host.req \in Requests \cup {Nothing}
      /\ Len(toTarget) \in Nat \ {0}
  BY Ending DEF IInv, Types
<1>2. ~OnlyStop
  <2>1. ~(Len(toTarget) = 1 /\ HasStop)
    BY <1>1 DEF HasStop, IsStop, Command
  <2> QED
    BY <2>1 DEF OnlyStop
<1>3. ~IsStop(Head(toTarget))
  BY DEF Command, IsStop
<1>4. ~HasKey \/ ~Loose
  BY DEF Loose, Prompted
<1>5. Asking
  BY <1>2, <1>4 DEF IInv, Waiting, Answered, Loose, Cut
<1>6. toTarget = Request(host.req) /\ host.req \in Requests
  BY <1>1, <1>3, <1>5 DEF Asking
<1>7. /\ Len(toTarget) = Len(Encoded(host.req))
      /\ \A i \in 1..Len(Encoded(host.req)) : toTarget[i].v = Encoded(host.req)[i]
  BY <1>6, Requested
<1>8. 1 \in 1..Len(Encoded(host.req))
  BY <1>1, <1>7
<1>9. \A i \in 1..Len(toTarget) : toTarget[i].v = Encoded(host.req)[i]
  BY <1>7
<1> QED
  BY <1>1, <1>5, <1>6, <1>7, <1>8, <1>9 DEF Command

(* What has been told is a text, and grows with what is put on the line.   *)
LEMMA TalkGrows ==
  ASSUME IInv, Loose
  PROVE  /\ Talk \in Seq(Told)
         /\ \A m \in Seq(Told) : /\ toHost \o m \in Seq(Told)
                                 /\ toHost' = toHost \o m /\ UNCHANGED host => Talk' = Talk \o m
         /\ UNCHANGED <<toHost, host>> => Talk' = Talk
<1>1. toHost \in Seq(Told)
  BY DEF IInv, Types
<1>2. ~host.runs => toHost # <<>> /\ Tail(toHost) \in Seq(Told)
  BY <1>1 DEF Loose
<1>3. Talk \in Seq(Told)
  BY <1>1, <1>2 DEF Talk
<1>4. ASSUME NEW m \in Seq(Told) PROVE toHost \o m \in Seq(Told)
  BY <1>1, Joined
<1>5. ASSUME NEW m \in Seq(Told), toHost' = toHost \o m, UNCHANGED host PROVE Talk' = Talk \o m
  <2>1. CASE host.runs
    BY <1>5, <2>1 DEF Talk
  <2>2. CASE ~host.runs
    <3>1. Tail(toHost \o m) = Tail(toHost) \o m
      BY <1>1, <1>2, <2>2, RestJoined
    <3> QED
      BY <1>5, <2>2, <3>1 DEF Talk
  <2> QED
    BY <2>1, <2>2
<1>6. UNCHANGED <<toHost, host>> => Talk' = Talk
  BY DEF Talk
<1> QED
  BY <1>3, <1>4, <1>5, <1>6

(* The target puts something, or nothing, on the line and takes nothing.   *)
Kept == /\ at # "main" /\ ~Prompted /\ (at = "saving" => at' \in {"saving", "main"})
        /\ (at = "trap" => at' \in {"trap", "main"}) /\ ~Torn'
        /\ (at' = "trap" => cpu'.pc \in User \/ HasStop)
        /\ UNCHANGED <<toTarget, host>> /\ (toHost # <<>> => toHost' # <<>>)
LEMMA TargetTalks ==
  ASSUME IInv, Kept, Messages(Talk', Half'),
         at' = "main" <=> Reports(Talk') # {},
         \A i \in Reports(Talk') : i + MessageLen(Talk'[i].v) = Len(Talk') + 1,
         \A i, j \in Inputs(Talk') : i = j,
         Inputs(Talk') = Inputs(Talk) \/ Prompted' \/ (at' = "trap" /\ HasStop),
         Prompted' => Inputs(Talk') # {}
  PROVE  Loose'
<1>1. Loose
  BY Phases DEF Kept
<1>2. (HasKey' <=> HasKey) /\ (HasStop' <=> HasStop) /\ (OnlyStop' <=> OnlyStop) /\ (Still' <=> Still)
  BY DEF Kept, HasKey, HasStop, OnlyStop, Still
<1>3. ~HasKey /\ ~host.asked /\ OnlyStop
  BY <1>1 DEF Loose, Kept
<1>4. /\ host.runs' => host.req' = Nothing
      /\ ~host.runs' => /\ Still' /\ toTarget' = <<>> /\ toHost' # <<>>
                        /\ host.req' # Nothing /\ host.req'.do \in {"go", "step"}
  BY <1>1, <1>2 DEF Kept, Loose
<1>5. Inputs(Talk') # {} => Prompted' \/ (host.stop' /\ at' \in {"saving", "main", "trap"})
  BY <1>1 DEF Kept, Loose
<1>6. host.stop' => HasStop' \/ at' \in {"saving", "main"}
  BY <1>1, <1>2 DEF Kept, Loose
<1>7. HasStop' => host.stop'
  BY <1>1, <1>2 DEF Kept, Loose
<1>8. at' = "trap" => cpu'.pc \in User \/ HasStop'
  BY <1>2 DEF Kept
<1> QED
  BY <1>2, <1>3, <1>4, <1>5, <1>6, <1>7, <1>8 DEF Kept, Loose

LEMMA TargetQuiet ==
  ASSUME IInv, at # "main", at' # "main", ~Prompted, ~Prompted', ~Half, ~Half',
         at = "saving" => at' = "saving", at # "trap", at' = "trap" => cpu'.pc \in User,
         UNCHANGED <<toTarget, toHost, host>>
  PROVE  Loose'
<1>1. Loose /\ Talk' = Talk
  BY Phases, TalkGrows
<1>2. Messages(Talk, FALSE) /\ Reports(Talk) = {}
      /\ (\A i, j \in Inputs(Talk) : i = j)
  <2>1. Half = FALSE
    BY DEF Half
  <2> QED
    BY <1>1, <2>1 DEF Loose
<1>3. Messages(Talk', Half')
  <2>1. Half' = FALSE
    BY DEF Half
  <2> QED
    BY <1>1, <1>2, <2>1
<1>4. Kept
  BY DEF Kept, Torn
<1> QED
  BY <1>1, <1>2, <1>3, <1>4, TargetTalks
-----------------------------------------------------------------------------
(* The monitor's commands.                                                 *)

LEMMA Pair ==
  ASSUME NEW S, NEW x \in S, NEW y \in S
  PROVE  <<x, y>> \in Seq(S) /\ Len(<<x, y>>) = 2 /\ <<x, y>>[1] = x /\ <<x, y>> # <<>>
  OBVIOUS

LEMMA Single ==
  ASSUME NEW S, NEW x \in S
  PROVE  <<x>> \in Seq(S) /\ Len(<<x>>) = 1 /\ <<x>>[1] = x /\ <<x>> # <<>>
  OBVIOUS

LEMMA Bytes ==
  /\ \A n \in Int : n \in Value
  /\ \A s \in Seq(Int) : s \in Seq(Value) /\ Sum(s) \in Value
  /\ {ACK, IDACK, WACK, GACK, OUTPUT, INPUT, STOPPED, STOPCALL} \subseteq Int
<1>1. \A n \in Int : n \in Value
  BY DEF Value
<1>2. \A s \in Seq(Int) : Sum(s) \in Value
  BY DEF Value
<1>3. \A s \in Seq(Int) : s \in Seq(Value)
  BY <1>1
<1> QED
  BY <1>1, <1>2, <1>3 DEF ACK, IDACK, WACK, GACK, OUTPUT, INPUT, STOPPED, STOPCALL

(* Memory and the stack as a handler leaves them: sound, and the program   *)
(* standing elsewhere than half-way through a call.                        *)
Sound == /\ mem' \in [0..(MTOP - 1) -> Int] /\ rptr' \in {TOP - 2 * RSIZE, TOP - RSIZE}
         /\ mem'[rptr' + 1] \notin Between
Untouched == mem' = mem /\ rptr' = rptr

LEMMA NotTorn ==
  ASSUME IInv, at # "main" \/ ~host.runs \/ (toTarget # <<>> /\ Command # STOP)
  PROVE  ~Torn
<1>1. CASE at # "main" \/ ~host.runs
  BY <1>1 DEF Torn
<1>2. CASE at = "main" /\ toTarget # <<>> /\ Command # STOP
  BY <1>2, Carried DEF Asking, Still, Torn
<1> QED
  BY <1>1, <1>2

LEMMA UntouchedSound ==
  ASSUME IInv, Untouched, ~Torn, at \in {"main", "going", "stepping", "saving"}
  PROVE  Sound
  BY DEF IInv, Types, Stopped, Sound, Untouched

LEMMA ServeSound ==
  ASSUME IInv, at' \in {"main", "going", "stepping"}, UNCHANGED <<cpu, call, host>>, Sound,
         toTarget' \in Seq(Sent), toHost' \in Seq(Told)
  PROVE  Types' /\ Stopped'
  BY DEF IInv, Types, Stopped, Sound

LEMMA TakesAll ==
  ASSUME IInv, NEW n \in Nat, NEW c, c # STOP, Takes(c, n), Len(Encoded(host.req)) = n + 1
  PROVE  toTarget' = <<>> /\ UNCHANGED <<cpu, call, host>> /\ Asking /\ at = "main"
<1>1. Asking /\ Len(toTarget) = n + 1
  BY Carried DEF Takes
<1>2. toTarget \in Seq(Sent) /\ toTarget # <<>>
  BY DEF IInv, Types, Takes
<1>3. SubSeq(toTarget, Len(toTarget) + 1, Len(toTarget)) = <<>>
  BY <1>2, Ending
<1>4. Len(toTarget) + 1 = n + 2
  BY <1>1
<1>5. toTarget' = SubSeq(toTarget, n + 2, Len(toTarget))
  BY DEF Takes
<1> QED
  BY <1>1, <1>3, <1>4, <1>5 DEF Takes

LEMMA AnswerGiven ==
  ASSUME IInv, NEW n \in Nat, NEW c, c # STOP, Takes(c, n), Len(Encoded(host.req)) = n + 1,
         host.req.do \notin {"go", "step"}, UNCHANGED at, Sound,
         NEW m \in Seq(Told), Len(m) = AnswerLen(host.req), Put(m)
  PROVE  IInv'
<1>1. toTarget' = <<>> /\ UNCHANGED <<cpu, call, host>> /\ Asking /\ at = "main"
  BY TakesAll
<1>2. toHost' = m
  <2>1. toHost = <<>> /\ <<>> \o m = m
    BY <1>1 DEF Asking
  <2> QED
    BY <2>1 DEF Put
<1>3. Types' /\ Stopped'
  <2>1. <<>> \in Seq(Sent)
    OBVIOUS
  <2> QED
    BY <1>1, <1>2, <2>1, ServeSound
<1>4. Answered'
  BY <1>1, <1>2 DEF Asking, Answered, Still
<1> QED
  BY <1>3, <1>4 DEF IInv

LEMMA Released ==
  ASSUME IInv, at = "main", Asking, toTarget' = <<>>, UNCHANGED <<cpu, call, host, mem, rptr>>,
         host.req.do \in {"go", "step"}, at' \in {"going", "stepping"}, Put(Code(<<GACK>>))
  PROVE  IInv'
<1>1. toTarget' = <<>> /\ UNCHANGED <<cpu, call, host>> /\ Asking /\ at = "main"
  OBVIOUS
<1>2. PICK m \in Seq(Told) : m = Code(<<GACK>>) /\ Len(m) = 1 /\ m # <<>> /\ Tail(m) = <<>>
  <2>1. GACK \in Value
    BY Bytes
  <2>2. <<GACK>> \in Seq(Value) /\ Len(<<GACK>>) = 1 /\ <<GACK>> # <<>>
    BY <2>1, Single
  <2>3. PICK m \in Seq(Told) : m = Code(<<GACK>>) /\ Len(m) = 1
    BY <2>2, Coded
  <2>4. m # <<>>
    BY <2>3
  <2>5. Tail(m) = <<>>
    BY <2>3, <2>4, Ending
  <2> QED
    BY <2>3, <2>4, <2>5
<1>3. toHost' = m
  <2>1. toHost = <<>> /\ <<>> \o m = m
    BY <1>1 DEF Asking
  <2> QED
    BY <1>2, <2>1 DEF Put
<1>4. Sound
  BY <1>1, NotTorn, UntouchedSound DEF Untouched, Asking, Still
<1>5. Types' /\ Stopped'
  <2>1. <<>> \in Seq(Sent)
    OBVIOUS
  <2> QED
    BY <1>1, <1>3, <1>4, <2>1, ServeSound
<1>6. ~host.runs' /\ Talk' = <<>>
  BY <1>1, <1>2, <1>3 DEF Asking, Still, Talk
<1>7. Half' = FALSE /\ Prompted' = FALSE /\ HasKey' = FALSE /\ HasStop' = FALSE /\ OnlyStop' = TRUE
  BY <1>1 DEF Half, Prompted, HasKey, HasStop, OnlyStop
<1>8. Messages(Talk', Half') /\ Inputs(Talk') = {} /\ Reports(Talk') = {}
  BY <1>6, <1>7, NoMessages
<1>9. Still' /\ toHost' # <<>> /\ host.req' # Nothing /\ host.req'.do \in {"go", "step"} /\ at' # "main"
  BY <1>1, <1>2, <1>3 DEF Asking, Still
<1>10. Loose'
  <2>1. ~host.stop' /\ ~host.asked' /\ at' # "trap"
    BY <1>9 DEF Still
  <2>2. ~Torn'
    BY <1>9 DEF Torn
  <2> QED
    BY <1>1, <1>6, <1>7, <1>8, <1>9, <2>1, <2>2 DEF Loose
<1> QED
  BY <1>5, <1>10 DEF IInv

LEMMA LetGo ==
  ASSUME IInv, NEW c, c # STOP, Takes(c, 0), Len(Encoded(host.req)) = 1,
         host.req.do \in {"go", "step"}, at' \in {"going", "stepping"}, UNCHANGED <<mem, rptr>>,
         Put(Code(<<GACK>>))
  PROVE  IInv'
<1>1. Len(Encoded(host.req)) = 0 + 1 /\ 0 \in Nat
  OBVIOUS
<1>2. toTarget' = <<>> /\ UNCHANGED <<cpu, call, host>> /\ Asking /\ at = "main"
  BY <1>1, TakesAll
<1> QED
  BY <1>2, Released

LEMMA HelloOk == ASSUME IInv, Hello PROVE IInv'
<1>1. at = "main" /\ toTarget # <<>> /\ Command = HELLO /\ HELLO # STOP
  BY DEF Hello, Takes, HELLO, STOP
<1>2. host.req \in Requests /\ Encoded(host.req)[1] = HELLO
  BY <1>1, Carried
<1>3. host.req.do = "hello"
  BY <1>2, CommandsApart
<1>4. Len(Encoded(host.req)) = 0 + 1
  <2>1. Encoded(host.req) = <<HELLO>>
    BY <1>2, <1>3, Encoding, Zenon
  <2> QED
    BY <2>1
<1>5. PICK m \in Seq(Told) : m = Code(<<ACK>>) /\ Len(m) = 1
  <2>1. <<ACK>> \in Seq(Value) /\ Len(<<ACK>>) = 1 /\ <<ACK>> # <<>>
    BY Bytes, Single
  <2> QED
    BY <2>1, Coded
<1>6. AnswerLen(host.req) = 1
  BY <1>3 DEF AnswerLen
<1>7. Sound
  BY <1>1, NotTorn, UntouchedSound DEF Hello, Untouched
<1> QED
  BY <1>1, <1>3, <1>4, <1>5, <1>6, <1>7, AnswerGiven DEF Hello

LEMMA IdentOk == ASSUME IInv, Ident PROVE IInv'
<1>1. at = "main" /\ toTarget # <<>> /\ Command = IDENT /\ IDENT # STOP
  BY DEF Ident, Takes, IDENT, STOP
<1>2. host.req \in Requests /\ Encoded(host.req)[1] = IDENT
  BY <1>1, Carried
<1>3. host.req.do = "ident"
  BY <1>2, CommandsApart
<1>4. Len(Encoded(host.req)) = 0 + 1
  <2>1. Encoded(host.req) = <<IDENT>>
    BY <1>2, <1>3, Encoding, Zenon
  <2> QED
    BY <2>1
<1>5. PICK m \in Seq(Told) : m = Code(<<IDACK, 0, 3>>) /\ Len(m) = 3
  <2>1. PICK c \in Value, x \in Value, y \in Value : c = IDACK /\ x = 0 /\ y = 3
    BY Bytes
  <2>2. <<c, x, y>> \in Seq(Value) /\ Len(<<c, x, y>>) = 3 /\ <<c, x, y>> # <<>>
    OBVIOUS
  <2> QED
    BY <2>1, <2>2, Coded
<1>6. AnswerLen(host.req) = 3
  BY <1>3 DEF AnswerLen
<1>7. Sound
  BY <1>1, NotTorn, UntouchedSound DEF Ident, Untouched
<1> QED
  BY <1>1, <1>3, <1>4, <1>5, <1>6, <1>7, AnswerGiven DEF Ident

LEMMA GRegsOk == ASSUME IInv, GRegs PROVE IInv'
<1>1. at = "main" /\ toTarget # <<>> /\ Command = GREGS /\ GREGS # STOP
  BY DEF GRegs, Takes, GREGS, STOP
<1>2. host.req \in Requests /\ Encoded(host.req)[1] = GREGS
  BY <1>1, Carried
<1>3. host.req.do = "registers"
  BY <1>2, CommandsApart
<1>4. Len(Encoded(host.req)) = 0 + 1
  <2>1. Encoded(host.req) = <<GREGS>>
    BY <1>2, <1>3, Encoding, Zenon
  <2> QED
    BY <2>1
<1>5. PICK m \in Seq(Told) : m = Code(<<RSIZE + 1>> \o RegBytes \o <<Sum(RegBytes)>>) /\ Len(m) = 5
  <2>1. PICK b \in Seq(Int) : b = RegBytes /\ Len(b) = 3
    <3>1. rptr + RSIZE \in Int /\ rptr \in 0..(MTOP - 1) /\ rptr + 1 \in 0..(MTOP - 1)
      <4>1. rptr \in {TOP - 2 * RSIZE, TOP - RSIZE}
        BY DEF IInv, Types
      <4>2. rptr \in {2, 4}
        BY <4>1, Stacking
      <4> QED
        BY <4>2, Stacking
    <3>2. PICK x \in Int, y \in Int, z \in Int : x = rptr + RSIZE /\ y = mem[rptr + 1] /\ z = mem[rptr]
      BY <3>1 DEF IInv, Types
    <3>3. <<x, y, z>> \in Seq(Int) /\ Len(<<x, y, z>>) = 3
      OBVIOUS
    <3> QED
      BY <3>2, <3>3 DEF RegBytes
  <2>2. PICK f \in Value : f = RSIZE + 1
    BY Bytes, Stacking
  <2>3. PICK g \in Value : g = Sum(RegBytes)
    BY <2>1, Bytes
  <2>4. b \in Seq(Value)
    BY Bytes
  <2>5. PICK h \in Seq(Value) : h = <<f>> /\ Len(h) = 1
    BY Single
  <2>6. PICK q \in Seq(Value) : q = h \o b /\ Len(q) = 4
    <3>1. h \o b \in Seq(Value) /\ Len(h \o b) = Len(h) + Len(b)
      BY <2>4, Joined
    <3>2. Len(h \o b) = 1 + 3
      BY <2>1, <2>5, <3>1, Zenon
    <3>3. 1 + 3 = 4
      OBVIOUS
    <3> QED
      BY <3>1, <3>2, <3>3, Zenon
  <2>7. q \o <<g>> \in Seq(Value) /\ Len(q \o <<g>>) = 5
    BY <2>6
  <2>8. PICK s \in Seq(Value) : s = <<RSIZE + 1>> \o RegBytes \o <<Sum(RegBytes)>> /\ Len(s) = 5
    BY <2>1, <2>2, <2>3, <2>5, <2>6, <2>7, Zenon
  <2>9. s # <<>>
    BY <2>8
  <2> QED
    BY <2>8, <2>9, Coded
<1>6. AnswerLen(host.req) = 5
  BY <1>3, Stacking DEF AnswerLen
<1>7. Sound
  BY <1>1, NotTorn, UntouchedSound DEF GRegs, Untouched
<1> QED
  BY <1>1, <1>3, <1>4, <1>5, <1>6, <1>7, AnswerGiven DEF GRegs

(* What a command's bytes hold. *)
LEMMA Arguments ==
  ASSUME IInv, at = "main", toTarget # <<>>, Command # STOP
  PROVE  /\ host.req.do = "set" =>
              /\ Len(toTarget) = 5 /\ Arg(2) = host.req.regs.sp /\ Arg(3) = host.req.regs.pc /\ Arg(4) = host.req.regs.a
         /\ host.req.do = "read" =>
              /\ Len(toTarget) = 3 /\ Arg(1) = host.req.from /\ Arg(2) = (host.req.to - host.req.from + 1) % FULL
         /\ host.req.do = "write" =>
              /\ Len(toTarget) = 3 + Len(host.req.data) /\ Arg(1) = host.req.from /\ Arg(2) = Len(host.req.data)
<1>1. /\ host.req \in Requests /\ Len(toTarget) = Len(Encoded(host.req))
      /\ \A i \in 1..Len(toTarget) : toTarget[i].v = Encoded(host.req)[i]
  BY Carried
<1>2. PICK e \in Seq(Int) : e = Encoded(host.req)
  BY <1>1, Encoding
<1>3. CASE host.req.do = "set"
  <2>1. e = <<SNDREGS, RSIZE, host.req.regs.sp, host.req.regs.pc, host.req.regs.a>>
    BY <1>1, <1>2, <1>3, Encoding, Zenon
  <2>2. Len(e) = 5 /\ e[3] = host.req.regs.sp /\ e[4] = host.req.regs.pc /\ e[5] = host.req.regs.a
    BY <2>1
  <2>3. Len(toTarget) = 5 /\ \A i \in 1..5 : toTarget[i].v = e[i]
    BY <1>1, <1>2, <2>2
  <2> QED
    BY <1>3, <2>2, <2>3 DEF Arg
<1>4. CASE host.req.do = "read"
  <2>1. PICK x : e = <<READ, host.req.from, x>> /\ x = (host.req.to - host.req.from + 1) % FULL
    BY <1>1, <1>2, <1>4, Encoding, Zenon
  <2>2. Len(e) = 3 /\ e[2] = host.req.from /\ e[3] = x
    BY <2>1
  <2>3. Len(toTarget) = 3 /\ \A i \in 1..3 : toTarget[i].v = e[i]
    BY <1>1, <1>2, <2>2
  <2>4. Arg(1) = e[2] /\ Arg(2) = e[3]
    BY <2>3 DEF Arg
  <2> QED
    BY <1>4, <2>1, <2>2, <2>3, <2>4, Zenon
<1>5. CASE host.req.do = "write"
  <2>1. PICK d \in Seq(Int) : d = host.req.data /\ host.req.from \in Cells
    BY <1>1, <1>5, RequestKinds
  <2>2. PICK h \in Seq(Int) : h = <<WRITE, host.req.from, Len(d)>> /\ Len(h) = 3
    BY <2>1, WriteHead
  <2>3. e = h \o d
    BY <1>1, <1>2, <1>5, <2>1, <2>2, Encoding, Zenon
  <2>4. h[2] = host.req.from /\ h[3] = Len(d)
    BY <2>2
  <2>5. Len(e) = 3 + Len(d) /\ e[2] = h[2] /\ e[3] = h[3]
    BY <2>2, <2>3
  <2>6. 2 \in 1..Len(toTarget) /\ 3 \in 1..Len(toTarget)
    BY <1>1, <1>2, <2>5
  <2>7. Arg(1) = e[2] /\ Arg(2) = e[3]
    BY <1>1, <1>2, <2>6 DEF Arg
  <2> QED
    BY <1>1, <1>2, <1>5, <2>1, <2>4, <2>5, <2>7
<1> QED
  BY <1>3, <1>4, <1>5

LEMMA ArgsInt ==
  ASSUME IInv, NEW i \in Nat, NEW j \in Nat, i <= j + 1, j + 1 <= Len(toTarget)
  PROVE  Args(i, j) \in Seq(Int) /\ Len(Args(i, j)) = j + 1 - i /\ DOMAIN Args(i, j) = 1..(j + 1 - i)
<1>1. PICK t \in Seq(Sent) : t = toTarget
  BY DEF IInv, Types
<1>2. PICK n \in Nat : n = j + 1 - i
  <2>1. j + 1 - i \in Nat
    OBVIOUS
  <2> QED
    BY <2>1
<1>3. /\ SubSeq(t, i + 1, j + 1) = [k \in 1..n |-> t[k + i]]
      /\ \A k \in 1..n : k + i \in 1..Len(t)
  <2>1. (j + 1) - (i + 1) + 1 = n /\ \A k \in 1..n : k + (i + 1) - 1 = k + i
    BY <1>2
  <2>2. SubSeq(t, i + 1, j + 1) = [k \in 1..((j + 1) - (i + 1) + 1) |-> t[k + (i + 1) - 1]]
    OBVIOUS
  <2>3. \A k \in 1..n : k + i \in 1..Len(t)
    BY <1>1, <1>2
  <2> QED
    BY <2>1, <2>2, <2>3
<1>4. \A k \in 1..n : t[k + i] \in Sent
  BY <1>3
<1>5. DOMAIN SubSeq(t, i + 1, j + 1) = 1..n /\ \A k \in 1..n : SubSeq(t, i + 1, j + 1)[k] = t[k + i]
  BY <1>3
<1>6. Args(i, j) = [k \in 1..n |-> t[k + i].v]
  BY <1>1, <1>5 DEF Args, Values
<1>7. \A k \in 1..n : t[k + i].v \in Int
  BY <1>4 DEF Sent
<1>8. [k \in 1..n |-> t[k + i].v] \in Seq(Int) /\ Len([k \in 1..n |-> t[k + i].v]) = n
      /\ DOMAIN [k \in 1..n |-> t[k + i].v] = 1..n
  BY <1>7
<1> QED
  BY <1>2, <1>6, <1>8

LEMMA WackTold ==
  ASSUME NEW s \in Seq(Int)
  PROVE  Code(<<WACK, Sum(s)>>) \in Seq(Told) /\ Len(Code(<<WACK, Sum(s)>>)) = 2
<1>1. PICK x \in Value, y \in Value : x = WACK /\ y = Sum(s)
  BY Bytes
<1>2. <<x, y>> \in Seq(Value) /\ Len(<<x, y>>) = 2 /\ <<x, y>> # <<>>
  BY Pair
<1> QED
  BY <1>1, <1>2, Coded

LEMMA SndRegsOk == ASSUME IInv, SndRegs PROVE IInv'
<1>1. at = "main" /\ toTarget # <<>> /\ Command = SNDREGS /\ SNDREGS # STOP
  BY DEF SndRegs, Takes, SNDREGS, STOP
<1>2. host.req \in Requests /\ Encoded(host.req)[1] = SNDREGS /\ Len(toTarget) = Len(Encoded(host.req))
  BY <1>1, Carried
<1>3. host.req.do = "set"
  BY <1>2, CommandsApart
<1>4. Len(toTarget) = 5 /\ Arg(2) = host.req.regs.sp /\ Arg(3) = host.req.regs.pc /\ Arg(4) = host.req.regs.a
  BY <1>1, <1>3, Arguments
<1>5. Len(Encoded(host.req)) = (RSIZE + 2) + 1 /\ RSIZE + 2 \in Nat
  BY <1>2, <1>4, Stacking
<1>6. Args(2, 4) \in Seq(Int)
  BY <1>4, ArgsInt
<1>7. PICK m \in Seq(Told) : m = Code(<<WACK, Sum(Args(2, 4))>>) /\ Len(m) = 2
  BY <1>6, WackTold
<1>8. AnswerLen(host.req) = 2
  BY <1>3 DEF AnswerLen
<1>9. Sound
  <2>1. PICK sp \in {4, 6}, pc \in {0, 1}, a \in Int : sp = Arg(2) /\ pc = Arg(3) /\ a = Arg(4)
    BY <1>2, <1>3, <1>4, RequestKinds, Stacking
  <2>2. mem' = [mem EXCEPT ![sp - 1] = pc, ![sp - 2] = a] /\ rptr' = sp - 2
    BY <2>1, Stacking DEF SndRegs, Frame
  <2>3. mem \in [0..7 -> Int]
    BY Stacking DEF IInv, Types
  <2>4. PICK x \in {3, 5}, y \in {2, 4} : x = sp - 1 /\ y = sp - 2 /\ y + 1 = x
    BY <2>1
  <2>5. /\ [mem EXCEPT ![x] = pc, ![y] = a] \in [0..7 -> Int]
        /\ [mem EXCEPT ![x] = pc, ![y] = a][y + 1] = pc
    <3>1. x \in 0..7 /\ y \in 0..7 /\ x # y /\ pc \in Int
      BY <2>1, <2>4
    <3> QED
      BY <2>3, <2>4, <3>1
  <2>6. pc \notin Between
    BY PcsApart, Stacking DEF Between
  <2>7. {2, 4} = {TOP - 2 * RSIZE, TOP - RSIZE} /\ 0..7 = 0..(MTOP - 1)
    BY Stacking
  <2>8. mem' = [mem EXCEPT ![x] = pc, ![y] = a] /\ rptr' = y
    BY <2>2, <2>4
  <2> QED
    BY <2>4, <2>5, <2>6, <2>7, <2>8, Zenon DEF Sound
<1> QED
  BY <1>1, <1>3, <1>5, <1>7, <1>8, <1>9, AnswerGiven DEF SndRegs

LEMMA ReadOk == ASSUME IInv, Read PROVE IInv'
<1>1. at = "main" /\ toTarget # <<>> /\ Command = READ /\ READ # STOP
  BY DEF Read, Takes, READ, STOP
<1>2. host.req \in Requests /\ Encoded(host.req)[1] = READ /\ Len(toTarget) = Len(Encoded(host.req))
  BY <1>1, Carried
<1>3. host.req.do = "read"
  BY <1>2, CommandsApart
<1>4. PICK f \in {0, 1}, t \in {0, 1} : f = host.req.from /\ t = host.req.to /\ f <= t
  BY <1>2, <1>3, RequestKinds, Stacking
<1>5. Len(toTarget) = 3 /\ Arg(1) = f /\ Arg(2) = (t - f + 1) % 2
  BY <1>1, <1>3, <1>4, Arguments, Stacking
<1>6. ReadCount = t - f + 1
  BY <1>4, <1>5, Stacking DEF ReadCount
<1>7. PICK k \in Nat : k = t - f + 1 /\ f + k - 1 <= 1
  BY <1>4
<1> DEFINE b == [i \in 1..ReadCount |-> mem[Arg(1) + i - 1]]
<1>8. b = [i \in 1..k |-> mem[f + i - 1]]
  BY <1>5, <1>6, <1>7
<1>9. \A i \in 1..k : mem[f + i - 1] \in Int
  <2>1. \A i \in 1..k : f + i - 1 \in 0..7
    BY <1>7
  <2>2. mem \in [0..7 -> Int]
    BY Stacking DEF IInv, Types
  <2> QED
    BY <2>1, <2>2
<1>10. b \in Seq(Int) /\ Len(b) = k
  <2>1. [i \in 1..k |-> mem[f + i - 1]] \in Seq(Int) /\ Len([i \in 1..k |-> mem[f + i - 1]]) = k
    BY <1>9
  <2> HIDE DEF b
  <2> QED
    BY <1>8, <2>1
<1> HIDE DEF b
<1>11. PICK q \in Seq(Value) : q = b \o <<Sum(b)>> /\ Len(q) = k + 1
  <2>1. b \in Seq(Value) /\ Sum(b) \in Value
    BY <1>10, Bytes
  <2>2. PICK y \in Seq(Value) : y = <<Sum(b)>> /\ Len(y) = 1
    BY <2>1, Single
  <2>3. b \o y \in Seq(Value) /\ Len(b \o y) = Len(b) + Len(y)
    BY <2>1, Joined
  <2> QED
    BY <1>10, <2>2, <2>3
<1>12. PICK m \in Seq(Told) : m = As("data", b \o <<Sum(b)>>) /\ Len(m) = k + 1
  BY <1>11, AsData
<1>13. AnswerLen(host.req) = k + 1
  <2>1. AnswerLen(host.req) = host.req.to - host.req.from + 2
    BY <1>3 DEF AnswerLen
  <2>2. t - f + 2 = k + 1
    BY <1>4, <1>7
  <2> QED
    BY <1>4, <2>1, <2>2
<1>14. Sound
  BY <1>1, NotTorn, UntouchedSound DEF Read, Untouched
<1>15. Put(m)
  BY <1>12 DEF Read, b
<1>16. Takes(READ, 2) /\ at' = at /\ Len(Encoded(host.req)) = 2 + 1 /\ Len(m) = AnswerLen(host.req)
  BY <1>2, <1>5, <1>12, <1>13 DEF Read
<1>17. host.req.do \notin {"go", "step"}
  BY <1>3
<1> QED
  BY <1>1, <1>14, <1>15, <1>16, <1>17, AnswerGiven

LEMMA WriteOk == ASSUME IInv, Write PROVE IInv'
<1>1. at = "main" /\ toTarget # <<>> /\ Command = WRITE /\ WRITE # STOP
  BY DEF Write, Takes, WRITE, STOP
<1>2. host.req \in Requests /\ Encoded(host.req)[1] = WRITE /\ Len(toTarget) = Len(Encoded(host.req))
  BY <1>1, Carried
<1>3. host.req.do = "write"
  BY <1>2, CommandsApart
<1>4. PICK f \in {0, 1}, n \in 0..2 : f = host.req.from /\ n = Len(host.req.data) /\ f + n <= 2
  BY <1>2, <1>3, RequestKinds, Stacking
<1>5. Len(toTarget) = 3 + n /\ Arg(1) = f /\ WriteCount = n
  BY <1>1, <1>3, <1>4, Arguments DEF WriteCount
<1>6. Len(Encoded(host.req)) = (2 + WriteCount) + 1 /\ 2 + WriteCount \in Nat
  BY <1>2, <1>4, <1>5
<1>7. PICK s \in Seq(Int) : s = Args(3, 2 + WriteCount) /\ DOMAIN s = 1..n
  <2>1. 3 \in Nat /\ 2 + n \in Nat /\ 3 <= (2 + n) + 1 /\ (2 + n) + 1 <= Len(toTarget) /\ (2 + n) + 1 - 3 = n
    BY <1>4, <1>5
  <2>2. Args(3, 2 + n) \in Seq(Int) /\ DOMAIN Args(3, 2 + n) = 1..((2 + n) + 1 - 3)
    BY <2>1, ArgsInt
  <2> QED
    BY <1>5, <2>1, <2>2
<1>8. PICK m \in Seq(Told) : m = Code(<<WACK, Sum(s)>>) /\ Len(m) = 2
  BY WackTold
<1>9. AnswerLen(host.req) = 2
  BY <1>3 DEF AnswerLen
<1>10. Sound
  <2>1. /\ mem' = [x \in DOMAIN mem |-> IF x - f + 1 \in 1..n THEN s[x - f + 1] ELSE mem[x]]
        /\ rptr' = rptr
    BY <1>5, <1>7 DEF Write
  <2>2. mem \in [0..7 -> Int] /\ rptr \in {2, 4} /\ mem[rptr + 1] \notin Between
    BY <1>1, NotTorn, Stacking DEF IInv, Types, Stopped
  <2>3. mem' \in [0..7 -> Int]
    <3>1. \A i \in 1..n : s[i] \in Int
      BY <1>7
    <3>2. \A x \in 0..7 : mem[x] \in Int
      BY <2>2
    <3>3. \A x \in 0..7 : (IF x - f + 1 \in 1..n THEN s[x - f + 1] ELSE mem[x]) \in Int
      BY <3>1, <3>2, Zenon
    <3>4. DOMAIN mem = 0..7
      BY <2>2
    <3> QED
      BY <2>1, <3>3, <3>4
  <2>4. rptr + 1 \in 0..7 /\ ~((rptr + 1) - f + 1 \in 1..n)
    <3>1. PICK k \in {2, 4} : k = rptr
      BY <2>2
    <3>2. k + 1 \in 0..7 /\ (k + 1) - f + 1 > n
      BY <1>4
    <3>3. ~((k + 1) - f + 1 \in 1..n)
      BY <1>4, <3>2
    <3> QED
      BY <3>1, <3>2, <3>3
  <2>5. mem'[rptr' + 1] = mem[rptr + 1]
    BY <2>1, <2>2, <2>4
  <2> QED
    BY <2>1, <2>2, <2>3, <2>5, Stacking DEF Sound
<1>11. Takes(WRITE, 2 + WriteCount) /\ at' = at /\ Put(m)
  BY <1>7, <1>8 DEF Write
<1>12. host.req.do \notin {"go", "step"} /\ Len(m) = AnswerLen(host.req)
  BY <1>3, <1>8, <1>9
<1> QED
  BY <1>1, <1>6, <1>10, <1>11, <1>12, AnswerGiven

LEMMA StepOk == ASSUME IInv, Step PROVE IInv'
<1>1. at = "main" /\ toTarget # <<>> /\ Command = STEP /\ STEP # STOP
  BY DEF Step, Takes, STEP, STOP
<1>2. host.req \in Requests /\ Encoded(host.req)[1] = STEP
  BY <1>1, Carried
<1>3. host.req.do = "step"
  BY <1>2, CommandsApart
<1>4. Len(Encoded(host.req)) = 1
  <2>1. Encoded(host.req) = <<STEP>>
    BY <1>2, <1>3, Encoding, Zenon
  <2> QED
    BY <2>1
<1> QED
  BY <1>1, <1>3, <1>4, LetGo DEF Step

LEMMA GoOk == ASSUME IInv, Go PROVE IInv'
<1>1. at = "main" /\ toTarget # <<>> /\ Command = GO /\ GO # STOP
  BY DEF Go, GO, STOP
<1>2. host.req \in Requests /\ Encoded(host.req)[1] = GO /\ Asking /\ Len(toTarget) = Len(Encoded(host.req))
  BY <1>1, Carried
<1>3. host.req.do = "go"
  BY <1>2, CommandsApart
<1>4. Len(Encoded(host.req)) = 1
  <2>1. Encoded(host.req) = <<GO>>
    BY <1>2, <1>3, Encoding, Zenon
  <2> QED
    BY <2>1
<1>5. toTarget' = <<>>
  <2>1. toTarget \in Seq(Sent)
    BY DEF IInv, Types
  <2>2. Tail(toTarget) = <<>>
    BY <1>1, <1>2, <1>4, <2>1, Ending
  <2> QED
    BY <2>2 DEF Go
<1> QED
  BY <1>1, <1>2, <1>3, <1>5, Released DEF Go

(* A STOP that crossed the program's own stop goes from the line.          *)
LEMMA StopIgnoredOk == ASSUME IInv, StopIgnored PROVE IInv'
<1>1. at = "main" /\ toTarget # <<>> /\ Head(toTarget).v = STOP /\ toTarget \in Seq(Sent)
      /\ UNCHANGED <<cpu, call, host, mem, rptr, at, toHost>>
  BY DEF StopIgnored, Takes, Command, IInv, Types
<1>2. toTarget' = Tail(toTarget) /\ toTarget' \in Seq(Sent)
  <2>1. toTarget' = SubSeq(toTarget, 0 + 2, Len(toTarget)) /\ 0 + 2 = 2
    BY DEF StopIgnored, Takes
  <2> QED
    BY <1>1, <2>1, Ending
<1>3. Types' /\ Stopped'
  <2>1. mem' = mem /\ rptr' = rptr /\ at' = "main" /\ (Torn' <=> Torn)
    BY <1>1 DEF Torn, Saved
  <2>2. Types'
    BY <1>1, <1>2, <2>1 DEF IInv, Types
  <2>3. Stopped'
    BY <1>1, <2>1 DEF IInv, Stopped
  <2> QED
    BY <2>2, <2>3
<1>4. OnlyStop => OnlyStop' /\ ~HasStop' /\ ~HasKey'
  <2>1. OnlyStop => toTarget' = <<>>
    BY <1>1, <1>2, Ending DEF OnlyStop
  <2> QED
    BY <2>1 DEF OnlyStop, HasStop, HasKey
<1> SUFFICES (Waiting \/ Asking \/ Answered \/ Loose \/ Cut)'
  BY <1>3 DEF IInv
<1>9. CASE Cut
  <2>1. OnlyStop' /\ (Torn' <=> Torn) /\ Rest(toHost')
    BY <1>1, <1>4, <1>9 DEF Cut, Torn, Saved
  <2> QED
    BY <1>1, <1>9, <2>1 DEF Cut
<1>5. CASE Waiting
  <2>1. Still' /\ OnlyStop'
    BY <1>1, <1>4, <1>5 DEF Waiting, Still
  <2> QED
    BY <1>1, <1>5, <2>1 DEF Waiting
<1>6. CASE Asking
  <2>1. toTarget # Request(host.req)
    <3>1. host.req \in Requests
      BY <1>6 DEF IInv, Types, Asking
    <3>2. Request(host.req)[1].v = Encoded(host.req)[1] /\ Request(host.req)[1].v # STOP
      <4>1. PICK e \in Seq(Int) : e = Encoded(host.req) /\ e # <<>>
        BY <3>1, Encoding
      <4>2. 1 \in 1..Len(e)
        BY <4>1
      <4> QED
        BY <3>1, <4>1, <4>2, Requested, CommandsApart
    <3>3. Head(toTarget) = toTarget[1]
      BY <1>1, Ending
    <3> QED
      BY <1>1, <3>2, <3>3
  <2>2. toTarget' = Request(host.req)
    BY <1>2, <1>6, <2>1 DEF Asking
  <2>3. toTarget' = Request(host'.req)
    BY <1>1, <2>2, Zenon
  <2>4. Still' /\ host'.req # Nothing /\ toHost' = <<>> /\ at' = "main"
    BY <1>1, <1>6 DEF Asking, Still
  <2> QED
    BY <2>3, <2>4 DEF Asking
<1>7. CASE Answered
  BY <1>1, <1>7 DEF Answered
<1>8. CASE Loose
  <2>1. OnlyStop /\ ~Prompted
    BY <1>1, <1>8 DEF Loose, Prompted
  <2>2. host.runs
    BY <1>1, <1>8 DEF Loose
  <2>3. /\ Talk' = Talk /\ ~Prompted' /\ (Half' <=> Half) /\ host' = host /\ at' = "main" /\ at = "main"
        /\ (Torn' <=> Torn)
    BY <1>1 DEF Talk, Prompted, Half, Torn, Saved
  <2>4. OnlyStop' /\ ~HasStop' /\ ~HasKey'
    BY <1>4, <2>1
  <2>5. Half = FALSE /\ Half' = FALSE
    BY <1>1 DEF Half
  <2>6. Loose'
    BY <1>8, <2>1, <2>2, <2>3, <2>4, <2>5 DEF Loose
  <2> QED
    BY <2>6
<1> QED
  BY <1>3, <1>5, <1>6, <1>7, <1>8, <1>9 DEF IInv

LEMMA ServeOk == ASSUME IInv, Serve PROVE IInv'
  BY HelloOk, StopIgnoredOk, IdentOk, GRegsOk, SndRegsOk, ReadOk, WriteOk, StepOk, GoOk DEF Serve
-----------------------------------------------------------------------------
(* Stops.                                                                  *)

LEMMA Domains ==
  ASSUME IInv
  PROVE  /\ mem \in [0..7 -> Int] /\ rptr \in {2, 4} /\ cpu \in [a : Int, pc : Int, sp : Int]
         /\ at \in {"main", "going", "stepping", "trap", "run", "saving"}
         /\ call \in [ret : User, size : Nat, line : Seq(Int)]
         /\ toTarget \in Seq(Sent) /\ toHost \in Seq(Told)
         /\ {2, 4} = {TOP - 2 * RSIZE, TOP - RSIZE} /\ {4, 6} = {TOP - RSIZE, TOP} /\ 0..7 = 0..(MTOP - 1)
         /\ at \in {"main", "going", "stepping", "saving"} => Torn \/ mem[rptr + 1] \notin Between
         /\ at \in {"run", "trap"} => cpu.sp \in {4, 6}
         /\ at = "trap" => cpu.pc \in User \cup {OUT2, OUT3, UNASKED}
<1>1. {2, 4} = {TOP - 2 * RSIZE, TOP - RSIZE} /\ {4, 6} = {TOP - RSIZE, TOP} /\ 0..7 = 0..(MTOP - 1)
  BY Stacking
<1>2. Types /\ Stopped
  BY DEF IInv
<1> QED
  BY <1>1, <1>2, Zenon DEF Types, Stopped

LEMMA HostKnown ==
  ASSUME IInv
  PROVE  /\ host \in [req : Requests \cup {Nothing}, runs : BOOLEAN, stop : BOOLEAN, asked : BOOLEAN]
         /\ host.req \in Requests \cup {Nothing} /\ host.runs \in BOOLEAN /\ host.stop \in BOOLEAN /\ host.asked \in BOOLEAN
<1>1. host \in [req : Requests \cup {Nothing}, runs : BOOLEAN, stop : BOOLEAN, asked : BOOLEAN]
  BY DEF IInv, Types
<1> QED
  BY <1>1

LEMMA FramedAt ==
  ASSUME IInv, NEW r, r.sp \in {4, 6}, r.pc \in Int, r.a \in Int, Frame(r)
  PROVE  /\ mem' \in [0..(MTOP - 1) -> Int] /\ rptr' \in {TOP - 2 * RSIZE, TOP - RSIZE}
         /\ mem'[rptr' + 1] = r.pc /\ rptr' = r.sp - RSIZE
<1>1. PICK x \in {3, 5}, y \in {2, 4} : x = r.sp - 1 /\ y = r.sp - 2 /\ y + 1 = x
  OBVIOUS
<1>2. mem' = [mem EXCEPT ![x] = r.pc, ![y] = r.a] /\ rptr' = y /\ y = r.sp - RSIZE
  BY <1>1, Stacking DEF Frame
<1>3. /\ [mem EXCEPT ![x] = r.pc, ![y] = r.a] \in [0..7 -> Int]
      /\ [mem EXCEPT ![x] = r.pc, ![y] = r.a][y + 1] = r.pc
  <2>1. x \in 0..7 /\ y \in 0..7 /\ x # y
    BY <1>1
  <2>2. mem \in [0..7 -> Int]
    BY Domains
  <2> QED
    BY <1>1, <2>1, <2>2
<1> QED
  BY <1>1, <1>2, <1>3, Domains, Zenon

LEMMA Framed ==
  ASSUME IInv, NEW r, r.sp \in {4, 6}, r.pc \in Int \ Between, r.a \in Int, Frame(r)
  PROVE  Sound /\ rptr' = r.sp - RSIZE
  BY FramedAt DEF Sound

(* A handler that leaves the program running, or standing.                 *)
Lined == toTarget' \in Seq(Sent) /\ toHost' \in Seq(Told)
Called == call' \in [ret : User, size : Nat, line : Seq(Int)]

LEMMA RunsOn ==
  ASSUME IInv, mem' \in [0..7 -> Int], UNCHANGED <<rptr, host>>, cpu' \in [a : Int, pc : Int, sp : Int],
         cpu'.sp \in {4, 6}, at' \in {"run", "trap"}, at' = "trap" => cpu'.pc \in User \cup {OUT2, OUT3, UNASKED}, Called, Lined
  PROVE  Types' /\ Stopped'
<1>1. /\ rptr \in {TOP - 2 * RSIZE, TOP - RSIZE} /\ {4, 6} = {TOP - RSIZE, TOP} /\ 0..7 = 0..(MTOP - 1)
      /\ host \in [req : Requests \cup {Nothing}, runs : BOOLEAN, stop : BOOLEAN, asked : BOOLEAN]
  BY Domains DEF IInv, Types
<1> QED
  BY <1>1, Zenon DEF Types, Stopped, Lined, Called

LEMMA Stands ==
  ASSUME IInv, Sound, UNCHANGED host, cpu' \in [a : Int, pc : Int, sp : Int], at' \in {"main", "saving"}, Called, Lined
  PROVE  Types' /\ Stopped'
<1>1. host \in [req : Requests \cup {Nothing}, runs : BOOLEAN, stop : BOOLEAN, asked : BOOLEAN]
  BY DEF IInv, Types
<1> QED
  BY <1>1, Zenon DEF Types, Stopped, Sound, Lined, Called

LEMMA OwnKnown ==
  /\ Own \in [a : Int, pc : Int, sp : Int] /\ \A x \in Int : [Own EXCEPT !.sp = x] \in [a : Int, pc : Int, sp : Int]
  /\ NoCall \in [ret : User, size : Nat, line : Seq(Int)]
<1>1. MONITOR \in Int /\ MTOP \in Int /\ 0 \in User
  BY Stacking, PcsApart
<1>2. <<>> \in Seq(Int)
  OBVIOUS
<1> QED
  BY <1>1, <1>2 DEF Own, NoCall

LEMMA StopTold ==
  ASSUME IInv, NEW pc \in Int
  PROVE  LET m == Code(StopMessage(pc))
         IN  /\ m \in Seq(Told) /\ m # <<>> /\ m[1].as = "code" /\ m[1].v \in {STOPPED, STOPCALL}
             /\ MessageLen(m[1].v) = Len(m) /\ \A i \in 2..Len(m) : m[i].as = "data"
<1>1. pc \in Value /\ STOPPED \in Value /\ STOPCALL \in Value
  BY Bytes
<1>2. PICK s \in Seq(Value) : s = StopMessage(pc) /\ s # <<>> /\ s[1] \in {STOPPED, STOPCALL} /\ Len(s) = MessageLen(s[1])
  <2>1. CASE CodeAt(pc) = CALL_SUB
    <3>1. pc \in {0, 1}
      BY <2>1, Stacking DEF CodeAt, CALL_SUB
    <3>2. PICK x \in Value, y \in Value : x = mem[pc + 1] /\ y = mem[pc + 2]
      <4>1. pc + 1 \in 0..7 /\ pc + 2 \in 0..7
        BY <3>1
      <4>2. mem[pc + 1] \in Int /\ mem[pc + 2] \in Int
        BY <4>1, Domains
      <4> QED
        BY <4>2, Bytes
    <3>3. PICK c \in Value : c = STOPCALL
      BY <1>1
    <3>4. <<c, x, y, pc>> \in Seq(Value) /\ <<c, x, y, pc>> # <<>> /\ <<c, x, y, pc>>[1] = c /\ Len(<<c, x, y, pc>>) = 4
      BY <1>1
    <3>5. StopMessage(pc) = <<c, x, y, pc>>
      BY <2>1, <3>2, <3>3 DEF StopMessage
    <3>6. MessageLen(c) = 4
      BY <3>3, CodesApart
    <3> QED
      BY <3>3, <3>4, <3>5, <3>6, Zenon
  <2>2. CASE CodeAt(pc) # CALL_SUB
    <3>1. PICK c \in Value : c = STOPPED
      BY <1>1
    <3>2. <<c, pc>> \in Seq(Value) /\ <<c, pc>> # <<>> /\ <<c, pc>>[1] = c /\ Len(<<c, pc>>) = 2
      BY <1>1
    <3>3. StopMessage(pc) = <<c, pc>>
      BY <2>2, <3>1 DEF StopMessage
    <3>4. MessageLen(c) = 2
      BY <3>1, CodesApart
    <3> QED
      BY <3>1, <3>2, <3>3, <3>4, Zenon
  <2> QED
    BY <2>1, <2>2
<1>3. /\ Code(s) \in Seq(Told) /\ Len(Code(s)) = Len(s) /\ Code(s)[1] = [v |-> s[1], as |-> "code"]
      /\ \A i \in 2..Len(s) : Code(s)[i].as = "data"
  BY <1>2, Coded
<1>4. PICK m \in Seq(Told) : m = Code(s) /\ m = Code(StopMessage(pc))
  BY <1>2, <1>3
<1>5. Len(m) \in Nat \ {0}
  BY <1>2, <1>3, <1>4, Lengths
<1>6. m # <<>>
  BY <1>5
<1>7. m[1].as = "code" /\ m[1].v = s[1]
  BY <1>3, <1>4
<1>8. MessageLen(m[1].v) = Len(m) /\ \A i \in 2..Len(m) : m[i].as = "data"
  BY <1>2, <1>3, <1>4, <1>7, Zenon
<1> QED
  BY <1>2, <1>4, <1>6, <1>7, <1>8

LEMMA Reported ==
  ASSUME IInv, Sound, at \in {"run", "saving", "trap"}, ~Half, ~Prompted, NEW pc \in Int, Report(pc),
         UNCHANGED <<call, toTarget, host>>
  PROVE  IInv'
<1>1. PICK m \in Seq(Told) :
        /\ m = Code(StopMessage(pc)) /\ m # <<>> /\ m[1].as = "code" /\ m[1].v \in {STOPPED, STOPCALL}
        /\ MessageLen(m[1].v) = Len(m) /\ \A i \in 2..Len(m) : m[i].as = "data"
  BY StopTold
<1>2. toHost' = toHost \o m /\ at' = "main" /\ cpu' = Own
  BY <1>1 DEF Report, Put
<1>3. Loose
  BY Phases
<1>4. Talk \in Seq(Told) /\ toHost' \in Seq(Told) /\ Talk' = Talk \o m
  BY <1>2, <1>3, TalkGrows
<1>5. Types' /\ Stopped'
  <2>1. Lined /\ Called
    BY <1>4, Domains DEF Lined, Called
  <2> QED
    BY <1>2, <2>1, OwnKnown, Stands
<1>6. Messages(Talk, FALSE) /\ Reports(Talk) = {} /\ \A i, j \in Inputs(Talk) : i = j
  <2>1. Half = FALSE
    BY DEF Half
  <2> QED
    BY <1>3, <2>1 DEF Loose
<1>7. m[1].v \in Codes
  BY <1>1 DEF Codes
<1>8. /\ Messages(Talk', FALSE)
      /\ Inputs(Talk') = Inputs(Talk)
      /\ Reports(Talk') = {Len(Talk) + 1}
      /\ Talk'[Len(Talk) + 1] = m[1] /\ Len(Talk') = Len(Talk) + Len(m)
  <2>1. m[1].v # INPUT
    BY <1>1, CodesApart
  <2>2. /\ Messages(Talk \o m, FALSE)
        /\ Inputs(Talk \o m) = Inputs(Talk) \cup (IF m[1].v = INPUT THEN {Len(Talk) + 1} ELSE {})
        /\ Reports(Talk \o m) = Reports(Talk) \cup (IF m[1].v \in {STOPPED, STOPCALL} THEN {Len(Talk) + 1} ELSE {})
        /\ (Talk \o m)[Len(Talk) + 1] = m[1] /\ Len(Talk \o m) = Len(Talk) + Len(m)
    BY <1>1, <1>4, <1>6, <1>7, MessageAdded
  <2> QED
    BY <1>1, <1>4, <1>6, <2>1, <2>2
<1>9. Half' = FALSE /\ Prompted' = FALSE
  BY <1>2 DEF Half, Prompted
<1>10. Kept
  <2>1. toHost # <<>> => toHost' # <<>>
    <3>1. Len(toHost \o m) = Len(toHost) + Len(m) /\ toHost \o m \in Seq(Told)
      BY Domains, Joined
    <3>2. PICK u \in Seq(Told), n \in Nat \ {0} : u = toHost \o m /\ Len(u) = Len(toHost) + n
      <4>1. Len(m) \in Nat \ {0}
        BY <1>1, Ending
      <4> QED
        BY <3>1, <4>1
    <3>3. Len(toHost) \in Nat
      BY Domains
    <3>4. u # <<>>
      BY <3>2, <3>3
    <3> QED
      BY <1>2, <3>2, <3>4
  <2>2. ~Torn'
    BY DEF Torn, Saved, Sound, Between
  <2> QED
    BY <1>2, <2>1, <2>2 DEF Kept
<1>11. \A i \in Reports(Talk') : i + MessageLen(Talk'[i].v) = Len(Talk') + 1
  <2>1. PICK k \in Nat, n \in Nat : k = Len(Talk) /\ n = Len(m)
    BY <1>4
  <2>2. (k + 1) + n = (k + n) + 1
    OBVIOUS
  <2>3. MessageLen(Talk'[k + 1].v) = n /\ Len(Talk') = k + n
    BY <1>1, <1>8, <2>1
  <2> QED
    BY <1>8, <2>1, <2>2, <2>3, Zenon
<1>12. Loose'
  <2>1. Messages(Talk', Half')
    BY <1>8, <1>9
  <2>2. at' = "main" <=> Reports(Talk') # {}
    BY <1>2, <1>8
  <2>3. (\A i, j \in Inputs(Talk') : i = j) /\ (Inputs(Talk') = Inputs(Talk) \/ Prompted') /\ (Prompted' => Inputs(Talk') # {})
    BY <1>6, <1>8, <1>9
  <2> QED
    BY <1>10, <1>11, <2>1, <2>2, <2>3, TargetTalks
<1> QED
  BY <1>5, <1>12 DEF IInv

(* Where a byte may reach the program: its own instructions, and the calls *)
(* it is nowhere half-way through.                                         *)
LEMMA PendingWhere ==
  ASSUME Gaps = {}, Pending
  PROVE  at = "run" /\ cpu.pc # OUT2 /\ cpu.pc # PROMPTED
  BY DEF Pending, Deaf

LEMMA InterruptOk == ASSUME IInv, Gaps = {}, Interrupt PROVE IInv'
<1>1. at = "run" /\ cpu.pc \notin Between
  BY PendingWhere DEF Interrupt, Between
<1>2. cpu.sp \in {4, 6} /\ cpu.pc \in Int /\ cpu.a \in Int
  BY <1>1, Domains
<1>3. Sound
  BY <1>1, <1>2, Framed DEF Interrupt
<1>4. ~Half /\ ~Prompted
  BY <1>1 DEF Half, Prompted, Between
<1> QED
  BY <1>1, <1>2, <1>3, <1>4, Reported DEF Interrupt

(* bdoserr() stopped after OUTPUT: only the report is still to come.       *)
LEMMA Appending ==
  ASSUME NEW S, NEW x \in S, NEW y \in S
  PROVE  <<x>> \o <<y>> = <<x, y>>
<1>1. PICK u \in Seq(S), v \in Seq(S) : u = <<x>> /\ v = <<y>>
  BY Single
<1>2. Len(u) = 1 /\ u[1] = x /\ Len(v) = 1 /\ v[1] = y
  BY <1>1, Single
<1>3. /\ u \o v \in Seq(S) /\ Len(u \o v) = Len(u) + Len(v)
      /\ \A i \in 1..(Len(u) + Len(v)) : (u \o v)[i] = IF i <= Len(u) THEN u[i] ELSE v[i - Len(u)]
  BY Joined
<1>4. PICK w \in Seq(S) : w = u \o v
  BY <1>3
<1>5. Len(w) = 2 /\ w[1] = x /\ w[2] = y
  BY <1>2, <1>3, <1>4
<1>6. PICK t \in Seq(S) : t = <<x, y>> /\ Len(t) = 2 /\ t[1] = x /\ t[2] = y
  <2>1. <<x, y>> \in Seq(S) /\ Len(<<x, y>>) = 2 /\ <<x, y>>[1] = x /\ <<x, y>>[2] = y
    OBVIOUS
  <2> QED
    BY <2>1
<1>7. \A i \in 1..Len(w) : w[i] = t[i]
  <2>1. 1..Len(w) = {1, 2}
    BY <1>5
  <2> QED
    BY <1>5, <1>6, <2>1
<1>8. w = t
  BY <1>5, <1>6, <1>7, SameText
<1> QED
  BY <1>1, <1>4, <1>6, <1>8

LEMMA Fronted ==
  ASSUME NEW S, NEW s \in Seq(S), NEW k \in Nat, k <= Len(s)
  PROVE  /\ SubSeq(s, 1, k) \in Seq(S) /\ Len(SubSeq(s, 1, k)) = k
         /\ \A i \in 1..k : SubSeq(s, 1, k)[i] = s[i]
  OBVIOUS

LEMMA TwoTold ==
  ASSUME NEW x \in Value, NEW y \in Value
  PROVE  Code(<<x, y>>) \in Seq(Told) /\ Len(Code(<<x, y>>)) = 2 /\ Code(<<x, y>>)[2].v = y
<1>1. Head(<<x, y>>) = x /\ Tail(<<x, y>>) = <<y>>
  OBVIOUS
<1>2. As("code", <<x>>) = <<[v |-> x, as |-> "code"]>> /\ As("data", <<y>>) = <<[v |-> y, as |-> "data"]>>
  BY DEF As
<1>3. PICK b \in Told, c \in Told : b = [v |-> x, as |-> "code"] /\ c = [v |-> y, as |-> "data"] /\ c.v = y
  <2>1. [v |-> x, as |-> "code"] \in Told
    BY DEF Told
  <2>2. [v |-> y, as |-> "data"] \in Told /\ [v |-> y, as |-> "data"].v = y
    BY DEF Told
  <2> QED
    BY <2>1, <2>2
<1>4. Code(<<x, y>>) = <<b>> \o <<c>>
  BY <1>1, <1>2, <1>3 DEF Code
<1>5. <<b>> \o <<c>> = <<b, c>>
  BY Appending
<1>6. <<b, c>> \in Seq(Told) /\ Len(<<b, c>>) = 2 /\ <<b, c>>[2] = c
  OBVIOUS
<1> QED
  BY <1>3, <1>4, <1>5, <1>6

LEMMA Remains ==
  ASSUME NEW s \in Seq(Told), NEW m \in Seq(Told), Len(m) = 2, m[2].v = OUT2,
         Messages(s, TRUE), Reports(s) = {}
  PROVE  s \o m \in Seq(Told) /\ Rest(s \o m)
<1>1. PICK k \in Nat : k = Len(s) /\ k > 0
  <2>1. PICK k \in Nat : k = Len(s)
    OBVIOUS
  <2>2. k \in Heads(s)
    BY <2>1 DEF Messages
  <2>3. k \in 1..k
    BY <2>1, <2>2 DEF Heads
  <2> QED
    BY <2>1, <2>3
<1>2. PICK t \in Seq(Told) : t = s \o m /\ Len(t) = k + 2 /\ \A i \in 1..(k + 2) : t[i] = IF i <= k THEN s[i] ELSE m[i - k]
  <2>1. /\ s \o m \in Seq(Told) /\ Len(s \o m) = Len(s) + Len(m)
        /\ \A i \in 1..(Len(s) + Len(m)) : (s \o m)[i] = IF i <= Len(s) THEN s[i] ELSE m[i - Len(s)]
    BY Joined
  <2> QED
    BY <1>1, <2>1
<1>3. t[k + 2] = m[2] /\ t # <<>>
  <2>1. k + 2 \in 1..(k + 2) /\ ~(k + 2 <= k) /\ (k + 2) - k = 2
    OBVIOUS
  <2>2. t[k + 2] = m[2]
    BY <1>2, <2>1
  <2>3. t # <<>>
    BY <1>2
  <2> QED
    BY <2>2, <2>3
<1>4. Before(t) = s
  <2>1. PICK u \in Seq(Told) : u = Before(t) /\ Len(u) = k /\ \A i \in 1..k : u[i] = t[i]
    <3>1. SubSeq(t, 1, k) \in Seq(Told) /\ Len(SubSeq(t, 1, k)) = k /\ \A i \in 1..k : SubSeq(t, 1, k)[i] = t[i]
      <4>1. k <= Len(t)
        BY <1>2
      <4> QED
        BY <4>1, Fronted
    <3>2. Len(t) - 2 = k
      BY <1>2
    <3> QED
      BY <3>1, <3>2 DEF Before
  <2>2. ASSUME NEW i \in 1..k PROVE u[i] = s[i]
    <3>1. i \in 1..(k + 2) /\ i <= k
      OBVIOUS
    <3> QED
      BY <1>2, <2>1, <3>1
  <2> QED
    BY <1>1, <2>1, <2>2, SameText
<1>5. Len(t) > 2 /\ t[Len(t)].v = OUT2
  BY <1>1, <1>2, <1>3
<1> QED
  BY <1>2, <1>3, <1>4, <1>5 DEF Rest

LEMMA CutOk == ASSUME IInv, Trap, cpu.pc = OUT2 PROVE IInv'
<1>1. /\ at = "trap" /\ Frame(cpu) /\ UNCHANGED <<call, toTarget, host>>
      /\ at' = "main" /\ cpu' = Own /\ Put(Code(StopMessage(OUT2)))
  BY DEF Trap, Report
<1>2. StopMessage(OUT2) = <<STOPPED, OUT2>>
  <2>1. OUT2 \notin Cells
    BY Stacking DEF OUT2
  <2>2. CodeAt(OUT2) # CALL_SUB
    BY <2>1 DEF CodeAt, CALL_SUB
  <2> QED
    BY <2>2 DEF StopMessage
<1>3. PICK m \in Seq(Told) : m = Code(<<STOPPED, OUT2>>) /\ Len(m) = 2 /\ m[2].v = OUT2
  <2>1. PICK x \in Value, y \in Value : x = STOPPED /\ y = OUT2
    BY Bytes, PcsApart
  <2> QED
    BY <2>1, TwoTold
<1>4. Loose /\ HasStop
  BY <1>1, Phases, PcsApart DEF Loose
<1>5. host.runs /\ host.stop /\ ~host.asked /\ host.req = Nothing /\ OnlyStop
  BY <1>1, <1>4 DEF Loose, HasStop, Prompted
<1>6. Messages(toHost, TRUE) /\ Reports(toHost) = {}
  <2>1. Half = TRUE
    BY <1>1 DEF Half
  <2>2. Talk = toHost
    BY <1>5 DEF Talk
  <2> QED
    BY <1>1, <1>4, <2>1, <2>2 DEF Loose
<1>7. toHost' \in Seq(Told) /\ Rest(toHost')
  <2>1. toHost' = toHost \o m /\ toHost \in Seq(Told)
    BY <1>1, <1>2, <1>3, Domains DEF Put
  <2> QED
    BY <1>3, <1>6, <2>1, Remains
<1>8. /\ mem' \in [0..(MTOP - 1) -> Int] /\ rptr' \in {TOP - 2 * RSIZE, TOP - RSIZE}
      /\ mem'[rptr' + 1] = OUT2
  <2>1. cpu.sp \in {4, 6} /\ cpu.pc \in Int /\ cpu.a \in Int
    BY <1>1, Domains
  <2> QED
    BY <1>1, <2>1, FramedAt
<1>9. Torn'
  BY <1>1, <1>5, <1>8 DEF Torn, Saved
<1>10. Types'
  <2>1. /\ call \in [ret : User, size : Nat, line : Seq(Int)] /\ toTarget \in Seq(Sent)
        /\ host \in [req : Requests \cup {Nothing}, runs : BOOLEAN, stop : BOOLEAN, asked : BOOLEAN]
    BY HostKnown, Domains
  <2> QED
    BY <1>1, <1>7, <1>8, <2>1, OwnKnown DEF Types
<1>11. Stopped'
  BY <1>1, <1>9 DEF Stopped
<1>12. Cut'
  <2>1. OnlyStop'
    BY <1>1, <1>5 DEF OnlyStop, HasStop
  <2> QED
    BY <1>1, <1>5, <1>7, <1>9, <2>1 DEF Cut
<1> QED
  BY <1>10, <1>11, <1>12 DEF IInv

LEMMA TrapOk == ASSUME IInv, Trap PROVE IInv'
<1>1. CASE cpu.pc = OUT2
  BY <1>1, CutOk
<1>2. CASE cpu.pc # OUT2
  <2>1. at = "trap" /\ cpu.pc \in User \cup {OUT3, UNASKED}
    BY <1>2, Domains DEF Trap
  <2>2. cpu.sp \in {4, 6} /\ cpu.pc \in Int \ Between /\ cpu.a \in Int
    BY <2>1, Domains, PcsApart DEF Between
  <2>3. Sound
    BY <2>2, Framed DEF Trap
  <2>4. ~Half /\ ~Prompted
    BY <1>2, <2>1 DEF Half, Prompted
  <2> QED
    BY <2>1, <2>2, <2>3, <2>4, Reported DEF Trap
<1> QED
  BY <1>1, <1>2

LEMMA ReportRstOk == ASSUME IInv, ReportRst PROVE IInv'
<1>1. at = "saving" /\ UNCHANGED <<mem, rptr, call, toTarget, host>> /\ Report(mem[rptr + 1])
  BY DEF ReportRst
<1>2. mem[rptr + 1] \in Int
  <2>1. PICK x \in {2, 4} : x = rptr
    BY Domains
  <2>2. x + 1 \in 0..7
    OBVIOUS
  <2> QED
    BY <2>1, <2>2, Domains
<1>3. Sound
  BY <1>1, NotTorn, UntouchedSound DEF Untouched
<1>4. ~Half /\ ~Prompted
  BY <1>1 DEF Half, Prompted
<1> QED
  BY <1>1, <1>2, <1>3, <1>4, Reported

LEMMA ResumeOk == ASSUME IInv, Resume PROVE IInv'
<1>1. /\ at = "going" /\ at' = "run" /\ cpu' = Saved
      /\ UNCHANGED <<rptr, call, toTarget, toHost, host>>
      /\ mem' = [mem EXCEPT ![rptr] = 0, ![rptr + 1] = 0]
  BY DEF Resume, Popped
<1>2. PICK x \in {2, 4}, y \in {3, 5} : x = rptr /\ y = rptr + 1
  <2>1. PICK x \in {2, 4} : x = rptr
    BY Domains
  <2>2. x + 1 \in {3, 5}
    OBVIOUS
  <2> QED
    BY <2>1, <2>2
<1>3. mem[x] \in Int /\ mem[y] \in Int /\ x + RSIZE \in {4, 6}
  <2>1. x \in 0..7 /\ y \in 0..7
    OBVIOUS
  <2>2. mem \in [0..7 -> Int]
    BY Domains
  <2>3. RSIZE = 2
    BY Stacking
  <2> QED
    BY <2>1, <2>2, <2>3
<1>4. cpu' = [a |-> mem[x], pc |-> mem[y], sp |-> x + RSIZE]
  BY <1>1, <1>2 DEF Saved
<1>5. cpu' \in [a : Int, pc : Int, sp : Int] /\ cpu'.sp \in {4, 6} /\ cpu'.pc = mem[y]
  <2>1. x + RSIZE \in Int
    BY <1>3
  <2> QED
    BY <1>3, <1>4, <2>1
<1>6. mem' \in [0..7 -> Int]
  <2>1. [mem EXCEPT ![x] = 0, ![y] = 0] \in [0..7 -> Int]
    <3>1. mem \in [0..7 -> Int]
      BY Domains
    <3> QED
      BY <3>1
  <2> QED
    BY <1>1, <1>2, <2>1
<1>7. Called /\ Lined
  BY <1>1, Domains DEF Called, Lined
<1>8. Types' /\ Stopped'
  BY <1>1, <1>5, <1>6, <1>7, RunsOn
<1>9. mem[y] \notin Between
  BY <1>1, <1>2, NotTorn, Domains
<1>10. ~Half /\ ~Prompted /\ ~Half' /\ ~Prompted'
  BY <1>1, <1>5, <1>9 DEF Half, Prompted, Between
<1>11. Loose'
  BY <1>1, <1>10, TargetQuiet
<1> QED
  BY <1>8, <1>11 DEF IInv
-----------------------------------------------------------------------------
(* The program, and the calls it makes.                                    *)

LEMMA InstructionDone ==
  ASSUME IInv, NEW r \in [a : Int, pc : Int, sp : Int], r.pc \in User, Instruction(r)
  PROVE  mem' \in [0..7 -> Int] /\ cpu' \in [a : Int, pc : Int, sp : Int] /\ cpu'.sp = r.sp /\ cpu'.pc \in User
<1>1. PICK c \in Cells, d \in Data, onA \in BOOLEAN :
        /\ mem' = IF onA THEN mem ELSE [mem EXCEPT ![c] = d]
        /\ cpu' = [r EXCEPT !.a = IF onA THEN d ELSE @, !.pc = 1 - @]
  BY DEF Instruction
<1>2. mem \in [0..7 -> Int] /\ d \in Int /\ c \in 0..7
  BY Domains, Stacking
<1>3. [mem EXCEPT ![c] = d] \in [0..7 -> Int]
  BY <1>2
<1>4. mem' \in [0..7 -> Int]
  BY <1>1, <1>2, <1>3
<1>5. 1 - r.pc \in User /\ 1 - r.pc \in Int
  BY PcsApart
<1>6. PICK x \in Int : x = IF onA THEN d ELSE r.a
  BY <1>2
<1>7. cpu' = [r EXCEPT !.a = x, !.pc = 1 - r.pc]
  BY <1>1, <1>6
<1>8. PICK y \in Int : y = 1 - r.pc
  BY <1>5
<1>9. LET s == [r EXCEPT !.a = x, !.pc = y]
      IN  s \in [a : Int, pc : Int, sp : Int] /\ s.sp = r.sp /\ s.pc = y
  OBVIOUS
<1> QED
  BY <1>4, <1>5, <1>7, <1>8, <1>9

LEMMA OneInstructionOk == ASSUME IInv, OneInstruction PROVE IInv'
<1>1. /\ at = "stepping" /\ at' = "trap" /\ Saved.pc \in User /\ Instruction(Saved)
      /\ UNCHANGED <<rptr, call, toTarget, toHost, host>>
  BY DEF OneInstruction
<1>2. Saved \in [a : Int, pc : Int, sp : Int] /\ Saved.sp \in {4, 6}
  <2>1. PICK x \in {2, 4} : x = rptr
    BY Domains
  <2>2. x \in 0..7 /\ x + 1 \in 0..7
    OBVIOUS
  <2>3. mem \in [0..7 -> Int]
    BY Domains
  <2>4. mem[x] \in Int /\ mem[x + 1] \in Int /\ x + 2 \in {4, 6} /\ x + 2 \in Int
    BY <2>2, <2>3
  <2>5. Saved = [a |-> mem[x], pc |-> mem[x + 1], sp |-> x + 2]
    BY <2>1, Stacking DEF Saved
  <2> QED
    BY <2>4, <2>5
<1>3. mem' \in [0..7 -> Int] /\ cpu' \in [a : Int, pc : Int, sp : Int] /\ cpu'.sp \in {4, 6} /\ cpu'.pc \in User
  BY <1>1, <1>2, InstructionDone
<1>4. Called /\ Lined
  BY <1>1, Domains DEF Called, Lined
<1>5. Types' /\ Stopped'
  BY <1>1, <1>3, <1>4, RunsOn
<1>6. ~Half /\ ~Prompted /\ ~Half' /\ ~Prompted'
  BY <1>1, <1>3, PcsApart DEF Half, Prompted
<1>7. Loose'
  BY <1>1, <1>3, <1>6, TargetQuiet
<1> QED
  BY <1>5, <1>7 DEF IInv

(* The program goes on, somewhere else than half-way through a call, and   *)
(* says nothing.                                                           *)
LEMMA GoesOn ==
  ASSUME IInv, at = "run", cpu.pc \notin Between, UNCHANGED <<at, rptr, host, toTarget, toHost>>,
         mem' \in [0..7 -> Int], cpu' \in [a : Int, pc : Int, sp : Int], cpu'.sp = cpu.sp,
         cpu'.pc \notin Between, Called
  PROVE  IInv'
<1>1. Lined
  BY Domains DEF Lined
<1>2. Types' /\ Stopped'
  <2>1. cpu'.sp \in {4, 6}
    BY Domains
  <2> QED
    BY <1>1, <2>1, RunsOn
<1>3. ~Half /\ ~Prompted /\ ~Half' /\ ~Prompted'
  BY DEF Half, Prompted, Between
<1>4. Loose'
  BY <1>3, TargetQuiet
<1> QED
  BY <1>2, <1>4 DEF IInv

LEMMA UserApart == ASSUME NEW pc \in User PROVE pc \notin Between /\ pc \in Int /\ 1 - pc \in User /\ 1 - pc \notin Between
  BY PcsApart DEF Between

LEMMA UserStepOk == ASSUME IInv, UserStep PROVE IInv'
<1>1. /\ at = "run" /\ cpu.pc \in User /\ Instruction(cpu)
      /\ UNCHANGED <<at, rptr, host, toTarget, toHost, call>>
  BY DEF UserStep, Runs, Quiet
<1>2. mem' \in [0..7 -> Int] /\ cpu' \in [a : Int, pc : Int, sp : Int] /\ cpu'.sp = cpu.sp /\ cpu'.pc \in User
  BY <1>1, Domains, InstructionDone
<1>3. Called
  BY <1>1, Domains DEF Called
<1> QED
  BY <1>1, <1>2, <1>3, UserApart, GoesOn

LEMMA Moved ==
  ASSUME IInv, NEW pc \in Int, cpu' = [cpu EXCEPT !.pc = pc]
  PROVE  cpu' \in [a : Int, pc : Int, sp : Int] /\ cpu'.sp = cpu.sp /\ cpu'.pc = pc
<1>1. cpu \in [a : Int, pc : Int, sp : Int]
  BY Domains
<1>2. /\ [cpu EXCEPT !.pc = pc] \in [a : Int, pc : Int, sp : Int]
      /\ [cpu EXCEPT !.pc = pc].sp = cpu.sp /\ [cpu EXCEPT !.pc = pc].pc = pc
  BY <1>1
<1> QED
  BY <1>2

LEMMA LeaveDummyOk == ASSUME IInv, LeaveDummy PROVE IInv'
<1>1. /\ at = "run" /\ cpu.pc = AFTER_DUMMY /\ cpu' = [cpu EXCEPT !.pc = LOST]
      /\ UNCHANGED <<at, mem, rptr, host, toTarget, toHost, call>>
  BY DEF LeaveDummy, Runs, Quiet
<1>2. AFTER_DUMMY \notin Between /\ LOST \notin Between /\ LOST \in Int
  BY PcsApart DEF Between
<1>3. Called /\ mem' \in [0..7 -> Int]
  BY <1>1, Domains DEF Called
<1> QED
  BY <1>1, <1>2, <1>3, Moved, GoesOn

LEMMA CallOk ==
  ASSUME IInv, NEW pc \in {PROMPT, CONSTAT, RETURN, OUT1}, NEW on, NEW size \in Nat, BdosCall(pc, on), CallTo(size)
  PROVE  IInv'
<1>1. /\ at = "run" /\ cpu.pc \in User /\ cpu' = [cpu EXCEPT !.pc = pc]
      /\ UNCHANGED <<at, mem, rptr, host, toTarget, toHost>>
  BY DEF BdosCall, Runs, Quiet
<1>2. pc \notin Between /\ pc \in Int
  BY PcsApart DEF Between
<1>3. Called
  <2>1. <<>> \in Seq(Int)
    OBVIOUS
  <2> QED
    BY <1>1, <2>1, UserApart DEF Called, CallTo
<1>4. mem' \in [0..7 -> Int]
  BY <1>1, Domains
<1> QED
  BY <1>1, <1>2, <1>3, <1>4, Moved, UserApart, GoesOn

LEMMA BdosCallsOk ==
  ASSUME IInv, ConIn \/ ReadBuf \/ ConStat \/ OtherCall
  PROVE  IInv'
<1>1. CASE ConIn
  BY <1>1, CallOk DEF ConIn
<1>2. CASE ReadBuf
  <2>1. PICK n \in LineSizes : BdosCall(PROMPT, FALSE) /\ CallTo(n)
    BY <1>2 DEF ReadBuf
  <2>2. n \in Nat
    BY LuciferAssumption
  <2> QED
    BY <2>1, <2>2, CallOk
<1>3. CASE ConStat
  BY <1>3, CallOk DEF ConStat
<1>4. CASE OtherCall
  <2>1. PICK pc \in {RETURN, OUT1} : BdosCall(pc, TRUE) /\ CallTo(0)
    BY <1>4 DEF OtherCall
  <2> QED
    BY <2>1, CallOk
<1> QED
  BY <1>1, <1>2, <1>3, <1>4

LEMMA BackTo ==
  ASSUME IInv, NEW a \in Int, Back(a)
  PROVE  /\ cpu' \in [a : Int, pc : Int, sp : Int] /\ cpu'.sp = cpu.sp /\ cpu'.pc \in User
         /\ Called /\ UNCHANGED <<mem, rptr, at>>
<1>1. cpu \in [a : Int, pc : Int, sp : Int] /\ call.ret \in User /\ call.ret \in Int
  BY Domains, UserApart
<1>2. cpu' = [cpu EXCEPT !.a = a, !.pc = call.ret]
  BY DEF Back
<1>3. /\ [cpu EXCEPT !.a = a, !.pc = call.ret] \in [a : Int, pc : Int, sp : Int]
      /\ [cpu EXCEPT !.a = a, !.pc = call.ret].sp = cpu.sp
      /\ [cpu EXCEPT !.a = a, !.pc = call.ret].pc = call.ret
  BY <1>1
<1>4. Called
  BY OwnKnown DEF Back, Called
<1> QED
  BY <1>1, <1>2, <1>3, <1>4 DEF Back

LEMMA BackQuietly ==
  ASSUME IInv, at = "run", cpu.pc \notin Between, UNCHANGED <<host, toTarget, toHost>>, NEW a \in Int, Back(a)
  PROVE  IInv'
<1>1. /\ cpu' \in [a : Int, pc : Int, sp : Int] /\ cpu'.sp = cpu.sp /\ cpu'.pc \in User
      /\ Called /\ UNCHANGED <<mem, rptr, at>>
  BY BackTo
<1>2. mem' \in [0..7 -> Int]
  BY <1>1, Domains
<1> QED
  BY <1>1, <1>2, UserApart, GoesOn

LEMMA StatusOk == ASSUME IInv, Status \/ Return PROVE IInv'
<1>1. at = "run" /\ cpu.pc \notin Between /\ UNCHANGED <<host, toTarget, toHost>>
  BY PcsApart DEF Status, Return, Runs, Quiet, Between
<1>2. PICK a \in Int : Back(a)
  <2>1. cpu.a \in Int /\ 0 \in Int /\ CALL_SUB \in Int
    BY Domains DEF CALL_SUB
  <2> QED
    BY <2>1 DEF Status, Return
<1> QED
  BY <1>1, <1>2, BackQuietly

(* rst 0: the program's registers where the monitor will find them.        *)
LEMMA RstDone ==
  ASSUME IInv, at = "run", NEW pc \in Int, pc \notin Between, Rst(pc)
  PROVE  Sound /\ cpu' \in [a : Int, pc : Int, sp : Int] /\ at' = "saving"
<1>1. cpu \in [a : Int, pc : Int, sp : Int] /\ cpu.sp \in {4, 6}
  BY Domains
<1>2. PICK r \in [a : Int, pc : Int, sp : Int] : r = [cpu EXCEPT !.pc = pc] /\ r.sp \in {4, 6} /\ r.pc = pc
  <2>1. LET s == [cpu EXCEPT !.pc = pc]
        IN  s \in [a : Int, pc : Int, sp : Int] /\ s.sp = cpu.sp /\ s.pc = pc
    BY <1>1
  <2> QED
    BY <1>1, <2>1
<1>3. Sound
  BY <1>2, Framed DEF Rst
<1>4. cpu.sp - RSIZE \in Int
  BY <1>1, Stacking
<1>5. cpu' \in [a : Int, pc : Int, sp : Int]
  BY <1>4, OwnKnown DEF Rst
<1> QED
  BY <1>3, <1>5 DEF Rst

LEMMA StopsQuietly ==
  ASSUME IInv, at = "run", cpu.pc \notin Between, NEW pc \in Int, pc \notin Between, Rst(pc),
         UNCHANGED <<host, toTarget, toHost, call>>
  PROVE  IInv'
<1>1. Sound /\ cpu' \in [a : Int, pc : Int, sp : Int] /\ at' = "saving"
  BY RstDone
<1>2. Lined /\ Called
  BY Domains DEF Lined, Called
<1>3. Types' /\ Stopped'
  BY <1>1, <1>2, Stands
<1>4. ~Half /\ ~Prompted /\ ~Half' /\ ~Prompted'
  BY <1>1 DEF Half, Prompted, Between
<1>5. Loose'
  BY <1>1, <1>4, TargetQuiet
<1> QED
  BY <1>3, <1>5 DEF IInv

LEMMA UserStopsOk == ASSUME IInv, UserStops PROVE IInv'
<1>1. /\ at = "run" /\ cpu.pc \in User \cup {DUMMY} /\ UNCHANGED <<host, toTarget, toHost, call>>
      /\ Rst(IF cpu.pc = DUMMY THEN AFTER_DUMMY ELSE 1 - cpu.pc)
  BY DEF UserStops, Runs, Quiet
<1>2. PICK pc \in Int : pc = (IF cpu.pc = DUMMY THEN AFTER_DUMMY ELSE 1 - cpu.pc) /\ pc \notin Between
  <2>1. AFTER_DUMMY \in Int /\ AFTER_DUMMY \notin Between
    BY PcsApart DEF Between
  <2>2. cpu.pc # DUMMY => 1 - cpu.pc \in Int /\ 1 - cpu.pc \notin Between
    BY <1>1, UserApart
  <2> QED
    BY <2>1, <2>2
<1>3. cpu.pc \notin Between
  BY <1>1, PcsApart DEF Between
<1> QED
  BY <1>1, <1>2, <1>3, StopsQuietly

LEMMA ErrStopsOk == ASSUME IInv, ErrStops PROVE IInv'
<1>1. at = "run" /\ cpu.pc = OUT3 /\ UNCHANGED <<host, toTarget, toHost, call>> /\ Rst(RETURN)
  BY DEF ErrStops, Runs, Quiet
<1>2. OUT3 \notin Between /\ RETURN \notin Between /\ RETURN \in Int
  BY PcsApart DEF Between
<1> QED
  BY <1>1, <1>2, StopsQuietly

(* The program says something, from a place in no message.                 *)
LEMMA Longer ==
  ASSUME NEW S, NEW s \in Seq(S), NEW m \in Seq(S), s # <<>> \/ m # <<>>
  PROVE  s \o m # <<>>
<1>1. PICK j \in Nat, k \in Nat : j = Len(s) /\ k = Len(m) /\ j + k # 0
  <2>1. PICK j \in Nat, k \in Nat : j = Len(s) /\ k = Len(m)
    OBVIOUS
  <2>2. j # 0 \/ k # 0
    BY <2>1
  <2> QED
    BY <2>1, <2>2
<1>2. PICK t \in Seq(S) : t = s \o m /\ Len(t) = j + k
  <2>1. s \o m \in Seq(S) /\ Len(s \o m) = Len(s) + Len(m)
    BY Joined
  <2> QED
    BY <1>1, <2>1
<1>3. t # <<>>
  BY <1>1, <1>2
<1> QED
  BY <1>2, <1>3

LEMMA Says ==
  ASSUME IInv, at = "run", ~Half, ~Prompted, ~Half', UNCHANGED <<toTarget, host>>,
         at' = "run" \/ (at' = "trap" /\ HasStop),
         NEW m \in Seq(Told), Put(m), m # <<>>, m[1].as = "code", m[1].v \in {OUTPUT, INPUT},
         MessageLen(m[1].v) = Len(m), \A i \in 2..Len(m) : m[i].as = "data",
         m[1].v = INPUT => Prompted' \/ at' = "trap", Prompted' => m[1].v = INPUT
  PROVE  Loose' /\ Lined
<1>1. Loose
  BY Phases
<1>2. Talk \in Seq(Told) /\ toHost' \in Seq(Told) /\ Talk' = Talk \o m /\ toHost' = toHost \o m
  BY <1>1, TalkGrows DEF Put
<1>3. Messages(Talk, FALSE) /\ Reports(Talk) = {} /\ Inputs(Talk) = {}
  <2>1. Half = FALSE
    BY DEF Half
  <2> QED
    BY <1>1, <2>1 DEF Loose
<1>4. m[1].v \in Codes /\ m[1].v \notin {STOPPED, STOPCALL} /\ OUTPUT # INPUT
  BY CodesApart DEF Codes
<1>5. /\ Messages(Talk', FALSE) /\ Reports(Talk') = {}
      /\ Inputs(Talk') = IF m[1].v = INPUT THEN {Len(Talk) + 1} ELSE {}
  <2>1. /\ Messages(Talk \o m, FALSE)
        /\ Inputs(Talk \o m) = Inputs(Talk) \cup (IF m[1].v = INPUT THEN {Len(Talk) + 1} ELSE {})
        /\ Reports(Talk \o m) = Reports(Talk) \cup (IF m[1].v \in {STOPPED, STOPCALL} THEN {Len(Talk) + 1} ELSE {})
    BY <1>2, <1>3, <1>4, MessageAdded
  <2> QED
    BY <1>2, <1>3, <1>4, <2>1
<1>6. Kept
  <2>1. toHost \in Seq(Told) /\ (toHost # <<>> => toHost \o m # <<>>)
    BY Domains, Longer
  <2> QED
    BY <1>2, <2>1 DEF Kept, Torn
<1>7. Messages(Talk', Half')
  <2>1. Half' = FALSE
    BY DEF Half
  <2> QED
    BY <1>5, <2>1
<1>8. /\ at' = "main" <=> Reports(Talk') # {}
      /\ \A i \in Reports(Talk') : i + MessageLen(Talk'[i].v) = Len(Talk') + 1
      /\ \A i, j \in Inputs(Talk') : i = j
      /\ Inputs(Talk') = Inputs(Talk) \/ Prompted' \/ (at' = "trap" /\ HasStop)
      /\ Prompted' => Inputs(Talk') # {}
  BY <1>3, <1>5
<1>9. Loose'
  BY <1>6, <1>7, <1>8, TargetTalks
<1>10. Lined
  BY <1>2, Domains DEF Lined
<1> QED
  BY <1>9, <1>10

LEMMA ConOutOk == ASSUME IInv, ConOut PROVE IInv'
<1>1. /\ at = "run" /\ cpu.pc \in User /\ Put(Code(<<OUTPUT, cpu.a>>)) /\ cpu' = [cpu EXCEPT !.pc = 1 - @]
      /\ UNCHANGED <<mem, rptr, at, call, toTarget, host>>
  BY DEF ConOut, Runs
<1>2. PICK m \in Seq(Told) :
        /\ m = Code(<<OUTPUT, cpu.a>>) /\ m # <<>> /\ m[1].as = "code" /\ m[1].v = OUTPUT
        /\ Len(m) = 2 /\ \A i \in 2..Len(m) : m[i].as = "data"
  <2>1. PICK x \in Value, y \in Value : x = OUTPUT /\ y = cpu.a
    BY Bytes, Domains
  <2>2. PICK s \in Seq(Value) : s = <<x, y>> /\ Len(s) = 2 /\ s[1] = x /\ s # <<>>
    BY Pair
  <2>3. PICK m \in Seq(Told) : /\ m = Code(s) /\ Len(m) = 2 /\ m[1] = [v |-> x, as |-> "code"]
                              /\ \A i \in 2..Len(m) : m[i].as = "data"
    <3>1. /\ Code(s) \in Seq(Told) /\ Len(Code(s)) = Len(s) /\ Code(s)[1] = [v |-> s[1], as |-> "code"]
          /\ \A i \in 2..Len(s) : Code(s)[i].as = "data"
      BY <2>2, Coded
    <3> QED
      BY <2>2, <3>1
  <2>4. m # <<>>
    BY <2>3
  <2> QED
    BY <2>1, <2>2, <2>3, <2>4
<1>3. MessageLen(m[1].v) = Len(m)
  BY <1>2, CodesApart
<1>4. PICK pc \in Int : pc = 1 - cpu.pc /\ pc \notin Between
  BY <1>1, UserApart
<1>5. cpu' \in [a : Int, pc : Int, sp : Int] /\ cpu'.sp = cpu.sp /\ cpu'.pc = pc
  BY <1>1, <1>4, Moved
<1>6. ~Half /\ ~Prompted /\ ~Half' /\ ~Prompted' /\ m[1].v # INPUT
  <2>1. cpu.pc \notin Between
    BY <1>1, UserApart
  <2>2. m[1].v # INPUT
    BY <1>2, CodesApart
  <2> QED
    BY <1>4, <1>5, <2>1, <2>2 DEF Half, Prompted, Between
<1>7. Loose' /\ Lined
  BY <1>1, <1>2, <1>3, <1>6, Says
<1>8. Types' /\ Stopped'
  <2>1. mem' \in [0..7 -> Int] /\ Called /\ cpu'.sp \in {4, 6}
    BY <1>1, <1>5, Domains DEF Called
  <2> QED
    BY <1>1, <1>5, <1>7, <2>1, RunsOn
<1> QED
  BY <1>7, <1>8 DEF IInv

(* A code of a message alone. *)
LEMMA OneCode ==
  ASSUME NEW c \in Value
  PROVE  LET m == Code(<<c>>)
         IN  m \in Seq(Told) /\ Len(m) = 1 /\ m # <<>> /\ m[1].as = "code" /\ m[1].v = c
             /\ \A i \in 2..Len(m) : m[i].as = "data"
<1>1. PICK s \in Seq(Value) : s = <<c>> /\ Len(s) = 1 /\ s[1] = c /\ s # <<>>
  BY Single
<1>2. /\ Code(s) \in Seq(Told) /\ Len(Code(s)) = Len(s) /\ Code(s)[1] = [v |-> s[1], as |-> "code"]
      /\ \A i \in 2..Len(s) : Code(s)[i].as = "data"
  BY <1>1, Coded
<1>3. PICK m \in Seq(Told) : m = Code(s) /\ Len(m) = 1
  BY <1>1, <1>2
<1>4. m # <<>>
  <2>1. Len(<<>>) = 0 /\ 0 # 1
    OBVIOUS
  <2> QED
    BY <1>3, <2>1, Zenon
<1> QED
  BY <1>1, <1>2, <1>3, <1>4

(* What putch() holds until it is through is a STOP.                       *)
LEMMA HeldStop == ASSUME IInv, at = "run", ~Prompted, Held PROVE HasStop
<1>1. Loose /\ toTarget # <<>>
  BY Phases DEF Held
<1> QED
  BY <1>1 DEF Loose, OnlyStop

LEMMA WentOnto ==
  ASSUME IInv, at = "run", ~Prompted, NEW pc \in Int, Onto(pc), UNCHANGED <<call, host>>, Lined,
         Held => pc \in {OUT2, OUT3, UNASKED}
  PROVE  /\ Types' /\ Stopped' /\ cpu'.pc = pc
         /\ (at' = "run" /\ ~Held) \/ (at' = "trap" /\ Held /\ HasStop)
<1>1. /\ cpu' = [cpu EXCEPT !.pc = pc] /\ at' = IF Held THEN "trap" ELSE at
      /\ UNCHANGED <<mem, rptr>>
  BY DEF Onto
<1>2. cpu' \in [a : Int, pc : Int, sp : Int] /\ cpu'.sp = cpu.sp /\ cpu'.pc = pc
  BY <1>1, Moved
<1>3. mem' \in [0..7 -> Int] /\ Called /\ cpu'.sp \in {4, 6}
  BY <1>1, <1>2, Domains DEF Called
<1>4. (at' = "run" /\ ~Held) \/ (at' = "trap" /\ Held /\ HasStop)
  BY <1>1, HeldStop
<1> QED
  BY <1>1, <1>2, <1>3, <1>4, RunsOn

LEMMA PromptOk == ASSUME IInv, Prompt PROVE IInv'
<1>1. /\ at = "run" /\ cpu.pc = PROMPT /\ Put(Code(<<INPUT>>)) /\ Onto(IF Held THEN UNASKED ELSE PROMPTED)
      /\ UNCHANGED <<call, toTarget, host>>
  BY DEF Prompt, PutFrom
<1>2. PICK m \in Seq(Told) :
        /\ m = Code(<<INPUT>>) /\ m # <<>> /\ m[1].as = "code" /\ m[1].v = INPUT
        /\ Len(m) = 1 /\ \A i \in 2..Len(m) : m[i].as = "data"
  <2>1. INPUT \in Value
    BY Bytes
  <2> QED
    BY <2>1, OneCode
<1>3. MessageLen(m[1].v) = Len(m)
  BY <1>2, CodesApart
<1>4. ~Half /\ ~Prompted
  BY <1>1, PcsApart DEF Half, Prompted
<1>5. Lined
  <2>1. toHost' = toHost \o m /\ toHost \in Seq(Told) /\ toTarget \in Seq(Sent)
    BY <1>1, <1>2, Domains DEF Put
  <2> QED
    BY <1>1, <2>1, Joined DEF Lined
<1>6. PICK pc \in Int : pc = (IF Held THEN UNASKED ELSE PROMPTED)
  BY PcsApart
<1>7. /\ Types' /\ Stopped' /\ cpu'.pc = pc
      /\ (at' = "run" /\ ~Held) \/ (at' = "trap" /\ Held /\ HasStop)
  BY <1>1, <1>4, <1>5, <1>6, WentOnto
<1>8. ~Half' /\ (Prompted' \/ at' = "trap")
  BY <1>6, <1>7, PcsApart DEF Half, Prompted
<1>9. Loose'
  BY <1>1, <1>2, <1>3, <1>4, <1>7, <1>8, Says
<1> QED
  BY <1>7, <1>9 DEF IInv

(* bdoserr's character: first its code, then itself.                       *)
LEMMA ErrOutputOk == ASSUME IInv, ErrOutput PROVE IInv'
<1>1. /\ at = "run" /\ cpu.pc = OUT1 /\ Put(Code(<<OUTPUT>>)) /\ Onto(OUT2)
      /\ UNCHANGED <<call, toTarget, host>>
  BY DEF ErrOutput, PutFrom
<1>2. PICK m \in Seq(Told) : m = Code(<<OUTPUT>>) /\ m # <<>> /\ m[1].as = "code" /\ m[1].v = OUTPUT /\ Len(m) = 1
  <2>1. OUTPUT \in Value
    BY Bytes
  <2> QED
    BY <2>1, OneCode
<1>3. ~Half /\ ~Prompted
  BY <1>1, PcsApart DEF Half, Prompted
<1>4. Loose /\ toHost' = toHost \o m
  BY <1>1, <1>2, Phases DEF Put
<1>5. Talk \in Seq(Told) /\ toHost' \in Seq(Told) /\ Talk' = Talk \o m
  BY <1>1, <1>4, TalkGrows
<1>6. /\ Types' /\ Stopped' /\ cpu'.pc = OUT2
      /\ (at' = "run" /\ ~Held) \/ (at' = "trap" /\ Held /\ HasStop)
  <2>1. Lined
    BY <1>1, <1>5, Domains DEF Lined
  <2> QED
    BY <1>1, <1>3, <2>1, PcsApart, WentOnto
<1>7. Half' = TRUE /\ ~Prompted'
  BY <1>6, PcsApart DEF Half, Prompted
<1>8. Messages(Talk, FALSE) /\ Reports(Talk) = {} /\ \A i, j \in Inputs(Talk) : i = j
  <2>1. Half = FALSE
    BY <1>3 DEF Half
  <2> QED
    BY <1>1, <1>4, <2>1 DEF Loose
<1>9. Messages(Talk', TRUE) /\ Inputs(Talk') = Inputs(Talk) /\ Reports(Talk') = {}
  <2>1. Messages(Talk \o m, TRUE) /\ Inputs(Talk \o m) = Inputs(Talk) /\ Reports(Talk \o m) = Reports(Talk)
    BY <1>2, <1>5, <1>8, HalfAdded
  <2> QED
    BY <1>5, <1>8, <2>1
<1>10. Kept
  <2>1. toHost \in Seq(Told) /\ (toHost # <<>> => toHost \o m # <<>>)
    BY Domains, Longer
  <2> QED
    BY <1>1, <1>3, <1>4, <1>6, <2>1 DEF Kept, Torn
<1>11. Loose'
  BY <1>1, <1>6, <1>7, <1>8, <1>9, <1>10, TargetTalks
<1> QED
  BY <1>6, <1>11 DEF IInv

LEMMA ErrCharOk == ASSUME IInv, ErrChar PROVE IInv'
<1>1. /\ at = "run" /\ cpu.pc = OUT2 /\ Put(As("data", <<0>>)) /\ UNCHANGED <<call, toTarget, host>>
      /\ (IF Held THEN Onto(OUT3) ELSE Rst(RETURN))
  BY DEF ErrChar, PutFrom
<1>2. PICK m \in Seq(Told) : m = As("data", <<0>>) /\ Len(m) = 1 /\ m[1].as = "data"
  <2>1. 0 \in Value
    BY Bytes
  <2>2. PICK s \in Seq(Value) : s = <<0>> /\ Len(s) = 1
    BY <2>1, Single
  <2>3. 1 \in 1..Len(s)
    BY <2>2
  <2> QED
    BY <2>2, <2>3, AsData
<1>3. Half = TRUE /\ ~Prompted
  BY <1>1, PcsApart DEF Half, Prompted
<1>4. Loose /\ toHost' = toHost \o m
  BY <1>1, <1>2, Phases DEF Put
<1>5. Talk \in Seq(Told) /\ toHost' \in Seq(Told) /\ Talk' = Talk \o m
  BY <1>1, <1>4, TalkGrows
<1>6. Lined /\ (UNCHANGED call => Called)
  BY <1>1, <1>5, Domains DEF Called, Lined
<1>7. /\ Types' /\ Stopped' /\ at' \in {"saving", "trap"}
      /\ at' = "trap" => HasStop /\ cpu'.pc = OUT3
  <2>1. CASE Held
    BY <1>1, <1>3, <1>6, <2>1, PcsApart, WentOnto
  <2>2. CASE ~Held
    <3>1. RETURN \in Int /\ RETURN \notin Between
      BY PcsApart DEF Between
    <3>2. Sound /\ cpu' \in [a : Int, pc : Int, sp : Int] /\ at' = "saving"
      BY <1>1, <2>2, <3>1, RstDone
    <3> QED
      BY <1>1, <1>6, <3>2, Stands
  <2> QED
    BY <2>1, <2>2
<1>8. Half' = FALSE /\ ~Prompted'
  BY <1>7, PcsApart DEF Half, Prompted
<1>9. Messages(Talk, TRUE) /\ Reports(Talk) = {} /\ \A i, j \in Inputs(Talk) : i = j
  BY <1>1, <1>3, <1>4 DEF Loose
<1>10. Messages(Talk', FALSE) /\ Inputs(Talk') = Inputs(Talk) /\ Reports(Talk') = {}
  <2>1. Messages(Talk \o m, FALSE) /\ Inputs(Talk \o m) = Inputs(Talk) /\ Reports(Talk \o m) = Reports(Talk)
    BY <1>2, <1>5, <1>9, HalfCompleted
  <2> QED
    BY <1>5, <1>9, <2>1
<1>11. Kept
  <2>1. toHost \in Seq(Told) /\ (toHost # <<>> => toHost \o m # <<>>)
    BY Domains, Longer
  <2> QED
    BY <1>1, <1>3, <1>4, <1>7, <2>1 DEF Kept, Torn
<1>12. Loose'
  BY <1>7, <1>8, <1>9, <1>10, <1>11, TargetTalks
<1> QED
  BY <1>7, <1>12 DEF IInv

(* A byte the program waited for: a STOP, or a key.                        *)
LEMMA TakenByte ==
  ASSUME IInv, Taken
  PROVE  /\ at = "run" /\ cpu.pc \in {PROMPTED, UNASKED} /\ Loose /\ ~Half /\ UNCHANGED <<host, toHost>>
         /\ toTarget # <<>> /\ toTarget' = Tail(toTarget) /\ toTarget' \in Seq(Sent)
         /\ ~host.asked /\ Command \in Int
         /\ Command = STOP => HasStop /\ toTarget' = <<>>
         /\ Command # STOP => /\ HasKey /\ Prompted
                              /\ (toTarget' = <<>> /\ ~HasStop) \/ (Len(toTarget') = 1 /\ HasStop /\ HasStop')
<1>1. /\ at = "run" /\ cpu.pc \in {PROMPTED, UNASKED} /\ UNCHANGED <<host, toHost>>
      /\ toTarget # <<>> /\ toTarget' = Tail(toTarget)
  BY DEF Taken, Runs
<1>2. Loose /\ ~Half
  BY <1>1, Phases, PcsApart DEF Half
<1>3. PICK t \in Seq(Sent), u \in Seq(Sent), n \in Nat :
        /\ t = toTarget /\ u = Tail(t) /\ Len(t) = n + 1 /\ Len(u) = n
        /\ \A i \in 1..n : u[i] = t[i + 1]
        /\ Head(t) = t[1] /\ t[1] \in Sent
  <2>1. PICK t \in Seq(Sent) : t = toTarget /\ t # <<>>
    BY <1>1, Domains
  <2>2. PICK u \in Seq(Sent), n \in Nat : u = Tail(t) /\ n = Len(u)
    BY <2>1, Ending
  <2>3. Len(u) = Len(t) - 1 /\ Len(t) \in Nat \ {0} /\ Head(t) = t[1] /\ t[1] \in Sent
        /\ \A i \in 1..(Len(t) - 1) : u[i] = t[i + 1]
    BY <2>1, <2>2, Ending
  <2>4. Len(t) = n + 1 /\ Len(t) - 1 = n
    BY <2>2, <2>3
  <2> QED
    BY <2>1, <2>2, <2>3, <2>4
<1>4. Command = t[1].v /\ Command \in Int
  BY <1>3 DEF Command, Sent
<1>5. ~host.asked
  BY <1>1, <1>2 DEF Loose
<1>6. (IsStop(t[1]) => ~IsKey(t[1])) /\ (IsStop(t[1]) => Command = STOP) /\ (IsKey(t[1]) => Command # STOP)
  BY <1>4 DEF IsStop, IsKey
<1>7. (HasKey <=> IsKey(t[1])) /\ (HasStop <=> IsStop(t[n + 1])) /\ Len(toTarget) = n + 1
  BY <1>1, <1>3 DEF HasKey, HasStop
<1>8. (n = 0 /\ HasStop) \/ (HasKey /\ (n = 0 \/ (n = 1 /\ HasStop)))
  <2>1. OnlyStop \/ (HasKey /\ (Len(toTarget) = 1 \/ (Len(toTarget) = 2 /\ HasStop)))
    BY <1>2 DEF Loose
  <2>2. (Len(toTarget) = 1 => n = 0) /\ (Len(toTarget) = 2 => n = 1)
    BY <1>7
  <2> QED
    BY <1>1, <2>1, <2>2 DEF OnlyStop
<1>9. n = 0 => toTarget' = <<>>
  BY <1>1, <1>3
<1>10. n = 0 => t[n + 1] = t[1]
  OBVIOUS
<1>11. Command = STOP => HasStop /\ toTarget' = <<>>
  BY <1>6, <1>7, <1>8, <1>9
<1>12. n = 1 => Len(toTarget') = 1 /\ (HasStop' <=> HasStop)
  <2>1. ASSUME n = 1 PROVE u[1] = t[n + 1] /\ u # <<>> /\ Len(u) = 1
    <3>1. 1 \in 1..n /\ 1 + 1 = n + 1
      BY <2>1
    <3>2. u[1] = t[n + 1]
      BY <1>3, <3>1
    <3>3. Len(<<>>) = 0 /\ 0 # 1 /\ Len(u) = 1
      BY <1>3, <2>1
    <3> QED
      BY <3>2, <3>3, Zenon
  <2>2. toTarget' = u
    BY <1>1, <1>3
  <2>3. HasStop' <=> (u # <<>> /\ IsStop(u[Len(u)]))
    BY <2>2 DEF HasStop
  <2> QED
    BY <1>7, <2>1, <2>2, <2>3
<1>13. Command # STOP => HasKey /\ Prompted
  BY <1>2, <1>6, <1>7, <1>8, <1>10 DEF Loose
<1>14. HasKey /\ n = 0 => ~HasStop
  BY <1>6, <1>7, <1>10
<1>15. Command # STOP => ((toTarget' = <<>> /\ ~HasStop) \/ (Len(toTarget') = 1 /\ HasStop /\ HasStop'))
  <2>1. SUFFICES ASSUME Command # STOP
                 PROVE  (toTarget' = <<>> /\ ~HasStop) \/ (Len(toTarget') = 1 /\ HasStop /\ HasStop')
    OBVIOUS
  <2>2. CASE n = 0
    BY <1>9, <1>13, <1>14, <2>1, <2>2
  <2>3. CASE n # 0
    <3>1. n = 1 /\ HasStop
      BY <1>8, <2>3
    <3> QED
      BY <1>12, <3>1, Zenon
  <2> QED
    BY <2>2, <2>3
<1>16. toTarget' \in Seq(Sent)
  BY <1>1, <1>3
<1> QED
  BY <1>1, <1>2, <1>4, <1>5, <1>11, <1>13, <1>15, <1>16

LEMMA StopTakenOk == ASSUME IInv, StopTaken PROVE IInv'
<1>1. /\ at = "run" /\ Loose /\ ~Half /\ UNCHANGED <<host, toHost, call>>
      /\ ~host.asked /\ HasStop /\ toTarget' = <<>> /\ Rst(PROMPT)
  BY TakenByte DEF StopTaken, AfterStop
<1>2. Sound /\ cpu' \in [a : Int, pc : Int, sp : Int] /\ at' = "saving"
  <2>1. PROMPT \in Int /\ PROMPT \notin Between
    BY PcsApart DEF Between
  <2> QED
    BY <1>1, <2>1, RstDone
<1>3. Lined /\ Called
  <2>1. <<>> \in Seq(Sent)
    OBVIOUS
  <2> QED
    BY <1>1, <2>1, Domains DEF Lined, Called
<1>4. Types' /\ Stopped'
  BY <1>1, <1>2, <1>3, Stands
<1>5. Talk' = Talk /\ host' = host
  BY <1>1, TalkGrows
<1>6. Half = FALSE /\ Half' = FALSE /\ ~Prompted' /\ ~HasStop' /\ ~HasKey' /\ OnlyStop'
  BY <1>1, <1>2 DEF Half, Prompted, HasStop, HasKey, OnlyStop
<1>7. host.stop /\ host.runs
  BY <1>1 DEF Loose, HasStop
<1>8. Reports(Talk) = {}
  BY <1>1 DEF Loose
<1>9. Loose'
  <2>1. ~Torn'
    BY <1>2 DEF Torn
  <2> QED
    BY <1>1, <1>2, <1>5, <1>6, <1>7, <1>8, <2>1 DEF Loose
<1> QED
  BY <1>4, <1>9 DEF IInv

LEMMA KeyTaken ==
  ASSUME IInv, Taken, Command # STOP, UNCHANGED <<mem, rptr, at>>, Called,
         cpu' \in [a : Int, pc : Int, sp : Int], cpu'.sp = cpu.sp, cpu'.pc \notin Between
  PROVE  IInv'
<1>1. /\ at = "run" /\ Prompted /\ Loose /\ ~Half /\ UNCHANGED <<host, toHost>> /\ toTarget' \in Seq(Sent)
      /\ ~host.asked /\ HasKey /\ ((toTarget' = <<>> /\ ~HasStop) \/ (Len(toTarget') = 1 /\ HasStop /\ HasStop'))
  BY TakenByte
<1>2. Types' /\ Stopped'
  <2>1. Lined /\ mem' \in [0..7 -> Int] /\ cpu'.sp \in {4, 6}
    BY <1>1, Domains DEF Lined
  <2> QED
    BY <1>1, <2>1, RunsOn
<1>3. Talk' = Talk /\ host' = host
  BY <1>1, TalkGrows
<1>4. Half = FALSE /\ Half' = FALSE /\ ~Prompted'
  BY <1>1 DEF Half, Prompted, Between
<1>5. OnlyStop' /\ ~HasKey' /\ (HasStop' <=> HasStop)
  <2>1. CASE toTarget' = <<>> /\ ~HasStop
    BY <2>1 DEF OnlyStop, HasKey, HasStop
  <2>2. CASE Len(toTarget') = 1 /\ HasStop /\ HasStop'
    <3>1. IsStop(toTarget[1])'
      BY <2>2 DEF HasStop
    <3>2. ~IsKey(toTarget[1])'
      BY <3>1 DEF IsStop, IsKey
    <3> QED
      BY <2>2, <3>2 DEF OnlyStop, HasKey
  <2> QED
    BY <1>1, <2>1, <2>2
<1>6. Inputs(Talk) = {} /\ host.runs /\ at' = "run"
  BY <1>1 DEF Loose, HasKey
<1>7. (host.stop => HasStop) /\ (HasStop => host.stop)
  BY <1>1 DEF Loose
<1>8. Loose'
  <2>1. ~Torn'
    BY <1>6 DEF Torn
  <2> QED
    BY <1>1, <1>3, <1>4, <1>5, <1>6, <1>7, <2>1 DEF Loose
<1> QED
  BY <1>2, <1>8 DEF IInv

LEMMA CharTakenOk == ASSUME IInv, CharTaken PROVE IInv'
<1>1. Taken /\ Command # STOP /\ Back(Command)
  BY DEF CharTaken
<1>2. Command \in Int
  BY <1>1, TakenByte
<1>3. /\ cpu' \in [a : Int, pc : Int, sp : Int] /\ cpu'.sp = cpu.sp /\ cpu'.pc \in User
      /\ Called /\ UNCHANGED <<mem, rptr, at>>
  BY <1>1, <1>2, BackTo
<1> QED
  BY <1>1, <1>3, UserApart, KeyTaken

LEMMA LineTakenOk == ASSUME IInv, LineTaken PROVE IInv'
<1>1. Taken /\ Command # STOP
  BY DEF LineTaken
<1>2. PICK line \in Seq(Int) : line = IF Command = NEWLINE THEN call.line ELSE Append(call.line, Command)
  <2>1. Command \in Int /\ call.line \in Seq(Int)
    BY <1>1, TakenByte, Domains
  <2>2. Append(call.line, Command) \in Seq(Int)
    BY <2>1
  <2> QED
    BY <2>1, <2>2
<1>3. \/ Back(cpu.a)
      \/ /\ call' = [call EXCEPT !.line = line] /\ cpu' = [cpu EXCEPT !.pc = PROMPT]
         /\ UNCHANGED <<mem, rptr, at>>
  BY <1>2 DEF LineTaken
<1>4. CASE Back(cpu.a)
  <2>1. cpu.a \in Int
    BY Domains
  <2>2. /\ cpu' \in [a : Int, pc : Int, sp : Int] /\ cpu'.sp = cpu.sp /\ cpu'.pc \in User
        /\ Called /\ UNCHANGED <<mem, rptr, at>>
    BY <1>4, <2>1, BackTo
  <2> QED
    BY <1>1, <2>2, UserApart, KeyTaken
<1>5. CASE /\ call' = [call EXCEPT !.line = line] /\ cpu' = [cpu EXCEPT !.pc = PROMPT]
           /\ UNCHANGED <<mem, rptr, at>>
  <2>1. Called
    <3>1. [call EXCEPT !.line = line] \in [ret : User, size : Nat, line : Seq(Int)]
      BY Domains
    <3> QED
      BY <1>5, <3>1 DEF Called
  <2>2. PROMPT \in Int /\ PROMPT \notin Between
    BY PcsApart DEF Between
  <2>3. cpu' \in [a : Int, pc : Int, sp : Int] /\ cpu'.sp = cpu.sp /\ cpu'.pc = PROMPT
    BY <1>5, <2>2, Moved
  <2> QED
    BY <1>1, <1>5, <2>1, <2>2, <2>3, KeyTaken
<1> QED
  BY <1>3, <1>4, <1>5

LEMMA ProgramOk == ASSUME IInv, Program PROVE IInv'
  BY UserStepOk, UserStopsOk, LeaveDummyOk, BdosCallsOk, ConOutOk, StatusOk, PromptOk, StopTakenOk,
     CharTakenOk, LineTakenOk, ErrOutputOk, ErrCharOk, ErrStopsOk DEF Program

LEMMA TargetOk == ASSUME IInv, Gaps = {}, Target PROVE IInv'
  BY ServeOk, InterruptOk, ReportRstOk, ResumeOk, OneInstructionOk, TrapOk, ProgramOk DEF Target
-----------------------------------------------------------------------------
(* The debugger.                                                           *)

LEMMA HostSound ==
  ASSUME IInv, UNCHANGED target, Lined,
         host' \in [req : Requests \cup {Nothing}, runs : BOOLEAN, stop : BOOLEAN, asked : BOOLEAN]
  PROVE  Types' /\ (~Torn \/ host'.runs => Stopped')
  BY DEF IInv, Types, Stopped, target, Lined, Torn, Saved, HasStop

LEMMA Grouped ==
  ASSUME NEW S, NEW s \in Seq(S), NEW a \in Seq(S), NEW b \in Seq(S)
  PROVE  (s \o a) \o b = s \o (a \o b)
<1>1. PICK j \in Nat, k \in Nat, n \in Nat : Len(s) = j /\ Len(a) = k /\ Len(b) = n
  OBVIOUS
<1>2. PICK p \in Seq(S) : p = s \o a /\ Len(p) = j + k
                        /\ \A i \in 1..(j + k) : p[i] = IF i <= j THEN s[i] ELSE a[i - j]
  <2>1. /\ s \o a \in Seq(S) /\ Len(s \o a) = Len(s) + Len(a)
        /\ \A i \in 1..(Len(s) + Len(a)) : (s \o a)[i] = IF i <= Len(s) THEN s[i] ELSE a[i - Len(s)]
    BY Joined
  <2>2. Len(s) = j /\ Len(a) = k
    BY <1>1
  <2>3. PICK p \in Seq(S) : p = s \o a
    BY <2>1
  <2>4. Len(p) = j + k /\ \A i \in 1..(j + k) : p[i] = IF i <= j THEN s[i] ELSE a[i - j]
    BY <2>1, <2>2, <2>3, Zenon
  <2> QED
    BY <2>3, <2>4, Zenon
<1>3. PICK q \in Seq(S) : q = a \o b /\ Len(q) = k + n
                        /\ \A i \in 1..(k + n) : q[i] = IF i <= k THEN a[i] ELSE b[i - k]
  <2>1. /\ a \o b \in Seq(S) /\ Len(a \o b) = Len(a) + Len(b)
        /\ \A i \in 1..(Len(a) + Len(b)) : (a \o b)[i] = IF i <= Len(a) THEN a[i] ELSE b[i - Len(a)]
    BY Joined
  <2>2. Len(a) = k /\ Len(b) = n
    BY <1>1
  <2>3. PICK q \in Seq(S) : q = a \o b
    BY <2>1
  <2>4. Len(q) = k + n /\ \A i \in 1..(k + n) : q[i] = IF i <= k THEN a[i] ELSE b[i - k]
    BY <2>1, <2>2, <2>3, Zenon
  <2> QED
    BY <2>3, <2>4, Zenon
<1>4. PICK u \in Seq(S) : u = p \o b /\ Len(u) = (j + k) + n
                        /\ \A i \in 1..((j + k) + n) : u[i] = IF i <= (j + k) THEN p[i] ELSE b[i - (j + k)]
  <2>1. /\ p \o b \in Seq(S) /\ Len(p \o b) = Len(p) + Len(b)
        /\ \A i \in 1..(Len(p) + Len(b)) : (p \o b)[i] = IF i <= Len(p) THEN p[i] ELSE b[i - Len(p)]
    BY Joined
  <2>2. Len(p) = (j + k) /\ Len(b) = n
    BY <1>1, <1>2
  <2>3. PICK u \in Seq(S) : u = p \o b
    BY <2>1
  <2>4. Len(u) = (j + k) + n /\ \A i \in 1..((j + k) + n) : u[i] = IF i <= (j + k) THEN p[i] ELSE b[i - (j + k)]
    BY <2>1, <2>2, <2>3, Zenon
  <2> QED
    BY <2>3, <2>4, Zenon
<1>5. PICK v \in Seq(S) : v = s \o q /\ Len(v) = j + (k + n)
                        /\ \A i \in 1..(j + (k + n)) : v[i] = IF i <= j THEN s[i] ELSE q[i - j]
  <2>1. /\ s \o q \in Seq(S) /\ Len(s \o q) = Len(s) + Len(q)
        /\ \A i \in 1..(Len(s) + Len(q)) : (s \o q)[i] = IF i <= Len(s) THEN s[i] ELSE q[i - Len(s)]
    BY Joined
  <2>2. Len(s) = j /\ Len(q) = (k + n)
    BY <1>1, <1>3
  <2>3. PICK v \in Seq(S) : v = s \o q
    BY <2>1
  <2>4. Len(v) = j + (k + n) /\ \A i \in 1..(j + (k + n)) : v[i] = IF i <= j THEN s[i] ELSE q[i - j]
    BY <2>1, <2>2, <2>3, Zenon
  <2> QED
    BY <2>3, <2>4, Zenon
<1>6. ASSUME NEW i \in 1..((j + k) + n) PROVE u[i] = v[i]
  <2>1. i \in 1..(j + (k + n)) /\ i \in Int
    OBVIOUS
  <2>2. CASE i <= j
    <3>1. i <= j + k /\ i \in 1..(j + k)
      BY <2>2
    <3> QED
      BY <1>2, <1>4, <1>5, <2>1, <2>2, <3>1
  <2>3. CASE i > j /\ i <= j + k
    <3>1. i \in 1..(j + k) /\ ~(i <= j) /\ i - j \in 1..(k + n) /\ i - j <= k
      BY <2>3
    <3>2. u[i] = p[i] /\ p[i] = a[i - j]
      BY <1>2, <1>4, <2>3, <3>1
    <3>3. v[i] = q[i - j] /\ q[i - j] = a[i - j]
      BY <1>3, <1>5, <2>1, <3>1
    <3> QED
      BY <3>2, <3>3
  <2>4. CASE i > j + k
    <3>1. ~(i <= j) /\ i - j \in 1..(k + n) /\ ~(i - j <= k) /\ ~(i <= j + k) /\ (i - j) - k = i - (j + k)
      BY <2>4
    <3>2. u[i] = b[i - (j + k)]
      BY <1>4, <3>1
    <3>3. v[i] = q[i - j] /\ q[i - j] = b[(i - j) - k]
      BY <1>3, <1>5, <2>1, <3>1
    <3> QED
      BY <3>1, <3>2, <3>3
  <2> QED
    BY <2>1, <2>2, <2>3, <2>4
<1>7. (j + k) + n = j + (k + n) /\ (j + k) + n \in Nat
  OBVIOUS
<1>8. u = v
  BY <1>4, <1>5, <1>6, <1>7, SameText
<1> QED
  BY <1>2, <1>3, <1>4, <1>5, <1>8

LEMMA AskOk == ASSUME IInv, NEW r \in Requests, Ask(r) PROVE IInv'
<1>1. /\ ~host.runs /\ host.req = Nothing /\ host' = [host EXCEPT !.req = r] /\ UNCHANGED <<target, toHost>>
      /\ toTarget' = toTarget \o As("command", <<Head(Encoded(r))>>) \o As("arg", Tail(Encoded(r)))
  BY DEF Ask
<1>2. Waiting
  BY <1>1, Phases
<1>3. toTarget' = toTarget \o Request(r) /\ Request(r) \in Seq(Sent) /\ toTarget \in Seq(Sent)
  <2>1. As("command", <<Head(Encoded(r))>>) \in Seq(Sent) /\ As("arg", Tail(Encoded(r))) \in Seq(Sent)
    BY Requested
  <2>2. PICK a \in Seq(Sent), b \in Seq(Sent) :
          a = As("command", <<Head(Encoded(r))>>) /\ b = As("arg", Tail(Encoded(r)))
    BY <2>1
  <2>3. toTarget \in Seq(Sent)
    BY Domains
  <2>4. (toTarget \o a) \o b = toTarget \o (a \o b)
    BY <2>3, Grouped
  <2>5. Request(r) = a \o b
    BY <2>2 DEF Request
  <2>6. toTarget' = (toTarget \o a) \o b
    BY <1>1, <2>2
  <2> QED
    BY <2>3, <2>4, <2>5, <2>6, Requested
<1>4. host' \in [req : Requests \cup {Nothing}, runs : BOOLEAN, stop : BOOLEAN, asked : BOOLEAN]
      /\ host'.req = r /\ host'.runs = host.runs /\ host'.stop = host.stop /\ host'.asked = host.asked
  BY <1>1, HostKnown
<1>5. Lined
  <2>1. toTarget \o Request(r) \in Seq(Sent)
    BY <1>3, Joined
  <2> QED
    BY <1>1, <1>3, <2>1, Domains DEF Lined
<1>6. Types' /\ Stopped'
  BY <1>1, <1>4, <1>5, NotTorn, HostSound
<1>7. \/ toTarget' = Request(r)
      \/ toTarget' # <<>> /\ IsStop(Head(toTarget')) /\ Tail(toTarget') = Request(r)
  <2>1. PICK q \in Seq(Sent) : q = Request(r)
    BY <1>3
  <2>2. CASE toTarget = <<>>
    <3>1. <<>> \o q = q
      OBVIOUS
    <3> QED
      BY <1>3, <2>1, <2>2, <3>1
  <2>3. CASE toTarget # <<>> /\ Len(toTarget) = 1 /\ HasStop
    <3>1. PICK t \in Seq(Sent) : t = toTarget /\ t # <<>> /\ Len(t) = 1 /\ IsStop(t[1]) /\ Tail(t) = <<>>
      <4>1. toTarget \in Seq(Sent) /\ Tail(toTarget) = <<>>
        BY <1>3, <2>3, Ending
      <4> QED
        BY <2>3, <4>1 DEF HasStop
    <3>2. t \o q \in Seq(Sent) /\ t \o q # <<>>
      BY <3>1, Joined, Longer
    <3>3. Tail(t \o q) = Tail(t) \o q
      BY <3>1, RestJoined
    <3>4. <<>> \o q = q
      OBVIOUS
    <3>5. Head(t \o q) = t[1]
      <4>1. PICK u \in Seq(Sent) : u = t \o q /\ u # <<>>
        BY <3>2
      <4>2. Head(u) = u[1]
        BY <4>1
      <4>3. (t \o q)[1] = t[1]
        BY <3>1
      <4> QED
        BY <4>1, <4>2, <4>3
    <3>6. toTarget' = t \o q
      BY <1>3, <2>1, <3>1
    <3> QED
      BY <2>1, <3>1, <3>2, <3>3, <3>4, <3>5, <3>6, Zenon
  <2> QED
    BY <1>2, <2>2, <2>3 DEF Waiting, OnlyStop
<1>8. Asking'
  <2>1. r # Nothing
    BY RequestKinds
  <2>2. Still' /\ at' = "main" /\ toHost' = <<>> /\ host'.req # Nothing
    BY <1>1, <1>2, <1>4, <2>1 DEF Waiting, Still, target
  <2>3. Request(host.req)' = Request(r)
    BY <1>4
  <2> QED
    BY <1>7, <2>2, <2>3 DEF Asking
<1> QED
  BY <1>6, <1>8 DEF IInv

LEMMA AnswerLens ==
  ASSUME NEW r \in Requests
  PROVE  AnswerLen(r) \in Nat \ {0} /\ (r.do \in {"go", "step"} => AnswerLen(r) = 1)
<1>1. CASE r.do \in {"hello", "go", "step"}
  BY <1>1 DEF AnswerLen
<1>2. CASE r.do \in {"ident", "registers", "set", "write"}
  BY <1>2, Stacking DEF AnswerLen
<1>3. CASE r.do = "read" /\ r.from \in Cells /\ r.to \in Cells /\ r.from <= r.to
  <2>1. AnswerLen(r) = r.to - r.from + 2
    BY <1>3 DEF AnswerLen
  <2>2. PICK f \in {0, 1}, t \in {0, 1} : f = r.from /\ t = r.to
    BY <1>3, Stacking
  <2>3. t - f + 2 \in Nat \ {0}
    OBVIOUS
  <2> QED
    BY <1>3, <2>1, <2>2, <2>3
<1> QED
  BY <1>1, <1>2, <1>3, RequestKinds

LEMMA HeardRest ==
  ASSUME IInv, NEW n \in Nat, Heard(n)
  PROVE  toHost' \in Seq(Told) /\ Lined /\ UNCHANGED <<target, toTarget>> /\ n <= Len(toHost)
         /\ (n = Len(toHost) => toHost' = <<>>)
         /\ (n = 1 => toHost' = Tail(toHost))
<1>1. PICK s \in Seq(Told), k \in Nat : s = toHost /\ k = Len(s) /\ n <= k /\ toHost' = SubSeq(s, n + 1, k)
  <2>1. PICK s \in Seq(Told), k \in Nat : s = toHost /\ k = Len(s)
    BY Domains
  <2>2. n <= k
    BY <2>1 DEF Heard
  <2> QED
    BY <2>1, <2>2 DEF Heard
<1>2. SubSeq(s, n + 1, k) \in Seq(Told) /\ Len(SubSeq(s, n + 1, k)) = k - n
  BY <1>1, Dropped
<1>3. n = k => toHost' = <<>>
  <2>1. \A v \in Seq(Told) : Len(v) = 0 => v = <<>>
    OBVIOUS
  <2>2. n = k => k - n = 0
    BY <1>1
  <2> QED
    BY <1>1, <1>2, <2>1, <2>2
<1>4. n = 1 => toHost' = Tail(toHost)
  <2>1. ASSUME n = 1 PROVE s # <<>> /\ n + 1 = 2
    <3>1. Len(<<>>) = 0 /\ k # 0
      BY <1>1, <2>1
    <3> QED
      BY <1>1, <2>1, <3>1
  <2> QED
    BY <1>1, <2>1, Ending
<1>5. Lined
  BY <1>1, <1>2, Domains DEF Lined, Heard
<1> QED
  BY <1>1, <1>2, <1>3, <1>4, <1>5 DEF Heard

LEMMA HearAnswerOk == ASSUME IInv, HearAnswer PROVE IInv'
<1>1. /\ host.req # Nothing /\ Heard(AnswerLen(host.req))
      /\ host' = [host EXCEPT !.req = Nothing, !.runs = host.req.do \in {"go", "step"}]
  BY DEF HearAnswer
<1>2. host.req \in Requests
  BY <1>1, HostKnown
<1>3. PICK n \in Nat \ {0} : n = AnswerLen(host.req) /\ (host.req.do \in {"go", "step"} => n = 1)
  BY <1>2, AnswerLens
<1>4. toHost' \in Seq(Told) /\ Lined /\ UNCHANGED <<target, toTarget>> /\ n <= Len(toHost)
      /\ (n = Len(toHost) => toHost' = <<>>) /\ (n = 1 => toHost' = Tail(toHost))
  BY <1>1, <1>3, HeardRest
<1>5. /\ host' \in [req : Requests \cup {Nothing}, runs : BOOLEAN, stop : BOOLEAN, asked : BOOLEAN]
      /\ host'.req = Nothing /\ (host'.runs <=> host.req.do \in {"go", "step"})
      /\ host'.stop = host.stop /\ host'.asked = host.asked
  <2>1. \A b \in BOOLEAN : LET h == [host EXCEPT !.req = Nothing, !.runs = b]
        IN  /\ h \in [req : Requests \cup {Nothing}, runs : BOOLEAN, stop : BOOLEAN, asked : BOOLEAN]
            /\ h.req = Nothing /\ h.runs = b /\ h.stop = host.stop /\ h.asked = host.asked
    BY HostKnown
  <2>2. CASE host.req.do \in {"go", "step"}
    <3>1. (host.req.do \in {"go", "step"}) = TRUE
      BY <2>2
    <3>2. host' = [host EXCEPT !.req = Nothing, !.runs = TRUE]
      BY <1>1, <3>1
    <3> QED
      BY <2>1, <2>2, <3>2
  <2>3. CASE host.req.do \notin {"go", "step"}
    <3>1. (host.req.do \in {"go", "step"}) = FALSE
      BY <2>3
    <3>2. host' = [host EXCEPT !.req = Nothing, !.runs = FALSE]
      BY <1>1, <3>1
    <3> QED
      BY <2>1, <2>3, <3>2
  <2> QED
    BY <2>2, <2>3
<1>6. Types' /\ Stopped' /\ ~Torn'
  <2>1. ~Torn
    BY <1>1, Phases DEF Cut
  <2>2. Types' /\ Stopped'
    BY <1>4, <1>5, <2>1, HostSound
  <2>3. at = "main" => mem[rptr + 1] # OUT2
    BY <2>1, Domains DEF Between
  <2>4. ~Torn'
    BY <1>4, <2>3 DEF Torn, Saved, target
  <2> QED
    BY <2>2, <2>4
<1>7. toHost # <<>>
  <2>1. Len(<<>>) = 0 /\ ~(n <= 0)
    BY <1>3
  <2> QED
    BY <1>4, <2>1
<1>8. ~host.runs /\ host.req # Nothing
  BY <1>1, <1>7 DEF IInv, Waiting, Asking, Answered, Loose, Cut, Still
<1>9. CASE Answered
  <2>1. toHost' = <<>> /\ ~host'.runs /\ ~host'.stop /\ ~host'.asked /\ at' = "main" /\ toTarget' = <<>>
    BY <1>3, <1>4, <1>5, <1>9 DEF Answered, Still, target
  <2>2. Waiting'
    BY <1>5, <2>1 DEF Waiting, Still, OnlyStop
  <2> QED
    BY <1>6, <2>2 DEF IInv
<1>10. CASE Loose
  <2>1. host.req.do \in {"go", "step"} /\ toHost' = Tail(toHost) /\ host'.runs
    BY <1>3, <1>4, <1>5, <1>8, <1>10 DEF Loose
  <2>2. Talk' = Talk
    BY <1>8, <2>1 DEF Talk
  <2>3. (Half' <=> Half) /\ (Prompted' <=> Prompted) /\ (HasKey' <=> HasKey) /\ (HasStop' <=> HasStop) /\ (OnlyStop' <=> OnlyStop)
        /\ at' = at /\ toTarget' = toTarget /\ cpu' = cpu
    BY <1>4 DEF Half, Prompted, HasKey, HasStop, OnlyStop, target
  <2>4. Messages(Talk', Half')
    <3>1. Half \in BOOLEAN /\ Half' \in BOOLEAN
      BY DEF Half
    <3>2. Half' = Half
      BY <2>3, <3>1
    <3>3. Messages(Talk, Half)
      BY <1>10 DEF Loose
    <3> QED
      BY <2>2, <3>2, <3>3
  <2>5. Loose'
    BY <1>5, <1>6, <1>10, <2>1, <2>2, <2>3, <2>4 DEF Loose
  <2> QED
    BY <1>6, <2>5 DEF IInv
<1>11. ~Waiting /\ ~Asking /\ ~Cut
  BY <1>1, <1>7 DEF Waiting, Asking, Cut
<1> QED
  BY <1>9, <1>10, <1>11 DEF IInv

LEMMA Appended ==
  ASSUME NEW S, NEW s \in Seq(S), NEW x \in S
  PROVE  LET t == Append(s, x)
         IN  t \in Seq(S) /\ Len(t) = Len(s) + 1 /\ t # <<>> /\ t[Len(t)] = x /\ \A i \in 1..Len(s) : t[i] = s[i]
  OBVIOUS

LEMMA SayStopOk == ASSUME IInv, SayStop PROVE IInv'
<1>1. /\ host.runs /\ ~host.stop /\ host' = [host EXCEPT !.stop = TRUE, !.asked = FALSE]
      /\ toTarget' = Append(toTarget, [v |-> STOP, as |-> "stop"]) /\ UNCHANGED <<target, toHost>>
  BY DEF SayStop
<1>2. Loose
  BY <1>1, Phases DEF Cut
<1>3. PICK b \in Sent : b = [v |-> STOP, as |-> "stop"] /\ IsStop(b) /\ ~IsKey(b)
  <2>1. STOP \in Int
    BY DEF STOP
  <2>2. PICK b : b = [v |-> STOP, as |-> "stop"]
    OBVIOUS
  <2>3. b.v = STOP /\ b.as = "stop" /\ b \in Sent
    BY <2>1, <2>2 DEF Sent
  <2> QED
    BY <2>2, <2>3 DEF IsStop, IsKey
<1>4. PICK s \in Seq(Sent), t \in Seq(Sent), n \in Nat :
        /\ s = toTarget /\ t = toTarget' /\ n = Len(s) /\ Len(t) = n + 1 /\ t # <<>> /\ t[n + 1] = b
        /\ \A i \in 1..n : t[i] = s[i]
  <2>1. PICK s \in Seq(Sent), n \in Nat : s = toTarget /\ n = Len(s)
    BY Domains
  <2>2. PICK t \in Seq(Sent) : t = Append(s, b) /\ Len(t) = n + 1 /\ t # <<>> /\ t[n + 1] = b /\ \A i \in 1..n : t[i] = s[i]
    <3>1. PICK t \in Seq(Sent) : t = Append(s, b)
      BY <2>1, Appended
    <3>2. Len(t) = Len(s) + 1 /\ t # <<>> /\ t[Len(t)] = b /\ \A i \in 1..Len(s) : t[i] = s[i]
      BY <2>1, <3>1, Appended
    <3> QED
      BY <2>1, <3>1, <3>2, Zenon
  <2> QED
    BY <1>1, <1>3, <2>1, <2>2
<1>5. /\ host' \in [req : Requests \cup {Nothing}, runs : BOOLEAN, stop : BOOLEAN, asked : BOOLEAN]
      /\ host'.req = host.req /\ host'.runs /\ host'.stop /\ ~host'.asked
  BY <1>1, HostKnown
<1>6. Types' /\ Stopped'
  <2>1. Lined
    BY <1>1, <1>4, Domains DEF Lined
  <2> QED
    BY <1>1, <1>5, <2>1, HostSound
<1>7. n = 0 \/ (n = 1 /\ HasKey)
  <2>1. ~HasStop
    BY <1>1, <1>2 DEF Loose
  <2>2. toTarget = <<>> \/ (HasKey /\ Len(toTarget) = 1)
    BY <1>2, <2>1 DEF Loose, OnlyStop
  <2>3. toTarget = <<>> => n = 0
    BY <1>4
  <2> QED
    BY <1>4, <2>2, <2>3
<1>8. HasStop'
  BY <1>3, <1>4 DEF HasStop
<1>9. HasKey' <=> HasKey
  <2>1. CASE n = 0
    <3>1. s = <<>> /\ t[1] = b
      <4>1. n + 1 = 1 /\ \A x \in Seq(Sent) : Len(x) = 0 => x = <<>>
        BY <2>1
      <4> QED
        BY <1>4, <2>1, <4>1, Zenon
    <3> QED
      BY <1>3, <1>4, <3>1 DEF HasKey
  <2>2. CASE n = 1 /\ HasKey
    <3>1. t[1] = s[1]
      BY <1>4, <2>2
    <3> QED
      BY <1>4, <2>2, <3>1 DEF HasKey
  <2> QED
    BY <1>7, <2>1, <2>2
<1>10. OnlyStop' \/ (HasKey' /\ Len(toTarget') = 2 /\ HasStop')
  <2>1. CASE n = 0
    <3>1. Len(t) = 1
      BY <1>4, <2>1
    <3> QED
      BY <1>4, <1>8, <3>1 DEF OnlyStop
  <2>2. CASE n = 1 /\ HasKey
    <3>1. Len(t) = 2
      BY <1>4, <2>2
    <3> QED
      BY <1>4, <1>8, <1>9, <2>2, <3>1
  <2> QED
    BY <1>7, <2>1, <2>2
<1>11. /\ Talk' = Talk /\ at' = at /\ cpu' = cpu /\ (Prompted' <=> Prompted) /\ (Half' <=> Half)
       /\ (Torn' <=> Torn)
  BY <1>1, <1>5 DEF Talk, Prompted, Half, Torn, Saved, target
<1>12. Messages(Talk', Half')
  <2>1. Half \in BOOLEAN /\ Half' \in BOOLEAN
    BY DEF Half
  <2>2. Half' = Half
    BY <1>11, <2>1
  <2>3. Messages(Talk, Half)
    BY <1>2 DEF Loose
  <2> QED
    BY <1>11, <2>2, <2>3
<1>13. toTarget' # <<>>
  BY <1>4
<1>14. /\ Reports(Talk') = Reports(Talk) /\ Inputs(Talk') = Inputs(Talk)
       /\ \A i \in Reports(Talk') : i + MessageLen(Talk'[i].v) = Len(Talk') + 1
  BY <1>2, <1>11 DEF Loose
<1>15. Loose'
  BY <1>1, <1>2, <1>5, <1>8, <1>9, <1>10, <1>11, <1>12, <1>13, <1>14 DEF Loose
<1> QED
  BY <1>6, <1>15 DEF IInv

LEMMA TypeOk == ASSUME IInv, Type PROVE IInv'
<1>1. PICK k \in Keys : /\ host.asked /\ host' = [host EXCEPT !.asked = FALSE] /\ UNCHANGED <<target, toHost>>
                        /\ toTarget' = Append(toTarget, [v |-> k, as |-> "key"])
  BY DEF Type
<1>2. Loose /\ host.runs
  BY <1>1, Phases
<1>3. Prompted /\ Inputs(Talk) = {} /\ toTarget = <<>> /\ ~host.stop
  BY <1>1, <1>2 DEF Loose
<1>4. PICK b \in Sent : b = [v |-> k, as |-> "key"] /\ IsKey(b) /\ ~IsStop(b)
  <2>1. k \in Int /\ k # STOP
    BY Stacking
  <2> QED
    <3>1. PICK b : b = [v |-> k, as |-> "key"]
      OBVIOUS
    <3>2. b.v = k /\ b.as = "key" /\ b \in Sent
      BY <2>1, <3>1 DEF Sent
    <3> QED
      BY <2>1, <3>1, <3>2 DEF IsKey, IsStop
<1>5. PICK t \in Seq(Sent) : t = toTarget' /\ Len(t) = 1 /\ t # <<>> /\ t[1] = b
  <2>1. Append(<<>>, b) = <<b>>
    OBVIOUS
  <2>2. PICK t \in Seq(Sent) : t = <<b>> /\ Len(t) = 1 /\ t # <<>> /\ t[1] = b
    BY Single
  <2> QED
    BY <1>1, <1>3, <1>4, <2>1, <2>2
<1>6. /\ host' \in [req : Requests \cup {Nothing}, runs : BOOLEAN, stop : BOOLEAN, asked : BOOLEAN]
      /\ host'.req = host.req /\ host'.runs /\ host'.stop = host.stop /\ ~host'.asked
  BY <1>1, <1>2, HostKnown
<1>7. Types' /\ Stopped'
  <2>1. Lined
    BY <1>1, <1>5, Domains DEF Lined
  <2> QED
    BY <1>1, <1>6, <2>1, HostSound
<1>8. HasKey' /\ ~HasStop' /\ Len(toTarget') = 1 /\ toTarget' # <<>>
  BY <1>4, <1>5 DEF HasKey, HasStop
<1>9. Talk' = Talk /\ at' = at /\ at = "run" /\ Prompted' /\ (Half' <=> Half) /\ (Torn' <=> Torn)
  BY <1>1, <1>2, <1>3, <1>6 DEF Talk, Prompted, Half, Torn, Saved, target
<1>10. Messages(Talk', Half')
  <2>1. Half \in BOOLEAN /\ Half' \in BOOLEAN
    BY DEF Half
  <2>2. Half' = Half
    BY <1>9, <2>1
  <2>3. Messages(Talk, Half)
    BY <1>2 DEF Loose
  <2> QED
    BY <1>9, <2>2, <2>3
<1>11. /\ Reports(Talk') = Reports(Talk) /\ Inputs(Talk') = {}
       /\ \A i \in Reports(Talk') : i + MessageLen(Talk'[i].v) = Len(Talk') + 1
  BY <1>2, <1>3, <1>9 DEF Loose
<1>12. Loose'
  BY <1>2, <1>3, <1>6, <1>8, <1>9, <1>10, <1>11 DEF Loose
<1> QED
  BY <1>7, <1>12 DEF IInv

(* What is left when a message has been heard.                             *)
Marks(s, r, n) ==
  /\ \A i \in Reports(r) : n + i \in Reports(s) /\ r[i] = s[n + i] /\ i \in Nat
  /\ \A i \in Inputs(r) : n + i \in Inputs(s) /\ i \in Nat
  /\ \A i \in Reports(s) : i = 1 \/ i - n \in Reports(r)
  /\ \A i \in Inputs(s) : i = 1 \/ i - n \in Inputs(r)

LEMMA Shifted ==
  ASSUME NEW s \in Seq(Told), NEW half \in BOOLEAN, Messages(s, half), s # <<>>,
         NEW n, n = MessageLen(s[1].v), n <= Len(s), NEW r, r = SubSeq(s, n + 1, Len(s))
  PROVE  /\ r \in Seq(Told) /\ Messages(r, half) /\ Len(r) = Len(s) - n /\ n \in 1..Len(s)
         /\ 1 \in Heads(s) /\ s[1].v \in Codes
         /\ Marks(s, r, n)
<1>1. /\ r \in Seq(Told) /\ Messages(r, half) /\ Len(r) = Len(s) - n /\ n \in 1..Len(s)
      /\ \A i \in 1..Len(r) : r[i] = s[n + i] /\ n + i \in 1..Len(s)
      /\ Heads(r) = {i \in 1..Len(r) : n + i \in Heads(s)}
      /\ 1 \in Heads(s) /\ \A i \in Heads(s) : i = 1 \/ i - n \in Heads(r)
  BY MessageDropped
<1>2. s[1].v \in Codes
  BY <1>1 DEF Messages
<1>3. \A i \in Heads(r) : i \in Nat /\ n + i \in Heads(s) /\ r[i] = s[n + i]
  BY <1>1
<1>4. ASSUME NEW i \in Heads(s), i # 1 PROVE i - n \in Heads(r) /\ r[i - n] = s[i]
  <2>1. i - n \in Heads(r)
    BY <1>1, <1>4
  <2>2. i \in Nat /\ n \in Nat /\ n + (i - n) = i
    <3>1. DOMAIN s = 1..Len(s) /\ i \in DOMAIN s
      BY DEF Heads
    <3>2. i \in Nat /\ n \in Nat
      BY <1>1, <3>1
    <3> QED
      BY <3>2
  <2> QED
    BY <1>3, <2>1, <2>2
<1>5. \A i \in Reports(r) : n + i \in Reports(s) /\ r[i] = s[n + i] /\ i \in Nat
  BY <1>3 DEF Reports
<1>6. \A i \in Inputs(r) : n + i \in Inputs(s) /\ i \in Nat
  BY <1>3 DEF Inputs
<1>7. \A i \in Reports(s) : i = 1 \/ i - n \in Reports(r)
  BY <1>4 DEF Reports
<1>8. \A i \in Inputs(s) : i = 1 \/ i - n \in Inputs(r)
  BY <1>4 DEF Inputs
<1> QED
  BY <1>1, <1>2, <1>5, <1>6, <1>7, <1>8 DEF Marks

LEMMA HearMessageLoose == ASSUME IInv, Loose, HearMessage PROVE IInv'
<1>1. PICK s \in Seq(Told), n \in Nat, c \in Value :
        /\ s = toHost /\ s # <<>> /\ c = s[1].v /\ n = MessageLen(c) /\ Heard(n) /\ host.runs
        /\ host' = CASE c = INPUT -> [host EXCEPT !.asked = ~host.stop]
                     [] c \in {STOPPED, STOPCALL} -> [host EXCEPT !.runs = FALSE, !.stop = FALSE, !.asked = FALSE]
                     [] OTHER -> host
  <2>1. PICK s \in Seq(Told) : s = toHost /\ s # <<>> /\ Head(s) = s[1]
    BY Domains, Ending DEF HearMessage
  <2>2. PICK c \in Value : c = s[1].v
    <3>1. s[1] \in Told
      BY <2>1, Ending
    <3> QED
      BY <3>1 DEF Told
  <2>3. PICK n \in Nat : n = MessageLen(c)
    BY DEF MessageLen
  <2> QED
    BY <2>1, <2>2, <2>3 DEF HearMessage
<1>2. Loose /\ Talk = s
  BY <1>1 DEF Talk
<1>3. PICK half \in BOOLEAN : half = Half
  BY DEF Half
<1>4. Messages(s, half)
  BY <1>2, <1>3 DEF Loose
<1>5. PICK r : r = SubSeq(s, n + 1, Len(s)) /\ toHost' = r /\ n <= Len(s)
  BY <1>1 DEF Heard
<1>6. /\ r \in Seq(Told) /\ Messages(r, half) /\ Len(r) = Len(s) - n /\ n \in 1..Len(s)
      /\ 1 \in Heads(s) /\ c \in Codes /\ Marks(s, r, n)
  BY <1>1, <1>4, <1>5, Shifted
<1>7. /\ \A i \in Reports(r) : n + i \in Reports(s) /\ r[i] = s[n + i] /\ i \in Nat
      /\ \A i \in Inputs(r) : n + i \in Inputs(s) /\ i \in Nat
      /\ \A i \in Reports(s) : i = 1 \/ i - n \in Reports(r)
      /\ \A i \in Inputs(s) : i = 1 \/ i - n \in Inputs(r)
  BY <1>6 DEF Marks
<1>8. UNCHANGED <<target, toTarget>> /\ Lined
  BY <1>1, <1>5, <1>6, Domains DEF Heard, Lined
<1>9. /\ (Half' <=> Half) /\ Half' = half /\ (Prompted' <=> Prompted) /\ (HasKey' <=> HasKey)
      /\ (HasStop' <=> HasStop) /\ (OnlyStop' <=> OnlyStop) /\ at' = at /\ toTarget' = toTarget
      /\ cpu' = cpu /\ (Torn' => Torn)
  <2>1. (Half' <=> Half) /\ Half \in BOOLEAN /\ Half' \in BOOLEAN
    BY <1>8 DEF Half, target
  <2>2. Half' = half
    BY <1>3, <2>1
  <2> QED
    BY <1>1, <1>8, <2>1, <2>2 DEF Prompted, HasKey, HasStop, OnlyStop, target, Torn, Saved
<1>10. 1 \in Reports(s) <=> c \in {STOPPED, STOPCALL}
  BY <1>1, <1>6 DEF Reports
<1>11. 1 \in Inputs(s) <=> c = INPUT
  BY <1>1, <1>6 DEF Inputs
(* What stays true whatever was heard, while the program is thought to run. *)
<1>12. c \notin {STOPPED, STOPCALL} =>
         /\ (Reports(r) # {} <=> Reports(s) # {})
         /\ \A i \in Reports(r) : i + MessageLen(r[i].v) = Len(r) + 1
  <2>1. SUFFICES ASSUME c \notin {STOPPED, STOPCALL}
                 PROVE  /\ (Reports(r) # {} <=> Reports(s) # {})
                        /\ \A i \in Reports(r) : i + MessageLen(r[i].v) = Len(r) + 1
    OBVIOUS
  <2>2. Reports(r) # {} <=> Reports(s) # {}
    BY <1>7, <1>10, <2>1
  <2>3. ASSUME NEW i \in Reports(r) PROVE i + MessageLen(r[i].v) = Len(r) + 1
    <3>1. (n + i) + MessageLen(s[n + i].v) = Len(s) + 1 /\ r[i] = s[n + i] /\ i \in Nat
      BY <1>2, <1>7 DEF Loose
    <3>2. PICK l \in Nat : l = MessageLen(r[i].v)
      <4>1. r[i].v \in Codes
        BY CodesApart DEF Reports, Codes
      <4> QED
        BY <4>1, Lengths
    <3>3. (n + i) + l = Len(s) + 1 /\ n \in Nat /\ Len(s) \in Nat
      BY <1>6, <3>1, <3>2
    <3>4. i + l = (Len(s) - n) + 1
      BY <3>1, <3>3
    <3> QED
      BY <1>6, <3>2, <3>4
  <2> QED
    BY <2>2, <2>3
<1>13. \A i, j \in Inputs(r) : i = j
  <2>1. ASSUME NEW i \in Inputs(r), NEW j \in Inputs(r) PROVE i = j
    <3>1. n + i = n + j /\ i \in Nat /\ j \in Nat
      BY <1>2, <1>7 DEF Loose
    <3> QED
      BY <1>6, <3>1
  <2> QED
    BY <2>1
<1>14. host.req = Nothing
  BY <1>1, <1>2 DEF Loose
<1>15. CASE c = INPUT
  <2>1. /\ host' \in [req : Requests \cup {Nothing}, runs : BOOLEAN, stop : BOOLEAN, asked : BOOLEAN]
        /\ host'.req = host.req /\ host'.runs /\ host'.stop = host.stop /\ (host'.asked <=> ~host.stop)
    <3>1. host' = [host EXCEPT !.asked = ~host.stop]
      BY <1>1, <1>15, CodesApart
    <3> QED
      BY <1>1, <3>1, HostKnown
  <2>2. Types' /\ Stopped'
    BY <1>2, <1>8, <2>1, HostSound DEF Loose
  <2>3. Inputs(r) = {}
    <3>1. ASSUME NEW i \in Inputs(r) PROVE FALSE
      <4>1. n + i = 1 /\ i \in Nat
        BY <1>2, <1>7, <1>11, <1>15 DEF Loose
      <4>2. i # 0
        <5>1. i \in DOMAIN r /\ DOMAIN r = 1..Len(r)
          BY <1>6 DEF Inputs, Heads
        <5> QED
          BY <5>1
      <4> QED
        BY <1>6, <4>1, <4>2
    <3> QED
      BY <3>1
  <2>4. /\ ~HasKey /\ OnlyStop
        /\ (Prompted \/ (host.stop /\ at \in {"saving", "main", "trap"}))
        /\ (host.stop => HasStop \/ at \in {"saving", "main"})
        /\ (HasStop => host.stop) /\ (~host.stop => toTarget = <<>>)
    <3>1. Inputs(Talk) # {}
      BY <1>2, <1>11, <1>15
    <3> QED
      BY <1>2, <3>1 DEF Loose, OnlyStop
  <2>5. Prompted /\ host.stop => toTarget # <<>>
    BY <2>4 DEF Prompted, HasStop
  <2>6. Talk' = r
    BY <1>5, <2>1 DEF Talk
  <2>7. c \notin {STOPPED, STOPCALL}
    BY <1>15, CodesApart
  <2>8. /\ at = "main" <=> Reports(Talk) # {}
    BY <1>2 DEF Loose
  <2>9. Loose'
    BY <1>2, <1>6, <1>9, <1>12, <1>14, <2>1, <2>3, <2>4, <2>5, <2>6, <2>7, <2>8 DEF Loose
  <2> QED
    BY <2>2, <2>9 DEF IInv
<1>16. CASE c \in {STOPPED, STOPCALL}
  <2>1. host' = [host EXCEPT !.runs = FALSE, !.stop = FALSE, !.asked = FALSE]
    BY <1>1, <1>16, CodesApart
  <2>2. /\ host' \in [req : Requests \cup {Nothing}, runs : BOOLEAN, stop : BOOLEAN, asked : BOOLEAN]
        /\ host'.req = host.req /\ ~host'.runs /\ ~host'.stop /\ ~host'.asked
    BY <2>1, HostKnown
  <2>3. Types' /\ Stopped'
    BY <1>2, <1>8, <2>2, HostSound DEF Loose
  <2>4. at = "main"
    BY <1>2, <1>10, <1>16 DEF Loose
  <2>5. toHost' = <<>>
    <3>1. 1 + n = Len(s) + 1 /\ n \in Nat /\ Len(s) \in Nat
      BY <1>1, <1>2, <1>6, <1>10, <1>16 DEF Loose
    <3>2. Len(r) = 0
      BY <1>6, <3>1
    <3>3. \A v \in Seq(Told) : Len(v) = 0 => v = <<>>
      OBVIOUS
    <3> QED
      BY <1>5, <1>6, <3>2, <3>3
  <2>6. OnlyStop'
    <3>1. ~Prompted
      BY <2>4 DEF Prompted
    <3>2. OnlyStop
      BY <1>2, <3>1 DEF Loose
    <3> QED
      BY <1>9, <3>2
  <2>7. Waiting'
    BY <1>9, <1>14, <2>2, <2>4, <2>5, <2>6 DEF Waiting, Still
  <2> QED
    BY <2>3, <2>7 DEF IInv
<1>17. CASE c # INPUT /\ c \notin {STOPPED, STOPCALL}
  <2>1. host' = host
    BY <1>1, <1>17
  <2>2. Types' /\ Stopped'
    BY <1>2, <1>8, <2>1, HostKnown, HostSound DEF Loose
  <2>3. Talk' = r
    BY <1>1, <1>5, <2>1 DEF Talk
  <2>4. Inputs(r) # {} <=> Inputs(Talk) # {}
    BY <1>2, <1>7, <1>11, <1>17
  <2>5. Loose'
    BY <1>1, <1>2, <1>6, <1>9, <1>12, <1>13, <1>17, <2>1, <2>3, <2>4 DEF Loose
  <2> QED
    BY <2>2, <2>5 DEF IInv
<1> QED
  BY <1>15, <1>16, <1>17

(* In phase Cut the debugger hears messages, then takes the report for the *)
(* character it waits for, and goes on waiting.                            *)
LEMMA RestHeard ==
  ASSUME NEW s \in Seq(Told), Rest(s), NEW n, n = MessageLen(s[1].v), n <= Len(s),
         NEW r, r = SubSeq(s, n + 1, Len(s))
  PROVE  r \in Seq(Told) /\ Rest(r) /\ s[1].v \in Codes /\ s[1].v \notin {STOPPED, STOPCALL}
<1>1. PICK k \in Nat : k = Len(s) /\ s[k].v = OUT2
  BY DEF Rest
<1>2. k # 1
  <2>1. MessageLen(OUT2) = 2
    BY DEF MessageLen, OUT2, INPUT, STOPCALL
  <2> QED
    BY <1>1, <2>1
<1>3. PICK j \in Nat, p \in Seq(Told) :
        /\ k = j + 2 /\ j > 0 /\ p = Before(s) /\ Len(p) = j /\ \A i \in 1..j : p[i] = s[i]
        /\ Messages(p, TRUE) /\ Reports(p) = {}
  <2>1. k > 2 /\ Messages(Before(s), TRUE) /\ Reports(Before(s)) = {}
    BY <1>1, <1>2 DEF Rest
  <2>2. PICK j \in Nat : j = k - 2 /\ k = j + 2 /\ j > 0
    BY <2>1
  <2>3. SubSeq(s, 1, j) \in Seq(Told) /\ Len(SubSeq(s, 1, j)) = j /\ \A i \in 1..j : SubSeq(s, 1, j)[i] = s[i]
    BY <1>1, <2>2
  <2>4. Before(s) = SubSeq(s, 1, j)
    BY <1>1, <2>2 DEF Before
  <2> QED
    BY <2>1, <2>2, <2>3, <2>4
<1>4. p # <<>> /\ p[1] = s[1] /\ 1 \in Heads(p) /\ s[1].v \in Codes /\ s[1].v \notin {STOPPED, STOPCALL}
  <2>1. p # <<>> /\ 1 \in 1..j
    BY <1>3
  <2>2. 1 \in Heads(p) /\ p[1] = s[1]
    BY <1>3, <2>1 DEF Messages
  <2> QED
    BY <1>3, <2>1, <2>2 DEF Messages, Reports
<1>5. n \in Nat \ {0}
  BY <1>4, Lengths
<1>9. PICK d \in Nat : d = n /\ d > 0
  BY <1>5
<1>6. PICK m \in Nat : /\ m = k - n /\ r \in Seq(Told) /\ Len(r) = m /\ \A i \in 1..m : r[i] = s[n + i]
  <2>1. n \in 0..Len(s) /\ k - n \in Nat
    BY <1>1, <1>5
  <2>2. /\ SubSeq(s, n + 1, Len(s)) \in Seq(Told) /\ Len(SubSeq(s, n + 1, Len(s))) = Len(s) - n
        /\ \A i \in 1..(Len(s) - n) : SubSeq(s, n + 1, Len(s))[i] = s[n + i]
    BY <2>1, Dropped
  <2> QED
    BY <1>1, <2>1, <2>2
<1>7. CASE n <= j
  <2>1. PICK q \in Seq(Told) :
          /\ q = SubSeq(p, n + 1, Len(p)) /\ Messages(q, TRUE) /\ Len(q) = Len(p) - n
          /\ \A i \in 1..Len(q) : q[i] = p[n + i]
          /\ Heads(q) = {i \in 1..Len(q) : n + i \in Heads(p)}
    <3>1. n = MessageLen(p[1].v) /\ n <= Len(p) /\ Messages(p, TRUE) /\ p # <<>> /\ p \in Seq(Told)
      BY <1>3, <1>4, <1>7
    <3>2. PICK h \in BOOLEAN : h = TRUE
      OBVIOUS
    <3>3. Messages(p, h)
      BY <3>1, <3>2
    <3>4. PICK q \in Seq(Told) : q = SubSeq(p, n + 1, Len(p))
      <4>1. n \in 0..Len(p)
        BY <1>5, <3>1
      <4> QED
        BY <4>1, Dropped
    <3>5. /\ Messages(q, h) /\ Len(q) = Len(p) - n
          /\ \A i \in 1..Len(q) : q[i] = p[n + i]
          /\ Heads(q) = {i \in 1..Len(q) : n + i \in Heads(p)}
      BY <3>1, <3>3, <3>4, MessageDropped
    <3> QED
      BY <3>2, <3>4, <3>5
  <2>2. PICK l \in Nat : l = Len(q) /\ l = j - n /\ l > 0
    <3>1. Len(q) \in Nat /\ Len(q) = j - n
      BY <1>3, <2>1
    <3>2. Len(q) \in Heads(q)
      BY <2>1 DEF Messages
    <3>3. Len(q) \in 1..Len(q)
      BY <2>1, <3>2
    <3> QED
      BY <3>1, <3>3
  <2>3. Reports(q) = {}
    <3>1. ASSUME NEW i \in Reports(q) PROVE FALSE
      <4>1. n + i \in Heads(p) /\ q[i] = p[n + i]
        BY <2>1, <3>1 DEF Reports
      <4>2. n + i \in Reports(p)
        BY <3>1, <4>1 DEF Reports
      <4> QED
        BY <1>3, <4>2
    <3> QED
      BY <3>1
  <2>4. m = l + 2
    BY <1>3, <1>5, <1>6, <2>2
  <2>5. Before(r) = q
    <3>1. PICK u \in Seq(Told) : u = Before(r) /\ Len(u) = l /\ \A i \in 1..l : u[i] = r[i]
      <4>1. SubSeq(r, 1, l) \in Seq(Told) /\ Len(SubSeq(r, 1, l)) = l /\ \A i \in 1..l : SubSeq(r, 1, l)[i] = r[i]
        <5>1. l <= Len(r)
          BY <1>6, <2>4
        <5> QED
          BY <1>6, <5>1, Fronted
      <4>2. Len(r) - 2 = l
        BY <1>6, <2>4
      <4> QED
        BY <4>1, <4>2 DEF Before
    <3>2. ASSUME NEW i \in 1..l PROVE u[i] = q[i]
      <4>1. i \in 1..m /\ n + i \in 1..j
        <5>1. l = j - d /\ i \in Nat /\ i > 0 /\ i <= l
          BY <1>9, <2>2
        <5>2. i \in 1..m /\ d + i \in 1..j
          BY <2>4, <5>1
        <5> QED
          BY <1>9, <5>2
      <4>2. r[i] = s[n + i] /\ p[n + i] = s[n + i] /\ q[i] = p[n + i]
        BY <1>3, <1>6, <2>1, <2>2, <4>1
      <4> QED
        BY <3>1, <4>2
    <3> QED
      BY <2>2, <3>1, <3>2, SameText
  <2>6. r[m] = s[k]
    <3>1. m \in 1..m /\ n + m = k
      <4>1. m = k - d
        BY <1>6, <1>9
      <4>2. m > 0 /\ d + m = k
        BY <2>2, <2>4, <4>1
      <4> QED
        BY <1>9, <4>2
    <3> QED
      BY <1>6, <3>1
  <2>7. r # <<>> /\ Len(r) > 2 /\ r[Len(r)].v = OUT2
    <3>1. Len(r) = m /\ m > 2 /\ m # 0
      BY <1>6, <2>2, <2>4
    <3>2. Len(<<>>) = 0
      OBVIOUS
    <3>3. r # <<>>
      <4>1. SUFFICES ASSUME r = <<>> PROVE FALSE
        OBVIOUS
      <4>2. Len(r) = 0
        BY <3>2, <4>1
      <4> QED
        BY <3>1, <4>2
    <3> QED
      BY <1>1, <2>6, <3>1, <3>3
  <2> QED
    BY <1>4, <1>6, <2>1, <2>3, <2>5, <2>7 DEF Rest
<1>8. CASE ~(n <= j)
  <2>1. ~Whole(p, 1)
    <3>1. ~(1 + n <= j + 1)
      BY <1>5, <1>8
    <3> QED
      BY <1>3, <1>4, <3>1 DEF Whole
  <2>2. j = 1
    BY <1>3, <1>4, <2>1 DEF Messages
  <2>3. s[1].v = OUTPUT
    BY <1>3, <1>4, <2>2 DEF Messages
  <2>4. n = 2 /\ k = 3 /\ m = 1
    BY <1>3, <1>6, <2>2, <2>3, CodesApart
  <2>5. r[1] = s[3]
    BY <1>6, <2>4
  <2>6. r # <<>> /\ Len(r) = 1 /\ r[Len(r)].v = OUT2
    <3>1. Len(r) = 1 /\ Len(<<>>) = 0 /\ 0 # 1
      BY <1>6, <2>4
    <3>2. r # <<>>
      BY <3>1
    <3> QED
      BY <1>1, <2>4, <2>5, <3>1, <3>2
  <2> QED
    BY <1>4, <1>6, <2>6 DEF Rest
<1> QED
  BY <1>5, <1>3, <1>7, <1>8

LEMMA HearMessageCut == ASSUME IInv, Cut, HearMessage PROVE IInv'
<1>1. PICK s \in Seq(Told) : s = toHost /\ s # <<>> /\ Head(s) = s[1]
  BY Domains, Ending DEF HearMessage
<1>2. PICK c, n : /\ c = s[1].v /\ n = MessageLen(c) /\ Heard(n) /\ n <= Len(s)
                  /\ host' = CASE c = INPUT -> [host EXCEPT !.asked = ~host.stop]
                               [] c \in {STOPPED, STOPCALL} ->
                                    [host EXCEPT !.runs = FALSE, !.stop = FALSE, !.asked = FALSE]
                               [] OTHER -> host
  BY <1>1 DEF HearMessage, Heard
<1>3. PICK r : r = SubSeq(s, n + 1, Len(s)) /\ toHost' = r
  BY <1>1, <1>2 DEF Heard
<1>4. r \in Seq(Told) /\ Rest(r) /\ c \notin {STOPPED, STOPCALL}
  BY <1>1, <1>2, <1>3, RestHeard DEF Cut
<1>5. /\ host' \in [req : Requests \cup {Nothing}, runs : BOOLEAN, stop : BOOLEAN, asked : BOOLEAN]
      /\ host'.req = host.req /\ host'.runs = host.runs /\ host'.stop = host.stop /\ ~host'.asked
  <2>1. CASE c = INPUT
    <3>1. host' = [host EXCEPT !.asked = ~host.stop] /\ host.stop
      BY <1>2, <1>4, <2>1 DEF Cut
    <3> QED
      BY <3>1, HostKnown
  <2>2. CASE c # INPUT
    <3>1. host' = host
      BY <1>2, <1>4, <2>2
    <3> QED
      BY <3>1, HostKnown DEF Cut
  <2> QED
    BY <2>1, <2>2
<1>6. UNCHANGED <<target, toTarget>> /\ Lined
  BY <1>2, <1>3, <1>4, Domains DEF Heard, Lined
<1>7. Torn' /\ OnlyStop'
  BY <1>5, <1>6 DEF Cut, Torn, Saved, OnlyStop, HasStop, target
<1>8. Types' /\ Stopped'
  BY <1>5, <1>6, HostSound DEF Cut, Torn
<1>9. Cut'
  BY <1>3, <1>4, <1>5, <1>7 DEF Cut
<1> QED
  BY <1>8, <1>9 DEF IInv

LEMMA HearMessageOk == ASSUME IInv, HearMessage PROVE IInv'
<1>1. Loose \/ Cut
  BY Phases DEF HearMessage
<1> QED
  BY <1>1, HearMessageLoose, HearMessageCut

-----------------------------------------------------------------------------
(* The invariant, and what it is for.                                      *)

LEMMA Initially == Init => IInv
<1> SUFFICES ASSUME Init PROVE IInv
  OBVIOUS
<1>1. PICK d \in [Cells -> Data] :
        mem = [i \in 0..(MTOP - 1) |-> IF i \in Cells THEN d[i] ELSE IF i = TOP - 1 THEN DUMMY ELSE 0]
  BY DEF Init
<1>2. /\ rptr = TOP - RSIZE /\ cpu = Own /\ at = "main" /\ call = NoCall /\ toTarget = <<>> /\ toHost = <<>>
      /\ host = [req |-> Nothing, runs |-> FALSE, stop |-> FALSE, asked |-> FALSE]
  BY DEF Init
<1>3. mem \in [0..(MTOP - 1) -> Int]
  <2>1. \A i \in 0..(MTOP - 1) : (IF i \in Cells THEN d[i] ELSE IF i = TOP - 1 THEN DUMMY ELSE 0) \in Int
    BY Stacking, PcsApart
  <2> QED
    BY <1>1, <2>1
<1>4. mem[rptr + 1] \notin Between
  <2>1. rptr + 1 = 5 /\ 5 \in 0..(MTOP - 1) /\ 5 \notin Cells /\ 5 = TOP - 1
    BY <1>2, Stacking
  <2>2. mem[5] = DUMMY
    BY <1>1, <2>1
  <2> QED
    BY <2>1, <2>2, PcsApart DEF Between
<1>5. rptr \in {TOP - 2 * RSIZE, TOP - RSIZE}
  BY <1>2
<1>6. host \in [req : Requests \cup {Nothing}, runs : BOOLEAN, stop : BOOLEAN, asked : BOOLEAN]
  BY <1>2
<1>7. <<>> \in Seq(Sent) /\ <<>> \in Seq(Told)
  OBVIOUS
<1>8. Types /\ Stopped
  BY <1>2, <1>3, <1>4, <1>5, <1>6, <1>7, OwnKnown DEF Types, Stopped
<1>9. Waiting
  BY <1>2 DEF Waiting, Still, OnlyStop
<1> QED
  BY <1>8, <1>9 DEF IInv

LEMMA Stutters == ASSUME IInv, UNCHANGED vars PROVE IInv'
<1>1. UNCHANGED <<mem, cpu, rptr, at, call, toTarget, toHost, host>>
  BY DEF vars, target
<1>2. Types' /\ Stopped' /\ (Torn' <=> Torn)
  BY <1>1 DEF IInv, Types, Stopped, Torn, Saved
<1>3. /\ (Still' <=> Still) /\ (OnlyStop' <=> OnlyStop) /\ (HasKey' <=> HasKey) /\ (HasStop' <=> HasStop)
      /\ Talk' = Talk /\ Half' = Half /\ (Prompted' <=> Prompted) /\ Request(host.req)' = Request(host.req)
  BY <1>1 DEF Still, OnlyStop, HasKey, HasStop, Talk, Half, Prompted
<1>4. Waiting => Waiting'
  BY <1>1, <1>3 DEF Waiting
<1>5. Asking => Asking'
  BY <1>1, <1>3 DEF Asking
<1>6. Answered => Answered'
  BY <1>1, <1>3 DEF Answered
<1>7. Loose => Loose'
  BY <1>1, <1>2, <1>3 DEF Loose
<1>8. Cut => Cut'
  BY <1>1, <1>2, <1>3 DEF Cut
<1> QED
  BY <1>2, <1>4, <1>5, <1>6, <1>7, <1>8 DEF IInv

LEMMA HostOk == ASSUME IInv, Host PROVE IInv'
  BY HearAnswerOk, HearMessageOk, SayStopOk, TypeOk, AskOk DEF Host

(* The invariant holds of every state of the monitor and its debugger, if  *)
(* no byte reaches the monitor within the few instructions of go() and     *)
(* intr() that the monitor leaves unprotected.                             *)
THEOREM Invariance == ASSUME Gaps = {} PROVE Spec => []IInv
<1>1. Init => IInv
  BY Initially
<1>2. IInv /\ [Next]_vars => IInv'
  BY TargetOk, HostOk, Stutters DEF Next
<1> QED
  BY <1>1, <1>2, PTL DEF Spec

LEMMA Agreed == IInv => Agreement
<1> SUFFICES ASSUME IInv PROVE Agreement
  OBVIOUS
<1>1. ASSUME toTarget # <<>>
      PROVE  /\ OnlyStop => Head(toTarget).as = "stop"
             /\ HasKey => Head(toTarget).as = "key"
             /\ Head(toTarget) = toTarget[1]
  <2>1. Head(toTarget) = toTarget[1]
    BY <1>1, Domains, Ending
  <2> QED
    BY <1>1, <2>1 DEF OnlyStop, HasStop, HasKey, IsStop, IsKey
<1>2. ASSUME at = "main", toTarget # <<>> PROVE Head(toTarget).as \in {"command", "stop"}
  <2>1. CASE Asking
    <3>1. host.req \in Requests
      BY <2>1, HostKnown DEF Asking
    <3>2. Request(host.req)[1].as = "command"
      BY <3>1, Requested
    <3> QED
      BY <1>1, <1>2, <2>1, <3>2 DEF Asking, IsStop
  <2>2. CASE OnlyStop
    BY <1>1, <1>2, <2>2
  <2>3. ~Prompted
    BY <1>2 DEF Prompted
  <2> QED
    BY <1>2, <2>1, <2>2, <2>3 DEF IInv, Waiting, Answered, Loose, Cut
<1>3. ASSUME at = "run", toTarget # <<>> PROVE Head(toTarget).as \in {"key", "stop"}
  <2>1. Loose
    BY <1>3, Phases
  <2> QED
    BY <1>1, <1>3, <2>1 DEF Loose
<1>4. ASSUME host.runs, toHost # <<>>, ~Torn
      PROVE  /\ Head(toHost).as = "code"
             /\ \A i \in DOMAIN toHost : i \in 2..MessageLen(Head(toHost).v) => toHost[i].as = "data"
  <2>1. PICK s \in Seq(Told) : s = toHost /\ s # <<>> /\ Head(s) = s[1] /\ DOMAIN s = 1..Len(s)
    BY <1>4, Domains, Ending
  <2>2. Messages(s, Half)
    <3>1. Loose /\ Talk = s
      BY <1>4, <2>1, Phases DEF Talk
    <3> QED
      BY <3>1 DEF Loose
  <2>3. 1 \in Heads(s) /\ s[1].v \in Codes
    BY <2>1, <2>2 DEF Messages
  <2>4. PICK n \in Nat \ {0} : n = MessageLen(s[1].v)
    BY <2>3, Lengths
  <2>5. s[1].as = "code"
    BY <2>3 DEF Heads
  <2>6. ASSUME NEW i \in DOMAIN s, i \in 2..n PROVE s[i].as = "data"
    <3>1. i > 1 /\ i < 1 + n
      BY <2>6
    <3>2. i \notin Heads(s)
      BY <2>2, <2>3, <2>4, <3>1 DEF Messages
    <3>3. s[i] \in Told
      BY <2>1, <2>6
    <3> QED
      BY <3>2, <3>3 DEF Heads, Told
  <2> QED
    BY <2>1, <2>4, <2>5, <2>6
<1> QED
  BY <1>2, <1>3, <1>4 DEF Agreement

(* Neither end takes a byte for something else than it was sent as, unless *)
(* bdoserr() was stopped between two bytes                                 *)
(* (TARGET.C getch() in main() and bdosgetch(), putch() everywhere).       *)
THEOREM AgreementCorrect == ASSUME Gaps = {} PROVE Spec => []Agreement
  BY Invariance, Agreed, PTL

LEMMA Outstanding == IInv => PromptOutstanding
<1> SUFFICES ASSUME IInv, at = "run", cpu.pc = PROMPTED, toTarget = <<>>, ~host.asked
             PROVE  \E i \in DOMAIN toHost : toHost[i].v = INPUT /\ toHost[i].as = "code"
  BY DEF PromptOutstanding
<1>1. Loose /\ Prompted
  BY Phases DEF Prompted
<1>2. PICK i \in Inputs(Talk) : TRUE
  BY <1>1 DEF Loose
<1>3. Talk[i].v = INPUT /\ Talk[i].as = "code" /\ i \in DOMAIN Talk
  BY DEF Inputs, Heads
<1>4. CASE host.runs
  BY <1>3, <1>4 DEF Talk
<1>5. CASE ~host.runs
  <2>1. PICK s \in Seq(Told) : s = toHost /\ s # <<>> /\ Talk = Tail(s)
    BY <1>1, <1>5, Domains DEF Loose, Talk
  <2>2. /\ Tail(s) \in Seq(Told) /\ Len(Tail(s)) = Len(s) - 1 /\ Len(s) \in Nat \ {0}
        /\ \A j \in 1..(Len(s) - 1) : Tail(s)[j] = s[j + 1]
    BY <2>1, Ending
  <2>3. i \in 1..(Len(s) - 1)
    BY <1>3, <2>1, <2>2
  <2>4. i + 1 \in DOMAIN s /\ s[i + 1] = Talk[i]
    BY <2>1, <2>2, <2>3
  <2> QED
    BY <1>3, <2>1, <2>4
<1> QED
  BY <1>4, <1>5

(* Whenever the program waits for a key, the debugger has been prompted or *)
(* is about to be, unless STOP came in the middle of the prompt (TARGET.C  *)
(* bdosgetch()).                                                           *)
THEOREM PromptCorrect == ASSUME Gaps = {} PROVE Spec => []PromptOutstanding
  BY Invariance, Outstanding, PTL

-----------------------------------------------------------------------------
(***************************************************************************)
(* The monitor is a debugger.  What the registers, the memory and the      *)
(* answer of Debugger stand for, and the invariant that types them: a cell *)
(* holds data, the program's registers are registers wherever they are,    *)
(* and a key the program is about to take is a key.                        *)
(***************************************************************************)
Shown == IF at \in {"run", "trap"} THEN cpu ELSE Saved
Memory == [c \in Cells |-> mem[c]]
Silent == [says |-> "nothing"]
Reply == IF host.req = Nothing \/ Len(toHost) < AnswerLen(host.req) THEN Silent
         ELSE Decoded(host.req, Values(SubSeq(toHost, 1, AnswerLen(host.req))))

Keyed == Prompted /\ HasKey => toTarget[1].v \in Keys
Truly == (\A c \in Cells : mem[c] \in Data) /\ Shown \in Registers /\ Keyed

(* Steps of the debugger. *)
SameReply == host'.req = host.req /\ Reply' = Reply

LEMMA AsRun ==
  ASSUME at # "main", at' # "main", Memory' \in [Cells -> Data], Shown' \in Registers, SameReply
  PROVE  D!Next
  BY DEF D!Next, D!Run, Shown, Memory, SameReply, Reply, Silent

LEMMA AsStop ==
  ASSUME at # "main", at' = "main", Memory' = Memory, Shown' = Shown, SameReply
  PROVE  D!Next
  BY DEF D!Next, D!Stop, Shown, Memory, SameReply, Reply, Silent

LEMMA AsBefore ==
  ASSUME at' = at, Memory' = Memory, Shown' = Shown, SameReply
  PROVE  UNCHANGED D!vars
  BY DEF D!vars, Shown, Memory, SameReply, Reply, Silent

Served(r) == CASE r.do = "registers" -> [says |-> "registers", regs |-> Shown]
               [] r.do = "read" ->
                    [says |-> "data", data |-> [i \in 1..(r.to - r.from + 1) |-> Memory[r.from + i - 1]]]
               [] OTHER -> [says |-> "done"]
Written(r) == [c \in Cells |-> IF c - r.from + 1 \in DOMAIN r.data
                               THEN r.data[c - r.from + 1] ELSE Memory[c]]

LEMMA AsServe ==
  ASSUME host.req \in Requests, UNCHANGED host, Reply = Silent, Reply' = Served(host.req),
         at' # "main" <=> host.req.do \in {"go", "step"},
         Shown' = (IF host.req.do = "set" THEN host.req.regs ELSE Shown),
         Memory' = (IF host.req.do # "write" THEN Memory ELSE Written(host.req))
  PROVE  D!Next
<1>1. host.req.do # "none"
  BY RequestKinds
<1>2. D!Serve
  BY <1>1 DEF D!Serve, D!Nothing, Served, Written, Shown, Memory, Reply, Silent
<1> QED
  BY <1>2 DEF D!Next

LEMMA AsAsk ==
  ASSUME NEW r \in Requests, host.req = Nothing, host'.req = r, at = "main", at' = "main",
         Memory' = Memory, Shown' = Shown, Reply = Silent, Reply' = Silent
  PROVE  D!Next
<1>1. \/ r \in [do : {"hello", "ident", "registers", "go", "step"}]
      \/ r \in [do : {"set"}, regs : Registers]
      \/ r \in [do : {"read"}, from : Cells, to : Cells]
      \/ r \in [do : {"write"}, from : Cells, data : UNION {[1..n -> Data] : n \in 0..2}]
  BY DEF Requests
<1>2. D!Ask
  BY <1>1 DEF D!Ask, Shown, Memory, Reply, Silent, Nothing
<1> QED
  BY <1>2 DEF D!Next

LEMMA AsHear ==
  ASSUME Reply # Silent, host'.req = Nothing, UNCHANGED at, Memory' = Memory, Shown' = Shown
  PROVE  D!Next
<1>1. Reply' = Silent
  BY DEF Reply
<1>2. D!Hear
  BY <1>1 DEF D!Hear, D!Nothing, Shown, Memory, Reply, Silent, Nothing
<1> QED
  BY <1>2 DEF D!Next


(* Registers and memory across the steps of the target.                    *)
LEMMA Registered ==
  ASSUME IInv
  PROVE  /\ cpu = [a |-> cpu.a, pc |-> cpu.pc, sp |-> cpu.sp]
         /\ Saved = [a |-> mem[rptr], pc |-> mem[rptr + 1], sp |-> rptr + 2]
         /\ \A r \in Registers : /\ r.a \in Data \cup Keys \cup {CALL_SUB} /\ r.pc \in Pcs /\ r.sp \in Stacks \cup {TOP}
                                 /\ r.sp \in {4, 6} /\ r = [a |-> r.a, pc |-> r.pc, sp |-> r.sp]
         /\ \A a \in Data \cup Keys \cup {CALL_SUB}, pc \in Pcs, sp \in Stacks \cup {TOP} :
              [a |-> a, pc |-> pc, sp |-> sp] \in Registers
<1>1. cpu = [a |-> cpu.a, pc |-> cpu.pc, sp |-> cpu.sp]
  BY Domains
<1>2. Saved = [a |-> mem[rptr], pc |-> mem[rptr + 1], sp |-> rptr + 2]
  BY Stacking DEF Saved
<1>3. ASSUME NEW r \in Registers
      PROVE  /\ r.a \in Data \cup Keys \cup {CALL_SUB} /\ r.pc \in Pcs /\ r.sp \in Stacks \cup {TOP}
             /\ r.sp \in {4, 6} /\ r = [a |-> r.a, pc |-> r.pc, sp |-> r.sp]
  BY Stacking DEF Registers
<1> QED
  BY <1>1, <1>2, <1>3 DEF Registers

LEMMA FramedTrue ==
  ASSUME IInv, NEW r, r.sp \in {4, 6}, Frame(r)
  PROVE  Saved' = [a |-> r.a, pc |-> r.pc, sp |-> r.sp] /\ \A c \in Cells : mem'[c] = mem[c]
<1>1. PICK x \in {3, 5}, y \in {2, 4} : x = r.sp - 1 /\ y = r.sp - 2 /\ y + 1 = x /\ y + 2 = r.sp
  OBVIOUS
<1>2. mem' = [mem EXCEPT ![x] = r.pc, ![y] = r.a] /\ rptr' = y
  BY <1>1, Stacking DEF Frame
<1>3. LET w == [mem EXCEPT ![x] = r.pc, ![y] = r.a]
      IN  w[y] = r.a /\ w[x] = r.pc /\ w[0] = mem[0] /\ w[1] = mem[1]
  <2>1. x \in 0..7 /\ y \in 0..7 /\ x # y /\ x \notin {0, 1} /\ y \notin {0, 1} /\ 0 \in 0..7 /\ 1 \in 0..7
    BY <1>1
  <2>2. mem \in [0..7 -> Int]
    BY Domains
  <2> QED
    BY <2>1, <2>2
<1>4. mem'[y] = r.a /\ mem'[x] = r.pc /\ mem'[0] = mem[0] /\ mem'[1] = mem[1]
  BY <1>2, <1>3
<1>5. Saved' = [a |-> mem'[rptr'], pc |-> mem'[rptr' + 1], sp |-> rptr' + 2]
  BY Stacking DEF Saved
<1>6. Saved' = [a |-> r.a, pc |-> r.pc, sp |-> r.sp]
  BY <1>1, <1>2, <1>4, <1>5
<1>7. \A c \in Cells : mem'[c] = mem[c]
  BY <1>4, Stacking
<1> QED
  BY <1>6, <1>7

(* What a step does to the registers and the memory of the program.        *)
Unmoved == Shown' = Shown /\ \A c \in Cells : mem'[c] = mem[c]
Goes == (\A c \in Cells : mem'[c] \in Data) /\ Shown' \in Registers

LEMMA StopsTrue ==
  ASSUME IInv, Gaps = {}, Interrupt \/ ReportRst \/ Trap
  PROVE  Unmoved /\ at # "main" /\ at' = "main"
<1>1. CASE Interrupt \/ Trap
  <2>1. at \in {"run", "trap"} /\ Frame(cpu) /\ at' = "main"
    BY <1>1, PendingWhere DEF Interrupt, Trap, Report
  <2>2. cpu.sp \in {4, 6}
    BY <2>1, Domains
  <2>3. Saved' = [a |-> cpu.a, pc |-> cpu.pc, sp |-> cpu.sp] /\ \A c \in Cells : mem'[c] = mem[c]
    BY <2>1, <2>2, FramedTrue
  <2> QED
    BY <2>1, <2>3, Registered DEF Unmoved, Shown
<1>2. CASE ReportRst
  <2>1. at = "saving" /\ UNCHANGED <<mem, rptr>> /\ at' = "main"
    BY <1>2 DEF ReportRst, Report
  <2> QED
    BY <2>1 DEF Unmoved, Shown, Saved
<1> QED
  BY <1>1, <1>2

LEMMA ResumeTrue == ASSUME IInv, Truly, Resume PROVE Goes
<1>1. /\ at = "going" /\ at' = "run" /\ cpu' = Saved
      /\ mem' = [mem EXCEPT ![rptr] = 0, ![rptr + 1] = 0]
  BY DEF Resume, Popped
<1>2. PICK x \in {2, 4}, y \in {3, 5} : x = rptr /\ y = rptr + 1
  <2>1. PICK x \in {2, 4} : x = rptr
    BY Domains
  <2>2. x + 1 \in {3, 5}
    OBVIOUS
  <2> QED
    BY <2>1, <2>2
<1>3. [mem EXCEPT ![x] = 0, ![y] = 0][0] = mem[0] /\ [mem EXCEPT ![x] = 0, ![y] = 0][1] = mem[1]
  <2>1. mem \in [0..7 -> Int]
    BY Domains
  <2> QED
    BY <2>1
<1>4. mem'[0] = mem[0] /\ mem'[1] = mem[1]
  BY <1>1, <1>2, <1>3
<1> QED
  BY <1>1, <1>4, Stacking DEF Goes, Truly, Shown

LEMMA InstructionTrue ==
  ASSUME IInv, Truly, NEW r \in Registers, r.pc \in User, Instruction(r), at' \in {"run", "trap"}
  PROVE  Goes
<1>1. PICK c \in Cells, d \in Data, onA \in BOOLEAN :
        /\ mem' = IF onA THEN mem ELSE [mem EXCEPT ![c] = d]
        /\ cpu' = [r EXCEPT !.a = IF onA THEN d ELSE @, !.pc = 1 - @]
  BY DEF Instruction
<1>2. mem \in [0..7 -> Int] /\ c \in 0..7 /\ \A b \in Cells : b \in 0..7
  BY Domains, Stacking
<1>3. \A b \in Cells : mem'[b] \in Data
  <2>1. \A b \in Cells : [mem EXCEPT ![c] = d][b] \in Data
    BY <1>2 DEF Truly
  <2> QED
    BY <1>1, <2>1 DEF Truly
<1>4. PICK pc \in Pcs : pc = 1 - r.pc
  <2>1. 1 - r.pc \in User /\ User \subseteq Pcs
    BY PcsApart DEF User, Pcs
  <2> QED
    BY <2>1
<1>5. PICK a \in Data \cup Keys \cup {CALL_SUB} : a = IF onA THEN d ELSE r.a
  BY Registered
<1>6. cpu' = [r EXCEPT !.a = a, !.pc = pc]
  BY <1>1, <1>4, <1>5
<1>7. [r EXCEPT !.a = a, !.pc = pc] \in Registers
  BY DEF Registers
<1> QED
  BY <1>3, <1>6, <1>7 DEF Goes, Shown


LEMMA MovedTrue ==
  ASSUME IInv, Truly, at = "run", at' = "run", mem' = mem,
         NEW a \in Data \cup Keys \cup {CALL_SUB}, NEW pc \in Pcs, cpu' = [cpu EXCEPT !.a = a, !.pc = pc]
  PROVE  Goes
<1>1. cpu \in Registers
  BY DEF Truly, Shown
<1>2. [cpu EXCEPT !.a = a, !.pc = pc] \in Registers
  BY <1>1 DEF Registers
<1> QED
  BY <1>2 DEF Goes, Truly, Shown

LEMMA GoesTo ==
  ASSUME IInv, Truly, at = "run", at' \in {"run", "trap"}, mem' = mem, NEW pc \in Pcs, cpu' = [cpu EXCEPT !.pc = pc]
  PROVE  Goes
<1>1. cpu \in Registers
  BY DEF Truly, Shown
<1>2. [cpu EXCEPT !.pc = pc] \in Registers
  BY <1>1 DEF Registers
<1> QED
  BY <1>2 DEF Goes, Truly, Shown

LEMMA RstTrue ==
  ASSUME IInv, Truly, at = "run", NEW pc \in Pcs, Rst(pc)
  PROVE  Goes
<1>1. cpu \in Registers /\ cpu.sp \in {4, 6}
  BY Domains DEF Truly, Shown
<1>2. PICK r \in Registers : r = [cpu EXCEPT !.pc = pc] /\ r.sp \in {4, 6} /\ r = [a |-> r.a, pc |-> r.pc, sp |-> r.sp]
  <2>1. [cpu EXCEPT !.pc = pc] \in Registers
    BY <1>1 DEF Registers
  <2> QED
    BY <2>1, Registered
<1>3. Saved' = [a |-> r.a, pc |-> r.pc, sp |-> r.sp] /\ \A c \in Cells : mem'[c] = mem[c]
  BY <1>2, FramedTrue DEF Rst
<1>4. Shown' = Saved'
  BY DEF Rst, Shown
<1> QED
  BY <1>2, <1>3, <1>4 DEF Goes, Truly

LEMMA PcsKnown ==
  /\ {DUMMY, AFTER_DUMMY, PROMPT, PROMPTED, OUT1, OUT2, OUT3, UNASKED, CONSTAT, RETURN, MONITOR, LOST} \subseteq Pcs
  /\ \A pc \in User : pc \in Pcs /\ 1 - pc \in Pcs
  BY DEF DUMMY, AFTER_DUMMY, PROMPT, PROMPTED, OUT1, OUT2, OUT3, UNASKED, CONSTAT, RETURN, MONITOR, LOST,
         User, Pcs

LEMMA BackTrue ==
  ASSUME IInv, Truly, at = "run", NEW a \in Data \cup Keys \cup {CALL_SUB}, Back(a)
  PROVE  Goes
<1>1. call.ret \in Pcs
  BY Domains, PcsKnown
<1> QED
  BY <1>1, MovedTrue DEF Back

(* The key the program takes. *)
LEMMA KeyTrue ==
  ASSUME IInv, Truly, Taken, Command # STOP
  PROVE  Command \in Keys
<1>1. Prompted /\ HasKey /\ toTarget # <<>>
  BY TakenByte
<1>2. Command = toTarget[1].v
  BY <1>1, Domains, Ending DEF Command
<1> QED
  BY <1>1, <1>2 DEF Truly, Keyed

(* putch() goes on, or is stopped by what it held, in another place.        *)
LEMMA OntoTrue ==
  ASSUME IInv, Truly, at = "run", NEW pc \in Pcs, Onto(pc)
  PROVE  Goes /\ at # "main" /\ at' # "main"
<1>1. at' \in {"run", "trap"} /\ mem' = mem /\ cpu' = [cpu EXCEPT !.pc = pc]
  BY DEF Onto
<1> QED
  BY <1>1, GoesTo

LEMMA ProgramTrue == ASSUME IInv, Truly, Program PROVE Goes /\ at # "main" /\ at' # "main"
<1>1. CASE UserStep
  <2>1. at = "run" /\ at' = "run" /\ cpu \in Registers /\ cpu.pc \in User /\ Instruction(cpu)
    BY <1>1 DEF UserStep, Runs, Truly, Shown
  <2> QED
    BY <2>1, InstructionTrue
<1>2. CASE UserStops
  <2>1. at = "run" /\ cpu.pc \in User \cup {DUMMY} /\ Rst(IF cpu.pc = DUMMY THEN AFTER_DUMMY ELSE 1 - cpu.pc)
    BY <1>2 DEF UserStops, Runs
  <2>2. (IF cpu.pc = DUMMY THEN AFTER_DUMMY ELSE 1 - cpu.pc) \in Pcs
    BY <2>1, PcsKnown
  <2> QED
    BY <2>1, <2>2, RstTrue DEF Rst
<1>3. CASE LeaveDummy
  BY <1>3, PcsKnown, GoesTo DEF LeaveDummy, Runs
<1>4. CASE ConIn \/ ReadBuf \/ ConStat \/ OtherCall
  <2>1. PICK pc \in {PROMPT, CONSTAT, RETURN, OUT1} : \E on : BdosCall(pc, on)
    BY <1>4 DEF ConIn, ReadBuf, ConStat, OtherCall
  <2> QED
    BY <2>1, PcsKnown, GoesTo DEF BdosCall, Runs
<1>5. CASE ConOut
  <2>1. at = "run" /\ at' = "run" /\ mem' = mem /\ cpu.pc \in User /\ cpu' = [cpu EXCEPT !.pc = 1 - cpu.pc]
    BY <1>5 DEF ConOut, Runs
  <2> QED
    BY <2>1, PcsKnown, GoesTo
<1>6. CASE Status \/ Return
  <2>1. cpu.a \in Data \cup Keys \cup {CALL_SUB} /\ at = "run"
    BY <1>6, Registered DEF Status, Return, Runs, Truly, Shown
  <2>2. 0 \in Data
    BY LuciferAssumption
  <2>3. PICK a \in Data \cup Keys \cup {CALL_SUB} : Back(a)
    BY <1>6, <2>1, <2>2 DEF Status, Return
  <2> QED
    BY <2>1, <2>3, BackTrue DEF Back
<1>7. CASE Prompt
  <2>1. PICK pc \in Pcs : at = "run" /\ Onto(pc)
    BY <1>7, PcsKnown DEF Prompt, PutFrom
  <2> QED
    BY <2>1, OntoTrue
<1>8. CASE StopTaken
  <2>1. at = "run" /\ Rst(PROMPT)
    BY <1>8 DEF StopTaken, AfterStop, Taken, Runs
  <2> QED
    BY <2>1, PcsKnown, RstTrue DEF Rst
<1>9. CASE CharTaken
  <2>1. at = "run" /\ Command \in Keys /\ Back(Command)
    BY <1>9, KeyTrue DEF CharTaken, Taken, Runs
  <2> QED
    BY <2>1, BackTrue DEF Back
<1>10. CASE LineTaken
  <2>1. at = "run" /\ (Back(cpu.a) \/ (cpu' = [cpu EXCEPT !.pc = PROMPT] /\ UNCHANGED <<mem, at>>))
    BY <1>10 DEF LineTaken, Taken, Runs
  <2>2. cpu.a \in Data \cup Keys \cup {CALL_SUB}
    BY <2>1, Registered DEF Truly, Shown
  <2>3. CASE Back(cpu.a)
    BY <2>1, <2>2, <2>3, BackTrue DEF Back
  <2>4. CASE cpu' = [cpu EXCEPT !.pc = PROMPT] /\ UNCHANGED <<mem, at>>
    BY <2>1, <2>4, PcsKnown, GoesTo
  <2> QED
    BY <2>1, <2>3, <2>4
<1>11. CASE ErrOutput
  BY <1>11, PcsKnown, OntoTrue DEF ErrOutput, PutFrom
<1>12. CASE ErrChar \/ ErrStops
  <2>1. at = "run" /\ (Rst(RETURN) \/ Onto(OUT3))
    BY <1>12 DEF ErrChar, ErrStops, PutFrom, Runs
  <2>2. CASE Rst(RETURN)
    BY <2>1, <2>2, PcsKnown, RstTrue DEF Rst
  <2>3. CASE Onto(OUT3)
    BY <2>1, <2>3, PcsKnown, OntoTrue
  <2> QED
    BY <2>1, <2>2, <2>3
<1> QED
  BY <1>1, <1>2, <1>3, <1>4, <1>5, <1>6, <1>7, <1>8, <1>9, <1>10, <1>11, <1>12 DEF Program

(* Steps while the program runs, or stands with what stopped it untold.    *)
LEMMA AwayTrue ==
  ASSUME IInv, Truly, Resume \/ OneInstruction \/ Program
  PROVE  Goes /\ at # "main" /\ at' # "main"
<1>1. CASE Resume
  BY <1>1, ResumeTrue DEF Resume
<1>2. CASE OneInstruction
  <2>1. at = "stepping" /\ at' = "trap" /\ Saved.pc \in User /\ Instruction(Saved) /\ Saved \in Registers
    BY <1>2 DEF OneInstruction, Truly, Shown
  <2> QED
    BY <2>1, InstructionTrue
<1> QED
  BY <1>1, <1>2, ProgramTrue


(* What the target says on the way leaves the answer to a GO or STEP that  *)
(* is still on the line as it is.                                          *)
LEMMA FirstByte ==
  ASSUME NEW S, NEW s \in Seq(S), s # <<>>
  PROVE  SubSeq(s, 1, 1) = <<s[1]>> /\ Len(s) >= 1
<1>1. PICK n \in Nat \ {0} : n = Len(s)
  OBVIOUS
<1>2. 1 \in 1..Len(s) /\ Len(s) >= 1
  BY <1>1
<1>3. SubSeq(s, 1, 1) = [i \in 1..1 |-> s[1]]
  <2>1. SubSeq(s, 1, 1) = [i \in 1..((1 - 1) + 1) |-> s[i + 1 - 1]]
    OBVIOUS
  <2>2. (1 - 1) + 1 = 1 /\ \A i \in 1..1 : i + 1 - 1 = 1
    OBVIOUS
  <2> QED
    BY <2>1, <2>2
<1>4. [i \in 1..1 |-> s[1]] = <<s[1]>>
  OBVIOUS
<1> QED
  BY <1>2, <1>3, <1>4

Speaks == \/ toHost' = toHost
          \/ \E m \in Seq(Told) : toHost' = toHost \o m

LEMMA AwayReply ==
  ASSUME IInv, at # "main", UNCHANGED host, Speaks
  PROVE  SameReply
<1>1. Loose /\ toHost \in Seq(Told)
  BY Phases, Domains
<1>2. CASE host.req = Nothing
  BY <1>2 DEF SameReply, Reply
<1>3. CASE host.req # Nothing
  <2>1. ~host.runs /\ toHost # <<>> /\ AnswerLen(host.req) = 1
    <3>1. host.req \in Requests /\ host.req.do \in {"go", "step"} /\ ~host.runs /\ toHost # <<>>
      BY <1>1, <1>3, HostKnown DEF Loose
    <3> QED
      BY <3>1, AnswerLens
  <2>2. toHost' \in Seq(Told) /\ toHost' # <<>> /\ toHost'[1] = toHost[1]
    <3>1. ASSUME NEW m \in Seq(Told), toHost' = toHost \o m
          PROVE  toHost' \in Seq(Told) /\ toHost' # <<>> /\ toHost'[1] = toHost[1]
      <4>1. toHost \o m \in Seq(Told) /\ toHost \o m # <<>>
        BY <1>1, <2>1, Joined, Longer
      <4>2. Len(toHost) \in Nat /\ Len(m) \in Nat /\ Len(toHost) >= 1
        BY <1>1, <2>1, FirstByte
      <4>3. (toHost \o m)[1] = toHost[1]
        BY <1>1, <4>2, Joined
      <4> QED
        BY <3>1, <4>1, <4>3
    <3> QED
      BY <1>1, <2>1, <3>1 DEF Speaks
  <2>3. SubSeq(toHost, 1, 1) = <<toHost[1]>> /\ SubSeq(toHost', 1, 1) = <<toHost[1]>>
        /\ Len(toHost) >= 1 /\ Len(toHost') >= 1
    BY <1>1, <2>1, <2>2, FirstByte
  <2>4. ~(Len(toHost) < 1) /\ ~(Len(toHost') < 1)
    BY <1>1, <2>2, <2>3
  <2>5. Reply = Decoded(host.req, Values(<<toHost[1]>>))
    BY <1>3, <2>1, <2>3, <2>4 DEF Reply
  <2>6. Reply' = Decoded(host.req, Values(<<toHost[1]>>))
    BY <1>3, <2>1, <2>3, <2>4 DEF Reply
  <2> QED
    BY <2>5, <2>6 DEF SameReply
<1> QED
  BY <1>2, <1>3

LEMMA Spoken ==
  ASSUME IInv, Interrupt \/ ReportRst \/ Trap \/ Resume \/ OneInstruction \/ Program
  PROVE  Speaks /\ UNCHANGED host
<1>1. CASE Resume \/ OneInstruction
  BY <1>1 DEF Resume, OneInstruction, Speaks
<1>2. CASE \/ UserStep \/ UserStops \/ LeaveDummy \/ Status \/ Return
           \/ StopTaken \/ CharTaken \/ LineTaken \/ ErrStops
  BY <1>2 DEF UserStep, UserStops, LeaveDummy, Status, Return, StopTaken, CharTaken, LineTaken, ErrStops,
              Runs, Quiet, Taken, Speaks
<1>3. CASE ConIn \/ ReadBuf \/ ConStat \/ OtherCall
  BY <1>3 DEF ConIn, ReadBuf, ConStat, OtherCall, BdosCall, Runs, Quiet, Speaks
<1>4. CASE ConOut
  <2>1. PICK x \in Value, y \in Value : x = OUTPUT /\ y = cpu.a
    BY Bytes, Domains
  <2>2. <<x, y>> \in Seq(Value) /\ <<x, y>> # <<>>
    BY Pair
  <2>3. Code(<<OUTPUT, cpu.a>>) \in Seq(Told)
    BY <2>1, <2>2, Coded
  <2> QED
    BY <1>4, <2>3 DEF ConOut, Runs, Put, Speaks
<1>5. CASE Prompt \/ ErrOutput
  <2>1. Code(<<INPUT>>) \in Seq(Told) /\ Code(<<OUTPUT>>) \in Seq(Told)
    <3>1. \A c \in Value : <<c>> \in Seq(Value) /\ <<c>> # <<>>
      BY Single
    <3> QED
      BY <3>1, Bytes, Coded
  <2> QED
    BY <1>5, <2>1 DEF Prompt, ErrOutput, PutFrom, Put, Speaks
<1>6. CASE ErrChar
  <2>1. As("data", <<0>>) \in Seq(Told)
    <3>1. 0 \in Value
      BY Bytes
    <3>2. PICK s \in Seq(Value) : s = <<0>>
      BY <3>1, Single
    <3> QED
      BY <3>2, AsData
  <2> QED
    BY <1>6, <2>1 DEF ErrChar, PutFrom, Put, Speaks
<1>7. CASE Interrupt \/ ReportRst \/ Trap
  <2>1. PICK pc \in Int : Report(pc) /\ UNCHANGED host
    <3>1. cpu.pc \in Int
      BY Domains
    <3>2. mem[rptr + 1] \in Int
      <4>1. PICK x \in {2, 4} : x = rptr
        BY Domains
      <4>2. x + 1 \in 0..7
        OBVIOUS
      <4> QED
        BY <4>1, <4>2, Domains
    <3> QED
      BY <1>7, <3>1, <3>2 DEF Interrupt, ReportRst, Trap
  <2>2. Code(StopMessage(pc)) \in Seq(Told)
    BY StopTold
  <2> QED
    BY <2>1, <2>2 DEF Report, Put, Speaks
<1> QED
  BY <1>1, <1>2, <1>3, <1>4, <1>5, <1>6, <1>7 DEF Program

(* The key on the line stays the same, and the byte taken was the last one *)
(* the program could take for a key.                                       *)
LEMMA KeptKey ==
  ASSUME IInv, Truly, UNCHANGED toTarget, Prompted' => Prompted \/ at # "main"
  PROVE  Keyed'
<1>1. HasKey' <=> HasKey
  BY DEF HasKey
<1>2. HasKey /\ at # "main" => Prompted
  BY Phases DEF Loose
<1> QED
  BY <1>1, <1>2 DEF Truly, Keyed

LEMMA AwayKey ==
  ASSUME IInv, Truly, Resume \/ OneInstruction \/ Program
  PROVE  Keyed'
<1>1. CASE Taken
  <2>1. StopTaken \/ CharTaken \/ LineTaken => ~Prompted'
    <3>1. CASE StopTaken
      BY <3>1 DEF StopTaken, Rst, Prompted
    <3>2. \A a : Back(a) => cpu'.pc = call.ret
      BY Domains DEF Back
    <3>3. call.ret # PROMPTED /\ PROMPT # PROMPTED
      BY Domains, PcsApart
    <3>4. cpu' = [cpu EXCEPT !.pc = PROMPT] => cpu'.pc = PROMPT
      BY Domains
    <3>5. CASE CharTaken
      BY <3>2, <3>3, <3>5 DEF CharTaken, Prompted
    <3>6. CASE LineTaken
      BY <3>2, <3>3, <3>4, <3>6 DEF LineTaken, Prompted
    <3> QED
      BY <3>1, <3>5, <3>6
  <2>2. StopTaken \/ CharTaken \/ LineTaken \/ UNCHANGED toTarget
    BY DEF Resume, OneInstruction, Program, UserStep, UserStops, LeaveDummy, ConIn, ReadBuf, ConStat, OtherCall,
           BdosCall, ConOut, Status, Return, Prompt, ErrOutput, ErrChar, ErrStops, PutFrom, Quiet
  <2> QED
    BY <2>1, <2>2, <1>1, KeptKey DEF Keyed, Taken, Runs
<1>2. CASE ~Taken
  <2>1. UNCHANGED toTarget /\ at # "main"
    BY <1>2, AwayTrue
       DEF Resume, OneInstruction, Program, UserStep, UserStops, LeaveDummy, ConIn, ReadBuf, ConStat, OtherCall,
           BdosCall, ConOut, Status, Return, Prompt, ErrOutput, ErrChar, ErrStops, PutFrom, Quiet, StopTaken, CharTaken, LineTaken
  <2> QED
    BY <2>1, KeptKey
<1> QED
  BY <1>1, <1>2

-----------------------------------------------------------------------------
(* Commands: carried out as Debugger says, and answered with the truth.    *)

LEMMA HeardWhole ==
  ASSUME NEW t \in Seq(Told), NEW s \in Seq(Value), Len(t) = Len(s), \A i \in 1..Len(s) : t[i].v = s[i]
  PROVE  Values(SubSeq(t, 1, Len(s))) = s
<1>1. PICK n \in Nat : n = Len(s) /\ n = Len(t)
  OBVIOUS
<1>2. SubSeq(t, 1, n) = t
  <2>1. SubSeq(t, 1, n) = [i \in 1..((n - 1) + 1) |-> t[i + 1 - 1]]
    BY <1>1
  <2>2. (n - 1) + 1 = n /\ \A i \in 1..n : i + 1 - 1 = i
    OBVIOUS
  <2>3. SubSeq(t, 1, n) = [i \in 1..n |-> t[i]]
    BY <2>1, <2>2
  <2>4. t = [i \in 1..n |-> t[i]]
    BY <1>1
  <2> QED
    BY <2>3, <2>4
<1>3. Values(t) = [i \in 1..n |-> t[i].v]
  BY <1>1 DEF Values
<1>4. [i \in 1..n |-> t[i].v] = [i \in 1..n |-> s[i]]
  BY <1>1
<1>5. s = [i \in 1..n |-> s[i]]
  BY <1>1
<1> QED
  BY <1>1, <1>2, <1>3, <1>4, <1>5

LEMMA AsHeard ==
  ASSUME NEW s \in Seq(Value), NEW role
  PROVE  Len(As(role, s)) = Len(s) /\ \A i \in 1..Len(s) : As(role, s)[i].v = s[i]
<1>1. PICK n \in Nat : n = Len(s)
  OBVIOUS
<1>2. As(role, s) = [i \in 1..n |-> [v |-> s[i], as |-> role]]
  BY <1>1 DEF As
<1> QED
  BY <1>1, <1>2

LEMMA DataHeard ==
  ASSUME NEW s \in Seq(Value)
  PROVE  Values(SubSeq(As("data", s), 1, Len(s))) = s
  BY AsData, AsHeard, HeardWhole

LEMMA CodeHeard ==
  ASSUME NEW s \in Seq(Value), s # <<>>
  PROVE  Values(SubSeq(Code(s), 1, Len(s))) = s
<1>1. PICK k \in Nat, r \in Seq(Value) :
        /\ Len(s) = k + 1 /\ r = Tail(s) /\ Len(r) = k /\ \A i \in 1..k : r[i] = s[i + 1]
        /\ Head(s) = s[1] /\ s[1] \in Value
  <2>1. /\ Tail(s) \in Seq(Value) /\ Len(Tail(s)) = Len(s) - 1 /\ \A i \in 1..(Len(s) - 1) : Tail(s)[i] = s[i + 1]
        /\ Head(s) = s[1] /\ s[1] \in Value /\ Len(s) \in Nat \ {0}
    BY Ending
  <2>2. PICK k \in Nat : Len(s) = k + 1 /\ Len(s) - 1 = k
    <3>1. PICK n \in Nat \ {0} : n = Len(s)
      BY <2>1
    <3>2. n - 1 \in Nat /\ n = (n - 1) + 1
      OBVIOUS
    <3> QED
      BY <3>1, <3>2
  <2> QED
    BY <2>1, <2>2
<1>2. PICK h \in Seq(Told), y \in Seq(Told) :
        /\ h = As("code", <<s[1]>>) /\ Len(h) = 1 /\ h[1].v = s[1]
        /\ y = As("data", r) /\ Len(y) = k /\ \A i \in 1..k : y[i].v = r[i]
  <2>1. PICK z \in Seq(Value) : z = <<s[1]>> /\ Len(z) = 1 /\ z[1] = s[1]
    BY <1>1, Single
  <2>2. As("code", z) = [i \in 1..1 |-> [v |-> s[1], as |-> "code"]]
    BY <2>1 DEF As
  <2>3. PICK x \in Told : x = [v |-> s[1], as |-> "code"] /\ x.v = s[1]
    <3>1. [v |-> s[1], as |-> "code"] \in Told
      BY <1>1 DEF Told
    <3> QED
      BY <3>1
  <2>4. As("code", z) \in Seq(Told) /\ Len(As("code", z)) = 1 /\ As("code", z)[1].v = s[1]
    <3>1. [i \in 1..1 |-> x] \in Seq(Told) /\ Len([i \in 1..1 |-> x]) = 1 /\ [i \in 1..1 |-> x][1] = x
      OBVIOUS
    <3> QED
      BY <2>2, <2>3, <3>1
  <2>5. As("data", r) \in Seq(Told) /\ Len(As("data", r)) = k /\ \A i \in 1..k : As("data", r)[i].v = r[i]
    BY <1>1, AsData, AsHeard
  <2> QED
    BY <2>1, <2>4, <2>5
<1>3. Code(s) = h \o y
  BY <1>1, <1>2 DEF Code
<1>4. PICK t \in Seq(Told) : t = h \o y /\ Len(t) = k + 1 /\ \A i \in 1..(k + 1) : t[i].v = s[i]
  <2>1. /\ h \o y \in Seq(Told) /\ Len(h \o y) = Len(h) + Len(y)
        /\ \A i \in 1..(Len(h) + Len(y)) : (h \o y)[i] = IF i <= Len(h) THEN h[i] ELSE y[i - Len(h)]
    BY Joined
  <2>2. Len(h) = 1 /\ Len(y) = k /\ 1 + k = k + 1
    BY <1>2
  <2>3. \A i \in 1..(k + 1) : (h \o y)[i] = IF i <= 1 THEN h[i] ELSE y[i - 1]
    BY <2>1, <2>2
  <2>4. ASSUME NEW i \in 1..(k + 1) PROVE (h \o y)[i].v = s[i]
    <3>1. CASE i = 1
      BY <1>2, <2>3, <3>1
    <3>2. CASE i # 1
      <4>1. PICK j \in 1..k : j = i - 1 /\ j + 1 = i /\ ~(i <= 1)
        BY <3>2
      <4>2. (h \o y)[i] = y[j]
        BY <2>3, <4>1, Zenon
      <4>3. y[j].v = r[j] /\ r[j] = s[j + 1]
        BY <1>1, <1>2
      <4> QED
        BY <4>1, <4>2, <4>3
    <3> QED
      BY <3>1, <3>2
  <2> QED
    BY <2>1, <2>2, <2>4
<1> QED
  BY <1>1, <1>3, <1>4, HeardWhole

(* Nothing has been answered yet; then the whole answer is there.          *)
LEMMA Unanswered ==
  ASSUME IInv, Asking
  PROVE  host.req \in Requests /\ Reply = Silent
<1>1. host.req # Nothing /\ toHost = <<>>
  BY DEF Asking
<1>2. host.req \in Requests /\ AnswerLen(host.req) \in Nat \ {0}
  BY <1>1, HostKnown, AnswerLens
<1>3. Len(toHost) < AnswerLen(host.req)
  <2>1. Len(<<>>) = 0
    OBVIOUS
  <2> QED
    BY <1>1, <1>2, <2>1
<1> QED
  BY <1>2, <1>3 DEF Reply

LEMMA AnsweredWith ==
  ASSUME IInv, Asking, UNCHANGED host, NEW m \in Seq(Told), Put(m), NEW s \in Seq(Value),
         Len(m) = Len(s), Len(s) = AnswerLen(host.req), Values(SubSeq(m, 1, Len(s))) = s
  PROVE  Reply' = Decoded(host.req, s)
<1>1. toHost' = m
  <2>1. toHost = <<>> /\ <<>> \o m = m
    BY DEF Asking
  <2> QED
    BY <2>1 DEF Put
<1>2. host.req # Nothing /\ ~(Len(m) < AnswerLen(host.req))
  BY DEF Asking
<1> QED
  BY <1>1, <1>2 DEF Reply


LEMMA AskedFor ==
  ASSUME IInv, at = "main", toTarget # <<>>, Command # STOP
  PROVE  /\ Asking /\ host.req \in Requests /\ Reply = Silent
         /\ Command = HELLO => host.req.do = "hello"
         /\ Command = IDENT => host.req.do = "ident"
         /\ Command = GREGS => host.req.do = "registers"
         /\ Command = GO => host.req.do = "go"
         /\ Command = STEP => host.req.do = "step"
         /\ Command = SNDREGS => host.req.do = "set"
         /\ Command = READ => host.req.do = "read"
         /\ Command = WRITE => host.req.do = "write"
<1>1. Asking /\ host.req \in Requests /\ Encoded(host.req)[1] = Command
  BY Carried
<1>2. Reply = Silent
  BY <1>1, Unanswered
<1> QED
  BY <1>1, <1>2, CommandsApart

LEMMA CodesKnown ==
  /\ STOP \notin {HELLO, IDENT, GREGS, GO, STEP, SNDREGS, READ, WRITE}
  /\ {HELLO, IDENT, GREGS, GO, STEP, SNDREGS, READ, WRITE, ACK, IDACK, GACK, WACK} \subseteq Int
  BY DEF HELLO, IDENT, GREGS, GO, STEP, SNDREGS, READ, WRITE, STOP, ACK, IDACK, GACK, WACK

(* Registers and memory stay, and the answer is that it is done.           *)
Stay == Shown' = Shown /\ Memory' = Memory

LEMMA StayTrue == ASSUME Truly, Stay PROVE Goes
<1>1. \A c \in Cells : Memory[c] = mem[c] /\ Memory'[c] = mem'[c]
  BY DEF Memory
<1> QED
  BY <1>1 DEF Truly, Goes, Stay

LEMMA UntouchedStay ==
  ASSUME at \in {"main", "going", "stepping", "saving"}, at' \in {"main", "going", "stepping", "saving"}, UNCHANGED <<mem, rptr>>
  PROVE  Stay
  BY DEF Stay, Shown, Saved, Memory

LEMMA JustDone ==
  ASSUME NEW r \in Requests, NEW s, r.do \in {"hello", "ident", "go", "step"},
         r.do = "hello" => s[1] = ACK, r.do = "ident" => s[1] = IDACK, r.do \in {"go", "step"} => s[1] = GACK
  PROVE  Decoded(r, s) = Served(r)
<1>1. Served(r) = [says |-> "done"]
  BY DEF Served
<1>2. Decoded(r, s) = Done
  BY DEF Decoded
<1> QED
  BY <1>1, <1>2 DEF Done

LEMMA SimplyServed ==
  ASSUME IInv, Truly, Asking, host.req \in Requests, UNCHANGED <<mem, rptr, host>>,
         at = "main", at' \in {"main", "going", "stepping"}, at' # "main" <=> host.req.do \in {"go", "step"},
         host.req.do \in {"hello", "ident", "go", "step"},
         NEW s \in Seq(Value), s # <<>>, Put(Code(s)), Len(s) = AnswerLen(host.req),
         host.req.do = "hello" => s[1] = ACK, host.req.do = "ident" => s[1] = IDACK,
         host.req.do \in {"go", "step"} => s[1] = GACK
  PROVE  Goes /\ D!Next
<1>1. Stay
  BY UntouchedStay
<1>2. Reply = Silent
  BY Unanswered
<1>3. Code(s) \in Seq(Told) /\ Len(Code(s)) = Len(s) /\ Values(SubSeq(Code(s), 1, Len(s))) = s
  BY Coded, CodeHeard
<1>4. Reply' = Decoded(host.req, s)
  BY <1>3, AnsweredWith
<1>5. Decoded(host.req, s) = Served(host.req)
  BY JustDone
<1>6. D!Next
  BY <1>1, <1>2, <1>4, <1>5, AsServe DEF Stay
<1> QED
  BY <1>1, <1>6, StayTrue

LEMMA HelloTrue == ASSUME IInv, Truly, Hello PROVE Goes /\ D!Next
<1>1. at = "main" /\ toTarget # <<>> /\ Command = HELLO /\ UNCHANGED <<mem, rptr, at, host>> /\ Put(Code(<<ACK>>))
  BY DEF Hello, Takes
<1>2. Asking /\ host.req \in Requests /\ host.req.do = "hello"
  BY <1>1, AskedFor, CodesKnown
<1>3. ACK \in Value
  BY Bytes
<1>4. PICK s \in Seq(Value) : s = <<ACK>> /\ Len(s) = 1 /\ s[1] = ACK /\ s # <<>>
  BY <1>3, Single
<1>5. AnswerLen(host.req) = 1
  BY <1>2 DEF AnswerLen
<1> QED
  BY <1>1, <1>2, <1>4, <1>5, SimplyServed

LEMMA IdentTrue == ASSUME IInv, Truly, Ident PROVE Goes /\ D!Next
<1>1. at = "main" /\ toTarget # <<>> /\ Command = IDENT /\ UNCHANGED <<mem, rptr, at, host>> /\ Put(Code(<<IDACK, 0, 3>>))
  BY DEF Ident, Takes
<1>2. Asking /\ host.req \in Requests /\ host.req.do = "ident"
  BY <1>1, AskedFor, CodesKnown
<1>3. PICK c \in Value, x \in Value, y \in Value : c = IDACK /\ x = 0 /\ y = 3
  BY Bytes
<1>4. <<c, x, y>> \in Seq(Value) /\ Len(<<c, x, y>>) = 3 /\ <<c, x, y>> # <<>> /\ <<c, x, y>>[1] = c
  OBVIOUS
<1>5. PICK s \in Seq(Value) : s = <<IDACK, 0, 3>> /\ Len(s) = 3 /\ s[1] = IDACK /\ s # <<>>
  BY <1>3, <1>4
<1>6. AnswerLen(host.req) = 3
  BY <1>2 DEF AnswerLen
<1> QED
  BY <1>1, <1>2, <1>5, <1>6, SimplyServed

LEMMA LetGoTrue == ASSUME IInv, Truly, Step \/ Go PROVE Goes /\ D!Next
<1>1. /\ at = "main" /\ toTarget # <<>> /\ Command \in {STEP, GO} /\ UNCHANGED <<mem, rptr, host>> /\ Put(Code(<<GACK>>))
      /\ at' \in {"going", "stepping"}
  BY DEF Step, Go, Takes
<1>2. Asking /\ host.req \in Requests /\ host.req.do \in {"go", "step"}
  BY <1>1, AskedFor, CodesKnown
<1>3. GACK \in Value
  BY Bytes
<1>4. PICK s \in Seq(Value) : s = <<GACK>> /\ Len(s) = 1 /\ s[1] = GACK /\ s # <<>>
  BY <1>3, Single
<1>5. AnswerLen(host.req) = 1
  BY <1>2, AnswerLens
<1> QED
  BY <1>1, <1>2, <1>4, <1>5, SimplyServed

LEMMA FiveBytes ==
  ASSUME NEW S, NEW f \in S, NEW u \in S, NEW v \in S, NEW w \in S, NEW g \in S,
         NEW s, s = <<f>> \o <<u, v, w>> \o <<g>>
  PROVE  s \in Seq(S) /\ Len(s) = 5 /\ s[1] = f /\ s[2] = u /\ s[3] = v /\ s[4] = w /\ s[5] = g
<1>1. PICK h \in Seq(S), b \in Seq(S), e \in Seq(S) :
        /\ h = <<f>> /\ Len(h) = 1 /\ h[1] = f /\ e = <<g>> /\ Len(e) = 1 /\ e[1] = g
        /\ b = <<u, v, w>> /\ Len(b) = 3 /\ b[1] = u /\ b[2] = v /\ b[3] = w
  <2>1. <<f>> \in Seq(S) /\ Len(<<f>>) = 1 /\ <<f>>[1] = f
    OBVIOUS
  <2>2. <<u, v, w>> \in Seq(S) /\ Len(<<u, v, w>>) = 3 /\ <<u, v, w>>[1] = u /\ <<u, v, w>>[2] = v /\ <<u, v, w>>[3] = w
    OBVIOUS
  <2>3. <<g>> \in Seq(S) /\ Len(<<g>>) = 1 /\ <<g>>[1] = g
    OBVIOUS
  <2> QED
    BY <2>1, <2>2, <2>3, Zenon
<1>2. PICK p \in Seq(S) : /\ p = h \o b /\ Len(p) = 4
                         /\ p[1] = f /\ p[2] = u /\ p[3] = v /\ p[4] = w
  <2>1. /\ h \o b \in Seq(S) /\ Len(h \o b) = Len(h) + Len(b)
        /\ \A i \in 1..(Len(h) + Len(b)) : (h \o b)[i] = IF i <= Len(h) THEN h[i] ELSE b[i - Len(h)]
    BY Joined
  <2>2. Len(h \o b) = 4 /\ \A i \in 1..4 : (h \o b)[i] = IF i <= 1 THEN h[i] ELSE b[i - 1]
    BY <1>1, <2>1
  <2>3. (h \o b)[1] = f /\ (h \o b)[2] = u /\ (h \o b)[3] = v /\ (h \o b)[4] = w
    BY <1>1, <2>2
  <2> QED
    BY <2>1, <2>2, <2>3
<1>3. /\ s = p \o e /\ s \in Seq(S) /\ Len(s) = 5
      /\ s[1] = f /\ s[2] = u /\ s[3] = v /\ s[4] = w /\ s[5] = g
  <2>1. /\ p \o e \in Seq(S) /\ Len(p \o e) = Len(p) + Len(e)
        /\ \A i \in 1..(Len(p) + Len(e)) : (p \o e)[i] = IF i <= Len(p) THEN p[i] ELSE e[i - Len(p)]
    BY Joined
  <2>2. Len(p \o e) = 5 /\ \A i \in 1..5 : (p \o e)[i] = IF i <= 4 THEN p[i] ELSE e[i - 4]
    BY <1>1, <1>2, <2>1
  <2>3. (p \o e)[1] = f /\ (p \o e)[2] = u /\ (p \o e)[3] = v /\ (p \o e)[4] = w /\ (p \o e)[5] = g
    BY <1>1, <1>2, <2>2
  <2>4. s = p \o e
    BY <1>1, <1>2
  <2> QED
    BY <2>1, <2>2, <2>3, <2>4
<1> QED
  BY <1>3

LEMMA GRegsTrue == ASSUME IInv, Truly, GRegs PROVE Goes /\ D!Next
<1>1. /\ at = "main" /\ toTarget # <<>> /\ Command = GREGS /\ UNCHANGED <<mem, rptr, at, host>>
      /\ Put(Code(<<RSIZE + 1>> \o RegBytes \o <<Sum(RegBytes)>>))
  BY DEF GRegs, Takes
<1>2. Asking /\ host.req \in Requests /\ host.req.do = "registers" /\ Reply = Silent
  BY <1>1, AskedFor, CodesKnown
<1>3. PICK x \in Int, y \in Int, z \in Int : x = rptr + 2 /\ y = mem[rptr + 1] /\ z = mem[rptr]
  <2>1. PICK p \in {2, 4} : p = rptr
    BY Domains
  <2>2. p \in 0..7 /\ p + 1 \in 0..7 /\ p + 2 \in Int
    OBVIOUS
  <2> QED
    BY <2>1, <2>2, Domains
<1>4. RegBytes = <<x, y, z>>
  BY <1>3, Stacking DEF RegBytes
<1>5. <<x, y, z>> \in Seq(Int)
  OBVIOUS
<1>6. PICK f \in Value, g \in Value, u \in Value, v \in Value, w \in Value :
        f = 3 /\ g = Sum(<<x, y, z>>) /\ u = x /\ v = y /\ w = z
  <2>1. 3 \in Value /\ x \in Value /\ y \in Value /\ z \in Value
    BY Bytes
  <2>2. Sum(<<x, y, z>>) \in Value
    BY <1>5, Bytes
  <2> QED
    BY <2>1, <2>2
<1>7. PICK s \in Seq(Value) : s = <<f>> \o <<u, v, w>> \o <<g>> /\ Len(s) = 5
                              /\ s[1] = f /\ s[2] = u /\ s[3] = v /\ s[4] = w /\ s[5] = g
  <2>1. PICK s : s = <<f>> \o <<u, v, w>> \o <<g>>
    OBVIOUS
  <2>2. s \in Seq(Value) /\ Len(s) = 5 /\ s[1] = f /\ s[2] = u /\ s[3] = v /\ s[4] = w /\ s[5] = g
    BY <2>1, FiveBytes
  <2> QED
    BY <2>1, <2>2
<1>8. s = <<RSIZE + 1>> \o RegBytes \o <<Sum(RegBytes)>>
  BY <1>4, <1>6, <1>7, Stacking
<1>9. SubSeq(s, 2, 4) = <<u, v, w>>
  <2>1. SubSeq(s, 2, 4) = [i \in 1..((4 - 2) + 1) |-> s[i + 2 - 1]]
    OBVIOUS
  <2>2. <<u, v, w>> = [i \in 1..3 |-> <<u, v, w>>[i]]
    OBVIOUS
  <2>3. \A i \in 1..3 : s[i + 2 - 1] = <<u, v, w>>[i]
    BY <1>7
  <2>4. (4 - 2) + 1 = 3
    OBVIOUS
  <2>5. [i \in 1..3 |-> s[i + 2 - 1]] = [i \in 1..3 |-> <<u, v, w>>[i]]
    BY <2>3
  <2> QED
    BY <2>1, <2>2, <2>4, <2>5
<1>10. s # <<>> /\ Code(s) \in Seq(Told) /\ Len(Code(s)) = Len(s) /\ Values(SubSeq(Code(s), 1, Len(s))) = s
  <2>1. s # <<>>
    BY <1>7
  <2> QED
    BY <2>1, Coded, CodeHeard
<1>11. AnswerLen(host.req) = 5
  BY <1>2, Stacking DEF AnswerLen
<1>12. Reply' = Decoded(host.req, s)
  BY <1>1, <1>2, <1>7, <1>8, <1>10, <1>11, AnsweredWith
<1>13. Decoded(host.req, s) = [says |-> "registers", regs |-> [sp |-> s[2], pc |-> s[3], a |-> s[4]]]
  <2>1. s[RSIZE + 3] = s[5] /\ SubSeq(s, 2, RSIZE + 2) = SubSeq(s, 2, 4) /\ s[1] = RSIZE + 1
    BY <1>6, <1>7, Stacking
  <2>2. s[RSIZE + 3] = Sum(SubSeq(s, 2, RSIZE + 2))
    BY <1>6, <1>7, <1>9, <2>1
  <2> QED
    BY <1>2, <2>1, <2>2 DEF Decoded
<1>14. Shown = [a |-> z, pc |-> y, sp |-> x]
  BY <1>1, <1>3, Registered DEF Shown
<1>15. Served(host.req) = [says |-> "registers", regs |-> Shown]
  BY <1>2 DEF Served
<1>16. Reply' = Served(host.req)
  BY <1>6, <1>7, <1>12, <1>13, <1>14, <1>15
<1>17. Stay
  BY <1>1, UntouchedStay
<1>18. D!Next
  BY <1>1, <1>2, <1>16, <1>17, AsServe DEF Stay
<1> QED
  BY <1>17, <1>18, StayTrue


LEMMA ArgsHold ==
  ASSUME IInv, NEW i \in Nat, NEW j \in Nat, i <= j + 1, j + 1 <= Len(toTarget)
  PROVE  \A k \in 1..(j + 1 - i) : Args(i, j)[k] = toTarget[k + i].v
<1>1. PICK t \in Seq(Sent) : t = toTarget
  BY Domains
<1>2. PICK n \in Nat : n = j + 1 - i
  <2>1. j + 1 - i \in Nat
    OBVIOUS
  <2> QED
    BY <2>1
<1>3. DOMAIN SubSeq(t, i + 1, j + 1) = 1..n /\ \A k \in 1..n : SubSeq(t, i + 1, j + 1)[k] = t[k + i]
  <2>1. (j + 1) - (i + 1) + 1 = n /\ \A k \in 1..n : k + (i + 1) - 1 = k + i
    BY <1>2
  <2>2. SubSeq(t, i + 1, j + 1) = [k \in 1..((j + 1) - (i + 1) + 1) |-> t[k + (i + 1) - 1]]
    OBVIOUS
  <2> QED
    BY <2>1, <2>2
<1>4. Args(i, j) = [k \in 1..n |-> t[k + i].v]
  BY <1>1, <1>3 DEF Args, Values
<1> QED
  BY <1>1, <1>2, <1>4

(* A command that stores something is answered with the sum of what came. *)
LEMMA Acknowledged ==
  ASSUME IInv, Asking, host.req \in Requests, UNCHANGED host, host.req.do \in {"set", "write"},
         NEW q \in Seq(Int), Put(Code(<<WACK, Sum(q)>>)),
         q = (IF host.req.do = "set" THEN Tail(Tail(Encoded(host.req))) ELSE host.req.data)
  PROVE  Reply' = Served(host.req)
<1>1. PICK x \in Value, y \in Value : x = WACK /\ y = Sum(q)
  BY Bytes
<1>2. PICK s \in Seq(Value) : s = <<x, y>> /\ Len(s) = 2 /\ s # <<>>
  BY Pair
<1>3. s = <<WACK, Sum(q)>>
  BY <1>1, <1>2
<1>4. Code(s) \in Seq(Told) /\ Len(Code(s)) = Len(s) /\ Values(SubSeq(Code(s), 1, Len(s))) = s
  BY <1>2, Coded, CodeHeard
<1>5. AnswerLen(host.req) = 2
  BY DEF AnswerLen
<1>6. Reply' = Decoded(host.req, s)
  BY <1>2, <1>3, <1>4, <1>5, AnsweredWith
<1>7. Decoded(host.req, s) = Done
  BY <1>3 DEF Decoded
<1>8. Served(host.req) = [says |-> "done"]
  BY DEF Served
<1> QED
  BY <1>6, <1>7, <1>8 DEF Done

LEMMA SndRegsTrue == ASSUME IInv, Truly, SndRegs PROVE Goes /\ D!Next
<1>1. /\ at = "main" /\ at' = "main" /\ toTarget # <<>> /\ Command = SNDREGS /\ UNCHANGED host
      /\ Frame([sp |-> Arg(2), pc |-> Arg(3), a |-> Arg(4)]) /\ Put(Code(<<WACK, Sum(Args(2, 4))>>))
  BY DEF SndRegs, Takes
<1>2. Asking /\ host.req \in Requests /\ host.req.do = "set" /\ Reply = Silent
  BY <1>1, AskedFor, CodesKnown
<1>3. PICK r \in Registers : r = host.req.regs /\ r.sp \in {4, 6} /\ r.pc \in Int /\ r.a \in Int /\ r.sp \in Int
  <2>1. host.req.regs \in Registers
    BY <1>2 DEF Requests
  <2>2. host.req.regs.sp \in {4, 6} /\ host.req.regs.pc \in User /\ host.req.regs.a \in Int
    BY <1>2, RequestKinds, Stacking
  <2> QED
    BY <2>1, <2>2, Stacking
<1>4. Len(toTarget) = 5 /\ Arg(2) = r.sp /\ Arg(3) = r.pc /\ Arg(4) = r.a
  BY <1>1, <1>2, <1>3, CodesKnown, Arguments
<1>5. Saved' = r /\ \A c \in Cells : mem'[c] = mem[c]
  <2>1. PICK f : f = [sp |-> Arg(2), pc |-> Arg(3), a |-> Arg(4)]
    OBVIOUS
  <2>2. f.sp = r.sp /\ f.pc = r.pc /\ f.a = r.a /\ Frame(f)
    BY <1>1, <1>4, <2>1
  <2>3. Saved' = [a |-> f.a, pc |-> f.pc, sp |-> f.sp] /\ \A c \in Cells : mem'[c] = mem[c]
    BY <1>3, <2>2, FramedTrue
  <2> QED
    BY <2>2, <2>3, Registered
<1>6. Shown' = r /\ Memory' = Memory
  BY <1>1, <1>5 DEF Shown, Memory
<1>7. PICK q \in Seq(Int) : q = Args(2, 4) /\ q = <<r.sp, r.pc, r.a>>
  <2>1. 2 \in Nat /\ 4 \in Nat /\ 2 <= 4 + 1 /\ 4 + 1 <= Len(toTarget) /\ 4 + 1 - 2 = 3
    BY <1>4
  <2>2. PICK q \in Seq(Int) : q = Args(2, 4) /\ Len(q) = 3
    <3>1. Args(2, 4) \in Seq(Int) /\ Len(Args(2, 4)) = 4 + 1 - 2
      BY <2>1, ArgsInt
    <3> QED
      BY <2>1, <3>1
  <2>3. \A k \in 1..3 : Args(2, 4)[k] = toTarget[k + 2].v
    <3>1. \A k \in 1..(4 + 1 - 2) : Args(2, 4)[k] = toTarget[k + 2].v
      BY <2>1, ArgsHold
    <3> QED
      BY <2>1, <3>1
  <2>4. q[1] = Arg(2) /\ q[2] = Arg(3) /\ q[3] = Arg(4)
    BY <2>2, <2>3 DEF Arg
  <2>5. PICK p \in Seq(Int) : p = <<r.sp, r.pc, r.a>> /\ Len(p) = 3 /\ p[1] = r.sp /\ p[2] = r.pc /\ p[3] = r.a
    <3>1. PICK x \in Int, y \in Int, z \in Int : x = r.sp /\ y = r.pc /\ z = r.a
      BY <1>3
    <3>2. /\ <<x, y, z>> \in Seq(Int) /\ Len(<<x, y, z>>) = 3
          /\ <<x, y, z>>[1] = x /\ <<x, y, z>>[2] = y /\ <<x, y, z>>[3] = z
      OBVIOUS
    <3> QED
      BY <3>1, <3>2, Zenon
  <2>6. \A i \in 1..Len(q) : q[i] = p[i]
    BY <1>4, <2>2, <2>4, <2>5
  <2>7. q = p
    BY <2>2, <2>5, <2>6, SameText
  <2> QED
    BY <2>2, <2>5, <2>7
<1>8. q = Tail(Tail(Encoded(host.req)))
  <2>1. Encoded(host.req) = <<SNDREGS, RSIZE, r.sp, r.pc, r.a>>
    BY <1>2, <1>3, Encoding, Zenon
  <2>2. PICK c \in Int, n \in Int : c = SNDREGS /\ n = RSIZE
    BY CodesKnown, Stacking
  <2>3. Tail(<<c, n, r.sp, r.pc, r.a>>) = <<n, r.sp, r.pc, r.a>> /\ Tail(<<n, r.sp, r.pc, r.a>>) = <<r.sp, r.pc, r.a>>
    BY <1>3
  <2> QED
    BY <1>7, <2>1, <2>2, <2>3
<1>9. Reply' = Served(host.req)
  BY <1>1, <1>2, <1>7, <1>8, Acknowledged
<1>10. D!Next
  BY <1>1, <1>2, <1>3, <1>6, <1>9, AsServe
<1> QED
  BY <1>5, <1>6, <1>10 DEF Goes, Truly

LEMMA ReadTrue == ASSUME IInv, Truly, Read PROVE Goes /\ D!Next
<1>1. /\ at = "main" /\ toTarget # <<>> /\ Command = READ /\ UNCHANGED <<mem, rptr, at, host>>
  BY DEF Read, Takes
<1>2. Asking /\ host.req \in Requests /\ host.req.do = "read" /\ Reply = Silent
  BY <1>1, AskedFor, CodesKnown
<1>3. PICK f \in {0, 1}, t \in {0, 1} : f = host.req.from /\ t = host.req.to /\ f <= t
  BY <1>2, RequestKinds, Stacking
<1>4. Len(toTarget) = 3 /\ Arg(1) = f /\ Arg(2) = (t - f + 1) % 2
  BY <1>1, <1>2, <1>3, CodesKnown, Arguments, Stacking
<1>5. ReadCount = t - f + 1
  BY <1>3, <1>4, Stacking DEF ReadCount
<1>6. PICK k \in Nat : k = t - f + 1 /\ f + k - 1 <= 1
  BY <1>3
<1>7. PICK b \in Seq(Value) : b = [i \in 1..k |-> mem[f + i - 1]] /\ Len(b) = k /\ Sum(b) \in Value
  <2>1. \A i \in 1..k : f + i - 1 \in 0..7
    BY <1>6
  <2>2. \A i \in 1..k : mem[f + i - 1] \in Int
    BY <2>1, Domains
  <2>3. [i \in 1..k |-> mem[f + i - 1]] \in Seq(Int) /\ Len([i \in 1..k |-> mem[f + i - 1]]) = k
    BY <2>2
  <2> QED
    BY <2>3, Bytes
<1>8. PICK s \in Seq(Value) : s = b \o <<Sum(b)>> /\ Len(s) = k + 1 /\ s[k + 1] = Sum(b) /\ \A i \in 1..k : s[i] = b[i]
  <2>1. PICK y \in Seq(Value) : y = <<Sum(b)>> /\ Len(y) = 1 /\ y[1] = Sum(b)
    BY <1>7, Single
  <2>2. /\ b \o y \in Seq(Value) /\ Len(b \o y) = Len(b) + Len(y)
        /\ \A i \in 1..(Len(b) + Len(y)) : (b \o y)[i] = IF i <= Len(b) THEN b[i] ELSE y[i - Len(b)]
    BY Joined
  <2>3. Len(b \o y) = k + 1 /\ \A i \in 1..(k + 1) : (b \o y)[i] = IF i <= k THEN b[i] ELSE y[i - k]
    BY <1>7, <2>1, <2>2
  <2>4. (k + 1) - k = 1 /\ ~(k + 1 <= k) /\ k + 1 \in 1..(k + 1) /\ 1..k \subseteq 1..(k + 1)
    OBVIOUS
  <2>5. (b \o y)[k + 1] = y[1] /\ \A i \in 1..k : (b \o y)[i] = b[i]
    BY <2>3, <2>4
  <2> QED
    BY <2>1, <2>2, <2>3, <2>5
<1>9. Put(As("data", s))
  <2>1. [i \in 1..ReadCount |-> mem[Arg(1) + i - 1]] = b
    BY <1>4, <1>5, <1>6, <1>7
  <2> QED
    BY <1>8, <2>1 DEF Read
<1>10. AnswerLen(host.req) = k + 1
  <2>1. AnswerLen(host.req) = host.req.to - host.req.from + 2
    BY <1>2 DEF AnswerLen
  <2> QED
    BY <1>3, <1>6, <2>1
<1>11. As("data", s) \in Seq(Told) /\ Len(As("data", s)) = Len(s) /\ Values(SubSeq(As("data", s), 1, Len(s))) = s
  BY AsData, DataHeard
<1>12. Reply' = Decoded(host.req, s)
  BY <1>1, <1>2, <1>8, <1>9, <1>10, <1>11, AnsweredWith
<1>13. Last(s) = Sum(b) /\ Front(s) = b
  <2>1. Last(s) = s[k + 1]
    BY <1>8 DEF Last
  <2>2. Front(s) = SubSeq(s, 1, k)
    <3>1. Len(s) - 1 = k
      BY <1>8
    <3> QED
      BY <3>1 DEF Front
  <2>3. SubSeq(s, 1, k) = b
    <3>1. SubSeq(s, 1, k) = [i \in 1..((k - 1) + 1) |-> s[i + 1 - 1]]
      OBVIOUS
    <3>2. (k - 1) + 1 = k /\ \A i \in 1..k : i + 1 - 1 = i
      OBVIOUS
    <3>3. SubSeq(s, 1, k) = [i \in 1..k |-> b[i]]
      BY <1>8, <3>1, <3>2
    <3>4. b = [i \in 1..k |-> b[i]]
      BY <1>7
    <3> QED
      BY <3>3, <3>4
  <2> QED
    BY <1>8, <2>1, <2>2, <2>3
<1>14. Decoded(host.req, s) = [says |-> "data", data |-> b]
  BY <1>2, <1>13 DEF Decoded
<1>15. Served(host.req) = [says |-> "data", data |-> b]
  <2>1. Served(host.req) = [says |-> "data",
                            data |-> [i \in 1..(host.req.to - host.req.from + 1) |-> Memory[host.req.from + i - 1]]]
    BY <1>2 DEF Served
  <2>2. \A i \in 1..k : Memory[f + i - 1] = mem[f + i - 1]
    <3>1. \A i \in 1..k : f + i - 1 \in Cells
      BY <1>6, Stacking
    <3> QED
      BY <3>1 DEF Memory
  <2>3. [i \in 1..(host.req.to - host.req.from + 1) |-> Memory[host.req.from + i - 1]] = b
    BY <1>3, <1>6, <1>7, <2>2
  <2> QED
    BY <2>1, <2>3
<1>16. Stay
  BY <1>1, UntouchedStay
<1>17. D!Next
  BY <1>1, <1>2, <1>12, <1>14, <1>15, <1>16, AsServe DEF Stay
<1> QED
  BY <1>16, <1>17, StayTrue


(* The bytes after the count of a WRITE are what was to be written.        *)
LEMMA DataCarried ==
  ASSUME IInv, at = "main", toTarget # <<>>, Command # STOP, host.req.do = "write",
         NEW d \in Seq(Int), d = host.req.data, NEW n \in Nat, n = Len(d)
  PROVE  Args(3, 2 + n) \in Seq(Int) /\ Args(3, 2 + n) = d
<1>1. /\ host.req \in Requests /\ Len(toTarget) = Len(Encoded(host.req))
      /\ \A i \in 1..Len(toTarget) : toTarget[i].v = Encoded(host.req)[i]
  BY Carried
<1>2. PICK h \in Seq(Int) : h = <<WRITE, host.req.from, Len(d)>> /\ Len(h) = 3
  <2>1. host.req.from \in Cells
    BY <1>1, RequestKinds
  <2> QED
    BY <2>1, WriteHead
<1>3. Encoded(host.req) = h \o d
  BY <1>1, <1>2, Encoding, Zenon
<1>4. /\ Len(h \o d) = 3 + n
      /\ \A i \in 1..(3 + n) : (h \o d)[i] = IF i <= 3 THEN h[i] ELSE d[i - 3]
  <2>1. /\ Len(h \o d) = Len(h) + Len(d)
        /\ \A i \in 1..(Len(h) + Len(d)) : (h \o d)[i] = IF i <= Len(h) THEN h[i] ELSE d[i - Len(h)]
    BY Joined
  <2> QED
    BY <1>2, <2>1
<1>5. Len(toTarget) = 3 + n
  BY <1>1, <1>3, <1>4
<1>6. 3 \in Nat /\ 2 + n \in Nat /\ 3 <= (2 + n) + 1 /\ (2 + n) + 1 <= Len(toTarget) /\ (2 + n) + 1 - 3 = n
  BY <1>5
<1>7. PICK q \in Seq(Int) : q = Args(3, 2 + n) /\ Len(q) = n
  <2>1. Args(3, 2 + n) \in Seq(Int) /\ Len(Args(3, 2 + n)) = (2 + n) + 1 - 3
    BY <1>6, ArgsInt
  <2> QED
    BY <1>6, <2>1
<1>8. \A k \in 1..n : q[k] = toTarget[k + 3].v
  <2>1. \A k \in 1..((2 + n) + 1 - 3) : Args(3, 2 + n)[k] = toTarget[k + 3].v
    BY <1>6, ArgsHold
  <2> QED
    BY <1>6, <1>7, <2>1
<1>9. ASSUME NEW k \in 1..n PROVE q[k] = d[k]
  <2>1. PICK j \in 1..(3 + n) : j = k + 3 /\ ~(j <= 3) /\ j - 3 = k
    <3>1. k + 3 \in 1..(3 + n) /\ ~(k + 3 <= 3) /\ (k + 3) - 3 = k
      OBVIOUS
    <3> QED
      BY <3>1
  <2>2. toTarget[j].v = (h \o d)[j]
    BY <1>1, <1>3, <1>5, <2>1
  <2>3. (h \o d)[j] = d[k]
    BY <1>4, <2>1
  <2> QED
    BY <1>8, <2>1, <2>2, <2>3
<1>10. q = d
  BY <1>7, <1>9, SameText
<1> QED
  BY <1>7, <1>10

LEMMA WriteTrue == ASSUME IInv, Truly, Write PROVE Goes /\ D!Next
<1>1. /\ at = "main" /\ at' = "main" /\ toTarget # <<>> /\ Command = WRITE /\ UNCHANGED <<rptr, host>>
  BY DEF Write, Takes
<1>2. Asking /\ host.req \in Requests /\ host.req.do = "write" /\ Reply = Silent
  BY <1>1, AskedFor, CodesKnown
<1>3. PICK n \in 0..2 : host.req.data \in [1..n -> Data] /\ host.req.from \in Cells /\ host.req.from + n <= 2
  <2>1. /\ host.req \in [do : {"write"}, from : Cells, data : UNION {[1..k -> Data] : k \in 0..2}]
        /\ host.req.from + Len(host.req.data) <= 2
    BY <1>2 DEF Requests
  <2>2. PICK n \in 0..2 : host.req.data \in [1..n -> Data]
    BY <2>1
  <2>3. Len(host.req.data) = n
    BY <2>2
  <2> QED
    BY <2>1, <2>2, <2>3
<1>4. PICK d \in Seq(Int) : d = host.req.data /\ Len(d) = n /\ DOMAIN d = 1..n /\ \A i \in 1..n : d[i] \in Data
  <2>1. host.req.data \in Seq(Int) /\ Len(host.req.data) = n
    BY <1>3, Stacking
  <2> QED
    BY <1>3, <2>1
<1>5. PICK f \in {0, 1} : f = host.req.from /\ f + n <= 2
  BY <1>3, Stacking
<1>6. Arg(1) = f /\ WriteCount = n
  BY <1>1, <1>2, <1>4, <1>5, CodesKnown, Arguments DEF WriteCount
<1>7. Args(3, 2 + WriteCount) = d
  <2>1. n \in Nat
    OBVIOUS
  <2> QED
    BY <1>1, <1>2, <1>4, <1>6, <2>1, CodesKnown, DataCarried
<1>8. /\ mem' = [m \in DOMAIN mem |-> IF m - f + 1 \in 1..n THEN d[m - f + 1] ELSE mem[m]]
      /\ Put(Code(<<WACK, Sum(d)>>))
  BY <1>4, <1>6, <1>7 DEF Write
<1>9. /\ \A c \in Cells : mem'[c] = IF c - f + 1 \in 1..n THEN d[c - f + 1] ELSE mem[c]
      /\ \A m \in 2..7 : mem'[m] = mem[m]
  <2>1. DOMAIN mem = 0..7
    BY Domains
  <2>2. \A c \in Cells : c \in 0..7
    BY Stacking
  <2>3. \A m \in 2..7 : m \in 0..7 /\ ~(m - f + 1 \in 1..n)
    BY <1>5
  <2> QED
    BY <1>8, <2>1, <2>2, <2>3
<1>10. Memory' = Written(host.req)
  <2>1. ASSUME NEW c \in Cells
        PROVE  mem'[c] = IF c - host.req.from + 1 \in DOMAIN host.req.data
                         THEN host.req.data[c - host.req.from + 1] ELSE Memory[c]
    BY <1>4, <1>5, <1>9 DEF Memory
  <2> QED
    BY <2>1 DEF Memory, Written
<1>11. Shown' = Shown
  <2>1. PICK p \in {2, 4} : p = rptr
    BY Domains
  <2>2. p \in 2..7 /\ p + 1 \in 2..7
    OBVIOUS
  <2>3. mem'[p] = mem[p] /\ mem'[p + 1] = mem[p + 1]
    BY <1>9, <2>2
  <2> QED
    BY <1>1, <2>1, <2>3 DEF Shown, Saved
<1>12. Reply' = Served(host.req)
  BY <1>1, <1>2, <1>4, <1>8, Acknowledged
<1>13. D!Next
  BY <1>1, <1>2, <1>10, <1>11, <1>12, AsServe
<1>14. \A c \in Cells : mem'[c] \in Data
  <2>1. \A i \in 1..n : d[i] \in Data
    BY <1>4
  <2> QED
    BY <1>9, <2>1, Zenon DEF Truly
<1> QED
  BY <1>11, <1>13, <1>14 DEF Goes, Truly

LEMMA StopIgnoredTrue == ASSUME IInv, Truly, StopIgnored PROVE Goes /\ UNCHANGED D!vars
<1>1. at = "main" /\ at' = at /\ UNCHANGED <<mem, rptr, host, toHost>>
  BY DEF StopIgnored, Takes
<1>2. Stay
  BY <1>1, UntouchedStay
<1>3. SameReply
  BY <1>1 DEF SameReply, Reply
<1> QED
  BY <1>1, <1>2, <1>3, StayTrue, AsBefore DEF Stay

LEMMA ServeTrue == ASSUME IInv, Truly, Serve PROVE Truly' /\ (D!Next \/ UNCHANGED D!vars)
<1>1. Goes /\ (D!Next \/ UNCHANGED D!vars)
  BY HelloTrue, StopIgnoredTrue, IdentTrue, GRegsTrue, SndRegsTrue, ReadTrue, WriteTrue, LetGoTrue DEF Serve
<1>2. ~Prompted'
  BY DEF Serve, Hello, StopIgnored, Ident, GRegs, SndRegs, Read, Write, Step, Go, Takes, Prompted
<1> QED
  BY <1>1, <1>2 DEF Goes, Truly, Keyed
-----------------------------------------------------------------------------
LEMMA TargetTrue == ASSUME IInv, Truly, Gaps = {}, Target PROVE Truly' /\ (D!Next \/ UNCHANGED D!vars)
<1>1. CASE Serve
  BY <1>1, ServeTrue
<1>2. CASE Interrupt \/ ReportRst \/ Trap
  <2>1. Unmoved /\ at # "main" /\ at' = "main"
    BY <1>2, StopsTrue
  <2>2. SameReply
    BY <1>2, <2>1, Spoken, AwayReply
  <2>3. Memory' = Memory
    BY <2>1 DEF Unmoved, Memory
  <2>4. Truly'
    BY <2>1 DEF Unmoved, Truly, Keyed, Prompted
  <2> QED
    BY <2>1, <2>2, <2>3, <2>4, AsStop DEF Unmoved
<1>3. CASE Resume \/ OneInstruction \/ Program
  <2>1. Goes /\ at # "main" /\ at' # "main"
    BY <1>3, AwayTrue
  <2>2. SameReply
    BY <1>3, <2>1, Spoken, AwayReply
  <2>3. Memory' \in [Cells -> Data]
    BY <2>1 DEF Goes, Memory
  <2>4. Truly'
    BY <1>3, <2>1, AwayKey DEF Goes, Truly
  <2> QED
    BY <2>1, <2>2, <2>3, <2>4, AsRun DEF Goes
<1> QED
  BY <1>1, <1>2, <1>3 DEF Target

LEMMA HostStays ==
  ASSUME UNCHANGED target
  PROVE  at' = at /\ Memory' = Memory /\ Shown' = Shown /\ (Prompted' <=> Prompted) /\ (Truly /\ Keyed' => Truly')
  BY DEF target, Memory, Shown, Saved, Prompted, Truly

LEMMA HostTrue == ASSUME IInv, Truly, Host PROVE Truly' /\ (D!Next \/ UNCHANGED D!vars)
<1>1. UNCHANGED target
  BY DEF Host, HearAnswer, HearMessage, SayStop, Type, Ask, Heard
<1>2. at' = at /\ Memory' = Memory /\ Shown' = Shown /\ (Prompted' <=> Prompted) /\ (Keyed' => Truly')
  BY <1>1, HostStays
<1>3. CASE HearAnswer
  <2>1. /\ host.req # Nothing /\ Heard(AnswerLen(host.req)) /\ toTarget' = toTarget
        /\ host' = [host EXCEPT !.req = Nothing, !.runs = host.req.do \in {"go", "step"}]
    BY <1>3 DEF HearAnswer, Heard
  <2>2. host.req \in Requests /\ AnswerLen(host.req) \in Nat /\ Len(toHost) \in Nat
    BY <2>1, HostKnown, AnswerLens, Domains
  <2>3. ~(Len(toHost) < AnswerLen(host.req))
    BY <2>1, <2>2 DEF Heard
  <2>4. Reply = Decoded(host.req, Values(SubSeq(toHost, 1, AnswerLen(host.req))))
    BY <2>1, <2>3 DEF Reply
  <2>5. \A s : Decoded(host.req, s) # Silent
    BY <2>2, RequestKinds DEF Decoded, Garbled, Done, Silent
  <2>6. host'.req = Nothing
    BY <2>1, HostKnown
  <2>7. D!Next
    BY <1>2, <2>4, <2>5, <2>6, AsHear
  <2>8. Keyed'
    BY <1>2, <2>1, KeptKey
  <2> QED
    BY <1>2, <2>7, <2>8
<1>4. CASE HearMessage
  <2>1. host.runs /\ toTarget' = toTarget /\ host'.req = host.req
    <3>1. host' \in {host, [host EXCEPT !.asked = ~host.stop], [host EXCEPT !.runs = FALSE, !.stop = FALSE, !.asked = FALSE]}
      BY <1>4 DEF HearMessage
    <3> QED
      BY <1>4, <3>1, HostKnown DEF HearMessage, Heard
  <2>2. host.req = Nothing
    BY <2>1, Phases DEF Loose, Cut
  <2>3. SameReply
    BY <2>1, <2>2 DEF SameReply, Reply
  <2>4. Keyed'
    BY <1>2, <2>1, KeptKey
  <2> QED
    BY <1>2, <2>3, <2>4, AsBefore
<1>5. CASE SayStop \/ Type
  <2>1. host'.req = host.req /\ toHost' = toHost
    BY <1>5, HostKnown DEF SayStop, Type
  <2>2. SameReply
    BY <2>1 DEF SameReply, Reply
  <2>3. ASSUME SayStop PROVE Keyed'
    <3>1. toTarget' = Append(toTarget, [v |-> STOP, as |-> "stop"])
      BY <2>3 DEF SayStop
    <3>2. PICK b \in Sent : b = [v |-> STOP, as |-> "stop"] /\ ~IsKey(b)
      <4>1. STOP \in Int
        BY DEF STOP
      <4>2. PICK b : b = [v |-> STOP, as |-> "stop"]
        OBVIOUS
      <4>3. b.v = STOP /\ b.as = "stop" /\ b \in Sent
        BY <4>1, <4>2 DEF Sent
      <4> QED
        BY <4>2, <4>3 DEF IsKey
    <3>3. PICK s \in Seq(Sent) : s = toTarget
      BY Domains
    <3>4. CASE s = <<>>
      <4>1. Append(s, b)[1] = b
        BY <3>4
      <4> QED
        BY <3>1, <3>2, <3>3, <4>1 DEF Keyed, HasKey
    <3>5. CASE s # <<>>
      <4>1. Append(s, b)[1] = s[1]
        BY <3>5
      <4>2. toTarget'[1] = toTarget[1] /\ toTarget # <<>>
        BY <3>1, <3>2, <3>3, <3>5, <4>1
      <4> QED
        BY <1>2, <4>2 DEF Truly, Keyed, HasKey
    <3> QED
      BY <3>4, <3>5
  <2>4. ASSUME Type PROVE Keyed'
    <3>1. PICK k \in Keys : host.asked /\ toTarget' = Append(toTarget, [v |-> k, as |-> "key"])
      BY <2>4 DEF Type
    <3>2. toTarget = <<>>
      BY <3>1, Phases DEF Loose
    <3>3. PICK b : b = [v |-> k, as |-> "key"] /\ b.v = k
      <4>1. [v |-> k, as |-> "key"].v = k
        OBVIOUS
      <4> QED
        BY <4>1
    <3>4. Append(<<>>, b)[1] = b
      OBVIOUS
    <3> QED
      BY <3>1, <3>2, <3>3, <3>4 DEF Keyed
  <2> QED
    BY <1>2, <1>5, <2>2, <2>3, <2>4, AsBefore
<1>6. CASE \E r \in Requests : Ask(r)
  <2>1. PICK r \in Requests : Ask(r)
    BY <1>6
  <2>2. ~host.runs /\ host.req = Nothing /\ host'.req = r /\ toHost' = toHost
    BY <2>1, HostKnown DEF Ask
  <2>3. Waiting
    BY <2>2, Phases
  <2>4. at = "main" /\ toHost = <<>>
    BY <2>3 DEF Waiting
  <2>5. Reply = Silent
    BY <2>2 DEF Reply
  <2>6. Reply' = Silent
    <3>1. AnswerLen(r) \in Nat \ {0} /\ Len(<<>>) = 0
      BY AnswerLens
    <3>2. Len(toHost') < AnswerLen(r)
      BY <2>2, <2>4, <3>1
    <3> QED
      BY <2>2, <3>2 DEF Reply
  <2>7. D!Next
    BY <1>2, <2>2, <2>4, <2>5, <2>6, AsAsk
  <2>8. Keyed'
    BY <1>2, <2>4 DEF Keyed, Prompted
  <2> QED
    BY <1>2, <2>7, <2>8
<1> QED
  BY <1>3, <1>4, <1>5, <1>6 DEF Host

LEMMA InitiallyTrue == Init => Truly /\ D!Init
<1> SUFFICES ASSUME Init PROVE Truly /\ D!Init
  OBVIOUS
<1>1. PICK d \in [Cells -> Data] :
        mem = [i \in 0..(MTOP - 1) |-> IF i \in Cells THEN d[i] ELSE IF i = TOP - 1 THEN DUMMY ELSE 0]
  BY DEF Init
<1>2. /\ rptr = 4 /\ at = "main" /\ host = [req |-> Nothing, runs |-> FALSE, stop |-> FALSE, asked |-> FALSE]
      /\ mem = [i \in 0..7 |-> IF i \in {0, 1} THEN d[i] ELSE IF i = 5 THEN DUMMY ELSE 0]
  BY <1>1, Stacking DEF Init
<1>3. mem[4] = 0 /\ mem[5] = DUMMY /\ \A c \in Cells : mem[c] = d[c]
  BY <1>2, Stacking
<1>4. Saved = [a |-> 0, pc |-> DUMMY, sp |-> TOP]
  BY <1>2, <1>3, Stacking DEF Saved
<1>5. 0 \in Data /\ DUMMY \in Pcs
  BY LuciferAssumption, PcsKnown
<1>6. Shown = Saved /\ Shown \in Registers
  BY <1>2, <1>4, <1>5 DEF Shown, Registers
<1>7. Truly
  BY <1>2, <1>3, <1>6 DEF Truly, Keyed, Prompted
<1>8. D!Init
  BY <1>2, <1>3, <1>6 DEF D!Init, D!Nothing, Shown, Nothing
<1> QED
  BY <1>7, <1>8

(* The monitor is a remote debugger: it carries out each request once, as  *)
(* a whole, and answers it with the truth, and nothing but requests        *)
(* touches the registers and memory of a program that stands still         *)
(* (ImplementsDebugger: TARGET.C main(), go(), step(), intr()).            *)
THEOREM Implementation == ASSUME Gaps = {} PROVE Spec => ImplementsDebugger
<1>1. Init => IInv /\ Truly /\ D!Init
  BY Initially, InitiallyTrue
<1>2. ASSUME IInv, Truly, [Next]_vars
      PROVE  Truly' /\ [D!Next]_(D!vars)
  <2>1. CASE Next
    BY <1>2, <2>1, TargetTrue, HostTrue DEF Next
  <2>2. CASE UNCHANGED vars
    <3>1. Truly'
      BY <1>2, <2>2 DEF Truly, Shown, Saved, Keyed, Prompted, HasKey, vars, target
    <3>2. at' = at /\ Memory' = Memory /\ Shown' = Shown /\ SameReply
      BY <2>2 DEF Shown, Saved, Memory, SameReply, Reply, vars, target
    <3> QED
      BY <3>1, <3>2, AsBefore
  <2> QED
    BY <1>2, <2>1, <2>2
<1>3. Spec => []IInv
  BY Invariance
<1> QED
  BY <1>1, <1>2, <1>3, PTL DEF Spec, ImplementsDebugger, D!Spec
=============================================================================
