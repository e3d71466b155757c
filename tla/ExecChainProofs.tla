-------------------------- MODULE ExecChainProofs ---------------------------
(***************************************************************************)
(* For any users, programs and command files: EXEC keeps its variables in  *)
(* range, gives CP/M its vector back, stays with the user's own files, and *)
(* does what the file says.                                                *)
(***************************************************************************)
EXTENDS ExecChain, SequenceTheorems, WellFoundedInduction, TLAPS

(* A set of numbers has a least element.                                   *)
LEMMA LeastExists ==
  ASSUME NEW T \in SUBSET Nat, T # {}
  PROVE  \E m \in T : \A x \in T : m <= x
<1> DEFINE Less == OpToRel(<, Nat)
<1>1. \A x, y \in Nat : x < y => <<x, y>> \in Less
  BY DEF OpToRel
<1>2. PICK m \in T : \A y \in T : <<y, m>> \notin Less
  BY NatLessThanWellFounded, WFMin, Zenon
<1> HIDE DEF Less
<1>3. \A x \in T : ~(x < m)
  BY <1>1, <1>2
<1> QED
  BY <1>3


(***************************************************************************)
(* The chains these theorems are about.  A code between the last entry of  *)
(* the table and its length in bytes runs through whatever follows the     *)
(* table, and without a command file a vector is restored that was never   *)
(* saved (hazards); so the file is there, and its codes are entries of the *)
(* table or refused.                                                       *)
(***************************************************************************)
KnownCommands == /\ Found = {TRUE}
                 /\ Codes \cap ((RM_EXIT + 1)..(NCMDS - 1)) = {}

(***************************************************************************)
(* The inductive invariant.  TypeOK is not inductive: that EXEC never gets *)
(* lost needs the vector (VectorOK), that a program is loaded under a user *)
(* number of the disk needs the command it came from (Loading), and that a *)
(* failure is judged once needs the bytes at 80h to be clear while there   *)
(* is nothing to judge (Judged).                                           *)
(***************************************************************************)
Entering == pc = "entry" => wboot = "ccp" /\ dbuf = NoError /\ ~mid /\ next = 1 /\ ~errors
Loading == pc \in {"open", "asking", "run"} =>
             prog \in Programs /\ newuid \in Homes \cup {ANY} /\ ~mid
Judged == /\ pc \in {"docmd", "open", "asking"} => dbuf = NoError
          /\ mid => pc \in {"loop", "docmd", "over"} /\ dbuf = NoError

IInv == /\ TypeOK /\ VectorOK
        /\ file \in Seq(Commands)
        /\ Entering /\ Loading /\ Judged

-----------------------------------------------------------------------------
(* The commands of the file, and the one that is read.                     *)

LEMMA CommandType ==
  ASSUME NEW c \in Commands
  PROVE  /\ c.code \in Codes /\ c.code \in 0..127 /\ c.name \in Names \cup {"none"}
         /\ c.uid \in Homes \cup {ANY}
         /\ c.code = EXEC => c.name \in Programs
         /\ c.code \in {RM_FILE, RM_EXIT} => c.name \in Temps
         /\ c.code \notin {EXEC, RM_FILE, RM_EXIT} => c.name = "none"
  BY ExecAssumption DEF Commands, EXEC, RM_FILE, RM_EXIT

LEMMA HereType ==
  ASSUME IInv
  PROVE  /\ next \in 1..(Len(file) + 1) /\ Len(file) \in Nat
         /\ AtEnd(next) => Here.code = EOF
         /\ ~AtEnd(next) => Here = file[next] /\ Here \in Commands
         /\ Here.code # EOF => next + 1 \in 1..(Len(file) + 1)
<1>1. next \in 1..(Len(file) + 1) /\ Len(file) \in Nat /\ file \in Seq(Commands)
  BY DEF IInv, TypeOK
<1>2. ~AtEnd(next) => Here = file[next] /\ Here \in Commands
  BY <1>1 DEF AtEnd, Here
<1>3. AtEnd(next) => Here.code = EOF
  BY DEF Here
<1> QED
  BY <1>1, <1>2, <1>3 DEF AtEnd

(* A landing is the first place from here on that stops a skip.            *)
Stopping(i) == file[i].code \in {EXIT, TRAP}

LEMMA LandingType ==
  ASSUME IInv
  PROVE  /\ Landing # 0 => /\ Landing \in next..Len(file) /\ Stopping(Landing)
                           /\ \A i \in next..(Landing - 1) : ~Stopping(i)
         /\ Landing = 0 => \A i \in next..Len(file) : ~Stopping(i)
<1> DEFINE I == {i \in next..Len(file) : Stopping(i)}
<1>1. next \in Nat \ {0} /\ Len(file) \in Nat
  BY HereType
<1>2. Landing = IF I # {} THEN Min(I) ELSE 0
  BY DEF Landing, SelectInSubSeq, Stopping
<1>3. ASSUME I # {} PROVE Min(I) \in I /\ \A i \in I : Min(I) <= i
  <2>1. I \in SUBSET Nat
    BY <1>1
  <2> HIDE DEF I
  <2>2. \E m \in I : \A i \in I : m <= i
    BY <1>3, <2>1, LeastExists
  <2> QED
    BY <2>2 DEF Min
<1>4. CASE I = {}
  BY <1>1, <1>2, <1>4
<1>5. CASE I # {}
  <2>1. Landing \in I /\ \A i \in I : Landing <= i
    BY <1>2, <1>3, <1>5
  <2> QED
    BY <1>1, <2>1
<1> QED
  BY <1>4, <1>5

(* The length of the arguments execv() is given: the name does not count.  *)
LEMMA TailLengthOfOne == TailLength(<<1>>) = 0
<1> DEFINE sum[k \in 1..1] == IF k = 1 THEN 0 ELSE sum[k - 1] + <<1>>[k] + 1
<1>1. sum = [k \in 1..1 |-> 0]
  OBVIOUS
<1> QED
  BY <1>1 DEF TailLength

LEMMA TailLengthOfTwo ==
  ASSUME NEW n \in Nat
  PROVE  TailLength(<<1, n>>) = n + 1
<1> DEFINE sum[k \in 1..2] == IF k = 1 THEN 0 ELSE sum[k - 1] + <<1, n>>[k] + 1
<1>1. sum = [k \in 1..2 |-> IF k = 1 THEN 0 ELSE n + 1]
  OBVIOUS
<1> QED
  BY <1>1 DEF TailLength

LEMMA ExecArgsFit ==
  ASSUME NEW args \in ExecArgs, ~TooLong(args)
  PROVE  TailLength(args) \in 0..MaxTail
<1>1. MaxTail \in Nat \ {0}
  BY ExecAssumption
<1>2. CASE args = <<1>>
  BY <1>1, <1>2, TailLengthOfOne
<1>3. ASSUME NEW n \in Nat, args = <<1, n>> PROVE TailLength(args) \in 0..MaxTail
  BY <1>1, <1>3, TailLengthOfTwo DEF TooLong
<1> QED
  BY <1>1, <1>2, <1>3 DEF ExecArgs

-----------------------------------------------------------------------------
(* The invariant is inductive.                                             *)

LEMMA BytesType ==
  /\ NoError \in (0..MaxTail) \X {0, SPACE} /\ <<1, 0>> \in (0..MaxTail) \X {0, SPACE}
  /\ Tail80 \in (0..MaxTail) \X {0, SPACE}
  BY ExecAssumption DEF NoError, Tail80

(* Once EXEC has begun, leaving it gives CP/M its vector back.             *)
LEMMA DoexitGivesBack ==
  ASSUME IInv, pc \notin {"entry", "over"}, Doexit
  PROVE  pc' = "over" /\ wboot' = "ccp"
  BY DEF IInv, VectorOK, Doexit, RestoreVector

LEMMA InitHolds ==
  ASSUME Init
  PROVE  IInv
<1>1. PICK n \in 0..MaxCommands : file \in [1..n -> Commands]
  BY DEF Init
<1>2. file \in Seq(Commands) /\ Len(file) \in Nat
  BY <1>1, ExecAssumption
<1>3. files \subseteq Users \X Names
  BY ExecAssumption DEF Init, Names
<1>4. next \in 1..(Len(file) + 1) /\ dbuf \in (0..MaxTail) \X {0, SPACE}
  BY <1>2, BytesType DEF Init
<1>5. TypeOK
  <2>1. mid \in BOOLEAN /\ errors \in BOOLEAN /\ echflg \in BOOLEAN
    BY Zenon DEF Init
  <2>2. erract \in 0..2
    <3>1. erract = 0
      BY DEF Init
    <3> QED
      BY <3>1
  <2>3. uid \in Users /\ curuid \in Users /\ newuid \in Users \cup {ANY} /\ pc = "entry"
    BY DEF Init
  <2> QED
    BY <1>3, <1>4, <2>1, <2>2, <2>3 DEF TypeOK
<1> QED
  BY <1>2, <1>5 DEF Init, IInv, VectorOK, Entering, Loading, Judged

LEMMA StartHolds ==
  ASSUME IInv, KnownCommands, Start
  PROVE  IInv'
<1>1. /\ pc = "entry" /\ pc' = "loop" /\ bootsave' = wboot /\ wboot' = "loop" /\ dbuf' = NoError
      /\ curuid' = uid
      /\ UNCHANGED <<file, next, mid, errors, erract, echflg, uid, newuid, prog, files>>
  BY DEF Start, KnownCommands, SaveVector, command
<1>2. TypeOK' /\ VectorOK'
  BY <1>1, BytesType DEF IInv, TypeOK, VectorOK, Entering
<1> QED
  BY <1>1, <1>2 DEF IInv, Entering, Loading, Judged

LEMMA LoopHolds ==
  ASSUME IInv, Loop
  PROVE  IInv'
<1>1. /\ pc = "loop" /\ dbuf' = NoError /\ errors' \in BOOLEAN
      /\ UNCHANGED <<file, mid, erract, echflg, uid, curuid, newuid, prog, bootsave, files>>
  BY DEF IInv, TypeOK, Loop, SkipTo, Goto, command
<1>2. \/ pc' = "docmd" /\ UNCHANGED <<next, wboot>>
      \/ pc' = "over" /\ wboot' = "ccp" /\ UNCHANGED next
      \/ Landing # 0 /\ next' = Landing + 1 /\ pc' = "docmd" /\ UNCHANGED wboot
  BY <1>1, DoexitGivesBack DEF Loop, SkipTo, Goto, command
<1>3. next' \in 1..(Len(file) + 1)
  BY <1>2, HereType, LandingType
<1>4. TypeOK'
  BY <1>1, <1>2, <1>3, BytesType DEF IInv, TypeOK
<1>5. VectorOK'
  BY <1>1, <1>2 DEF IInv, VectorOK
<1>6. Judged'
  BY <1>1, <1>2 DEF IInv, Judged
<1> QED
  BY <1>1, <1>2, <1>4, <1>5, <1>6 DEF IInv, Entering, Loading

(* A command that leaves the user's number and the bytes at 80h alone, and *)
(* then goes on, or is the last.                                           *)
LEMMA CommandHolds ==
  ASSUME IInv, pc = "docmd",
         \/ pc' = "loop" /\ ~mid /\ UNCHANGED wboot
         \/ pc' = "over" /\ wboot' = "ccp",
         next' \in 1..(Len(file) + 1), erract' \in 0..2, echflg' \in BOOLEAN,
         files' \subseteq files,
         UNCHANGED <<file, mid, errors, dbuf, uid, curuid, newuid, prog, bootsave>>
  PROVE  IInv'
<1>1. TypeOK'
  BY DEF IInv, TypeOK
<1>2. VectorOK'
  BY DEF IInv, VectorOK
<1> QED
  BY <1>1, <1>2 DEF IInv, Entering, Loading, Judged

LEMMA NoCommandHolds ==
  ASSUME IInv, KnownCommands, NoCommand
  PROVE  IInv'
<1>1. ~Astray
  <2>1. SUFFICES ASSUME ~mid, Here.code < NCMDS, Here.code > RM_EXIT PROVE FALSE
    BY DEF NoCommand, Astray
  <2>2. Here.code \in Codes /\ Here.code \in 0..127
    BY <2>1, HereType, CommandType DEF EOF, NCMDS
  <2>3. Here.code \in (RM_EXIT + 1)..(NCMDS - 1)
    BY <2>1, <2>2 DEF RM_EXIT, NCMDS
  <2> QED
    BY <2>2, <2>3 DEF KnownCommands
<1>2. pc' = "over" /\ wboot' = "ccp"
  BY <1>1, DoexitGivesBack DEF NoCommand
<1> QED
  BY <1>2, CommandHolds DEF NoCommand, command, IInv, TypeOK

LEMMA DispatchHolds ==
  ASSUME IInv, Exit \/ SetAction \/ Plain \/ IfError \/ RmFile
  PROVE  IInv'
<1>1. /\ pc = "docmd" /\ ~mid /\ Here.code \in 0..11
      /\ UNCHANGED <<errors, dbuf, uid, curuid, bootsave, newuid, prog>>
      /\ files' \subseteq files
  BY DEF Dispatch, Exit, SetAction, Plain, IfError, RmFile, EXIT, IGN_ERR, DEF_ERR, SKP_ERR, TRAP,
         ECHO, PRINT, IF_ERR, IF_NERR, RM_FILE, RM_EXIT
<1>2. next + 1 \in 1..(Len(file) + 1)
  BY <1>1, HereType DEF EOF
<1>3. Doexit => pc' = "over" /\ wboot' = "ccp"
  BY <1>1, DoexitGivesBack
<1>4. /\ UNCHANGED <<file, mid>>
      /\ next' \in 1..(Len(file) + 1) /\ erract' \in 0..2 /\ echflg' \in BOOLEAN
      /\ \/ pc' = "loop" /\ UNCHANGED wboot
         \/ pc' = "over" /\ wboot' = "ccp"
  <2>1. CASE Exit
    BY <1>3, <2>1 DEF Exit, command, IInv, TypeOK
  <2>2. CASE SetAction
    BY <1>2, <2>2 DEF SetAction, BackToLoop, Goto, IInv, TypeOK
  <2>3. CASE Plain
    BY <1>2, <2>3 DEF Plain, BackToLoop, Goto, IInv, TypeOK
  <2>4. CASE IfError
    BY <1>2, <1>3, <2>4, HereType DEF IfError, AtEnd, BackToLoop, Goto, command, IInv, TypeOK
  <2>5. CASE RmFile
    BY <1>2, <1>3, <2>5 DEF RmFile, BackToLoop, Goto, IInv, TypeOK
  <2> QED
    BY <2>1, <2>2, <2>3, <2>4, <2>5
<1> QED
  BY <1>1, <1>4, CommandHolds

LEMMA ExecHolds ==
  ASSUME IInv, Exec
  PROVE  IInv'
<1>1. /\ pc = "docmd" /\ ~mid /\ Here.code = EXEC /\ newuid' = Here.uid /\ prog' = Here.name
      /\ next' = next + 1 /\ pc' = "open"
      /\ UNCHANGED <<file, mid, errors, erract, echflg, dbuf, uid, curuid, wboot, bootsave, files>>
  BY DEF Exec, Dispatch, Goto
<1>2. Here \in Commands /\ next' \in 1..(Len(file) + 1)
  BY <1>1, HereType DEF EOF, EXEC
<1>3. prog' \in Programs /\ newuid' \in Homes \cup {ANY}
  BY <1>1, <1>2, CommandType
<1>4. TypeOK'
  BY <1>1, <1>2, <1>3, ExecAssumption DEF IInv, TypeOK
<1>5. VectorOK'
  BY <1>1 DEF IInv, VectorOK
<1> QED
  BY <1>1, <1>3, <1>4, <1>5 DEF IInv, Entering, Loading, Judged

LEMMA ProgramHolds ==
  ASSUME IInv, OpenProgram \/ ChangeDisk \/ Break \/ ProgramEnds
  PROVE  IInv'
<1>1. CASE OpenProgram
  <2>1. /\ pc = "open" /\ pc' \in {"run", "asking"} /\ uid' = curuid
        /\ pc' = "run" => dbuf' = Tail80
        /\ pc' = "asking" => dbuf' = dbuf
        /\ UNCHANGED <<file, next, mid, errors, erract, echflg, curuid, newuid, prog, wboot,
                       bootsave, files>>
    BY <1>1 DEF OpenProgram, command
  <2>2. TypeOK'
    BY <2>1, BytesType DEF IInv, TypeOK
  <2>3. VectorOK'
    BY <2>1 DEF IInv, VectorOK
  <2> QED
    BY <2>1, <2>2, <2>3 DEF IInv, Entering, Loading, Judged
<1>2. CASE ChangeDisk
  <2>1. /\ pc = "asking" /\ pc' = "open"
        /\ files' \in {files, files \cup {<<Under(newuid), prog>>}}
        /\ UNCHANGED <<file, next, mid, errors, erract, echflg, dbuf, uid, curuid, newuid, prog,
                       wboot, bootsave>>
    BY <1>2 DEF ChangeDisk, command
  <2>2. Under(newuid) \in Users /\ prog \in Names
    BY <2>1, ExecAssumption DEF IInv, TypeOK, Loading, Under, Names
  <2>3. TypeOK'
    BY <2>1, <2>2 DEF IInv, TypeOK
  <2>4. VectorOK'
    BY <2>1 DEF IInv, VectorOK
  <2> QED
    BY <2>1, <2>3, <2>4 DEF IInv, Entering, Loading, Judged
<1>3. CASE Break
  <2>1. /\ pc \in {"asking", "open"} /\ pc' = "loop" /\ mid' = TRUE
        /\ UNCHANGED <<file, next, errors, erract, echflg, dbuf, uid, curuid, newuid, prog,
                       wboot, bootsave, files>>
    BY <1>3 DEF Break
  <2>2. TypeOK' /\ VectorOK'
    BY <2>1 DEF IInv, TypeOK, VectorOK
  <2> QED
    BY <2>1, <2>2 DEF IInv, Entering, Loading, Judged
<1>4. CASE ProgramEnds
  <2>1. /\ pc = "run" /\ pc' = "loop" /\ dbuf' \in {NoError, <<1, 0>>, dbuf} /\ uid' \in Users
        /\ UNCHANGED <<file, next, mid, errors, erract, echflg, curuid, newuid, prog, wboot,
                       bootsave, files>>
    BY <1>4 DEF ProgramEnds, WarmBoot, command, IInv, VectorOK, TypeOK
  <2>2. TypeOK' /\ VectorOK'
    BY <2>1, BytesType DEF IInv, TypeOK, VectorOK
  <2> QED
    BY <2>1, <2>2 DEF IInv, Entering, Loading, Judged
<1> QED
  BY <1>1, <1>2, <1>3, <1>4

LEMMA ExecvHolds ==
  ASSUME IInv, ProgramExecs
  PROVE  IInv'
<1>1. PICK name \in Programs, typed \in BOOLEAN, u \in Users, args \in ExecArgs :
         Execv(name, typed, u, args)
  BY DEF ProgramExecs
<1>2. /\ pc = "run" /\ ~TooLong(args) /\ dbuf' = <<TailLength(args), SPACE>>
      /\ uid' \in {uid, Under(u)} /\ prog' \in {name, prog}
      /\ UNCHANGED <<pc, file, next, mid, errors, erract, echflg, curuid, newuid, wboot, bootsave,
                     files>>
  BY <1>1 DEF Execv, ArgsAt80, LoadUid, command
<1>3. dbuf' \in (0..MaxTail) \X {0, SPACE}
  BY <1>2, ExecArgsFit
<1>4. uid' \in Users
  BY <1>2 DEF Under, IInv, TypeOK
<1>5. TypeOK' /\ VectorOK'
  BY <1>2, <1>3, <1>4 DEF IInv, TypeOK, VectorOK
<1> QED
  BY <1>2, <1>5 DEF IInv, Entering, Loading, Judged

THEOREM Invariance ==
  ASSUME KnownCommands
  PROVE  Spec => []IInv
<1>1. Init => IInv
  BY InitHolds
<1>2. IInv /\ [Next]_vars => IInv'
  <2>1. SUFFICES ASSUME IInv, [Next]_vars PROVE IInv'
    OBVIOUS
  <2>2. CASE UNCHANGED vars
    BY <2>1, <2>2 DEF vars, command, IInv, TypeOK, VectorOK, Entering, Loading, Judged
  <2>3. CASE Next
    BY <2>1, <2>3, StartHolds, LoopHolds, NoCommandHolds, DispatchHolds, ExecHolds, ProgramHolds,
       ExecvHolds
       DEF Next, Step
  <2> QED
    BY <2>1, <2>2, <2>3
<1> QED
  BY <1>1, <1>2, PTL DEF Spec

(* EXEC's variables stay in range, and it never runs off into memory that  *)
(* is not its own: pc never is "lost".                                     *)
THEOREM TypeCorrect ==
  ASSUME KnownCommands
  PROVE  Spec => []TypeOK
  BY Invariance, PTL DEF IInv

(* Every warm boot while EXEC is in charge comes back to it, and CP/M has  *)
(* its vector back when it is over.                                        *)
THEOREM VectorCorrect ==
  ASSUME KnownCommands
  PROVE  Spec => []VectorOK
  BY Invariance, PTL DEF IInv

(* EXEC touches only files of the user who started it and starts programs  *)
(* under that number only, as long as no program ends under another: EXEC  *)
(* puts the number back when it opens a program, and not when one ends.    *)
OwnUser == uid = curuid

THEOREM OwnUserCorrect ==
  ASSUME Wanders = FALSE
  PROVE  Spec => OwnUserOnly
<1> DEFINE Own == /\ files' \subseteq files => \A f \in files \ files' : f[1] = curuid
                  /\ pc' = "run" => uid' = curuid
<1>1. Init => OwnUser
  BY DEF Init, OwnUser
<1>2. ASSUME OwnUser, [Next]_vars PROVE OwnUser' /\ [Own]_vars
  <2>1. CASE UNCHANGED vars
    BY <1>2, <2>1 DEF vars, OwnUser
  <2>2. ASSUME Start PROVE OwnUser' /\ Own
    <3>1. curuid' = uid /\ uid' = uid /\ files' = files /\ pc' # "run"
      BY <2>2 DEF Start, Doexit
    <3> QED
      BY <1>2, <3>1 DEF OwnUser
  <2>3. ASSUME Loop \/ NoCommand \/ Exit \/ SetAction \/ Plain \/ IfError \/ Exec \/ ProgramEnds
        PROVE OwnUser' /\ Own
    <3>1. curuid' = curuid /\ uid' = uid /\ files' = files
      BY <2>3, <1>2 DEF Loop, NoCommand, Dispatch, Exit, SetAction, Plain, IfError, Exec, ProgramEnds
    <3> QED
      BY <1>2, <3>1 DEF OwnUser
  <2>4. ASSUME RmFile PROVE OwnUser' /\ Own
    <3>1. curuid' = curuid /\ uid' = uid /\ files' = files \ {<<uid, Here.name>>}
      BY <2>4 DEF RmFile, Dispatch
    <3> QED
      BY <1>2, <3>1 DEF OwnUser
  <2>5. ASSUME OpenProgram PROVE OwnUser' /\ Own
    BY <2>5 DEF OpenProgram, OwnUser
  <2>6. ASSUME ChangeDisk \/ Break PROVE OwnUser' /\ Own
    <3>1. curuid' = curuid /\ uid' = uid /\ files \subseteq files'
      BY <2>6 DEF ChangeDisk, Break
    <3> QED
      BY <1>2, <3>1 DEF OwnUser
  <2>7. ASSUME ProgramExecs PROVE OwnUser' /\ Own
    BY <2>7, <1>2 DEF ProgramExecs, Execv, LoadUid, OwnUser
  <2> QED
    BY <1>2, <2>1, <2>2, <2>3, <2>4, <2>5, <2>6, <2>7 DEF Next, Step
<1> QED
  BY <1>1, <1>2, PTL DEF Spec, OwnUserOnly

-----------------------------------------------------------------------------
(* A chain does what its file says: ExecChain implements Script.  What is  *)
(* still to be done is the rest of the file from the command at `next'.    *)

Rest(i) == Meaning(SubSeq(file, i, Len(file)))

LEMMA RestType ==
  ASSUME IInv, NEW i \in 1..(Len(file) + 1)
  PROVE  /\ Rest(i) \in Seq(Codes \X (Names \cup {"none"}))
         /\ Len(Rest(i)) = Len(file) + 1 - i
         /\ \A k \in 1..(Len(file) + 1 - i) :
              Rest(i)[k] = <<file[i + k - 1].code, file[i + k - 1].name>>
<1>1. file \in Seq(Commands) /\ Len(file) \in Nat
  BY DEF IInv
<1>2. /\ SubSeq(file, i, Len(file)) \in Seq(Commands)
      /\ Len(SubSeq(file, i, Len(file))) = Len(file) + 1 - i
      /\ \A k \in 1..(Len(file) + 1 - i) : SubSeq(file, i, Len(file))[k] = file[i + k - 1]
  BY <1>1
<1>3. Rest(i) = [k \in 1..(Len(file) + 1 - i) |-> <<file[i + k - 1].code, file[i + k - 1].name>>]
  BY <1>1, <1>2 DEF Rest, Meaning
<1>4. \A k \in 1..(Len(file) + 1 - i) :
        <<file[i + k - 1].code, file[i + k - 1].name>> \in Codes \X (Names \cup {"none"})
  <2>1. SUFFICES ASSUME NEW k \in 1..(Len(file) + 1 - i)
                 PROVE  file[i + k - 1] \in Commands
    BY CommandType
  <2> QED
    BY <1>1
<1>5. Rest(i) \in [1..(Len(file) + 1 - i) -> Codes \X (Names \cup {"none"})]
  BY <1>3, <1>4
<1>6. Len(file) + 1 - i \in Nat
  BY <1>1
<1>7. Rest(i) \in Seq(Codes \X (Names \cup {"none"})) /\ Len(Rest(i)) = Len(file) + 1 - i
  BY <1>5, <1>6
<1> QED
  BY <1>3, <1>7

LEMMA RestSteps ==
  ASSUME IInv, NEW i \in 1..(Len(file) + 1)
  PROVE  /\ Rest(i) = <<>> <=> AtEnd(i)
         /\ ~AtEnd(i) => /\ Head(Rest(i)) = <<file[i].code, file[i].name>>
                         /\ Tail(Rest(i)) = Rest(i + 1)
         /\ \A k \in 1..Len(Rest(i)) : SubSeq(Rest(i), k + 1, Len(Rest(i))) = Rest(i + k)
<1>1. Len(file) \in Nat
  BY HereType
<1>2. Rest(i) = <<>> <=> AtEnd(i)
  BY <1>1, RestType DEF AtEnd
<1>3. ASSUME NEW k \in 1..Len(Rest(i))
      PROVE  SubSeq(Rest(i), k + 1, Len(Rest(i))) = Rest(i + k)
  <2> DEFINE sub == SubSeq(Rest(i), k + 1, Len(Rest(i)))
  <2>1. i + k \in 1..(Len(file) + 1) /\ Len(Rest(i)) = Len(file) + 1 - i
    BY <1>1, RestType
  <2>2. Rest(i) \in Seq(Codes \X (Names \cup {"none"}))
    BY RestType
  <2>3. Len(Rest(i + k)) = Len(Rest(i)) - k
    BY <1>1, <2>1, RestType
  <2>4. sub \in Seq(Codes \X (Names \cup {"none"})) /\ Len(sub) = Len(Rest(i + k))
    BY <1>1, <2>1, <2>2, <2>3
  <2>5. ASSUME NEW n \in 1..Len(Rest(i + k)) PROVE sub[n] = Rest(i + k)[n]
    <3>1. sub[n] = Rest(i)[k + n]
      BY <1>1, <2>1, <2>2, <2>3
    <3>2. k + n \in 1..(Len(file) + 1 - i) /\ i + (k + n) - 1 = (i + k) + n - 1
      BY <1>1, <2>1, <2>3
    <3>3. Rest(i)[k + n] = <<file[(i + k) + n - 1].code, file[(i + k) + n - 1].name>>
      BY <3>2, RestType
    <3>4. Rest(i + k)[n] = <<file[(i + k) + n - 1].code, file[(i + k) + n - 1].name>>
      BY <1>1, <2>1, <2>3, RestType
    <3> QED
      BY <3>1, <3>3, <3>4
  <2>6. Rest(i + k) \in Seq(Codes \X (Names \cup {"none"}))
    BY <2>1, RestType
  <2> HIDE DEF sub
  <2>7. sub = Rest(i + k)
    BY <2>4, <2>5, <2>6, SeqEqual
  <2> QED
    BY <2>7 DEF sub
<1>4. ASSUME ~AtEnd(i)
      PROVE  Head(Rest(i)) = <<file[i].code, file[i].name>> /\ Tail(Rest(i)) = Rest(i + 1)
  <2>1. i \in 1..Len(file) /\ Len(Rest(i)) = Len(file) + 1 - i /\ 1 \in 1..Len(Rest(i))
    BY <1>1, <1>4, RestType DEF AtEnd
  <2>2. Head(Rest(i)) = <<file[i].code, file[i].name>>
    <3>1. Head(Rest(i)) = Rest(i)[1] /\ i + 1 - 1 = i
      BY <2>1
    <3>2. Rest(i)[1] = <<file[i + 1 - 1].code, file[i + 1 - 1].name>>
      BY <2>1, RestType
    <3> QED
      BY <3>1, <3>2
  <2>3. Tail(Rest(i)) = SubSeq(Rest(i), 2, Len(Rest(i)))
    BY <1>2, <1>4, RestType, TailIsSubSeq
  <2>4. SubSeq(Rest(i), 1 + 1, Len(Rest(i))) = Rest(i + 1) /\ 1 + 1 = 2
    BY <1>3, <2>1
  <2> QED
    BY <2>2, <2>3, <2>4
<1> QED
  BY <1>2, <1>3, <1>4

(* A skip of the file and one of Script end at the same command.           *)
LEMMA SkipsAlike ==
  ASSUME IInv, pc = "loop", ~mid
  PROVE  /\ S!Skips <=> Landing # 0 /\ file[Landing].code = TRAP
         /\ S!Skips => SubSeq(Rest(next), S!First + 1, Len(Rest(next))) = Rest(Landing + 1)
<1> DEFINE todo == IF pc = "over" \/ mid THEN <<>> ELSE Meaning(SubSeq(file, next, Len(file)))
           n == Len(file) + 1 - next
<1>1. todo = Rest(next) /\ next \in 1..(Len(file) + 1) /\ Len(file) \in Nat
  BY HereType DEF Rest
<1>2. DOMAIN todo = 1..n /\ Len(todo) = n /\ n \in Nat
  BY <1>1, RestType
<1>3. ASSUME NEW k \in 1..n
      PROVE  S!Stops(k) <=> Stopping(next + k - 1)
  <2>1. todo[k][1] = file[next + k - 1].code
    BY <1>1, RestType
  <2> QED
    BY <2>1 DEF S!Stops, Stopping, S!TRAP, S!EXIT, TRAP, EXIT
<1> HIDE DEF todo
<1>4. CASE Landing = 0
  <2>1. ASSUME NEW k \in 1..n PROVE ~S!Stops(k)
    <3>1. next + k - 1 \in next..Len(file)
      BY <1>1
    <3> QED
      BY <1>3, <1>4, <3>1, LandingType
  <2>2. ~S!Skips
    BY <1>2, <2>1 DEF S!Skips, todo
  <2> QED
    BY <1>4, <2>2
<1>5. CASE Landing # 0
  <2> DEFINE l == Landing - next + 1
  <2>1. Landing \in next..Len(file) /\ Stopping(Landing) /\ \A i \in next..(Landing - 1) : ~Stopping(i)
    BY <1>5, LandingType
  <2>2. l \in 1..n /\ next + l - 1 = Landing
    BY <1>1, <2>1
  <2>3. S!Stops(l)
    BY <1>3, <2>1, <2>2
  <2>4. ASSUME NEW k \in 1..(l - 1) PROVE ~S!Stops(k)
    <3>1. next + k - 1 \in next..(Landing - 1) /\ k \in 1..n
      BY <1>1, <2>1
    <3> QED
      BY <1>3, <2>1, <3>1
  <2>5. S!First = l
    <3>1. S!First = CHOOSE i \in 1..n : S!Stops(i) /\ \A k \in 1..(i - 1) : ~S!Stops(k)
      BY <1>2 DEF S!First, todo
    <3>2. ASSUME NEW i \in 1..n, S!Stops(i), \A k \in 1..(i - 1) : ~S!Stops(k) PROVE i = l
      <4>1. ~(i < l)
        BY <2>2, <2>4, <3>2
      <4>2. ~(l < i)
        BY <2>2, <2>3, <3>2
      <4> QED
        BY <2>2, <4>1, <4>2
    <3> QED
      BY <2>2, <2>3, <2>4, <3>1, <3>2
  <2>6. todo[l][1] = file[Landing].code
    <3>1. todo[l] = <<file[next + l - 1].code, file[next + l - 1].name>>
      BY <1>1, <2>2, RestType
    <3> QED
      BY <2>2, <3>1
  <2>7. S!Skips <=> file[Landing].code = TRAP
    BY <1>2, <2>2, <2>3, <2>5, <2>6 DEF S!Skips, todo, S!TRAP, TRAP
  <2>8. next + l = Landing + 1 /\ l \in 1..Len(Rest(next))
    BY <1>1, <1>2, <2>2
  <2>9. SubSeq(Rest(next), l + 1, Len(Rest(next))) = Rest(next + l)
    BY <1>1, <2>8, RestSteps
  <2> QED
    BY <1>5, <2>5, <2>7, <2>8, <2>9
<1> QED
  BY <1>4, <1>5

(* The variables of Script, as S sees them.                                *)
Todo == IF pc = "over" \/ mid THEN <<>> ELSE Rest(next)
Act == CASE erract = 0 -> "exit" [] erract = 1 -> "ignore" [] erract = 2 -> "skip"
Ended == IF pc = "loop" /\ dbuf # NoError THEN "error" ELSE "ok"
Running == IF pc \in {"open", "asking", "run"} THEN prog ELSE "none"
Phase == IF pc = "over" \/ mid THEN "over" ELSE IF pc = "docmd" THEN "do" ELSE "judge"

LEMMA InitImplements ==
  ASSUME Init
  PROVE  S!Init
<1>1. IInv /\ pc = "entry" /\ mid = FALSE /\ next = 1 /\ erract = 0 /\ errors = FALSE
  BY InitHolds DEF Init
<1>2. Todo \in Seq(Codes \X (Names \cup {"none"}))
  BY <1>1, HereType, RestType DEF Todo
<1> QED
  BY <1>1, <1>2 DEF S!Init, Todo, Rest

LEMMA LoopImplements ==
  ASSUME IInv, Loop
  PROVE  [S!Next]_S!vars
<1>1. /\ pc = "loop" /\ dbuf' = NoError /\ errors' = (errors \/ dbuf # NoError)
      /\ UNCHANGED <<file, mid, erract, prog>>
  BY DEF Loop, SkipTo, Goto, command
<1>2. CASE mid
  <2>1. dbuf = NoError /\ pc' = "docmd" /\ mid'
    BY <1>1, <1>2 DEF Loop, IInv, Judged
  <2>2. UNCHANGED <<Todo, Act, errors, Ended, Running, Phase>>
    BY <1>1, <1>2, <2>1 DEF Todo, Act, Ended, Running, Phase, IInv, TypeOK
  <2> QED
    BY <2>2 DEF S!vars, Todo, Act, Ended, Running, Phase, Rest
<1>3. CASE ~mid
  <2>1. /\ Phase = "judge" /\ Running = "none" /\ Act' = Act /\ ~mid' /\ Todo = Rest(next)
        /\ Ended = IF dbuf = NoError THEN "ok" ELSE "error"
    BY <1>1, <1>3 DEF Phase, Running, Ended, Act, Todo
  <2>2. errors' = (errors \/ Ended = "error")
    BY <1>1, <2>1
  <2>3. erract \in 0..2 /\ (Act = "ignore" <=> erract = 1) /\ (Act = "skip" <=> erract = 2)
    BY DEF Act, IInv, TypeOK
  <2>4. \/ pc' = "docmd" /\ next' = next /\ (dbuf = NoError \/ erract = 1)
        \/ pc' = "docmd" /\ next' = Landing + 1 /\ dbuf # NoError /\ erract = 2 /\ S!Skips
        \/ pc' = "over" /\ dbuf # NoError /\ erract = 0
        \/ pc' = "over" /\ dbuf # NoError /\ erract = 2 /\ ~S!Skips
    BY <1>1, <1>3, <2>3, DoexitGivesBack, SkipsAlike DEF Loop, SkipTo, Goto, command
  <2>5. Running' = "none" /\ Ended' = "ok" /\ Phase' = IF pc' = "over" THEN "over" ELSE "do"
    BY <2>1, <2>4 DEF Running, Ended, Phase
  <2>6. Todo' = IF pc' = "over" THEN <<>> ELSE Rest(next')
    BY <1>1, <2>1 DEF Todo, Rest
  <2>7. S!Skips => SubSeq(Rest(next), S!First + 1, Len(Rest(next))) = Rest(Landing + 1)
    BY <1>1, <1>3, SkipsAlike
  <2>8. \/ Todo' = Todo /\ Phase' = "do" /\ (Ended = "ok" \/ Act = "ignore")
        \/ /\ Todo' = SubSeq(Todo, S!First + 1, Len(Todo)) /\ Phase' = "do"
           /\ Ended # "ok" /\ Act = "skip" /\ S!Skips
        \/ /\ Todo' = <<>> /\ Phase' = "over"
           /\ Ended # "ok" /\ Act # "ignore" /\ ~(Act = "skip" /\ S!Skips)
    BY <2>1, <2>3, <2>4, <2>5, <2>6, <2>7
  <2>9. S!Judge
    BY <2>1, <2>2, <2>5, <2>8 DEF S!Judge, Todo, Act, Ended, Running, Phase, Rest
  <2> QED
    BY <2>9 DEF S!Next
<1> QED
  BY <1>2, <1>3

LEMMA StutterImplements ==
  ASSUME IInv, Start \/ OpenProgram \/ ChangeDisk, KnownCommands
  PROVE  UNCHANGED S!vars
<1>1. UNCHANGED <<file, next, mid, errors, erract, prog>>
  BY DEF Start, OpenProgram, ChangeDisk, command
<1>2. \/ pc = "entry" /\ pc' = "loop" /\ dbuf' = NoError
      \/ pc \in {"open", "asking"} /\ pc' \in {"open", "asking", "run"}
  BY DEF Start, OpenProgram, ChangeDisk, KnownCommands
<1>3. UNCHANGED <<Todo, Act, errors, Ended, Running, Phase>>
  BY <1>1, <1>2 DEF Todo, Act, Ended, Running, Phase, Rest
<1> QED
  BY <1>3 DEF S!vars, Todo, Act, Ended, Running, Phase, Rest

(* Whatever leaves EXEC without having changed anything else breaks off.   *)
LEMMA BreakImplements ==
  ASSUME IInv, pc \in {"docmd", "open", "asking"}, ~mid,
         \/ pc' = "over" /\ UNCHANGED mid
         \/ pc' = "loop" /\ mid',
         UNCHANGED <<erract, errors, dbuf>>
  PROVE  S!BreakOff
<1>1. Phase # "over" /\ Phase' = "over" /\ Running' = "none" /\ Todo' = <<>> /\ UNCHANGED Act
  BY DEF Phase, Running, Todo, Act
<1>2. dbuf = NoError /\ UNCHANGED Ended
  BY DEF Ended, IInv, Judged
<1> QED
  BY <1>1, <1>2 DEF S!BreakOff, Todo, Act, Ended, Running, Phase, Rest

LEMMA ProgramImplements ==
  ASSUME IInv, ProgramEnds \/ ProgramExecs
  PROVE  S!Ends
<1>1. /\ pc = "run" /\ ~mid /\ prog \in Programs /\ prog # "none"
      /\ UNCHANGED <<file, next, mid, errors, erract>>
  BY ExecAssumption DEF ProgramEnds, ProgramExecs, Execv, command, IInv, Loading, Names
<1>2. pc' = "loop" \/ (pc' = "run" /\ prog' \in Programs)
  BY <1>1 DEF ProgramEnds, ProgramExecs, Execv, WarmBoot, IInv, VectorOK
<1>3. Running # "none" /\ Running' \in Names \cup {"none"} /\ Ended' \in {"ok", "error"}
  BY <1>1, <1>2 DEF Running, Ended, Names
<1>4. UNCHANGED <<Todo, Act, Phase>>
  BY <1>1, <1>2 DEF Todo, Act, Phase, Rest
<1> QED
  BY <1>1, <1>3, <1>4 DEF S!Ends, Todo, Act, Ended, Running, Phase, Rest

(* One command done: what comes next is the command after it, or none.     *)
LEMMA DoImplements ==
  ASSUME IInv, pc = "docmd", ~mid, ~AtEnd(next), NEW c, c = Here.code,
         Act' = CASE c = IGN_ERR -> "ignore" [] c = DEF_ERR -> "exit" [] c = SKP_ERR -> "skip"
                  [] OTHER -> Act,
         Running' = IF c = EXEC THEN Here.name ELSE "none",
         UNCHANGED <<file, errors, Ended>>,
         NEW skips, skips = ((c = IF_ERR /\ ~errors) \/ (c = IF_NERR /\ errors)),
         IF c \in {EXIT, RM_EXIT} \/ (skips /\ AtEnd(next + 1))
         THEN pc' = "over"
         ELSE pc' \in {"loop", "open"} /\ ~mid' /\ next' = IF skips THEN next + 2 ELSE next + 1
  PROVE  S!Do
<1>1. Phase = "do" /\ Todo = Rest(next) /\ next \in 1..(Len(file) + 1) /\ next + 1 \in 1..(Len(file) + 1)
  BY HereType DEF Phase, Todo, AtEnd
<1>2. Todo # <<>> /\ Head(Todo) = <<c, Here.name>> /\ Tail(Todo) = Rest(next + 1)
  BY <1>1, HereType, RestSteps
<1>3. Len(Todo) = 1 <=> AtEnd(next + 1)
  <2>1. Len(file) \in Nat /\ Len(Todo) = Len(file) + 1 - next
    BY <1>1, HereType, RestType
  <2> QED
    BY <1>1, <2>1 DEF AtEnd
<1>4. ~AtEnd(next + 1) => Tail(Tail(Todo)) = Rest(next + 2)
  <2>1. ~AtEnd(next + 1) => Tail(Rest(next + 1)) = Rest((next + 1) + 1)
    BY <1>1, RestSteps
  <2>2. (next + 1) + 1 = next + 2
    BY <1>1
  <2> QED
    BY <1>2, <2>1, <2>2
<1>5. \/ /\ c \in {EXIT, RM_EXIT} \/ (skips /\ Len(Todo) = 1)
         /\ Phase' = "over" /\ Todo' = <<>>
      \/ /\ ~(c \in {EXIT, RM_EXIT} \/ (skips /\ Len(Todo) = 1))
         /\ Phase' = "judge" /\ Todo' = IF skips THEN Tail(Tail(Todo)) ELSE Tail(Todo)
  BY <1>1, <1>2, <1>3, <1>4 DEF Phase, Todo, Rest
<1>6. Head(Todo)[1] = c /\ Head(Todo)[2] = Here.name
  BY <1>2
<1> HIDE DEF Todo, Act, Ended, Running, Phase
<1>7. /\ Phase = "do" /\ Todo # <<>> /\ UNCHANGED <<errors, Ended>>
      /\ Act' = CASE Head(Todo)[1] = IGN_ERR -> "ignore" [] Head(Todo)[1] = DEF_ERR -> "exit"
                  [] Head(Todo)[1] = SKP_ERR -> "skip" [] OTHER -> Act
      /\ Running' = IF Head(Todo)[1] = EXEC THEN Head(Todo)[2] ELSE "none"
  BY <1>1, <1>2, <1>6
<1>8. S!Do
  BY <1>5, <1>6, <1>7
     DEF S!Do, Todo, Act, Ended, Running, Phase, Rest, S!EXIT, S!EXEC, S!IGN_ERR, S!DEF_ERR,
         S!SKP_ERR, S!IF_ERR, S!IF_NERR, S!RM_EXIT, EXIT, EXEC, IGN_ERR, DEF_ERR, SKP_ERR, IF_ERR,
         IF_NERR, RM_EXIT
<1> QED
  BY <1>8

LEMMA CommandImplements ==
  ASSUME IInv, Exit \/ SetAction \/ Plain \/ IfError \/ RmFile \/ Exec
  PROVE  S!Do
<1> DEFINE c == Here.code
           skips == (c = IF_ERR /\ ~errors) \/ (c = IF_NERR /\ errors)
<1>1. /\ pc = "docmd" /\ ~mid /\ c \in 0..11
      /\ UNCHANGED <<errors, dbuf>>
  BY DEF Dispatch, Exit, SetAction, Plain, IfError, RmFile, Exec, EXIT, EXEC, IGN_ERR, DEF_ERR,
         SKP_ERR, TRAP, ECHO, PRINT, IF_ERR, IF_NERR, RM_FILE, RM_EXIT
<1>2. dbuf = NoError /\ ~AtEnd(next) /\ erract \in 0..2
  BY <1>1, HereType DEF IInv, TypeOK, Judged, EOF
<1>3. Doexit => pc' = "over"
  BY <1>1, DoexitGivesBack
<1>4. /\ UNCHANGED file
      /\ Act' = CASE c = IGN_ERR -> "ignore" [] c = DEF_ERR -> "exit" [] c = SKP_ERR -> "skip"
                  [] OTHER -> Act
      /\ c # EXEC => pc' \in {"loop", "over"}
      /\ c = EXEC => pc' = "open" /\ prog' = Here.name
      /\ IF c \in {EXIT, RM_EXIT} \/ (skips /\ AtEnd(next + 1))
         THEN pc' = "over"
         ELSE /\ pc' \in {"loop", "open"} /\ mid' = mid
              /\ next' = IF skips THEN next + 2 ELSE next + 1
  <2>1. CASE Exit
    <3>1. c = EXIT /\ pc' = "over" /\ UNCHANGED <<file, erract>>
      BY <1>3, <2>1 DEF Exit, Dispatch, command
    <3>2. Act' = Act
      BY <3>1 DEF Act
    <3> QED
      BY <3>1, <3>2 DEF EXIT, EXEC, IGN_ERR, DEF_ERR, SKP_ERR
  <2>2. CASE SetAction
    <3>1. /\ c \in {IGN_ERR, DEF_ERR, SKP_ERR} /\ pc' = "loop" /\ UNCHANGED <<file, mid>>
          /\ next' = next + 1
          /\ erract' = CASE c = IGN_ERR -> 1 [] c = DEF_ERR -> 0 [] OTHER -> 2
      BY <2>2 DEF SetAction, Dispatch, BackToLoop, Goto
    <3>2. ~skips /\ c \notin {EXIT, EXEC, RM_EXIT}
      BY <3>1 DEF EXIT, EXEC, RM_EXIT, IGN_ERR, DEF_ERR, SKP_ERR, IF_ERR, IF_NERR
    <3>3. Act' = CASE c = IGN_ERR -> "ignore" [] c = DEF_ERR -> "exit" [] c = SKP_ERR -> "skip"
                   [] OTHER -> Act
      BY <3>1 DEF Act, IGN_ERR, DEF_ERR, SKP_ERR
    <3> QED
      BY <3>1, <3>2, <3>3
  <2>3. CASE Plain \/ RmFile
    <3>1. /\ c \in {TRAP, ECHO, PRINT, RM_FILE, RM_EXIT} /\ UNCHANGED <<file, mid, erract>>
          /\ next' = next + 1 /\ pc' = IF c = RM_EXIT THEN "over" ELSE "loop"
      BY <1>3, <2>3 DEF Plain, RmFile, Dispatch, BackToLoop, Goto, TRAP, ECHO, PRINT, RM_FILE, RM_EXIT
    <3>2. Act' = Act
      BY <3>1 DEF Act
    <3> QED
      BY <3>1, <3>2 DEF EXIT, EXEC, IGN_ERR, DEF_ERR, SKP_ERR, TRAP, ECHO, PRINT, RM_FILE, RM_EXIT,
                        IF_ERR, IF_NERR
  <2>4. CASE IfError
    <3>1. /\ c \in {IF_ERR, IF_NERR} /\ UNCHANGED <<file, mid, erract>>
          /\ Skips <=> skips
          /\ pc' = IF Skips /\ AtEnd(next + 1) THEN "over" ELSE "loop"
          /\ ~(Skips /\ AtEnd(next + 1)) => next' = IF Skips THEN next + 2 ELSE next + 1
      BY <1>3, <2>4 DEF IfError, Skips, Dispatch, BackToLoop, Goto, command, IF_ERR, IF_NERR, IInv, TypeOK
    <3>2. Act' = Act
      BY <3>1 DEF Act
    <3> QED
      BY <3>1, <3>2 DEF EXIT, EXEC, RM_EXIT, IGN_ERR, DEF_ERR, SKP_ERR, IF_ERR, IF_NERR
  <2>5. CASE Exec
    <3>1. /\ c = EXEC /\ UNCHANGED <<file, mid, erract>> /\ next' = next + 1
          /\ pc' = "open" /\ prog' = Here.name
      BY <2>5 DEF Exec, Dispatch, Goto
    <3>2. Act' = Act
      BY <3>1 DEF Act
    <3> QED
      BY <3>1, <3>2 DEF EXIT, EXEC, RM_EXIT, IGN_ERR, DEF_ERR, SKP_ERR, IF_ERR, IF_NERR
  <2> QED
    BY <2>1, <2>2, <2>3, <2>4, <2>5
<1>5. UNCHANGED Ended /\ Running' = IF c = EXEC THEN Here.name ELSE "none"
  BY <1>1, <1>2, <1>4 DEF Ended, Running
<1> HIDE DEF c
<1>6. IF c \in {EXIT, RM_EXIT} \/ (skips /\ AtEnd(next + 1))
      THEN pc' = "over"
      ELSE pc' \in {"loop", "open"} /\ ~mid' /\ next' = IF skips THEN next + 2 ELSE next + 1
  BY <1>1, <1>4
<1> QED
  BY <1>1, <1>2, <1>4, <1>5, <1>6, DoImplements DEF c

(* EXEC does what the command file says, for any file of known commands    *)
(* and any programs: commands in order, each once, a failure judged once   *)
(* and by the action then in force, a skip to the next TRAP, IF_ERR and    *)
(* IF_NERR by all the programs so far.                                     *)
THEOREM Implementation ==
  ASSUME KnownCommands
  PROVE  Spec => ImplementsScript
<1>1. Init => S!Init
  BY InitImplements
<1>2. IInv /\ [Next]_vars => [S!Next]_S!vars
  <2>1. SUFFICES ASSUME IInv, [Next]_vars PROVE [S!Next]_S!vars
    OBVIOUS
  <2>2. CASE UNCHANGED vars
    BY <2>2 DEF vars, command, S!vars
  <2>3. CASE Start \/ OpenProgram \/ ChangeDisk
    BY <2>1, <2>3, StutterImplements
  <2>4. CASE Loop
    BY <2>1, <2>4, LoopImplements
  <2>5. CASE Exit \/ SetAction \/ Plain \/ IfError \/ RmFile \/ Exec
    BY <2>1, <2>5, CommandImplements DEF S!Next
  <2>6. CASE NoCommand
    <3>1. pc = "docmd" /\ pc' = "over" /\ UNCHANGED <<file, next, mid, errors, erract, dbuf, prog>>
      <4>1. pc' # "lost"
        BY <2>1, <2>6, NoCommandHolds DEF IInv, TypeOK
      <4> QED
        BY <2>1, <2>6, <4>1, DoexitGivesBack DEF NoCommand, command
    <3>2. CASE ~mid
      BY <2>1, <3>1, <3>2, BreakImplements DEF S!Next
    <3>3. CASE mid
      <4>1. UNCHANGED <<Todo, Act, errors, Ended, Running, Phase>>
        BY <3>1, <3>3 DEF Todo, Act, Ended, Running, Phase
      <4> QED
        BY <4>1 DEF S!vars, Todo, Act, Ended, Running, Phase, Rest
    <3> QED
      BY <3>2, <3>3
  <2>7. CASE Break
    <3>1. /\ pc \in {"open", "asking"} /\ ~mid /\ pc' = "loop" /\ mid'
          /\ UNCHANGED <<erract, errors, dbuf>>
      BY <2>1, <2>7 DEF Break, IInv, Loading
    <3> QED
      BY <2>1, <3>1, BreakImplements DEF S!Next
  <2>8. CASE ProgramEnds \/ ProgramExecs
    BY <2>1, <2>8, ProgramImplements DEF S!Next
  <2> QED
    BY <2>1, <2>2, <2>3, <2>4, <2>5, <2>6, <2>7, <2>8 DEF Next, Step
<1> QED
  BY <1>1, <1>2, Invariance, PTL DEF Spec, ImplementsScript, S!Spec
=============================================================================
