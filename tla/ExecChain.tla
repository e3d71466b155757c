----------------------------- MODULE ExecChain -----------------------------
(***************************************************************************)
(* The command processor cpm/EXEC.AS, which runs the programs of a command *)
(* file one after the other, and cpm/EXECL.AS, by which a program turns    *)
(* itself into another one.                                                *)
(*                                                                         *)
(* EXEC moves itself to the top of memory and takes over the warm boot     *)
(* vector, so that whatever way a program ends it comes back to `loop'.    *)
(* What the program leaves at 80h, where its arguments were, says whether  *)
(* it failed.                                                              *)
(***************************************************************************)
EXTENDS Integers, Sequences, FiniteSets, SequencesExt

CONSTANTS
  Users,       \* user numbers
  Homes,       \* those that have the programs
  Programs, Temps,  \* names of programs, and of other files
  Codes,       \* command codes in the file, less BASE
  MaxCommands, \* commands in the file
  MaxTail,     \* longest list of arguments execv() takes; the code's 125
  Found,       \* whether the command file may, or may not, be there
  Wanders      \* programs may end under another user number

EXIT == 0
EXEC == 1
IGN_ERR == 2
DEF_ERR == 3
SKP_ERR == 4
TRAP == 5
IF_ERR == 6
IF_NERR == 7
ECHO == 8
PRINT == 9
RM_FILE == 10
RM_EXIT == 11
NCMDS == 24   \* the length of the table in bytes; it has 12 entries
ANY == 255    \* no user number given: BDOS 32 with it changes nothing
SPACE == 32

Names == Programs \cup Temps

ASSUME ExecAssumption ==
  /\ Users \subseteq 0..15 /\ Users # {} /\ Homes \subseteq Users
  /\ Programs # {} /\ "none" \notin Names
  /\ Codes \subseteq 0..127 /\ MaxCommands \in Nat /\ MaxTail \in Nat \ {0}
  /\ Found \subseteq BOOLEAN /\ Wanders \in BOOLEAN

VARIABLES
  pc,       \* "entry", "loop", "docmd", "open", "asking", "run", "over", "lost"
  file,     \* the command file
  next,     \* the command it is read at
  mid,      \* it is read at from the middle of a command
  errors,   \* some program failed
  erract,   \* 0 exit, 1 ignore, 2 skip
  echflg,
  dbuf,     \* the first two bytes at 80h
  uid,      \* CP/M's user number
  curuid,   \* the one EXEC was started under
  newuid, prog,  \* what is to run, or runs
  wboot,    \* the warm boot vector: "ccp", "loop" or "zero"
  bootsave, \* what it was
  files     \* the disk: pairs of a user and a name

command == <<file, next, mid>>
vars == <<pc, command, errors, erract, echflg, dbuf, uid, curuid, newuid, prog,
          wboot, bootsave, files>>

NoError == <<0, 0>>
Commands == {c \in [code : Codes, name : Names \cup {"none"}, uid : Homes \cup {ANY}] :
               CASE c.code = EXEC -> c.name \in Programs
                 [] c.code \in {RM_FILE, RM_EXIT} -> c.name \in Temps /\ c.uid = ANY
                 [] OTHER -> c.name = "none" /\ c.uid = ANY}

Init ==
  /\ pc = "entry" /\ next = 1 /\ mid = FALSE
  /\ file \in UNION {[1..n -> Commands] : n \in 0..MaxCommands}
  /\ errors = FALSE /\ erract = 0 /\ echflg = FALSE
  /\ dbuf = NoError /\ uid \in Users /\ curuid = uid
  /\ newuid = ANY /\ prog = "none"
  /\ wboot = "ccp" /\ bootsave = "zero"
  /\ files = (Users \X Temps) \cup (Homes \X Programs)

-----------------------------------------------------------------------------
(* EXEC: start, end, and the loop every warm boot returns to. *)

(* doexit: the vector as it was, and through it. *)
RestoreVectorNever == UNCHANGED wboot
RestoreVector == wboot' = bootsave
Doexit == /\ RestoreVector
          /\ pc' = IF bootsave = "ccp" THEN "over" ELSE "lost"

SaveVectorNever == UNCHANGED bootsave
SaveVector == bootsave' = wboot

(* Without a command file doexit finds nothing saved. *)
Start ==
  /\ pc = "entry"
  /\ curuid' = uid
  /\ \E found \in Found :
       IF found
       THEN /\ SaveVector /\ wboot' = "loop" /\ dbuf' = NoError
            /\ pc' = "loop"
       ELSE Doexit /\ UNCHANGED <<bootsave, dbuf>>
  /\ UNCHANGED <<command, errors, erract, echflg, uid, newuid, prog, files>>

AtEnd(i) == i > Len(file)
Goto(i) == next' = i /\ UNCHANGED <<file, mid>>

(* skipto: past the first TRAP from here, unless an EXIT or the end of the  *)
(* file comes first.                                                        *)
Landing == SelectInSubSeq(file, next, Len(file), LAMBDA c : c.code \in {EXIT, TRAP})
SkipTo == IF Landing # 0 /\ file[Landing].code = TRAP
          THEN Goto(Landing + 1) /\ pc' = "docmd" /\ UNCHANGED wboot
          ELSE Doexit /\ UNCHANGED command

Loop ==
  /\ pc = "loop"
  /\ errors' = (errors \/ dbuf # NoError) /\ dbuf' = NoError
  /\ IF dbuf = NoError \/ erract = 1
     THEN pc' = "docmd" /\ UNCHANGED <<command, wboot>>
     ELSE IF erract = 0 THEN Doexit /\ UNCHANGED command
     ELSE SkipTo
  /\ UNCHANGED <<erract, echflg, uid, curuid, newuid, prog, bootsave, files>>

EOF == 256
Here == IF AtEnd(next) THEN [code |-> EOF, name |-> "none", uid |-> ANY] ELSE file[next]
Dispatch(c) == /\ pc = "docmd" /\ ~mid /\ Here.code \in c
               /\ UNCHANGED <<errors, dbuf, uid, curuid, bootsave>>
BackToLoop == pc' = "loop" /\ UNCHANGED wboot

(* The end of the file, and bytes that are no command; some of those pass   *)
(* the test although the table has no entry for them.                       *)
Astray == ~mid /\ Here.code < NCMDS
NoCommand ==
  /\ pc = "docmd" /\ (mid \/ Here.code > RM_EXIT)
  /\ IF Astray THEN pc' = "lost" /\ UNCHANGED wboot ELSE Doexit
  /\ UNCHANGED <<command, errors, erract, echflg, dbuf, uid, curuid, newuid, prog, bootsave, files>>

Exit == /\ Dispatch({EXIT}) /\ Doexit
        /\ UNCHANGED <<command, erract, echflg, newuid, prog, files>>

SetAction == /\ Dispatch({IGN_ERR, DEF_ERR, SKP_ERR}) /\ BackToLoop /\ Goto(next + 1)
             /\ erract' = CASE Here.code = IGN_ERR -> 1 [] Here.code = DEF_ERR -> 0 [] OTHER -> 2
             /\ UNCHANGED <<echflg, newuid, prog, files>>

Plain == /\ Dispatch({TRAP, ECHO, PRINT}) /\ BackToLoop /\ Goto(next + 1)
         /\ echflg' = (echflg \/ Here.code = ECHO)
         /\ UNCHANGED <<erract, newuid, prog, files>>

(* iferr, ifnerr: whether any program failed so far. *)
SkipsLatest == Here.code = IF_NERR
Skips == (Here.code = IF_ERR) = ~errors
IfError ==
  /\ Dispatch({IF_ERR, IF_NERR})
  /\ IF ~Skips THEN BackToLoop /\ Goto(next + 1)
     ELSE IF AtEnd(next + 1) THEN Doexit /\ UNCHANGED command
     ELSE BackToLoop /\ Goto(next + 2)
  /\ UNCHANGED <<erract, echflg, newuid, prog, files>>

(* BDOS deletes under the user number in force. *)
RmFile ==
  /\ Dispatch({RM_FILE, RM_EXIT}) /\ files' = files \ {<<uid, Here.name>>} /\ Goto(next + 1)
  /\ IF Here.code = RM_EXIT THEN Doexit ELSE BackToLoop
  /\ UNCHANGED <<erract, echflg, newuid, prog>>

Exec == /\ Dispatch({EXEC}) /\ newuid' = Here.uid /\ prog' = Here.name /\ Goto(next + 1)
        /\ pc' = "open" /\ UNCHANGED <<erract, echflg, wboot, files>>

-----------------------------------------------------------------------------
(* The program of an EXEC command is sought under its user number and run   *)
(* under the user's own.                                                    *)

Under(u) == IF u = ANY THEN uid ELSE u

(* The length of the arguments, at least one, stays at 80h until the        *)
(* program overwrites it.                                                   *)
Tail80 == <<1, SPACE>>
OpenProgram ==
  /\ pc = "open"
  /\ IF <<Under(newuid), prog>> \in files
     THEN pc' = "run" /\ dbuf' = Tail80
     ELSE pc' = "asking" /\ UNCHANGED dbuf
  /\ uid' = curuid
  /\ UNCHANGED <<command, errors, erract, echflg, curuid, newuid, prog, wboot, bootsave, files>>

(* filerr: the user may put in a disk that has the program, and hits a key. *)
ChangeDisk ==
  /\ pc = "asking" /\ pc' = "open"
  /\ files' \in {files, files \cup {<<Under(newuid), prog>>}}
  /\ UNCHANGED <<command, errors, erract, echflg, dbuf, uid, curuid, newuid, prog, wboot, bootsave>>

(* Control-S and control-C at a character put out warm boot; the rest of    *)
(* the command is then what is read next.                                   *)
Break ==
  /\ wboot = "loop" /\ (pc = "asking" \/ (pc = "open" /\ echflg))
  /\ pc' = "loop" /\ mid' = TRUE
  /\ UNCHANGED <<file, next, errors, erract, echflg, dbuf, uid, curuid, newuid, prog, wboot, bootsave, files>>

-----------------------------------------------------------------------------
(* The program: it ends with a status, or by a bare warm boot; or it calls  *)
(* execv() with the lengths of its arguments.                               *)

WarmBoot == pc' = IF wboot = "loop" THEN "loop" ELSE "lost"
ProgramEnds ==
  /\ pc = "run" /\ WarmBoot
  /\ dbuf' \in {NoError, <<1, 0>>, dbuf}
  /\ uid' \in (IF Wanders THEN Users ELSE {uid})
  /\ UNCHANGED <<command, errors, erract, echflg, curuid, newuid, prog, wboot, bootsave, files>>

(* The first argument is the program's name: it does not count, but it is   *)
(* copied before the others.                                                *)
TailLength(args) ==
  LET sum[k \in 1..Len(args)] == IF k = 1 THEN 0 ELSE sum[k - 1] + args[k] + 1
  IN sum[Len(args)]
TooLongLate(args) == TailLength(args) > MaxTail + 1
TooLong(args) == TailLength(args) > MaxTail
ExecArgs == {<<1>>, <<1, MaxTail - 1>>, <<1, MaxTail>>}

ArgsAt80(args) == dbuf' = <<TailLength(args), SPACE>>

(* A name with a type is refused; 80h has changed by then. *)
IsProgram(name, typed, u) == ~typed /\ <<Under(u), name>> \in files
LoadUidStays(u) == uid' = Under(u)
LoadUid(u) == UNCHANGED uid
Execv(name, typed, u, args) ==
  /\ pc = "run"
  /\ ~TooLong(args)
  /\ ArgsAt80(args)
  /\ IF ~typed THEN LoadUid(u) ELSE UNCHANGED uid
  /\ prog' = IF IsProgram(name, typed, u) THEN name ELSE prog
  /\ UNCHANGED <<pc, command, errors, erract, echflg, curuid, newuid, wboot, bootsave, files>>

ProgramExecs == \E name \in Programs, typed \in BOOLEAN, u \in Users, args \in ExecArgs :
                  Execv(name, typed, u, args)

Step == \/ Start \/ Loop \/ NoCommand \/ Exit \/ SetAction \/ Plain \/ IfError
        \/ RmFile \/ Exec \/ OpenProgram
Next == Step \/ ChangeDisk \/ Break \/ ProgramEnds \/ ProgramExecs

Spec == Init /\ [][Next]_vars

(* EXEC runs, programs end, a user who is asked hits a key in the end. *)
FairSpec == Spec /\ WF_vars(Step) /\ WF_vars(ProgramEnds) /\ WF_vars(ChangeDisk)

-----------------------------------------------------------------------------
(* The places, flags and bytes of the processor. *)
TypeOK ==
  /\ pc \in {"entry", "loop", "docmd", "open", "asking", "run", "over"}
  /\ next \in 1..(Len(file) + 1) /\ mid \in BOOLEAN
  /\ errors \in BOOLEAN /\ erract \in 0..2 /\ echflg \in BOOLEAN
  /\ dbuf \in (0..MaxTail) \X {0, SPACE}
  /\ uid \in Users /\ curuid \in Users /\ newuid \in Users \cup {ANY}
  /\ files \subseteq Users \X Names

(* As long as EXEC is in charge every warm boot comes back to it; when it   *)
(* is over, whichever way it came to that, CP/M has its vector back.        *)
VectorOK == /\ pc \notin {"entry", "over"} => wboot = "loop" /\ bootsave = "ccp"
            /\ pc = "over" => wboot = "ccp"

(* EXEC touches files of the user who started it only, and starts programs  *)
(* under that user number, whatever number the programs came from.          *)
OwnUserOnly == [][/\ files' \subseteq files => \A f \in files \ files' : f[1] = curuid
                  /\ pc' = "run" => uid' = curuid]_vars

(* The file comes to an end, unless a program is never found. *)
Ends == <>(pc = "over") \/ []<>(pc = "asking")

(* A chain does what its file says: with what the programs leave at 80h as  *)
(* their result.                                                            *)
Meaning(f) == [i \in DOMAIN f |-> <<f[i].code, f[i].name>>]
S == INSTANCE Script WITH
       todo <- IF pc = "over" \/ mid THEN <<>> ELSE Meaning(SubSeq(file, next, Len(file))),
       act <- CASE erract = 0 -> "exit" [] erract = 1 -> "ignore" [] erract = 2 -> "skip",
       failed <- errors,
       last <- IF pc = "loop" /\ dbuf # NoError THEN "error" ELSE "ok",
       running <- IF pc \in {"open", "asking", "run"} THEN prog ELSE "none",
       phase <- IF pc = "over" \/ mid THEN "over" ELSE IF pc = "docmd" THEN "do" ELSE "judge"
ImplementsScript == S!Spec
=============================================================================
