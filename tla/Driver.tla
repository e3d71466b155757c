------------------------------- MODULE Driver -------------------------------
(***************************************************************************)
(* The C command of the cross compiler under MS-DOS (z80/ZC.C; the same    *)
(* file is in diskB/SOURCES).  It reads the command line, runs the passes  *)
(* over one source file after another through temporary files, counts what *)
(* failed, links, and tidies up.  A pass whose command line is too long    *)
(* for MS-DOS reads it from a file in the place of its standard input.     *)
(***************************************************************************)
EXTENDS Integers, Sequences, FiniteSets, SequencesExt

CONSTANTS
  Bases,    \* names of files without directory and type
  Kinds,    \* types of the files that may be given
  Options,  \* options that may be given
  MaxArgs,  \* bound on the arguments of a command
  MaxLine,  \* longest command line, in arguments; the code's 124 characters
  Wordy     \* passes whose commands are too long by the file names in them

AllOptions == {"-S", "-C", "-Cpm", "-Cr", "-Crname", "-O", "-Oname", "-Oname.bin", "-G",
               "-A", "-Abad", "-V", "-D", "-F", "-Lname", "-?"}

ASSUME DriverAssumption ==
  /\ Kinds \subseteq {"c", "as", "obj"} /\ Options \subseteq AllOptions
  /\ {MaxArgs, MaxLine} \subseteq Nat /\ MaxLine >= 7
  /\ "name" \notin Bases
  /\ Wordy \subseteq {"cpp", "p1", "cgen", "optim", "zas", "link", "objtohex", "cref"}

VARIABLES
  pc,      \* "args", "next", "addresses", "exec", "spawn", "ask", "back", "cref", "ended"
  nargs,
  on,      \* the options in force
  lists,   \* lengths of iuds, flgs and libs
  c_as,    \* the sources, in their order
  objs,    \* the object files to link, but for the start-up module
  nfiles, outfile, single,
  i,       \* the source at work
  job,     \* the pass that runs: its name, what it reads and writes
  ok,      \* it succeeded
  nerrs,
  disk,    \* contents of the files: from which sources, by which passes
  fd,      \* MS-DOS's descriptors
  stdin,   \* stdin->_file
  longs,   \* commands so far that were too long
  status   \* the exit status; 2 after error()

command == <<nargs, on, lists, c_as, objs, nfiles, outfile, single>>
vars == <<pc, command, i, job, ok, nerrs, disk, fd, stdin, longs, status>>

Temps == {"tmpf1", "tmpf2", "tmpf3", "redname", "l_dot_obj", "crtmp"}
NoName == <<"none", "none">>
FileNames == (Bases \X {"c", "as", "obj", "hex", "com"}) \cup ({"name"} \X {"hex", "com", "bin", "crf"})
               \cup (Temps \X {"tmp"})
Temp(t) == <<t, "tmp">>

Gone == [from |-> {}, by |-> <<"gone">>]
Broken == [from |-> {}, by |-> <<"broken">>]
Old == [from |-> {NoName}, by |-> <<"old">>]
Given(f) == [from |-> {f}, by |-> <<>>]
NoJob == [pass |-> "none", in |-> {}, out |-> {}]

Fds == 0..4

(* Every object file is on the disk from an earlier run. *)
Init ==
  /\ pc = "args" /\ nargs = 0 /\ on = {} /\ lists = [iuds |-> 2, flgs |-> 1, libs |-> 0]
  /\ c_as = <<>> /\ objs = <<>> /\ nfiles = 0 /\ outfile = NoName /\ single = NoName
  /\ i = 1 /\ job = NoJob /\ ok = TRUE /\ nerrs = 0
  /\ disk = [f \in FileNames |-> IF f[2] = "obj" THEN Old ELSE Gone]
  /\ fd = [n \in Fds |-> IF n = 0 THEN "console" ELSE IF n <= 2 THEN "screen" ELSE "free"]
  /\ stdin = 0 /\ longs = 0 /\ status = 0

-----------------------------------------------------------------------------
(* main: the command line. *)

Argument == pc = "args" /\ nargs < MaxArgs /\ nargs' = nargs + 1
Unworked == UNCHANGED <<i, job, ok, nerrs, fd, stdin, longs>>

Switches(o) == CASE o = "-S" -> {"keepas", "keep"} [] o = "-C" -> {"keep"}
                 [] o = "-Cpm" -> {"cpm"} [] o = "-Cr" -> {"xref"} [] o = "-Crname" -> {"xref", "xrname"}
                 [] o = "-O" -> {"optimize"} [] o = "-G" -> {"symdb"} [] o = "-A" -> {"addresses"}
                 [] OTHER -> {}
Lists(o) == CASE o = "-D" -> "iuds" [] o \in {"-F", "-G"} -> "flgs" [] o = "-Lname" -> "libs"
              [] OTHER -> "none"

(* A name without a type, or of an object, gets the type of a program as    *)
(* far as the options before it say which.                                  *)
Setout(base, ext) ==
  <<base, IF ext \in {"", "obj"} THEN (IF "cpm" \in on THEN "com" ELSE "hex") ELSE ext>>

TakeOption(o) ==
  /\ Argument /\ o \notin {"-Abad", "-?"}
  /\ on' = (IF o = "-Cr" THEN on \ {"xrname"} ELSE on) \cup Switches(o)
  /\ lists' = [l \in DOMAIN lists |-> lists[l] + IF Lists(o) = l THEN 1 ELSE 0]
  /\ outfile' = CASE o = "-Oname" -> Setout("name", "")
                  [] o = "-Oname.bin" -> Setout("name", "bin") [] OTHER -> outfile
  /\ UNCHANGED <<pc, c_as, objs, nfiles, single, disk, status>> /\ Unworked

(* A malformed -A, or a flag it does not know. *)
Refuse(o) == /\ Argument /\ o \in {"-Abad", "-?"} /\ pc' = "ended" /\ status' = 2
             /\ UNCHANGED <<on, lists, c_as, objs, nfiles, outfile, single, disk>> /\ Unworked

Named == {s[1] : s \in ToSet(c_as) \cup ToSet(objs)}
TakeFile(b, k) ==
  LET obj == <<b, "obj">> IN
  /\ Argument /\ b \notin Named   \* two sources of one name would share an object
  /\ nfiles' = nfiles + 1
  /\ outfile' = IF outfile = NoName THEN Setout(b, "obj") ELSE outfile
  /\ objs' = Append(objs, obj)
  /\ IF k = "obj" THEN UNCHANGED <<c_as, single>>
     ELSE c_as' = Append(c_as, <<b, k>>) /\ single' = obj
  /\ disk' = [disk EXCEPT ![<<b, k>>] = Given(<<b, k>>)]
  /\ UNCHANGED <<pc, on, lists, status>> /\ Unworked

-----------------------------------------------------------------------------
(* The passes: what each reads, what it writes, and how long its command is. *)

Job(pass, in, out) == [pass |-> pass, in |-> in, out |-> out]
LeavesAs == "keepas" \in on /\ ("optimize" \notin on \/ "symdb" \in on)
Optimizes == "optimize" \in on /\ "symdb" \notin on
Object(s) == <<s[1], "obj">>
Assembler(s) == <<s[1], "as">>

Cpp(s) == Job("cpp", {s}, {Temp("tmpf1")})
P1 == Job("p1", {Temp("tmpf1")}, {Temp("tmpf2"), Temp("tmpf3")})
Cgen(s) == Job("cgen", {Temp("tmpf2")}, {IF LeavesAs THEN Assembler(s) ELSE Temp("tmpf1")})
Optim(s) == Job("optim", {Temp("tmpf1")}, {IF "keepas" \in on THEN Assembler(s) ELSE Temp("tmpf2")})
Zas(s, in) == Job("zas", {in}, {Object(s)})
Link == Job("link", ToSet(objs), {Temp("l_dot_obj")})
Objtohex == Job("objtohex", {Temp("l_dot_obj")}, {outfile})
Cref == Job("cref", {Temp("crtmp")}, {<<"name", "crf">>})

(* compile() and doit(): the pass after one that succeeded; what the        *)
(* assembler reads when the optimizer ran.                                  *)
Unoptimized == Temp("tmpf1")
Optimized == Temp("tmpf2")
NextJob(s) ==
  CASE job.pass = "cpp" -> P1
    [] job.pass = "p1" -> Cgen(s)
    [] job.pass = "cgen" /\ ~LeavesAs -> IF Optimizes THEN Optim(s) ELSE Zas(s, Temp("tmpf1"))
    [] job.pass = "optim" /\ "keepas" \notin on -> Zas(s, Optimized)
    [] job.pass = "link" -> Objtohex
    [] OTHER -> NoJob

CppLength == lists.iuds + (IF "cpm" \in on THEN 2 ELSE 0) + 3
LinkLength == lists.flgs + 2 + 1 + Len(objs) + lists.libs + 1
Long(pass) == \/ pass \in Wordy
              \/ pass = "cpp" /\ CppLength > MaxLine
              \/ pass = "link" /\ LinkLength > MaxLine

-----------------------------------------------------------------------------
(* doit *)

Without(d, fs) == [f \in DOMAIN d |-> IF f \in fs THEN Gone ELSE d[f]]
Run(j) == job' = j /\ pc' = "exec"

(* Options alone reach the linker too.  Without a name for the output       *)
(* strrchr() would look at address 0.                                       *)
Doit ==
  /\ pc = "args" /\ outfile # NoName
  /\ pc' = "next"
  /\ disk' = IF "xref" \in on THEN [disk EXCEPT ![Temp("crtmp")] = Given(NoName)] ELSE disk
  /\ UNCHANGED <<command, status>> /\ Unworked

NextSource ==
  /\ pc = "next" /\ i <= Len(c_as)
  /\ IF c_as[i][2] = "c" THEN Run(Cpp(c_as[i])) /\ UNCHANGED i
     ELSE IF "keepas" \in on THEN i' = i + 1 /\ UNCHANGED <<job, pc>>
     ELSE Run(Zas(c_as[i], c_as[i])) /\ UNCHANGED i
  /\ UNCHANGED <<command, ok, nerrs, disk, fd, stdin, longs, status>>

Intermediate == {Temp("tmpf1"), Temp("tmpf2"), Temp("tmpf3")}
RemoveTempsIfGood == disk' = IF nerrs = 0 THEN Without(disk, Intermediate) ELSE disk
RemoveTemps == disk' = Without(disk, Intermediate)
LinksAnyway == "keep" \notin on
Links == "keep" \notin on /\ nerrs = 0
AfterSources ==
  /\ pc = "next" /\ i > Len(c_as) /\ RemoveTemps
  /\ IF ~Links THEN pc' = "cref" /\ UNCHANGED job
     ELSE IF {"cpm", "addresses"} \cap on = {} THEN pc' = "addresses" /\ UNCHANGED job
     ELSE Run(Link)
  /\ UNCHANGED <<command, i, ok, nerrs, fd, stdin, longs, status>>

(* get_addresses asks the user, on stdin. *)
GetAddresses == /\ pc = "addresses" /\ Run(Link)
                /\ UNCHANGED <<command, i, ok, nerrs, disk, fd, stdin, longs, status>>

CrossReference ==
  /\ pc = "cref"
  /\ IF {"xref", "xrname"} \subseteq on THEN Run(Cref) /\ UNCHANGED status
     ELSE pc' = "ended" /\ status' = (IF nerrs # 0 THEN 1 ELSE 0) /\ UNCHANGED job
  /\ UNCHANGED <<command, i, ok, nerrs, disk, fd, stdin, longs>>

-----------------------------------------------------------------------------
(* doexec *)

Lowest(d) == CHOOSE n \in Fds : d[n] = "free" /\ \A m \in 0..(n - 1) : d[m] # "free"
Error == /\ pc' = "ended" /\ status' = 2
         /\ UNCHANGED <<command, i, job, ok, nerrs, disk, fd, stdin, longs>>

(* The command goes to a file, opened in the place of descriptor 0; stdin   *)
(* goes elsewhere.  The second time newstd is not set.                      *)
MoveStdinNot(opened) == stdin' = stdin /\ fd' = [opened EXCEPT ![0] = "redname", ![Lowest(fd)] = "free"]
MoveStdin(opened) ==
  LET to == Lowest(opened) IN
  /\ IF stdin = 0 THEN stdin' = to ELSE stdin' \in Fds
  /\ fd' = [n \in Fds |-> IF n = 0 THEN "redname"
                          ELSE IF n = Lowest(fd) THEN "free"
                          ELSE IF stdin = 0 /\ n = to THEN "console" ELSE fd[n]]
Redirect ==
  /\ pc = "exec" /\ Long(job.pass) /\ pc' = "spawn"
  /\ disk' = [disk EXCEPT ![Temp("redname")] = Given(NoName)]
  /\ MoveStdin([fd EXCEPT ![Lowest(fd)] = "redname"]) /\ longs' = longs + 1
  /\ UNCHANGED <<command, i, job, ok, nerrs, status>>
CannotCreate == pc = "exec" /\ Long(job.pass) /\ Error
Direct == pc = "exec" /\ ~Long(job.pass) /\ pc' = "spawn"
          /\ UNCHANGED <<command, i, job, ok, nerrs, disk, fd, stdin, longs, status>>

(* A pass succeeds on files it can read only; one that fails leaves what it *)
(* was to write as it was, broken or not at all.                            *)
Result == [from |-> UNION {disk[f].from : f \in job.in},
           by |-> IF Cardinality(job.in) = 1 /\ job.pass # "link"
                  THEN Append(disk[CHOOSE f \in job.in : TRUE].by, job.pass) ELSE <<job.pass>>]
Ran(good, left) == /\ pc = "spawn" /\ pc' = "back" /\ ok' = good
                   /\ disk' = [f \in FileNames |-> IF f \in job.out THEN left[f] ELSE disk[f]]
                   /\ UNCHANGED <<command, i, job, fd, stdin, longs, status>>
Succeed == /\ \A f \in job.in : disk[f] \notin {Gone, Broken}
           /\ Ran(TRUE, [f \in job.out |-> Result]) /\ UNCHANGED nerrs
Fail == /\ \E left \in {[f \in job.out |-> Gone], [f \in job.out |-> Broken], disk} : Ran(FALSE, left)
        /\ nerrs' = nerrs + 1

(* The pass is not there: the user may name another, or change disks. *)
NotFound == /\ pc = "spawn" /\ pc' = "ask"
            /\ UNCHANGED <<command, i, job, ok, nerrs, disk, fd, stdin, longs, status>>
Answer == /\ pc = "ask" /\ pc' = "spawn"
          /\ UNCHANGED <<command, i, job, ok, nerrs, disk, fd, stdin, longs, status>>
CannotSpawn == pc = "spawn" /\ Error

(* Descriptor 0 and the file of the command are put back and removed; then  *)
(* what called doexec() goes on.                                            *)
Restored == [fd EXCEPT ![0] = IF Long(job.pass) THEN fd[stdin] ELSE fd[0]]
CannotRestore == pc = "back" /\ Long(job.pass) /\ Restored[0] \in {"free", "redname"} /\ Error

Command == IF Long(job.pass) THEN {Temp("redname")} ELSE {}
Back ==
  LET s == IF i <= Len(c_as) THEN c_as[i] ELSE NoName
      linking == job.pass \in {"link", "objtohex"}
      crossing == job.pass = "cref"
      alone == job.pass = "objtohex" /\ Len(c_as) = 1 /\ nfiles = 1
      removed == CASE crossing -> {Temp("crtmp")}
                   [] linking -> {Temp("l_dot_obj")} \cup (IF alone THEN {single} ELSE {})
                   [] OTHER -> {}
      goesOn == ok /\ NextJob(s) # NoJob IN
  /\ pc = "back" /\ Restored[0] \notin {"free", "redname"}
  /\ fd' = Restored
  /\ disk' = Without(disk, Command \cup IF goesOn THEN {} ELSE removed)
  /\ i' = IF goesOn \/ linking \/ crossing THEN i ELSE i + 1
  /\ IF goesOn THEN Run(NextJob(s)) /\ UNCHANGED status
     ELSE /\ pc' = CASE crossing -> "ended" [] linking -> "cref" [] OTHER -> "next"
          /\ status' = IF crossing /\ nerrs # 0 THEN 1 ELSE status
          /\ job' = NoJob
  /\ UNCHANGED <<command, ok, nerrs, stdin, longs>>

Next == \/ \E o \in Options : TakeOption(o) \/ Refuse(o)
        \/ \E b \in Bases, k \in Kinds : TakeFile(b, k)
        \/ Doit \/ NextSource \/ AfterSources \/ GetAddresses \/ CrossReference
        \/ Redirect \/ CannotCreate \/ Direct
        \/ Succeed \/ Fail \/ NotFound \/ Answer \/ CannotSpawn \/ CannotRestore \/ Back

Spec == Init /\ [][Next]_vars

-----------------------------------------------------------------------------
(* When the command reports success every source went through all of its    *)
(* passes, in their order and on the file of the pass before, and the       *)
(* program is linked from just the files that were named.                   *)
Passes(s) == (IF s[2] = "as" THEN <<>>
              ELSE <<"cpp", "p1", "cgen">> \o (IF Optimizes THEN <<"optim">> ELSE <<>>))
               \o (IF "keepas" \in on THEN <<>> ELSE <<"zas">>)
Product(s) == IF "keepas" \in on THEN Assembler(s) ELSE Object(s)
Fresh(s) == disk[Product(s)] = [from |-> {s}, by |-> Passes(s)]
Worked == {s \in ToSet(c_as) : ~("keepas" \in on /\ s[2] = "as")}
SuccessMeansDone == pc = "ended" /\ status = 0 =>
  /\ \A s \in Worked : Fresh(s) \/ (nfiles = 1 /\ "keep" \notin on)
  /\ "keep" \notin on =>
       disk[outfile] = [from |-> ToSet(c_as) \cup {o \in ToSet(objs) : \A s \in ToSet(c_as) : Object(s) # o},
                        by |-> <<"link", "objtohex">>]

(* A command that ends otherwise than by error() leaves no temporary file,  *)
(* whichever passes failed; the cross reference is left if no name was      *)
(* given for its listing.                                                   *)
TempsGone == pc = "ended" /\ status # 2 =>
  \A t \in Temps : disk[Temp(t)] = Gone \/ (t = "crtmp" /\ "xref" \in on /\ "xrname" \notin on)

(* A pass finds its command where it looks for it, and the user is asked on *)
(* the console even while descriptor 0 is the file of a command: as long as *)
(* one command only was too long.                                           *)
RightInput == longs <= 1 =>
  /\ pc = "spawn" => fd[0] = IF Long(job.pass) THEN "redname" ELSE "console"
  /\ pc \in {"ask", "addresses"} => fd[stdin] = "console"
  /\ pc \in {"next", "cref"} => fd[0] = "console"

(* The command does what the manual says of it. *)
Left == IF pc \in {"args", "ended"} THEN {} ELSE Worked \cap ToSet(SubSeq(c_as, i, Len(c_as)))
B == INSTANCE Build WITH
       Sources <- Bases \X {"c", "as"},
       phase <- IF pc \in {"args", "ended"} THEN pc
                ELSE IF pc = "cref" \/ job.pass = "cref" THEN "after"
                ELSE IF job.pass \in {"link", "objtohex"} THEN "link" ELSE "work",
       todo <- Left,
       made <- {s \in Left : Fresh(s)},
       bad <- nerrs # 0,
       status <- IF status = 2 THEN 1 ELSE status
ImplementsBuild == B!Spec
=============================================================================
