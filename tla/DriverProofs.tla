---------------------------- MODULE DriverProofs ----------------------------
(***************************************************************************)
(* For any command line and whatever the passes do: no temporary file is   *)
(* left, success means that all is done, a pass and the user are heard on  *)
(* the right descriptor, and the command does what the manual says of it.  *)
(***************************************************************************)
EXTENDS Driver, FiniteSetTheorems, SequenceTheorems, TLAPS

(***************************************************************************)
(* The inductive invariant: the kinds of the values (Shapes), what the     *)
(* command line has named (Distinct), where in the list of sources the     *)
(* command is and which pass may run there (Stage), what the passes so far *)
(* have made of it (Chain, Made, Program), which files nobody may write    *)
(* (Kept) and which nobody has made yet (Unmade), the temporary files      *)
(* (Tidy), and the descriptors (Wired).                                    *)
(***************************************************************************)
Flags == {"keepas", "keep", "cpm", "xref", "xrname", "optimize", "symdb", "addresses"}

Shapes ==
  /\ pc \in {"args", "next", "addresses", "exec", "spawn", "ask", "back", "cref", "ended"}
  /\ on \subseteq Flags /\ ("keepas" \in on => "keep" \in on)
  /\ lists \in [{"iuds", "flgs", "libs"} -> Nat]
  /\ c_as \in Seq(Bases \X {"c", "as"}) /\ objs \in Seq(Bases \X {"obj"})
  /\ nfiles \in Nat /\ i \in 1..(Len(c_as) + 1) /\ nerrs \in Nat /\ status \in 0..2
  /\ disk = [f \in FileNames |-> disk[f]]
  /\ longs \in Nat

Distinct ==
  /\ \A j, k \in 1..Len(c_as) : c_as[j][1] = c_as[k][1] => j = k
  /\ \A s \in ToSet(c_as) : Object(s) \in ToSet(objs)
  /\ outfile # NoName => outfile \in FileNames /\ outfile[2] \in {"hex", "com", "bin"}
  /\ nfiles > 0 => outfile # NoName
  /\ pc # "args" => outfile # NoName
  /\ single[2] \in {"none", "obj"}

Running == pc \in {"exec", "spawn", "ask", "back"}

Stages(s) == IF s[2] = "as" THEN (IF "keepas" \in on THEN {} ELSE {Zas(s, s)})
             ELSE {Cpp(s), P1, Cgen(s)}
                    \cup (IF Optimizes THEN {Optim(s)} ELSE {})
                    \cup (IF "keepas" \in on THEN {}
                          ELSE {Zas(s, IF Optimizes THEN Optimized ELSE Unoptimized)})

Compiles == i <= Len(c_as) /\ job \in Stages(c_as[i])
Linking  == /\ i > Len(c_as) /\ job \in {Link, Objtohex} /\ "keep" \notin on
            /\ (pc = "back" => ok) => nerrs = 0
Crossing == i > Len(c_as) /\ job = Cref /\ {"xref", "xrname"} \subseteq on

Stage ==
  /\ pc = "args" => i = 1 /\ nerrs = 0 /\ status = 0
  /\ pc \in {"args", "next", "addresses", "cref"} => job = NoJob
  /\ Running => Compiles \/ Linking \/ Crossing
  /\ pc \in {"addresses", "cref"} => i > Len(c_as)
  /\ pc = "addresses" => nerrs = 0 /\ "keep" \notin on
  /\ pc # "ended" => status = 0
  /\ pc = "ended" => i > Len(c_as) /\ (status = 0 <=> nerrs = 0)
  /\ pc = "back" /\ ~ok => nerrs > 0

(* What a pass finds in the file it reads.                                 *)
Before(s) == CASE job.pass = "cpp" -> <<>>
               [] job.pass = "p1" -> <<"cpp">>
               [] job.pass = "cgen" -> <<"cpp", "p1">>
               [] job.pass = "optim" -> <<"cpp", "p1", "cgen">>
               [] job.pass = "zas" /\ s[2] = "as" -> <<>>
               [] OTHER -> IF Optimizes THEN <<"cpp", "p1", "cgen", "optim">> ELSE <<"cpp", "p1", "cgen">>

Chain ==
  Running /\ Compiles =>
    LET s == c_as[i] IN
    /\ pc # "back" => \A f \in job.in : disk[f] = [from |-> {s}, by |-> Before(s)]
    /\ pc = "back" /\ ok => \A f \in job.out : disk[f] = [from |-> {s}, by |-> Append(Before(s), job.pass)]

LinkedFrom == ToSet(c_as) \cup {o \in ToSet(objs) : \A s \in ToSet(c_as) : Object(s) # o}
After == pc = "cref" \/ (Running /\ Crossing) \/ pc = "ended"

Program ==
  /\ Running /\ ((job = Link /\ pc = "back" /\ ok) \/ (job = Objtohex /\ pc # "back"))
       => disk[Temp("l_dot_obj")] = [from |-> LinkedFrom, by |-> <<"link">>]
  /\ (Running /\ job = Objtohex /\ pc = "back" /\ ok) \/ (After /\ nerrs = 0 /\ "keep" \notin on)
       => disk[outfile] = [from |-> LinkedFrom, by |-> <<"link", "objtohex">>]

Made ==
  nerrs = 0 => \A j \in 1..Len(c_as) :
    j < i /\ c_as[j] \in Worked => Fresh(c_as[j]) \/ (After /\ nfiles = 1 /\ "keep" \notin on)

Kept == /\ \A s \in ToSet(c_as) : disk[s] = Given(s)
        /\ \A o \in ToSet(objs) : (\A s \in ToSet(c_as) : Object(s) # o) => disk[o] = Given(o) \/ After

Unmade ==
  /\ pc = "args" => \A b \in Bases \ Named : disk[<<b, "obj">>] = Old /\ disk[<<b, "as">>] = Gone
  /\ \A j \in 1..Len(c_as) :
       j > i \/ (j = i /\ ~(pc = "back" /\ Product(c_as[j]) \in job.out)) =>
         disk[Object(c_as[j])] = Old /\ (c_as[j][2] = "c" => disk[Assembler(c_as[j])] = Gone)

Tidy ==
  \A t \in Temps : disk[Temp(t)] # Gone =>
       \/ t = "redname" /\ pc \in {"spawn", "ask", "back"} /\ Long(job.pass)
       \/ t = "crtmp" /\ "xref" \in on /\ (pc = "ended" => "xrname" \notin on)
       \/ t = "l_dot_obj" /\ pc \in {"exec", "spawn", "ask", "back"} /\ Linking
       \/ t \in {"tmpf1", "tmpf2", "tmpf3"} /\ pc \in {"next", "exec", "spawn", "ask", "back"}
            /\ job.pass \notin {"link", "objtohex", "cref"}

Wiring(zero, four) == [n \in Fds |-> IF n = 0 THEN zero ELSE IF n <= 2 THEN "screen"
                                     ELSE IF n = 3 THEN "free" ELSE four]
Taken == pc \in {"spawn", "ask", "back"} /\ Long(job.pass)
Wired == /\ longs = 0 => ~Taken /\ stdin = 0 /\ fd = Wiring("console", "free")
         /\ longs = 1 => stdin = 4 /\ fd = Wiring(IF Taken THEN "redname" ELSE "console", "console")

(* Nothing is promised once the command has ended by error().              *)
Good == /\ Distinct /\ Stage /\ Chain /\ Program /\ Made /\ Kept /\ Unmade /\ Tidy /\ Wired
IInv == Shapes /\ IF status = 2 THEN pc = "ended" ELSE Good

-----------------------------------------------------------------------------
(* Names of files, and contents.                                           *)

LEMMA NamesDiffer ==
  /\ \A t \in Temps : Temp(t) \in FileNames /\ Temp(t)[2] = "tmp" /\ Temp(t)[1] = t
  /\ \A s \in Bases \X {"c", "as", "obj"} :
       /\ s \in FileNames /\ s[1] \in Bases /\ s[2] \in {"c", "as", "obj"} /\ s = <<s[1], s[2]>>
       /\ Object(s) \in FileNames /\ Object(s)[1] = s[1] /\ Object(s)[2] = "obj"
       /\ Assembler(s) \in FileNames /\ Assembler(s)[1] = s[1] /\ Assembler(s)[2] = "as"
  /\ <<"name", "crf">> \in FileNames /\ <<"name", "crf">>[2] = "crf"
  /\ NoName[2] = "none"
  BY DEF Temps, Temp, FileNames, Object, Assembler, NoName

LEMMA ContentsDiffer ==
  /\ Old # Gone /\ \A f : Given(f) # Gone
  /\ \A x, y : [from |-> {x}, by |-> y] # Old \/ x = NoName
<1>1. Gone.from = {} /\ Old.from = {NoName}
  BY DEF Gone, Old
<1>2. \A f : Given(f).from = {f}
  BY DEF Given
<1>3. \A x, y : [from |-> {x}, by |-> y].from = {x}
  OBVIOUS
<1> QED
  BY <1>1, <1>2, <1>3

LEMMA ToSetAppend ==
  ASSUME NEW S, NEW s \in Seq(S), NEW x \in S
  PROVE  /\ ToSet(Append(s, x)) = ToSet(s) \cup {x} /\ ToSet(s) \subseteq S
         /\ Append(s, x) \in Seq(S) /\ Len(Append(s, x)) = Len(s) + 1
         /\ \A j \in 1..Len(s) : Append(s, x)[j] = s[j]
         /\ Append(s, x)[Len(s) + 1] = x
<1>1. /\ Append(s, x) \in Seq(S) /\ Len(Append(s, x)) = Len(s) + 1
      /\ \A j \in 1..Len(s) : Append(s, x)[j] = s[j] /\ s[j] \in S
      /\ Append(s, x)[Len(s) + 1] = x /\ Len(s) \in Nat /\ DOMAIN s = 1..Len(s)
      /\ DOMAIN Append(s, x) = 1..(Len(s) + 1)
  OBVIOUS
<1> QED
  BY <1>1 DEF ToSet

LEMMA InitHolds ==
  ASSUME Init
  PROVE  IInv
<1>1. ToSet(c_as) = {} /\ ToSet(objs) = {} /\ Len(c_as) = 0
  BY DEF Init, ToSet
<1>2. disk = [f \in FileNames |-> disk[f]]
  BY DEF Init
<1>3. fd = Wiring("console", "free") /\ ~Taken
  BY DEF Init, Wiring, Fds, Taken
<1>4. Shapes
  BY <1>1, <1>2, <1>3 DEF Init, Shapes, Flags, Fds
<1>5. Distinct
  BY <1>1, NamesDiffer DEF Init, Distinct
<1>6. Stage /\ Chain /\ Program /\ Made
  BY <1>1 DEF Init, Stage, Chain, Program, Made, Running, After
<1>7. Kept /\ Unmade
  BY <1>1, NamesDiffer DEF Init, Kept, Unmade, FileNames
<1>8. Tidy
  BY NamesDiffer DEF Init, Tidy
<1>9. Wired
  BY <1>3 DEF Init, Wired
<1> QED
  BY <1>4, <1>5, <1>6, <1>7, <1>8, <1>9 DEF IInv, Good, Init

-----------------------------------------------------------------------------
(* The command line.                                                       *)

(* While it is read nothing has run, and nothing is made.                  *)
LEMMA ArgsHold ==
  ASSUME IInv, pc = "args", UNCHANGED <<i, job, ok, nerrs, fd, stdin, longs, status, pc>>,
         Shapes', Distinct', Kept', Unmade', Tidy'
  PROVE  IInv'
<1>1. Good /\ status = 0 /\ i = 1 /\ i \in Int
  BY DEF IInv, Stage, Good, Shapes
<1>2. Stage'
  BY <1>1 DEF Good, Stage, Running
<1>3. Chain' /\ Program'
  BY <1>1 DEF Good, Chain, Program, Running, After
<1>4. Made'
  BY <1>1 DEF Good, Made
<1>5. Wired'
  BY <1>1 DEF Good, Wired, Taken
<1> QED
  BY <1>1, <1>2, <1>3, <1>4, <1>5 DEF IInv, Good

LEMMA SetoutNames ==
  ASSUME NEW b \in Bases \cup {"name"}, NEW e \in {"", "obj", "bin"}, e = "bin" => b = "name"
  PROVE  Setout(b, e) # NoName /\ Setout(b, e) \in FileNames /\ Setout(b, e)[2] \in {"hex", "com", "bin"}
<1>1. Setout(b, e)[2] \in {"hex", "com", "bin"} /\ Setout(b, e) \in FileNames
  BY DEF Setout, FileNames
<1> QED
  BY <1>1, NamesDiffer

LEMMA TakeOptionHolds ==
  ASSUME IInv, NEW o \in Options, TakeOption(o)
  PROVE  IInv'
<1>1. /\ pc = "args" /\ Good /\ Shapes /\ o \in AllOptions
      /\ UNCHANGED <<pc, c_as, objs, nfiles, single, disk, status, i, job, ok, nerrs, fd, stdin, longs>>
  BY DriverAssumption DEF TakeOption, Argument, Unworked, IInv, Stage, Good
<1>2. on' \subseteq Flags /\ ("keepas" \in on' => "keep" \in on') /\ ("xref" \in on => "xref" \in on')
  BY <1>1 DEF TakeOption, Shapes, Switches, Flags, AllOptions
<1>3. lists' \in [{"iuds", "flgs", "libs"} -> Nat]
  <2>1. lists' = [l \in DOMAIN lists |-> lists[l] + IF Lists(o) = l THEN 1 ELSE 0]
    BY DEF TakeOption
  <2> QED
    BY <1>1, <2>1 DEF Shapes
<1>4. Shapes'
  BY <1>1, <1>2, <1>3 DEF Shapes
<1>5. Distinct'
  <2>1. outfile' = outfile \/ outfile' \in {Setout("name", ""), Setout("name", "bin")}
    BY DEF TakeOption
  <2>2. outfile' = outfile \/ (outfile' # NoName /\ outfile' \in FileNames /\ outfile'[2] \in {"hex", "com", "bin"})
    BY <2>1, SetoutNames
  <2> QED
    BY <1>1, <2>2 DEF Good, Distinct, Object
<1>6. Kept' /\ Unmade'
  <2>1. Kept'
    BY <1>1 DEF Good, Kept, Given, Object, After, Running
  <2>2. Named' = Named
    BY <1>1 DEF Named
  <2>3. Unmade'
    BY <1>1, <2>2 DEF Good, Unmade, Object, Assembler
  <2> QED
    BY <2>1, <2>3
<1>7. Tidy'
  BY <1>1, <1>2 DEF Good, Tidy, Temp
<1> QED
  BY <1>1, <1>4, <1>5, <1>6, <1>7, ArgsHold

LEMMA TakeFileHolds ==
  ASSUME IInv, NEW b \in Bases, NEW k \in Kinds, TakeFile(b, k)
  PROVE  IInv'
<1> DEFINE f == <<b, k>>
           o == <<b, "obj">>
<1>1. /\ pc = "args" /\ Good /\ Shapes /\ k \in {"c", "as", "obj"} /\ b \notin Named
      /\ disk' = [disk EXCEPT ![f] = Given(f)]
      /\ UNCHANGED <<pc, on, lists, status, i, job, ok, nerrs, fd, stdin, longs>>
  BY DriverAssumption DEF TakeFile, Argument, Unworked, IInv, Stage, Good
<1>2. /\ f \in Bases \X {"c", "as", "obj"} /\ f \in FileNames /\ f[1] = b /\ f[2] = k
      /\ Object(f) = o /\ o \in Bases \X {"obj"} /\ o \in FileNames
  BY <1>1 DEF FileNames, Object
<1>3. /\ disk'[f] = Given(f) /\ \A x \in FileNames \ {f} : disk'[x] = disk[x]
      /\ disk' = [x \in FileNames |-> disk'[x]]
  BY <1>1, <1>2 DEF Shapes
<1>4. /\ objs' = Append(objs, o) /\ objs' \in Seq(Bases \X {"obj"})
      /\ ToSet(objs') = ToSet(objs) \cup {o} /\ ToSet(objs) \subseteq Bases \X {"obj"}
  <2>1. objs' = Append(objs, o) /\ objs \in Seq(Bases \X {"obj"})
    BY <1>1 DEF TakeFile, Shapes
  <2>2. PICK S : S = Bases \X {"obj"}
    OBVIOUS
  <2>3. o \in S /\ objs \in Seq(S)
    BY <1>2, <2>1, <2>2
  <2> HIDE DEF f, o
  <2>4. /\ ToSet(Append(objs, o)) = ToSet(objs) \cup {o} /\ ToSet(objs) \subseteq S
        /\ Append(objs, o) \in Seq(S)
    BY <2>3, ToSetAppend
  <2> QED
    BY <2>1, <2>2, <2>4
<1>5. /\ c_as' \in Seq(Bases \X {"c", "as"}) /\ ToSet(c_as) \subseteq Bases \X {"c", "as"}
      /\ k = "obj" => c_as' = c_as /\ single' = single
      /\ k # "obj" => /\ c_as' = Append(c_as, f) /\ single' = o /\ f \in Bases \X {"c", "as"}
                      /\ ToSet(c_as') = ToSet(c_as) \cup {f}
                      /\ Len(c_as') = Len(c_as) + 1 /\ Len(c_as) \in Nat
                      /\ \A j \in 1..Len(c_as) : c_as'[j] = c_as[j]
                      /\ c_as'[Len(c_as) + 1] = f
  <2>1. CASE k = "obj"
    BY <1>1, <2>1 DEF TakeFile, Shapes, ToSet
  <2>2. CASE k # "obj"
    <3>1. c_as \in Seq(Bases \X {"c", "as"}) /\ f \in Bases \X {"c", "as"} /\ Len(c_as) \in Nat
      BY <1>1, <2>2 DEF Shapes
    <3>2. c_as' = Append(c_as, f) /\ single' = o
      BY <2>2 DEF TakeFile
    <3> DEFINE Sources == Bases \X {"c", "as"}
    <3>3. c_as \in Seq(Sources) /\ f \in Sources
      BY <3>1
    <3> HIDE DEF f, o, Sources
    <3>4. /\ ToSet(Append(c_as, f)) = ToSet(c_as) \cup {f} /\ ToSet(c_as) \subseteq Sources
          /\ Append(c_as, f) \in Seq(Sources) /\ Len(Append(c_as, f)) = Len(c_as) + 1
          /\ \A j \in 1..Len(c_as) : Append(c_as, f)[j] = c_as[j]
          /\ Append(c_as, f)[Len(c_as) + 1] = f
      BY <3>3, ToSetAppend
    <3>5. /\ ToSet(c_as') = ToSet(c_as) \cup {f} /\ ToSet(c_as) \subseteq Bases \X {"c", "as"}
          /\ c_as' \in Seq(Bases \X {"c", "as"}) /\ Len(c_as') = Len(c_as) + 1
          /\ \A j \in 1..Len(c_as) : c_as'[j] = c_as[j]
          /\ c_as'[Len(c_as) + 1] = f
      BY <3>2, <3>4 DEF Sources
    <3> QED
      BY <2>2, <3>1, <3>2, <3>5
  <2> QED
    BY <2>1, <2>2
<1>6. nfiles' = nfiles + 1 /\ outfile' = IF outfile = NoName THEN Setout(b, "obj") ELSE outfile
  BY DEF TakeFile
<1>7. Named' = Named \cup {b}
  <2>1. \A s : s \in ToSet(c_as) \cup ToSet(objs) => s[1] \in Named
    BY DEF Named
  <2>2. f[1] = b /\ o[1] = b
    OBVIOUS
  <2>3. Named' = {s[1] : s \in ToSet(c_as') \cup ToSet(objs')}
    BY DEF Named
  <2>4. ToSet(c_as') \cup ToSet(objs') \in {ToSet(c_as) \cup ToSet(objs) \cup {o}, ToSet(c_as) \cup ToSet(objs) \cup {o, f}}
    BY <1>4, <1>5
  <2> HIDE DEF f, o
  <2> QED
    BY <2>2, <2>3, <2>4 DEF Named
<1>8. \A s \in ToSet(c_as) \cup ToSet(objs) : s[1] # b
  BY <1>1 DEF Named
<1> HIDE DEF f, o
<1>9. Shapes'
  <2>1. nfiles' \in Nat /\ i \in 1..(Len(c_as') + 1)
    BY <1>1, <1>5, <1>6 DEF Shapes
  <2> QED
    BY <1>1, <1>3, <1>4, <1>5, <2>1 DEF Shapes
<1>10. Distinct'
  <2>1. \A j, m \in 1..Len(c_as') : c_as'[j][1] = c_as'[m][1] => j = m
    <3>1. CASE k = "obj"
      BY <1>1, <1>5, <3>1 DEF Good, Distinct
    <3>2. CASE k # "obj"
      <4>1. \A j \in 1..Len(c_as) : c_as[j] \in ToSet(c_as)
        BY <1>1 DEF Shapes, ToSet
      <4>2. \A j \in 1..Len(c_as') : j \in 1..Len(c_as) \/ j = Len(c_as) + 1
        BY <1>5, <3>2
      <4> QED
        BY <1>1, <1>2, <1>5, <1>8, <3>2, <4>1, <4>2 DEF Good, Distinct
    <3> QED
      BY <3>1, <3>2
  <2>2. \A s \in ToSet(c_as') : Object(s) \in ToSet(objs')
    BY <1>1, <1>2, <1>4, <1>5 DEF Good, Distinct, Object
  <2>3. outfile' # NoName /\ outfile' \in FileNames /\ outfile'[2] \in {"hex", "com", "bin"}
    BY <1>1, <1>6, SetoutNames DEF Good, Distinct
  <2>4. single'[2] \in {"none", "obj"}
    BY <1>1, <1>2, <1>5 DEF Good, Distinct
  <2> QED
    BY <1>1, <2>1, <2>2, <2>3, <2>4 DEF Distinct
<1>11. Kept'
  <2>1. ASSUME NEW s \in ToSet(c_as') PROVE disk'[s] = Given(s)
    <3>1. CASE s \in ToSet(c_as)
      <4>1. s \in FileNames \ {f}
        BY <1>2, <1>5, <1>8, <3>1, NamesDiffer
      <4> QED
        BY <1>1, <1>3, <3>1, <4>1 DEF Good, Kept
    <3>2. CASE s = f
      BY <1>3, <3>2
    <3> QED
      BY <1>5, <2>1, <3>1, <3>2
  <2>2. ASSUME NEW x \in ToSet(objs'), \A s \in ToSet(c_as') : Object(s) # x PROVE disk'[x] = Given(x)
    <3>1. CASE x \in ToSet(objs)
      <4>1. x \in FileNames \ {f}
        BY <1>2, <1>4, <1>8, <3>1, NamesDiffer
      <4>2. \A s \in ToSet(c_as) : Object(s) # x
        BY <1>5, <2>2 DEF Object
      <4> QED
        BY <1>1, <1>3, <3>1, <4>1, <4>2 DEF Good, Kept, After, Running
    <3>2. CASE x = o
      <4>1. k = "obj"
        BY <1>2, <1>5, <2>2, <3>2
      <4> QED
        BY <1>3, <3>2, <4>1 DEF f, o
    <3> QED
      BY <1>4, <2>2, <3>1, <3>2
  <2> QED
    BY <2>1, <2>2 DEF Kept, Given, Object
<1>12. Unmade'
  <2>1. ASSUME NEW x \in Bases \ Named' PROVE disk'[<<x, "obj">>] = Old /\ disk'[<<x, "as">>] = Gone
    <3>1. x # b /\ <<x, "obj">> \in FileNames \ {f} /\ <<x, "as">> \in FileNames \ {f}
      BY <1>2, <1>7, <2>1 DEF FileNames
    <3> QED
      BY <1>1, <1>3, <1>7, <2>1, <3>1 DEF Good, Unmade
  <2>2. ASSUME NEW j \in 1..Len(c_as')
        PROVE  disk'[Object(c_as'[j])] = Old /\ (c_as'[j][2] = "c" => disk'[Assembler(c_as'[j])] = Gone)
    <3>1. CASE j \in 1..Len(c_as)
      <4>1. /\ c_as'[j] = c_as[j] /\ c_as[j] \in ToSet(c_as) /\ c_as[j] \in Bases \X {"c", "as"}
            /\ j >= i
        BY <1>1, <1>5, <3>1 DEF Shapes, ToSet, Good, Stage
      <4>2. Object(c_as[j]) \in FileNames \ {f} /\ Assembler(c_as[j]) \in FileNames \ {f}
        BY <1>2, <1>8, <4>1, NamesDiffer
      <4> QED
        BY <1>1, <1>3, <3>1, <4>1, <4>2 DEF Good, Unmade, Shapes
    <3>2. CASE k # "obj" /\ j = Len(c_as) + 1
      <4>1. c_as'[j] = f /\ f[2] = k /\ f[1] = b
        BY <1>2, <1>5, <3>2
      <4>2. disk[<<b, "obj">>] = Old /\ disk[<<b, "as">>] = Gone
        BY <1>1 DEF Good, Unmade
      <4>3. <<b, "obj">> \in FileNames \ {f} /\ (k = "c" => <<b, "as">> \in FileNames \ {f})
        BY <3>2 DEF f, FileNames
      <4> QED
        BY <1>3, <4>1, <4>2, <4>3 DEF Object, Assembler
    <3> QED
      BY <1>5, <3>1, <3>2
  <2> QED
    BY <2>1, <2>2 DEF Unmade, Object, Assembler
<1>13. Tidy'
  <2>1. \A t \in Temps : Temp(t) \in FileNames \ {f}
    BY <1>1, <1>2, NamesDiffer
  <2> QED
    BY <1>1, <1>3, <2>1 DEF Good, Tidy, Temp
<1> QED
  BY <1>1, <1>9, <1>10, <1>11, <1>12, <1>13, ArgsHold

-----------------------------------------------------------------------------
(* Steps that change no file but temporary ones.                           *)

(* error() promises nothing.                                               *)
LEMMA ErrorHolds ==
  ASSUME IInv, pc' = "ended", status' = 2,
         UNCHANGED <<on, lists, c_as, objs, nfiles, i, nerrs, disk, longs>>
  PROVE  IInv'
  BY DEF IInv, Shapes

LEMMA Members ==
  ASSUME NEW S, NEW s \in Seq(S)
  PROVE  /\ ToSet(s) \subseteq S /\ Len(s) \in Nat
         /\ \A j \in 1..Len(s) : s[j] \in ToSet(s) /\ s[j] \in S
         /\ \A x \in ToSet(s) : \E j \in 1..Len(s) : x = s[j]
<1>1. DOMAIN s = 1..Len(s) /\ Len(s) \in Nat /\ \A j \in 1..Len(s) : s[j] \in S
  OBVIOUS
<1> QED
  BY <1>1 DEF ToSet

LEMMA Sources ==
  ASSUME Shapes
  PROVE  /\ ToSet(c_as) \subseteq Bases \X {"c", "as"} /\ ToSet(objs) \subseteq Bases \X {"obj"}
         /\ Len(c_as) \in Nat
         /\ \A j \in 1..Len(c_as) : c_as[j] \in ToSet(c_as) /\ c_as[j] \in Bases \X {"c", "as"}
         /\ \A s \in ToSet(c_as) : \E j \in 1..Len(c_as) : s = c_as[j]
<1>1. PICK S, T : S = Bases \X {"c", "as"} /\ T = Bases \X {"obj"}
  OBVIOUS
<1>2. c_as \in Seq(S) /\ objs \in Seq(T)
  BY <1>1 DEF Shapes
<1> QED
  BY <1>1, <1>2, Members

(* The product of a source is no temporary file, and nor is the source.    *)
LEMMA Products ==
  ASSUME NEW s \in Bases \X {"c", "as"}
  PROVE  /\ s \in FileNames /\ s[2] # "tmp"
         /\ Product(s) \in FileNames /\ Product(s)[2] # "tmp" /\ Product(s)[1] = s[1]
         /\ Object(s) \in FileNames /\ Object(s)[2] # "tmp"
         /\ Assembler(s) \in FileNames /\ Assembler(s)[2] # "tmp"
  BY NamesDiffer DEF Product

TempsOnly == /\ disk' = [f \in FileNames |-> disk'[f]]
             /\ \A f \in FileNames : f[2] # "tmp" => disk'[f] = disk[f]

LEMMA FreshStays ==
  ASSUME NEW s \in Bases \X {"c", "as"}, disk'[Product(s)] = disk[Product(s)], UNCHANGED on
  PROVE  Fresh(s)' = Fresh(s)
<1>1. Product(s)' = Product(s) /\ Passes(s)' = Passes(s)
  BY DEF Product, Passes, Object, Assembler, Optimizes
<1> QED
  BY <1>1 DEF Fresh

LEMMA FilesStay ==
  ASSUME IInv, pc # "ended", pc' # "args", pc = "args" => outfile # NoName, UNCHANGED command, TempsOnly,
         After => After', i' >= i, i' \in Int,
         \A j \in 1..Len(c_as) : j = i' /\ j = i /\ ~(pc' = "back" /\ Product(c_as[j]) \in job'.out)
                                    => ~(pc = "back" /\ Product(c_as[j]) \in job.out)
  PROVE  Distinct' /\ Kept' /\ Unmade'
<1>1. Good /\ Shapes /\ UNCHANGED <<on, c_as, objs, nfiles, outfile, single>> /\ i \in Int
  BY DEF IInv, Shapes, command
<1>2. Distinct'
  BY <1>1 DEF Good, Distinct, Object, Stage, IInv
<1>3. Kept'
  <2>1. ASSUME NEW s \in ToSet(c_as) PROVE disk'[s] = Given(s)
    BY <1>1, <2>1, Sources, Products DEF Good, Kept, TempsOnly
  <2>2. \A o \in ToSet(objs) : disk'[o] = disk[o]
    BY <1>1, Sources, NamesDiffer DEF TempsOnly
  <2> QED
    BY <1>1, <2>1, <2>2 DEF Good, Kept, Given, Object
<1>4. Unmade'
  <2>1. ASSUME NEW j \in 1..Len(c_as),
               j > i' \/ (j = i' /\ ~(pc' = "back" /\ Product(c_as[j]) \in job'.out))
        PROVE  disk'[Object(c_as[j])] = Old /\ (c_as[j][2] = "c" => disk'[Assembler(c_as[j])] = Gone)
    <3>1. j > i \/ (j = i /\ ~(pc = "back" /\ Product(c_as[j]) \in job.out))
      BY <1>1, <2>1
    <3>2. /\ disk'[Object(c_as[j])] = disk[Object(c_as[j])]
          /\ disk'[Assembler(c_as[j])] = disk[Assembler(c_as[j])]
      BY <1>1, Sources, Products DEF TempsOnly
    <3> QED
      BY <1>1, <3>1, <3>2 DEF Good, Unmade
  <2>2. \A j \in 1..Len(c_as) : Product(c_as[j])' = Product(c_as[j])
    BY <1>1 DEF Product, Object, Assembler
  <2> QED
    BY <1>1, <2>1, <2>2 DEF Unmade, Object, Assembler
<1> QED
  BY <1>2, <1>3, <1>4

(* What is made stays made, and a source that is left behind must be made. *)
LEMMA MadeStays ==
  ASSUME IInv, pc # "ended", UNCHANGED <<on, c_as, nfiles>>, TempsOnly,
         After => After', nerrs' >= nerrs, nerrs' \in Int, i' \in Int,
         \A j \in 1..Len(c_as) : nerrs' = 0 /\ i <= j /\ j < i' /\ c_as[j] \in Worked => Fresh(c_as[j])
  PROVE  Made'
<1>1. Good /\ Shapes /\ i \in Int /\ nerrs \in Nat
  BY DEF IInv, Shapes
<1>2. Worked' = Worked
  BY DEF Worked
<1>3. ASSUME NEW j \in 1..Len(c_as) PROVE Fresh(c_as[j])' = Fresh(c_as[j])
  BY <1>1, Sources, Products, FreshStays DEF TempsOnly
<1>4. nerrs' = 0 => nerrs = 0
  BY <1>1
<1> QED
  BY <1>1, <1>2, <1>3, <1>4 DEF Good, Made

-----------------------------------------------------------------------------
(* The passes.                                                             *)

LEMMA StagesAre ==
  ASSUME NEW s \in Bases \X {"c", "as"}, job \in Stages(s)
  PROVE  \/ s[2] = "c" /\ job.pass = "cpp" /\ job.in = {s} /\ job.out = {Temp("tmpf1")} /\ job = Cpp(s)
         \/ /\ s[2] = "c" /\ job.pass = "p1" /\ job.in = {Temp("tmpf1")}
            /\ job.out = {Temp("tmpf2"), Temp("tmpf3")} /\ job = P1
         \/ /\ s[2] = "c" /\ job.pass = "cgen" /\ job.in = {Temp("tmpf2")}
            /\ job.out = {IF LeavesAs THEN Product(s) ELSE Temp("tmpf1")} /\ job = Cgen(s)
         \/ /\ s[2] = "c" /\ Optimizes /\ job.pass = "optim" /\ job.in = {Temp("tmpf1")}
            /\ job.out = {IF "keepas" \in on THEN Product(s) ELSE Temp("tmpf2")} /\ job = Optim(s)
         \/ /\ s[2] = "c" /\ "keepas" \notin on /\ job.pass = "zas"
            /\ job.in = {IF Optimizes THEN Temp("tmpf2") ELSE Temp("tmpf1")} /\ job.out = {Product(s)}
         \/ s[2] = "as" /\ "keepas" \notin on /\ job.pass = "zas" /\ job.in = {s} /\ job.out = {Product(s)}
<1>1. s[2] \in {"c", "as"}
  OBVIOUS
<1>2. LeavesAs => "keepas" \in on
  BY DEF LeavesAs
<1>3. CASE s[2] = "as"
  BY <1>3 DEF Stages, Zas, Job, Product
<1>4. CASE s[2] = "c" /\ job \in {Cpp(s), P1, Cgen(s)}
  BY <1>2, <1>4 DEF Cpp, P1, Cgen, Job, Product
<1>5. CASE s[2] = "c" /\ Optimizes /\ job = Optim(s)
  BY <1>5 DEF Optim, Job, Product
<1>6. CASE s[2] = "c" /\ "keepas" \notin on /\ job = Zas(s, IF Optimizes THEN Optimized ELSE Unoptimized)
  BY <1>6 DEF Zas, Job, Product, Optimized, Unoptimized
<1> QED
  BY <1>1, <1>3, <1>4, <1>5, <1>6 DEF Stages

Passing == {"cpp", "p1", "cgen", "optim", "zas"}

LEMMA JobsAre ==
  ASSUME IInv, Running
  PROVE  /\ Good /\ Shapes /\ status = 0
         /\ \/ /\ Compiles /\ ~Linking /\ ~Crossing /\ job.pass \in Passing
               /\ i \in 1..Len(c_as) /\ c_as[i] \in Bases \X {"c", "as"}
            \/ Linking /\ ~Compiles /\ ~Crossing /\ job = Link /\ job.pass = "link"
            \/ Linking /\ ~Compiles /\ ~Crossing /\ job = Objtohex /\ job.pass = "objtohex"
            \/ Crossing /\ ~Compiles /\ ~Linking /\ job = Cref /\ job.pass = "cref"
         /\ i \in 1..(Len(c_as) + 1) /\ Len(c_as) \in Nat
<1>1. Good /\ Shapes /\ status = 0 /\ (Compiles \/ Linking \/ Crossing)
  BY DEF Running, IInv, Good, Stage
<1>2. Link.pass = "link" /\ Objtohex.pass = "objtohex" /\ Cref.pass = "cref"
  BY DEF Link, Objtohex, Cref, Job
<1>3. Len(c_as) \in Nat /\ i \in 1..(Len(c_as) + 1)
  BY <1>1, Sources DEF Shapes
<1>4. CASE Compiles
  <2>1. i \in 1..Len(c_as) /\ job \in Stages(c_as[i])
    BY <1>3, <1>4 DEF Compiles
  <2>2. c_as[i] \in Bases \X {"c", "as"}
    BY <1>1, <2>1, Sources
  <2>3. job.pass \in Passing
    BY <2>1, <2>2, StagesAre DEF Passing
  <2>4. ~Linking /\ ~Crossing
    BY <1>3, <1>4 DEF Compiles, Linking, Crossing
  <2> QED
    BY <1>1, <1>3, <1>4, <2>1, <2>2, <2>3, <2>4
<1>5. CASE Linking \/ Crossing
  <2>1. ~Compiles
    BY <1>3, <1>5 DEF Compiles, Linking, Crossing
  <2> QED
    BY <1>1, <1>2, <1>3, <1>5, <2>1 DEF Linking, Crossing
<1> QED
  BY <1>1, <1>4, <1>5

(* Nothing happens but that a pass comes nearer to run.                    *)
LEMMA WaitHolds ==
  ASSUME IInv, Direct \/ NotFound \/ Answer
  PROVE  IInv'
<1>1. /\ pc \in {"exec", "spawn", "ask"} /\ pc' \in {"spawn", "ask"} /\ (pc = "exec" => ~Long(job.pass))
      /\ UNCHANGED <<command, i, job, ok, nerrs, disk, fd, stdin, longs, status>>
  BY DEF Direct, NotFound, Answer
<1>2. /\ UNCHANGED <<nargs, on, lists, c_as, objs, nfiles, outfile, single>> /\ Running /\ Running'
  BY <1>1 DEF command, Running
<1>3. Good /\ Shapes /\ status = 0
  BY <1>2, JobsAre
<1>4. Long(job.pass)' = Long(job.pass)
  BY <1>1, <1>2 DEF Long, CppLength, LinkLength
<1>5. Compiles' = Compiles /\ Crossing' = Crossing
  BY <1>1, <1>2 DEF Compiles, Crossing, Stages, Zas, Cpp, P1, Cgen, Optim, Cref, Job, Optimizes, LeavesAs,
                    Object, Assembler, Optimized, Unoptimized, Temp
<1>6. Linking' = Linking /\ Link' = Link /\ Objtohex' = Objtohex /\ LinkedFrom' = LinkedFrom
  BY <1>1, <1>2 DEF Linking, Link, Objtohex, Job, Temp, LinkedFrom, Object
<1>7. After' = After
  BY <1>1, <1>2, <1>5 DEF After
<1>8. TempsOnly
  BY <1>1, <1>3 DEF TempsOnly, Shapes
<1>9. Shapes'
  BY <1>1, <1>2, <1>3 DEF Shapes
<1>10. Distinct' /\ Kept' /\ Unmade'
  BY <1>1, <1>2, <1>7, <1>8, <1>9, FilesStay DEF Shapes
<1>11. Made'
  BY <1>1, <1>2, <1>3, <1>7, <1>8, MadeStays DEF Shapes
<1>12. Stage'
  BY <1>1, <1>2, <1>3, <1>5, <1>6 DEF Good, Stage, Running
<1>13. Chain'
  BY <1>1, <1>2, <1>3, <1>5 DEF Good, Chain, Before, Optimizes
<1>14. Program'
  BY <1>1, <1>2, <1>3, <1>6, <1>7 DEF Good, Program, Temp
<1>15. Tidy'
  BY <1>1, <1>2, <1>3, <1>4, <1>6 DEF Good, Tidy, Temp
<1>16. Wired'
  <2>1. Taken' <=> Taken
    BY <1>1, <1>4 DEF Taken
  <2> QED
    BY <1>1, <1>3, <2>1 DEF Good, Wired
<1> QED
  BY <1>1, <1>3, <1>9, <1>10, <1>11, <1>12, <1>13, <1>14, <1>15, <1>16 DEF IInv, Good

(* MS-DOS gives the lowest descriptor that is free.                        *)
LEMMA LowestIs ==
  ASSUME NEW d, NEW n \in Fds, d[n] = "free", \A m \in 0..(n - 1) : d[m] # "free"
  PROVE  Lowest(d) = n
<1>1. \A x \in Fds : d[x] = "free" /\ (\A m \in 0..(x - 1) : d[m] # "free") => x = n
  BY DEF Fds
<1> QED
  BY <1>1 DEF Lowest

(* The first command that is too long moves stdin to descriptor 4.         *)
LEMMA MoveStdinWires ==
  ASSUME stdin = 0, fd = Wiring("console", "free"), MoveStdin([fd EXCEPT ![Lowest(fd)] = "redname"])
  PROVE  stdin' = 4 /\ fd' = Wiring("redname", "console")
<1>1. /\ DOMAIN fd = Fds /\ 3 \in Fds /\ 4 \in Fds
      /\ fd[0] = "console" /\ fd[1] = "screen" /\ fd[2] = "screen" /\ fd[3] = "free" /\ fd[4] = "free"
  BY DEF Wiring, Fds
<1>2. Lowest(fd) = 3
  <2>1. \A m \in 0..(3 - 1) : fd[m] # "free"
    BY <1>1
  <2> QED
    BY <1>1, <2>1, LowestIs
<1> DEFINE opened == [fd EXCEPT ![3] = "redname"]
<1>3. Lowest(opened) = 4
  <2>1. opened[4] = "free" /\ \A m \in 0..(4 - 1) : opened[m] # "free"
    BY <1>1
  <2> HIDE DEF opened
  <2> QED
    BY <1>1, <2>1, LowestIs
<1>4. /\ stdin' = 4
      /\ fd' = [n \in Fds |-> IF n = 0 THEN "redname" ELSE IF n = 3 THEN "free"
                              ELSE IF n = 4 THEN "console" ELSE fd[n]]
  BY <1>2, <1>3 DEF MoveStdin
<1> QED
  BY <1>1, <1>4 DEF Wiring, Fds

LEMMA RedirectHolds ==
  ASSUME IInv, Redirect
  PROVE  IInv'
<1>1. /\ pc = "exec" /\ pc' = "spawn" /\ Long(job.pass) /\ longs' = longs + 1
      /\ disk' = [disk EXCEPT ![Temp("redname")] = Given(NoName)]
      /\ MoveStdin([fd EXCEPT ![Lowest(fd)] = "redname"])
      /\ UNCHANGED <<command, i, job, ok, nerrs, status>>
  BY DEF Redirect
<1>2. /\ UNCHANGED <<nargs, on, lists, c_as, objs, nfiles, outfile, single>> /\ Running /\ Running'
  BY <1>1 DEF command, Running
<1>3. Good /\ Shapes /\ status = 0
  BY <1>2, JobsAre
<1>4. Long(job.pass)' = Long(job.pass)
  BY <1>1, <1>2 DEF Long, CppLength, LinkLength
<1>5. Compiles' = Compiles /\ Crossing' = Crossing
  BY <1>1, <1>2 DEF Compiles, Crossing, Stages, Zas, Cpp, P1, Cgen, Optim, Cref, Job, Optimizes, LeavesAs,
                    Object, Assembler, Optimized, Unoptimized, Temp
<1>6. Linking' = Linking /\ Link' = Link /\ Objtohex' = Objtohex /\ LinkedFrom' = LinkedFrom
  BY <1>1, <1>2 DEF Linking, Link, Objtohex, Job, Temp, LinkedFrom, Object
<1>7. After' = After
  BY <1>1, <1>2, <1>5 DEF After
<1>8. /\ \A f \in FileNames : f # Temp("redname") => disk'[f] = disk[f]
      /\ disk' = [f \in FileNames |-> disk'[f]]
      /\ Temp("redname") \in FileNames /\ Temp("redname")[2] = "tmp"
  BY <1>1, <1>3, NamesDiffer DEF Shapes, Temps
<1>9. TempsOnly
  BY <1>8 DEF TempsOnly
<1>10. Shapes'
  BY <1>1, <1>2, <1>3, <1>8 DEF Shapes
<1>11. Distinct' /\ Kept' /\ Unmade'
  BY <1>1, <1>2, <1>7, <1>9, <1>10, FilesStay DEF Shapes
<1>12. Made'
  BY <1>1, <1>2, <1>3, <1>7, <1>9, MadeStays DEF Shapes
<1>13. Stage'
  BY <1>1, <1>2, <1>3, <1>5, <1>6 DEF Good, Stage, Running
<1>14. Chain'
  <2>1. SUFFICES ASSUME Compiles, NEW f \in job.in
                 PROVE  disk'[f] = [from |-> {c_as[i]}, by |-> Before(c_as[i])]
    BY <1>1, <1>2, <1>5 DEF Chain, Before, Optimizes
  <2>2. f \in FileNames /\ f # Temp("redname")
    <3>1. i \in 1..Len(c_as) /\ c_as[i] \in Bases \X {"c", "as"} /\ job \in Stages(c_as[i])
      BY <1>2, <2>1, JobsAre DEF Compiles
    <3>2. f \in {c_as[i], Temp("tmpf1"), Temp("tmpf2")}
      BY <2>1, <3>1, StagesAre
    <3> QED
      BY <3>1, <3>2, NamesDiffer, Products DEF Temps
  <2> QED
    BY <1>1, <1>2, <1>3, <1>8, <2>1, <2>2 DEF Good, Chain
<1>15. Program'
  <2>1. Temp("l_dot_obj") \in FileNames /\ Temp("l_dot_obj") # Temp("redname")
    BY NamesDiffer DEF Temps
  <2>2. After /\ nerrs = 0 /\ "keep" \notin on => outfile \in FileNames /\ outfile # Temp("redname")
    BY <1>1, <1>3, NamesDiffer DEF Good, Distinct, Temps
  <2> QED
    BY <1>1, <1>2, <1>3, <1>6, <1>7, <1>8, <2>1, <2>2 DEF Good, Program, Temp
<1>16. Tidy'
  <2>1. \A t \in Temps : t # "redname" => disk'[Temp(t)] = disk[Temp(t)]
    BY <1>8, NamesDiffer DEF Temps
  <2> QED
    BY <1>1, <1>2, <1>3, <1>4, <1>6, <2>1 DEF Good, Tidy, Temp
<1>17. Wired'
  <2>1. Taken' /\ ~Taken
    BY <1>1, <1>4 DEF Taken
  <2>2. longs' # 0 /\ (longs' = 1 => longs = 0)
    BY <1>1, <1>3 DEF Shapes
  <2>3. longs = 0 => stdin' = 4 /\ fd' = Wiring("redname", "console")
    BY <1>1, <1>3, MoveStdinWires DEF Good, Wired
  <2> QED
    BY <2>1, <2>2, <2>3 DEF Wired
<1> QED
  BY <1>1, <1>3, <1>10, <1>11, <1>12, <1>13, <1>14, <1>15, <1>16, <1>17 DEF IInv, Good

-----------------------------------------------------------------------------
(* doit: from one source to the next, and to the linker.                   *)

(* Facts about the command while no pass runs.                             *)
LEMMA IdleIs ==
  ASSUME IInv, pc \in {"next", "addresses", "cref"}
  PROVE  /\ Good /\ Shapes /\ status = 0 /\ job = NoJob /\ ~Running /\ ~Taken
         /\ i \in 1..(Len(c_as) + 1) /\ Len(c_as) \in Nat /\ nerrs \in Nat /\ outfile # NoName
         /\ job.pass \notin {"link", "objtohex", "cref"}
         /\ job.out = {}
<1>1. Good /\ Shapes /\ status = 0 /\ job = NoJob
  BY DEF IInv, Good, Stage
<1> QED
  BY <1>1, Sources DEF Running, Taken, Shapes, Good, Distinct, NoJob

LEMMA DoitHolds ==
  ASSUME IInv, Doit
  PROVE  IInv'
<1>1. /\ pc = "args" /\ outfile # NoName /\ pc' = "next"
      /\ disk' = IF "xref" \in on THEN [disk EXCEPT ![Temp("crtmp")] = Given(NoName)] ELSE disk
      /\ UNCHANGED <<command, status, i, job, ok, nerrs, fd, stdin, longs>>
  BY DEF Doit, Unworked
<1>2. /\ UNCHANGED <<nargs, on, lists, c_as, objs, nfiles, outfile, single>>
      /\ Good /\ Shapes /\ status = 0 /\ i = 1 /\ nerrs = 0 /\ job = NoJob
      /\ Temp("crtmp") \in FileNames /\ Temp("crtmp")[2] = "tmp"
  BY <1>1, NamesDiffer DEF command, IInv, Good, Stage, Temps
<1>3. /\ ~Running /\ ~Running' /\ ~After /\ ~After' /\ ~Taken /\ ~Taken'
  BY <1>1 DEF Running, After, Taken
<1>4. TempsOnly
  BY <1>1, <1>2 DEF TempsOnly, Shapes
<1>5. Shapes'
  BY <1>1, <1>2, <1>4 DEF Shapes, TempsOnly
<1>6. Distinct' /\ Kept' /\ Unmade'
  BY <1>1, <1>2, <1>3, <1>4, FilesStay
<1>7. Made'
  BY <1>1, <1>2, <1>3, <1>4, MadeStays
<1>8. Stage' /\ Chain' /\ Program'
  BY <1>1, <1>2, <1>3 DEF Good, Stage, Chain, Program
<1>9. Tidy'
  <2>1. \A t \in Temps : t # "crtmp" => disk'[Temp(t)] = disk[Temp(t)]
    BY <1>1, <1>2, NamesDiffer DEF Temps, Shapes
  <2>2. disk'[Temp("crtmp")] # disk[Temp("crtmp")] => "xref" \in on
    BY <1>1
  <2> QED
    BY <1>1, <1>2, <2>1, <2>2 DEF Good, Tidy, Temp, Temps
<1>10. Wired'
  BY <1>1, <1>2, <1>3 DEF Good, Wired
<1> QED
  BY <1>1, <1>2, <1>5, <1>6, <1>7, <1>8, <1>9, <1>10 DEF IInv, Good

LEMMA NextSourceHolds ==
  ASSUME IInv, NextSource
  PROVE  IInv'
<1> DEFINE s == c_as[i]
<1>1. /\ pc = "next" /\ i <= Len(c_as)
      /\ UNCHANGED <<command, ok, nerrs, disk, fd, stdin, longs, status>>
  BY DEF NextSource
<1>2. /\ UNCHANGED <<nargs, on, lists, c_as, objs, nfiles, outfile, single>>
      /\ Good /\ Shapes /\ status = 0 /\ job = NoJob /\ ~Running /\ ~Taken
      /\ i \in 1..Len(c_as) /\ Len(c_as) \in Nat /\ nerrs \in Nat
      /\ s \in Bases \X {"c", "as"} /\ s \in ToSet(c_as) /\ job.out = {}
  BY <1>1, IdleIs, Sources DEF command
<1>3. TempsOnly
  BY <1>1, <1>2 DEF TempsOnly, Shapes
<1>4. CASE s[2] = "as" /\ "keepas" \in on
  <2>1. i' = i + 1 /\ UNCHANGED <<job, pc>>
    BY <1>1, <1>4 DEF NextSource
  <2>2. ~Running' /\ ~Taken' /\ After' = After /\ ~After
    BY <1>1, <1>2, <2>1 DEF Running, Taken, After
  <2>3. i' \in 1..(Len(c_as) + 1) /\ i' > i
    BY <1>2, <2>1
  <2>4. Shapes'
    BY <1>1, <1>2, <2>1, <2>3 DEF Shapes
  <2>5. Distinct' /\ Kept' /\ Unmade'
    BY <1>1, <1>2, <1>3, <2>1, <2>2, <2>3, FilesStay
  <2>6. Made'
    <3>1. \A j \in 1..Len(c_as) : nerrs' = 0 /\ i <= j /\ j < i' /\ c_as[j] \in Worked => Fresh(c_as[j])
      BY <1>2, <1>4, <2>1 DEF Worked
    <3> QED
      BY <1>1, <1>2, <1>3, <2>1, <2>2, <2>3, <3>1, MadeStays
  <2>7. Stage' /\ Chain' /\ Program'
    BY <1>1, <1>2, <2>1, <2>2 DEF Good, Stage, Chain, Program
  <2>8. Tidy' /\ Wired'
    BY <1>1, <1>2, <2>1, <2>2 DEF Good, Tidy, Wired, Temp
  <2> QED
    BY <1>1, <1>2, <2>1, <2>4, <2>5, <2>6, <2>7, <2>8 DEF IInv, Good
<1>5. CASE s[2] = "c" \/ "keepas" \notin on
  <2>1. /\ pc' = "exec" /\ i' = i
        /\ job' = IF s[2] = "c" THEN Cpp(s) ELSE Zas(s, s)
    BY <1>1, <1>2, <1>5 DEF NextSource, Run
  <2>2. /\ job'.in = {s} /\ job'.pass = (IF s[2] = "c" THEN "cpp" ELSE "zas")
        /\ job' \in Stages(s)
    BY <1>2, <1>5, <2>1 DEF Cpp, Zas, Job, Stages
  <2>3. Compiles' /\ Running' /\ ~After' /\ ~After /\ ~Taken'
    <3>1. Stages(s)' = Stages(s)
      BY <1>2, <2>1 DEF Stages, Zas, Cpp, P1, Cgen, Optim, Job, Optimizes, LeavesAs,
                    Object, Assembler, Optimized, Unoptimized, Temp
    <3>2. Compiles' /\ Running'
      BY <1>1, <1>2, <2>1, <2>2, <3>1 DEF Compiles, Running
    <3> QED
      BY <1>1, <1>2, <2>1, <3>2 DEF After, Crossing, Compiles, Taken
  <2>4. Shapes'
    BY <1>1, <1>2, <2>1 DEF Shapes
  <2>5. Distinct' /\ Kept' /\ Unmade'
    BY <1>1, <1>2, <1>3, <2>1, <2>3, FilesStay
  <2>6. Made'
    BY <1>1, <1>2, <1>3, <2>1, <2>3, MadeStays
  <2>7. Stage'
    BY <1>1, <1>2, <2>1, <2>3 DEF Good, Stage
  <2>8. Chain'
    <3>1. disk[s] = [from |-> {s}, by |-> <<>>]
      BY <1>2 DEF Good, Kept, Given
    <3>2. Before(s)' = <<>>
      BY <1>2, <2>1, <2>2 DEF Before
    <3> QED
      BY <1>1, <1>2, <2>1, <2>2, <3>1, <3>2 DEF Chain
  <2>9. Program'
    <3>1. job' # Link' /\ job' # Objtohex'
      <4>1. Link'.pass = "link" /\ Objtohex'.pass = "objtohex"
        BY DEF Link, Objtohex, Job
      <4> QED
        BY <2>2, <4>1
    <3> QED
      BY <2>3, <3>1 DEF Program
  <2>10. Tidy'
    <3>1. job'.pass \notin {"link", "objtohex", "cref"}
      BY <2>2
    <3> QED
      BY <1>1, <1>2, <2>1, <3>1 DEF Good, Tidy, Temp
  <2>11. Wired'
    BY <1>1, <1>2, <2>3 DEF Good, Wired
  <2> QED
    BY <1>1, <1>2, <2>1, <2>4, <2>5, <2>6, <2>7, <2>8, <2>9, <2>10, <2>11 DEF IInv, Good
<1> QED
  BY <1>2, <1>4, <1>5

(* What is linked: the sources, and the objects that were given.           *)
LEMMA LinkStarts ==
  ASSUME IInv, pc \in {"next", "addresses"}, i > Len(c_as), nerrs = 0, "keep" \notin on,
         job' = Link, pc' = "exec", TempsOnly, \A t \in {"l_dot_obj", "crtmp", "redname"} :
                                                 disk'[Temp(t)] = disk[Temp(t)],
         \A t \in {"tmpf1", "tmpf2", "tmpf3"} : disk'[Temp(t)] = Gone,
         UNCHANGED <<command, i, ok, nerrs, fd, stdin, longs, status>>
  PROVE  IInv'
<1>1. /\ UNCHANGED <<nargs, on, lists, c_as, objs, nfiles, outfile, single>>
      /\ Good /\ Shapes /\ status = 0 /\ job = NoJob /\ ~Running /\ ~Taken
      /\ i \in 1..(Len(c_as) + 1) /\ Len(c_as) \in Nat /\ nerrs \in Nat /\ job.out = {}
      /\ job.pass \notin {"link", "objtohex", "cref"}
  BY IdleIs DEF command
<1>2. Link' = Link /\ Link.pass = "link" /\ Link # Objtohex' /\ Link # Cref'
  BY <1>1 DEF Link, Objtohex, Cref, Job, Temp
<1>3. Linking' /\ ~Compiles' /\ ~Crossing' /\ Running' /\ ~After /\ ~After' /\ ~Taken'
  BY <1>1, <1>2 DEF Linking, Compiles, Crossing, Running, After, Taken
<1>4. Shapes'
  BY <1>1 DEF Shapes, TempsOnly
<1>5. Distinct' /\ Kept' /\ Unmade'
  BY <1>1, <1>3, FilesStay
<1>6. Made'
  BY <1>1, <1>3, MadeStays
<1>7. Stage' /\ Chain' /\ Program'
  BY <1>1, <1>2, <1>3 DEF Good, Stage, Chain, Program
<1>8. Tidy'
  BY <1>1, <1>3 DEF Good, Tidy, Temp, Temps
<1>9. Wired'
  BY <1>1, <1>3 DEF Good, Wired
<1> QED
  BY <1>1, <1>4, <1>5, <1>6, <1>7, <1>8, <1>9 DEF IInv, Good

LEMMA AfterSourcesHolds ==
  ASSUME IInv, AfterSources
  PROVE  IInv'
<1>1. /\ pc = "next" /\ i > Len(c_as) /\ disk' = Without(disk, Intermediate)
      /\ UNCHANGED <<command, i, ok, nerrs, fd, stdin, longs, status>>
  BY DEF AfterSources, RemoveTemps
<1>2. /\ UNCHANGED <<nargs, on, lists, c_as, objs, nfiles, outfile, single>>
      /\ Good /\ Shapes /\ status = 0 /\ job = NoJob /\ ~Running /\ ~Taken
      /\ i \in 1..(Len(c_as) + 1) /\ Len(c_as) \in Nat /\ nerrs \in Nat /\ job.out = {}
      /\ job.pass \notin {"link", "objtohex", "cref"}
  BY <1>1, IdleIs DEF command
<1>3. /\ disk' = [f \in FileNames |-> IF f \in Intermediate THEN Gone ELSE disk[f]]
      /\ Intermediate = {Temp("tmpf1"), Temp("tmpf2"), Temp("tmpf3")}
  BY <1>1, <1>2 DEF Shapes, Without, Intermediate
<1>4. /\ TempsOnly
      /\ \A t \in {"l_dot_obj", "crtmp", "redname"} : disk'[Temp(t)] = disk[Temp(t)]
      /\ \A t \in {"tmpf1", "tmpf2", "tmpf3"} : disk'[Temp(t)] = Gone
  <2>1. \A t \in {"l_dot_obj", "crtmp", "redname"} : Temp(t) \in FileNames /\ Temp(t) \notin Intermediate
    BY <1>3, NamesDiffer DEF Temps
  <2>2. \A t \in {"tmpf1", "tmpf2", "tmpf3"} : Temp(t) \in FileNames /\ Temp(t) \in Intermediate
    BY <1>3, NamesDiffer DEF Temps
  <2>3. \A f \in Intermediate : f[2] = "tmp"
    BY <1>3 DEF Temp
  <2> QED
    BY <1>3, <2>1, <2>2, <2>3 DEF TempsOnly
<1>5. CASE Links /\ {"cpm", "addresses"} \cap on # {}
  <2>1. job' = Link /\ pc' = "exec" /\ nerrs = 0 /\ "keep" \notin on
    BY <1>5 DEF AfterSources, Links, Run
  <2> QED
    BY <1>1, <1>4, <2>1, LinkStarts
<1>6. CASE ~(Links /\ {"cpm", "addresses"} \cap on # {})
  <2>1. /\ pc' \in {"cref", "addresses"} /\ UNCHANGED job
        /\ pc' = "addresses" => nerrs = 0 /\ "keep" \notin on
        /\ pc' = "cref" => ~(nerrs = 0 /\ "keep" \notin on)
    BY <1>6 DEF AfterSources, Links
  <2>2. ~Running' /\ ~Taken' /\ ~After
    BY <1>1, <1>2, <2>1 DEF Running, Taken, After
  <2>3. Shapes'
    BY <1>1, <1>2, <1>4, <2>1 DEF Shapes, TempsOnly
  <2>4. Distinct' /\ Kept' /\ Unmade'
    BY <1>1, <1>2, <1>4, <2>1, <2>2, FilesStay
  <2>5. Made'
    BY <1>1, <1>2, <1>4, <2>1, <2>2, MadeStays
  <2>6. Stage' /\ Chain'
    BY <1>1, <1>2, <2>1, <2>2 DEF Good, Stage, Chain
  <2>7. Program'
    <3>1. After' => ~(nerrs = 0 /\ "keep" \notin on)
      BY <1>1, <2>1, <2>2 DEF After
    <3> QED
      BY <1>1, <1>2, <2>2, <3>1 DEF Program
  <2>8. Tidy'
    BY <1>1, <1>2, <1>4, <2>1 DEF Good, Tidy, Temp, Temps
  <2>9. Wired'
    BY <1>1, <1>2, <2>2 DEF Good, Wired
  <2> QED
    BY <1>1, <1>2, <2>1, <2>3, <2>4, <2>5, <2>6, <2>7, <2>8, <2>9 DEF IInv, Good
<1> QED
  BY <1>5, <1>6

LEMMA GetAddressesHolds ==
  ASSUME IInv, GetAddresses
  PROVE  IInv'
<1>1. /\ pc = "addresses" /\ job' = Link /\ pc' = "exec"
      /\ UNCHANGED <<command, i, ok, nerrs, disk, fd, stdin, longs, status>>
  BY DEF GetAddresses, Run
<1>2. Good /\ Shapes /\ job.pass \notin {"link", "objtohex", "cref"}
  BY <1>1, IdleIs
<1>3. i > Len(c_as) /\ nerrs = 0 /\ "keep" \notin on
  BY <1>1, <1>2 DEF Good, Stage
<1>4. TempsOnly /\ \A t \in {"tmpf1", "tmpf2", "tmpf3"} : disk'[Temp(t)] = Gone
  BY <1>1, <1>2 DEF Good, Tidy, Temps, TempsOnly, Shapes
<1> QED
  BY <1>1, <1>3, <1>4, LinkStarts

LEMMA CrossReferenceHolds ==
  ASSUME IInv, CrossReference
  PROVE  IInv'
<1>1. pc = "cref" /\ UNCHANGED <<command, i, ok, nerrs, disk, fd, stdin, longs>>
  BY DEF CrossReference
<1>2. /\ UNCHANGED <<nargs, on, lists, c_as, objs, nfiles, outfile, single>>
      /\ Good /\ Shapes /\ status = 0 /\ job = NoJob /\ ~Running /\ ~Taken
      /\ i \in 1..(Len(c_as) + 1) /\ Len(c_as) \in Nat /\ nerrs \in Nat /\ job.out = {}
      /\ i > Len(c_as) /\ After
  BY <1>1, IdleIs DEF command, Good, Stage, After
<1>3. \/ {"xref", "xrname"} \subseteq on /\ job' = Cref /\ pc' = "exec" /\ UNCHANGED status
      \/ /\ ~({"xref", "xrname"} \subseteq on) /\ pc' = "ended"
         /\ status' = (IF nerrs # 0 THEN 1 ELSE 0) /\ UNCHANGED job
  BY DEF CrossReference, Run
<1>4. Cref' = Cref /\ Cref.pass = "cref" /\ Cref # Link' /\ Cref # Objtohex'
  BY DEF Link, Objtohex, Cref, Job, Temp
<1>5. ~Compiles' /\ After' /\ ~Taken' /\ (Running' => Crossing' /\ job' = Cref) /\ status' \in 0..1
  BY <1>1, <1>2, <1>3, <1>4 DEF Compiles, Crossing, Running, After, Taken
<1>6. TempsOnly
  BY <1>1, <1>2 DEF TempsOnly, Shapes
<1>7. Shapes'
  BY <1>1, <1>2, <1>3, <1>5 DEF Shapes
<1>8. Distinct' /\ Kept' /\ Unmade'
  BY <1>1, <1>2, <1>3, <1>5, <1>6, FilesStay
<1>9. Made'
  BY <1>1, <1>2, <1>3, <1>5, <1>6, MadeStays
<1>10. Stage' /\ Chain'
  BY <1>1, <1>2, <1>3, <1>4, <1>5 DEF Good, Stage, Chain, Running
<1>11. Program'
  <2>1. LinkedFrom' = LinkedFrom
    BY <1>2 DEF LinkedFrom, Object
  <2> QED
    BY <1>1, <1>2, <1>4, <1>5, <2>1 DEF Good, Program
<1>12. Tidy'
  BY <1>1, <1>2, <1>3 DEF Good, Tidy, Temp
<1>13. Wired'
  BY <1>1, <1>2, <1>5 DEF Good, Wired
<1> QED
  BY <1>5, <1>7, <1>8, <1>9, <1>10, <1>11, <1>12, <1>13 DEF IInv, Good

-----------------------------------------------------------------------------
(* A pass that ran.                                                        *)

(* The passes that went over a file, one by one.                           *)
LEMMA Appended ==
  /\ \A a : Append(<<>>, a) = <<a>>
  /\ \A a, b : Append(<<a>>, b) = <<a, b>>
  /\ \A a, b, c : Append(<<a, b>>, c) = <<a, b, c>>
  /\ \A a, b, c, d : Append(<<a, b, c>>, d) = <<a, b, c, d>>
  /\ \A a, b, c, d, e : Append(<<a, b, c, d>>, e) = <<a, b, c, d, e>>
<1>1. ASSUME NEW a PROVE Append(<<>>, a) = <<a>>
  <2> DEFINE S == {a}
  <2>1. <<>> \in Seq(S) /\ <<a>> \in Seq(S) /\ Append(<<>>, a) \in Seq(S)
    OBVIOUS
  <2>2. Len(<<>>) = 0 /\ Len(<<a>>) = 1 /\ Len(Append(<<>>, a)) = 1
    OBVIOUS
  <2>3. \A j \in 1..1 : Append(<<>>, a)[j] = <<a>>[j]
    BY <2>2
  <2> HIDE DEF S
  <2> QED
    BY <2>1, <2>2, <2>3, SeqEqual
<1>2. ASSUME NEW a, NEW b PROVE Append(<<a>>, b) = <<a, b>>
  <2> DEFINE S == {a, b}
  <2>1. <<a>> \in Seq(S) /\ <<a, b>> \in Seq(S) /\ Append(<<a>>, b) \in Seq(S)
    OBVIOUS
  <2>2. Len(<<a>>) = 1 /\ Len(<<a, b>>) = 2 /\ Len(Append(<<a>>, b)) = 2
    OBVIOUS
  <2>3. \A j \in 1..2 : Append(<<a>>, b)[j] = <<a, b>>[j]
    BY <2>2
  <2> HIDE DEF S
  <2> QED
    BY <2>1, <2>2, <2>3, SeqEqual
<1>3. ASSUME NEW a, NEW b, NEW c PROVE Append(<<a, b>>, c) = <<a, b, c>>
  <2> DEFINE S == {a, b, c}
  <2>1. <<a, b>> \in Seq(S) /\ <<a, b, c>> \in Seq(S) /\ Append(<<a, b>>, c) \in Seq(S)
    OBVIOUS
  <2>2. Len(<<a, b>>) = 2 /\ Len(<<a, b, c>>) = 3 /\ Len(Append(<<a, b>>, c)) = 3
    OBVIOUS
  <2>3. \A j \in 1..3 : Append(<<a, b>>, c)[j] = <<a, b, c>>[j]
    BY <2>2
  <2> HIDE DEF S
  <2> QED
    BY <2>1, <2>2, <2>3, SeqEqual
<1>4. ASSUME NEW a, NEW b, NEW c, NEW d PROVE Append(<<a, b, c>>, d) = <<a, b, c, d>>
  <2> DEFINE S == {a, b, c, d}
  <2>1. <<a, b, c>> \in Seq(S) /\ <<a, b, c, d>> \in Seq(S) /\ Append(<<a, b, c>>, d) \in Seq(S)
    OBVIOUS
  <2>2. Len(<<a, b, c>>) = 3 /\ Len(<<a, b, c, d>>) = 4 /\ Len(Append(<<a, b, c>>, d)) = 4
    OBVIOUS
  <2>3. \A j \in 1..4 : Append(<<a, b, c>>, d)[j] = <<a, b, c, d>>[j]
    BY <2>2
  <2> HIDE DEF S
  <2> QED
    BY <2>1, <2>2, <2>3, SeqEqual
<1>5. ASSUME NEW a, NEW b, NEW c, NEW d, NEW e PROVE Append(<<a, b, c, d>>, e) = <<a, b, c, d, e>>
  <2> DEFINE S == {a, b, c, d, e}
  <2>1. <<a, b, c, d>> \in Seq(S) /\ <<a, b, c, d, e>> \in Seq(S) /\ Append(<<a, b, c, d>>, e) \in Seq(S)
    OBVIOUS
  <2>2. Len(<<a, b, c, d>>) = 4 /\ Len(<<a, b, c, d, e>>) = 5 /\ Len(Append(<<a, b, c, d>>, e)) = 5
    OBVIOUS
  <2>3. \A j \in 1..5 : Append(<<a, b, c, d>>, e)[j] = <<a, b, c, d, e>>[j]
    BY <2>2
  <2> HIDE DEF S
  <2> QED
    BY <2>1, <2>2, <2>3, SeqEqual
<1> QED
  BY <1>1, <1>2, <1>3, <1>4, <1>5

(* A pass that reads one file adds itself to what that one went through.   *)
LEMMA ResultIs ==
  ASSUME NEW x, NEW S, NEW p, job.in = {x}, job.pass # "link", disk[x] = [from |-> S, by |-> p]
  PROVE  Result = [from |-> S, by |-> Append(p, job.pass)]
<1>1. Cardinality(job.in) = 1
  BY FS_Singleton
<1>2. (CHOOSE f \in job.in : TRUE) = x
  OBVIOUS
<1>3. UNION {disk[f].from : f \in job.in} = S
  OBVIOUS
<1>4. disk[CHOOSE f \in job.in : TRUE].by = p
  BY <1>2
<1>5. Result.from = S /\ Result.by = Append(p, job.pass) /\ Result = [from |-> Result.from, by |-> Result.by]
  BY <1>1, <1>3, <1>4, Zenon DEF Result
<1> QED
  BY <1>5

(* What the linker makes of the objects when nothing has failed.           *)
LEMMA LinkResult ==
  ASSUME IInv, pc = "spawn", job = Link, Linking
  PROVE  Result = [from |-> LinkedFrom, by |-> <<"link">>]
<1>1. /\ Good /\ Shapes /\ nerrs = 0 /\ "keep" \notin on /\ "keepas" \notin on /\ i > Len(c_as)
      /\ ~After /\ job.in = ToSet(objs) /\ job.pass = "link"
  BY JobsAre DEF Running, Linking, Shapes, After, Link, Job
<1>2. ASSUME NEW s \in ToSet(c_as) PROVE disk[Object(s)].from = {s} /\ Object(s) \in ToSet(objs)
  <2>1. PICK j \in 1..Len(c_as) : s = c_as[j]
    BY <1>1, Sources
  <2>2. c_as[j] \in Worked /\ j < i
    BY <1>1, <2>1, Sources DEF Worked, Shapes
  <2>3. Fresh(s) /\ Product(s) = Object(s)
    BY <1>1, <2>1, <2>2 DEF Good, Made, Product
  <2> QED
    BY <1>1, <2>3 DEF Fresh, Good, Distinct
<1>3. ASSUME NEW o \in ToSet(objs), \A s \in ToSet(c_as) : Object(s) # o PROVE disk[o].from = {o}
  <2>1. disk[o] = Given(o)
    BY <1>1, <1>3 DEF Good, Kept
  <2> QED
    BY <2>1 DEF Given
<1>4. UNION {disk[f].from : f \in ToSet(objs)} = LinkedFrom
  <2>1. ASSUME NEW o \in ToSet(objs) PROVE disk[o].from \subseteq LinkedFrom
    <3>1. CASE \E s \in ToSet(c_as) : Object(s) = o
      BY <1>2, <3>1 DEF LinkedFrom
    <3>2. CASE \A s \in ToSet(c_as) : Object(s) # o
      BY <1>3, <2>1, <3>2 DEF LinkedFrom
    <3> QED
      BY <3>1, <3>2
  <2>2. ASSUME NEW x \in LinkedFrom PROVE \E f \in ToSet(objs) : x \in disk[f].from
    <3>1. CASE x \in ToSet(c_as)
      BY <1>2, <3>1
    <3>2. CASE x \in ToSet(objs) /\ \A s \in ToSet(c_as) : Object(s) # x
      BY <1>3, <3>2
    <3> QED
      BY <2>2, <3>1, <3>2 DEF LinkedFrom
  <2> QED
    BY <2>1, <2>2
<1> QED
  BY <1>1, <1>4 DEF Result

(* What a pass may write.                                                  *)
LEMMA Writes ==
  ASSUME IInv, Running, NEW f \in job.out
  PROVE  /\ f \in FileNames
         /\ \/ Compiles /\ f \in Intermediate /\ f[2] = "tmp"
            \/ /\ Compiles /\ f = Product(c_as[i]) /\ f[2] \in {"as", "obj"}
               /\ (c_as[i][2] = "as" => "keepas" \notin on)
            \/ job = Link /\ f = Temp("l_dot_obj") /\ f[2] = "tmp"
            \/ job = Objtohex /\ f = outfile /\ f[2] \in {"hex", "com", "bin"}
            \/ job = Cref /\ f = <<"name", "crf">> /\ f[2] = "crf"
<1>1. Good /\ Shapes
  BY JobsAre
<1>2. CASE Compiles
  <2> DEFINE s == c_as[i]
  <2>1. s \in Bases \X {"c", "as"} /\ job \in Stages(s)
    BY <1>2, JobsAre DEF Compiles
  <2>2. /\ f \in Intermediate \cup {Product(s)} /\ (s[2] = "as" => "keepas" \notin on)
    BY <2>1, StagesAre DEF Intermediate
  <2>3. \A g \in Intermediate : g \in FileNames /\ g[2] = "tmp"
    BY NamesDiffer DEF Intermediate, Temps
  <2>4. Product(s) \in FileNames /\ Product(s)[2] \in {"as", "obj"}
    BY <2>1, NamesDiffer DEF Product
  <2> QED
    BY <1>2, <2>2, <2>3, <2>4
<1>3. CASE job = Link
  BY <1>3, NamesDiffer DEF Link, Job, Temps
<1>4. CASE job = Objtohex
  <2>1. outfile # NoName
    BY <1>1 DEF Good, Distinct, Running
  <2> QED
    BY <1>1, <1>4, <2>1 DEF Objtohex, Job, Good, Distinct
<1>5. CASE job = Cref
  BY <1>5, NamesDiffer DEF Cref, Job
<1> QED
  BY <1>2, <1>3, <1>4, <1>5, JobsAre

(* A pass ends: it has written its files, or it counts as failed.          *)
LEMMA RanHolds ==
  ASSUME IInv, pc = "spawn", pc' = "back", UNCHANGED <<command, i, job, fd, stdin, longs, status>>,
         disk' = [f \in FileNames |-> disk'[f]], \A f \in FileNames \ job.out : disk'[f] = disk[f],
         nerrs' \in Nat, nerrs' >= nerrs,
         ok' => nerrs' = nerrs /\ \A f \in job.out : disk'[f] = Result,
         ~ok' => nerrs' > 0
  PROVE  IInv'
<1>1. /\ UNCHANGED <<nargs, on, lists, c_as, objs, nfiles, outfile, single>> /\ Running /\ Running'
  BY DEF command, Running
<1>2. /\ Good /\ Shapes /\ status = 0 /\ nerrs \in Nat /\ (nerrs' = 0 => nerrs = 0)
      /\ i \in 1..(Len(c_as) + 1) /\ Len(c_as) \in Nat
  BY <1>1, JobsAre DEF Shapes
<1>3. Long(job.pass)' = Long(job.pass)
  BY <1>1 DEF Long, CppLength, LinkLength
<1>4. Compiles' = Compiles /\ Crossing' = Crossing
  BY <1>1 DEF Compiles, Crossing, Stages, Zas, Cpp, P1, Cgen, Optim, Cref, Job, Optimizes, LeavesAs,
              Object, Assembler, Optimized, Unoptimized, Temp
<1>5. Link' = Link /\ Objtohex' = Objtohex /\ LinkedFrom' = LinkedFrom
  BY <1>1 DEF Link, Objtohex, Job, Temp, LinkedFrom, Object
<1>6. Linking => Linking'
  BY <1>1, <1>2, <1>5 DEF Linking
<1>7. After' = After /\ (After => job = Cref /\ Crossing)
  BY <1>1, <1>4 DEF After, Crossing
<1>8. Compiles => i \in 1..Len(c_as) /\ c_as[i] \in Bases \X {"c", "as"} /\ c_as[i] \in ToSet(c_as)
  BY <1>1, <1>2, JobsAre, Sources
<1>9. ASSUME NEW j \in 1..Len(c_as)
      PROVE  /\ j # i => Object(c_as[j]) \notin job.out /\ Assembler(c_as[j]) \notin job.out
             /\ Product(c_as[j]) \notin job.out
                  => Object(c_as[j]) \notin job.out /\ (c_as[j][2] = "c" => Assembler(c_as[j]) \notin job.out)
  <2>1. c_as[j] \in Bases \X {"c", "as"}
    BY <1>2, Sources
  <2>2. ASSUME NEW f \in job.out, f \in {Object(c_as[j]), Assembler(c_as[j])}
        PROVE  f = Product(c_as[j]) /\ j = i
    <3>1. f[2] \in {"obj", "as"} /\ f[1] = c_as[j][1]
      BY <2>1, <2>2, NamesDiffer
    <3>2. Compiles /\ f = Product(c_as[i])
      BY <1>1, <3>1, Writes
    <3>3. f[1] = c_as[i][1]
      BY <1>8, <3>2, Products
    <3>4. j = i
      BY <1>2, <1>8, <3>1, <3>2, <3>3 DEF Good, Distinct
    <3> QED
      BY <3>2, <3>4
  <2> QED
    BY <2>2
<1>10. Shapes'
  BY <1>1, <1>2 DEF Shapes
<1>11. Distinct'
  BY <1>1, <1>2 DEF Good, Distinct, Object
<1>12. Kept'
  <2>1. ASSUME NEW s \in ToSet(c_as) PROVE disk'[s] = Given(s)
    <3>1. s \in FileNames /\ s[2] \in {"c", "as"} /\ s \in Bases \X {"c", "as"}
      BY <1>2, Sources, NamesDiffer
    <3>2. s \notin job.out
      <4>1. SUFFICES ASSUME s \in job.out PROVE FALSE
        OBVIOUS
      <4>2. Compiles /\ s = Product(c_as[i]) /\ (c_as[i][2] = "as" => "keepas" \notin on)
        BY <1>1, <3>1, <4>1, Writes
      <4>3. s[1] = c_as[i][1]
        BY <1>8, <4>2, Products
      <4>4. PICK j \in 1..Len(c_as) : s = c_as[j]
        BY <1>2, Sources
      <4>5. s = c_as[i]
        BY <1>2, <1>8, <4>2, <4>3, <4>4 DEF Good, Distinct
      <4>6. "keepas" \notin on \/ s[2] = "c"
        BY <3>1, <4>2, <4>5
      <4> QED
        BY <3>1, <4>2, <4>5, <4>6, NamesDiffer DEF Product
    <3> QED
      BY <1>2, <3>1, <3>2 DEF Good, Kept
  <2>2. ASSUME NEW o \in ToSet(objs), \A s \in ToSet(c_as) : Object(s) # o PROVE disk'[o] = disk[o]
    <3>1. o \in FileNames /\ o[2] = "obj"
      BY <1>2, Sources, NamesDiffer
    <3>2. o \notin job.out
      <4>1. SUFFICES ASSUME o \in job.out PROVE FALSE
        OBVIOUS
      <4>2. Compiles /\ o = Product(c_as[i])
        BY <1>1, <3>1, <4>1, Writes
      <4> QED
        BY <1>8, <2>2, <3>1, <4>2, NamesDiffer DEF Product
    <3> QED
      BY <3>1, <3>2
  <2> QED
    BY <1>1, <1>2, <1>7, <2>1, <2>2 DEF Good, Kept, Given, Object
<1>13. Unmade'
  <2>1. ASSUME NEW j \in 1..Len(c_as), j > i \/ (j = i /\ Product(c_as[j]) \notin job.out)
        PROVE  disk'[Object(c_as[j])] = Old /\ (c_as[j][2] = "c" => disk'[Assembler(c_as[j])] = Gone)
    <3>1. disk[Object(c_as[j])] = Old /\ (c_as[j][2] = "c" => disk[Assembler(c_as[j])] = Gone)
      BY <1>2, <2>1 DEF Good, Unmade
    <3>2. Object(c_as[j]) \in FileNames /\ Assembler(c_as[j]) \in FileNames
      BY <1>2, Sources, Products
    <3>3. Object(c_as[j]) \notin job.out /\ (c_as[j][2] = "c" => Assembler(c_as[j]) \notin job.out)
      BY <1>2, <1>9, <2>1
    <3> QED
      BY <3>1, <3>2, <3>3
  <2>2. \A j \in 1..Len(c_as) : Product(c_as[j])' = Product(c_as[j])
    BY <1>1 DEF Product, Object, Assembler
  <2> QED
    BY <1>1, <2>1, <2>2 DEF Unmade, Object, Assembler
<1>14. Made'
  <2>1. Worked' = Worked
    BY <1>1 DEF Worked
  <2>2. ASSUME NEW j \in 1..Len(c_as), j < i PROVE Fresh(c_as[j])' = Fresh(c_as[j])
    <3>1. Product(c_as[j]) \in FileNames \ job.out
      BY <1>2, <1>9, <2>2, Sources, Products DEF Product
    <3> QED
      BY <1>1, <1>2, <3>1, Sources, FreshStays
  <2> QED
    BY <1>1, <1>2, <1>7, <2>1, <2>2 DEF Good, Made
<1>15. Stage'
  BY <1>1, <1>2, <1>4, <1>6 DEF Good, Stage, Running
<1>16. Chain'
  <2>1. SUFFICES ASSUME Compiles, ok', NEW f \in job.out
                 PROVE  disk'[f] = [from |-> {c_as[i]}, by |-> Append(Before(c_as[i]), job.pass)]
    BY <1>1, <1>4 DEF Chain, Before, Optimizes
  <2>2. \A x \in job.in : disk[x] = [from |-> {c_as[i]}, by |-> Before(c_as[i])]
    BY <1>1, <1>2, <2>1 DEF Good, Chain
  <2>3. job.pass # "link" /\ (\E x : job.in = {x})
    <3>1. job \in Stages(c_as[i]) /\ c_as[i] \in Bases \X {"c", "as"}
      BY <1>8, <2>1 DEF Compiles
    <3> QED
      BY <3>1, StagesAre
  <2>4. PICK x : job.in = {x}
    BY <2>3
  <2>5. PICK S, p : S = {c_as[i]} /\ p = Before(c_as[i])
    OBVIOUS
  <2>6. job.in = {x} /\ job.pass # "link" /\ disk[x] = [from |-> S, by |-> p]
    BY <2>2, <2>3, <2>4, <2>5
  <2>7. Result = [from |-> S, by |-> Append(p, job.pass)]
    BY <2>6, ResultIs
  <2> QED
    BY <2>1, <2>5, <2>7
<1>17. Program'
  <2>1. ASSUME job = Link, ok' PROVE disk'[Temp("l_dot_obj")] = [from |-> LinkedFrom, by |-> <<"link">>]
    <3>1. Temp("l_dot_obj") \in job.out /\ job.pass = "link"
      BY <2>1 DEF Link, Job
    <3>2. Linking
      BY <1>1, <3>1, JobsAre DEF Passing
    <3> QED
      BY <2>1, <3>1, <3>2, LinkResult
  <2>2. ASSUME job = Objtohex, ok' PROVE disk'[outfile] = [from |-> LinkedFrom, by |-> <<"link", "objtohex">>]
    <3>1. outfile \in job.out /\ job.in = {Temp("l_dot_obj")} /\ job.pass = "objtohex"
      BY <2>2 DEF Objtohex, Job
    <3>2. disk[Temp("l_dot_obj")] = [from |-> LinkedFrom, by |-> <<"link">>]
      BY <1>1, <1>2, <2>2 DEF Good, Program
    <3>3. PICK x, S, p : x = Temp("l_dot_obj") /\ S = LinkedFrom /\ p = <<"link">>
      OBVIOUS
    <3>4. job.in = {x} /\ job.pass # "link" /\ disk[x] = [from |-> S, by |-> p]
      BY <3>1, <3>2, <3>3
    <3>5. Result = [from |-> S, by |-> Append(p, job.pass)]
      BY <3>4, ResultIs
    <3>6. Append(<<"link">>, "objtohex") = <<"link", "objtohex">>
      BY Appended
    <3> QED
      BY <2>2, <3>1, <3>3, <3>5, <3>6, Zenon
  <2>3. ASSUME After, nerrs' = 0, "keep" \notin on
        PROVE  disk'[outfile] = [from |-> LinkedFrom, by |-> <<"link", "objtohex">>]
    <3>1. disk[outfile] = [from |-> LinkedFrom, by |-> <<"link", "objtohex">>]
      BY <1>2, <2>3 DEF Good, Program
    <3>2. outfile \in FileNames /\ outfile # <<"name", "crf">>
      BY <1>1, <1>2, NamesDiffer DEF Good, Distinct, Running
    <3>3. job.out = {<<"name", "crf">>}
      BY <1>7, <2>3 DEF Cref, Job
    <3> QED
      BY <3>1, <3>2, <3>3
  <2>4. Link # Objtohex
    BY DEF Link, Objtohex, Job
  <2> QED
    BY <1>1, <1>5, <1>7, <2>1, <2>2, <2>3, <2>4 DEF Program, Temp
<1>18. Tidy'
  <2>1. ASSUME NEW t \in Temps, disk'[Temp(t)] # Gone
        PROVE  \/ t = "redname" /\ Long(job.pass)
               \/ t = "crtmp" /\ "xref" \in on
               \/ t = "l_dot_obj" /\ Linking
               \/ t \in {"tmpf1", "tmpf2", "tmpf3"} /\ job.pass \notin {"link", "objtohex", "cref"}
    <3>1. Temp(t) \in FileNames /\ Temp(t)[2] = "tmp" /\ Temp(t)[1] = t
      BY NamesDiffer
    <3>2. CASE Temp(t) \in job.out
      <4>1. (Compiles /\ Temp(t) \in Intermediate) \/ (job = Link /\ Temp(t) = Temp("l_dot_obj"))
        BY <1>1, <3>1, <3>2, Writes
      <4>2. CASE Compiles /\ Temp(t) \in Intermediate
        <5>1. t \in {"tmpf1", "tmpf2", "tmpf3"}
          BY <3>1, <4>2 DEF Intermediate, Temp
        <5>2. job.pass \in Passing
          BY <1>1, <4>2, JobsAre
        <5> QED
          BY <5>1, <5>2 DEF Passing
      <4>3. CASE job = Link /\ Temp(t) = Temp("l_dot_obj")
        <5>1. t = "l_dot_obj"
          BY <4>3 DEF Temp
        <5>2. job.pass = "link"
          BY <4>3 DEF Link, Job
        <5>3. Linking
          BY <1>1, <5>2, JobsAre DEF Passing
        <5> QED
          BY <5>1, <5>3
      <4> QED
        BY <4>1, <4>2, <4>3
    <3>3. CASE Temp(t) \notin job.out
      <4>1. disk[Temp(t)] # Gone
        BY <2>1, <3>1, <3>3
      <4> QED
        BY <1>2, <4>1 DEF Good, Tidy
    <3> QED
      BY <3>2, <3>3
  <2> QED
    BY <1>1, <1>3, <1>6, <2>1 DEF Tidy, Temp
<1>19. Wired'
  <2>1. Taken' <=> Taken
    BY <1>1, <1>3 DEF Taken
  <2> QED
    BY <1>1, <1>2, <2>1 DEF Good, Wired
<1> QED
  BY <1>1, <1>2, <1>10, <1>11, <1>12, <1>13, <1>14, <1>15, <1>16, <1>17, <1>18, <1>19 DEF IInv, Good

LEMMA SucceedHolds ==
  ASSUME IInv, Succeed
  PROVE  IInv'
<1>1. /\ pc = "spawn" /\ pc' = "back" /\ ok' = TRUE
      /\ disk' = [f \in FileNames |-> IF f \in job.out THEN [g \in job.out |-> Result][f] ELSE disk[f]]
      /\ UNCHANGED <<command, i, job, fd, stdin, longs, status, nerrs>>
  BY DEF Succeed, Ran
<1>2. /\ disk' = [f \in FileNames |-> disk'[f]]
      /\ \A f \in FileNames \ job.out : disk'[f] = disk[f]
      /\ \A f \in FileNames \cap job.out : disk'[f] = Result
  <2>1. PICK r : r = Result
    OBVIOUS
  <2>2. disk' = [f \in FileNames |-> IF f \in job.out THEN [g \in job.out |-> r][f] ELSE disk[f]]
    BY <1>1, <2>1
  <2> QED
    BY <2>1, <2>2
<1>3. Running /\ nerrs \in Nat
  BY <1>1 DEF Running, IInv, Shapes
<1>4. job.out \subseteq FileNames
  BY <1>3, Writes
<1> QED
  BY <1>1, <1>2, <1>3, <1>4, RanHolds

LEMMA FailHolds ==
  ASSUME IInv, Fail
  PROVE  IInv'
<1>1. PICK left : Ran(FALSE, left)
  BY DEF Fail
<1>2. /\ pc = "spawn" /\ pc' = "back" /\ ok' = FALSE /\ nerrs' = nerrs + 1
      /\ disk' = [f \in FileNames |-> IF f \in job.out THEN left[f] ELSE disk[f]]
      /\ UNCHANGED <<command, i, job, fd, stdin, longs, status>>
  BY <1>1 DEF Fail, Ran
<1>3. /\ disk' = [f \in FileNames |-> disk'[f]]
      /\ \A f \in FileNames \ job.out : disk'[f] = disk[f]
  BY <1>2
<1>4. nerrs \in Nat
  BY DEF IInv, Shapes
<1>5. nerrs' \in Nat /\ nerrs' >= nerrs /\ nerrs' > 0
  BY <1>2, <1>4
<1> QED
  BY <1>2, <1>3, <1>5, RanHolds

-----------------------------------------------------------------------------
(* What doexec() was called for goes on.                                   *)

(* The passes a source goes through.                                       *)
LEMMA PassesAre ==
  ASSUME NEW s, s[2] = "as" => "keepas" \notin on
  PROVE  LET done == IF s[2] = "as" THEN <<>>
                     ELSE IF Optimizes THEN <<"cpp", "p1", "cgen", "optim">> ELSE <<"cpp", "p1", "cgen">>
         IN  Passes(s) = IF "keepas" \in on THEN done ELSE Append(done, "zas")
<1> DEFINE done == IF s[2] = "as" THEN <<>>
                   ELSE IF Optimizes THEN <<"cpp", "p1", "cgen", "optim">> ELSE <<"cpp", "p1", "cgen">>
           cc == <<"cpp", "p1", "cgen">> \o (IF Optimizes THEN <<"optim">> ELSE <<>>)
<1>1. /\ <<"cpp", "p1", "cgen">> \in Seq(Passing) /\ <<"cpp", "p1", "cgen", "optim">> \in Seq(Passing)
      /\ <<>> \in Seq(Passing) /\ "optim" \in Passing /\ "zas" \in Passing
  BY DEF Passing
<1>2. cc = IF Optimizes THEN <<"cpp", "p1", "cgen", "optim">> ELSE <<"cpp", "p1", "cgen">>
  <2>1. <<"cpp", "p1", "cgen">> \o <<>> = <<"cpp", "p1", "cgen">>
    BY <1>1, ConcatEmptySeq
  <2>2. <<"cpp", "p1", "cgen">> \o <<"optim">> = Append(<<"cpp", "p1", "cgen">>, "optim")
    BY <1>1, AppendIsConcat
  <2>3. Append(<<"cpp", "p1", "cgen">>, "optim") = <<"cpp", "p1", "cgen", "optim">>
    BY Appended
  <2> QED
    BY <2>1, <2>2, <2>3
<1>3. Passes(s) = done \o (IF "keepas" \in on THEN <<>> ELSE <<"zas">>)
  BY <1>2 DEF Passes
<1>4. done \in Seq(Passing)
  BY <1>1
<1> HIDE DEF done
<1>5. done \o <<>> = done /\ done \o <<"zas">> = Append(done, "zas")
  BY <1>4, ConcatEmptySeq, AppendIsConcat
<1>6. Passes(s) = IF "keepas" \in on THEN done ELSE Append(done, "zas")
  BY <1>3, <1>5
<1> QED
  BY <1>6 DEF done

(* The pass after one that succeeded.                                      *)
LEMMA NextJobIs ==
  ASSUME NEW s \in Bases \X {"c", "as"}, job \in Stages(s), NextJob(s) # NoJob
  PROVE  /\ s[2] = "c" /\ job.out \subseteq Intermediate
         /\ \/ job.pass = "cpp" /\ NextJob(s) = P1
            \/ job.pass = "p1" /\ NextJob(s) = Cgen(s)
            \/ job.pass = "cgen" /\ Optimizes /\ NextJob(s) = Optim(s)
            \/ job.pass = "cgen" /\ ~Optimizes /\ "keepas" \notin on /\ NextJob(s) = Zas(s, Unoptimized)
            \/ job.pass = "optim" /\ Optimizes /\ "keepas" \notin on /\ NextJob(s) = Zas(s, Optimized)
         /\ NextJob(s) \in Stages(s) /\ NextJob(s).in \subseteq job.out /\ NextJob(s).pass \in Passing
<1>1. /\ s[2] = "c" /\ job.out \subseteq Intermediate
      /\ \/ job.pass = "cpp" /\ job.out = {Temp("tmpf1")} /\ NextJob(s) = P1
         \/ job.pass = "p1" /\ job.out = {Temp("tmpf2"), Temp("tmpf3")} /\ NextJob(s) = Cgen(s)
         \/ job.pass = "cgen" /\ Optimizes /\ job.out = {Temp("tmpf1")} /\ NextJob(s) = Optim(s)
         \/ /\ job.pass = "cgen" /\ ~Optimizes /\ "keepas" \notin on /\ job.out = {Temp("tmpf1")}
            /\ NextJob(s) = Zas(s, Unoptimized)
         \/ /\ job.pass = "optim" /\ Optimizes /\ "keepas" \notin on /\ job.out = {Temp("tmpf2")}
            /\ NextJob(s) = Zas(s, Optimized)
  <2>1. \/ s[2] = "c" /\ job.pass = "cpp" /\ job.out = {Temp("tmpf1")}
        \/ s[2] = "c" /\ job.pass = "p1" /\ job.out = {Temp("tmpf2"), Temp("tmpf3")}
        \/ s[2] = "c" /\ job.pass = "cgen" /\ ~LeavesAs /\ job.out = {Temp("tmpf1")}
        \/ s[2] = "c" /\ job.pass = "optim" /\ Optimizes /\ "keepas" \notin on /\ job.out = {Temp("tmpf2")}
    BY StagesAre DEF NextJob
  <2> QED
    BY <2>1 DEF NextJob, LeavesAs, Optimizes, Unoptimized, Intermediate
<1>2. NextJob(s) \in Stages(s) /\ NextJob(s).in \subseteq job.out /\ NextJob(s).pass \in Passing
  <2>1. P1.in = {Temp("tmpf1")} /\ P1.pass = "p1" /\ Cgen(s).in = {Temp("tmpf2")} /\ Cgen(s).pass = "cgen"
    BY DEF P1, Cgen, Job
  <2>2. /\ Optim(s).in = {Temp("tmpf1")} /\ Optim(s).pass = "optim"
        /\ Zas(s, Unoptimized).in = {Temp("tmpf1")} /\ Zas(s, Unoptimized).pass = "zas"
        /\ Zas(s, Optimized).in = {Temp("tmpf2")} /\ Zas(s, Optimized).pass = "zas"
    BY DEF Optim, Zas, Job, Unoptimized, Optimized
  <2>3. NextJob(s) \in Stages(s)
    BY <1>1 DEF Stages
  <2> QED
    BY <1>1, <2>1, <2>2, <2>3 DEF Passing
<1> QED
  BY <1>1, <1>2

(* After the last pass the source has been through all of them.            *)
LEMMA LastJobIs ==
  ASSUME NEW s \in Bases \X {"c", "as"}, job \in Stages(s), NextJob(s) = NoJob
  PROVE  job.out = {Product(s)} /\ Append(Before(s), job.pass) = Passes(s)
<1>1. P1 # NoJob /\ Cgen(s) # NoJob /\ Optim(s) # NoJob /\ \A x : Zas(s, x) # NoJob
  <2>1. P1.pass = "p1" /\ Cgen(s).pass = "cgen" /\ Optim(s).pass = "optim" /\ \A x : Zas(s, x).pass = "zas"
    BY DEF P1, Cgen, Optim, Zas, Job
  <2> QED
    BY <2>1 DEF NoJob
<1>2. \/ /\ s[2] = "c" /\ job.pass = "cgen" /\ LeavesAs /\ job.out = {Product(s)}
      \/ /\ s[2] = "c" /\ Optimizes /\ job.pass = "optim" /\ "keepas" \in on /\ job.out = {Product(s)}
      \/ /\ s[2] = "c" /\ "keepas" \notin on /\ job.pass = "zas" /\ job.out = {Product(s)}
      \/ s[2] = "as" /\ "keepas" \notin on /\ job.pass = "zas" /\ job.out = {Product(s)}
  BY <1>1, StagesAre DEF NextJob
<1>3. s[2] = "as" => "keepas" \notin on
  BY <1>2
<1>4. CASE s[2] = "c" /\ job.pass = "cgen" /\ LeavesAs
  <2>1. "keepas" \in on /\ ~Optimizes /\ Before(s) = <<"cpp", "p1">>
    BY <1>4 DEF LeavesAs, Optimizes, Before
  <2>2. Passes(s) = <<"cpp", "p1", "cgen">>
    BY <1>3, <1>4, <2>1, PassesAre
  <2>3. Append(<<"cpp", "p1">>, "cgen") = <<"cpp", "p1", "cgen">>
    BY Appended
  <2> QED
    BY <1>2, <1>4, <2>1, <2>2, <2>3
<1>5. CASE s[2] = "c" /\ Optimizes /\ job.pass = "optim" /\ "keepas" \in on
  <2>1. Before(s) = <<"cpp", "p1", "cgen">>
    BY <1>5 DEF Before
  <2>2. Passes(s) = <<"cpp", "p1", "cgen", "optim">>
    BY <1>3, <1>5, PassesAre
  <2>3. Append(<<"cpp", "p1", "cgen">>, "optim") = <<"cpp", "p1", "cgen", "optim">>
    BY Appended
  <2> QED
    BY <1>2, <1>5, <2>1, <2>2, <2>3
<1>6. CASE "keepas" \notin on /\ job.pass = "zas"
  <2>1. Before(s) = IF s[2] = "as" THEN <<>>
                    ELSE IF Optimizes THEN <<"cpp", "p1", "cgen", "optim">> ELSE <<"cpp", "p1", "cgen">>
    BY <1>6 DEF Before
  <2>2. Passes(s) = Append(Before(s), "zas")
    BY <1>3, <1>6, <2>1, PassesAre
  <2> QED
    BY <1>2, <1>6, <2>2
<1> QED
  BY <1>2, <1>4, <1>5, <1>6

(* Descriptor 0 is what it was before.                                     *)
LEMMA RestoredWires ==
  ASSUME IInv, pc = "back", fd' = Restored, UNCHANGED <<stdin, longs>>, pc' \notin {"spawn", "ask", "back"}
  PROVE  Wired'
<1>1. Good /\ longs \in Nat /\ (Taken <=> Long(job.pass)) /\ ~Taken'
  BY JobsAre DEF Running, Shapes, Taken
<1>2. fd' = [fd EXCEPT ![0] = IF Taken THEN fd[stdin] ELSE fd[0]]
  BY <1>1 DEF Restored
<1>3. CASE longs = 0
  <2>1. ~Taken /\ stdin = 0 /\ fd = Wiring("console", "free")
    BY <1>1, <1>3 DEF Good, Wired
  <2>2. fd' = [fd EXCEPT ![0] = fd[0]]
    BY <1>2, <2>1
  <2>3. fd' = fd
    BY <2>1, <2>2 DEF Wiring
  <2> QED
    BY <1>1, <1>3, <2>1, <2>3 DEF Wired
<1>4. CASE longs = 1
  <2>1. stdin = 4 /\ fd = Wiring(IF Taken THEN "redname" ELSE "console", "console") /\ 4 \in Fds /\ 0 \in Fds
    BY <1>1, <1>4 DEF Good, Wired, Fds
  <2>2. fd[stdin] = "console" /\ (~Taken => fd[0] = "console")
    BY <2>1 DEF Wiring
  <2>3. fd' = [fd EXCEPT ![0] = "console"]
    BY <1>2, <2>2
  <2>4. fd' = Wiring("console", "console")
    BY <2>1, <2>3 DEF Wiring
  <2> QED
    BY <1>1, <1>4, <2>1, <2>4 DEF Wired
<1> QED
  BY <1>1, <1>3, <1>4 DEF Wired

(* A pass over the source at work: the next one, or the next source.       *)
LEMMA BackCompiles ==
  ASSUME IInv, Back, Compiles
  PROVE  IInv'
<1> DEFINE s == c_as[i]
           goesOn == ok /\ NextJob(s) # NoJob
<1>1. /\ pc = "back" /\ fd' = Restored
      /\ UNCHANGED <<command, ok, nerrs, stdin, longs>>
  BY DEF Back
<1>2. /\ UNCHANGED <<nargs, on, lists, c_as, objs, nfiles, outfile, single>> /\ Running
      /\ Good /\ Shapes /\ status = 0 /\ Len(c_as) \in Nat /\ i \in 1..Len(c_as) /\ nerrs \in Nat
      /\ s \in Bases \X {"c", "as"} /\ s \in ToSet(c_as) /\ job.pass \in Passing /\ ~After
  <2>1. Running /\ UNCHANGED <<nargs, on, lists, c_as, objs, nfiles, outfile, single>>
    BY <1>1 DEF command, Running
  <2>2. Good /\ Shapes /\ status = 0 /\ ~Crossing /\ Len(c_as) \in Nat /\ i \in 1..Len(c_as) /\ job.pass \in Passing
    BY <2>1, JobsAre
  <2> QED
    BY <1>1, <2>1, <2>2, Sources DEF Shapes, After
<1>3. job.pass \notin {"link", "objtohex", "cref"} /\ job \in Stages(s) /\ i <= Len(c_as)
  BY <1>2 DEF Passing, Compiles
<1>4. /\ disk' = Without(disk, Command)
      /\ i' = IF goesOn THEN i ELSE i + 1
      /\ goesOn => Run(NextJob(s)) /\ UNCHANGED status
      /\ ~goesOn => pc' = "next" /\ status' = status /\ job' = NoJob
  BY <1>3 DEF Back
<1>5. /\ disk' = [f \in FileNames |-> IF f \in Command THEN Gone ELSE disk[f]]
      /\ Command \subseteq {Temp("redname")} /\ (Long(job.pass) => Command = {Temp("redname")})
      /\ Temp("redname") \in FileNames /\ Temp("redname")[2] = "tmp"
  BY <1>2, <1>4, NamesDiffer DEF Shapes, Without, Command, Temps
<1>6. /\ TempsOnly /\ \A f \in FileNames : f # Temp("redname") => disk'[f] = disk[f]
      /\ Long(job.pass) => disk'[Temp("redname")] = Gone
      /\ ~Long(job.pass) => disk'[Temp("redname")] = disk[Temp("redname")]
  BY <1>5 DEF TempsOnly, Command
<1>7. \A t \in Temps : /\ disk'[Temp(t)] # Gone => disk[Temp(t)] # Gone /\ t # "redname"
  <2>1. disk'[Temp("redname")] = Gone
    BY <1>1, <1>2, <1>6 DEF Good, Tidy, Temps, Linking
  <2> QED
    BY <1>6, <2>1, NamesDiffer
<1> HIDE DEF s
<1>8. CASE goesOn
  <2>1. pc' = "exec" /\ job' = NextJob(s) /\ i' = i /\ status' = 0 /\ ok
    BY <1>2, <1>4, <1>8 DEF Run
  <2>2. /\ s[2] = "c" /\ job.out \subseteq Intermediate
        /\ NextJob(s) \in Stages(s) /\ NextJob(s).in \subseteq job.out /\ NextJob(s).pass \in Passing
    BY <1>2, <1>3, <1>8, NextJobIs
  <2>3. Stages(s)' = Stages(s)
    <3>1. s' = s
      BY <1>2, <2>1 DEF s
    <3> QED
      BY <1>2, <3>1 DEF Stages, Zas, Cpp, P1, Cgen, Optim, Job, Optimizes, LeavesAs,
                Object, Assembler, Optimized, Unoptimized, Temp
  <2>4. Compiles' /\ Running' /\ ~After' /\ job'.pass \in Passing
    <3>1. Compiles' /\ Running'
      BY <1>2, <1>3, <2>1, <2>2, <2>3 DEF Compiles, Running, s
    <3> QED
      BY <1>2, <1>3, <2>1, <2>2, <3>1 DEF After, Crossing
  <2>5. Shapes'
    BY <1>1, <1>2, <1>6, <2>1 DEF Shapes, TempsOnly
  <2>6. Product(s) \notin job.out
    <3>1. Product(s)[2] # "tmp"
      BY <1>2, Products
    <3> QED
      BY <2>2, <3>1 DEF Intermediate, Temp
  <2>7. Distinct' /\ Kept' /\ Unmade'
    BY <1>1, <1>2, <1>6, <2>1, <2>4, <2>6, FilesStay DEF s
  <2>8. Made'
    BY <1>1, <1>2, <1>6, <2>1, <2>4, MadeStays
  <2>9. Stage'
    BY <1>1, <1>2, <2>1, <2>4 DEF Good, Stage
  <2>10. Chain'
    <3>1. ASSUME NEW f \in NextJob(s).in PROVE disk'[f] = [from |-> {s}, by |-> Append(Before(s), job.pass)]
      <4>1. f \in job.out /\ f \in FileNames /\ f # Temp("redname")
        <5>1. f \in Intermediate
          BY <2>2, <3>1
        <5> QED
          BY <2>2, <3>1, <5>1, NamesDiffer DEF Intermediate, Temps
      <4>2. disk[f] = [from |-> {s}, by |-> Append(Before(s), job.pass)]
        BY <1>1, <1>2, <2>1, <4>1 DEF Good, Chain, s
      <4> QED
        BY <1>6, <4>1, <4>2
    <3>2. Before(s)' = Append(Before(s), job.pass)
      <4>1. s' = s /\ Optimizes' = Optimizes
        BY <1>2, <2>1 DEF s, Optimizes
      <4>2. \/ job.pass = "cpp" /\ job'.pass = "p1"
            \/ job.pass = "p1" /\ job'.pass = "cgen"
            \/ job.pass = "cgen" /\ Optimizes /\ job'.pass = "optim"
            \/ job.pass = "cgen" /\ ~Optimizes /\ job'.pass = "zas"
            \/ job.pass = "optim" /\ Optimizes /\ job'.pass = "zas"
        BY <1>2, <1>3, <1>8, <2>1, NextJobIs DEF P1, Cgen, Optim, Zas, Job
      <4>3. /\ job.pass = "cpp" => Before(s) = <<>> /\ Before(s)' = <<"cpp">>
            /\ job.pass = "p1" => Before(s) = <<"cpp">> /\ Before(s)' = <<"cpp", "p1">>
            /\ job.pass = "cgen" => Before(s) = <<"cpp", "p1">> /\ Before(s)' = <<"cpp", "p1", "cgen">>
            /\ job.pass = "optim" => /\ Before(s) = <<"cpp", "p1", "cgen">>
                                     /\ Before(s)' = <<"cpp", "p1", "cgen", "optim">>
        BY <2>2, <4>1, <4>2 DEF Before
      <4>4. /\ Append(<<>>, "cpp") = <<"cpp">> /\ Append(<<"cpp">>, "p1") = <<"cpp", "p1">>
            /\ Append(<<"cpp", "p1">>, "cgen") = <<"cpp", "p1", "cgen">>
            /\ Append(<<"cpp", "p1", "cgen">>, "optim") = <<"cpp", "p1", "cgen", "optim">>
        BY Appended
      <4>5. CASE job.pass = "cpp"
        BY <4>3, <4>4, <4>5
      <4>6. CASE job.pass = "p1"
        BY <4>3, <4>4, <4>6
      <4>7. CASE job.pass = "cgen"
        BY <4>3, <4>4, <4>7
      <4>8. CASE job.pass = "optim"
        BY <4>3, <4>4, <4>8
      <4> QED
        BY <4>2, <4>5, <4>6, <4>7, <4>8
    <3> QED
      BY <1>2, <2>1, <3>1, <3>2 DEF Chain, s
  <2>11. Program'
    <3>1. Link'.pass = "link" /\ Objtohex'.pass = "objtohex"
      BY DEF Link, Objtohex, Job
    <3> QED
      BY <2>1, <2>4, <3>1 DEF Program, Passing
  <2>12. Tidy'
    <3>1. job'.pass \notin {"link", "objtohex", "cref"}
      BY <2>4 DEF Passing
    <3> QED
      BY <1>1, <1>2, <1>7, <2>1, <3>1 DEF Good, Tidy, Temp, Linking, Compiles
  <2>13. Wired'
    BY <1>1, <2>1, RestoredWires
  <2> QED
    BY <2>1, <2>5, <2>7, <2>8, <2>9, <2>10, <2>11, <2>12, <2>13 DEF IInv, Good
<1>9. CASE ~goesOn
  <2>1. pc' = "next" /\ job' = NoJob /\ i' = i + 1 /\ status' = 0
    BY <1>2, <1>4, <1>9
  <2>2. ~Running' /\ ~After' /\ job'.pass = "none"
    BY <2>1 DEF Running, After, NoJob
  <2>3. Shapes'
    BY <1>1, <1>2, <1>6, <2>1 DEF Shapes, TempsOnly
  <2>4. Distinct' /\ Kept' /\ Unmade'
    BY <1>1, <1>2, <1>6, <2>1, <2>2, FilesStay DEF s
  <2>5. nerrs = 0 => Fresh(s)
    <3>1. SUFFICES ASSUME nerrs = 0 PROVE Fresh(s)
      OBVIOUS
    <3>2. ok
      BY <1>1, <1>2, <3>1 DEF Good, Stage
    <3>3. job.out = {Product(s)} /\ Append(Before(s), job.pass) = Passes(s)
      BY <1>2, <1>3, <1>9, <3>2, LastJobIs
    <3>4. disk[Product(s)] = [from |-> {s}, by |-> Append(Before(s), job.pass)]
      BY <1>1, <1>2, <3>2, <3>3 DEF Good, Chain, s
    <3> QED
      BY <3>3, <3>4 DEF Fresh
  <2>6. Made'
    <3>1. \A j \in 1..Len(c_as) : nerrs' = 0 /\ i <= j /\ j < i' /\ c_as[j] \in Worked => Fresh(c_as[j])
      BY <1>1, <1>2, <2>1, <2>5 DEF s
    <3> QED
      BY <1>1, <1>2, <1>6, <2>1, <2>2, <3>1, MadeStays
  <2>7. Stage' /\ Chain' /\ Program'
    BY <1>1, <1>2, <2>1, <2>2 DEF Good, Stage, Chain, Program
  <2>8. Tidy'
    BY <1>1, <1>2, <1>7, <2>1, <2>2 DEF Good, Tidy, Temp, Linking, Compiles
  <2>9. Wired'
    BY <1>1, <2>1, RestoredWires
  <2> QED
    BY <2>1, <2>3, <2>4, <2>6, <2>7, <2>8, <2>9 DEF IInv, Good
<1> QED
  BY <1>8, <1>9

(* The linker ended: objtohex follows it, or the cross reference.          *)
LEMMA BackLinks ==
  ASSUME IInv, Back, Linking
  PROVE  IInv'
<1> DEFINE s == IF i <= Len(c_as) THEN c_as[i] ELSE NoName
           goesOn == ok /\ NextJob(s) # NoJob
           alone == job.pass = "objtohex" /\ Len(c_as) = 1 /\ nfiles = 1
           removed == {Temp("l_dot_obj")} \cup (IF alone THEN {single} ELSE {})
<1>1. /\ pc = "back" /\ fd' = Restored
      /\ UNCHANGED <<command, ok, nerrs, stdin, longs>>
  BY DEF Back
<1>2. /\ UNCHANGED <<nargs, on, lists, c_as, objs, nfiles, outfile, single>> /\ Running
      /\ Good /\ Shapes /\ status = 0 /\ Len(c_as) \in Nat /\ i \in 1..(Len(c_as) + 1) /\ nerrs \in Nat
      /\ i > Len(c_as) /\ ~After /\ "keep" \notin on /\ ~Compiles
      /\ (job = Link /\ job.pass = "link") \/ (job = Objtohex /\ job.pass = "objtohex")
  <2>1. Running /\ UNCHANGED <<nargs, on, lists, c_as, objs, nfiles, outfile, single>>
    BY <1>1 DEF command, Running
  <2>2. /\ Good /\ Shapes /\ status = 0 /\ ~Crossing /\ Len(c_as) \in Nat /\ i \in 1..(Len(c_as) + 1) /\ ~Compiles
        /\ (job = Link /\ job.pass = "link") \/ (job = Objtohex /\ job.pass = "objtohex")
    BY <2>1, JobsAre
  <2> QED
    BY <1>1, <2>1, <2>2 DEF Shapes, After, Linking
<1>3. job.pass \in {"link", "objtohex"}
  BY <1>2
<1>4. /\ disk' = Without(disk, Command \cup IF goesOn THEN {} ELSE removed) /\ i' = i
      /\ goesOn => Run(NextJob(s)) /\ UNCHANGED status
      /\ ~goesOn => pc' = "cref" /\ status' = status /\ job' = NoJob
  BY <1>3 DEF Back
<1>5. goesOn <=> ok /\ job = Link
  <2>1. /\ job.pass = "link" => NextJob(s) = Objtohex
        /\ job.pass = "objtohex" => NextJob(s) = NoJob
    BY DEF NextJob
  <2>2. Objtohex.pass = "objtohex" /\ NoJob.pass = "none"
    BY DEF Objtohex, Job, NoJob
  <2>3. CASE job = Link /\ job.pass = "link"
    BY <2>1, <2>2, <2>3
  <2>4. CASE job = Objtohex /\ job.pass = "objtohex"
    <3>1. Link.pass = "link"
      BY DEF Link, Job
    <3> QED
      BY <2>1, <2>4, <3>1
  <2> QED
    BY <1>2, <2>3, <2>4
<1>6. /\ disk' = [f \in FileNames |-> IF f \in Command \cup IF goesOn THEN {} ELSE removed
                                      THEN Gone ELSE disk[f]]
      /\ Command \subseteq {Temp("redname")} /\ (Long(job.pass) => Command = {Temp("redname")})
      /\ \A t \in Temps : Temp(t) \in FileNames /\ Temp(t)[2] = "tmp" /\ Temp(t)[1] = t
  BY <1>2, <1>4, NamesDiffer DEF Shapes, Without, Command
<1>7. single[2] \in {"none", "obj"}
  BY <1>2 DEF Good, Distinct
<1> HIDE DEF goesOn, s, alone
<1>8. /\ disk' = [f \in FileNames |-> disk'[f]]
      /\ \A f \in FileNames : f \notin {Temp("redname"), Temp("l_dot_obj"), single} => disk'[f] = disk[f]
      /\ goesOn => \A f \in FileNames : f # Temp("redname") => disk'[f] = disk[f]
      /\ ~alone => \A f \in FileNames : f[2] # "tmp" => disk'[f] = disk[f]
  BY <1>6 DEF removed, Temps
<1>9. \A t \in Temps : /\ disk'[Temp(t)] # Gone => disk[Temp(t)] # Gone /\ t # "redname"
                       /\ ~goesOn => disk'[Temp("l_dot_obj")] = Gone
  <2>1. disk'[Temp("redname")] = Gone
    BY <1>1, <1>2, <1>6 DEF Good, Tidy, Temps, Linking
  <2>2. \A t \in Temps : Temp(t) # single
    BY <1>6, <1>7
  <2> QED
    BY <1>6, <2>1, <2>2 DEF removed, Temps
<1>10. CASE goesOn
  <2>1. pc' = "exec" /\ job' = Objtohex /\ i' = i /\ status' = 0 /\ ok /\ job = Link /\ nerrs = 0
    <3>1. NextJob(s) = Objtohex
      BY <1>2, <1>5, <1>10 DEF NextJob, goesOn
    <3>2. ok /\ nerrs = 0
      BY <1>5, <1>10 DEF Linking
    <3> QED
      BY <1>2, <1>4, <1>5, <1>10, <3>1, <3>2 DEF Run
  <2>2. Objtohex' = Objtohex /\ Objtohex.pass = "objtohex" /\ Objtohex # Link' /\ Objtohex # Cref'
    BY <1>2 DEF Link, Objtohex, Cref, Job, Temp
  <2>3. Linking' /\ ~Compiles' /\ ~Crossing' /\ Running' /\ ~After' /\ ~Taken'
    BY <1>1, <1>2, <2>1, <2>2 DEF Linking, Compiles, Crossing, Running, After, Taken
  <2>4. Shapes'
    BY <1>1, <1>2, <1>8, <2>1 DEF Shapes
  <2>5. TempsOnly
    BY <1>6, <1>8, <1>10 DEF TempsOnly, Temps
  <2>6. \A j \in 1..Len(c_as) : j # i
    BY <1>2
  <2>7. Distinct' /\ Kept' /\ Unmade'
    BY <1>1, <1>2, <2>1, <2>3, <2>5, <2>6, FilesStay
  <2>8. Made'
    BY <1>1, <1>2, <2>1, <2>3, <2>5, MadeStays
  <2>9. Stage' /\ Chain'
    BY <1>1, <1>2, <2>1, <2>2, <2>3 DEF Good, Stage, Chain
  <2>10. Program'
    <3>1. disk[Temp("l_dot_obj")] = [from |-> LinkedFrom, by |-> <<"link">>]
      BY <1>1, <1>2, <2>1 DEF Good, Program
    <3>2. Temp("l_dot_obj") \in FileNames /\ Temp("l_dot_obj") # Temp("redname")
      BY <1>6 DEF Temps
    <3>3. LinkedFrom' = LinkedFrom
      BY <1>2 DEF LinkedFrom, Object
    <3> QED
      BY <1>8, <1>10, <2>1, <2>2, <2>3, <3>1, <3>2, <3>3 DEF Program, Temp
  <2>11. Tidy'
    BY <1>1, <1>2, <1>9, <2>1, <2>3 DEF Good, Tidy, Temp
  <2>12. Wired'
    BY <1>1, <2>1, RestoredWires
  <2> QED
    BY <2>1, <2>4, <2>7, <2>8, <2>9, <2>10, <2>11, <2>12 DEF IInv, Good
<1>11. CASE ~goesOn
  <2>1. pc' = "cref" /\ job' = NoJob /\ i' = i /\ status' = 0
    BY <1>2, <1>4, <1>11
  <2>2. ~Running' /\ After' /\ job'.pass = "none"
    BY <2>1 DEF Running, After, NoJob
  <2>3. Shapes'
    BY <1>1, <1>2, <1>8, <2>1 DEF Shapes
  <2>4. Distinct'
    BY <1>1, <1>2, <2>1 DEF Good, Distinct, Object
  <2>5. Kept'
    <3>1. ASSUME NEW f \in ToSet(c_as) PROVE disk'[f] = Given(f)
      <4>1. f \in FileNames /\ f[2] \in {"c", "as"}
        BY <1>2, Sources, NamesDiffer
      <4>2. f \notin {Temp("redname"), Temp("l_dot_obj"), single}
        BY <1>6, <1>7, <4>1 DEF Temps
      <4> QED
        BY <1>2, <1>8, <4>1, <4>2 DEF Good, Kept
    <3> QED
      BY <1>2, <2>2, <3>1 DEF Kept, Given
  <2>6. Unmade'
    <3>1. \A j \in 1..Len(c_as) : ~(j > i) /\ j # i
      BY <1>2
    <3> QED
      BY <1>2, <2>1, <3>1 DEF Unmade
  <2>7. Made'
    <3>1. CASE alone
      BY <1>2, <2>2, <3>1 DEF Made, alone
    <3>2. CASE ~alone
      <4>1. TempsOnly
        BY <1>8, <3>2 DEF TempsOnly
      <4>2. \A j \in 1..Len(c_as) : ~(i <= j)
        BY <1>2
      <4> QED
        BY <1>1, <1>2, <2>1, <2>2, <4>1, <4>2, MadeStays
    <3> QED
      BY <3>1, <3>2
  <2>8. Stage' /\ Chain'
    BY <1>1, <1>2, <2>1, <2>2 DEF Good, Stage, Chain
  <2>9. Program'
    <3>1. SUFFICES ASSUME nerrs = 0 PROVE disk'[outfile] = [from |-> LinkedFrom, by |-> <<"link", "objtohex">>]
      <4>1. LinkedFrom' = LinkedFrom
        BY <1>2 DEF LinkedFrom, Object
      <4> QED
        BY <1>1, <1>2, <2>2, <4>1 DEF Program
    <3>2. ok /\ job = Objtohex
      BY <1>1, <1>2, <1>5, <1>11, <3>1 DEF Good, Stage
    <3>3. disk[outfile] = [from |-> LinkedFrom, by |-> <<"link", "objtohex">>]
      BY <1>1, <1>2, <3>2 DEF Good, Program
    <3>4. outfile \in FileNames /\ outfile[2] \in {"hex", "com", "bin"}
      BY <1>1, <1>2 DEF Good, Distinct
    <3>5. outfile \notin {Temp("redname"), Temp("l_dot_obj"), single}
      BY <1>6, <1>7, <3>4 DEF Temps
    <3> QED
      BY <1>8, <3>3, <3>4, <3>5
  <2>10. Tidy'
    <3>1. \A t \in Temps : disk'[Temp(t)] # Gone => t = "crtmp" /\ "xref" \in on
      BY <1>1, <1>2, <1>9, <1>11 DEF Good, Tidy
    <3> QED
      BY <1>2, <2>1, <3>1 DEF Tidy, Temp
  <2>11. Wired'
    BY <1>1, <2>1, RestoredWires
  <2> QED
    BY <2>1, <2>3, <2>4, <2>5, <2>6, <2>7, <2>8, <2>9, <2>10, <2>11 DEF IInv, Good
<1> QED
  BY <1>10, <1>11

(* The cross reference is written: the end.                                *)
LEMMA BackCrosses ==
  ASSUME IInv, Back, Crossing
  PROVE  IInv'
<1>1. /\ pc = "back" /\ fd' = Restored
      /\ UNCHANGED <<command, ok, nerrs, stdin, longs>>
  BY DEF Back
<1>2. /\ UNCHANGED <<nargs, on, lists, c_as, objs, nfiles, outfile, single>> /\ Running
      /\ Good /\ Shapes /\ status = 0 /\ Len(c_as) \in Nat /\ i \in 1..(Len(c_as) + 1) /\ nerrs \in Nat
      /\ i > Len(c_as) /\ After /\ job.pass = "cref" /\ ~Linking /\ {"xref", "xrname"} \subseteq on
  <2>1. Running /\ UNCHANGED <<nargs, on, lists, c_as, objs, nfiles, outfile, single>>
    BY <1>1 DEF command, Running
  <2>2. /\ Good /\ Shapes /\ status = 0 /\ Len(c_as) \in Nat /\ i \in 1..(Len(c_as) + 1) /\ ~Linking
        /\ job.pass = "cref"
    BY <2>1, JobsAre
  <2> QED
    BY <1>1, <2>1, <2>2 DEF Shapes, After, Crossing
<1>3. /\ disk' = Without(disk, Command \cup {Temp("crtmp")}) /\ i' = i
      /\ pc' = "ended" /\ job' = NoJob /\ status' = IF nerrs # 0 THEN 1 ELSE status
  <2> DEFINE s == IF i <= Len(c_as) THEN c_as[i] ELSE NoName
  <2>1. NextJob(s) = NoJob
    BY <1>2 DEF NextJob
  <2> DEFINE goesOn == ok /\ NextJob(s) # NoJob
  <2>2. ~goesOn
    BY <2>1
  <2> HIDE DEF goesOn
  <2>3. /\ disk' = Without(disk, Command \cup IF goesOn THEN {} ELSE {Temp("crtmp")}) /\ i' = i
        /\ ~goesOn => pc' = "ended" /\ status' = (IF nerrs # 0 THEN 1 ELSE status) /\ job' = NoJob
    BY <1>2 DEF Back, goesOn
  <2> QED
    BY <2>2, <2>3
<1>4. /\ disk' = [f \in FileNames |-> IF f \in Command \cup {Temp("crtmp")} THEN Gone ELSE disk[f]]
      /\ Command \subseteq {Temp("redname")} /\ (Long(job.pass) => Command = {Temp("redname")})
      /\ \A t \in Temps : Temp(t) \in FileNames /\ Temp(t)[2] = "tmp" /\ Temp(t)[1] = t
  BY <1>2, <1>3, NamesDiffer DEF Shapes, Without, Command
<1>5. TempsOnly
  BY <1>4 DEF TempsOnly, Temps
<1>6. ~Running' /\ After' /\ status' \in 0..1 /\ (status' = 0 <=> nerrs = 0)
  BY <1>2, <1>3 DEF Running, After
<1>7. Shapes'
  <2>1. disk' = [f \in FileNames |-> disk'[f]] /\ status' \in 0..2 /\ pc' = "ended"
    BY <1>3, <1>4, <1>6
  <2> QED
    BY <1>1, <1>2, <1>3, <2>1 DEF Shapes
<1>8. \A j \in 1..Len(c_as) : ~(j >= i)
  BY <1>2
<1>9. Distinct' /\ Kept' /\ Unmade'
  BY <1>1, <1>2, <1>3, <1>5, <1>6, <1>8, FilesStay
<1>10. Made'
  BY <1>1, <1>2, <1>3, <1>5, <1>6, <1>8, MadeStays
<1>11. Stage' /\ Chain'
  BY <1>1, <1>2, <1>3, <1>6 DEF Good, Stage, Chain
<1>12. Program'
  <2>1. LinkedFrom' = LinkedFrom
    BY <1>2 DEF LinkedFrom, Object
  <2>2. disk'[outfile] = disk[outfile]
    BY <1>1, <1>2, <1>5 DEF TempsOnly, Good, Distinct
  <2> QED
    BY <1>1, <1>2, <1>6, <2>1, <2>2 DEF Good, Program
<1>13. Tidy'
  <2>1. \A t \in Temps : disk'[Temp(t)] = Gone
    <3>1. \A t \in Temps : disk[Temp(t)] # Gone => t = "crtmp" \/ (t = "redname" /\ Long(job.pass))
      BY <1>1, <1>2 DEF Good, Tidy
    <3> QED
      BY <1>4, <3>1
  <2> QED
    BY <2>1 DEF Tidy, Temp
<1>14. Wired'
  BY <1>1, <1>3, RestoredWires
<1> QED
  BY <1>6, <1>7, <1>9, <1>10, <1>11, <1>12, <1>13, <1>14 DEF IInv, Good

LEMMA BackHolds ==
  ASSUME IInv, Back
  PROVE  IInv'
<1>1. Compiles \/ Linking \/ Crossing
  <2>1. Running
    BY DEF Back, Running
  <2> QED
    BY <2>1, JobsAre
<1> QED
  BY <1>1, BackCompiles, BackLinks, BackCrosses

-----------------------------------------------------------------------------
(* Every step.                                                             *)

LEMMA NextHolds ==
  ASSUME IInv, [Next]_vars
  PROVE  IInv'
<1>1. ASSUME NEW o \in Options, TakeOption(o) PROVE IInv'
  BY <1>1, TakeOptionHolds
<1>2. ASSUME NEW o \in Options, Refuse(o) PROVE IInv'
  BY <1>2, ErrorHolds DEF Refuse, Unworked
<1>3. ASSUME NEW b \in Bases, NEW k \in Kinds, TakeFile(b, k) PROVE IInv'
  BY <1>3, TakeFileHolds
<1>4. CASE Doit
  BY <1>4, DoitHolds
<1>5. CASE NextSource
  BY <1>5, NextSourceHolds
<1>6. CASE AfterSources
  BY <1>6, AfterSourcesHolds
<1>7. CASE GetAddresses
  BY <1>7, GetAddressesHolds
<1>8. CASE CrossReference
  BY <1>8, CrossReferenceHolds
<1>9. CASE Redirect
  BY <1>9, RedirectHolds
<1>10. CASE Direct \/ NotFound \/ Answer
  BY <1>10, WaitHolds
<1>11. CASE CannotCreate \/ CannotSpawn \/ CannotRestore
  BY <1>11, ErrorHolds DEF CannotCreate, CannotSpawn, CannotRestore, Error, command
<1>12. CASE Succeed
  BY <1>12, SucceedHolds
<1>13. CASE Fail
  BY <1>13, FailHolds
<1>14. CASE Back
  BY <1>14, BackHolds
<1>15. CASE UNCHANGED vars
  <2>1. UNCHANGED <<pc, nargs, on, lists, c_as, objs, nfiles, outfile, single, i, job, ok, nerrs, disk, fd,
                    stdin, longs, status>>
    BY <1>15 DEF vars, command
  <2>2. /\ Shapes' = Shapes /\ Distinct' = Distinct /\ Kept' = Kept /\ Unmade' = Unmade /\ Made' = Made
        /\ Program' = Program
    BY <2>1 DEF Shapes, Distinct, Kept, Unmade, Made, Program, Object, Assembler, Product, Named, After, Running,
                Crossing, Cref, Job, Worked, Fresh, Passes, Optimizes, Given, Link, Objtohex, LinkedFrom, Temp
  <2>3. Stage' = Stage /\ Chain' = Chain
    BY <2>1 DEF Stage, Chain, Running, Compiles, Linking, Crossing, Cref, Job, Link, Objtohex, Temp, Stages,
                Zas, Cpp, P1, Cgen, Optim, Optimizes, LeavesAs, Object, Assembler, Optimized, Unoptimized, Before
  <2>4. Tidy' = Tidy /\ Wired' = Wired
    BY <2>1 DEF Tidy, Wired, Taken, Long, CppLength, LinkLength, Linking, Link, Objtohex, Job, Temp
  <2> QED
    BY <2>1, <2>2, <2>3, <2>4 DEF IInv, Good
<1> QED
  BY <1>1, <1>2, <1>3, <1>4, <1>5, <1>6, <1>7, <1>8, <1>9, <1>10, <1>11, <1>12, <1>13, <1>14, <1>15 DEF Next

(* The inductive invariant holds of every run of the command.              *)
THEOREM Invariance == Spec => []IInv
<1>1. Init => IInv
  BY InitHolds
<1>2. IInv /\ [Next]_vars => IInv'
  BY NextHolds
<1> QED
  BY <1>1, <1>2, PTL DEF Spec

-----------------------------------------------------------------------------
(* The properties.                                                         *)

(* Whatever passes fail, doit() has removed every temporary file at its    *)
(* end, but the cross reference nobody asked a listing of.                 *)
THEOREM TempsCorrect == Spec => []TempsGone
<1>1. IInv => TempsGone
  BY DEF IInv, Good, Tidy, TempsGone
<1> QED
  BY <1>1, Invariance, PTL

(* main() returns 0 only when every source went through all of its passes  *)
(* in order and the program is linked from what was named.                 *)
THEOREM SuccessCorrect == Spec => []SuccessMeansDone
<1>1. IInv => SuccessMeansDone
  <2>1. SUFFICES ASSUME IInv, pc = "ended", status = 0
                 PROVE  /\ \A s \in Worked : Fresh(s) \/ (nfiles = 1 /\ "keep" \notin on)
                        /\ "keep" \notin on => disk[outfile] = [from |-> LinkedFrom, by |-> <<"link", "objtohex">>]
    BY DEF SuccessMeansDone, LinkedFrom
  <2>2. Good /\ Shapes /\ nerrs = 0 /\ i > Len(c_as) /\ After /\ i \in Int /\ Len(c_as) \in Nat
    BY <2>1, Sources DEF IInv, Good, Stage, After, Shapes
  <2>3. ASSUME NEW s \in Worked PROVE Fresh(s) \/ (nfiles = 1 /\ "keep" \notin on)
    <3>1. PICK j \in 1..Len(c_as) : s = c_as[j]
      BY <2>2, Sources DEF Worked
    <3> QED
      BY <2>2, <3>1 DEF Good, Made
  <2>4. "keep" \notin on => disk[outfile] = [from |-> LinkedFrom, by |-> <<"link", "objtohex">>]
    BY <2>2 DEF Good, Program
  <2> QED
    BY <2>3, <2>4
<1> QED
  BY <1>1, Invariance, PTL

(* doexec() gives a pass its command, and the user the console, on the     *)
(* descriptor each reads, as long as one command only was too long.        *)
THEOREM InputCorrect == Spec => []RightInput
<1>1. IInv => RightInput
  <2>1. SUFFICES ASSUME IInv, longs <= 1
                 PROVE  /\ pc = "spawn" => fd[0] = IF Long(job.pass) THEN "redname" ELSE "console"
                        /\ pc \in {"ask", "addresses"} => fd[stdin] = "console"
                        /\ pc \in {"next", "cref"} => fd[0] = "console"
    BY DEF RightInput
  <2>2. SUFFICES ASSUME pc \in {"spawn", "ask", "addresses", "next", "cref"}
                 PROVE  /\ fd[0] = (IF Taken THEN "redname" ELSE "console")
                        /\ fd[stdin] = "console" \/ ~(pc \in {"ask", "addresses"})
    BY DEF Taken
  <2>3. Wired /\ longs \in Nat
    BY <2>1, <2>2 DEF IInv, Good, Shapes
  <2>4. 0 \in Fds /\ 4 \in Fds
    BY DEF Fds
  <2>5. CASE longs = 0
    BY <2>3, <2>4, <2>5 DEF Wired, Wiring
  <2>6. CASE longs = 1
    BY <2>3, <2>4, <2>6 DEF Wired, Wiring
  <2> QED
    BY <2>1, <2>3, <2>5, <2>6
<1> QED
  BY <1>1, Invariance, PTL

-----------------------------------------------------------------------------
(* The command is a Build: what is left of the sources, and what of it is   *)
(* made.                                                                    *)

Phase == IF pc \in {"args", "ended"} THEN pc
         ELSE IF pc = "cref" \/ job.pass = "cref" THEN "after"
         ELSE IF job.pass \in {"link", "objtohex"} THEN "link" ELSE "work"
MadeLeft == {s \in Left : Fresh(s)}
Rest == ToSet(SubSeq(c_as, i, Len(c_as)))

LEMMA Stutters ==
  ASSUME Phase' = Phase, Left' = Left, MadeLeft' = MadeLeft, nerrs' = nerrs, status' = status
  PROVE  UNCHANGED B!vars
  BY DEF B!vars, Phase, MadeLeft

LEMMA RestIs ==
  ASSUME NEW S, NEW s \in Seq(S), NEW m \in 1..(Len(s) + 1)
  PROVE  ToSet(SubSeq(s, m, Len(s))) = {s[j] : j \in m..Len(s)}
<1>1. Len(s) \in Nat
  OBVIOUS
<1>2. /\ Len(SubSeq(s, m, Len(s))) = Len(s) - m + 1
      /\ \A k \in 1..(Len(s) - m + 1) : SubSeq(s, m, Len(s))[k] = s[m + k - 1]
  BY <1>1
<1>3. ToSet(SubSeq(s, m, Len(s))) = {SubSeq(s, m, Len(s))[k] : k \in 1..(Len(s) - m + 1)}
  <2>1. DOMAIN SubSeq(s, m, Len(s)) = 1..(Len(s) - m + 1)
    BY <1>1
  <2> QED
    BY <2>1 DEF ToSet
<1>4. ASSUME NEW j \in m..Len(s) PROVE j - m + 1 \in 1..(Len(s) - m + 1) /\ m + (j - m + 1) - 1 = j
  BY <1>1
<1>5. ASSUME NEW k \in 1..(Len(s) - m + 1) PROVE m + k - 1 \in m..Len(s)
  BY <1>1
<1>6. PICK T : T = SubSeq(s, m, Len(s))
  OBVIOUS
<1>7. \A j \in m..Len(s) : s[j] \in {T[k] : k \in 1..(Len(s) - m + 1)}
  BY <1>2, <1>4, <1>6
<1>8. \A k \in 1..(Len(s) - m + 1) : T[k] \in {s[j] : j \in m..Len(s)}
  BY <1>2, <1>5, <1>6
<1> QED
  BY <1>3, <1>6, <1>7, <1>8

LEMMA SourcesLeft ==
  ASSUME Shapes
  PROVE  /\ Rest = {c_as[j] : j \in i..Len(c_as)} /\ (i > Len(c_as) => Rest = {} /\ Left = {} /\ MadeLeft = {})
         /\ Left = (IF pc \in {"args", "ended"} THEN {} ELSE Worked \cap Rest)
         /\ Rest \subseteq ToSet(c_as) /\ Rest \subseteq Bases \X {"c", "as"}
<1>1. PICK S : S = Bases \X {"c", "as"}
  OBVIOUS
<1>2. c_as \in Seq(S) /\ i \in 1..(Len(c_as) + 1) /\ Len(c_as) \in Nat
  BY <1>1, Sources DEF Shapes
<1>3. Rest = {c_as[j] : j \in i..Len(c_as)}
  BY <1>2, RestIs DEF Rest
<1>4. Left = (IF pc \in {"args", "ended"} THEN {} ELSE Worked \cap Rest)
  BY DEF Left, Rest
<1>5. i > Len(c_as) => Rest = {}
  BY <1>2, <1>3
<1>6. \A j \in i..Len(c_as) : j \in 1..Len(c_as)
  BY <1>2
<1> QED
  BY <1>3, <1>4, <1>5, <1>6, Sources DEF MadeLeft

(* While no product changes and the same source is at work nothing is      *)
(* dealt with.                                                             *)
LEMMA LeftStays ==
  ASSUME IInv, UNCHANGED <<command, i>>, pc \notin {"args", "ended"}, pc' \notin {"args", "ended"},
         TempsOnly \/ i > Len(c_as)
  PROVE  Left' = Left /\ MadeLeft' = MadeLeft
<1>1. Shapes /\ UNCHANGED <<on, c_as, i>>
  BY DEF IInv, command
<1>2. Left' = Left
  BY <1>1 DEF Left, Worked
<1>3. \A s \in Left : Fresh(s)' = Fresh(s)
  <2>1. CASE i > Len(c_as)
    BY <1>1, <2>1, SourcesLeft
  <2>2. CASE TempsOnly
    <3>1. ASSUME NEW s \in Left PROVE s \in Bases \X {"c", "as"} /\ disk'[Product(s)] = disk[Product(s)]
      BY <1>1, <2>2, SourcesLeft, Products DEF TempsOnly
    <3> QED
      BY <1>1, <3>1, FreshStays
  <2> QED
    BY <2>1, <2>2
<1> QED
  BY <1>2, <1>3 DEF MadeLeft

(* What nobody has made yet is not there.                                  *)
LEMMA NotFresh ==
  ASSUME IInv, pc # "ended", NEW j \in 1..Len(c_as), c_as[j] \in Worked,
         j > i \/ (j = i /\ ~(pc = "back" /\ Product(c_as[j]) \in job.out))
  PROVE  ~Fresh(c_as[j])
<1>1. Good /\ c_as[j] \in Bases \X {"c", "as"}
  BY Sources DEF IInv
<1>2. disk[Object(c_as[j])] = Old /\ (c_as[j][2] = "c" => disk[Assembler(c_as[j])] = Gone)
  BY <1>1 DEF Good, Unmade
<1>3. disk[Product(c_as[j])] \in {Old, Gone}
  BY <1>1, <1>2 DEF Worked, Product
<1>4. c_as[j] # NoName
  BY <1>1, NamesDiffer
<1>5. [from |-> {c_as[j]}, by |-> Passes(c_as[j])] \notin {Old, Gone}
  BY <1>4 DEF Old, Gone
<1> QED
  BY <1>3, <1>5 DEF Fresh

LEMMA AbortImplements ==
  ASSUME IInv, pc # "ended", pc' = "ended", status' = 2, nerrs' = nerrs
  PROVE  B!Next
<1>1. Left' = {} /\ MadeLeft' = {}
  BY DEF Left, MadeLeft
<1>2. B!Abort
  BY <1>1 DEF B!Abort, MadeLeft
<1> QED
  BY <1>2 DEF B!Next

LEMMA DoitImplements ==
  ASSUME IInv, IInv', Doit
  PROVE  B!Next
<1>1. /\ pc = "args" /\ pc' = "next" /\ UNCHANGED <<command, i, job, nerrs, status>>
  BY DEF Doit, Unworked
<1>2. /\ UNCHANGED <<on, c_as>> /\ i = 1 /\ job = NoJob /\ status = 0
      /\ Shapes /\ Shapes' /\ Good /\ Good'
  BY <1>1 DEF command, IInv, Good, Stage
<1>3. Left = {} /\ MadeLeft = {} /\ Phase = "args"
  BY <1>1 DEF Left, MadeLeft, Phase
<1>4. Left' \subseteq Bases \X {"c", "as"} /\ Left' = Worked \cap {c_as[j] : j \in 1..Len(c_as)} /\ Rest' = Rest
  BY <1>1, <1>2, SourcesLeft DEF Left, Worked, Rest
<1>5. ASSUME NEW s \in Left' PROVE ~Fresh(s)'
  <2>1. PICK j \in 1..Len(c_as) : s = c_as[j]
    BY <1>4
  <2>2. s \in Bases \X {"c", "as"} /\ s \in Worked
    BY <1>4
  <2>3. ~Fresh(s)
    BY <1>1, <1>2, <2>1, <2>2, NotFresh, Sources
  <2>4. Fresh(s)' = Fresh(s)
    <3>1. disk'[Product(s)] = disk[Product(s)]
      BY <1>2, <2>2, Products, NamesDiffer DEF Doit, Shapes, Temps
    <3> QED
      BY <1>2, <2>2, <3>1, FreshStays
  <2> QED
    BY <2>3, <2>4
<1>6. MadeLeft' = {}
  BY <1>5 DEF MadeLeft
<1>7. Phase' = "work"
  BY <1>1, <1>2 DEF Phase, NoJob
<1>8. B!Begin
  BY <1>1, <1>3, <1>4, <1>6, <1>7 DEF B!Begin, Phase, MadeLeft
<1> QED
  BY <1>8 DEF B!Next

(* Steps that only bring a pass nearer to run.                             *)
LEMMA WaitImplements ==
  ASSUME IInv, Redirect \/ Direct \/ NotFound \/ Answer
  PROVE  UNCHANGED B!vars
<1>1. /\ pc \in {"exec", "spawn", "ask"} /\ pc' \in {"spawn", "ask"}
      /\ UNCHANGED <<command, i, job, nerrs, status>>
      /\ disk' = disk \/ disk' = [disk EXCEPT ![Temp("redname")] = Given(NoName)]
  BY DEF Redirect, Direct, NotFound, Answer
<1>2. TempsOnly
  <2>1. Shapes /\ Temp("redname")[2] = "tmp"
    BY NamesDiffer DEF IInv, Temps
  <2> QED
    BY <1>1, <2>1 DEF TempsOnly, Shapes
<1>3. Left' = Left /\ MadeLeft' = MadeLeft
  BY <1>1, <1>2, LeftStays
<1>4. Phase' = Phase
  BY <1>1 DEF Phase
<1> QED
  BY <1>1, <1>3, <1>4, Stutters

LEMMA NextSourceImplements ==
  ASSUME IInv, IInv', NextSource
  PROVE  UNCHANGED B!vars
<1>1. /\ pc = "next" /\ i <= Len(c_as) /\ pc' \in {"next", "exec"}
      /\ UNCHANGED <<command, nerrs, disk, status>>
      /\ \/ i' = i /\ job'.pass \in {"cpp", "zas"}
         \/ i' = i + 1 /\ job' = job /\ c_as[i][2] # "c" /\ "keepas" \in on
  BY DEF NextSource, Run, Cpp, Zas, Job
<1>2. /\ UNCHANGED <<on, c_as>> /\ job = NoJob /\ Shapes /\ Shapes' /\ i \in 1..Len(c_as) /\ Len(c_as) \in Nat
      /\ TempsOnly
  BY <1>1, IdleIs DEF command, IInv, TempsOnly, Shapes
<1>3. Phase = "work" /\ Phase' = "work"
  BY <1>1, <1>2 DEF Phase, NoJob
<1>4. CASE i' = i
  BY <1>1, <1>2, <1>3, <1>4, LeftStays, Stutters
<1>5. CASE i' = i + 1 /\ c_as[i][2] # "c" /\ "keepas" \in on
  <2>1. c_as[i] \notin Worked
    BY <1>2, <1>5, Sources DEF Worked
  <2>2. Left = Worked \cap {c_as[j] : j \in i..Len(c_as)}
    BY <1>1, <1>2, SourcesLeft
  <2>3. Left' = Worked \cap {c_as[j] : j \in (i + 1)..Len(c_as)}
    <3>1. Rest' = ToSet(SubSeq(c_as, i + 1, Len(c_as))) /\ Worked' = Worked
      BY <1>2, <1>5 DEF Rest, Worked
    <3>2. PICK S : S = Bases \X {"c", "as"}
      OBVIOUS
    <3>3. c_as \in Seq(S) /\ i + 1 \in 1..(Len(c_as) + 1)
      BY <1>2, <3>2 DEF Shapes
    <3>4. ToSet(SubSeq(c_as, i + 1, Len(c_as))) = {c_as[j] : j \in (i + 1)..Len(c_as)}
      BY <3>3, RestIs
    <3>5. Left' = Worked' \cap Rest'
      BY <1>1 DEF Left, Rest
    <3> QED
      BY <3>1, <3>4, <3>5
  <2>4. i..Len(c_as) = {i} \cup (i + 1)..Len(c_as)
    BY <1>2
  <2>5. {c_as[j] : j \in i..Len(c_as)} = {c_as[i]} \cup {c_as[j] : j \in (i + 1)..Len(c_as)}
    BY <2>4
  <2>6. Left' = Left
    BY <2>1, <2>2, <2>3, <2>5
  <2>7. MadeLeft' = MadeLeft
    BY <1>1, <1>2, <2>6 DEF MadeLeft, Fresh, Product, Passes, Object, Assembler, Optimizes
  <2> QED
    BY <1>1, <1>3, <2>6, <2>7, Stutters
<1> QED
  BY <1>1, <1>4, <1>5

LEMMA AfterSourcesImplements ==
  ASSUME IInv, AfterSources \/ GetAddresses
  PROVE  [B!Next]_(B!vars)
<1>1. /\ pc \in {"next", "addresses"} /\ i > Len(c_as) /\ UNCHANGED <<command, i, nerrs, status>>
      /\ \/ pc' = "cref" /\ job' = job /\ pc = "next"
         \/ pc' = "addresses" /\ job' = job
         \/ pc' = "exec" /\ job' = Link /\ nerrs = 0
  <2>1. pc = "addresses" => Good /\ i > Len(c_as) /\ nerrs = 0
    BY IdleIs DEF Good, Stage
  <2> QED
    BY <2>1 DEF AfterSources, GetAddresses, Run, Links
<1>2. job = NoJob /\ Shapes /\ Link.pass = "link"
  BY <1>1, IdleIs DEF Link, Job
<1>3. Left = {} /\ MadeLeft = {} /\ Left' = {} /\ MadeLeft' = {}
  BY <1>1, <1>2, SourcesLeft, LeftStays
<1>4. Phase = "work"
  BY <1>1, <1>2 DEF Phase, NoJob
<1>5. CASE pc' = "cref"
  <2>1. Phase' = "after"
    BY <1>5 DEF Phase
  <2>2. B!Finish
    BY <1>1, <1>3, <1>4, <2>1 DEF B!Finish, Phase, MadeLeft
  <2> QED
    BY <2>2 DEF B!Next
<1>6. CASE pc' = "addresses" /\ job' = job
  <2>1. Phase' = "work"
    BY <1>2, <1>6 DEF Phase, NoJob
  <2> QED
    BY <1>1, <1>3, <1>4, <2>1, Stutters
<1>7. CASE pc' = "exec" /\ job' = Link /\ nerrs = 0
  <2>1. Phase' = "link"
    BY <1>2, <1>7 DEF Phase
  <2>2. B!Link
    BY <1>1, <1>3, <1>4, <1>7, <2>1 DEF B!Link, Phase, MadeLeft
  <2> QED
    BY <2>2 DEF B!Next
<1> QED
  BY <1>1, <1>5, <1>6, <1>7

LEMMA CrossReferenceImplements ==
  ASSUME IInv, CrossReference
  PROVE  [B!Next]_(B!vars)
<1>1. /\ pc = "cref" /\ UNCHANGED <<command, i, nerrs, disk>>
      /\ \/ job' = Cref /\ pc' = "exec" /\ UNCHANGED status
         \/ pc' = "ended" /\ status' = (IF nerrs # 0 THEN 1 ELSE 0)
  BY DEF CrossReference, Run
<1>2. Shapes /\ Good /\ i > Len(c_as) /\ status = 0 /\ Cref.pass = "cref"
  BY <1>1, IdleIs DEF Good, Stage, Cref, Job
<1>3. Left = {} /\ MadeLeft = {} /\ Phase = "after"
  BY <1>1, <1>2, SourcesLeft DEF Phase
<1>4. CASE job' = Cref /\ pc' = "exec" /\ UNCHANGED status
  <2>1. Phase' = "after"
    BY <1>2, <1>4 DEF Phase
  <2> QED
    BY <1>1, <1>2, <1>3, <1>4, <2>1, LeftStays, Stutters
<1>5. CASE pc' = "ended" /\ status' = (IF nerrs # 0 THEN 1 ELSE 0)
  <2>1. Left' = {} /\ MadeLeft' = {} /\ Phase' = "ended"
    BY <1>5 DEF Left, MadeLeft, Phase
  <2>2. B!End
    BY <1>1, <1>3, <1>5, <2>1 DEF B!End, Phase, MadeLeft
  <2> QED
    BY <2>2 DEF B!Next
<1> QED
  BY <1>1, <1>4, <1>5

(* A product is written, or a failure counted.                             *)
LEMMA RanImplements ==
  ASSUME IInv, IInv', Succeed \/ Fail
  PROVE  [B!Next]_(B!vars)
<1> DEFINE s == c_as[i]
<1>1. /\ pc = "spawn" /\ pc' = "back" /\ UNCHANGED <<command, i, job, status>>
      /\ \A f \in FileNames \ job.out : disk'[f] = disk[f]
      /\ disk' = [f \in FileNames |-> disk'[f]]
  <2>1. PICK left : disk' = [f \in FileNames |-> IF f \in job.out THEN left[f] ELSE disk[f]]
    BY DEF Succeed, Fail, Ran
  <2> QED
    BY <2>1 DEF Succeed, Fail, Ran
<1>2. /\ UNCHANGED <<on, c_as>> /\ Running /\ Running' /\ Good /\ Good' /\ Shapes /\ Shapes' /\ nerrs \in Nat
      /\ status = 0 /\ Len(c_as) \in Nat /\ i \in 1..(Len(c_as) + 1)
  <2>1. Running /\ Running'
    BY <1>1 DEF Running
  <2>2. Good /\ Shapes /\ status = 0 /\ Len(c_as) \in Nat /\ i \in 1..(Len(c_as) + 1)
    BY <2>1, JobsAre
  <2> QED
    BY <1>1, <2>1, <2>2 DEF command, IInv, Shapes
<1>3. Phase' = Phase /\ Phase \in {"after", "link", "work"}
  BY <1>1 DEF Phase
<1>4. Left' = Left
  BY <1>1, <1>2 DEF Left, Worked
<1>5. CASE MadeLeft' = MadeLeft
  <2>1. CASE Succeed
    <3>1. nerrs' = nerrs
      BY <2>1 DEF Succeed
    <3> QED
      BY <1>1, <1>3, <1>4, <1>5, <3>1, Stutters
  <2>2. CASE Fail
    <3>1. nerrs' # 0
      BY <1>2, <2>2 DEF Fail
    <3>2. B!Fail
      BY <1>1, <1>3, <1>4, <1>5, <3>1 DEF B!Fail, Phase, MadeLeft
    <3> QED
      BY <3>2 DEF B!Next
  <2> QED
    BY <2>1, <2>2
<1>6. CASE ~Compiles
  <2>1. i > Len(c_as)
    BY <1>2, <1>6, JobsAre DEF Linking, Crossing
  <2> QED
    BY <1>1, <1>5, <2>1, LeftStays
<1>7. CASE Compiles
  <2>1. i \in 1..Len(c_as) /\ job \in Stages(s) /\ s \in Bases \X {"c", "as"} /\ job.pass \in Passing
    BY <1>2, <1>7, JobsAre DEF Compiles
  <2>2. CASE NextJob(s) # NoJob
    <3>1. job.out \subseteq Intermediate
      BY <2>1, <2>2, NextJobIs
    <3>2. \A f \in FileNames : f[2] # "tmp" => f \notin job.out
      BY <3>1 DEF Intermediate, Temp
    <3>3. TempsOnly
      BY <1>1, <3>2 DEF TempsOnly
    <3> QED
      BY <1>1, <1>5, <3>3, LeftStays
  <2>3. CASE NextJob(s) = NoJob
    <3>1. job.out = {Product(s)} /\ Append(Before(s), job.pass) = Passes(s)
      BY <2>1, <2>3, LastJobIs
    <3>2. s \in Left
      <4>1. s \in Worked
        BY <1>2, <2>1, Sources, StagesAre DEF Worked
      <4>2. s \in {c_as[j] : j \in i..Len(c_as)}
        BY <1>2, <2>1
      <4> QED
        BY <1>1, <1>2, <4>1, <4>2, SourcesLeft
    <3>3. ASSUME NEW x \in Left, x # s PROVE Fresh(x)' = Fresh(x)
      <4>1. x \in Bases \X {"c", "as"} /\ \E j \in 1..Len(c_as) : x = c_as[j]
        BY <1>1, <1>2, SourcesLeft, Sources
      <4>2. x[1] # s[1]
        BY <1>2, <2>1, <3>3, <4>1 DEF Good, Distinct
      <4>3. Product(x) \in FileNames \ job.out
        BY <2>1, <3>1, <4>1, <4>2, Products
      <4> QED
        BY <1>1, <1>2, <4>1, <4>3, FreshStays
    <3>4. ~Fresh(s)
      <4>1. s \in Worked
        BY <3>2 DEF Left
      <4> QED
        BY <1>1, <2>1, <4>1, NotFresh
    <3>5. CASE Succeed
      <4>1. disk'[Product(s)] = [from |-> {s}, by |-> Passes(s)]
        <5>1. ok' /\ Product(s) \in job.out /\ Compiles'
          BY <1>1, <1>2, <1>7, <3>1, <3>5 DEF Succeed, Ran, Compiles, Stages, Zas, Cpp, P1, Cgen, Optim, Job,
             Optimizes, LeavesAs, Object, Assembler, Optimized, Unoptimized, Temp
        <5>2. s' = s /\ Before(s)' = Before(s)
          BY <1>1, <1>2 DEF Before, Optimizes
        <5>3. Chain'
          BY <1>2 DEF Good
        <5>4. disk'[Product(s)] = [from |-> {s}, by |-> Append(Before(s)', job.pass)]
          BY <1>1, <1>2, <5>1, <5>2, <5>3 DEF Chain
        <5> QED
          BY <3>1, <5>2, <5>4
      <4>2. Fresh(s)'
        <5>1. Product(s)' = Product(s) /\ Passes(s)' = Passes(s)
          BY <1>1, <1>2 DEF Product, Passes, Object, Assembler, Optimizes
        <5>2. s' = s
          BY <1>1, <1>2
        <5> QED
          BY <4>1, <5>1, <5>2 DEF Fresh
      <4>3. PICK x : x = s
        OBVIOUS
      <4>4. Fresh(x)' /\ ~Fresh(x) /\ x \in Left /\ \A y \in Left : y # x => Fresh(y)' = Fresh(y)
        <5>1. Fresh(x)'
          BY <1>1, <1>2, <4>2, <4>3 DEF Fresh, Product, Passes, Object, Assembler, Optimizes
        <5> QED
          BY <3>2, <3>3, <3>4, <4>3, <5>1
      <4>5. MadeLeft' = MadeLeft \cup {x}
        BY <1>4, <4>4 DEF MadeLeft
      <4>6. Phase = "work" /\ nerrs' = nerrs /\ x \in Bases \X {"c", "as"}
        BY <1>1, <2>1, <3>5, <4>3 DEF Phase, Passing, Succeed
      <4>7. B!Make(x)
        BY <1>1, <1>3, <1>4, <4>4, <4>5, <4>6 DEF B!Make, Phase, MadeLeft
      <4> QED
        BY <4>6, <4>7 DEF B!Next
    <3>6. CASE Fail
      <4>1. PICK left \in {[f \in job.out |-> Gone], [f \in job.out |-> Broken], disk} : Ran(FALSE, left)
        BY <3>6 DEF Fail
      <4>2. disk'[Product(s)] \in {Gone, Broken, disk[Product(s)]}
        <5>1. Product(s) \in FileNames /\ Product(s) \in job.out
          BY <2>1, <3>1, Products
        <5> QED
          BY <4>1, <5>1 DEF Ran
      <4>3. ~Fresh(s)'
        <5>1. Product(s)' = Product(s) /\ Passes(s)' = Passes(s) /\ s' = s
          BY <1>1, <1>2 DEF Product, Passes, Object, Assembler, Optimizes
        <5>2. [from |-> {s}, by |-> Passes(s)] \notin {Gone, Broken}
          BY DEF Gone, Broken
        <5> QED
          BY <3>4, <4>2, <5>1, <5>2 DEF Fresh
      <4>4. PICK x : x = s
        OBVIOUS
      <4>5. ~Fresh(x)' /\ ~Fresh(x) /\ \A y \in Left : y # x => Fresh(y)' = Fresh(y)
        <5>1. ~Fresh(x)'
          BY <1>1, <1>2, <4>3, <4>4 DEF Fresh, Product, Passes, Object, Assembler, Optimizes
        <5> QED
          BY <3>3, <3>4, <4>4, <5>1
      <4>6. MadeLeft' = MadeLeft
        BY <1>4, <4>5 DEF MadeLeft
      <4> QED
        BY <1>5, <4>6
    <3> QED
      BY <3>5, <3>6
  <2> QED
    BY <2>2, <2>3
<1> QED
  BY <1>6, <1>7

(* A source is left behind, or the linker, or the command ends.            *)
LEMMA BackImplements ==
  ASSUME IInv, IInv', Back
  PROVE  [B!Next]_(B!vars)
<1> DEFINE s == IF i <= Len(c_as) THEN c_as[i] ELSE NoName
           goesOn == ok /\ NextJob(s) # NoJob
<1>1. /\ pc = "back" /\ UNCHANGED <<command, ok, nerrs>> /\ pc' \in {"exec", "cref", "next", "ended"}
  BY DEF Back, Run
<1>2. /\ UNCHANGED <<on, c_as>> /\ Running /\ Good /\ Shapes /\ Shapes' /\ nerrs \in Nat
      /\ status = 0 /\ Len(c_as) \in Nat /\ i \in 1..(Len(c_as) + 1)
  <2>1. Running
    BY <1>1 DEF Running
  <2>2. Good /\ Shapes /\ status = 0 /\ Len(c_as) \in Nat /\ i \in 1..(Len(c_as) + 1)
    BY <2>1, JobsAre
  <2> QED
    BY <1>1, <2>1, <2>2 DEF command, IInv, Shapes
<1>3. CASE Compiles
  <2>1. /\ i \in 1..Len(c_as) /\ job \in Stages(s) /\ s \in Bases \X {"c", "as"} /\ job.pass \in Passing
        /\ s = c_as[i]
    BY <1>2, <1>3, JobsAre DEF Compiles
  <2>2. /\ disk' = Without(disk, Command)
        /\ goesOn => i' = i /\ pc' = "exec" /\ job' = NextJob(s) /\ status' = status
        /\ ~goesOn => i' = i + 1 /\ pc' = "next" /\ job' = NoJob /\ status' = status
    BY <2>1 DEF Back, Run, Passing
  <2>3. TempsOnly
    <3>1. Command \subseteq {Temp("redname")} /\ Temp("redname")[2] = "tmp"
      BY DEF Command, Temp
    <3> QED
      BY <1>2, <2>2, <3>1 DEF TempsOnly, Without, Shapes
  <2>4. Phase = "work"
    BY <1>1, <2>1 DEF Phase, Passing
  <2>5. CASE goesOn
    <3>1. job'.pass \in Passing
      BY <2>1, <2>2, <2>5, NextJobIs
    <3>2. Phase' = "work"
      BY <2>2, <2>5, <3>1 DEF Phase, Passing
    <3> QED
      BY <1>1, <2>2, <2>3, <2>4, <2>5, <3>2, LeftStays, Stutters
  <2>6. CASE ~goesOn
    <3>1. Phase' = "work"
      BY <2>2, <2>6 DEF Phase, NoJob
    <3>2. s \in Left
      <4>1. s \in Worked
        BY <1>2, <2>1, Sources, StagesAre DEF Worked
      <4>2. s \in {c_as[j] : j \in i..Len(c_as)}
        BY <1>2, <2>1
      <4> QED
        BY <1>1, <1>2, <4>1, <4>2, SourcesLeft
    <3>3. Left' = Left \ {s}
      <4>1. Left = Worked \cap {c_as[j] : j \in i..Len(c_as)}
        BY <1>1, <1>2, SourcesLeft
      <4>2. Left' = Worked \cap {c_as[j] : j \in (i + 1)..Len(c_as)}
        <5>1. Rest' = ToSet(SubSeq(c_as, i + 1, Len(c_as))) /\ Worked' = Worked
          BY <1>2, <2>2, <2>6 DEF Rest, Worked
        <5>2. PICK S : S = Bases \X {"c", "as"}
          OBVIOUS
        <5>3. c_as \in Seq(S) /\ i + 1 \in 1..(Len(c_as) + 1)
          <6>1. c_as \in Seq(S) /\ i \in 1..(Len(c_as) + 1)
            BY <1>2, <5>2 DEF Shapes
          <6>2. Len(c_as) \in Nat
            BY <6>1
          <6> QED
            BY <2>1, <6>1, <6>2
        <5>4. ToSet(SubSeq(c_as, i + 1, Len(c_as))) = {c_as[j] : j \in (i + 1)..Len(c_as)}
          BY <5>3, RestIs
        <5>5. Left' = Worked' \cap Rest'
          BY <2>2, <2>6 DEF Left, Rest
        <5> QED
          BY <5>1, <5>4, <5>5
      <4>3. i..Len(c_as) = {i} \cup (i + 1)..Len(c_as)
        BY <1>2, <2>1
      <4>4. {c_as[j] : j \in i..Len(c_as)} = {s} \cup {c_as[j] : j \in (i + 1)..Len(c_as)}
        BY <2>1, <4>3
      <4>5. s \notin {c_as[j] : j \in (i + 1)..Len(c_as)}
        <5>1. \A j \in (i + 1)..Len(c_as) : j \in 1..Len(c_as) /\ j # i
          BY <1>2, <2>1
        <5> QED
          BY <1>2, <2>1, <5>1 DEF Good, Distinct
      <4> QED
        BY <4>1, <4>2, <4>4, <4>5
    <3>4. \A x \in Left : Fresh(x)' = Fresh(x)
      <4>1. ASSUME NEW x \in Left PROVE Fresh(x)' = Fresh(x)
        <5>1. x \in Bases \X {"c", "as"} /\ disk'[Product(x)] = disk[Product(x)]
          BY <1>1, <1>2, <2>3, SourcesLeft, Products DEF TempsOnly
        <5> QED
          BY <1>2, <5>1, FreshStays
      <4> QED
        BY <4>1
    <3>5. PICK x : x = s
      OBVIOUS
    <3>6. MadeLeft' = MadeLeft \ {x} /\ Left' = Left \ {x} /\ x \in Left /\ x \in Bases \X {"c", "as"}
      BY <2>1, <3>2, <3>3, <3>4, <3>5 DEF MadeLeft
    <3>7. x \in MadeLeft \/ nerrs # 0
      <4>1. SUFFICES ASSUME nerrs = 0 PROVE x \in MadeLeft
        OBVIOUS
      <4>2. ok
        BY <1>1, <1>2, <4>1 DEF Good, Stage
      <4>3. NextJob(s) = NoJob
        BY <2>6, <4>2
      <4>4. job.out = {Product(s)} /\ Append(Before(s), job.pass) = Passes(s)
        BY <2>1, <4>3, LastJobIs
      <4>5. disk[Product(s)] = [from |-> {s}, by |-> Append(Before(s), job.pass)]
        BY <1>1, <1>2, <1>3, <2>1, <4>2, <4>4 DEF Good, Chain
      <4>6. Fresh(s)
        BY <4>4, <4>5 DEF Fresh
      <4> QED
        BY <3>2, <3>5, <4>6 DEF MadeLeft
    <3>8. B!Leave(x)
      BY <1>1, <2>2, <2>4, <2>6, <3>1, <3>6, <3>7 DEF B!Leave, Phase, MadeLeft
    <3> QED
      BY <3>6, <3>8 DEF B!Next
  <2> QED
    BY <2>5, <2>6
<1>4. CASE Linking
  <2>1. /\ i > Len(c_as) /\ i' = i /\ job.pass \in {"link", "objtohex"}
        /\ goesOn => pc' = "exec" /\ job' = NextJob(s) /\ status' = status
        /\ ~goesOn => pc' = "cref" /\ status' = status
    <3>1. i > Len(c_as) /\ job.pass \in {"link", "objtohex"}
      BY <1>2, <1>4, JobsAre DEF Linking
    <3> QED
      BY <3>1 DEF Back, Run
  <2>2. Phase = "link"
    BY <1>1, <2>1 DEF Phase
  <2>3. Left = {} /\ MadeLeft = {} /\ Left' = {} /\ MadeLeft' = {}
    BY <1>1, <1>2, <2>1, SourcesLeft, LeftStays
  <2>4. CASE goesOn
    <3>1. NextJob(s) = Objtohex
      BY <2>1, <2>4 DEF NextJob
    <3>2. Phase' = "link"
      <4>1. job'.pass = "objtohex"
        BY <2>1, <2>4, <3>1 DEF Objtohex, Job
      <4> QED
        BY <2>1, <2>4, <4>1 DEF Phase
    <3> QED
      BY <1>1, <2>1, <2>2, <2>3, <2>4, <3>2, Stutters
  <2>5. CASE ~goesOn
    <3>1. Phase' = "after"
      BY <2>1, <2>5 DEF Phase
    <3>2. B!Finish
      BY <1>1, <2>1, <2>2, <2>3, <2>5, <3>1 DEF B!Finish, Phase, MadeLeft
    <3> QED
      BY <3>2 DEF B!Next
  <2> QED
    BY <2>4, <2>5
<1>5. CASE Crossing
  <2>1. i > Len(c_as) /\ job.pass = "cref"
    BY <1>2, <1>5, JobsAre DEF Crossing
  <2>2. ~goesOn
    BY <2>1 DEF NextJob
  <2>3. pc' = "ended" /\ status' = IF nerrs # 0 THEN 1 ELSE status
    <3> HIDE DEF goesOn
    <3>1. ~goesOn => pc' = "ended" /\ status' = IF nerrs # 0 THEN 1 ELSE status
      BY <2>1 DEF Back, goesOn
    <3> QED
      BY <2>2, <3>1
  <2>4. Phase = "after" /\ Phase' = "ended"
    BY <1>1, <2>1, <2>3 DEF Phase
  <2>5. Left = {} /\ MadeLeft = {} /\ Left' = {} /\ MadeLeft' = {}
    BY <1>1, <1>2, <2>1, <2>3, SourcesLeft DEF Left, MadeLeft
  <2>6. B!End
    BY <1>1, <1>2, <2>3, <2>4, <2>5 DEF B!End, Phase, MadeLeft
  <2> QED
    BY <2>6 DEF B!Next
<1> QED
  BY <1>2, <1>3, <1>4, <1>5, JobsAre

LEMMA StepImplements ==
  ASSUME IInv, IInv', [Next]_vars
  PROVE  [B!Next]_(B!vars)
<1>1. ASSUME NEW o \in Options, TakeOption(o) \/ Refuse(o) PROVE [B!Next]_(B!vars)
  <2>1. CASE TakeOption(o)
    <3>1. pc = "args" /\ UNCHANGED <<pc, i, job, nerrs, status>>
      BY <2>1 DEF TakeOption, Argument, Unworked
    <3>2. Left = {} /\ Left' = {} /\ MadeLeft = {} /\ MadeLeft' = {} /\ Phase' = Phase
      BY <3>1 DEF Left, MadeLeft, Phase
    <3> QED
      BY <3>1, <3>2, Stutters
  <2>2. CASE Refuse(o)
    BY <2>2, AbortImplements DEF Refuse, Argument, Unworked
  <2> QED
    BY <1>1, <2>1, <2>2
<1>2. ASSUME NEW b \in Bases, NEW k \in Kinds, TakeFile(b, k) PROVE [B!Next]_(B!vars)
  <2>1. pc = "args" /\ UNCHANGED <<pc, i, job, nerrs, status>>
    BY <1>2 DEF TakeFile, Argument, Unworked
  <2>2. Left = {} /\ Left' = {} /\ MadeLeft = {} /\ MadeLeft' = {} /\ Phase' = Phase
    BY <2>1 DEF Left, MadeLeft, Phase
  <2> QED
    BY <2>1, <2>2, Stutters
<1>3. CASE Doit
  BY <1>3, DoitImplements
<1>4. CASE NextSource
  BY <1>4, NextSourceImplements
<1>5. CASE AfterSources \/ GetAddresses
  BY <1>5, AfterSourcesImplements
<1>6. CASE CrossReference
  BY <1>6, CrossReferenceImplements
<1>7. CASE Redirect \/ Direct \/ NotFound \/ Answer
  BY <1>7, WaitImplements
<1>8. CASE CannotCreate \/ CannotSpawn \/ CannotRestore
  BY <1>8, AbortImplements DEF CannotCreate, CannotSpawn, CannotRestore, Error
<1>9. CASE Succeed \/ Fail
  BY <1>9, RanImplements
<1>10. CASE Back
  BY <1>10, BackImplements
<1>11. CASE UNCHANGED vars
  <2>1. UNCHANGED <<pc, on, c_as, i, job, nerrs, disk, status>>
    BY <1>11 DEF vars, command
  <2>2. Left' = Left /\ Phase' = Phase
    BY <2>1 DEF Left, Worked, Phase
  <2>3. MadeLeft' = MadeLeft
    BY <2>1, <2>2 DEF MadeLeft, Fresh, Product, Passes, Object, Assembler, Optimizes
  <2> QED
    BY <2>1, <2>2, <2>3, Stutters
<1> QED
  BY <1>1, <1>2, <1>3, <1>4, <1>5, <1>6, <1>7, <1>8, <1>9, <1>10, <1>11 DEF Next

(* main(), doit() and doexec() do what the manual says of the command:     *)
(* every source is worked on whatever becomes of the others, it is linked  *)
(* when none failed, and the status tells.                                 *)
THEOREM Implementation == Spec => ImplementsBuild
<1>1. Init => B!Init
  <2>1. SUFFICES ASSUME Init PROVE B!Init
    OBVIOUS
  <2>2. pc = "args" /\ nerrs = 0 /\ status = 0
    BY <2>1 DEF Init
  <2>3. Left = {} /\ MadeLeft = {}
    BY <2>2 DEF Left, MadeLeft
  <2> QED
    BY <2>2, <2>3 DEF B!Init, MadeLeft
<1>2. IInv /\ IInv' /\ [Next]_vars => [B!Next]_(B!vars)
  BY StepImplements
<1> QED
  BY <1>1, <1>2, Invariance, PTL DEF Spec, ImplementsBuild, B!Spec
=============================================================================
