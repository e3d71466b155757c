------------------------------- MODULE Script -------------------------------
(***************************************************************************)
(* What a command file means: commands in order, each once; a program that *)
(* fails ends the file, is ignored, or leads to the next TRAP; IF_ERR and  *)
(* IF_NERR skip a command by whether any program has failed so far.        *)
(***************************************************************************)
EXTENDS Naturals, Sequences

CONSTANTS Codes, Names

EXIT == 0
EXEC == 1
IGN_ERR == 2
DEF_ERR == 3
SKP_ERR == 4
TRAP == 5
IF_ERR == 6
IF_NERR == 7
RM_EXIT == 11

VARIABLES
  todo,    \* commands to come: pairs of a code and a name
  act,     \* what a failure does: "exit", "ignore" or "skip"
  failed,  \* some program failed
  last,    \* how the last program ended: "ok" or "error"
  running, \* the name of the program that runs, or "none"
  phase    \* "judge" the last program, "do" the next command, "over"

vars == <<todo, act, failed, last, running, phase>>

Init == /\ todo \in Seq(Codes \X (Names \cup {"none"})) /\ act = "exit" /\ failed = FALSE /\ last = "ok"
        /\ running = "none" /\ phase = "judge"

(* The first TRAP ends a skip, an EXIT before it or the end of the file     *)
(* ends everything.                                                         *)
Stops(i) == todo[i][1] \in {TRAP, EXIT}
First == CHOOSE i \in DOMAIN todo : Stops(i) /\ \A k \in 1..(i - 1) : ~Stops(k)
Skips == (\E i \in DOMAIN todo : Stops(i)) /\ todo[First][1] = TRAP

Judge ==
  /\ phase = "judge" /\ running = "none" /\ last' = "ok"
  /\ failed' = (failed \/ last = "error")
  /\ IF last = "ok" \/ act = "ignore" THEN phase' = "do" /\ UNCHANGED todo
     ELSE IF act = "skip" /\ Skips
          THEN phase' = "do" /\ todo' = SubSeq(todo, First + 1, Len(todo))
     ELSE phase' = "over" /\ todo' = <<>>
  /\ UNCHANGED <<act, running>>

Do ==
  /\ phase = "do"
  /\ IF todo = <<>> THEN phase' = "over" /\ UNCHANGED <<todo, act, failed, last, running>>
     ELSE LET c == Head(todo)[1]
              skips == (c = IF_ERR /\ ~failed) \/ (c = IF_NERR /\ failed)
          IN /\ act' = CASE c = IGN_ERR -> "ignore" [] c = DEF_ERR -> "exit"
                         [] c = SKP_ERR -> "skip" [] OTHER -> act
             /\ running' = IF c = EXEC THEN Head(todo)[2] ELSE "none"
             /\ IF c \in {EXIT, RM_EXIT} \/ (skips /\ Len(todo) = 1)
                THEN phase' = "over" /\ todo' = <<>>
                ELSE phase' = "judge" /\ todo' = IF skips THEN Tail(Tail(todo)) ELSE Tail(todo)
             /\ UNCHANGED <<failed, last>>

(* A program ends, or turns into another one; a user, or bytes that are no  *)
(* command, may break off the whole.                                        *)
Ends == /\ running # "none" /\ running' \in Names \cup {"none"} /\ last' \in {"ok", "error"}
        /\ UNCHANGED <<todo, act, failed, phase>>
BreakOff == /\ phase # "over" /\ phase' = "over" /\ running' = "none"
            /\ todo' = <<>> /\ UNCHANGED <<act, failed, last>>

Next == Judge \/ Do \/ Ends \/ BreakOff
Spec == Init /\ [][Next]_vars
=============================================================================
