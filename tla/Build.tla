------------------------------- MODULE Build -------------------------------
(***************************************************************************)
(* What the C command promises (manuals/Z80DOC.TXT, chapter 4): every      *)
(* source file is worked on, whatever becomes of the others; the linker is *)
(* invoked when none of them failed; the status tells whether anything     *)
(* failed.                                                                 *)
(***************************************************************************)
CONSTANT Sources

VARIABLES
  phase,  \* "args", "work", "link", "after", "ended"
  todo,   \* sources not yet dealt with
  made,   \* those of them whose product is there
  bad,    \* something failed
  status  \* the exit status, once ended

vars == <<phase, todo, made, bad, status>>

Init == phase = "args" /\ todo = {} /\ made = {} /\ bad = FALSE /\ status = 0

Begin == /\ phase = "args" /\ phase' = "work"
         /\ todo' \in SUBSET Sources
         /\ UNCHANGED <<made, bad, status>>

Make(s) == /\ phase = "work" /\ s \in todo /\ made' = made \cup {s}
           /\ UNCHANGED <<phase, todo, bad, status>>

(* Only a failure lets a source go without its product. *)
Leave(s) == /\ phase = "work" /\ s \in todo /\ (s \in made \/ bad)
            /\ todo' = todo \ {s} /\ made' = made \ {s}
            /\ UNCHANGED <<phase, bad, status>>

Fail == phase \in {"work", "link", "after"} /\ bad' = TRUE /\ UNCHANGED <<phase, todo, made, status>>

Link == /\ phase = "work" /\ todo = {} /\ ~bad /\ phase' = "link"
        /\ UNCHANGED <<todo, made, bad, status>>

Finish == /\ \/ phase = "link" /\ phase' = "after"
             \/ phase = "work" /\ todo = {} /\ phase' = "after"
          /\ UNCHANGED <<todo, made, bad, status>>

End == /\ phase = "after" /\ phase' = "ended"
       /\ status' = IF bad THEN 1 ELSE 0
       /\ UNCHANGED <<todo, made, bad>>

(* It may also give up at any time, and says so. *)
Abort == /\ phase # "ended" /\ phase' = "ended" /\ status' = 1
         /\ todo' = {} /\ made' = {} /\ UNCHANGED bad

Next == \/ Begin \/ Fail \/ Link \/ Finish \/ End \/ Abort
        \/ \E s \in Sources : Make(s) \/ Leave(s)
Spec == Init /\ [][Next]_vars
=============================================================================
