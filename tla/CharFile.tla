------------------------------ MODULE CharFile ------------------------------
(***************************************************************************)
(* What stdio promises of a stream, whatever its buffer does: a text and a *)
(* position in it.  fputc() puts bytes at the position, replacing what is  *)
(* there or making the text longer, and moves on by each of them; fgetc()  *)
(* moves on over bytes one at a time and changes nothing; only the other   *)
(* calls move the position otherwise.  The file beneath grows by sectors,  *)
(* so padding may appear at the end.  When the stream says that an error   *)
(* occurred, bytes may have been lost, and it goes on saying so until it   *)
(* is opened again.                                                        *)
(***************************************************************************)
EXTENDS Integers, Sequences

CONSTANTS
  Char,  \* bytes a program writes, and what goes with them
  PAD    \* the byte that pads the last sector

VARIABLES
  text,  \* the bytes of the stream
  pos,   \* bytes before the position
  err,   \* the stream's error indicator
  open,  \* is the stream open
  call   \* the call that is being made, "none" between calls

Init == /\ pos = 0 /\ err = FALSE /\ text \in Seq(Char \cup {PAD}) /\ open \in BOOLEAN
        /\ call = "none"

(* The file is opened, its old contents kept or thrown away; or it was to  *)
(* be opened and could not.                                                *)
Open ==
  /\ ~open /\ open' \in BOOLEAN
  /\ text' \in {text, <<>>} /\ pos' \in 0..Len(text') /\ err' = FALSE

Close == open /\ open' = FALSE /\ UNCHANGED <<text, pos, err>>

Put ==
  /\ open /\ call = "fputc"
  /\ Len(text') >= Len(text) /\ Len(text') > pos
  /\ \E c \in Char : \A i \in DOMAIN text' :
       text'[i] = IF i = pos + 1 THEN c ELSE IF i \in DOMAIN text THEN text[i] ELSE PAD
  /\ pos' = pos + 1
  /\ UNCHANGED <<err, open>>

Get ==
  /\ open /\ call = "fgetc"
  /\ pos < Len(text) /\ pos' = pos + 1
  /\ UNCHANGED <<text, err, open>>

(* A seek, a byte pushed back, or what was read ahead thrown away.         *)
Seek ==
  /\ open /\ call \notin {"fgetc", "fputc"}
  /\ pos' \in 0..Len(text)
  /\ UNCHANGED <<text, err, open>>

(* A call begins or ends. *)
Call == UNCHANGED <<text, pos, err, open>>

Lose == open /\ err' = TRUE

Next == Open \/ Close \/ Put \/ Get \/ Seek \/ Call \/ Lose

Spec == Init /\ [][Next]_<<text, pos, err, open, call>>
=============================================================================
