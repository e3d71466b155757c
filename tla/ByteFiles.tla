----------------------------- MODULE ByteFiles ------------------------------
(***************************************************************************)
(* What unixio.h promises of files: a file is a string of bytes, each open *)
(* descriptor has a position in one file, and a transfer moves a run of    *)
(* bytes at the position and no others.  CP/M knows only whole sectors;    *)
(* what shows of that is that bytes nobody wrote may come into being, as   *)
(* padding, next to the bytes written.                                     *)
(***************************************************************************)
EXTENDS Integers

CONSTANTS
  Name,   \* full names of files
  Fd,     \* descriptors
  Byte,   \* values of a byte
  PAD,    \* the byte that pads a file
  Pos     \* positions in a file

NoFile == <<>>  \* there is no such file
NoName == <<>>  \* the descriptor is not open on a file
HOLE   == -1    \* there is no byte at this position

VARIABLES
  file,  \* contents of each file
  at     \* file and position of each descriptor that is open on a file

Shut == [name |-> NoName, pos |-> 0]

Init ==
  /\ file = [n \in Name |-> NoFile]
  /\ at = [fd \in Fd |-> Shut]

(* A descriptor is opened on a file that exists, moved, or closed; dup()   *)
(* opens one at the position of another.                                   *)
Point ==
  /\ \E fd \in Fd :
       /\ at' = [at EXCEPT ![fd] = at'[fd]]
       /\ at'[fd] = Shut \/ file[at'[fd].name] # NoFile
       /\ at[fd].name \in {NoName, at'[fd].name} \/ at'[fd] = Shut
  /\ UNCHANGED file

(* All of them are closed when the program ends. *)
Exit == at' = [fd \in Fd |-> Shut] /\ UNCHANGED file

(* Files come and go only while no descriptor is open on them. *)
Idle(n) == \A fd \in Fd : at[fd].name # n

(* A new file has no bytes, and its descriptor is at the start. *)
Create ==
  \E fd \in Fd, n \in Name :
    /\ at[fd] = Shut /\ Idle(n)
    /\ file' = [file EXCEPT ![n] = [i \in Pos |-> HOLE]]
    /\ at' = [at EXCEPT ![fd] = [name |-> n, pos |-> 0]]

Delete ==
  /\ \E n \in Name : Idle(n) /\ file' = [file EXCEPT ![n] = NoFile]
  /\ UNCHANGED at

Rename ==
  /\ \E n, m \in Name :
       /\ Idle(n) /\ Idle(m)
       /\ file' = [file EXCEPT ![n] = NoFile, ![m] = file[n]]
  /\ UNCHANGED at

(* One byte or more go to the position; the rest of the file stays, but    *)
(* for holes that get a padding byte.                                      *)
Written(n, run, b) ==
  /\ file' = [file EXCEPT ![n] = file'[n]]
  /\ \A i \in Pos : \/ i \in run /\ file'[n][i] = b
                    \/ i \notin run /\ file'[n][i] = file[n][i]
                    \/ i \notin run /\ file[n][i] = HOLE /\ file'[n][i] = PAD

PutUpTo(fd, last, b) ==
  /\ at[fd].name # NoName
  /\ at[fd].pos <= last /\ at[fd].pos..last \subseteq Pos
  /\ Written(at[fd].name, at[fd].pos..last, b)
  /\ at' = [at EXCEPT ![fd].pos = last + 1]

Put == \E fd \in Fd, last \in Pos, b \in Byte : PutUpTo(fd, last, b)

Next == Point \/ Exit \/ Create \/ Delete \/ Rename \/ Put

Spec == Init /\ [][Next]_<<file, at>>
=============================================================================
