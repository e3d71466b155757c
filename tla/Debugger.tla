------------------------------ MODULE Debugger ------------------------------
(***************************************************************************)
(* What a remote debugger promises its user: the program runs or stands    *)
(* still; while it stands still its registers and memory are what the      *)
(* debugger reads and writes, and nothing else changes them.               *)
(***************************************************************************)
EXTENDS Integers

CONSTANTS Registers, Cells, Data

VARIABLES
  running,  \* the program runs
  regs,     \* its registers
  cells,    \* its memory
  req,      \* what the debugger asks: a record with a field do, or "none"
  answer    \* what it is told: a record with a field says, "nothing" at first

vars == <<running, regs, cells, req, answer>>

Nothing == [says |-> "nothing"]

Init == /\ ~running /\ regs \in Registers /\ cells \in [Cells -> Data]
        /\ req = [do |-> "none"] /\ answer = Nothing

Ask == /\ req.do = "none" /\ ~running
       /\ req' \in [do : {"hello", "ident", "registers", "go", "step"}]
             \cup [do : {"set"}, regs : Registers]
             \cup [do : {"read"}, from : Cells, to : Cells]
             \cup [do : {"write"}, from : Cells, data : UNION {[1..n -> Data] : n \in 0..2}]
       /\ UNCHANGED <<running, regs, cells, answer>>

(* A request is carried out once, as a whole, and answered with the truth. *)
Serve == /\ req.do # "none" /\ answer = Nothing
         /\ answer' = CASE req.do = "registers" -> [says |-> "registers", regs |-> regs]
                        [] req.do = "read" ->
                             [says |-> "data",
                              data |-> [i \in 1..(req.to - req.from + 1) |-> cells[req.from + i - 1]]]
                        [] OTHER -> [says |-> "done"]
         /\ running' = (req.do \in {"go", "step"})
         /\ regs' = IF req.do = "set" THEN req.regs ELSE regs
         /\ cells' = IF req.do # "write" THEN cells
                     ELSE [c \in Cells |-> IF c - req.from + 1 \in DOMAIN req.data
                                           THEN req.data[c - req.from + 1] ELSE cells[c]]
         /\ UNCHANGED req

Hear == /\ answer # Nothing /\ answer' = Nothing /\ req' = [do |-> "none"]
        /\ UNCHANGED <<running, regs, cells>>

(* The program runs from the registers it was given, and is stopped as it   *)
(* is.                                                                      *)
Run == /\ running
       /\ cells' \in [Cells -> Data] /\ regs' \in Registers
       /\ UNCHANGED <<running, req, answer>>

Stop == /\ running /\ running' = FALSE
        /\ UNCHANGED <<regs, cells, req, answer>>

Next == Ask \/ Serve \/ Hear \/ Run \/ Stop
Spec == Init /\ [][Next]_vars
=============================================================================
