----------------------------- MODULE MCStream ------------------------------
(* Small instances of a stdio stream for TLC. *)
EXTENDS Stream

Mode(type, plus, bin) == [type |-> type, plus |-> plus, bin |-> bin]

\* Modes for reading, for writing, and a text stream for both.
MostModes == {Mode("r", FALSE, FALSE), Mode("w", FALSE, FALSE), Mode("a", FALSE, FALSE),
              Mode("r", FALSE, TRUE), Mode("r", TRUE, FALSE)}

\* And a binary stream for both.
AllModes == MostModes \cup {Mode("r", TRUE, TRUE)}

\* An empty file, one whose last sector is padded, one that fills it.
Files == {<<>>, <<X, CPMETX>>, <<X, CR, NL, X>>}
============================================================================
