----------------------------- MODULE Allocator ------------------------------
(***************************************************************************)
(* What a program relies on when it calls malloc(), free() and realloc():  *)
(* the blocks in its hands never share a unit of memory.  Each is a record *)
(* of its first unit and its length; a block of length 0 takes no unit.    *)
(***************************************************************************)
EXTENDS Integers

CONSTANTS
  Place,   \* the units a block may start at
  Length   \* the lengths a program asks for

VARIABLE blocks

Units(b) == b.base..(b.base + b.len - 1)

Init == blocks = {}

(* An answer other than NULL: memory nobody has. *)
Grant ==
  \E base \in Place, len \in Length :
    LET b == [base |-> base, len |-> len]
    IN /\ \A c \in blocks : c.base # base /\ Units(b) \cap Units(c) = {}
       /\ blocks' = blocks \cup {b}

(* free(), or the first thing realloc() does. *)
Revoke == \E b \in blocks : blocks' = blocks \ {b}

Next == Grant \/ Revoke

Spec == Init /\ [][Next]_blocks
=============================================================================
