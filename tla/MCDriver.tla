----------------------------- MODULE MCDriver -----------------------------
(* A small instance of the C command for TLC. *)
EXTENDS Driver
=============================================================================
