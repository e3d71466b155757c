----------------------------- MODULE MCLucifer -----------------------------
(* A small instance of the monitor and its debugger for TLC. *)
EXTENDS Lucifer
=============================================================================
