---------------------------- MODULE MCExecChain ----------------------------
(* A small instance of the command processor for TLC. *)
EXTENDS ExecChain
=============================================================================
