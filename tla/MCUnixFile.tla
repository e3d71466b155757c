----------------------------- MODULE MCUnixFile -----------------------------
(* Small instances of the files over CP/M for TLC. *)
EXTENDS UnixFile
=============================================================================
