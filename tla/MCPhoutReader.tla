----------------------------- MODULE MCPhoutReader -----------------------------
(* Small instances of PhoutReader for TLC. *)
EXTENDS PhoutReader

CONSTANTS a, b

MCReaders == {a, b}
=============================================================================
