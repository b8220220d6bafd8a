-------------------------------- MODULE MCBfg --------------------------------
(* Small instances of Bfg for TLC. *)
EXTENDS Bfg

CONSTANTS w1, w2

MCWorkers == {w1, w2}

Test(type, n, s) == [type |-> type, tasks |-> n, sigints |-> s]
MCOptions == {Test("default", 2, 1), Test("green", 1, 1)}
=============================================================================
