----------------------------- MODULE MCTankLock -----------------------------
(* Small instances of TankLock for TLC. *)
EXTENDS TankLock

CONSTANTS t1, t2

OnlyT1 == {t1}
Pair == {t1, t2}
=============================================================================
