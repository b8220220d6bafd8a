---------------------------- MODULE MCTankWorker ----------------------------
(* Small instances of TankWorker for TLC. *)
EXTENDS TankWorker

CONSTANTS gun, mon, oth, upl

AllPlugins == {gun, mon, oth, upl}
JustGun == {gun}
JustMon == {mon}
JustOth == {oth}
JustUpl == {upl}
\* Every pair of plugins in both orders, every plugin first and last.
SomeOrders == {<<gun, mon, oth, upl>>, <<upl, oth, mon, gun>>,
               <<mon, upl, gun, oth>>, <<oth, gun, upl, mon>>}
PlainCodes == {-1, 0, 21}
=============================================================================
