----------------------------- MODULE MCUploader -----------------------------
(* Small instances of Uploader for TLC: two targets, one or two faults. *)
EXTENDS Uploader

MCThreads == {"main", "status", "data", "monitoring"}
Items(d, n) == [data |-> d, monitoring |-> n]
Plain == [writer |-> FALSE, ignore |-> FALSE, strict |-> FALSE, given |-> FALSE, busy |-> FALSE,
          faults |-> 1, items |-> Items(2, 1)]

MCOptions == {Plain,
              [Plain EXCEPT !.faults = 2, !.items = Items(1, 0)],
              [Plain EXCEPT !.writer = TRUE, !.strict = TRUE, !.given = TRUE, !.items = Items(1, 1)],
              [Plain EXCEPT !.busy = TRUE, !.items = Items(1, 0)],
              [Plain EXCEPT !.ignore = TRUE, !.busy = TRUE, !.items = Items(1, 0)]}
MCTargets == <<1, 2>>
=============================================================================
