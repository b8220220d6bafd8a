--------------------------- MODULE MCDataSession ---------------------------
(* Small instances of DataSession for TLC. *)
EXTENDS DataSession

MCAggregates == <<"aggregates">>

Metric(raw, aggregate, parent) == [raw |-> raw, aggregate |-> aggregate, parent |-> parent]
MCMetrics == [cpu |-> Metric(TRUE, TRUE, "none"), core |-> Metric(TRUE, FALSE, "cpu")]

New(m) == [call |-> "metric", metric |-> m]
Rows(m, seconds) == [call |-> "put", metric |-> m, seconds |-> seconds]
Update(name) == [call |-> name]

\* The child's rows come first; the parent's are of three seconds.
Two == <<New("cpu"), New("core"), Rows("core", {1}), Rows("cpu", {1, 2}), Rows("cpu", {1, 4})>>
Late == <<New("cpu"), Rows("cpu", {1, 4}), Rows("cpu", {2}), Rows("cpu", {5})>>
Few == <<New("cpu"), New("core"), Update("update_metric"), Rows("cpu", {1, 2}), Rows("core", {1}), Update("update")>>

Session == [clients |-> <<"luna">>, metrics |-> MCMetrics, program |-> Two, faults |-> 0,
            interrupt |-> FALSE, address |-> TRUE]
MCOptions == {Session,
              [Session EXCEPT !.program = Few, !.faults = 2],
              [Session EXCEPT !.program = Late, !.clients = <<"volta", "local", "luna">>, !.faults = 1],
              [Session EXCEPT !.program = Late, !.clients = <<"local">>],
              [Session EXCEPT !.program = Late, !.interrupt = TRUE],
              [Session EXCEPT !.program = Few, !.address = FALSE]}
=============================================================================
