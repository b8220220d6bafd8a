---------------------------- MODULE MCMonitoring ----------------------------
(* Small instances of Monitoring for TLC. *)
EXTENDS Monitoring

MCHosts == <<"local", "remote">>
MCLocal == {"local"}
MCSeries == {"a", "b"}
MCLevels == {1, 2, 3}

Seconds(m, n) == [local |-> m, remote |-> n]
Plain == [telegraf |-> TRUE, die |-> FALSE, seconds |-> Seconds(4, 0), late |-> 1, trash |-> {}, start |-> 1,
          metrics |-> [local |-> Metrics, remote |-> {"net"}], lower |-> FALSE]
MCOptions == {Plain,
              [Plain EXCEPT !.seconds = Seconds(4, 4), !.metrics = [local |-> {"net"}, remote |-> {"net"}],
                            !.trash = {"local"}, !.late = 0, !.lower = TRUE, !.die = TRUE],
              [Plain EXCEPT !.seconds = Seconds(0, 5), !.late = 0, !.metrics = [local |-> {}, remote |-> Metrics]],
              [Plain EXCEPT !.telegraf = FALSE]}
Service(quick, n) == [last |-> 3, faults |-> 1, quick |-> quick, lag |-> [a |-> 0, b |-> n]]
MCServices == {Service(TRUE, 0), Service(FALSE, 1)}
=============================================================================
