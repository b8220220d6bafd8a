-------------------------- MODULE MonitoringPanels --------------------------
(***************************************************************************)
(* The collector of panels (common/monitoring.py) with a sensor that asks  *)
(* a monitoring service (plugins/YCMonitoring/sensor.py): the sensor's     *)
(* thread asks for the values of a window of time and puts them into the   *)
(* queue of its panel; the panel's thread moves them by timestamp to the   *)
(* collector's buffer, which the plugin's poll swaps for an empty one.     *)
(*                                                                         *)
(* A value is its series and its second.  The sensors of a panel stay      *)
(* empty (add_sensors drops the union), so a timestamp is complete as soon *)
(* as it is there.                                                         *)
(***************************************************************************)
EXTENDS Integers, FiniteSets, Sequences

CONSTANTS
    Series,    \* the series that the query of the sensor gives
    Services   \* what is tried

VARIABLES
    service,      \* the bounds last and faults; the lag of every series; quick: a request is
                  \* shorter than the pause before a panel is closed
    now,          \* the clock, in seconds
    sensor,       \* the sensor: its thread, its window, the requests that may fail
    panel,        \* the panel: its thread, the queue and the buffer of both
    stop          \* stop_event

panels == <<service, now, sensor, panel, stop>>

PanelsInit ==
    /\ now = 0 /\ stop = FALSE
    /\ sensor = [thread |-> "idle", from |-> 0, to |-> 1, got |-> FALSE, faults |-> service.faults]
    /\ panel = [thread |-> "idle", queue |-> << >>, data |-> << >>]

Tick == now < service.last /\ now' = now + 1 /\ UNCHANGED <<service, sensor, panel, stop>>

CollectorStarts ==
    /\ sensor' = [sensor EXCEPT !.thread = "loop"] /\ panel' = [panel EXCEPT !.thread = "loop"]
    /\ UNCHANGED <<service, now, stop>>

\* run_sensor, after poll_interval (a second or more): a request for what follows
\* the last window that gave data, to the next second.
Fetch ==
    /\ sensor.thread = "loop" /\ ~stop /\ now >= sensor.to
    /\ sensor' = [sensor EXCEPT !.thread = "asks", !.from = IF sensor.got THEN sensor.to ELSE @,
                    !.to = now + 1, !.got = FALSE]
    /\ UNCHANGED <<service, now, panel, stop>>

\* The service has a series up to `lag` seconds ago.
Values(from, to) == {<<s, t>> : s \in Series, t \in from..to} \cap
                    {<<s, t>> : s \in Series, t \in 0..now}
Known(from, to) == {v \in Values(from, to) : v[2] <= now - service.lag[v[1]]}

Answered ==
    /\ sensor.thread = "asks"
    /\ LET values == Known(sensor.from, sensor.to)
       IN /\ sensor' = [sensor EXCEPT !.thread = "loop", !.got = values # {}]
          /\ panel' = [panel EXCEPT !.queue = IF values = {} THEN @ ELSE Append(@, values)]
    /\ UNCHANGED <<service, now, stop>>

\* The request fails, or its answer is no JSON.
NotAnswered ==
    /\ sensor.thread = "asks" /\ sensor.faults > 0
    /\ sensor' = [sensor EXCEPT !.thread = "loop", !.faults = @ - 1]
    /\ UNCHANGED <<service, now, panel, stop>>

SensorEnds ==
    /\ sensor.thread = "loop" /\ stop
    /\ sensor' = [sensor EXCEPT !.thread = "dead"] /\ UNCHANGED <<service, now, panel, stop>>

\* process_queue and get_metrics: the queue by timestamp, into the buffer.
Processed(queue) == UNION {queue[i] : i \in DOMAIN queue}
Items(values) == {[ts |-> t, series |-> {v[1] : v \in {v \in values : v[2] = t}}] : t \in {v[2] : v \in values}}

Moved == [panel EXCEPT !.queue = << >>,
            !.data = IF Processed(panel.queue) = {} THEN @ ELSE Append(@, Items(Processed(panel.queue)))]

PanelTurn ==
    /\ panel.thread = "loop" /\ ~stop /\ panel.queue # << >>
    /\ panel' = Moved /\ UNCHANGED <<service, now, sensor, stop>>

\* Mutant: what is in the queue when the panel is closed stays there.
PanelEndsAtOnce ==
    /\ panel.thread = "loop" /\ stop
    /\ service.quick => sensor.thread # "asks"
    /\ panel' = [panel EXCEPT !.thread = "dead"] /\ UNCHANGED <<service, now, sensor, stop>>

\* When a request lasts no longer than the pause before this, the sensor has ended.
PanelEnds ==
    /\ panel.thread = "loop" /\ stop
    /\ service.quick => sensor.thread # "asks"
    /\ panel' = [Moved EXCEPT !.thread = "dead"] /\ UNCHANGED <<service, now, sensor, stop>>

Threads == Fetch \/ Answered \/ SensorEnds \/ PanelTurn \/ PanelEnds
=============================================================================
