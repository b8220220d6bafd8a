---------------------------- MODULE MCGenerators ----------------------------
(* Small instances of Generators for TLC: each generator with the faults it *)
(* can meet, two lines of results and one that is left half written.        *)
EXTENDS Generators

LOCAL Answer(v6, up) == [v6 |-> v6, up |-> up]
LOCAL Host == [form |-> "host:port", port |-> 81, found |-> <<Answer(TRUE, FALSE), Answer(FALSE, TRUE)>>]
LOCAL Plan(steps, ammo, n) == [stpd |-> TRUE, steps |-> steps, loops |-> "1", ammo |-> ammo, duration |-> 2, instances |-> n]
LOCAL Section == [address |-> Host, port |-> NoPort, test |-> TRUE, ssl |-> FALSE, key |-> TRUE, tank |-> "http",
                  limits |-> FALSE, instances |-> 10, plan |-> Plan(<< <<1, 1>>, <<3, 2>> >>, 7, 0), writelog |-> "0"]
LOCAL Streams(multi) == Section @@ [multi |-> multi]
LOCAL Second == [plan |-> Plan(<< <<2, 2>>, <<5, 2>> >>, 14, 4), ssl |-> TRUE, port |-> 82]
LOCAL Third == [plan |-> Plan(<< <<4, 1>> >>, 4, 0), tank |-> "none", test |-> FALSE]
LOCAL Unreachable == [address |-> [Host EXCEPT !.found = <<Answer(FALSE, FALSE)>>]]

LOCAL Pool == [ammo |-> "remote", result |-> "none", destination |-> 7, gun |-> TRUE, answlog |-> "unnamed",
               target |-> TRUE, rps |-> FALSE]
LOCAL Pandora == [downloads |-> TRUE, content |-> "content", monitoring |-> "none", expvar |-> FALSE, enabled |-> FALSE,
                  pools |-> <<Pool, [Pool EXCEPT !.result = "phout"]>>]
LOCAL Jmx == [found |-> TRUE, lines |-> 9, workbench |-> TRUE, log |-> "errors", writable |-> FALSE]

LOCAL Of(gen, conf) ==
    [gen |-> gen, conf |-> conf, old |-> FALSE, given |-> FALSE, engine |-> "ok", rc |-> 0, deaf |-> FALSE, child |-> FALSE,
     silent |-> FALSE, port |-> TRUE, statsPath |-> FALSE, poll |-> 0, end |-> 0, low |-> FALSE, pass |-> {},
     fail |-> 1, halves |-> 4, seconds |-> 0]

LOCAL Stats(option) == [option EXCEPT !.halves = 1, !.seconds = 2]

LOCAL Phantom == Of("phantom", PhantomConfig(Streams(<<Second, Third>>)))
LOCAL WithoutExpvar == PandoraConfig([Pandora EXCEPT !.monitoring = "other"])
LOCAL PandoraGun == [Of("pandora", WithoutExpvar) EXCEPT !.old = TRUE]
LOCAL JMeter == [Of("jmeter", JMeterConfig(Jmx)) EXCEPT !.halves = 5]
LOCAL ShootExec == [Of("shootexec", [ok |-> TRUE]) EXCEPT !.old = TRUE]

MCOptions ==
    {Phantom, [Phantom EXCEPT !.rc = -6, !.deaf = TRUE, !.fail = 2], [Phantom EXCEPT !.engine = "rejects"],
     [Phantom EXCEPT !.given = TRUE, !.old = TRUE, !.rc = 1, !.pass = {0, 1}], Stats(Phantom),
     [Phantom EXCEPT !.conf = PhantomConfig(Streams(<<Unreachable>>))],
     PandoraGun, [PandoraGun EXCEPT !.rc = 1, !.silent = TRUE], [PandoraGun EXCEPT !.engine = "missing", !.poll = -15],
     [PandoraGun EXCEPT !.rc = 2, !.pass = {0}], Stats([PandoraGun EXCEPT !.conf = PandoraConfig(Pandora)]),
     JMeter, [JMeter EXCEPT !.rc = 1, !.port = FALSE, !.halves = 4],
     [JMeter EXCEPT !.conf = JMeterConfig([Jmx EXCEPT !.lines = 6])], [JMeter EXCEPT !.rc = -9, !.deaf = TRUE, !.halves = 3],
     ShootExec, Stats([ShootExec EXCEPT !.statsPath = TRUE, !.rc = 3, !.end = 1]), [ShootExec EXCEPT !.deaf = TRUE, !.poll = 4],
     [ShootExec EXCEPT !.child = TRUE, !.poll = 1, !.halves = 3],
     [ShootExec EXCEPT !.low = TRUE]}
=============================================================================
