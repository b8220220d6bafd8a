----------------------------- MODULE MCAutostop -----------------------------
(* Small instances of Autostop for TLC: response times of three bins, three   *)
(* or four responses to a second, windows of two and three seconds.           *)
EXTENDS Autostop

Metrics(hist, match) == [hist |-> hist, match |-> match]
None == Metrics(<<0, 0, 0>>, 0)

Fast == [overall |-> Metrics(<<2, 0, 0>>, 0), tagged |-> None, instances |-> 1]
Mixed == [overall |-> Metrics(<<1, 0, 1>>, 1), tagged |-> Metrics(<<1, 0, 0>>, 0), instances |-> 2]
SlowTag == [overall |-> Metrics(<<0, 1, 3>>, 1), tagged |-> Metrics(<<0, 0, 1>>, 1), instances |-> 1]
Errors == [overall |-> Metrics(<<1, 1, 0>>, 2), tagged |-> Metrics(<<1, 1, 0>>, 2), instances |-> 2]

MCSamples == {Fast, Mixed, SlowTag, Errors}

Basic(type, tag, level, limit, seconds) ==
    [type |-> type, tag |-> tag, relative |-> FALSE, level |-> level, limit |-> limit, seconds |-> seconds]
Relative(type, tag, level, seconds) ==
    [type |-> type, tag |-> tag, relative |-> TRUE, level |-> level, limit |-> 0, seconds |-> seconds]

MCConfigs ==
    { << Basic("time", FALSE, 0, 1, 2), Relative("total_http", FALSE, 40, 2) >>,
      << Basic("quantile", FALSE, 75, 2, 2), Basic("quantile", TRUE, 50, 1, 2), Basic("negative_net", FALSE, 5, 0, 3) >>,
      << Relative("http", TRUE, 50, 2), Basic("limit", FALSE, 0, 0, 1) >>,
      << Basic("limit", FALSE, 0, 0, 1), Basic("time", TRUE, 0, 1, 3) >>,
      << Basic("total_time", FALSE, 60, 2, 2), Basic("http_trend", FALSE, 0, 0, 2) >>,
      << Basic("http_trend", TRUE, 0, 0, 3), Relative("negative_http", TRUE, 60, 2) >>,
      << Basic("instances", FALSE, 1, 0, 2), Basic("net", FALSE, 2, 0, 2), Basic("total_net", TRUE, 3, 0, 3) >>,
      << Basic("total_time", TRUE, 60, 2, 3) >> }
=============================================================================
