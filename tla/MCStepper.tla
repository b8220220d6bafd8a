------------------------------ MODULE MCStepper ------------------------------
(* Small instances of StepperWrapper for TLC. *)
EXTENDS StepperWrapper

MCRuns == 1..3
MCKeys == 0..2
MCTexts == {<<"a", "b", NL, "c">>, <<NL, "a", "b", "c", NL, NL>>, << >>}
MCSizes == 1..3

Plan1 == <<[kind |-> "const", from |-> 2, to |-> 2, by |-> 0, dur |-> 2000]>>
S(kind, from, to, by, dur) == [kind |-> kind, from |-> from, to |-> to, by |-> by, dur |-> dur]
A == [t |-> "ammo", m |-> ""]
B == [t |-> "ammo", m |-> "b"]
H == [t |-> "header", m |-> ""]
Z == [t |-> "zero", m |-> ""]
X == [t |-> "bad", m |-> ""]
Sharp == [t |-> "#", m |-> ""]

Base == [stream |-> FALSE, type |-> "line", format |-> "line", source |-> "file", nohead |-> FALSE,
         file |-> <<A, B, A>>, loop |-> None, ammo |-> None, load |-> "rps", steps |-> Plan1,
         cases |-> {}, enum |-> FALSE, auto |-> "", space |-> 100, caching |-> TRUE, forced |-> {},
         overlap |-> {}, runs |-> 1, versions |-> 1, faults |-> 0, kills |-> 0, given |-> FALSE]
Readers == {
    [Base EXCEPT !.loop = 2, !.enum = TRUE],
    [Base EXCEPT !.type = "phantom", !.format = "phantom", !.ammo = 2, !.cases = {"b"}],
    [Base EXCEPT !.type = "phantom", !.format = "phantom", !.file = <<A, Z, B>>, !.load = "instances", !.loop = 3,
                 !.steps = <<S("line", 1, 3, 0, 1000)>>],
    [Base EXCEPT !.type = "phantom", !.format = "uri", !.file = <<A, H, B>>, !.enum = TRUE],
    [Base EXCEPT !.type = "uripost", !.file = <<H, Z, B, X>>],
    [Base EXCEPT !.type = "uripost", !.file = <<H, Z, H, B>>, !.cases = {"b"}, !.auto = "uri"],
    [Base EXCEPT !.type = "uripost", !.file = <<H, H>>],
    [Base EXCEPT !.auto = "uniq"], [Base EXCEPT !.auto = "uri", !.enum = TRUE, !.cases = {"b"}],
    [Base EXCEPT !.auto = "2"], [Base EXCEPT !.cases = {"b"}], [Base EXCEPT !.file = << >>],
    [Base EXCEPT !.type = "phantom", !.format = "phantom", !.file = <<Z, A>>],
    [Base EXCEPT !.type = "slowlog", !.file = <<Sharp, A, A, Sharp, A>>, !.loop = 2],
    [Base EXCEPT !.type = "slowlog", !.file = <<A, A>>, !.loop = 2],
    [Base EXCEPT !.type = "slowlog", !.file = <<A>>, !.ammo = 1],
    [Base EXCEPT !.type = "access", !.file = <<X, A>>, !.load = "instances", !.steps = << >>],
    [Base EXCEPT !.type = "access", !.file = <<X, A>>, !.space = 1],
    [Base EXCEPT !.type = "access", !.file = <<X>>, !.loop = 2],
    [Base EXCEPT !.type = "uri", !.file = <<H>>],
    [Base EXCEPT !.type = "caseline", !.load = "instances", !.steps = << >>, !.loop = 0],
    [Base EXCEPT !.type = "caseline", !.cases = {"b"}, !.ammo = 0],
    [Base EXCEPT !.source = "uris", !.loop = 2],
    [Base EXCEPT !.load = "stpd_file", !.given = TRUE], [Base EXCEPT !.load = "stpd_file"]}
Planned(load, steps) == [Base EXCEPT !.load = load, !.steps = steps, !.loop = 1]
Plans == {
    Planned("rps", <<S("line", 0, 4, 0, 3000), S("const", 3, 3, 0, 1000)>>),
    Planned("rps", <<S("line", 4, 1, 0, 2000), S("step", 1, 4, 2, 1000)>>),
    Planned("rps", <<S("step", 4, 1, 2, 1000), S("line", 2, 2, 0, 1500)>>),
    Planned("rps", <<S("step", 1, 3, 0, 1000)>>), Planned("rps", <<S("line", 1, 3, 0, 0)>>),
    Planned("instances", <<S("const", 0, 3, 0, 1000), S("line", 5, 8, 0, 2000), S("ramp", 0, 2, 0, 100)>>),
    Planned("instances", <<S("step", 1, 6, 2, 1000), S("wait", 0, 0, 0, 500), S("ramp", 0, 3, 0, 1000)>>),
    Planned("instances", <<S("const", 0, 3, 0, 1000), S("line", 1, 2, 0, 1000)>>),
    Planned("instances", <<S("ramp", 0, 1, 0, 1000)>>), Planned("instances", <<S("start", 0, 1, 0, 0)>>)}
Shared == [Base EXCEPT !.source = "http", !.file = <<A, B>>, !.kills = 1, !.versions = 2,
                         !.runs = 3, !.ammo = 1]
Files == {
    [Shared EXCEPT !.faults = 2], [Shared EXCEPT !.nohead = TRUE, !.forced = {2}, !.type = "phantom"],
    [Shared EXCEPT !.overlap = {2}, !.versions = 1, !.kills = 1, !.forced = {3}],
    [Shared EXCEPT !.source = "s3", !.faults = 2], [Shared EXCEPT !.caching = FALSE, !.faults = 4, !.kills = 1],
    [Shared EXCEPT !.source = "file", !.forced = {2, 3}]}
MCOptions == Readers \cup Plans \cup Files \cup {[Base EXCEPT !.stream = TRUE]}
=============================================================================
