--------------------------- MODULE TankAggregator ---------------------------
(***************************************************************************)
(* yandextank/aggregator/tank_aggregator.py: two threads drain the samples *)
(* (aggregated by the second, see TimeChopper) and the statistics of the   *)
(* load generator into queues; the thread of the worker empties the queues *)
(* at each poll, joins samples and statistics of the same second and gives *)
(* them to the listeners; the end of the test waits for the threads, but   *)
(* not for ever, and gives the rest.                                       *)
(*                                                                         *)
(* An item is named by its second.  A listener may raise (Autostop, an     *)
(* uploader, a widget): nothing catches it here.                           *)
(***************************************************************************)
EXTENDS Naturals, Sequences, SequencesExt, FiniteSets

CONSTANTS
    MaxTs,       \* bound: the seconds are 1..MaxTs
    MaxRaises    \* bound: exceptions of listeners

AggregatorAssumption ==
    /\ MaxTs \in Nat
    /\ MaxRaises \in Nat

ASSUME AggregatorAssumption

Ts == 1 .. MaxTs
Drains == {"gun", "stats"}

VARIABLES
    pc,             \* the worker: see TypeOK
    ending,         \* _collect_data was called with end=True
    gotData,        \* the items it took from results and did not handle yet
    gotStats,       \* and from stats_results
    dataCache, statCache,
    flushing,       \* what it still gives of dataCache at the end
    results, statsResults,           \* the queues
    drain,          \* each thread: "new", at the "next" item, at the "check" after it, "over"
    interrupted,    \* the threads that were told to stop
    gunStream, gunOver,              \* what the chopper gave, and that it is exhausted
    statsStream, statsOver,          \* the same of the stats reader
    raises,         \* exceptions of listeners so far (history)
    delivered,      \* what the listeners got, and whether with statistics (history)
    dropped,        \* seconds whose item was in hand when a listener raised (history)
    warned          \* threads a warning was logged about

main == <<pc, ending, gotData, gotStats, dataCache, statCache, flushing>>
gun == <<results, gunStream, gunOver>>
stats == <<statsResults, statsStream, statsOver>>
history == <<raises, delivered, dropped>>
closing == <<interrupted, warned>>

vars == <<main, gun, stats, drain, history, closing>>

\* The streams the threads read: TimeChopper implements it when no source goes back.
Gun == INSTANCE SecondStream WITH Seconds <- Ts, stream <- gunStream, over <- gunOver
Stats == INSTANCE SecondStream WITH Seconds <- Ts, stream <- statsStream, over <- statsOver

Init ==
    /\ pc = "new" /\ ending = FALSE
    /\ gotData = << >> /\ gotStats = << >>
    /\ dataCache = {} /\ statCache = {} /\ flushing = {}
    /\ results = << >> /\ statsResults = << >>
    /\ drain = [d \in Drains |-> "new"]
    /\ interrupted = {}
    /\ Gun!Init
    /\ Stats!Init
    /\ raises = 0 /\ delivered = << >> /\ dropped = {}
    /\ warned = {}

-----------------------------------------------------------------------------
(***************************************************************************)
(* The threads                                                             *)
(***************************************************************************)

GunPut ==
    /\ drain["gun"] = "next"
    /\ \E ts \in Ts :
          /\ Gun!Emit(ts)
          /\ results' = Append(results, ts)
    /\ drain' = [drain EXCEPT !["gun"] = "check"]
    /\ UNCHANGED <<main, stats, history, closing>>

StatsPut ==
    /\ drain["stats"] = "next"
    /\ \E ts \in Ts :
          /\ Stats!Emit(ts)
          /\ statsResults' = Append(statsResults, ts)
    /\ drain' = [drain EXCEPT !["stats"] = "check"]
    /\ UNCHANGED <<main, gun, history, closing>>

\* The source is exhausted or raises; the loop of run ends either way.
GunOver ==
    /\ drain["gun"] = "next"
    /\ Gun!End
    /\ drain' = [drain EXCEPT !["gun"] = "over"]
    /\ UNCHANGED <<results, main, stats, history, closing>>

StatsOver ==
    /\ drain["stats"] = "next"
    /\ Stats!End
    /\ drain' = [drain EXCEPT !["stats"] = "over"]
    /\ UNCHANGED <<statsResults, main, gun, history, closing>>

\* if self._interrupted.is_set(): break
Check(d) ==
    /\ drain[d] = "check"
    /\ drain' = [drain EXCEPT ![d] = IF d \in interrupted THEN "over" ELSE "next"]
    /\ UNCHANGED <<main, gun, stats, history, closing>>

-----------------------------------------------------------------------------
(***************************************************************************)
(* _collect_data                                                           *)
(***************************************************************************)

TakeData ==
    /\ pc \in {"test", "collect"}
    /\ ending' = (pc = "collect")
    /\ gotData' = results
    /\ results' = << >>
    /\ pc' = "stats"
    /\ UNCHANGED <<gotStats, dataCache, statCache, flushing, gunStream, gunOver, stats, drain, history, closing>>

TakeStats ==
    /\ pc = "stats"
    /\ gotStats' = statsResults
    /\ statsResults' = << >>
    /\ pc' = "join"
    /\ UNCHANGED <<ending, gotData, dataCache, statCache, flushing, gun, statsStream, statsOver, drain, history, closing>>

\* Every listener gets the item.
Delivered(ts, real) ==
    /\ delivered' = Append(delivered, [ts |-> ts, real |-> real])
    /\ UNCHANGED <<pc, raises, dropped>>

\* A listener raises: what is in hand goes with the frame, and the poll or the
\* end of the test with it.
Raised(ts) ==
    /\ raises < MaxRaises
    /\ raises' = raises + 1
    /\ dropped' = dropped \union {ts} \union ToSet(gotData) \union flushing
    /\ gotData' = << >>
    /\ gotStats' = << >>
    /\ flushing' = {}
    /\ pc' = IF ending THEN "raised" ELSE "end"
    /\ UNCHANGED delivered

\* Mutant: a second whose statistics came first is cached all the same.
JoinDataForgets ==
    /\ pc = "join" /\ gotData # << >>
    /\ dataCache' = dataCache \union {Head(gotData)}
    /\ gotData' = Tail(gotData)
    /\ UNCHANGED <<pc, ending, gotStats, statCache, flushing, gun, stats, drain, history, closing>>

JoinData ==
    /\ pc = "join" /\ gotData # << >>
    /\ LET ts == Head(gotData) IN
          \/ /\ ts \in statCache
             /\ statCache' = statCache \ {ts}
             /\ \/ Delivered(ts, TRUE) /\ gotData' = Tail(gotData) /\ UNCHANGED <<gotStats, flushing>>
                \/ Raised(ts)
             /\ UNCHANGED dataCache
          \/ /\ ts \notin statCache
             /\ dataCache' = dataCache \union {ts}
             /\ gotData' = Tail(gotData)
             /\ UNCHANGED <<pc, gotStats, statCache, flushing, history>>
    /\ UNCHANGED <<ending, gun, stats, drain, closing>>

\* Mutant: the samples stay cached when their statistics arrive.
JoinStatsKeeps ==
    /\ pc = "join" /\ gotData = << >> /\ gotStats # << >>
    /\ LET ts == Head(gotStats) IN
          \/ /\ ts \in dataCache
             /\ \/ Delivered(ts, TRUE) /\ gotStats' = Tail(gotStats) /\ UNCHANGED <<gotData, flushing>>
                \/ Raised(ts)
             /\ UNCHANGED <<dataCache, statCache>>
          \/ /\ ts \notin dataCache
             /\ statCache' = statCache \union {ts}
             /\ gotStats' = Tail(gotStats)
             /\ UNCHANGED <<pc, gotData, dataCache, flushing, history>>
    /\ UNCHANGED <<ending, gun, stats, drain, closing>>

JoinStats ==
    /\ pc = "join" /\ gotData = << >> /\ gotStats # << >>
    /\ LET ts == Head(gotStats) IN
          \/ /\ ts \in dataCache
             /\ dataCache' = dataCache \ {ts}
             /\ \/ Delivered(ts, TRUE) /\ gotStats' = Tail(gotStats) /\ UNCHANGED <<gotData, flushing>>
                \/ Raised(ts)
             /\ UNCHANGED statCache
          \/ /\ ts \notin dataCache
             /\ statCache' = statCache \union {ts}
             /\ gotStats' = Tail(gotStats)
             /\ UNCHANGED <<pc, gotData, dataCache, flushing, history>>
    /\ UNCHANGED <<ending, gun, stats, drain, closing>>

\* The end of the test goes on with what has no statistics.
Joined ==
    /\ pc = "join" /\ gotData = << >> /\ gotStats = << >>
    /\ pc' = IF ending THEN "flush" ELSE "test"
    /\ flushing' = IF ending THEN dataCache ELSE {}
    /\ UNCHANGED <<ending, gotData, gotStats, dataCache, statCache, gun, stats, drain, history, closing>>

\* In the order of the seconds the listeners get them with statistics of zero;
\* the cache is left as it is.
Flush ==
    /\ pc = "flush"
    /\ \E ts \in flushing :
          /\ \A other \in flushing : ts <= other
          /\ \/ Delivered(ts, FALSE) /\ flushing' = flushing \ {ts} /\ UNCHANGED <<gotData, gotStats>>
             \/ Raised(ts)
    /\ UNCHANGED <<ending, dataCache, statCache, gun, stats, drain, closing>>

Flushed ==
    /\ pc = "flush" /\ flushing = {}
    /\ pc' = "closed"
    /\ UNCHANGED <<ending, gotData, gotStats, dataCache, statCache, flushing, gun, stats, drain, history, closing>>

-----------------------------------------------------------------------------
(***************************************************************************)
(* The test                                                                *)
(***************************************************************************)

rest == <<ending, gotData, gotStats, dataCache, statCache, flushing, gun, stats, history>>

\* Both threads are made, or none when the generator has no readers.
Start ==
    /\ pc = "new"
    /\ pc' = "test"
    /\ drain' \in {[d \in Drains |-> "next"], drain}
    /\ UNCHANGED <<rest, closing>>

\* The worker ends the test between two polls, or before it started.
Stop ==
    /\ pc \in {"new", "test"}
    /\ pc' = "end"
    /\ UNCHANGED <<rest, drain, closing>>

\* end_test of the generator returns; without threads nothing is waited for.
GeneratorEnds ==
    /\ pc = "end"
    /\ pc' = IF drain["gun"] = "new" THEN "collect" ELSE "waitGun"
    /\ UNCHANGED <<rest, drain, closing>>

GeneratorFails ==
    /\ pc = "end"
    /\ pc' = "raised"
    /\ UNCHANGED <<rest, drain, closing>>

\* Mutant: the wait for the thread has no timeout.
WaitGunForever ==
    /\ pc = "waitGun"
    /\ drain["gun"] = "over"
    /\ interrupted' = interrupted \union {"gun"}
    /\ pc' = "waitStats"
    /\ UNCHANGED <<rest, drain, warned>>

\* join returns when the thread is over or the time is up.
WaitGun ==
    /\ pc = "waitGun"
    /\ IF drain["gun"] = "over"
       THEN UNCHANGED warned
       ELSE warned' = warned \union {"gun"}
    /\ interrupted' = interrupted \union {"gun"}
    /\ pc' = "waitStats"
    /\ UNCHANGED <<rest, drain>>

\* The same, but it is the first thread that is asked whether it is alive.
WaitStats ==
    /\ pc = "waitStats"
    /\ warned' = IF drain["gun"] = "over" THEN warned ELSE warned \union {"stats"}
    /\ interrupted' = interrupted \union {"stats"}
    /\ pc' = "collect"
    /\ UNCHANGED <<rest, drain>>

Thread == GunPut \/ StatsPut \/ GunOver \/ StatsOver \/ \E d \in Drains : Check(d)

Collecting == TakeData \/ TakeStats \/ JoinData \/ JoinStats \/ Joined \/ Flush \/ Flushed

Ending == GeneratorEnds \/ GeneratorFails \/ WaitGun \/ WaitStats

Next == Start \/ Stop \/ Thread \/ Collecting \/ Ending

Spec == Init /\ [][Next]_vars

\* The worker goes on; the threads may be stuck in their source for ever.
FairSpec == Spec /\ WF_vars(Collecting \/ Ending)

-----------------------------------------------------------------------------
(***************************************************************************)
(* Properties                                                              *)
(***************************************************************************)

\* The types of the state; only threads that were made are waited for.
TypeOK ==
    /\ pc \in {"new", "test", "stats", "join", "flush", "end", "waitGun", "waitStats", "collect", "closed", "raised"}
    /\ ending \in BOOLEAN
    /\ gotData \in Seq(Ts) /\ gotStats \in Seq(Ts)
    /\ dataCache \in SUBSET Ts /\ statCache \in SUBSET Ts /\ flushing \in SUBSET Ts
    /\ results \in Seq(Ts) /\ statsResults \in Seq(Ts)
    /\ drain \in [Drains -> {"new", "next", "check", "over"}]
    /\ pc \in {"waitGun", "waitStats"} => drain["gun"] # "new"
    /\ interrupted \in SUBSET Drains
    /\ gunStream \in Seq(Ts) /\ gunOver \in BOOLEAN
    /\ statsStream \in Seq(Ts) /\ statsOver \in BOOLEAN
    /\ raises \in 0 .. MaxRaises
    /\ delivered \in Seq([ts : Ts, real : BOOLEAN]) /\ dropped \in SUBSET Ts
    /\ warned \in SUBSET Drains

Given == {delivered[i].ts : i \in DOMAIN delivered}

\* The listeners get no second twice, whatever order the two streams arrive in.
EachOnce == \A i, j \in DOMAIN delivered : delivered[i].ts = delivered[j].ts => i = j

\* When the end of the test is over, the listeners got every second the chopper
\* gave, but for those in hand when a listener raised and those the user was
\* warned about because the thread did not finish in time.
NothingLost == pc = "closed" /\ "gun" \notin warned => ToSet(gunStream) \subseteq Given \union dropped

\* The listeners get every second once, but for those lost with a reason.
SecondsOnce == EachOnce /\ NothingLost

\* A second comes with the statistics of that second whenever the worker has
\* both: nothing waits in both caches between two collections, what came with
\* statistics had them, and what came without had none collected.
OwnStatistics ==
    /\ pc # "join" => dataCache \intersect statCache = {}
    /\ \A i \in DOMAIN delivered :
          IF delivered[i].real
          THEN delivered[i].ts \in ToSet(statsStream)
          ELSE ending /\ delivered[i].ts \notin statCache

Gapless(stream) == \A i \in DOMAIN stream : stream[i] = i

\* When both streams give every second, the listeners get them in ascending
\* order, the rest without statistics last.
AscendingIfGapless ==
    Gapless(gunStream) /\ Gapless(statsStream) /\ dropped = {} => \A i, j \in DOMAIN delivered : i < j => delivered[i].ts < delivered[j].ts

\* The two streams are put together second by second and stay in order.
SecondsTogether == OwnStatistics /\ AscendingIfGapless

\* The end of the test returns however long the threads take.
EndReturns == pc = "end" ~> pc \in {"closed", "raised"}
=============================================================================
