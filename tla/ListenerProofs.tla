-------------------------- MODULE ListenerProofs --------------------------
(***************************************************************************)
(* TLAPS proofs about the two components that give seconds to listeners:   *)
(* the aggregator of the results (TankAggregator), and the monitoring      *)
(* (Monitoring), which has its own part further down.                      *)
(*                                                                         *)
(* TankAggregator: for any number of seconds, in any interleaving of the   *)
(* worker and the two threads, and whatever listeners raise, no second     *)
(* reaches the listeners twice, and none is lost that the user was not     *)
(* warned about.                                                           *)
(*                                                                         *)
(* A second moves from the queue to the hand of the worker, from there to  *)
(* the listeners or the cache, and from the cache to the listeners.  The   *)
(* invariant says that it is in one of these places at a time (Placed,     *)
(* Apart), that it is in one of them at all (Accounted), and that nothing  *)
(* is put into the queue any more once the end of the test emptied it      *)
(* (Quiet).                                                                *)
(*                                                                         *)
(* Two more invariants relate the two streams.  Owned: no second waits in  *)
(* both caches, and what was given alone had no statistics collected.      *)
(* Lined: while both streams give every second and no listener raises, the *)
(* worker handled the first Handled seconds of one and the first           *)
(* HandledStats of the other, gave those of both in order, and keeps the   *)
(* difference in one of the caches.                                        *)
(***************************************************************************)
EXTENDS TankAggregator, Monitoring, SequenceTheorems, WellFoundedInduction, FiniteSetTheorems, TLAPS

Distinct(s) == \A i, j \in DOMAIN s : s[i] = s[j] => i = j

\* What is in some place came from the stream, once.
Placed ==
    /\ Distinct(results) /\ Distinct(gotData) /\ EachOnce
    /\ ToSet(results) \subseteq ToSet(gunStream)
    /\ ToSet(gotData) \subseteq ToSet(gunStream)
    /\ dataCache \subseteq ToSet(gunStream)
    /\ Given \subseteq ToSet(gunStream)

\* The places do not overlap, but for the cache the flush does not clear, and
\* the worker has something in hand only while it collects.
Apart ==
    /\ ToSet(results) \intersect (ToSet(gotData) \union dataCache \union Given) = {}
    /\ ToSet(gotData) \intersect (dataCache \union Given) = {}
    /\ flushing \subseteq dataCache
    /\ flushing \intersect Given = {}
    /\ pc # "flush" => flushing = {}
    /\ pc \notin {"flush", "closed", "raised"} => dataCache \intersect Given = {}
    /\ pc \notin {"stats", "join"} => gotData = << >>
    /\ ending => pc \in {"stats", "join", "flush", "closed", "raised"}
    /\ pc \in {"flush", "closed"} => ending

Accounted ==
    /\ ToSet(gunStream) \subseteq ToSet(results) \union ToSet(gotData) \union dataCache \union Given \union dropped
    /\ pc \in {"flush", "closed"} => dataCache \subseteq flushing \union Given \union dropped

Quiet ==
    /\ "gun" \notin warned /\ (ending \/ pc \in {"waitStats", "collect"}) => drain["gun"] \in {"new", "over"}
    /\ "gun" \notin warned /\ ending => results = << >>

IInv == TypeOK /\ Placed /\ Apart /\ Accounted /\ Quiet

-----------------------------------------------------------------------------
(***************************************************************************)
(* Sequences as sets                                                       *)
(***************************************************************************)

\* Appending an element that is new.
LEMMA SetOfAppend ==
    ASSUME NEW S, NEW s \in Seq(S), NEW e \in S
    PROVE  /\ Append(s, e) \in Seq(S)
           /\ ToSet(Append(s, e)) = ToSet(s) \union {e}
           /\ Distinct(s) /\ e \notin ToSet(s) => Distinct(Append(s, e))
<1>1. Len(s) \in Nat /\ DOMAIN s = 1 .. Len(s)
    OBVIOUS
<1>2. Append(s, e) \in Seq(S) /\ DOMAIN Append(s, e) = 1 .. Len(s) + 1
    OBVIOUS
<1>3. \A i \in 1 .. Len(s) : Append(s, e)[i] = s[i]
    OBVIOUS
<1>4. Append(s, e)[Len(s) + 1] = e
    OBVIOUS
<1> HIDE DEF Distinct
<1> DEFINE t == Append(s, e)
<1>5. \A i \in DOMAIN t : i \in DOMAIN s \/ i = Len(s) + 1
    BY <1>1, <1>2
<1>6. \A i \in DOMAIN s : i \in DOMAIN t /\ t[i] = s[i]
    BY <1>1, <1>2, <1>3
<1>7. Len(s) + 1 \in DOMAIN t /\ t[Len(s) + 1] = e
    BY <1>1, <1>2, <1>4
<1>8. t \in Seq(S)
    BY <1>2
<1> HIDE DEF t
<1>9. ToSet(t) = ToSet(s) \union {e}
    BY <1>5, <1>6, <1>7 DEF ToSet
<1>10. ASSUME Distinct(s), e \notin ToSet(s) PROVE Distinct(t)
  <2>1. SUFFICES ASSUME NEW i \in DOMAIN t, NEW j \in DOMAIN t, t[i] = t[j] PROVE i = j
      BY DEF Distinct
  <2>2. \A k \in DOMAIN s : s[k] # e
      BY <1>10 DEF ToSet
  <2> QED
      BY <1>5, <1>6, <1>7, <1>10, <2>1, <2>2 DEF Distinct
<1> QED
    BY <1>8, <1>9, <1>10 DEF t

\* Taking the first element.
LEMMA SetOfTail ==
    ASSUME NEW S, NEW s \in Seq(S), s # << >>
    PROVE  /\ Tail(s) \in Seq(S) /\ Head(s) \in S
           /\ ToSet(s) = ToSet(Tail(s)) \union {Head(s)}
           /\ Distinct(s) => Distinct(Tail(s)) /\ Head(s) \notin ToSet(Tail(s))
<1>1. Len(s) \in Nat \ {0} /\ DOMAIN s = 1 .. Len(s)
    OBVIOUS
<1>2. Tail(s) \in Seq(S) /\ Head(s) = s[1] /\ DOMAIN Tail(s) = 1 .. Len(s) - 1
    BY <1>1
<1>3. \A i \in 1 .. Len(s) - 1 : Tail(s)[i] = s[i + 1]
    BY <1>1
<1> DEFINE t == Tail(s)
<1>4. \A i \in DOMAIN t : i + 1 \in DOMAIN s /\ t[i] = s[i + 1] /\ i + 1 # 1 /\ i \in Nat
    BY <1>1, <1>2, <1>3
<1>5. \A i \in DOMAIN s : i = 1 \/ (i - 1 \in DOMAIN t /\ t[i - 1] = s[i])
    BY <1>1, <1>2, <1>3
<1>6. 1 \in DOMAIN s /\ Head(s) = s[1]
    BY <1>1, <1>2
<1>7. Head(s) \in S
    BY <1>1
<1>8. t \in Seq(S)
    BY <1>2
<1> HIDE DEF t
<1>9. ToSet(s) = ToSet(t) \union {Head(s)}
    BY <1>4, <1>5, <1>6 DEF ToSet
<1>10. ASSUME Distinct(s) PROVE Distinct(t) /\ Head(s) \notin ToSet(t)
  <2>1. ASSUME NEW i \in DOMAIN t, NEW j \in DOMAIN t, t[i] = t[j] PROVE i = j
    <3>1. i + 1 = j + 1
        BY <1>4, <1>10, <2>1 DEF Distinct
    <3> QED
        BY <1>4, <3>1
  <2>2. \A i \in DOMAIN t : t[i] # Head(s)
      BY <1>4, <1>6, <1>10 DEF Distinct
  <2> QED
      BY <2>1, <2>2 DEF Distinct, ToSet
<1> QED
    BY <1>7, <1>8, <1>9, <1>10 DEF t

\* The empty sequence.
LEMMA SetOfEmpty == ToSet(<< >>) = {} /\ Distinct(<< >>)
BY DEF ToSet, Distinct

-----------------------------------------------------------------------------
(***************************************************************************)
(* What a listener gets                                                    *)
(***************************************************************************)

\* An item that was given is added to those the listeners have.
LEMMA Gave ==
    ASSUME TypeOK, NEW ts \in Ts, NEW real \in BOOLEAN, Delivered(ts, real)
    PROVE  /\ delivered' \in Seq([ts : Ts, real : BOOLEAN])
           /\ Given' = Given \union {ts}
           /\ EachOnce /\ ts \notin Given => EachOnce'
           /\ UNCHANGED <<pc, raises, dropped>>
<1> DEFINE R == [ts : Ts, real : BOOLEAN]
           r == [ts |-> ts, real |-> real]
<1>1. delivered \in Seq(R) /\ r \in R /\ delivered' = Append(delivered, r)
    BY DEF TypeOK, Delivered
<1> DEFINE n == Len(delivered) + 1
<1>2. /\ delivered' \in Seq(R)
      /\ \A i \in DOMAIN delivered' : i \in DOMAIN delivered \/ i = n
      /\ \A i \in DOMAIN delivered : i \in DOMAIN delivered' /\ delivered'[i] = delivered[i]
      /\ n \in DOMAIN delivered' /\ delivered'[n] = r
  <2> HIDE DEF R, r
  <2> QED
      BY <1>1
<1>3. r.ts = ts
    OBVIOUS
<1> HIDE DEF n, r
<1>4. Given' = Given \union {ts}
    BY <1>2, <1>3 DEF Given
<1>5. ASSUME EachOnce, ts \notin Given PROVE EachOnce'
    BY <1>2, <1>3, <1>5 DEF EachOnce, Given
<1> QED
    BY <1>2, <1>4, <1>5 DEF Delivered

\* Nothing is given when a listener raises.
LEMMA GaveNot == UNCHANGED delivered => Given' = Given /\ (EachOnce => EachOnce')
BY DEF Given, EachOnce

-----------------------------------------------------------------------------
(***************************************************************************)
(* The effect of the steps that move samples                               *)
(***************************************************************************)

\* The steps that leave the samples where they are.
Still == UNCHANGED <<results, gunStream, gotData, dataCache, flushing, delivered, dropped>>

\* The thread puts a second the stream did not give before.
LEMMA PutEffect ==
    ASSUME TypeOK, GunPut
    PROVE  \E ts \in Ts :
              /\ ts \notin ToSet(gunStream)
              /\ gunStream' \in Seq(Ts) /\ ToSet(gunStream') = ToSet(gunStream) \union {ts}
              /\ results' \in Seq(Ts) /\ ToSet(results') = ToSet(results) \union {ts}
              /\ Distinct(results) /\ ts \notin ToSet(results) => Distinct(results')
<1>1. PICK ts \in Ts : Gun!Emit(ts) /\ results' = Append(results, ts)
    BY DEF GunPut
<1>2. gunStream \in Seq(Ts) /\ results \in Seq(Ts)
    BY DEF TypeOK
<1>3. gunStream' = Append(gunStream, ts) /\ \A i \in DOMAIN gunStream : gunStream[i] < ts
    BY <1>1 DEF Gun!Emit
<1>4. ts \notin ToSet(gunStream)
    BY <1>3 DEF ToSet, Ts
<1> QED
    BY <1>1, <1>2, <1>3, <1>4, SetOfAppend

\* The worker handles the first second in its hand: it is given, cached, or
\* dropped with the rest.
LEMMA HandEffect ==
    ASSUME TypeOK, JoinData
    PROVE  /\ pc = "join" /\ gotData # << >> /\ Head(gotData) \in Ts
           /\ UNCHANGED <<ending, results, gunStream, drain, warned>>
           /\ \/ /\ Delivered(Head(gotData), TRUE) /\ gotData' = Tail(gotData)
                 /\ UNCHANGED <<dataCache, flushing, pc>>
              \/ /\ dataCache' = dataCache \union {Head(gotData)} /\ gotData' = Tail(gotData)
                 /\ UNCHANGED <<delivered, dropped, flushing, pc>>
              \/ Raised(Head(gotData)) /\ UNCHANGED dataCache
<1>1. Head(gotData) \in Ts
    BY SetOfTail DEF TypeOK, JoinData
<1> QED
    BY <1>1 DEF JoinData, Delivered, gun, stats, history, closing

\* The worker handles statistics: a cached second is given or dropped.
LEMMA StatisticsEffect ==
    ASSUME TypeOK, JoinStats
    PROVE  /\ pc = "join" /\ gotData = << >> /\ Head(gotStats) \in Ts
           /\ UNCHANGED <<ending, results, gunStream, drain, warned>>
           /\ \/ /\ Head(gotStats) \in dataCache /\ dataCache' = dataCache \ {Head(gotStats)}
                 /\ Delivered(Head(gotStats), TRUE)
                 /\ UNCHANGED <<gotData, flushing, pc>>
              \/ /\ Head(gotStats) \in dataCache /\ dataCache' = dataCache \ {Head(gotStats)}
                 /\ Raised(Head(gotStats))
              \/ UNCHANGED <<gotData, dataCache, flushing, delivered, dropped, pc>>
<1>1. Head(gotStats) \in Ts
    BY SetOfTail DEF TypeOK, JoinStats
<1> QED
    BY <1>1 DEF JoinStats, Delivered, gun, stats, history, closing

\* At the end a cached second is given or dropped with the rest.
LEMMA FlushEffect ==
    ASSUME TypeOK, Flush
    PROVE  /\ pc = "flush"
           /\ UNCHANGED <<ending, dataCache, results, gunStream, drain, warned>>
           /\ \E ts \in flushing :
                 /\ ts \in Ts
                 /\ \/ Delivered(ts, FALSE) /\ flushing' = flushing \ {ts} /\ UNCHANGED <<gotData, pc>>
                    \/ Raised(ts)
BY DEF Flush, Delivered, gun, stats, closing, TypeOK

\* Every other step leaves the samples where they are.
LEMMA StillSteps ==
    ASSUME TypeOK, [Next]_vars
    PROVE  GunPut \/ TakeData \/ JoinData \/ JoinStats \/ Joined \/ Flush \/ Still
BY DEF Next, Start, Stop, Thread, StatsPut, GunOver, StatsOver, Check, Collecting, TakeStats, Flushed, Ending,
       GeneratorEnds, GeneratorFails, WaitGun, WaitStats, Still, vars, main, gun, stats, history, rest, Gun!End

-----------------------------------------------------------------------------
(***************************************************************************)
(* The invariant is preserved                                              *)
(***************************************************************************)

\* What is in some place came from the stream, once.
LEMMA PlacedStep == TypeOK /\ Placed /\ Apart /\ [Next]_vars => Placed'
<1> SUFFICES ASSUME TypeOK, Placed, Apart, [Next]_vars PROVE Placed'
    OBVIOUS
<1>1. CASE GunPut
  <2>1. UNCHANGED <<gotData, dataCache, delivered>>
      BY <1>1 DEF GunPut, main, history
  <2>2. Given' = Given /\ EachOnce'
      BY <2>1, GaveNot DEF Placed
  <2> QED
      BY <1>1, <2>1, <2>2, PutEffect DEF Placed
<1>2. CASE TakeData
  <2>1. UNCHANGED <<gunStream, dataCache, delivered>> /\ gotData' = results /\ results' = << >>
      BY <1>2 DEF TakeData, history
  <2>2. Given' = Given /\ EachOnce'
      BY <2>1, GaveNot DEF Placed
  <2> QED
      BY <2>1, <2>2, SetOfEmpty DEF Placed
<1>3. CASE JoinData
  <2> DEFINE ts == Head(gotData)
  <2>1. /\ Distinct(Tail(gotData))
        /\ ToSet(gotData) = ToSet(Tail(gotData)) \union {ts}
      BY <1>3, SetOfTail, HandEffect DEF TypeOK, Placed
  <2>2. ts \notin Given
      BY <2>1 DEF Apart
  <2>3. UNCHANGED <<results, gunStream>> /\ ts \in Ts
      BY <1>3, HandEffect
  <2>4. CASE Delivered(ts, TRUE) /\ gotData' = Tail(gotData) /\ UNCHANGED dataCache
    <3>1. Given' = Given \union {ts} /\ EachOnce'
        BY <2>2, <2>3, <2>4, Gave DEF Placed
    <3> QED
        BY <2>1, <2>3, <2>4, <3>1 DEF Placed
  <2>5. CASE dataCache' = dataCache \union {ts} /\ gotData' = Tail(gotData) /\ UNCHANGED delivered
    <3>1. Given' = Given /\ EachOnce'
        BY <2>5, GaveNot DEF Placed
    <3> QED
        BY <2>1, <2>3, <2>5, <3>1 DEF Placed
  <2>6. CASE Raised(ts) /\ UNCHANGED dataCache
    <3>1. UNCHANGED delivered /\ gotData' = << >>
        BY <2>6 DEF Raised
    <3>2. Given' = Given /\ EachOnce'
        BY <3>1, GaveNot DEF Placed
    <3> QED
        BY <2>3, <2>6, <3>1, <3>2, SetOfEmpty DEF Placed
  <2> QED
      BY <1>3, <2>4, <2>5, <2>6, HandEffect
<1>4. CASE JoinStats
  <2> DEFINE ts == Head(gotStats)
  <2>1. UNCHANGED <<results, gunStream>> /\ ts \in Ts /\ gotData = << >> /\ pc = "join"
      BY <1>4, StatisticsEffect
  <2>2. CASE ts \in dataCache /\ dataCache' = dataCache \ {ts} /\ Delivered(ts, TRUE) /\ UNCHANGED gotData
    <3>1. ts \notin Given
        BY <2>1, <2>2 DEF Apart
    <3>2. Given' = Given \union {ts} /\ EachOnce'
        BY <2>1, <2>2, <3>1, Gave DEF Placed
    <3> QED
        BY <2>1, <2>2, <3>2 DEF Placed
  <2>3. CASE dataCache' = dataCache \ {ts} /\ Raised(ts)
    <3>1. UNCHANGED delivered /\ gotData' = << >>
        BY <2>3 DEF Raised
    <3>2. Given' = Given /\ EachOnce'
        BY <3>1, GaveNot DEF Placed
    <3> QED
        BY <2>1, <2>3, <3>1, <3>2, SetOfEmpty DEF Placed
  <2>4. CASE UNCHANGED <<gotData, dataCache, delivered>>
      BY <2>1, <2>4, GaveNot DEF Placed
  <2> QED
      BY <1>4, <2>2, <2>3, <2>4, StatisticsEffect
<1>5. CASE Joined
    BY <1>5, GaveNot DEF Joined, gun, history, Placed
<1>6. CASE Flush
  <2>1. UNCHANGED <<results, gunStream, dataCache>>
      BY <1>6, FlushEffect
  <2>2. PICK ts \in flushing :
           /\ ts \in Ts
           /\ \/ Delivered(ts, FALSE) /\ UNCHANGED gotData
              \/ Raised(ts)
      BY <1>6, FlushEffect
  <2>3. CASE Delivered(ts, FALSE) /\ UNCHANGED gotData
    <3>1. ts \notin Given /\ ts \in dataCache
        BY <2>2 DEF Apart
    <3>2. Given' = Given \union {ts} /\ EachOnce'
        BY <2>2, <2>3, <3>1, Gave DEF Placed
    <3> QED
        BY <2>1, <2>3, <3>1, <3>2 DEF Placed
  <2>4. CASE Raised(ts)
    <3>1. UNCHANGED delivered /\ gotData' = << >>
        BY <2>4 DEF Raised
    <3>2. Given' = Given /\ EachOnce'
        BY <3>1, GaveNot DEF Placed
    <3> QED
        BY <2>1, <3>1, <3>2, SetOfEmpty DEF Placed
  <2> QED
      BY <2>2, <2>3, <2>4
<1>7. CASE Still
    BY <1>7, GaveNot DEF Still, Placed
<1> QED
    BY <1>1, <1>2, <1>3, <1>4, <1>5, <1>6, <1>7, StillSteps

\* The places stay apart.
LEMMA ApartStep == TypeOK /\ Placed /\ Apart /\ [Next]_vars => Apart'
<1> SUFFICES ASSUME TypeOK, Placed, Apart, [Next]_vars PROVE Apart'
    OBVIOUS
<1>1. CASE GunPut
  <2>1. UNCHANGED <<pc, ending, gotData, dataCache, flushing, delivered>>
      BY <1>1 DEF GunPut, main, history
  <2>2. Given' = Given
      BY <2>1, GaveNot
  <2>3. PICK ts \in Ts : ts \notin ToSet(gunStream) /\ ToSet(results') = ToSet(results) \union {ts}
      BY <1>1, PutEffect
  <2>4. ts \notin ToSet(gotData) \union dataCache \union Given
      BY <2>3 DEF Placed
  <2> QED
      BY <2>1, <2>2, <2>3, <2>4 DEF Apart
<1>2. CASE TakeData
  <2>1. /\ pc \in {"test", "collect"} /\ pc' = "stats" /\ gotData' = results /\ results' = << >>
        /\ UNCHANGED <<dataCache, flushing, delivered>>
      BY <1>2 DEF TakeData, history
  <2>2. Given' = Given
      BY <2>1, GaveNot
  <2> QED
      BY <2>1, <2>2, SetOfEmpty DEF Apart
<1>3. CASE JoinData
  <2> DEFINE ts == Head(gotData)
  <2>1. /\ ts \notin ToSet(Tail(gotData))
        /\ ToSet(gotData) = ToSet(Tail(gotData)) \union {ts}
      BY <1>3, SetOfTail, HandEffect DEF TypeOK, Placed
  <2>2. UNCHANGED <<ending, results>> /\ ts \in Ts /\ pc = "join"
      BY <1>3, HandEffect
  <2>3. CASE Delivered(ts, TRUE) /\ gotData' = Tail(gotData) /\ UNCHANGED <<dataCache, flushing, pc>>
    <3>1. Given' = Given \union {ts}
        BY <2>2, <2>3, Gave
    <3> QED
        BY <2>1, <2>2, <2>3, <3>1 DEF Apart
  <2>4. CASE dataCache' = dataCache \union {ts} /\ gotData' = Tail(gotData) /\ UNCHANGED <<delivered, flushing, pc>>
    <3>1. Given' = Given
        BY <2>4, GaveNot
    <3> QED
        BY <2>1, <2>2, <2>4, <3>1 DEF Apart
  <2>5. CASE Raised(ts) /\ UNCHANGED dataCache
    <3>1. /\ UNCHANGED delivered /\ gotData' = << >> /\ flushing' = {}
          /\ pc' = IF ending THEN "raised" ELSE "end"
        BY <2>5 DEF Raised
    <3>2. Given' = Given
        BY <3>1, GaveNot
    <3> QED
        BY <2>2, <2>5, <3>1, <3>2, SetOfEmpty DEF Apart
  <2> QED
      BY <1>3, <2>3, <2>4, <2>5, HandEffect
<1>4. CASE JoinStats
  <2> DEFINE ts == Head(gotStats)
  <2>1. UNCHANGED <<ending, results>> /\ ts \in Ts /\ gotData = << >> /\ pc = "join"
      BY <1>4, StatisticsEffect
  <2>2. flushing = {}
      BY <2>1 DEF Apart
  <2>3. CASE ts \in dataCache /\ dataCache' = dataCache \ {ts} /\ Delivered(ts, TRUE) /\ UNCHANGED <<gotData, flushing, pc>>
    <3>1. Given' = Given \union {ts}
        BY <2>1, <2>3, Gave
    <3> QED
        BY <2>1, <2>2, <2>3, <3>1, SetOfEmpty DEF Apart
  <2>4. CASE dataCache' = dataCache \ {ts} /\ Raised(ts)
    <3>1. /\ UNCHANGED delivered /\ gotData' = << >> /\ flushing' = {}
          /\ pc' = IF ending THEN "raised" ELSE "end"
        BY <2>4 DEF Raised
    <3>2. Given' = Given
        BY <3>1, GaveNot
    <3> QED
        BY <2>1, <2>4, <3>1, <3>2, SetOfEmpty DEF Apart
  <2>5. CASE UNCHANGED <<gotData, dataCache, flushing, delivered, pc>>
    <3>1. Given' = Given
        BY <2>5, GaveNot
    <3> QED
        BY <2>1, <2>5, <3>1 DEF Apart
  <2> QED
      BY <1>4, <2>3, <2>4, <2>5, StatisticsEffect
<1>5. CASE Joined
  <2>1. /\ pc = "join" /\ pc' = IF ending THEN "flush" ELSE "test"
        /\ gotData = << >> /\ flushing' = IF ending THEN dataCache ELSE {}
        /\ UNCHANGED <<ending, results, gotData, dataCache, delivered>>
      BY <1>5 DEF Joined, gun, history
  <2>2. Given' = Given
      BY <2>1, GaveNot
  <2> QED
      BY <2>1, <2>2 DEF Apart
<1>6. CASE Flush
  <2>1. UNCHANGED <<ending, results, dataCache>> /\ pc = "flush" /\ gotData = << >>
      BY <1>6, FlushEffect DEF Apart
  <2>2. PICK ts \in flushing :
           /\ ts \in Ts
           /\ \/ Delivered(ts, FALSE) /\ flushing' = flushing \ {ts} /\ UNCHANGED <<gotData, pc>>
              \/ Raised(ts)
      BY <1>6, FlushEffect
  <2>3. CASE Delivered(ts, FALSE) /\ flushing' = flushing \ {ts} /\ UNCHANGED <<gotData, pc>>
    <3>1. Given' = Given \union {ts}
        BY <2>2, <2>3, Gave
    <3>2. ts \notin ToSet(results)
        BY <2>2 DEF Apart
    <3> QED
        BY <2>1, <2>3, <3>1, <3>2, SetOfEmpty DEF Apart
  <2>4. CASE Raised(ts)
    <3>1. /\ UNCHANGED delivered /\ gotData' = << >> /\ flushing' = {}
          /\ pc' = IF ending THEN "raised" ELSE "end"
        BY <2>4 DEF Raised
    <3>2. Given' = Given
        BY <3>1, GaveNot
    <3>3. ending
        BY <2>1 DEF Apart
    <3> QED
        BY <2>1, <3>1, <3>2, <3>3, SetOfEmpty DEF Apart
  <2> QED
      BY <2>2, <2>3, <2>4
<1>7. CASE Still /\ ~TakeData
  <2>1. Given' = Given
      BY <1>7, GaveNot DEF Still
  <2>2. \/ UNCHANGED <<pc, ending>>
        \/ UNCHANGED ending /\ pc = "new" /\ pc' \in {"test", "end"}
        \/ UNCHANGED ending /\ pc = "test" /\ pc' = "end"
        \/ UNCHANGED ending /\ pc = "stats" /\ pc' = "join"
        \/ UNCHANGED ending /\ pc = "flush" /\ flushing = {} /\ pc' = "closed"
        \/ UNCHANGED ending /\ pc = "end" /\ pc' \in {"collect", "waitGun", "raised"}
        \/ UNCHANGED ending /\ pc = "waitGun" /\ pc' = "waitStats"
        \/ UNCHANGED ending /\ pc = "waitStats" /\ pc' = "collect"
        \/ GunPut \/ JoinData \/ JoinStats \/ Joined \/ Flush
      BY <1>7 DEF Next, Start, Stop, Thread, StatsPut, GunOver, StatsOver, Check, Collecting, TakeStats, Flushed, Ending,
                  GeneratorEnds, GeneratorFails, WaitGun, WaitStats, vars, main, rest
  <2> QED
      BY <1>1, <1>3, <1>4, <1>5, <1>6, <1>7, <2>1, <2>2 DEF Still, Apart
<1> QED
    BY <1>1, <1>2, <1>3, <1>4, <1>5, <1>6, <1>7, StillSteps

\* Every second of the stream is in one of the places, or was dropped.
LEMMA AccountedStep == TypeOK /\ Apart /\ Accounted /\ [Next]_vars => Accounted'
<1> SUFFICES ASSUME TypeOK, Apart, Accounted, [Next]_vars PROVE Accounted'
    OBVIOUS
<1>1. CASE GunPut
  <2>1. UNCHANGED <<pc, gotData, dataCache, flushing, delivered, dropped>>
      BY <1>1 DEF GunPut, main, history
  <2>2. Given' = Given
      BY <2>1, GaveNot
  <2> QED
      BY <1>1, <2>1, <2>2, PutEffect DEF Accounted
<1>2. CASE TakeData
  <2>1. /\ pc \in {"test", "collect"} /\ pc' = "stats" /\ gotData' = results
        /\ UNCHANGED <<gunStream, dataCache, flushing, delivered, dropped>>
      BY <1>2 DEF TakeData, history
  <2>2. Given' = Given
      BY <2>1, GaveNot
  <2>3. ToSet(gotData) = {}
      BY <2>1, SetOfEmpty DEF Apart
  <2> QED
      BY <2>1, <2>2, <2>3 DEF Accounted
<1>3. CASE JoinData
  <2> DEFINE ts == Head(gotData)
  <2>1. ToSet(gotData) = ToSet(Tail(gotData)) \union {ts}
      BY <1>3, SetOfTail, HandEffect DEF TypeOK
  <2>2. UNCHANGED <<results, gunStream>> /\ ts \in Ts /\ pc = "join"
      BY <1>3, HandEffect
  <2>3. CASE Delivered(ts, TRUE) /\ gotData' = Tail(gotData) /\ UNCHANGED <<dataCache, flushing, pc>>
    <3>1. Given' = Given \union {ts} /\ dropped' = dropped
        BY <2>2, <2>3, Gave
    <3> QED
        BY <2>1, <2>2, <2>3, <3>1 DEF Accounted
  <2>4. CASE dataCache' = dataCache \union {ts} /\ gotData' = Tail(gotData) /\ UNCHANGED <<delivered, dropped, pc>>
    <3>1. Given' = Given
        BY <2>4, GaveNot
    <3> QED
        BY <2>1, <2>2, <2>4, <3>1 DEF Accounted
  <2>5. CASE Raised(ts) /\ UNCHANGED dataCache
    <3>1. /\ UNCHANGED delivered /\ pc' \in {"raised", "end"}
          /\ ToSet(gotData) \subseteq dropped' /\ dropped \subseteq dropped'
        BY <2>5 DEF Raised
    <3>2. Given' = Given
        BY <3>1, GaveNot
    <3> QED
        BY <2>2, <2>5, <3>1, <3>2 DEF Accounted
  <2> QED
      BY <1>3, <2>3, <2>4, <2>5, HandEffect
<1>4. CASE JoinStats
  <2> DEFINE ts == Head(gotStats)
  <2>1. UNCHANGED <<results, gunStream>> /\ ts \in Ts /\ pc = "join"
      BY <1>4, StatisticsEffect
  <2>2. CASE dataCache' = dataCache \ {ts} /\ Delivered(ts, TRUE) /\ UNCHANGED <<gotData, pc>>
    <3>1. Given' = Given \union {ts} /\ dropped' = dropped
        BY <2>1, <2>2, Gave
    <3> QED
        BY <2>1, <2>2, <3>1 DEF Accounted
  <2>3. CASE dataCache' = dataCache \ {ts} /\ Raised(ts)
    <3>1. /\ UNCHANGED delivered /\ pc' \in {"raised", "end"}
          /\ ToSet(gotData) \union {ts} \subseteq dropped' /\ dropped \subseteq dropped'
        BY <2>3 DEF Raised
    <3>2. Given' = Given
        BY <3>1, GaveNot
    <3> QED
        BY <2>1, <2>3, <3>1, <3>2 DEF Accounted
  <2>4. CASE UNCHANGED <<gotData, dataCache, delivered, dropped, pc>>
    <3>1. Given' = Given
        BY <2>4, GaveNot
    <3> QED
        BY <2>1, <2>4, <3>1 DEF Accounted
  <2> QED
      BY <1>4, <2>2, <2>3, <2>4, StatisticsEffect
<1>5. CASE Joined
  <2>1. /\ pc' = "flush" => flushing' = dataCache
        /\ pc' \in {"flush", "test"}
        /\ UNCHANGED <<results, gunStream, gotData, dataCache, delivered, dropped>>
      BY <1>5 DEF Joined, gun, history
  <2>2. Given' = Given
      BY <2>1, GaveNot
  <2> QED
      BY <2>1, <2>2 DEF Accounted
<1>6. CASE Flush
  <2>1. UNCHANGED <<results, gunStream, dataCache>> /\ pc = "flush" /\ gotData = << >>
      BY <1>6, FlushEffect DEF Apart
  <2>2. PICK ts \in flushing :
           /\ ts \in Ts
           /\ \/ Delivered(ts, FALSE) /\ flushing' = flushing \ {ts} /\ UNCHANGED <<gotData, pc>>
              \/ Raised(ts)
      BY <1>6, FlushEffect
  <2>3. CASE Delivered(ts, FALSE) /\ flushing' = flushing \ {ts} /\ UNCHANGED <<gotData, pc>>
    <3>1. Given' = Given \union {ts} /\ dropped' = dropped
        BY <2>2, <2>3, Gave
    <3> QED
        BY <2>1, <2>3, <3>1 DEF Accounted
  <2>4. CASE Raised(ts)
    <3>1. /\ UNCHANGED delivered /\ pc' \in {"raised", "end"} /\ gotData' = << >>
          /\ dropped \subseteq dropped'
        BY <2>4 DEF Raised
    <3>2. Given' = Given
        BY <3>1, GaveNot
    <3> QED
        BY <2>1, <3>1, <3>2 DEF Accounted
  <2> QED
      BY <2>2, <2>3, <2>4
<1>7. CASE Still
  <2>1. Given' = Given
      BY <1>7, GaveNot DEF Still
  <2>2. /\ pc' = "flush" => pc = "flush" \/ Joined
        /\ pc' = "closed" => pc = "closed" \/ (pc = "flush" /\ flushing = {})
    <3>1. CASE GunPut \/ TakeData \/ JoinData \/ JoinStats \/ Joined \/ Flush
      <4>1. JoinData => pc = "join" /\ (pc' = pc \/ pc' \in {"raised", "end"})
          BY DEF JoinData, Delivered, Raised
      <4>2. JoinStats => pc = "join" /\ (pc' = pc \/ pc' \in {"raised", "end"})
          BY DEF JoinStats, Delivered, Raised
      <4>3. Flush => pc = "flush" /\ (pc' = pc \/ pc' \in {"raised", "end"})
          BY DEF Flush, Delivered, Raised
      <4> QED
          BY <3>1, <4>1, <4>2, <4>3 DEF GunPut, TakeData, Joined, main
    <3>2. CASE ~(GunPut \/ TakeData \/ JoinData \/ JoinStats \/ Joined \/ Flush)
        BY <3>2 DEF Next, Start, Stop, Thread, StatsPut, GunOver, StatsOver, Check, Collecting, TakeStats, Flushed, Ending,
                    GeneratorEnds, GeneratorFails, WaitGun, WaitStats, vars, main, rest
    <3> QED
        BY <3>1, <3>2
  <2> QED
      BY <1>5, <1>7, <2>1, <2>2 DEF Still, Accounted
<1> QED
    BY <1>1, <1>2, <1>3, <1>4, <1>5, <1>6, <1>7, StillSteps

\* Nothing is put into the queue once the end of the test waited for the thread.
LEMMA QuietStep == TypeOK /\ Apart /\ Quiet /\ [Next]_vars => Quiet'
<1> SUFFICES ASSUME TypeOK, Apart, Quiet, [Next]_vars PROVE Quiet'
    OBVIOUS
<1> USE DEF Quiet
<1>1. CASE GunPut
    BY <1>1 DEF GunPut, main, closing
<1>2. CASE TakeData
    BY <1>2 DEF TakeData, closing
<1>3. CASE JoinData
  <2>1. pc' = pc \/ pc' \in {"raised", "end"}
      BY <1>3 DEF JoinData, Delivered, Raised
  <2> QED
      BY <1>3, <2>1, HandEffect
<1>4. CASE JoinStats
  <2>1. pc' = pc \/ pc' \in {"raised", "end"}
      BY <1>4 DEF JoinStats, Delivered, Raised
  <2> QED
      BY <1>4, <2>1, StatisticsEffect
<1>5. CASE Joined
    BY <1>5 DEF Joined, gun, closing
<1>6. CASE Flush
  <2>1. pc' = pc \/ pc' \in {"raised", "end"}
      BY <1>6 DEF Flush, Delivered, Raised
  <2> QED
      BY <1>6, <2>1, FlushEffect
<1>7. CASE StatsPut \/ GunOver \/ StatsOver \/ \E d \in Drains : Check(d)
    BY <1>7 DEF StatsPut, GunOver, StatsOver, Check, main, gun, closing, TypeOK, Drains
<1>8. CASE TakeStats \/ Flushed
    BY <1>8 DEF TakeStats, Flushed, gun, closing
<1>9. CASE Start \/ Stop
    BY <1>9 DEF Start, Stop, rest, gun, closing, Apart
<1>10. CASE Ending
    BY <1>10 DEF Ending, GeneratorEnds, GeneratorFails, WaitGun, WaitStats, rest, gun, closing
<1>11. CASE UNCHANGED vars
    BY <1>11 DEF vars, main, gun, closing
<1> QED
    BY <1>1, <1>2, <1>3, <1>4, <1>5, <1>6, <1>7, <1>8, <1>9, <1>10, <1>11 DEF Next, Thread, Collecting

\* What a raise does to the types.
LEMMA RaisedType ==
    ASSUME TypeOK, NEW ts \in Ts, Raised(ts)
    PROVE  /\ raises' \in 0 .. MaxRaises /\ dropped' \in SUBSET Ts
           /\ gotData' \in Seq(Ts) /\ gotStats' \in Seq(Ts)
           /\ flushing' = {} /\ delivered' = delivered
           /\ pc' \in {"raised", "end"}
<1>1. raises \in Nat /\ raises < MaxRaises /\ raises' = raises + 1 /\ MaxRaises \in Nat
    BY AggregatorAssumption DEF AggregatorAssumption, TypeOK, Raised
<1>2. ToSet(gotData) \subseteq Ts
    BY DEF ToSet, TypeOK
<1> QED
    BY <1>1, <1>2 DEF Raised, TypeOK

\* The types are preserved by every step.
LEMMA TypeStep == TypeOK /\ [Next]_vars => TypeOK'
<1> SUFFICES ASSUME TypeOK, [Next]_vars PROVE TypeOK'
    OBVIOUS
<1>1. CASE GunPut
  <2>1. gunStream' \in Seq(Ts) /\ results' \in Seq(Ts)
      BY <1>1, PutEffect
  <2>2. gunOver' = gunOver /\ drain' = [drain EXCEPT !["gun"] = "check"] /\ pc' = pc
      BY <1>1 DEF GunPut, Gun!Emit, main
  <2> QED
      BY <1>1, <2>1, <2>2 DEF GunPut, TypeOK, main, stats, history, closing, Drains
<1>2. CASE StatsPut
  <2>1. PICK ts \in Ts : Stats!Emit(ts) /\ statsResults' = Append(statsResults, ts)
      BY <1>2 DEF StatsPut
  <2>2. statsStream' \in Seq(Ts) /\ statsResults' \in Seq(Ts) /\ statsOver' = statsOver
      BY <2>1 DEF TypeOK, Stats!Emit
  <2>3. drain' = [drain EXCEPT !["stats"] = "check"]
      BY <1>2 DEF StatsPut
  <2> QED
      BY <1>2, <2>2, <2>3 DEF StatsPut, TypeOK, main, gun, history, closing, Drains
<1>3. CASE GunOver
    BY <1>3 DEF GunOver, Gun!End, TypeOK, main, stats, history, closing, Drains
<1>4. CASE StatsOver
    BY <1>4 DEF StatsOver, Stats!End, TypeOK, main, gun, history, closing, Drains
<1>5. ASSUME NEW d \in Drains, Check(d) PROVE TypeOK'
    BY <1>5 DEF Check, TypeOK, main, gun, stats, history, closing, Drains
<1>6. CASE TakeData
    BY <1>6 DEF TakeData, TypeOK, stats, history, closing
<1>7. CASE TakeStats
    BY <1>7 DEF TakeStats, TypeOK, gun, history, closing
<1>8. CASE JoinData
  <2> DEFINE ts == Head(gotData)
  <2>1. /\ Tail(gotData) \in Seq(Ts) /\ ts \in Ts /\ pc = "join"
        /\ UNCHANGED <<ending, gun, stats, drain, closing>>
      BY <1>8, SetOfTail DEF JoinData, TypeOK
  <2>2. CASE /\ ts \in statCache /\ statCache' = statCache \ {ts} /\ UNCHANGED dataCache
             /\ Delivered(ts, TRUE) /\ gotData' = Tail(gotData) /\ UNCHANGED <<gotStats, flushing>>
      BY <2>1, <2>2, Gave DEF TypeOK, gun, stats, closing
  <2>3. CASE /\ statCache' = statCache \ {ts} /\ UNCHANGED dataCache
             /\ Raised(ts)
      BY <2>1, <2>3, RaisedType DEF TypeOK, gun, stats, closing
  <2>4. CASE /\ dataCache' = dataCache \union {ts} /\ gotData' = Tail(gotData)
             /\ UNCHANGED <<pc, gotStats, statCache, flushing, history>>
      BY <2>1, <2>4 DEF TypeOK, gun, stats, history, closing
  <2> QED
      BY <1>8, <2>2, <2>3, <2>4 DEF JoinData
<1>9. CASE JoinStats
  <2> DEFINE ts == Head(gotStats)
  <2>1. /\ Tail(gotStats) \in Seq(Ts) /\ ts \in Ts /\ pc = "join"
        /\ UNCHANGED <<ending, gun, stats, drain, closing>>
      BY <1>9, SetOfTail DEF JoinStats, TypeOK
  <2>2. CASE /\ dataCache' = dataCache \ {ts} /\ UNCHANGED statCache
             /\ Delivered(ts, TRUE) /\ gotStats' = Tail(gotStats) /\ UNCHANGED <<gotData, flushing>>
      BY <2>1, <2>2, Gave DEF TypeOK, gun, stats, closing
  <2>3. CASE /\ dataCache' = dataCache \ {ts} /\ UNCHANGED statCache
             /\ Raised(ts)
      BY <2>1, <2>3, RaisedType DEF TypeOK, gun, stats, closing
  <2>4. CASE /\ statCache' = statCache \union {ts} /\ gotStats' = Tail(gotStats)
             /\ UNCHANGED <<pc, gotData, dataCache, flushing, history>>
      BY <2>1, <2>4 DEF TypeOK, gun, stats, history, closing
  <2> QED
      BY <1>9, <2>2, <2>3, <2>4 DEF JoinStats
<1>10. CASE Joined
    BY <1>10 DEF Joined, TypeOK, gun, stats, history, closing
<1>11. CASE Flush
  <2>1. UNCHANGED <<ending, dataCache, statCache, gun, stats, drain, closing>> /\ pc = "flush"
      BY <1>11 DEF Flush
  <2>2. PICK ts \in flushing :
           \/ Delivered(ts, FALSE) /\ flushing' = flushing \ {ts} /\ UNCHANGED <<gotData, gotStats>>
           \/ Raised(ts)
      BY <1>11 DEF Flush
  <2>3. ts \in Ts
      BY DEF TypeOK
  <2>4. CASE Delivered(ts, FALSE) /\ flushing' = flushing \ {ts} /\ UNCHANGED <<gotData, gotStats>>
      BY <2>1, <2>3, <2>4, Gave DEF TypeOK, gun, stats, closing
  <2>5. CASE Raised(ts)
      BY <2>1, <2>3, <2>5, RaisedType DEF TypeOK, gun, stats, closing
  <2> QED
      BY <2>2, <2>4, <2>5
<1>12. CASE Flushed
    BY <1>12 DEF Flushed, TypeOK, gun, stats, history, closing
<1>13. CASE Start
    BY <1>13 DEF Start, TypeOK, rest, gun, stats, history, closing, Drains
<1>14. CASE Stop
    BY <1>14 DEF Stop, TypeOK, rest, gun, stats, history, closing
<1>15. CASE Ending
  <2>1. UNCHANGED rest /\ UNCHANGED drain
      BY <1>15 DEF Ending, GeneratorEnds, GeneratorFails, WaitGun, WaitStats
  <2>2. /\ pc' \in {"collect", "waitGun", "waitStats", "raised"}
        /\ pc' \in {"waitGun", "waitStats"} => drain["gun"] # "new"
      BY <1>15 DEF Ending, GeneratorEnds, GeneratorFails, WaitGun, WaitStats, TypeOK
  <2>3. interrupted' \in SUBSET Drains /\ warned' \in SUBSET Drains
      BY <1>15 DEF Ending, GeneratorEnds, GeneratorFails, WaitGun, WaitStats, TypeOK, closing, Drains
  <2> QED
      BY <2>1, <2>2, <2>3 DEF TypeOK, rest, gun, stats, history
<1>16. CASE UNCHANGED vars
    BY <1>16 DEF vars, TypeOK, main, gun, stats, history, closing
<1> QED
    BY <1>1, <1>2, <1>3, <1>4, <1>5, <1>6, <1>7, <1>8, <1>9, <1>10, <1>11, <1>12, <1>13, <1>14, <1>15, <1>16
    DEF Next, Thread, Collecting

\* The invariant holds in the beginning.
LEMMA Initially == Init => IInv
<1> SUFFICES ASSUME Init PROVE IInv
    OBVIOUS
<1>1. /\ gunStream = << >> /\ gunOver = FALSE
      /\ statsStream = << >> /\ statsOver = FALSE
    BY DEF Init, Gun!Init, Stats!Init
<1>2. TypeOK
  <2>1. << >> \in Seq(Ts) /\ << >> \in Seq([ts : Ts, real : BOOLEAN])
      OBVIOUS
  <2>2. 0 \in 0 .. MaxRaises
      BY AggregatorAssumption DEF AggregatorAssumption
  <2>3. drain \in [Drains -> {"new", "next", "check", "over"}]
      BY DEF Init
  <2> QED
      BY <1>1, <2>1, <2>2, <2>3 DEF Init, TypeOK
<1>3. Given = {} /\ EachOnce
    BY DEF Init, Given, EachOnce
<1>4. Placed /\ Apart /\ Accounted /\ Quiet
    BY <1>1, <1>3, SetOfEmpty DEF Init, Placed, Apart, Accounted, Quiet
<1> QED
    BY <1>2, <1>4 DEF IInv

\* The invariant is inductive.
THEOREM Inductive == Spec => []IInv
<1>1. IInv /\ [Next]_vars => IInv'
    BY TypeStep, PlacedStep, ApartStep, AccountedStep, QuietStep DEF IInv
<1> QED
    BY Initially, <1>1, PTL DEF Spec

\* The types of the state, and that no thread is waited for that was not made.
THEOREM TypeCorrect == Spec => []TypeOK
<1>1. IInv => TypeOK
    BY DEF IInv
<1> QED
    BY Inductive, <1>1, PTL

\* No second reaches the listeners twice.
THEOREM GivesOnce == Spec => []EachOnce
<1>1. IInv => EachOnce
    BY DEF IInv, Placed
<1> QED
    BY Inductive, <1>1, PTL

\* What the chopper gave is with the listeners when the end of the test is over,
\* but for what a listener's exception dropped and what was warned about.
THEOREM LosesNothing == Spec => []NothingLost
<1>1. ASSUME IInv PROVE NothingLost
  <2>1. SUFFICES ASSUME pc = "closed", "gun" \notin warned
                 PROVE  ToSet(gunStream) \subseteq Given \union dropped
      BY DEF NothingLost
  <2>2. results = << >> /\ gotData = << >> /\ flushing = {}
      BY <1>1, <2>1 DEF IInv, Apart, Quiet
  <2> QED
      BY <1>1, <2>1, <2>2, SetOfEmpty DEF IInv, Accounted
<1> QED
    BY Inductive, <1>1, PTL

\* Every second reaches the listeners once, but for those lost with a reason
\* (tank_aggregator.py, _collect_data and end_test).
THEOREM GivesEachOnce == Spec => []SecondsOnce
<1>1. SecondsOnce <=> EachOnce /\ NothingLost
    BY DEF SecondsOnce
<1> QED
    BY <1>1, GivesOnce, LosesNothing, PTL

-----------------------------------------------------------------------------
(***************************************************************************)
(* Each second with its own statistics                                     *)
(***************************************************************************)

\* What was given is with the statistics of its second, or came at the end, when
\* none were collected.
Matched ==
    \A i \in DOMAIN delivered :
        IF delivered[i].real
        THEN delivered[i].ts \in ToSet(statsStream)
        ELSE ending /\ pc \in {"flush", "closed", "raised"} /\ delivered[i].ts \notin statCache

\* No second waits in both caches, and what is held came from the stream.
Owned ==
    /\ dataCache \intersect statCache = {}
    /\ ToSet(statsResults) \subseteq ToSet(statsStream)
    /\ ToSet(gotStats) \subseteq ToSet(statsStream)
    /\ statCache \subseteq ToSet(statsStream)
    /\ Matched

\* The steps that leave the statistics and what was given where they are.
StillStats == UNCHANGED <<statsResults, statsStream, gotStats, dataCache, statCache, delivered>>

\* Every other step leaves them, and what comes after the end is never left.
LEMMA StillStatsSteps ==
    ASSUME TypeOK, Apart, [Next]_vars
    PROVE  \/ StatsPut \/ TakeStats \/ JoinData \/ JoinStats \/ Flush
           \/ /\ StillStats
              /\ ending /\ pc \in {"flush", "closed", "raised"} => ending' /\ pc' \in {"flush", "closed", "raised"}
<1> USE DEF StillStats
<1>1. CASE GunPut \/ GunOver \/ StatsOver \/ \E d \in Drains : Check(d)
    BY <1>1 DEF GunPut, GunOver, StatsOver, Check, main, stats, history, Stats!End
<1>2. CASE Start \/ Stop \/ Ending
    BY <1>2 DEF Start, Stop, Ending, GeneratorEnds, GeneratorFails, WaitGun, WaitStats, rest, stats, history
<1>3. CASE TakeData \/ Joined \/ Flushed
    BY <1>3 DEF TakeData, Joined, Flushed, stats, history
<1>4. CASE UNCHANGED vars
    BY <1>4 DEF vars, main, stats, history
<1> QED
    BY <1>1, <1>2, <1>3, <1>4 DEF Next, Thread, Collecting

\* Giving one more second keeps what was given matched.
LEMMA MatchedGave ==
    ASSUME TypeOK, Matched, NEW ts \in Ts, NEW real \in BOOLEAN, Delivered(ts, real),
           statCache' \subseteq statCache, ToSet(statsStream) \subseteq ToSet(statsStream'), UNCHANGED ending,
           IF real THEN ts \in ToSet(statsStream) ELSE ending /\ pc \in {"flush", "closed", "raised"} /\ ts \notin statCache
    PROVE  Matched'
<1> DEFINE R == [ts : Ts, real : BOOLEAN]
           r == [ts |-> ts, real |-> real]
           n == Len(delivered) + 1
<1>1. delivered \in Seq(R) /\ r \in R /\ delivered' = Append(delivered, r)
    BY DEF TypeOK, Delivered
<1>2. /\ \A i \in DOMAIN delivered' : i \in DOMAIN delivered \/ i = n
      /\ \A i \in DOMAIN delivered : delivered'[i] = delivered[i]
      /\ delivered'[n] = r
  <2> HIDE DEF R, r
  <2> QED
      BY <1>1
<1>3. r.ts = ts /\ r.real = real
    OBVIOUS
<1>4. pc' = pc
    BY DEF Delivered
<1> HIDE DEF n, r
<1>5. SUFFICES ASSUME NEW i \in DOMAIN delivered'
               PROVE  IF delivered'[i].real
                      THEN delivered'[i].ts \in ToSet(statsStream')
                      ELSE ending' /\ pc' \in {"flush", "closed", "raised"} /\ delivered'[i].ts \notin statCache'
    BY DEF Matched
<1>6. CASE i \in DOMAIN delivered
  <2>1. delivered'[i] = delivered[i]
      BY <1>2, <1>6
  <2>2. IF delivered[i].real
        THEN delivered[i].ts \in ToSet(statsStream)
        ELSE ending /\ pc \in {"flush", "closed", "raised"} /\ delivered[i].ts \notin statCache
      BY <1>6 DEF Matched
  <2> QED
      BY <1>4, <2>1, <2>2
<1>7. CASE i = n
    BY <1>2, <1>3, <1>4, <1>7
<1> QED
    BY <1>2, <1>6, <1>7

\* Giving nothing keeps it matched, while no more statistics are cached at the end.
LEMMA MatchedGaveNot ==
    ASSUME Matched, UNCHANGED delivered, ToSet(statsStream) \subseteq ToSet(statsStream'),
           ending /\ pc \in {"flush", "closed", "raised"}
               => ending' /\ pc' \in {"flush", "closed", "raised"} /\ statCache' \subseteq statCache
    PROVE  Matched'
BY DEF Matched

\* The caches stay apart and what is held stays in the stream.
LEMMA OwnedStep == TypeOK /\ Apart /\ Owned /\ [Next]_vars => Owned'
<1> SUFFICES ASSUME TypeOK, Apart, Owned, [Next]_vars PROVE Owned'
    OBVIOUS
<1>1. CASE StatsPut
  <2>1. PICK ts \in Ts : statsStream' = Append(statsStream, ts) /\ statsResults' = Append(statsResults, ts)
      BY <1>1 DEF StatsPut, Stats!Emit
  <2>2. UNCHANGED <<pc, ending, gotStats, dataCache, statCache, delivered>>
      BY <1>1 DEF StatsPut, main, history
  <2>3. /\ ToSet(statsStream') = ToSet(statsStream) \union {ts}
        /\ ToSet(statsResults') = ToSet(statsResults) \union {ts}
      BY <2>1, SetOfAppend DEF TypeOK
  <2>4. Matched'
      BY <2>2, <2>3, MatchedGaveNot DEF Owned
  <2> QED
      BY <2>2, <2>3, <2>4 DEF Owned
<1>2. CASE TakeStats
  <2>1. /\ pc = "stats" /\ gotStats' = statsResults /\ statsResults' = << >>
        /\ UNCHANGED <<statsStream, ending, dataCache, statCache, delivered>>
      BY <1>2 DEF TakeStats, history
  <2>2. Matched'
      BY <2>1, MatchedGaveNot DEF Owned
  <2> QED
      BY <2>1, <2>2, SetOfEmpty DEF Owned
<1>3. CASE JoinData
  <2> DEFINE ts == Head(gotData)
  <2>1. /\ pc = "join" /\ ts \in Ts
        /\ UNCHANGED <<ending, statsResults, statsStream>>
      BY <1>3, HandEffect DEF JoinData, stats
  <2>2. CASE /\ ts \in statCache /\ statCache' = statCache \ {ts} /\ UNCHANGED <<dataCache, gotStats>>
             /\ Delivered(ts, TRUE)
    <3>1. Matched'
        BY <2>1, <2>2, MatchedGave DEF Owned
    <3> QED
        BY <2>1, <2>2, <3>1 DEF Owned
  <2>3. CASE /\ statCache' = statCache \ {ts} /\ UNCHANGED dataCache
             /\ Raised(ts)
    <3>1. UNCHANGED delivered /\ gotStats' = << >>
        BY <2>3 DEF Raised
    <3>2. Matched'
        BY <2>1, <3>1, MatchedGaveNot DEF Owned
    <3> QED
        BY <2>1, <2>3, <3>1, <3>2, SetOfEmpty DEF Owned
  <2>4. CASE /\ ts \notin statCache /\ dataCache' = dataCache \union {ts}
             /\ UNCHANGED <<gotStats, statCache, delivered>>
    <3>1. Matched'
        BY <2>1, <2>4, MatchedGaveNot DEF Owned
    <3> QED
        BY <2>1, <2>4, <3>1 DEF Owned
  <2> QED
      BY <1>3, <2>2, <2>3, <2>4 DEF JoinData, history
<1>4. CASE JoinStats
  <2> DEFINE ts == Head(gotStats)
  <2>1. /\ pc = "join" /\ ts \in Ts
        /\ UNCHANGED <<ending, statsResults, statsStream>>
      BY <1>4, StatisticsEffect DEF JoinStats, stats
  <2>2. ToSet(gotStats) = ToSet(Tail(gotStats)) \union {ts}
      BY <1>4, SetOfTail DEF TypeOK, JoinStats
  <2>3. CASE /\ dataCache' = dataCache \ {ts} /\ UNCHANGED statCache
             /\ Delivered(ts, TRUE) /\ gotStats' = Tail(gotStats)
    <3>1. ts \in ToSet(statsStream)
        BY <2>2 DEF Owned
    <3>2. Matched'
        BY <2>1, <2>3, <3>1, MatchedGave DEF Owned
    <3> QED
        BY <2>1, <2>2, <2>3, <3>2 DEF Owned
  <2>4. CASE /\ dataCache' = dataCache \ {ts} /\ UNCHANGED statCache
             /\ Raised(ts)
    <3>1. UNCHANGED delivered /\ gotStats' = << >>
        BY <2>4 DEF Raised
    <3>2. Matched'
        BY <2>1, <3>1, MatchedGaveNot DEF Owned
    <3> QED
        BY <2>1, <2>4, <3>1, <3>2, SetOfEmpty DEF Owned
  <2>5. CASE /\ ts \notin dataCache /\ statCache' = statCache \union {ts} /\ gotStats' = Tail(gotStats)
             /\ UNCHANGED <<dataCache, delivered>>
    <3>1. Matched'
        BY <2>1, <2>5, MatchedGaveNot DEF Owned
    <3> QED
        BY <2>1, <2>2, <2>5, <3>1 DEF Owned
  <2> QED
      BY <1>4, <2>3, <2>4, <2>5 DEF JoinStats, history
<1>5. CASE Flush
  <2>1. pc = "flush" /\ UNCHANGED <<ending, statsResults, statsStream, dataCache, statCache>>
      BY <1>5, FlushEffect DEF Flush, stats
  <2>2. PICK ts \in flushing :
           \/ Delivered(ts, FALSE) /\ UNCHANGED gotStats
           \/ Raised(ts)
      BY <1>5 DEF Flush
  <2>3. ts \in Ts /\ ts \notin statCache /\ ending
      BY <2>1 DEF TypeOK, Apart, Owned
  <2>4. CASE Delivered(ts, FALSE) /\ UNCHANGED gotStats
    <3>1. Matched'
        BY <2>1, <2>3, <2>4, MatchedGave DEF Owned
    <3> QED
        BY <2>1, <2>4, <3>1 DEF Owned
  <2>5. CASE Raised(ts)
    <3>1. UNCHANGED delivered /\ gotStats' = << >> /\ pc' = "raised"
        BY <2>3, <2>5 DEF Raised
    <3>2. Matched'
        BY <2>1, <3>1, MatchedGaveNot DEF Owned
    <3> QED
        BY <2>1, <3>1, <3>2, SetOfEmpty DEF Owned
  <2> QED
      BY <2>2, <2>4, <2>5
<1>6. CASE /\ StillStats
           /\ ending /\ pc \in {"flush", "closed", "raised"} => ending' /\ pc' \in {"flush", "closed", "raised"}
  <2>1. Matched'
      BY <1>6, MatchedGaveNot DEF Owned, StillStats
  <2> QED
      BY <1>6, <2>1 DEF StillStats, Owned
<1> QED
    BY <1>1, <1>2, <1>3, <1>4, <1>5, <1>6, StillStatsSteps

\* A second comes with the statistics of that second whenever the worker has both
\* (tank_aggregator.py, _collect_data).
THEOREM ComesWithItsOwn == Spec => []OwnStatistics
<1>1. Init => Owned
  <2>1. SUFFICES ASSUME Init PROVE Owned
      OBVIOUS
  <2> QED
      BY <2>1, SetOfEmpty DEF Init, Stats!Init, Owned, Matched
<1>2. IInv /\ Owned /\ [Next]_vars => Owned'
    BY OwnedStep DEF IInv
<1>3. Owned => OwnStatistics
    BY DEF Owned, Matched, OwnStatistics
<1> QED
    BY Inductive, <1>1, <1>2, <1>3, PTL DEF Spec

-----------------------------------------------------------------------------
(***************************************************************************)
(* In ascending order                                                      *)
(***************************************************************************)

\* How many seconds of each stream the worker handled.
Handled == Len(gunStream) - Len(results) - Len(gotData)
HandledStats == Len(statsStream) - Len(statsResults) - Len(gotStats)

\* What a queue holds goes on after what the hand holds, and that after n.
Follow(n, hand, queue) ==
    /\ n \in Nat
    /\ \A i \in DOMAIN hand : hand[i] = n + i
    /\ \A i \in DOMAIN queue : queue[i] = n + Len(hand) + i

\* The worker handled the first seconds of both streams; those it handled of
\* both it gave, and those of one wait in its cache.
Aligned ==
    /\ Follow(Handled, gotData, results)
    /\ Follow(HandledStats, gotStats, statsResults)
    /\ dataCache = HandledStats + 1 .. Handled
    /\ statCache = Handled + 1 .. HandledStats
    /\ \A i \in DOMAIN delivered : delivered[i].ts = i
    /\ pc \notin {"flush", "closed", "raised"} => Len(delivered) = IF Handled <= HandledStats THEN Handled ELSE HandledStats
    /\ pc = "flush" => flushing = Len(delivered) + 1 .. Handled

Complete == Gapless(gunStream) /\ Gapless(statsStream) /\ dropped = {}

\* The worker has statistics in hand only while it joins.
Lined ==
    /\ pc # "join" => gotStats = << >>
    /\ Complete => Aligned

\* What was complete after a step was so before it.
LEMMA CompleteBefore ==
    ASSUME TypeOK, [Next]_vars, Complete'
    PROVE  Complete
<1>1. dropped \subseteq dropped'
    BY DEF Next, Start, Stop, Thread, GunPut, StatsPut, GunOver, StatsOver, Check, Collecting, TakeData, TakeStats, JoinData,
           JoinStats, Joined, Flush, Flushed, Ending, GeneratorEnds, GeneratorFails, WaitGun, WaitStats, Delivered, Raised,
           vars, rest, history
<1>2. gunStream' = gunStream \/ \E ts \in Ts : gunStream' = Append(gunStream, ts)
    BY DEF Next, Start, Stop, Thread, GunPut, StatsPut, GunOver, StatsOver, Check, Collecting, TakeData, TakeStats, JoinData,
           JoinStats, Joined, Flush, Flushed, Ending, GeneratorEnds, GeneratorFails, WaitGun, WaitStats,
           vars, rest, gun, Gun!Emit, Gun!End
<1>3. statsStream' = statsStream \/ \E ts \in Ts : statsStream' = Append(statsStream, ts)
    BY DEF Next, Start, Stop, Thread, GunPut, StatsPut, GunOver, StatsOver, Check, Collecting, TakeData, TakeStats, JoinData,
           JoinStats, Joined, Flush, Flushed, Ending, GeneratorEnds, GeneratorFails, WaitGun, WaitStats,
           vars, rest, stats, Stats!Emit, Stats!End
<1>4. ASSUME NEW s \in Seq(Ts), NEW ts \in Ts, Gapless(Append(s, ts)) PROVE Gapless(s)
  <2>1. \A i \in DOMAIN s : i \in DOMAIN Append(s, ts) /\ Append(s, ts)[i] = s[i]
      OBVIOUS
  <2> QED
      BY <1>4, <2>1 DEF Gapless
<1>5. gunStream \in Seq(Ts) /\ statsStream \in Seq(Ts)
    BY DEF TypeOK
<1>6. Gapless(gunStream') /\ Gapless(statsStream') /\ dropped' = {}
    BY DEF Complete, Gapless
<1> QED
    BY <1>1, <1>2, <1>3, <1>4, <1>5, <1>6 DEF Complete

\* One more second is put into a queue.
LEMMA FollowPut ==
    ASSUME NEW n, NEW hand \in Seq(Ts), NEW queue \in Seq(Ts), NEW ts \in Ts, Follow(n, hand, queue),
           ts = n + Len(hand) + Len(queue) + 1
    PROVE  Follow(n, hand, Append(queue, ts)) /\ Len(Append(queue, ts)) = Len(queue) + 1
<1> DEFINE q == Append(queue, ts)
<1>1. Len(q) = Len(queue) + 1
    OBVIOUS
<1>2. \A i \in DOMAIN q : (i \in DOMAIN queue /\ q[i] = queue[i]) \/ (i = Len(queue) + 1 /\ q[i] = ts)
    OBVIOUS
<1>3. n \in Nat /\ Len(hand) \in Nat /\ Len(queue) \in Nat
    BY DEF Follow
<1> HIDE DEF q
<1>4. \A i \in DOMAIN q : q[i] = n + Len(hand) + i
    BY <1>2, <1>3 DEF Follow
<1>5. Follow(n, hand, q)
    BY <1>3, <1>4 DEF Follow
<1> QED
    BY <1>1, <1>5 DEF q

\* The queue is taken into the hand, which was empty.
LEMMA FollowTaken ==
    ASSUME NEW n, NEW queue \in Seq(Ts), Follow(n, << >>, queue)
    PROVE  Follow(n, queue, << >>)
<1> DEFINE e == << >>
<1>1. Len(e) = 0 /\ DOMAIN e = {} /\ DOMAIN queue \subseteq Nat
    OBVIOUS
<1>2. n \in Nat /\ \A i \in DOMAIN queue : queue[i] = n + Len(e) + i
    BY DEF Follow
<1> HIDE DEF e
<1>3. Follow(n, queue, e)
    BY <1>1, <1>2 DEF Follow
<1> QED
    BY <1>3 DEF e

\* The first second in the hand is the next.
LEMMA FollowNext ==
    ASSUME NEW n, NEW hand \in Seq(Ts), NEW queue \in Seq(Ts), Follow(n, hand, queue), hand # << >>
    PROVE  /\ Head(hand) = n + 1
           /\ Len(Tail(hand)) = Len(hand) - 1
           /\ Follow(n + 1, Tail(hand), queue)
<1> DEFINE t == Tail(hand)
<1>1. n \in Nat /\ Len(hand) \in Nat \ {0} /\ DOMAIN queue \subseteq Nat
    BY DEF Follow
<1>2. Head(hand) = hand[1] /\ 1 \in DOMAIN hand
    BY <1>1
<1>3. Len(t) = Len(hand) - 1
    BY <1>1
<1>4. \A i \in DOMAIN t : i \in Nat /\ i + 1 \in DOMAIN hand /\ t[i] = hand[i + 1]
    BY <1>1
<1> HIDE DEF t
<1>5. Head(hand) = n + 1
    BY <1>1, <1>2 DEF Follow
<1>6. \A i \in DOMAIN t : t[i] = n + 1 + i
    BY <1>1, <1>4 DEF Follow
<1>7. \A i \in DOMAIN queue : queue[i] = n + 1 + Len(t) + i
    BY <1>1, <1>3 DEF Follow
<1>8. Follow(n + 1, t, queue)
    BY <1>1, <1>6, <1>7 DEF Follow
<1> QED
    BY <1>3, <1>5, <1>8 DEF t

\* The next second is given.
LEMMA NumberedGave ==
    ASSUME TypeOK, \A i \in DOMAIN delivered : delivered[i].ts = i,
           NEW ts \in Ts, NEW real \in BOOLEAN, Delivered(ts, real), ts = Len(delivered) + 1
    PROVE  /\ \A i \in DOMAIN delivered' : delivered'[i].ts = i
           /\ Len(delivered') = Len(delivered) + 1
           /\ UNCHANGED <<pc, dropped>>
<1> DEFINE R == [ts : Ts, real : BOOLEAN]
           r == [ts |-> ts, real |-> real]
           n == Len(delivered) + 1
<1>1. delivered \in Seq(R) /\ r \in R /\ delivered' = Append(delivered, r)
    BY DEF TypeOK, Delivered
<1>2. /\ \A i \in DOMAIN delivered' : i \in DOMAIN delivered \/ i = n
      /\ \A i \in DOMAIN delivered : delivered'[i] = delivered[i]
      /\ delivered'[n] = r
      /\ Len(delivered') = n
  <2> HIDE DEF R, r
  <2> QED
      BY <1>1
<1>3. r.ts = n
    OBVIOUS
<1> HIDE DEF n, r
<1>4. \A i \in DOMAIN delivered' : delivered'[i].ts = i
    BY <1>2, <1>3
<1> QED
    BY <1>2, <1>4 DEF n, Delivered

\* Nothing is dropped: no listener raises.
LEMMA RaisedIncomplete == \A ts : Raised(ts) => dropped' # {}
BY DEF Raised

\* The steps that leave what is held and what was given where it is.
StillBoth == Still /\ StillStats

\* Every other step leaves it, and the hands are emptied where they were filled.
LEMMA StillBothSteps ==
    ASSUME TypeOK, [Next]_vars
    PROVE  \/ GunPut \/ StatsPut \/ TakeData \/ TakeStats \/ JoinData \/ JoinStats \/ Joined \/ Flush
           \/ /\ StillBoth
              /\ \/ pc' = pc
                 \/ pc \notin {"join", "flush", "closed", "raised"} /\ pc' # "flush"
                 \/ pc = "flush" /\ pc' = "closed"
<1> USE DEF StillBoth, Still, StillStats
<1>1. CASE GunOver \/ StatsOver \/ \E d \in Drains : Check(d)
    BY <1>1 DEF GunOver, StatsOver, Check, main, gun, stats, history, Gun!End, Stats!End
<1>2. CASE Start \/ Stop \/ Ending
    BY <1>2 DEF Start, Stop, Ending, GeneratorEnds, GeneratorFails, WaitGun, WaitStats, rest, gun, stats, history
<1>3. CASE Flushed
    BY <1>3 DEF Flushed, gun, stats, history
<1>4. CASE UNCHANGED vars
    BY <1>4 DEF vars, main, gun, stats, history
<1> QED
    BY <1>1, <1>2, <1>3, <1>4 DEF Next, Thread, Collecting

\* The lengths are numbers.
LEMMA Lengths ==
    ASSUME TypeOK
    PROVE  /\ Len(gunStream) \in Nat /\ Len(results) \in Nat /\ Len(gotData) \in Nat
           /\ Len(statsStream) \in Nat /\ Len(statsResults) \in Nat /\ Len(gotStats) \in Nat
           /\ Len(delivered) \in Nat
BY DEF TypeOK

\* A stream that has no gap goes on with the next second.
LEMMA NextOfGapless ==
    ASSUME NEW s \in Seq(Ts), NEW ts \in Ts, Gapless(Append(s, ts))
    PROVE  ts = Len(s) + 1 /\ Len(Append(s, ts)) = Len(s) + 1
<1>1. Append(s, ts)[Len(s) + 1] = ts /\ Len(s) + 1 \in DOMAIN Append(s, ts)
    OBVIOUS
<1> QED
    BY <1>1 DEF Gapless

\* A thread puts the next second into its queue.
LEMMA AlignedPut == TypeOK /\ Aligned /\ Complete' /\ (GunPut \/ StatsPut) => Aligned'
<1> SUFFICES ASSUME TypeOK, Aligned, Complete', GunPut \/ StatsPut PROVE Aligned'
    OBVIOUS
<1>1. UNCHANGED <<pc, gotData, gotStats, dataCache, statCache, flushing, delivered>>
    BY DEF GunPut, StatsPut, main, history
<1>2. CASE GunPut
  <2>1. PICK ts \in Ts : gunStream' = Append(gunStream, ts) /\ results' = Append(results, ts)
      BY <1>2 DEF GunPut, Gun!Emit
  <2>2. UNCHANGED <<statsStream, statsResults>>
      BY <1>2 DEF GunPut, stats
  <2>3. ts = Len(gunStream) + 1 /\ Len(gunStream') = Len(gunStream) + 1
      BY <2>1, NextOfGapless DEF TypeOK, Complete, Gapless
  <2>4. ts = Handled + Len(gotData) + Len(results) + 1
      BY <2>3, Lengths DEF Handled
  <2>5. Follow(Handled, gotData, results') /\ Len(results') = Len(results) + 1
      BY <2>1, <2>4, FollowPut DEF Aligned, TypeOK
  <2>6. Handled' = Handled /\ HandledStats' = HandledStats
      BY <1>1, <2>2, <2>3, <2>5, Lengths DEF Handled, HandledStats
  <2> QED
      BY <1>1, <2>2, <2>5, <2>6 DEF Aligned
<1>3. CASE StatsPut
  <2>1. PICK ts \in Ts : statsStream' = Append(statsStream, ts) /\ statsResults' = Append(statsResults, ts)
      BY <1>3 DEF StatsPut, Stats!Emit
  <2>2. UNCHANGED <<gunStream, results>>
      BY <1>3 DEF StatsPut, gun
  <2>3. ts = Len(statsStream) + 1 /\ Len(statsStream') = Len(statsStream) + 1
      BY <2>1, NextOfGapless DEF TypeOK, Complete, Gapless
  <2>4. ts = HandledStats + Len(gotStats) + Len(statsResults) + 1
      BY <2>3, Lengths DEF HandledStats
  <2>5. Follow(HandledStats, gotStats, statsResults') /\ Len(statsResults') = Len(statsResults) + 1
      BY <2>1, <2>4, FollowPut DEF Aligned, TypeOK
  <2>6. Handled' = Handled /\ HandledStats' = HandledStats
      BY <1>1, <2>2, <2>3, <2>5, Lengths DEF Handled, HandledStats
  <2> QED
      BY <1>1, <2>2, <2>5, <2>6 DEF Aligned
<1> QED
    BY <1>2, <1>3

\* The worker takes what is in a queue.
LEMMA AlignedTake == TypeOK /\ Apart /\ Lined /\ Aligned /\ (TakeData \/ TakeStats) => Aligned'
<1> SUFFICES ASSUME TypeOK, Apart, Lined, Aligned, TakeData \/ TakeStats PROVE Aligned'
    OBVIOUS
<1>1. Len(<< >>) = 0
    OBVIOUS
<1>2. CASE TakeData
  <2>1. /\ pc \in {"test", "collect"} /\ pc' = "stats" /\ gotData' = results /\ results' = << >>
        /\ UNCHANGED <<gunStream, statsStream, statsResults, gotStats, dataCache, statCache, delivered>>
      BY <1>2 DEF TakeData, stats, history
  <2>2. gotData = << >>
      BY <2>1 DEF Apart
  <2>3. Follow(Handled, results, << >>)
      BY <2>2, FollowTaken DEF Aligned, TypeOK
  <2>4. Handled' = Handled /\ HandledStats' = HandledStats
      BY <1>1, <2>1, <2>2, Lengths DEF Handled, HandledStats
  <2> QED
      BY <2>1, <2>3, <2>4 DEF Aligned
<1>3. CASE TakeStats
  <2>1. /\ pc = "stats" /\ pc' = "join" /\ gotStats' = statsResults /\ statsResults' = << >>
        /\ UNCHANGED <<gunStream, statsStream, results, gotData, dataCache, statCache, delivered>>
      BY <1>3 DEF TakeStats, gun, history
  <2>2. gotStats = << >>
      BY <2>1 DEF Lined
  <2>3. Follow(HandledStats, statsResults, << >>)
      BY <2>2, FollowTaken DEF Aligned, TypeOK
  <2>4. Handled' = Handled /\ HandledStats' = HandledStats
      BY <1>1, <2>1, <2>2, Lengths DEF Handled, HandledStats
  <2> QED
      BY <2>1, <2>3, <2>4 DEF Aligned
<1> QED
    BY <1>2, <1>3

\* What one more second does to what one stream is ahead of the other.
LEMMA Ahead ==
    ASSUME NEW a \in Nat, NEW b \in Nat
    PROVE  /\ a + 1 \in a + 1 .. b <=> a < b
           /\ a < b => (a + 1 .. b) \ {a + 1} = a + 2 .. b /\ b + 1 .. a = b + 1 .. a + 1
           /\ ~(a < b) => (b + 1 .. a) \union {a + 1} = b + 1 .. a + 1 /\ a + 1 .. b = a + 2 .. b
OBVIOUS

\* The worker handles the next second: it is the first of the other cache, or
\* that is empty.
LEMMA AlignedJoinData == TypeOK /\ Aligned /\ dropped' = {} /\ JoinData => Aligned'
<1> SUFFICES ASSUME TypeOK, Aligned, dropped' = {}, JoinData PROVE Aligned'
    OBVIOUS
<1> DEFINE ts == Head(gotData)
<1>1. /\ pc = "join" /\ ts \in Ts /\ gotData # << >>
      /\ UNCHANGED <<gunStream, results, statsStream, statsResults>>
    BY HandEffect DEF JoinData, gun, stats
<1>2. /\ \/ /\ ts \in statCache /\ statCache' = statCache \ {ts} /\ UNCHANGED dataCache
            /\ Delivered(ts, TRUE)
         \/ /\ ts \notin statCache /\ dataCache' = dataCache \union {ts} /\ UNCHANGED statCache
            /\ UNCHANGED <<pc, delivered>>
      /\ gotData' = Tail(gotData) /\ UNCHANGED gotStats
    BY RaisedIncomplete DEF JoinData, history
<1>3. /\ ts = Handled + 1
      /\ Len(gotData') = Len(gotData) - 1
      /\ Follow(Handled + 1, gotData', results)
    BY <1>1, <1>2, FollowNext DEF Aligned, TypeOK
<1> HIDE DEF ts
<1>4. Handled' = Handled + 1 /\ HandledStats' = HandledStats
    BY <1>1, <1>2, <1>3, Lengths DEF Handled, HandledStats
<1>5. Handled \in Nat /\ HandledStats \in Nat
    BY DEF Aligned, Follow
<1>6. /\ Follow(Handled', gotData', results')
      /\ Follow(HandledStats', gotStats', statsResults')
    BY <1>1, <1>2, <1>3, <1>4 DEF Aligned
<1>7. /\ dataCache = HandledStats + 1 .. Handled
      /\ statCache = Handled + 1 .. HandledStats
      /\ \A i \in DOMAIN delivered : delivered[i].ts = i
      /\ Len(delivered) = IF Handled <= HandledStats THEN Handled ELSE HandledStats
    BY <1>1 DEF Aligned
<1>8. CASE ts \in statCache
  <2>1. Handled < HandledStats
      BY <1>3, <1>5, <1>7, <1>8, Ahead
  <2>2. Len(delivered) = Handled /\ Delivered(ts, TRUE)
    <3>1. Len(delivered) = Handled
        BY <1>5, <1>7, <2>1
    <3>2. Delivered(ts, TRUE)
        BY <1>2, <1>8
    <3> QED
        BY <3>1, <3>2
  <2>3. /\ \A i \in DOMAIN delivered' : delivered'[i].ts = i
        /\ Len(delivered') = Handled + 1 /\ pc' = pc
      BY <1>1, <1>3, <1>7, <2>2, NumberedGave
  <2>4. dataCache' = HandledStats + 1 .. Handled + 1 /\ statCache' = Handled + 2 .. HandledStats
      BY <1>2, <1>3, <1>5, <1>7, <1>8, <2>1, Ahead
  <2> QED
      BY <1>1, <1>4, <1>5, <1>6, <2>1, <2>3, <2>4 DEF Aligned
<1>9. CASE ts \notin statCache
  <2>1. ~(Handled < HandledStats)
      BY <1>3, <1>5, <1>7, <1>9, Ahead
  <2>2. dataCache' = HandledStats + 1 .. Handled + 1 /\ statCache' = Handled + 2 .. HandledStats
      BY <1>2, <1>3, <1>5, <1>7, <1>9, <2>1, Ahead
  <2>3. Len(delivered) = HandledStats /\ UNCHANGED <<pc, delivered>>
    <3>1. Len(delivered) = HandledStats
        BY <1>5, <1>7, <2>1
    <3>2. UNCHANGED <<pc, delivered>>
        BY <1>2, <1>9
    <3> QED
        BY <3>1, <3>2
  <2> QED
      BY <1>1, <1>4, <1>5, <1>6, <1>7, <2>1, <2>2, <2>3 DEF Aligned
<1> QED
    BY <1>8, <1>9

\* The same with the next statistics.
LEMMA AlignedJoinStats == TypeOK /\ Aligned /\ dropped' = {} /\ JoinStats => Aligned'
<1> SUFFICES ASSUME TypeOK, Aligned, dropped' = {}, JoinStats PROVE Aligned'
    OBVIOUS
<1> DEFINE ts == Head(gotStats)
<1>1. /\ pc = "join" /\ ts \in Ts /\ gotStats # << >>
      /\ UNCHANGED <<gunStream, results, statsStream, statsResults>>
    BY StatisticsEffect DEF JoinStats, gun, stats
<1>2. /\ \/ /\ ts \in dataCache /\ dataCache' = dataCache \ {ts} /\ UNCHANGED statCache
            /\ Delivered(ts, TRUE)
         \/ /\ ts \notin dataCache /\ statCache' = statCache \union {ts} /\ UNCHANGED dataCache
            /\ UNCHANGED <<pc, delivered>>
      /\ gotStats' = Tail(gotStats) /\ UNCHANGED gotData
    BY RaisedIncomplete DEF JoinStats, history
<1>3. /\ ts = HandledStats + 1
      /\ Len(gotStats') = Len(gotStats) - 1
      /\ Follow(HandledStats + 1, gotStats', statsResults)
    BY <1>1, <1>2, FollowNext DEF Aligned, TypeOK
<1> HIDE DEF ts
<1>4. HandledStats' = HandledStats + 1 /\ Handled' = Handled
    BY <1>1, <1>2, <1>3, Lengths DEF Handled, HandledStats
<1>5. Handled \in Nat /\ HandledStats \in Nat
    BY DEF Aligned, Follow
<1>6. /\ Follow(Handled', gotData', results')
      /\ Follow(HandledStats', gotStats', statsResults')
    BY <1>1, <1>2, <1>3, <1>4 DEF Aligned
<1>7. /\ dataCache = HandledStats + 1 .. Handled
      /\ statCache = Handled + 1 .. HandledStats
      /\ \A i \in DOMAIN delivered : delivered[i].ts = i
      /\ Len(delivered) = IF Handled <= HandledStats THEN Handled ELSE HandledStats
    BY <1>1 DEF Aligned
<1>8. CASE ts \in dataCache
  <2>1. HandledStats < Handled
      BY <1>3, <1>5, <1>7, <1>8, Ahead
  <2>2. Len(delivered) = HandledStats /\ Delivered(ts, TRUE)
    <3>1. Len(delivered) = HandledStats
        BY <1>5, <1>7, <2>1
    <3>2. Delivered(ts, TRUE)
        BY <1>2, <1>8
    <3> QED
        BY <3>1, <3>2
  <2>3. /\ \A i \in DOMAIN delivered' : delivered'[i].ts = i
        /\ Len(delivered') = HandledStats + 1 /\ pc' = pc
      BY <1>1, <1>3, <1>7, <2>2, NumberedGave
  <2>4. dataCache' = HandledStats + 2 .. Handled /\ statCache' = Handled + 1 .. HandledStats + 1
      BY <1>2, <1>3, <1>5, <1>7, <1>8, <2>1, Ahead
  <2> QED
      BY <1>1, <1>4, <1>5, <1>6, <2>1, <2>3, <2>4 DEF Aligned
<1>9. CASE ts \notin dataCache
  <2>1. ~(HandledStats < Handled)
      BY <1>3, <1>5, <1>7, <1>9, Ahead
  <2>2. dataCache' = HandledStats + 2 .. Handled /\ statCache' = Handled + 1 .. HandledStats + 1
      BY <1>2, <1>3, <1>5, <1>7, <1>9, <2>1, Ahead
  <2>3. Len(delivered) = Handled /\ UNCHANGED <<pc, delivered>>
    <3>1. Len(delivered) = Handled
        BY <1>5, <1>7, <2>1
    <3>2. UNCHANGED <<pc, delivered>>
        BY <1>2, <1>9
    <3> QED
        BY <3>1, <3>2
  <2> QED
      BY <1>1, <1>4, <1>5, <1>6, <1>7, <2>1, <2>2, <2>3 DEF Aligned
<1> QED
    BY <1>8, <1>9

\* At the end the worker goes on with what is left, the first of it first.
LEMMA AlignedEnd == TypeOK /\ Aligned /\ dropped' = {} /\ (Joined \/ Flush) => Aligned'
<1> SUFFICES ASSUME TypeOK, Aligned, dropped' = {}, Joined \/ Flush PROVE Aligned'
    OBVIOUS
<1>1. Handled \in Nat /\ HandledStats \in Nat
    BY DEF Aligned, Follow
<1>2. CASE Joined
  <2>1. /\ pc = "join" /\ pc' \in {"flush", "test"} /\ (pc' = "flush" => flushing' = dataCache)
        /\ UNCHANGED <<gunStream, statsStream, results, statsResults, gotData, gotStats, dataCache, statCache, delivered>>
      BY <1>2 DEF Joined, gun, stats, history
  <2>2. UNCHANGED <<Handled, HandledStats>>
      BY <2>1 DEF Handled, HandledStats
  <2>3. Len(delivered) = IF Handled <= HandledStats THEN Handled ELSE HandledStats
      BY <2>1 DEF Aligned
  <2>4. dataCache = Len(delivered) + 1 .. Handled
      BY <1>1, <2>3 DEF Aligned
  <2> QED
      BY <2>1, <2>2, <2>3, <2>4 DEF Aligned
<1>3. CASE Flush
  <2>1. /\ pc = "flush" /\ flushing = Len(delivered) + 1 .. Handled
        /\ UNCHANGED <<gunStream, statsStream, results, statsResults, dataCache, statCache>>
      BY <1>3 DEF Flush, gun, stats, Aligned
  <2>2. PICK ts \in flushing :
           /\ \A other \in flushing : ts <= other
           /\ Delivered(ts, FALSE) /\ flushing' = flushing \ {ts} /\ UNCHANGED <<gotData, gotStats>>
      BY <1>3, RaisedIncomplete DEF Flush
  <2>3. ts = Len(delivered) + 1
      BY <1>1, <2>1, <2>2, Lengths
  <2>4. ts \in Ts
      BY DEF TypeOK
  <2>5. /\ \A i \in DOMAIN delivered' : delivered'[i].ts = i
        /\ Len(delivered') = Len(delivered) + 1 /\ pc' = pc
      BY <2>2, <2>3, <2>4, NumberedGave DEF Aligned
  <2>6. flushing' = Len(delivered') + 1 .. Handled
      BY <1>1, <2>1, <2>2, <2>3, <2>5, Lengths
  <2>7. UNCHANGED <<Handled, HandledStats>>
      BY <2>1, <2>2 DEF Handled, HandledStats
  <2> QED
      BY <2>1, <2>2, <2>5, <2>6, <2>7 DEF Aligned
<1> QED
    BY <1>2, <1>3

\* The worker has statistics in hand only while it joins.
LEMMA HandStep ==
    ASSUME TypeOK, pc # "join" => gotStats = << >>, [Next]_vars
    PROVE  pc' # "join" => gotStats' = << >>
<1>1. CASE JoinData \/ JoinStats \/ Flush
    BY <1>1 DEF JoinData, JoinStats, Flush, Delivered, Raised, history
<1>2. CASE GunPut \/ StatsPut \/ TakeData \/ TakeStats \/ Joined
    BY <1>2 DEF GunPut, StatsPut, TakeData, TakeStats, Joined, main
<1>3. CASE /\ StillBoth
           /\ \/ pc' = pc
              \/ pc \notin {"join", "flush", "closed", "raised"} /\ pc' # "flush"
              \/ pc = "flush" /\ pc' = "closed"
    BY <1>3 DEF StillBoth, StillStats
<1> QED
    BY <1>1, <1>2, <1>3, StillBothSteps

\* The streams and what was given stay aligned.
LEMMA LinedStep == TypeOK /\ Apart /\ Lined /\ [Next]_vars => Lined'
<1> SUFFICES ASSUME TypeOK, Apart, Lined, [Next]_vars, Complete' PROVE Aligned'
    BY HandStep DEF Lined
<1>1. Complete /\ Aligned /\ dropped' = {}
    BY CompleteBefore DEF Lined, Complete
<1>2. CASE GunPut \/ StatsPut
    BY <1>1, <1>2, AlignedPut
<1>3. CASE TakeData \/ TakeStats
    BY <1>1, <1>3, AlignedTake
<1>4. CASE JoinData
    BY <1>1, <1>4, AlignedJoinData
<1>5. CASE JoinStats
    BY <1>1, <1>5, AlignedJoinStats
<1>6. CASE Joined \/ Flush
    BY <1>1, <1>6, AlignedEnd
<1>7. CASE /\ StillBoth
           /\ \/ pc' = pc
              \/ pc \notin {"join", "flush", "closed", "raised"} /\ pc' # "flush"
              \/ pc = "flush" /\ pc' = "closed"
  <2>1. UNCHANGED <<Handled, HandledStats>>
      BY <1>7 DEF StillBoth, Still, StillStats, Handled, HandledStats
  <2> QED
      BY <1>1, <1>7, <2>1 DEF StillBoth, Still, StillStats, Aligned
<1> QED
    BY <1>2, <1>3, <1>4, <1>5, <1>6, <1>7, StillBothSteps

\* When both streams give every second and no listener raises, the listeners get
\* the seconds in ascending order (tank_aggregator.py, _collect_data and end_test).
THEOREM ComesInOrder == Spec => []AscendingIfGapless
<1>1. Init => Lined
  <2>1. SUFFICES ASSUME Init PROVE Lined
      OBVIOUS
  <2>2. /\ gunStream = << >> /\ results = << >> /\ gotData = << >>
        /\ statsStream = << >> /\ statsResults = << >> /\ gotStats = << >>
        /\ dataCache = {} /\ statCache = {} /\ delivered = << >> /\ pc = "new"
      BY <2>1 DEF Init, Gun!Init, Stats!Init
  <2>3. /\ Len(gunStream) = 0 /\ Len(results) = 0 /\ Len(gotData) = 0
        /\ Len(statsStream) = 0 /\ Len(statsResults) = 0 /\ Len(gotStats) = 0
        /\ Len(delivered) = 0 /\ DOMAIN delivered = {}
      BY <2>2
  <2>4. Handled = 0 /\ HandledStats = 0
      BY <2>3 DEF Handled, HandledStats
  <2>5. Follow(0, << >>, << >>)
      BY DEF Follow
  <2> QED
      BY <2>2, <2>3, <2>4, <2>5 DEF Lined, Aligned
<1>2. IInv /\ Lined /\ [Next]_vars => Lined'
    BY LinedStep DEF IInv
<1>3. IInv /\ Lined => AscendingIfGapless
    BY DEF IInv, TypeOK, Lined, Complete, Aligned, AscendingIfGapless
<1> QED
    BY Inductive, <1>1, <1>2, <1>3, PTL DEF Spec

\* The two streams are put together second by second and stay in order.
THEOREM PutsTogether == Spec => []SecondsTogether
<1>1. SecondsTogether <=> OwnStatistics /\ AscendingIfGapless
    BY DEF SecondsTogether
<1> QED
    BY <1>1, ComesWithItsOwn, ComesInOrder, PTL

-----------------------------------------------------------------------------
(***************************************************************************)
(* Monitoring: for any hosts, series, seconds, options and answers of the  *)
(* services, and in any interleaving of the agents, their targets, the panel *)
(* threads and the test, the listeners get what was measured.              *)
(*                                                                         *)
(* The panels come first, on PanelsInv: every second before the sensor's   *)
(* window was fetched and is in the queue, in what the panel decoded, or   *)
(* published (Windows), and the threads end one after the other            *)
(* (PanelsClose).                                                          *)
(*                                                                         *)
(* Telegraf follows: what a poll of all agents takes is a fold over the    *)
(* agents of a fold over their blocks, and what the criterion counts is a  *)
(* fold over chunks, so that lemmas about folds are first.  TelegrafInv says *)
(* that the criterion counted what was published, and that what was decoded *)
(* waits to be published only as long as the test polls (Gathered, Counts). *)
(* StepsInv is about targets whose lines are late by a second at most: the *)
(* seconds on their way to the tank follow one another (OnTheWay), the cache *)
(* of the agent holds what comes after those it gave out (CachedIs), and the *)
(* published ones run up to the last one decoded without a gap (Runs).     *)
(***************************************************************************)

PanelValues == Series \X Nat
PanelItems == [ts : Nat, series : SUBSET Series]
SensorType == [thread : {"idle", "loop", "asks", "dead"}, from : Nat, to : Nat, got : BOOLEAN, faults : Int]
PanelType == [thread : {"idle", "loop", "dead"}, queue : Seq(SUBSET PanelValues), data : Seq(SUBSET PanelItems)]

PanelsTyped ==
    /\ service \in Services /\ now \in Nat /\ stop \in BOOLEAN
    /\ sensor \in SensorType /\ panel \in PanelType /\ published \in Seq(SUBSET PanelItems)

\* Where a value is that the sensor has got.
Shown(s, t, chunks) == \E i \in DOMAIN chunks : \E item \in chunks[i] : item.ts = t /\ s \in item.series
Fetched(s, t) == \/ \E i \in DOMAIN panel.queue : <<s, t>> \in panel.queue[i]
                 \/ Shown(s, t, panel.data)
                 \/ Shown(s, t, published)

\* The windows before the sensor's, and its own if it gave data, were fetched;
\* the answer that is waited for has its window but for the last second.
Windows ==
    /\ sensor.thread = "asks" => now + 1 >= sensor.to /\ ~sensor.got
    /\ \A s \in Series :
          /\ \A t \in Nat : t < sensor.from => Fetched(s, t)
          /\ \A t \in Nat : sensor.got /\ t < sensor.to => Fetched(s, t)

\* The threads end when they are told to, the panel's after the sensor's last
\* request, and then the plugin takes what they left.
PanelsClose ==
    /\ stage \in {"panels", "panelsPoll", "join", "over"}
    /\ stage \in {"panels", "panelsPoll"} => ~stop
    /\ stage = "panels" => sensor.thread = "idle" /\ panel.thread = "idle"
    /\ stage = "over" => sensor.thread = "dead" /\ panel.thread = "dead" /\ panel.data = << >>
    /\ sensor.thread = "dead" => stop
    /\ panel.thread = "dead" => stop /\ (service.quick => panel.queue = << >> /\ sensor.thread # "asks")

Timeless == \A s \in Series : service.lag[s] = 0
PanelsInv == ~opt.telegraf => PanelsTyped /\ PanelsClose /\ (Timeless => Windows)

LEMMA PanelsBegin == MonitoringInit => PanelsInv
<1> SUFFICES ASSUME MonitoringInit, ~opt.telegraf PROVE PanelsTyped /\ PanelsClose /\ Windows
  BY DEF PanelsInv
<1>1. /\ service \in Services /\ now = 0 /\ stop = FALSE /\ published = << >> /\ stage = "panels"
      /\ sensor = [thread |-> "idle", from |-> 0, to |-> 1, got |-> FALSE, faults |-> service.faults]
      /\ panel = [thread |-> "idle", queue |-> << >>, data |-> << >>]
  BY DEF MonitoringInit, PanelsInit
<1>2. service.faults \in Int
  BY <1>1, MonitoringAssumption DEF MonitoringAssumption
<1>3. PanelsTyped
  <2>1. sensor \in SensorType
    BY <1>1, <1>2 DEF SensorType
  <2>2. panel \in PanelType /\ published \in Seq(SUBSET PanelItems)
    BY <1>1 DEF PanelType
  <2> QED BY <1>1, <2>1, <2>2 DEF PanelsTyped
<1>4. PanelsClose
  BY <1>1 DEF PanelsClose
<1>5. Windows
  BY <1>1 DEF Windows
<1> QED BY <1>3, <1>4, <1>5

\* With panels, nothing of Telegraf changes what they are.
LEMMA OnlyPanels ==
    ASSUME ~opt.telegraf, PanelsClose, [MonitoringNext]_monitoringVars
    PROVE  /\ opt' = opt /\ collected' = collected
           /\ \/ PanelsStages
              \/ Threads /\ stage' = stage /\ published' = published
              \/ (Tick \/ NotAnswered) /\ stage' = stage /\ published' = published
              \/ UNCHANGED <<stage, panels, published>>
<1>1. ~TelegrafStages /\ ~Polls
  BY DEF PanelsClose, TelegrafStages, Polls, Install, StartAgents, StartRaises, WaitEnds, TestEnds, Uninstall, GiveRest,
         WaitPolls, Poll
<1> QED BY <1>1 DEF MonitoringNext, Works, Agents, Targets, PanelThreads, World, monitoringVars, telegraf, panels,
              collector

LEMMA ShownAppend ==
    ASSUME NEW S, NEW c \in Seq(S), NEW d \in Seq(S), NEW s, NEW t
    PROVE  Shown(s, t, c \o d) <=> Shown(s, t, c) \/ Shown(s, t, d)
<1>1. /\ c \o d \in Seq(S) /\ Len(c \o d) = Len(c) + Len(d)
      /\ \A i \in 1..Len(c \o d) : (c \o d)[i] = IF i <= Len(c) THEN c[i] ELSE d[i - Len(c)]
  BY ConcatProperties
<1>2. DOMAIN c = 1..Len(c) /\ DOMAIN d = 1..Len(d) /\ DOMAIN (c \o d) = 1..Len(c \o d) /\ Len(c) \in Nat /\ Len(d) \in Nat
  BY <1>1, LenProperties
<1>3. ASSUME NEW i \in DOMAIN d PROVE i + Len(c) \in DOMAIN (c \o d) /\ (c \o d)[i + Len(c)] = d[i]
  BY <1>1, <1>2
<1>4. ASSUME NEW i \in DOMAIN c PROVE i \in DOMAIN (c \o d) /\ (c \o d)[i] = c[i]
  BY <1>1, <1>2
<1>5. ASSUME NEW i \in DOMAIN (c \o d)
      PROVE  (i \in DOMAIN c /\ (c \o d)[i] = c[i]) \/ (i - Len(c) \in DOMAIN d /\ (c \o d)[i] = d[i - Len(c)])
  BY <1>1, <1>2
<1> QED BY <1>3, <1>4, <1>5 DEF Shown

\* What was in the queue is in the buffer.
LEMMA MovedGives ==
    ASSUME PanelsTyped
    PROVE  /\ Moved \in [thread : {panel.thread}, queue : {<< >>}, data : Seq(SUBSET PanelItems)]
           /\ \A s, t : (\E i \in DOMAIN panel.queue : <<s, t>> \in panel.queue[i]) => Shown(s, t, Moved.data)
           /\ \A s, t : Shown(s, t, panel.data) => Shown(s, t, Moved.data)
<1> DEFINE P == Processed(panel.queue)
           D == IF P = {} THEN panel.data ELSE Append(panel.data, Items(P))
<1>1. panel \in PanelType /\ panel.queue \in Seq(SUBSET PanelValues) /\ panel.data \in Seq(SUBSET PanelItems)
  BY DEF PanelsTyped, PanelType
<1>2. P \subseteq PanelValues
  BY <1>1 DEF Processed
<1>3. Items(P) \subseteq PanelItems
  <2>1. ASSUME NEW v \in P PROVE v[1] \in Series /\ v[2] \in Nat
    BY <1>2 DEF PanelValues
  <2> HIDE DEF P
  <2> QED BY <2>1 DEF Items, PanelItems
<1>4. Moved = [panel EXCEPT !.queue = << >>, !.data = D]
  BY DEF Moved
<1> HIDE DEF P
<1>5. D \in Seq(SUBSET PanelItems) /\ DOMAIN panel.data \subseteq DOMAIN D /\ \A i \in DOMAIN panel.data : D[i] = panel.data[i]
  BY <1>1, <1>3, AppendProperties, LenProperties
<1>6. P # {} => \E i \in DOMAIN D : D[i] = Items(P)
  BY <1>1, <1>3, AppendProperties, LenProperties
<1>7. ASSUME NEW s, NEW t, <<s, t>> \in P PROVE \E item \in Items(P) : item.ts = t /\ s \in item.series
  <2> DEFINE item == [ts |-> t, series |-> {v[1] : v \in {v \in P : v[2] = t}}]
  <2> HIDE DEF P
  <2>1. t \in {v[2] : v \in P}
    BY <1>7
  <2>2. item \in Items(P)
    BY <2>1, Zenon DEF Items
  <2>3. s \in item.series
    BY <1>7
  <2> QED BY <2>2, <2>3
<1> HIDE DEF D
<1>8. Moved.data = D /\ Moved.queue = << >> /\ Moved.thread = panel.thread
      /\ Moved \in [thread : {panel.thread}, queue : {<< >>}, data : Seq(SUBSET PanelItems)]
  BY <1>1, <1>4, <1>5 DEF PanelType
<1>9. ASSUME NEW s, NEW t, NEW i \in DOMAIN panel.queue, <<s, t>> \in panel.queue[i] PROVE Shown(s, t, D)
  <2>1. <<s, t>> \in P
    BY <1>9 DEF Processed, P
  <2> QED BY <2>1, <1>6, <1>7 DEF Shown
<1>10. ASSUME NEW s, NEW t, Shown(s, t, panel.data) PROVE Shown(s, t, D)
  BY <1>5, <1>10 DEF Shown
<1> QED BY <1>8, <1>9, <1>10

\* What was fetched stays fetched: it moves from the queue to the buffer and
\* from there to the listeners.
LEMMA StaysFetched ==
    ASSUME PanelsTyped, NEW s, NEW t, Fetched(s, t),
           \/ published' = published /\ panel'.queue = panel.queue /\ panel'.data = panel.data
           \/ published' = published /\ panel'.queue = Moved.queue /\ panel'.data = Moved.data
           \/ published' = published \o panel.data /\ panel'.queue = panel.queue
    PROVE  Fetched(s, t)'
<1>1. panel.data \in Seq(SUBSET PanelItems) /\ published \in Seq(SUBSET PanelItems)
  BY DEF PanelsTyped, PanelType
<1>2. CASE published' = published /\ panel'.queue = panel.queue /\ panel'.data = panel.data
  BY <1>2 DEF Fetched, Shown
<1>3. CASE published' = published /\ panel'.queue = Moved.queue /\ panel'.data = Moved.data
  BY <1>3, MovedGives DEF Fetched, Shown
<1>4. CASE published' = published \o panel.data /\ panel'.queue = panel.queue
  <2>1. Shown(s, t, published) \/ Shown(s, t, panel.data) => Shown(s, t, published')
    BY <1>1, <1>4, ShownAppend
  <2> QED BY <1>4, <2>1 DEF Fetched, Shown
<1> QED BY <1>2, <1>3, <1>4

\* Windows, when the sensor stays where it is.
LEMMA WindowsStay ==
    ASSUME Windows, \A s, t : Fetched(s, t) => Fetched(s, t)', sensor'.from = sensor.from, sensor'.to = sensor.to,
           sensor'.got = sensor.got \/ ~sensor'.got, sensor'.thread = "asks" => sensor.thread = "asks",
           now' \in Nat, now \in Nat, now' >= now, sensor.to \in Nat
    PROVE  Windows'
<1>1. sensor'.thread = "asks" => now' + 1 >= sensor'.to /\ ~sensor'.got
  BY DEF Windows
<1>2. ASSUME NEW s \in Series
      PROVE  /\ \A t \in Nat : t < sensor'.from => Fetched(s, t)'
             /\ \A t \in Nat : sensor'.got /\ t < sensor'.to => Fetched(s, t)'
  BY DEF Windows
<1> QED BY <1>1, <1>2 DEF Windows

LEMMA PanelsStageHolds ==
    ASSUME PanelsTyped, PanelsClose, PanelsStages
    PROVE  PanelsTyped' /\ PanelsClose' /\ (Windows => Windows')
<1>0. /\ sensor \in SensorType /\ panel \in PanelType /\ service \in Services /\ now \in Nat /\ stop \in BOOLEAN
      /\ published \in Seq(SUBSET PanelItems) /\ panel.data \in Seq(SUBSET PanelItems) /\ sensor.to \in Nat
  BY DEF PanelsTyped, SensorType, PanelType
<1>1. \A s, t : Fetched(s, t) => Fetched(s, t)'
  <2> SUFFICES ASSUME NEW s, NEW t, Fetched(s, t) PROVE Fetched(s, t)'
    OBVIOUS
  <2>1. \/ published' = published /\ panel'.queue = panel.queue /\ panel'.data = panel.data
        \/ published' = published \o panel.data /\ panel'.queue = panel.queue
    BY <1>0 DEF PanelsStages, PanelsStart, PanelsPoll, PanelsStop, PanelsJoined, PanelsPublish, PublishNothing,
                CollectorStarts, PanelType
  <2> QED BY <2>1, StaysFetched
<1>2. /\ sensor'.from = sensor.from /\ sensor'.to = sensor.to /\ sensor'.got = sensor.got /\ now' = now
      /\ sensor'.thread = "asks" => sensor.thread = "asks"
  BY <1>0 DEF PanelsStages, PanelsStart, PanelsPoll, PanelsStop, PanelsJoined, PanelsPublish, PublishNothing,
              CollectorStarts, SensorType
<1>3. Windows => Windows'
  BY <1>0, <1>1, <1>2, WindowsStay
<1>4. CASE PanelsStart
  <2>1. /\ sensor' = [sensor EXCEPT !.thread = "loop"] /\ panel' = [panel EXCEPT !.thread = "loop"] /\ stage' = "panelsPoll"
        /\ UNCHANGED <<service, now, stop, published>>
    BY <1>4 DEF PanelsStart, CollectorStarts, PublishNothing, Now
  <2>2. PanelsTyped'
    <3>1. sensor' \in SensorType
      BY <1>0, <2>1 DEF SensorType
    <3>2. panel' = [thread |-> "loop", queue |-> panel.queue, data |-> panel.data]
      BY <1>0, <2>1 DEF PanelType
    <3>3. panel' \in PanelType
      BY <1>0, <3>2 DEF PanelType
    <3> QED BY <1>0, <2>1, <3>1, <3>3 DEF PanelsTyped
  <2>3. PanelsClose'
    BY <1>0, <1>4, <2>1 DEF PanelsClose, PanelsStart, SensorType, PanelType
  <2> QED BY <1>3, <2>2, <2>3
<1>5. CASE PanelsPoll \/ PanelsJoined
  <2>1. /\ published' = published \o panel.data /\ panel' = [panel EXCEPT !.data = << >>]
        /\ UNCHANGED <<service, now, sensor, stop>>
    BY <1>5 DEF PanelsPoll, PanelsJoined, PanelsPublish
  <2>2. PanelsTyped'
    <3>1. published' \in Seq(SUBSET PanelItems)
      BY <1>0, <2>1, ConcatProperties
    <3>2. panel' = [thread |-> panel.thread, queue |-> panel.queue, data |-> << >>]
      BY <1>0, <2>1 DEF PanelType
    <3>3. << >> \in Seq(SUBSET PanelItems)
      OBVIOUS
    <3>4. panel' \in PanelType
      BY <1>0, <3>2, <3>3 DEF PanelType
    <3> QED BY <1>0, <2>1, <3>1, <3>4 DEF PanelsTyped
  <2>3. PanelsClose'
    BY <1>0, <1>5, <2>1 DEF PanelsClose, PanelsPoll, PanelsJoined, Now, PanelType
  <2> QED BY <1>3, <2>2, <2>3
<1>6. CASE PanelsStop
  BY <1>0, <1>3, <1>6 DEF PanelsTyped, PanelsClose, PanelsStop, Now, PublishNothing
<1> QED BY <1>4, <1>5, <1>6 DEF PanelsStages

LEMMA AnsweredHolds ==
    ASSUME PanelsTyped, Windows, Timeless, Answered, published' = published
    PROVE  Windows'
<1> DEFINE values == Known(sensor.from, sensor.to)
<1>1. /\ sensor \in SensorType /\ now \in Nat /\ panel \in PanelType /\ sensor.from \in Nat /\ sensor.to \in Nat
      /\ panel.queue \in Seq(SUBSET PanelValues)
  BY DEF PanelsTyped, SensorType, PanelType
<1>2. /\ sensor' = [sensor EXCEPT !.thread = "loop", !.got = values # {}]
      /\ panel' = [panel EXCEPT !.queue = IF values = {} THEN @ ELSE Append(@, values)]
      /\ now' = now /\ sensor.thread = "asks"
  BY DEF Answered
<1>3. values \subseteq PanelValues
  BY DEF Known, Values, PanelValues
<1>4. ASSUME NEW s \in Series, NEW t \in Nat, sensor.from <= t, t < sensor.to PROVE <<s, t>> \in values
  <2>1. t \in 0..now /\ t \in sensor.from..sensor.to
    BY <1>1, <1>2, <1>4 DEF Windows
  <2>2. <<s, t>> \in Values(sensor.from, sensor.to)
    BY <2>1 DEF Values
  <2>3. service.lag[s] = 0 /\ t <= now - 0
    BY <1>1, <2>1 DEF Timeless
  <2>4. <<s, t>>[1] = s /\ <<s, t>>[2] = t
    OBVIOUS
  <2>5. <<s, t>> \in Known(sensor.from, sensor.to)
    BY <2>2, <2>3, <2>4, Zenon DEF Known
  <2> QED BY <2>5
<1> HIDE DEF values
<1>5. /\ sensor'.from = sensor.from /\ sensor'.to = sensor.to /\ (sensor'.got => values # {}) /\ sensor'.thread = "loop"
      /\ panel'.data = panel.data
  BY <1>1, <1>2 DEF SensorType, PanelType
<1>6. /\ \A i \in DOMAIN panel.queue : i \in DOMAIN panel'.queue /\ panel'.queue[i] = panel.queue[i]
      /\ values # {} => \E i \in DOMAIN panel'.queue : panel'.queue[i] = values
  <2>1. panel'.queue = IF values = {} THEN panel.queue ELSE Append(panel.queue, values)
    BY <1>1, <1>2 DEF PanelType
  <2> QED BY <1>1, <1>3, <2>1, AppendProperties, LenProperties
<1>7. \A s, t : Fetched(s, t) => Fetched(s, t)'
  BY <1>5, <1>6 DEF Fetched, Shown
<1>8. ASSUME NEW s \in Series, NEW t \in Nat, sensor'.got, t < sensor'.to PROVE Fetched(s, t)'
  <2>1. CASE t < sensor.from
    BY <2>1, <1>7 DEF Windows
  <2>2. CASE t >= sensor.from
    BY <1>4, <1>5, <1>6, <1>8, <2>2 DEF Fetched
  <2> QED BY <1>1, <2>1, <2>2
<1>9. ASSUME NEW s \in Series, NEW t \in Nat, t < sensor'.from PROVE Fetched(s, t)'
  BY <1>5, <1>7, <1>9 DEF Windows
<1> QED BY <1>5, <1>8, <1>9 DEF Windows

LEMMA PanelThreadHolds ==
    ASSUME PanelsTyped, PanelsClose, Threads \/ Tick \/ NotAnswered, stage' = stage, published' = published
    PROVE  PanelsTyped' /\ PanelsClose' /\ (Timeless /\ Windows => Windows')
<1>1. /\ sensor \in SensorType /\ now \in Nat /\ panel \in PanelType /\ sensor.from \in Nat /\ sensor.to \in Nat
      /\ panel.queue \in Seq(SUBSET PanelValues)
  BY DEF PanelsTyped, SensorType, PanelType
<1>2. CASE Fetch
  <2>1. /\ sensor' = [sensor EXCEPT !.thread = "asks", !.from = IF sensor.got THEN sensor.to ELSE @,
                                    !.to = now + 1, !.got = FALSE]
        /\ UNCHANGED <<service, now, panel, stop>> /\ sensor.thread = "loop" /\ ~stop
    BY <1>2 DEF Fetch
  <2>2. PanelsTyped'
    <3>1. sensor' = [thread |-> "asks", from |-> IF sensor.got THEN sensor.to ELSE sensor.from, to |-> now + 1,
                     got |-> FALSE, faults |-> sensor.faults]
      BY <1>1, <2>1 DEF SensorType
    <3>2. sensor.faults \in Int /\ (IF sensor.got THEN sensor.to ELSE sensor.from) \in Nat /\ now + 1 \in Nat
      BY <1>1 DEF SensorType
    <3>3. sensor' \in SensorType
      BY <3>1, <3>2 DEF SensorType
    <3> QED BY <1>1, <2>1, <3>3 DEF PanelsTyped
  <2>3. PanelsClose'
    <3>1. sensor'.thread = "asks"
      BY <1>1, <2>1 DEF SensorType
    <3> QED BY <2>1, <3>1 DEF PanelsClose
  <2>4. Windows => Windows'
    <3>1. sensor'.thread = "asks" /\ ~sensor'.got /\ sensor'.to = now + 1 /\ now' = now
          /\ sensor'.from = IF sensor.got THEN sensor.to ELSE sensor.from
      BY <1>1, <2>1 DEF SensorType
    <3>2. \A s, t : Fetched(s, t) => Fetched(s, t)'
      BY <2>1 DEF Fetched, Shown
    <3> QED BY <1>1, <3>1, <3>2 DEF Windows
  <2> QED BY <2>2, <2>3, <2>4
<1>3. CASE Answered
  <2>1. /\ sensor' = [sensor EXCEPT !.thread = "loop", !.got = Known(sensor.from, sensor.to) # {}]
        /\ panel' = [panel EXCEPT !.queue = IF Known(sensor.from, sensor.to) = {} THEN @
                                            ELSE Append(@, Known(sensor.from, sensor.to))]
        /\ UNCHANGED <<service, now, stop>> /\ sensor.thread = "asks"
    BY <1>3 DEF Answered
  <2>2. Known(sensor.from, sensor.to) \subseteq PanelValues
    BY DEF Known, Values, PanelValues
  <2>3. PanelsTyped'
    BY <1>1, <2>1, <2>2, AppendProperties DEF PanelsTyped, SensorType, PanelType
  <2>4. PanelsClose'
    <3>1. sensor'.thread = "loop" /\ panel'.thread = panel.thread /\ panel'.data = panel.data /\ sensor.thread # "dead"
          /\ sensor.thread # "idle"
      BY <1>1, <2>1 DEF SensorType, PanelType
    <3>2. service.quick => panel.thread # "dead"
      BY <2>1 DEF PanelsClose
    <3> QED BY <2>1, <3>1, <3>2 DEF PanelsClose
  <2> QED BY <1>3, <2>3, <2>4, AnsweredHolds
<1>4. CASE SensorEnds \/ NotAnswered
  <2>1. /\ \/ sensor' = [sensor EXCEPT !.thread = "dead"] /\ stop /\ sensor.thread = "loop"
           \/ sensor' = [sensor EXCEPT !.thread = "loop", !.faults = @ - 1] /\ sensor.thread = "asks"
        /\ UNCHANGED <<service, now, panel, stop>>
    BY <1>4 DEF SensorEnds, NotAnswered
  <2>2. PanelsTyped' /\ PanelsClose'
    <3>1. sensor' \in SensorType
      <4>1. sensor.faults \in Int /\ sensor.got \in BOOLEAN
        BY <1>1 DEF SensorType
      <4>2. CASE sensor' = [sensor EXCEPT !.thread = "dead"]
        BY <1>1, <4>1, <4>2 DEF SensorType
      <4>3. CASE sensor' = [sensor EXCEPT !.thread = "loop", !.faults = @ - 1]
        <5>1. sensor.faults - 1 \in Int
          BY <4>1
        <5>2. sensor' = [thread |-> "loop", from |-> sensor.from, to |-> sensor.to, got |-> sensor.got,
                         faults |-> sensor.faults - 1]
          BY <1>1, <4>3 DEF SensorType
        <5> QED BY <1>1, <4>1, <5>1, <5>2 DEF SensorType
      <4> QED BY <2>1, <4>2, <4>3
    <3>2. /\ sensor'.thread \in {"dead", "loop"} /\ (sensor'.thread = "dead" => stop)
          /\ sensor.thread # "dead" /\ sensor.thread # "idle"
      BY <1>1, <2>1 DEF SensorType
    <3>3. PanelsTyped'
      BY <2>1, <3>1 DEF PanelsTyped
    <3> QED BY <2>1, <3>2, <3>3 DEF PanelsClose
  <2>3. \A s, t : Fetched(s, t) => Fetched(s, t)'
    BY <2>1 DEF Fetched, Shown
  <2>4. /\ sensor'.from = sensor.from /\ sensor'.to = sensor.to /\ sensor'.got = sensor.got /\ now' = now
        /\ sensor'.thread # "asks"
    BY <1>1, <2>1 DEF SensorType
  <2> QED BY <1>1, <2>2, <2>3, <2>4, WindowsStay
<1>5. CASE PanelTurn \/ PanelEnds
  <2>1. /\ \/ panel' = Moved /\ ~stop
           \/ panel' = [Moved EXCEPT !.thread = "dead"] /\ stop /\ (service.quick => sensor.thread # "asks")
        /\ UNCHANGED <<service, now, sensor, stop>> /\ panel.thread = "loop"
    BY <1>5 DEF PanelTurn, PanelEnds
  <2>2. /\ panel'.queue = << >> /\ panel'.data = Moved.data /\ panel' \in PanelType /\ panel'.thread \in {"loop", "dead"}
        /\ Moved.queue = << >> /\ (panel'.thread = "dead" => stop /\ (service.quick => sensor.thread # "asks"))
    <3> DEFINE m == Moved
    <3>1. m \in [thread : {"loop"}, queue : {<< >>}, data : Seq(SUBSET PanelItems)]
      BY <2>1, MovedGives
    <3>2. \/ panel' = m
          \/ panel' = [m EXCEPT !.thread = "dead"] /\ stop /\ (service.quick => sensor.thread # "asks")
      BY <2>1
    <3> HIDE DEF m
    <3>3. m.queue = << >> /\ m.thread = "loop" /\ m.data \in Seq(SUBSET PanelItems) /\ << >> \in Seq(SUBSET PanelValues)
          /\ m = [thread |-> "loop", queue |-> << >>, data |-> m.data]
      BY <3>1
    <3>4. CASE panel' = m
      BY <3>3, <3>4 DEF PanelType, m
    <3>5. CASE panel' = [m EXCEPT !.thread = "dead"] /\ stop /\ (service.quick => sensor.thread # "asks")
      <4>1. panel' = [thread |-> "dead", queue |-> << >>, data |-> m.data]
        BY <3>3, <3>5
      <4> QED BY <3>3, <3>5, <4>1 DEF PanelType, m
    <3> QED BY <3>2, <3>4, <3>5
  <2>3. PanelsTyped'
    BY <2>1, <2>2 DEF PanelsTyped
  <2>4. PanelsClose'
    BY <2>1, <2>2 DEF PanelsClose
  <2>5. \A s, t : Fetched(s, t) => Fetched(s, t)'
    BY <2>2, StaysFetched
  <2> QED BY <1>1, <2>1, <2>3, <2>4, <2>5, WindowsStay
<1>6. CASE Tick
  <2>1. now' = now + 1 /\ UNCHANGED <<service, sensor, panel, stop>>
    BY <1>6 DEF Tick
  <2>2. PanelsTyped' /\ PanelsClose'
    BY <2>1 DEF PanelsTyped, PanelsClose
  <2>3. \A s, t : Fetched(s, t) => Fetched(s, t)'
    BY <2>1 DEF Fetched, Shown
  <2> QED BY <1>1, <2>1, <2>2, <2>3, WindowsStay
<1> QED BY <1>2, <1>3, <1>4, <1>5, <1>6 DEF Threads

LEMMA PanelsUntouched ==
    ASSUME PanelsTyped, PanelsClose, UNCHANGED <<stage, panels, published>>
    PROVE  PanelsTyped' /\ PanelsClose' /\ (Windows => Windows')
<1>1. UNCHANGED <<stage, service, now, sensor, panel, stop, published>>
  BY DEF panels
<1> QED BY <1>1 DEF PanelsTyped, PanelsClose, Windows, Fetched, Shown

\* Where the seconds that the sensor has fetched are, at every stage of the
\* panels' threads (common/monitoring).
THEOREM PanelsInductive == MonitoringSpec => []PanelsInv
<1>1. PanelsInv /\ [MonitoringNext]_monitoringVars => PanelsInv'
  <2> SUFFICES ASSUME PanelsInv, [MonitoringNext]_monitoringVars, ~opt'.telegraf
               PROVE  PanelsTyped' /\ PanelsClose' /\ (Timeless' => Windows')
    BY DEF PanelsInv
  <2>1. opt' = opt
    BY DEF MonitoringNext, Works, Agents, Targets, PanelThreads, World, monitoringVars
  <2>2. PanelsTyped /\ PanelsClose /\ (Timeless => Windows)
    BY <2>1 DEF PanelsInv
  <2>3. service' = service
    BY <2>1, <2>2, OnlyPanels DEF PanelsStages, PanelsStart, PanelsPoll, PanelsStop, PanelsJoined, PanelsPublish,
          CollectorStarts, Threads, Fetch, Answered, SensorEnds, PanelTurn, PanelEnds, Tick, NotAnswered, panels
  <2>4. Timeless' => Timeless
    BY <2>3 DEF Timeless
  <2> QED BY <2>1, <2>2, <2>4, OnlyPanels, PanelsStageHolds, PanelThreadHolds, PanelsUntouched
<1> QED BY <1>1, PanelsBegin, PTL DEF MonitoringSpec

\* Every second before the window of the sensor has been given to the listeners
\* when the test is over, if the service answers at once and with no delay.
THEOREM PanelsGave == MonitoringSpec => []PanelsGiveAll
<1>1. PanelsInv => PanelsGiveAll
  <2> SUFFICES ASSUME PanelsInv, ~opt.telegraf, stage = "over", service.quick, Timeless,
                      NEW s \in Series, NEW t \in 0..(sensor.from - 1)
               PROVE  Published(s, t)
    BY DEF PanelsGiveAll, Timeless
  <2>1. PanelsTyped /\ PanelsClose /\ Windows
    BY DEF PanelsInv
  <2>2. t \in Nat /\ t < sensor.from
    BY <2>1 DEF PanelsTyped, SensorType
  <2>3. Fetched(s, t) /\ panel.queue = << >> /\ panel.data = << >>
    BY <2>1, <2>2 DEF Windows, PanelsClose
  <2> QED BY <2>3 DEF Fetched, Shown, Published
<1> QED BY <1>1, PanelsInductive, PTL

-----------------------------------------------------------------------------
(***************************************************************************)
(* Folds: a fold over a sequence goes through its prefixes.                *)
(***************************************************************************)

LEMMA NatSet ==
    ASSUME NEW T, 0 \in T, \A n \in Nat : n \in T => n + 1 \in T
    PROVE  Nat \subseteq T
<1> DEFINE less == {p \in Nat \X Nat : p[1] < p[2]}
           S == Nat \ T
<1>1. IsWellFoundedOn(less, Nat)
    BY NatLessThanWellFounded, Zenon DEF OpToRel
<1> SUFFICES ASSUME S # {} PROVE FALSE
    OBVIOUS
<1>2. PICK x \in S : \A y \in S : ~(<<y, x>> \in less)
  <2> HIDE DEF less
  <2> QED BY <1>1, WFMin
<1>3. x # 0 /\ x - 1 \in Nat /\ x - 1 < x
    OBVIOUS
<1>4. x - 1 \notin S
    BY <1>2, <1>3
<1> QED BY <1>3, <1>4

LEMMA LargestOf ==
    ASSUME NEW n \in Nat, NEW s \in SUBSET (1..n), s # {}
    PROVE  Max(s) \in s /\ \A x \in s : Max(s) >= x
<1> DEFINE T == {m \in Nat : \A u \in SUBSET (1..m) : u # {} => \E x \in u : \A y \in u : x >= y}
<1>1. 0 \in T
  <2>1. \A u \in SUBSET (1..0) : u = {}
    OBVIOUS
  <2> QED BY <2>1
<1>2. ASSUME NEW m \in Nat, m \in T PROVE m + 1 \in T
  <2> SUFFICES ASSUME NEW u \in SUBSET (1..(m + 1)), u # {} PROVE \E x \in u : \A y \in u : x >= y
    OBVIOUS
  <2>1. CASE m + 1 \in u
    BY <2>1
  <2>2. CASE m + 1 \notin u
    <3>1. u \in SUBSET (1..m)
      BY <2>2
    <3> QED BY <1>2, <3>1
  <2> QED BY <2>1, <2>2
<1> HIDE DEF T
<1>3. n \in T
  BY <1>1, <1>2, NatSet
<1>4. \E x \in s : \A y \in s : x >= y
  BY <1>3 DEF T
<1> QED BY <1>4 DEF Max

\* g folds the sets of places with a step on a place and a value.
IsFold(g, n, V, base, step) ==
    /\ g \in [SUBSET (1..n) -> V]
    /\ \A s \in SUBSET (1..n) : g[s] = IF s = {} THEN base ELSE step[<<Max(s), g[s \ {Max(s)}]>>]

LEMMA FoldGrows ==
    ASSUME NEW V, NEW n \in Nat, NEW base \in V, NEW step \in [(1..n) \X V -> V],
           NEW m \in Nat, m + 1 <= n, NEW g, IsFold(g, m, V, base, step)
    PROVE  \E h : IsFold(h, m + 1, V, base, step)
<1> DEFINE k == m + 1
           h == [s \in SUBSET (1..k) |-> IF k \in s THEN step[<<k, g[s \ {k}]>>] ELSE g[s]]
<1>1. /\ g \in [SUBSET (1..m) -> V] /\ k \in 1..n
      /\ \A s \in SUBSET (1..m) : g[s] = IF s = {} THEN base ELSE step[<<Max(s), g[s \ {Max(s)}]>>]
  BY DEF IsFold
<1>2. ASSUME NEW s \in SUBSET (1..k)
      PROVE  s \ {k} \in SUBSET (1..m) /\ s \ {k} \in SUBSET (1..k) /\ k \notin s \ {k} /\ (k \notin s => s \in SUBSET (1..m))
  OBVIOUS
<1>3. h \in [SUBSET (1..k) -> V]
  BY <1>1, <1>2
<1>4. ASSUME NEW s \in SUBSET (1..k) PROVE h[s] = IF s = {} THEN base ELSE step[<<Max(s), h[s \ {Max(s)}]>>]
  <2>1. CASE k \in s
    <3>1. Max(s) \in s /\ Max(s) >= k
      <4>1. k \in Nat
        OBVIOUS
      <4> HIDE DEF k
      <4> QED BY <2>1, <4>1, LargestOf
    <3>2. Max(s) = k
      <4>1. \A x \in s : x \in 1..k
        OBVIOUS
      <4>2. Max(s) \in 1..k
        BY <3>1, <4>1
      <4> QED BY <3>1, <4>2
    <3>3. h[s \ {k}] = g[s \ {k}]
      BY <1>2
    <3>4. h[s] = step[<<k, g[s \ {k}]>>]
      BY <2>1
    <3> HIDE DEF h
    <3> QED BY <2>1, <3>2, <3>3, <3>4
  <2>2. CASE k \notin s /\ s # {}
    <3>1. s \in SUBSET (1..m) /\ Max(s) \in s
      BY <1>2, <2>2, LargestOf
    <3>2. s \ {Max(s)} \in SUBSET (1..k) /\ k \notin s \ {Max(s)}
      BY <2>2
    <3>3. h[s] = g[s] /\ h[s \ {Max(s)}] = g[s \ {Max(s)}]
      BY <2>2, <3>2
    <3> HIDE DEF h
    <3> QED BY <1>1, <2>2, <3>1, <3>3
  <2>3. CASE s = {}
    BY <1>1, <2>3
  <2> QED BY <2>1, <2>2, <2>3
<1> HIDE DEF h
<1> QED BY <1>3, <1>4 DEF IsFold

LEMMA FoldExists ==
    ASSUME NEW V, NEW n \in Nat, NEW base \in V, NEW step \in [(1..n) \X V -> V]
    PROVE  \E g : IsFold(g, n, V, base, step)
<1> DEFINE T == {m \in Nat : m <= n => \E g : IsFold(g, m, V, base, step)}
<1>1. 0 \in T
  <2> DEFINE g == [s \in SUBSET (1..0) |-> base]
  <2>1. \A s \in SUBSET (1..0) : s = {}
    OBVIOUS
  <2>2. IsFold(g, 0, V, base, step)
    BY <2>1 DEF IsFold
  <2> HIDE DEF g
  <2> QED BY <2>2
<1>2. ASSUME NEW m \in Nat, m \in T PROVE m + 1 \in T
  <2>1. CASE m + 1 <= n
    <3>1. PICK g : IsFold(g, m, V, base, step)
      BY <1>2, <2>1
    <3>2. \E h : IsFold(h, m + 1, V, base, step)
      BY <2>1, <3>1, FoldGrows
    <3> QED BY <3>2
  <2>2. CASE ~(m + 1 <= n)
    BY <2>2
  <2> QED BY <2>1, <2>2
<1> HIDE DEF T
<1>3. n \in T
  BY <1>1, <1>2, NatSet
<1> QED BY <1>3 DEF T

\* What is a step from every set of the first places to the next is a fold of
\* the prefixes.
StepsBy(g, n, V, base, step) ==
    /\ g[1..0] = base
    /\ \A i \in 0..(n - 1) : g[1..i] \in V => g[1..(i + 1)] = step[<<i + 1, g[1..i]>>]

GoesBy(f, g, n, V, base, step) ==
    /\ f \in [0..n -> V] /\ f[0] = base /\ f[n] = g[1..n]
    /\ \A i \in 0..(n - 1) : f[i + 1] = step[<<i + 1, f[i]>>]

LEMMA FoldPrefixes ==
    ASSUME NEW V, NEW n \in Nat, NEW base \in V, NEW step \in [(1..n) \X V -> V], NEW g, StepsBy(g, n, V, base, step)
    PROVE  \E f : GoesBy(f, g, n, V, base, step)
<1> USE DEF StepsBy
<1> DEFINE T == {i \in Nat : i <= n => g[1..i] \in V}
           f == [i \in 0..n |-> g[1..i]]
<1>1. 0 \in T
  OBVIOUS
<1>2. ASSUME NEW i \in Nat, i \in T PROVE i + 1 \in T
  <2>1. CASE i + 1 <= n
    <3>1. i \in 0..(n - 1) /\ i + 1 \in 1..n /\ g[1..i] \in V
      BY <1>2, <2>1
    <3>2. step[<<i + 1, g[1..i]>>] \in V
      BY <3>1
    <3> QED BY <3>1, <3>2
  <2> QED BY <2>1
<1> HIDE DEF T
<1>3. Nat \subseteq T
  BY <1>1, <1>2, NatSet
<1>4. \A i \in 0..n : g[1..i] \in V
  BY <1>3 DEF T
<1>5. f \in [0..n -> V] /\ f[0] = base /\ f[n] = g[1..n]
  BY <1>4
<1>6. \A i \in 0..(n - 1) : f[i + 1] = step[<<i + 1, f[i]>>]
  BY <1>4
<1> HIDE DEF f
<1> QED BY <1>5, <1>6 DEF GoesBy

LEMMA LargestOfFirst ==
    ASSUME NEW i \in Nat
    PROVE  Max(1..(i + 1)) = i + 1 /\ (1..(i + 1)) \ {i + 1} = 1..i
<1>1. i + 1 \in Nat /\ 1..(i + 1) # {} /\ i + 1 \in 1..(i + 1)
  OBVIOUS
<1>2. Max(1..(i + 1)) \in 1..(i + 1) /\ Max(1..(i + 1)) >= i + 1
  <2> DEFINE s == 1..(i + 1)
  <2>1. s \in SUBSET (1..(i + 1)) /\ s # {} /\ i + 1 \in s
    OBVIOUS
  <2> HIDE DEF s
  <2>2. Max(s) \in s /\ Max(s) >= i + 1
    BY <1>1, <2>1, LargestOf
  <2> QED BY <2>2 DEF s
<1> QED BY <1>2

KeptBy(f, T, seq, S) ==
    /\ f \in [0..Len(seq) -> Seq(T)] /\ f[0] = << >> /\ f[Len(seq)] = Only(seq, S)
    /\ \A i \in 0..(Len(seq) - 1) : f[i + 1] = IF seq[i + 1] \in S THEN Append(f[i], seq[i + 1]) ELSE f[i]

LEMMA FirstPlaces ==
    ASSUME NEW n \in Nat, NEW i \in 0..(n - 1)
    PROVE  1..(i + 1) \in SUBSET (1..n) /\ 1..(i + 1) # {} /\ i + 1 \in 1..n /\ i \in Nat
<1>1. i + 1 \in 1..n /\ i \in Nat
  OBVIOUS
<1>2. \A x \in 1..(i + 1) : x \in 1..n
  OBVIOUS
<1>3. i + 1 \in 1..(i + 1)
  BY <1>1
<1> QED BY ONLY <1>1, <1>2, <1>3

LEMMA OnlyFolds ==
    ASSUME NEW T, NEW seq \in Seq(T), NEW S
    PROVE  \E f : KeptBy(f, T, seq, S)
<1> DEFINE n == Len(seq)
           V == Seq(T)
           step == [p \in (1..n) \X V |-> IF seq[p[1]] \in S THEN Append(p[2], seq[p[1]]) ELSE p[2]]
           G(g) == [s \in SUBSET (DOMAIN seq) |-> IF s = {} THEN << >> ELSE
                      IF seq[Max(s)] \in S THEN Append(g[s \ {Max(s)}], seq[Max(s)]) ELSE g[s \ {Max(s)}]]
           iter == CHOOSE g : g = G(g)
<1>1. n \in Nat /\ DOMAIN seq = 1..n /\ \A i \in 1..n : seq[i] \in T
  BY LenProperties
<1>2. step \in [(1..n) \X V -> V] /\ << >> \in V
  BY <1>1, AppendProperties
<1>3. Only(seq, S) = iter[DOMAIN seq]
  BY Zenon DEF Only, FoldLeft, MapThenFoldSet
<1>4. \A i \in 1..n, v \in V : step[<<i, v>>] = IF seq[i] \in S THEN Append(v, seq[i]) ELSE v
  OBVIOUS
<1> HIDE DEF step, V, n
<1>5. \E h : IsFold(h, n, V, << >>, step)
  BY <1>1, <1>2, FoldExists
<1>6. ASSUME NEW h, IsFold(h, n, V, << >>, step) PROVE h = G(h)
  <2>1. h \in [SUBSET (1..n) -> V]
    BY <1>6 DEF IsFold
  <2>2. ASSUME NEW s \in SUBSET (1..n), s # {}
        PROVE  h[s] = IF seq[Max(s)] \in S THEN Append(h[s \ {Max(s)}], seq[Max(s)]) ELSE h[s \ {Max(s)}]
    <3>1. Max(s) \in 1..n /\ s \ {Max(s)} \in SUBSET (1..n)
      BY <1>1, <2>2, LargestOf
    <3>2. h[s] = step[<<Max(s), h[s \ {Max(s)}]>>]
      BY <1>6, <2>2 DEF IsFold
    <3> QED BY <1>4, <2>1, <3>1, <3>2
  <2>3. h[{}] = << >>
    BY <1>6 DEF IsFold
  <2> QED BY <1>1, <2>1, <2>2, <2>3
<1>7. iter = G(iter)
  <2> HIDE DEF G
  <2> QED BY <1>5, <1>6
<1>8. iter[1..0] = << >>
  <2>1. 1..0 = {} /\ {} \in SUBSET (DOMAIN seq)
    OBVIOUS
  <2> HIDE DEF iter
  <2> QED BY <1>7, <2>1
<1>9. ASSUME NEW i \in 0..(n - 1), iter[1..i] \in V PROVE iter[1..(i + 1)] = step[<<i + 1, iter[1..i]>>]
  <2>1. 1..(i + 1) \in SUBSET (DOMAIN seq) /\ 1..(i + 1) # {} /\ i + 1 \in 1..n /\ i \in Nat
    BY <1>1
  <2> HIDE DEF iter
  <2>2. iter[1..(i + 1)] = IF seq[i + 1] \in S THEN Append(iter[1..i], seq[i + 1]) ELSE iter[1..i]
    <3> DEFINE s == 1..(i + 1)
    <3>1. Max(s) = i + 1 /\ s \ {Max(s)} = 1..i
      BY <2>1, LargestOfFirst
    <3>2. iter[s] = IF seq[Max(s)] \in S THEN Append(iter[s \ {Max(s)}], seq[Max(s)]) ELSE iter[s \ {Max(s)}]
      <4>1. s \in SUBSET (DOMAIN seq) /\ s # {}
        BY <2>1
      <4> HIDE DEF s
      <4> QED BY <1>7, <4>1
    <3> QED BY <3>1, <3>2
  <2> QED BY <1>4, <1>9, <2>1, <2>2
<1> HIDE DEF iter
<1>10. PICK f : GoesBy(f, iter, n, V, << >>, step)
  <2>1. StepsBy(iter, n, V, << >>, step)
    BY <1>8, <1>9 DEF StepsBy
  <2> QED BY <1>1, <1>2, <2>1, FoldPrefixes
<1>11. \A i \in 0..(n - 1) : f[i + 1] = IF seq[i + 1] \in S THEN Append(f[i], seq[i + 1]) ELSE f[i]
  <2> SUFFICES ASSUME NEW i \in 0..(n - 1) PROVE f[i + 1] = IF seq[i + 1] \in S THEN Append(f[i], seq[i + 1]) ELSE f[i]
    OBVIOUS
  <2>1. i + 1 \in 1..n /\ f[i] \in V
    BY <1>1, <1>10 DEF GoesBy
  <2> QED BY <1>4, <1>10, <2>1 DEF GoesBy
<1>12. KeptBy(f, T, seq, S)
  BY <1>1, <1>3, <1>10, <1>11 DEF V, n, GoesBy, KeptBy
<1> QED BY <1>12

\* e tells where in the first k places of the sequence what was kept has been.
Keeps(e, kept, seq, S, k) ==
    /\ e \in [1..Len(kept) -> 1..k]
    /\ \A i, j \in 1..Len(kept) : i < j => e[i] < e[j]
    /\ \A i \in 1..Len(kept) : kept[i] = seq[e[i]] /\ kept[i] \in S
    /\ \A j \in 1..k : seq[j] \in S => \E i \in 1..Len(kept) : e[i] = j

LEMMA KeepsMore ==
    ASSUME NEW T, NEW kept \in Seq(T), NEW k \in Nat, NEW seq, NEW S, NEW e, Keeps(e, kept, seq, S, k),
           seq[k + 1] \in T
    PROVE  \E d : Keeps(d, IF seq[k + 1] \in S THEN Append(kept, seq[k + 1]) ELSE kept, seq, S, k + 1)
<1>1. Len(kept) \in Nat
  BY LenProperties
<1>2. CASE seq[k + 1] \notin S
  <2>1. 1..k \subseteq 1..(k + 1) /\ \A j \in 1..(k + 1) : j \in 1..k \/ j = k + 1
    OBVIOUS
  <2>2. e \in [1..Len(kept) -> 1..(k + 1)]
    BY <2>1 DEF Keeps
  <2>3. \A j \in 1..(k + 1) : seq[j] \in S => \E i \in 1..Len(kept) : e[i] = j
    BY <1>2, <2>1 DEF Keeps
  <2>4. Keeps(e, kept, seq, S, k + 1)
    BY <2>2, <2>3 DEF Keeps
  <2> QED BY <1>2, <2>4
<1>3. CASE seq[k + 1] \in S
  <2> DEFINE n == Len(kept)
             more == Append(kept, seq[k + 1])
             d == [i \in 1..(n + 1) |-> IF i = n + 1 THEN k + 1 ELSE e[i]]
  <2>1. Len(more) = n + 1 /\ more[n + 1] = seq[k + 1] /\ \A i \in 1..n : more[i] = kept[i]
    BY AppendProperties, LenProperties
  <2>2. e \in [1..n -> 1..k] /\ n \in Nat
    BY <1>1 DEF Keeps
  <2>3. d \in [1..(n + 1) -> 1..(k + 1)]
    BY <2>2
  <2>4. \A i, j \in 1..(n + 1) : i < j => d[i] < d[j]
    <3> SUFFICES ASSUME NEW i \in 1..(n + 1), NEW j \in 1..(n + 1), i < j PROVE d[i] < d[j]
      OBVIOUS
    <3>1. i \in 1..n /\ d[i] = e[i] /\ e[i] \in 1..k
      BY <2>2
    <3>2. CASE j = n + 1
      BY <3>1, <3>2
    <3>3. CASE j # n + 1
      <4>1. j \in 1..n /\ d[j] = e[j]
        BY <2>2, <3>3
      <4> QED BY <3>1, <4>1 DEF Keeps
    <3> QED BY <3>2, <3>3
  <2>5. \A i \in 1..(n + 1) : more[i] = seq[d[i]] /\ more[i] \in S
    <3> SUFFICES ASSUME NEW i \in 1..(n + 1) PROVE more[i] = seq[d[i]] /\ more[i] \in S
      OBVIOUS
    <3>1. CASE i = n + 1
      BY <1>3, <2>1, <3>1
    <3>2. CASE i # n + 1
      <4>1. i \in 1..n /\ d[i] = e[i] /\ more[i] = kept[i]
        BY <2>1, <2>2, <3>2
      <4> QED BY <4>1 DEF Keeps
    <3> QED BY <3>1, <3>2
  <2>6. \A j \in 1..(k + 1) : seq[j] \in S => \E i \in 1..(n + 1) : d[i] = j
    <3> SUFFICES ASSUME NEW j \in 1..(k + 1), seq[j] \in S PROVE \E i \in 1..(n + 1) : d[i] = j
      OBVIOUS
    <3>1. CASE j = k + 1
      BY <2>2, <3>1
    <3>2. CASE j # k + 1
      <4>1. PICK i \in 1..n : e[i] = j
        BY <3>2 DEF Keeps
      <4> QED BY <2>2, <4>1
    <3> QED BY <3>1, <3>2
  <2> HIDE DEF d, more, n
  <2>7. Keeps(d, more, seq, S, k + 1)
    BY <2>1, <2>3, <2>4, <2>5, <2>6 DEF Keeps
  <2> QED BY <1>3, <2>7 DEF more
<1> QED BY <1>2, <1>3

LEMMA OnlyKeeps ==
    ASSUME NEW T, NEW seq \in Seq(T), NEW S
    PROVE  Only(seq, S) \in Seq(T) /\ \E e : Keeps(e, Only(seq, S), seq, S, Len(seq))
<1>1. Len(seq) \in Nat /\ \A i \in 1..Len(seq) : seq[i] \in T
  BY LenProperties
<1>0. PICK f : KeptBy(f, T, seq, S)
  BY OnlyFolds
<1>2. /\ f \in [0..Len(seq) -> Seq(T)] /\ f[0] = << >> /\ f[Len(seq)] = Only(seq, S)
      /\ \A i \in 0..(Len(seq) - 1) : f[i + 1] = IF seq[i + 1] \in S THEN Append(f[i], seq[i + 1]) ELSE f[i]
  BY <1>0 DEF KeptBy
<1> DEFINE P == {k \in Nat : k <= Len(seq) => \E e : Keeps(e, f[k], seq, S, k)}
<1>3. 0 \in P
  <2>1. Keeps(<< >>, f[0], seq, S, 0)
    BY <1>2 DEF Keeps
  <2> QED BY <2>1
<1>4. ASSUME NEW k \in Nat, k \in P PROVE k + 1 \in P
  <2>1. CASE k + 1 <= Len(seq)
    <3>0. k \in 0..(Len(seq) - 1) /\ k + 1 \in 1..Len(seq) /\ k \in 0..Len(seq)
      BY <1>1, <2>1
    <3>1. k \in 0..(Len(seq) - 1) /\ k + 1 \in 1..Len(seq) /\ f[k] \in Seq(T) /\ seq[k + 1] \in T
      BY <1>1, <1>2, <3>0
    <3>2. PICK e : Keeps(e, f[k], seq, S, k)
      BY <1>1, <1>4, <2>1
    <3>3. \E d : Keeps(d, IF seq[k + 1] \in S THEN Append(f[k], seq[k + 1]) ELSE f[k], seq, S, k + 1)
      BY <3>1, <3>2, KeepsMore
    <3>4. \E d : Keeps(d, f[k + 1], seq, S, k + 1)
      BY <1>2, <3>1, <3>3
    <3> QED BY <3>4
  <2>2. CASE ~(k + 1 <= Len(seq))
    BY <2>2
  <2> QED BY <2>1, <2>2
<1> HIDE DEF P
<1>5. Len(seq) \in P
  BY <1>1, <1>3, <1>4, NatSet
<1>6. \E e : Keeps(e, f[Len(seq)], seq, S, Len(seq))
  BY <1>1, <1>5 DEF P
<1> QED BY <1>1, <1>2, <1>6

Ascends(s, S, time) ==
    /\ s \in [1..Cardinality(S) -> S]
    /\ \A i, j \in 1..Cardinality(S) : i < j => time[s[i]] < time[s[j]]
    /\ \A x \in S : \E i \in 1..Cardinality(S) : s[i] = x

\* What can be numbered by its place in time is in a sequence that ascends.
LEMMA Ranked ==
    ASSUME NEW S, IsFiniteSet(S), NEW time \in [S -> Int],
           \A x, y \in S : time[x] = time[y] => x = y
    PROVE  \E s : Ascends(s, S, time)
<1> DEFINE n == Cardinality(S)
           Upto(x) == {y \in S : time[y] <= time[x]}
           rank == [x \in S |-> Cardinality(Upto(x))]
<1>1. n \in Nat
    BY FS_CardinalityType
<1>2. \A x \in S : Upto(x) \in SUBSET S /\ x \in Upto(x)
    OBVIOUS
<1>3. \A x \in S : IsFiniteSet(Upto(x)) /\ rank[x] \in 1..n
  <2> TAKE x \in S
  <2>1. IsFiniteSet(Upto(x)) /\ Cardinality(Upto(x)) <= n
    <3> HIDE DEF Upto
    <3> QED
        BY <1>2, FS_Subset
  <2>2. Cardinality(Upto(x)) \in Nat /\ Cardinality(Upto(x)) # 0
    <3> HIDE DEF Upto
    <3> QED
        BY <1>2, <2>1, FS_CardinalityType, FS_EmptySet
  <2> QED
      BY <1>1, <2>1, <2>2
<1>4. ASSUME NEW x \in S, NEW y \in S, time[x] < time[y] PROVE rank[x] < rank[y]
  <2>1. Upto(x) \in SUBSET Upto(y) /\ Upto(x) # Upto(y)
      BY <1>4
  <2>2. Cardinality(Upto(x)) <= Cardinality(Upto(y)) /\ Cardinality(Upto(x)) # Cardinality(Upto(y))
    <3> HIDE DEF Upto
    <3> QED
        BY <1>3, <2>1, FS_Subset
  <2> QED
      BY <1>3, <2>2
<1>5. ASSUME NEW x \in S, NEW y \in S, rank[x] = rank[y] PROVE x = y
  <2>1. ~(rank[x] < rank[y]) /\ ~(rank[y] < rank[x])
      BY <1>3, <1>5
  <2>2. ~(time[x] < time[y]) /\ ~(time[y] < time[x])
    <3> HIDE DEF rank
    <3> QED
        BY <1>4, <2>1
  <2> QED
      BY <2>2
<1>6. IsFiniteSet(1..n) /\ Cardinality(1..n) = n
    BY <1>1, FS_Interval
<1>7. rank \in [S -> 1..n]
    BY <1>3
<1>8. rank \in Injection(S, 1..n)
  <2> HIDE DEF rank
  <2> QED
      BY <1>5, <1>7 DEF Injection, IsInjective
<1>9. rank \in Surjection(S, 1..n)
  <2> HIDE DEF rank
  <2> QED
      BY <1>6, <1>8, FS_Injection
<1>10. \A i \in 1..n : \E x \in S : rank[x] = i
  <2> HIDE DEF rank
  <2> QED
      BY <1>9 DEF Surjection
<1> DEFINE s == [i \in 1..n |-> CHOOSE x \in S : rank[x] = i]
<1>11. \A i \in 1..n : s[i] \in S /\ rank[s[i]] = i
  <2> HIDE DEF rank
  <2> QED
      BY <1>10
<1>12. \A i, j \in 1..n : i < j => time[s[i]] < time[s[j]]
  <2> TAKE i, j \in 1..n
  <2> HAVE i < j
  <2> HIDE DEF rank, s
  <2>1. ~(time[s[j]] < time[s[i]]) /\ s[i] # s[j]
      BY <1>4, <1>11
  <2> QED
      BY <1>11, <2>1
<1>13. \A x \in S : s[rank[x]] = x
  <2> HIDE DEF rank, s
  <2> QED
      BY <1>5, <1>7, <1>11
<1>14. s \in [1..n -> S]
    BY <1>11
<1> QED
  <2> HIDE DEF rank, s
  <2> QED
      BY <1>7, <1>12, <1>13, <1>14 DEF Ascends

LEMMA AscendingIs ==
    ASSUME NEW n \in Nat, NEW S \in SUBSET (1..n)
    PROVE  /\ Cardinality(S) \in Nat
           /\ Ascending(S) \in [1..Cardinality(S) -> S] /\ Ascending(S) \in Seq(S)
           /\ \A i, j \in 1..Cardinality(S) : i < j => Ascending(S)[i] < Ascending(S)[j]
           /\ \A x \in S : \E i \in 1..Cardinality(S) : Ascending(S)[i] = x
<1> DEFINE time == [x \in S |-> x]
<1>1. IsFiniteSet(S) /\ Cardinality(S) \in Nat
  <2>1. IsFiniteSet(1..n)
    BY FS_Interval
  <2> QED BY <2>1, FS_Subset, FS_CardinalityType
<1>2. time \in [S -> Int] /\ \A x, y \in S : time[x] = time[y] => x = y
  OBVIOUS
<1>3. PICK t : Ascends(t, S, time)
  <2> HIDE DEF time
  <2> QED BY <1>1, <1>2, Ranked
<1> DEFINE P(s) == s \in [1..Cardinality(S) -> S] /\ \A i, j \in DOMAIN s : i < j => s[i] < s[j]
           s == Ascending(S)
<1>4. P(t)
  BY <1>3 DEF Ascends
<1>5. P(s)
  BY <1>4 DEF Ascending
<1>6. s \in [1..Cardinality(S) -> S] /\ \A i, j \in 1..Cardinality(S) : i < j => s[i] < s[j]
  BY <1>5
<1> HIDE DEF s, P
<1>7. s \in Injection(1..Cardinality(S), S)
  <2>1. ASSUME NEW i \in 1..Cardinality(S), NEW j \in 1..Cardinality(S), s[i] = s[j] PROVE i = j
    <3>1. s[i] \in Int /\ s[j] \in Int /\ i \in Int /\ j \in Int
      <4>1. s[i] \in S /\ s[j] \in S
        BY <1>6
      <4>2. \A x \in S : x \in Int
        OBVIOUS
      <4>3. i \in Int /\ j \in Int
        BY <1>1
      <4> QED BY <4>1, <4>2, <4>3
    <3>2. ~(i < j) /\ ~(j < i)
      BY <1>6, <2>1, <3>1
    <3> QED BY <3>1, <3>2
  <2> QED BY <1>6, <2>1 DEF Injection, IsInjective
<1>8. s \in Surjection(1..Cardinality(S), S)
  <2>1. IsFiniteSet(1..Cardinality(S)) /\ Cardinality(1..Cardinality(S)) = Cardinality(S)
    BY <1>1, FS_Interval
  <2> QED BY <1>1, <1>7, <2>1, FS_Injection
<1>9. \A x \in S : \E i \in 1..Cardinality(S) : s[i] = x
  BY <1>8 DEF Surjection
<1>10. s \in Seq(S)
  BY <1>1, <1>6
<1> QED BY <1>1, <1>6, <1>9, <1>10 DEF s

Sec == [ts : Nat, keys : SUBSET Metrics]
Chunk == [host : ToSet(Hosts), ts : Nat, keys : SUBSET Metrics, net : Int]

LEMMA TrashIsSec == Trash \in Sec
BY DEF Trash, Sec

LEMMA SmallestOf ==
    ASSUME NEW n \in Nat, NEW s \in SUBSET (1..n), s # {}
    PROVE  Min(s) \in s /\ \A x \in s : Min(s) <= x
<1> DEFINE less == {p \in Nat \X Nat : p[1] < p[2]}
<1>1. IsWellFoundedOn(less, Nat)
    BY NatLessThanWellFounded, Zenon DEF OpToRel
<1>2. s \subseteq Nat
  OBVIOUS
<1>3. PICK x \in s : \A y \in s : ~(<<y, x>> \in less)
  <2> HIDE DEF less
  <2> QED BY <1>1, <1>2, WFMin
<1>4. \A y \in s : x <= y
  <2> SUFFICES ASSUME NEW y \in s, y < x PROVE FALSE
    BY <1>2
  <2>1. <<y, x>> \in less
    BY <1>2
  <2> QED BY <1>3, <2>1
<1> QED BY <1>3, <1>4 DEF Min

\* The part of a block before its trash.
LEMMA GoodIs ==
    ASSUME NEW block \in Seq(Sec)
    PROVE  /\ Good(block) \in Seq(Sec)
           /\ (\A i \in 1..Len(block) : block[i] # Trash) => Good(block) = block
<1> DEFINE long == block \o <<Trash>>
           I == {i \in 1..Len(long) : long[i] = Trash}
           m == SelectInSeq(long, LAMBDA s : s = Trash)
<1>1. Len(block) \in Nat /\ \A i \in 1..Len(block) : block[i] \in Sec
  BY LenProperties
<1>2. /\ Len(long) = Len(block) + 1 /\ long[Len(block) + 1] = Trash
      /\ \A i \in 1..Len(block) : long[i] = block[i]
  BY <1>1, TrashIsSec, ConcatProperties
<1>3. m = Min(I)
  <2>1. Len(block) + 1 \in I
    BY <1>1, <1>2
  <2>2. m = IF I # {} THEN Min(I) ELSE 0
    BY Zenon DEF SelectInSeq
  <2> QED BY <2>1, <2>2
<1>4. Min(I) \in I /\ \A i \in I : Min(I) <= i
  <2>1. I \in SUBSET (1..(Len(block) + 1)) /\ I # {}
    BY <1>1, <1>2
  <2>2. Len(block) + 1 \in Nat
    BY <1>1
  <2> HIDE DEF I
  <2> QED BY <2>1, <2>2, SmallestOf
<1>5. Good(block) = SubSeq(block, 1, m - 1)
  BY Zenon DEF Good
<1>6. m \in 1..(Len(block) + 1)
  BY <1>1, <1>2, <1>3, <1>4
<1> HIDE DEF m
<1>7. Good(block) \in Seq(Sec)
  BY <1>1, <1>5, <1>6, SubSeqProperties
<1>8. ASSUME \A i \in 1..Len(block) : block[i] # Trash PROVE Good(block) = block
  <2>1. m = Len(block) + 1
    <3>1. m \in 1..Len(long) /\ long[m] = Trash
      BY <1>3, <1>4
    <3>2. m \notin 1..Len(block)
      BY <1>2, <1>8, <3>1
    <3> HIDE DEF long
    <3> QED BY <1>1, <1>6, <3>2
  <2>2. Good(block) = SubSeq(block, 1, Len(block))
    BY <1>1, <1>5, <2>1
  <2> QED BY <1>1, <2>2, SubSeqProperties
<1> QED BY <1>7, <1>8

LineType == Nat \X Metrics
AgentType == [state : {"off", "run", "told", "closed", "stopped", "exited"}, written : SUBSET LineType,
              fresh : SUBSET LineType, cache : SUBSET LineType, drained : BOOLEAN, pipe : Seq(Sec),
              queue : Seq(Seq(Sec)), prev : Sec, session : BOOLEAN, trashed : BOOLEAN]
PollType == [ag : [ToSet(Hosts) -> AgentType], got : Seq(Chunk), trash : BOOLEAN]

\* What a poll leaves alone of an agent.
Unread(r, s) ==
    /\ r.state = s.state /\ r.written = s.written /\ r.fresh = s.fresh /\ r.cache = s.cache /\ r.drained = s.drained
    /\ r.pipe = s.pipe /\ r.session = s.session /\ r.trashed = s.trashed
PollStates == {p \in PollType : \A a \in ToSet(Hosts) : Unread(p.ag[a], ag[a])}
CountType == [count : Nat, triggered : BOOLEAN]

\* f is the poll after each block of a queue.
BlocksTaken(f, p, a) ==
    /\ f \in [0..Len(ag[a].queue) -> PollStates] /\ f[0] = p /\ f[Len(ag[a].queue)] = TakeQueue(p, a)
    /\ \A i \in 0..(Len(ag[a].queue) - 1) : f[i + 1] = TakeBlock(f[i], a, ag[a].queue[i + 1])

LEMMA QueueFolds ==
    ASSUME NEW p \in PollStates, NEW a, ag[a].queue \in Seq(Seq(Sec)),
           \A v \in PollStates, x \in Seq(Sec) : TakeBlock(v, a, x) \in PollStates
    PROVE  \E f : BlocksTaken(f, p, a)
<1> DEFINE n == Len(ag[a].queue)
           V == PollStates
           step == [q \in (1..n) \X V |-> TakeBlock(q[2], a, ag[a].queue[q[1]])]
           G(g) == [s \in SUBSET (DOMAIN ag[a].queue) |-> IF s = {} THEN p
                                               ELSE TakeBlock(g[s \ {Max(s)}], a, ag[a].queue[Max(s)])]
           iter == CHOOSE g : g = G(g)
<1>1. n \in Nat /\ DOMAIN ag[a].queue = 1..n /\ \A i \in 1..n : ag[a].queue[i] \in Seq(Sec)
  BY LenProperties
<1>2. step \in [(1..n) \X V -> V]
  <2>1. ASSUME NEW q \in (1..n) \X V PROVE TakeBlock(q[2], a, ag[a].queue[q[1]]) \in V
    <3>1. q[2] \in V /\ ag[a].queue[q[1]] \in Seq(Sec)
      BY <1>1
    <3> QED BY <3>1
  <2> QED BY <2>1
<1>3. TakeQueue(p, a) = iter[DOMAIN ag[a].queue]
  BY Zenon DEF TakeQueue, FoldLeft, MapThenFoldSet
<1>4. \A i \in 1..n, v \in V : step[<<i, v>>] = TakeBlock(v, a, ag[a].queue[i])
  OBVIOUS
<1> HIDE DEF step, V, n
<1>5. \E h : IsFold(h, n, V, p, step)
  BY <1>1, <1>2, FoldExists DEF V
<1>6. ASSUME NEW h, IsFold(h, n, V, p, step) PROVE h = G(h)
  <2>1. h \in [SUBSET (1..n) -> V]
    BY <1>6 DEF IsFold
  <2>2. ASSUME NEW s \in SUBSET (1..n), s # {}
        PROVE  h[s] = TakeBlock(h[s \ {Max(s)}], a, ag[a].queue[Max(s)])
    <3>1. Max(s) \in 1..n /\ s \ {Max(s)} \in SUBSET (1..n)
      BY <1>1, <2>2, LargestOf
    <3>2. h[s] = step[<<Max(s), h[s \ {Max(s)}]>>]
      BY <1>6, <2>2 DEF IsFold
    <3> QED BY <1>4, <2>1, <3>1, <3>2
  <2>3. h[{}] = p
    BY <1>6 DEF IsFold
  <2> QED BY <1>1, <2>1, <2>2, <2>3
<1>7. iter = G(iter)
  <2> HIDE DEF G
  <2> QED BY <1>5, <1>6
<1>8. iter[1..0] = p
  <2>1. 1..0 = {} /\ {} \in SUBSET (DOMAIN ag[a].queue)
    OBVIOUS
  <2> HIDE DEF iter
  <2> QED BY <1>7, <2>1
<1>9. ASSUME NEW i \in 0..(n - 1), iter[1..i] \in V PROVE iter[1..(i + 1)] = step[<<i + 1, iter[1..i]>>]
  <2>1. 1..(i + 1) \in SUBSET (DOMAIN ag[a].queue) /\ 1..(i + 1) # {} /\ i + 1 \in 1..n /\ i \in Nat
    <3>1. 1..(i + 1) \in SUBSET (1..n) /\ 1..(i + 1) # {} /\ i + 1 \in 1..n /\ i \in Nat
      BY <1>1, FirstPlaces
    <3> QED BY ONLY <1>1, <3>1
  <2> HIDE DEF iter
  <2>2. iter[1..(i + 1)] = TakeBlock(iter[1..i], a, ag[a].queue[i + 1])
    <3> DEFINE s == 1..(i + 1)
    <3>1. Max(s) = i + 1 /\ s \ {Max(s)} = 1..i
      BY <2>1, LargestOfFirst
    <3>2. iter[s] = TakeBlock(iter[s \ {Max(s)}], a, ag[a].queue[Max(s)])
      <4>1. s \in SUBSET (DOMAIN ag[a].queue) /\ s # {}
        BY <2>1
      <4> HIDE DEF s
      <4> QED BY <1>7, <4>1
    <3> QED BY <3>1, <3>2
  <2> QED BY <1>4, <1>9, <2>1, <2>2
<1> HIDE DEF iter
<1>10. PICK f : GoesBy(f, iter, n, V, p, step)
  <2>1. StepsBy(iter, n, V, p, step)
    BY <1>8, <1>9 DEF StepsBy
  <2> QED BY <1>1, <1>2, <2>1, FoldPrefixes DEF V
<1>11. \A i \in 0..(n - 1) : f[i + 1] = TakeBlock(f[i], a, ag[a].queue[i + 1])
  <2> SUFFICES ASSUME NEW i \in 0..(n - 1) PROVE f[i + 1] = TakeBlock(f[i], a, ag[a].queue[i + 1])
    OBVIOUS
  <2>1. i + 1 \in 1..n /\ f[i] \in V
    BY <1>1, <1>10 DEF GoesBy
  <2> QED BY <1>4, <1>10, <2>1 DEF GoesBy
<1>12. BlocksTaken(f, p, a)
  BY <1>1, <1>3, <1>10, <1>11 DEF V, n, GoesBy, BlocksTaken
<1> QED BY <1>12

\* f is the poll after each agent.
AgentsTaken(f, p) ==
    /\ f \in [0..Len(agents) -> PollStates] /\ f[0] = p /\ f[Len(agents)] = Polled
    /\ \A i \in 0..(Len(agents) - 1) : f[i + 1] = TakeQueue(f[i], agents[i + 1])

LEMMA PollFolds ==
    ASSUME NEW p \in PollStates, p = [ag |-> ag, got |-> << >>, trash |-> FALSE], agents \in Seq(ToSet(Hosts)),
           \A v \in PollStates, x \in ToSet(Hosts) : TakeQueue(v, x) \in PollStates
    PROVE  \E f : AgentsTaken(f, p)
<1> DEFINE n == Len(agents)
           V == PollStates
           step == [q \in (1..n) \X V |-> TakeQueue(q[2], agents[q[1]])]
           G(g) == [s \in SUBSET (DOMAIN agents) |-> IF s = {} THEN p
                                               ELSE TakeQueue(g[s \ {Max(s)}], agents[Max(s)])]
           iter == CHOOSE g : g = G(g)
<1>1. n \in Nat /\ DOMAIN agents = 1..n /\ \A i \in 1..n : agents[i] \in ToSet(Hosts)
  BY LenProperties
<1>2. step \in [(1..n) \X V -> V]
  <2>1. ASSUME NEW q \in (1..n) \X V PROVE TakeQueue(q[2], agents[q[1]]) \in V
    <3>1. q[2] \in V /\ agents[q[1]] \in ToSet(Hosts)
      BY <1>1
    <3> QED BY <3>1
  <2> QED BY <2>1
<1>3. Polled = iter[DOMAIN agents]
  BY Zenon DEF Polled, FoldLeft, MapThenFoldSet
<1>4. \A i \in 1..n, v \in V : step[<<i, v>>] = TakeQueue(v, agents[i])
  OBVIOUS
<1> HIDE DEF step, V, n
<1>5. \E h : IsFold(h, n, V, p, step)
  BY <1>1, <1>2, FoldExists DEF V
<1>6. ASSUME NEW h, IsFold(h, n, V, p, step) PROVE h = G(h)
  <2>1. h \in [SUBSET (1..n) -> V]
    BY <1>6 DEF IsFold
  <2>2. ASSUME NEW s \in SUBSET (1..n), s # {}
        PROVE  h[s] = TakeQueue(h[s \ {Max(s)}], agents[Max(s)])
    <3>1. Max(s) \in 1..n /\ s \ {Max(s)} \in SUBSET (1..n)
      BY <1>1, <2>2, LargestOf
    <3>2. h[s] = step[<<Max(s), h[s \ {Max(s)}]>>]
      BY <1>6, <2>2 DEF IsFold
    <3> QED BY <1>4, <2>1, <3>1, <3>2
  <2>3. h[{}] = p
    BY <1>6 DEF IsFold
  <2> QED BY <1>1, <2>1, <2>2, <2>3
<1>7. iter = G(iter)
  <2> HIDE DEF G
  <2> QED BY <1>5, <1>6
<1>8. iter[1..0] = p
  <2>1. 1..0 = {} /\ {} \in SUBSET (DOMAIN agents)
    OBVIOUS
  <2> HIDE DEF iter
  <2> QED BY <1>7, <2>1
<1>9. ASSUME NEW i \in 0..(n - 1), iter[1..i] \in V PROVE iter[1..(i + 1)] = step[<<i + 1, iter[1..i]>>]
  <2>1. 1..(i + 1) \in SUBSET (DOMAIN agents) /\ 1..(i + 1) # {} /\ i + 1 \in 1..n /\ i \in Nat
    <3>1. 1..(i + 1) \in SUBSET (1..n) /\ 1..(i + 1) # {} /\ i + 1 \in 1..n /\ i \in Nat
      BY <1>1, FirstPlaces
    <3> QED BY ONLY <1>1, <3>1
  <2> HIDE DEF iter
  <2>2. iter[1..(i + 1)] = TakeQueue(iter[1..i], agents[i + 1])
    <3> DEFINE s == 1..(i + 1)
    <3>1. Max(s) = i + 1 /\ s \ {Max(s)} = 1..i
      BY <2>1, LargestOfFirst
    <3>2. iter[s] = TakeQueue(iter[s \ {Max(s)}], agents[Max(s)])
      <4>1. s \in SUBSET (DOMAIN agents) /\ s # {}
        BY <2>1
      <4> HIDE DEF s
      <4> QED BY <1>7, <4>1
    <3> QED BY <3>1, <3>2
  <2> QED BY <1>4, <1>9, <2>1, <2>2
<1> HIDE DEF iter
<1>10. PICK f : GoesBy(f, iter, n, V, p, step)
  <2>1. StepsBy(iter, n, V, p, step)
    BY <1>8, <1>9 DEF StepsBy
  <2> QED BY <1>1, <1>2, <2>1, FoldPrefixes DEF V
<1>11. \A i \in 0..(n - 1) : f[i + 1] = TakeQueue(f[i], agents[i + 1])
  <2> SUFFICES ASSUME NEW i \in 0..(n - 1) PROVE f[i + 1] = TakeQueue(f[i], agents[i + 1])
    OBVIOUS
  <2>1. i + 1 \in 1..n /\ f[i] \in V
    BY <1>1, <1>10 DEF GoesBy
  <2> QED BY <1>4, <1>10, <2>1 DEF GoesBy
<1>12. AgentsTaken(f, p)
  BY <1>1, <1>3, <1>10, <1>11 DEF V, n, GoesBy, AgentsTaken
<1> QED BY <1>12

\* f is the criterion after each chunk.
ChunksCounted(f, c, chunks) ==
    /\ f \in [0..Len(chunks) -> CountType] /\ f[0] = c /\ f[Len(chunks)] = FoldLeft(Counted, c, chunks)
    /\ \A i \in 0..(Len(chunks) - 1) : f[i + 1] = Counted(f[i], chunks[i + 1])

LEMMA CountFolds ==
    ASSUME NEW c \in CountType, NEW S, NEW chunks \in Seq(S),
           \A v \in CountType, x \in S : Counted(v, x) \in CountType
    PROVE  \E f : ChunksCounted(f, c, chunks)
<1> DEFINE n == Len(chunks)
           V == CountType
           step == [q \in (1..n) \X V |-> Counted(q[2], chunks[q[1]])]
           G(g) == [s \in SUBSET (DOMAIN chunks) |-> IF s = {} THEN c
                                               ELSE Counted(g[s \ {Max(s)}], chunks[Max(s)])]
           iter == CHOOSE g : g = G(g)
<1>1. n \in Nat /\ DOMAIN chunks = 1..n /\ \A i \in 1..n : chunks[i] \in S
  BY LenProperties
<1>2. step \in [(1..n) \X V -> V]
  <2>1. ASSUME NEW q \in (1..n) \X V PROVE Counted(q[2], chunks[q[1]]) \in V
    <3>1. q[2] \in V /\ chunks[q[1]] \in S
      BY <1>1
    <3> QED BY <3>1
  <2> QED BY <2>1
<1>3. FoldLeft(Counted, c, chunks) = iter[DOMAIN chunks]
  BY Zenon DEF FoldLeft, MapThenFoldSet
<1>4. \A i \in 1..n, v \in V : step[<<i, v>>] = Counted(v, chunks[i])
  OBVIOUS
<1> HIDE DEF step, V, n
<1>5. \E h : IsFold(h, n, V, c, step)
  BY <1>1, <1>2, FoldExists DEF V
<1>6. ASSUME NEW h, IsFold(h, n, V, c, step) PROVE h = G(h)
  <2>1. h \in [SUBSET (1..n) -> V]
    BY <1>6 DEF IsFold
  <2>2. ASSUME NEW s \in SUBSET (1..n), s # {}
        PROVE  h[s] = Counted(h[s \ {Max(s)}], chunks[Max(s)])
    <3>1. Max(s) \in 1..n /\ s \ {Max(s)} \in SUBSET (1..n)
      BY <1>1, <2>2, LargestOf
    <3>2. h[s] = step[<<Max(s), h[s \ {Max(s)}]>>]
      BY <1>6, <2>2 DEF IsFold
    <3> QED BY <1>4, <2>1, <3>1, <3>2
  <2>3. h[{}] = c
    BY <1>6 DEF IsFold
  <2> QED BY <1>1, <2>1, <2>2, <2>3
<1>7. iter = G(iter)
  <2> HIDE DEF G
  <2> QED BY <1>5, <1>6
<1>8. iter[1..0] = c
  <2>1. 1..0 = {} /\ {} \in SUBSET (DOMAIN chunks)
    OBVIOUS
  <2> HIDE DEF iter
  <2> QED BY <1>7, <2>1
<1>9. ASSUME NEW i \in 0..(n - 1), iter[1..i] \in V PROVE iter[1..(i + 1)] = step[<<i + 1, iter[1..i]>>]
  <2>1. 1..(i + 1) \in SUBSET (DOMAIN chunks) /\ 1..(i + 1) # {} /\ i + 1 \in 1..n /\ i \in Nat
    <3>1. 1..(i + 1) \in SUBSET (1..n) /\ 1..(i + 1) # {} /\ i + 1 \in 1..n /\ i \in Nat
      BY <1>1, FirstPlaces
    <3> QED BY ONLY <1>1, <3>1
  <2> HIDE DEF iter
  <2>2. iter[1..(i + 1)] = Counted(iter[1..i], chunks[i + 1])
    <3> DEFINE s == 1..(i + 1)
    <3>1. Max(s) = i + 1 /\ s \ {Max(s)} = 1..i
      BY <2>1, LargestOfFirst
    <3>2. iter[s] = Counted(iter[s \ {Max(s)}], chunks[Max(s)])
      <4>1. s \in SUBSET (DOMAIN chunks) /\ s # {}
        BY <2>1
      <4> HIDE DEF s
      <4> QED BY <1>7, <4>1
    <3> QED BY <3>1, <3>2
  <2> QED BY <1>4, <1>9, <2>1, <2>2
<1> HIDE DEF iter
<1>10. PICK f : GoesBy(f, iter, n, V, c, step)
  <2>1. StepsBy(iter, n, V, c, step)
    BY <1>8, <1>9 DEF StepsBy
  <2> QED BY <1>1, <1>2, <2>1, FoldPrefixes DEF V
<1>11. \A i \in 0..(n - 1) : f[i + 1] = Counted(f[i], chunks[i + 1])
  <2> SUFFICES ASSUME NEW i \in 0..(n - 1) PROVE f[i + 1] = Counted(f[i], chunks[i + 1])
    OBVIOUS
  <2>1. i + 1 \in 1..n /\ f[i] \in V
    BY <1>1, <1>10 DEF GoesBy
  <2> QED BY <1>4, <1>10, <2>1 DEF GoesBy
<1>12. ChunksCounted(f, c, chunks)
  BY <1>1, <1>3, <1>10, <1>11 DEF V, n, GoesBy, ChunksCounted
<1> QED BY <1>12

\* Sequences.
LEMMA PrefixGrows ==
    ASSUME NEW S, NEW s \in Seq(S), NEW i \in Nat, i + 1 <= Len(s)
    PROVE  SubSeq(s, 1, i + 1) = Append(SubSeq(s, 1, i), s[i + 1])
<1> DEFINE a == SubSeq(s, 1, i + 1)
           b == SubSeq(s, 1, i)
           c == Append(b, s[i + 1])
<1>1. Len(s) \in Nat /\ s[i + 1] \in S
  BY LenProperties
<1>2. a \in Seq(S) /\ Len(a) = i + 1 /\ \A k \in 1..(i + 1) : a[k] = s[k]
  BY <1>1, SubSeqProperties
<1>3. b \in Seq(S) /\ Len(b) = i /\ \A k \in 1..i : b[k] = s[k]
  BY <1>1, SubSeqProperties
<1>4. c \in Seq(S) /\ Len(c) = i + 1 /\ c[i + 1] = s[i + 1] /\ \A k \in 1..i : c[k] = b[k]
  BY <1>1, <1>3, AppendProperties
<1> HIDE DEF a, b, c
<1>5. \A k \in 1..(i + 1) : a[k] = c[k]
  BY <1>2, <1>3, <1>4
<1>6. a = c
  BY <1>2, <1>4, <1>5, SeqEqual
<1> QED BY <1>6 DEF a, b, c

LEMMA ConcatAppend ==
    ASSUME NEW S, NEW s \in Seq(S), NEW t \in Seq(S), NEW x \in S
    PROVE  s \o Append(t, x) = Append(s \o t, x)
<1> DEFINE u == Append(t, x)
           a == s \o u
           v == s \o t
           b == Append(v, x)
<1>1. Len(s) \in Nat /\ Len(t) \in Nat
  BY LenProperties
<1>2. u \in Seq(S) /\ Len(u) = Len(t) + 1 /\ u[Len(t) + 1] = x /\ \A k \in 1..Len(t) : u[k] = t[k]
  BY <1>1, AppendProperties
<1> HIDE DEF u
<1>3. a \in Seq(S) /\ Len(a) = Len(s) + Len(u) /\ \A i \in 1..Len(a) : a[i] = IF i <= Len(s) THEN s[i] ELSE u[i - Len(s)]
  <2>1. /\ s \o u \in Seq(S) /\ Len(s \o u) = Len(s) + Len(u)
        /\ \A i \in 1..(Len(s) + Len(u)) : (s \o u)[i] = IF i <= Len(s) THEN s[i] ELSE u[i - Len(s)]
    BY ONLY <1>2, s \in Seq(S), ConcatProperties
  <2> QED BY <2>1
<1>4. v \in Seq(S) /\ Len(v) = Len(s) + Len(t) /\ \A i \in 1..Len(v) : v[i] = IF i <= Len(s) THEN s[i] ELSE t[i - Len(s)]
  BY ConcatProperties
<1> HIDE DEF a, v
<1>5. b \in Seq(S) /\ Len(b) = Len(v) + 1 /\ b[Len(v) + 1] = x /\ \A k \in 1..Len(v) : b[k] = v[k]
  BY <1>1, <1>4, AppendProperties
<1> HIDE DEF b
<1>0. Len(a) = Len(b) /\ Len(a) = Len(s) + Len(t) + 1 /\ Len(v) = Len(s) + Len(t)
  BY <1>1, <1>2, <1>3, <1>4, <1>5
<1>6. ASSUME NEW k \in 1..Len(a) PROVE a[k] = b[k]
  <2>1. CASE k <= Len(s)
    <3>1. k \in 1..Len(v) /\ k \in 1..Len(a)
      BY <1>0, <1>1, <2>1
    <3> QED BY <1>3, <1>4, <1>5, <2>1, <3>1
  <2>2. CASE k > Len(s) /\ k <= Len(s) + Len(t)
    <3>1. k - Len(s) \in 1..Len(t) /\ k \in 1..Len(v)
      BY <1>0, <1>1, <2>2
    <3> QED BY <1>1, <1>2, <1>3, <1>4, <1>5, <2>2, <3>1
  <2>3. CASE k = Len(s) + Len(t) + 1
    <3>1. k - Len(s) = Len(t) + 1 /\ ~(k <= Len(s))
      BY <1>1, <2>3
    <3> QED BY <1>1, <1>2, <1>3, <1>4, <1>5, <2>3, <3>1
  <2>4. k \in Nat /\ k <= Len(s) + Len(t) + 1
    BY <1>0, <1>1
  <2> QED BY <1>1, <2>1, <2>2, <2>3, <2>4
<1>7. a = b
  BY <1>1, <1>2, <1>3, <1>4, <1>5, <1>6, SeqEqual
<1> QED BY <1>7 DEF a, b, u, v

-----------------------------------------------------------------------------
(***************************************************************************)
(* The criterion                                                           *)
(***************************************************************************)

\* The places of the watched host in some chunks, a row of them over the limit,
\* and what the criterion has counted when it got them.
Watches(s) == {k \in 1..Len(s) : s[k].host = Watched}
Row(s, i, j) == Watches(s) \cap i..j
Triggers(s) == \E i, j \in Watches(s) : i <= j /\ Cardinality(Row(s, i, j)) = Limit /\ \A k \in Row(s, i, j) : Over(s[k])
Since(s, m) == {k \in Watches(s) : k > m}

CountIs(c, s, m) ==
    /\ m \in 0..Len(s) /\ (m # 0 => m \in Watches(s) /\ ~Over(s[m]))
    /\ \A k \in Since(s, m) : Over(s[k])
    /\ Cardinality(Since(s, m)) = c.count /\ c.count < Limit
Counts(c, s) == (c.triggered <=> Triggers(s)) /\ (~c.triggered => \E m : CountIs(c, s, m))

LEMMA CountOne ==
    ASSUME NEW S, NEW s \in Seq(S), NEW x \in S, NEW c \in CountType, Counts(c, s)
    PROVE  Counts(Counted(c, x), Append(s, x))
<1> DEFINE n == Len(s)
           t == Append(s, x)
           d == Counted(c, x)
<1>1. n \in Nat /\ Limit \in Nat \ {0}
  BY LenProperties, MonitoringAssumption DEF MonitoringAssumption
<1>2. Len(t) = n + 1 /\ t[n + 1] = x /\ \A i \in 1..n : t[i] = s[i]
  BY AppendProperties, LenProperties
<1> SUFFICES Counts(d, t)
  OBVIOUS
<1> HIDE DEF t
<1>3. /\ \A k \in 1..n : k \in Watches(t) <=> k \in Watches(s)
      /\ n + 1 \in Watches(t) <=> x.host = Watched
      /\ Watches(t) \subseteq 1..(n + 1) /\ Watches(s) \subseteq 1..n
  BY <1>1, <1>2 DEF Watches
<1>4. ASSUME NEW i, NEW j \in 1..n PROVE Row(t, i, j) = Row(s, i, j)
  BY <1>1, <1>3 DEF Row
<1>5. ASSUME NEW i, NEW j, j \in 1..n PROVE (\A k \in Row(t, i, j) : Over(t[k])) <=> (\A k \in Row(s, i, j) : Over(s[k]))
  BY <1>1, <1>2, <1>3, <1>4, <1>5 DEF Row
<1>6. Triggers(s) => Triggers(t)
  <2> SUFFICES ASSUME NEW i \in Watches(s), NEW j \in Watches(s), i <= j, Cardinality(Row(s, i, j)) = Limit,
                      \A k \in Row(s, i, j) : Over(s[k])
               PROVE  Triggers(t)
    BY DEF Triggers
  <2>1. i \in Watches(t) /\ j \in Watches(t) /\ j \in 1..n
    BY <1>3
  <2>2. Row(t, i, j) = Row(s, i, j) /\ \A k \in Row(t, i, j) : Over(t[k])
    BY <1>4, <1>5, <2>1
  <2> QED BY <2>1, <2>2 DEF Triggers
<1>7. ASSUME NEW i \in Watches(t), NEW j \in Watches(t), i <= j, Cardinality(Row(t, i, j)) = Limit,
             \A k \in Row(t, i, j) : Over(t[k]), ~Triggers(s)
      PROVE  j = n + 1 /\ n + 1 \in Row(t, i, j) /\ i \in 1..(n + 1)
  <2>1. i \in 1..(n + 1) /\ j \in 1..(n + 1)
    BY <1>3
  <2>2. j \notin 1..n
    <3> SUFFICES ASSUME j \in 1..n PROVE FALSE
      OBVIOUS
    <3>1. i \in 1..n
      BY <1>1, <1>7, <2>1
    <3>2. i \in Watches(s) /\ j \in Watches(s) /\ Cardinality(Row(s, i, j)) = Limit /\ \A k \in Row(s, i, j) : Over(s[k])
      BY <1>3, <1>4, <1>5, <1>7, <3>1
    <3> QED BY <1>7, <3>2 DEF Triggers
  <2>3. j = n + 1
    BY <1>1, <2>1, <2>2
  <2> QED BY <1>1, <1>7, <2>1, <2>3 DEF Row
<1>8. CASE c.triggered
  <2>1. d = c
    BY <1>8 DEF Counted
  <2> HIDE DEF d
  <2> QED BY <1>6, <1>8, <2>1 DEF Counts
<1>9. CASE ~c.triggered /\ x.host # Watched
  <2>1. d = c /\ ~Triggers(s)
    BY <1>9 DEF Counted, Counts
  <2>2. ~Triggers(t)
    <3> SUFFICES ASSUME Triggers(t) PROVE FALSE
      OBVIOUS
    <3>1. PICK i \in Watches(t), j \in Watches(t) : i <= j /\ Cardinality(Row(t, i, j)) = Limit /\ \A k \in Row(t, i, j) : Over(t[k])
      BY DEF Triggers
    <3>2. j = n + 1
      BY <1>7, <2>1, <3>1
    <3> QED BY <1>3, <1>9, <3>2
  <2>3. PICK m : CountIs(c, s, m)
    BY <1>9 DEF Counts
  <2>4. Since(t, m) = Since(s, m)
    BY <1>1, <1>3, <1>9 DEF Since
  <2>5. CountIs(c, t, m)
    <3>1. m \in 0..n /\ m \in 0..Len(t)
      BY <1>1, <1>2, <2>3 DEF CountIs
    <3>2. m # 0 => m \in 1..n
      BY <1>1, <3>1
    <3>3. \A k \in Since(t, m) : Over(t[k])
      BY <1>2, <1>3, <2>3, <2>4 DEF CountIs, Since
    <3> QED BY <1>2, <1>3, <2>3, <2>4, <3>1, <3>2, <3>3 DEF CountIs
  <2> HIDE DEF d
  <2> QED BY <1>9, <2>1, <2>2, <2>5 DEF Counts
<1>10. CASE ~c.triggered /\ x.host = Watched /\ ~Over(x)
  <2>1. d = [c EXCEPT !.count = 0] /\ ~Triggers(s)
    BY <1>10 DEF Counted, Counts
  <2>2. d.count = 0 /\ ~d.triggered
    BY <1>10, <2>1 DEF CountType
  <2>3. ~Triggers(t)
    <3> SUFFICES ASSUME Triggers(t) PROVE FALSE
      OBVIOUS
    <3>1. PICK i \in Watches(t), j \in Watches(t) : i <= j /\ Cardinality(Row(t, i, j)) = Limit /\ \A k \in Row(t, i, j) : Over(t[k])
      BY DEF Triggers
    <3>2. n + 1 \in Row(t, i, j)
      BY <1>7, <2>1, <3>1
    <3> QED BY <1>2, <1>10, <3>1, <3>2
  <2> HIDE DEF d
  <2>4. CountIs(d, t, n + 1)
    <3>1. Since(t, n + 1) = {}
      BY <1>1, <1>3 DEF Since
    <3>2. Cardinality(Since(t, n + 1)) = 0 /\ 0 < Limit
      <4>1. Cardinality({}) = 0
        BY FS_EmptySet
      <4>2. Cardinality(Since(t, n + 1)) = 0
        BY <3>1, <4>1, Zenon
      <4>3. 0 < Limit
        BY ONLY <1>1
      <4> QED BY <4>2, <4>3
    <3>3. n + 1 \in 0..Len(t) /\ n + 1 \in Watches(t) /\ ~Over(t[n + 1])
      BY <1>1, <1>2, <1>3, <1>10
    <3> QED BY <2>2, <3>1, <3>2, <3>3 DEF CountIs
  <2> QED BY <2>2, <2>3, <2>4 DEF Counts
<1>11. CASE ~c.triggered /\ x.host = Watched /\ Over(x)
  <2>1. d = [count |-> c.count + 1, triggered |-> c.count + 1 >= Limit] /\ ~Triggers(s)
    BY <1>11 DEF Counted, Counts
  <2> HIDE DEF d
  <2>2. PICK m : CountIs(c, s, m)
    BY <1>11 DEF Counts
  <2>3. m \in 0..n /\ m \in 0..Len(t) /\ c.count \in Nat /\ c.count < Limit /\ (m # 0 => m \in 1..n)
    BY <1>1, <1>2, <2>2 DEF CountIs, CountType
  <2>4. Since(t, m) = Since(s, m) \cup {n + 1}
    BY <1>1, <1>3, <1>11, <2>3 DEF Since
  <2>5. \A k \in Since(t, m) : Over(t[k])
    BY <1>2, <1>3, <1>11, <2>2, <2>4 DEF CountIs, Since
  <2>6. IsFiniteSet(Since(t, m)) /\ Cardinality(Since(t, m)) = c.count + 1
    <3>1. IsFiniteSet(Since(s, m)) /\ n + 1 \notin Since(s, m)
      <4>1. Since(s, m) \in SUBSET (1..n) /\ IsFiniteSet(1..n)
        BY <1>1, <1>3, FS_Interval DEF Since
      <4> QED BY <1>1, <4>1, FS_Subset
    <3> QED BY <2>2, <2>4, <3>1, FS_AddElement DEF CountIs
  <2>7. CASE c.count + 1 >= Limit
    <3> DEFINE R == Since(t, m)
               i == Min(R)
    <3>1. R \in SUBSET (1..(n + 1)) /\ R # {} /\ n + 1 \in Nat /\ n + 1 \in R
      BY <1>1, <1>3, <2>4 DEF Since
    <3>2. i \in R /\ \A y \in R : i <= y
      BY <3>1, SmallestOf
    <3> HIDE DEF i
    <3>3. i \in Watches(t) /\ i > m /\ i <= n + 1 /\ i \in 1..(n + 1)
      BY <3>1, <3>2 DEF Since
    <3>4. Row(t, i, n + 1) = R
      <4>1. ASSUME NEW k \in R PROVE k \in Row(t, i, n + 1)
        <5>1. k \in Watches(t) /\ k \in 1..(n + 1) /\ i <= k
          BY <3>1, <3>2 DEF Since
        <5> QED BY <1>1, <3>3, <5>1 DEF Row
      <4>2. ASSUME NEW k \in Row(t, i, n + 1) PROVE k \in R
        BY <1>1, <2>3, <3>3 DEF Row, Since
      <4> QED BY <4>1, <4>2
    <3>5. Triggers(t)
      <4>1. Cardinality(Row(t, i, n + 1)) = Limit
        BY <1>1, <2>3, <2>6, <2>7, <3>4
      <4>2. n + 1 \in Watches(t)
        BY <1>3, <1>11
      <4> QED BY <2>5, <3>3, <3>4, <4>1, <4>2 DEF Triggers
    <3> QED BY <2>1, <2>7, <3>5 DEF Counts
  <2>8. CASE ~(c.count + 1 >= Limit)
    <3>1. ~Triggers(t)
      <4> SUFFICES ASSUME Triggers(t) PROVE FALSE
        OBVIOUS
      <4>1. PICK i \in Watches(t), j \in Watches(t) : i <= j /\ Cardinality(Row(t, i, j)) = Limit /\ \A k \in Row(t, i, j) : Over(t[k])
        BY DEF Triggers
      <4>2. j = n + 1 /\ i \in 1..(n + 1)
        BY <1>7, <2>1, <4>1
      <4>3. i > m
        <5> SUFFICES ASSUME ~(i > m) PROVE FALSE
          OBVIOUS
        <5>1. m \in 1..n /\ m \in Watches(s) /\ ~Over(s[m]) /\ i <= m
          BY <1>1, <2>2, <2>3, <4>2 DEF CountIs
        <5>2. m \in Row(t, i, j) /\ ~Over(t[m])
          BY <1>1, <1>2, <1>3, <4>2, <5>1 DEF Row
        <5> QED BY <4>1, <5>2
      <4>4. Row(t, i, j) \in SUBSET Since(t, m)
        BY <1>1, <2>3, <4>2, <4>3 DEF Row, Since
      <4>5. Cardinality(Row(t, i, j)) <= Cardinality(Since(t, m))
        BY <2>6, <4>4, FS_Subset
      <4> QED BY <1>1, <2>3, <2>6, <2>8, <4>1, <4>5
    <3>2. CountIs(d, t, m)
      <4>1. d.count = c.count + 1
        BY <2>1
      <4>2. m # 0 => m \in Watches(t) /\ ~Over(t[m])
        BY <1>2, <1>3, <2>2, <2>3 DEF CountIs
      <4> QED BY <1>1, <2>3, <2>5, <2>6, <2>8, <4>1, <4>2 DEF CountIs
    <3> QED BY <2>1, <2>8, <3>1, <3>2 DEF Counts
  <2> QED BY <2>7, <2>8
<1> HIDE DEF d
<1> QED BY <1>8, <1>9, <1>10, <1>11

LEMMA CountedTyped ==
    ASSUME NEW c \in CountType, NEW x
    PROVE  Counted(c, x) \in CountType
<1>1. c.count \in Nat /\ c.triggered \in BOOLEAN /\ Limit \in Nat
  BY MonitoringAssumption DEF CountType, MonitoringAssumption
<1>2. [c EXCEPT !.count = 0] \in CountType
  BY DEF CountType
<1>3. [count |-> c.count + 1, triggered |-> c.count + 1 >= Limit] \in CountType
  BY <1>1 DEF CountType
<1> QED BY <1>2, <1>3 DEF Counted

\* The criterion after more chunks.
LEMMA CountMany ==
    ASSUME NEW S, NEW s \in Seq(S), NEW chunks \in Seq(S), NEW c \in CountType, Counts(c, s)
    PROVE  /\ FoldLeft(Counted, c, chunks) \in CountType
           /\ Counts(FoldLeft(Counted, c, chunks), s \o chunks)
<1>1. PICK f : ChunksCounted(f, c, chunks)
  <2>1. \A v \in CountType, x \in S : Counted(v, x) \in CountType
    BY CountedTyped
  <2> QED BY <2>1, CountFolds
<1>2. /\ f \in [0..Len(chunks) -> CountType] /\ f[0] = c /\ f[Len(chunks)] = FoldLeft(Counted, c, chunks)
      /\ \A i \in 0..(Len(chunks) - 1) : f[i + 1] = Counted(f[i], chunks[i + 1])
      /\ Len(chunks) \in Nat
  BY <1>1, LenProperties DEF ChunksCounted
<1> DEFINE Upto(i) == s \o SubSeq(chunks, 1, i)
           P == {i \in Nat : i <= Len(chunks) => Counts(f[i], Upto(i))}
<1>3. 0 \in P
  <2>1. SubSeq(chunks, 1, 0) = << >> /\ Upto(0) = s
    BY SubSeqProperties, ConcatEmptySeq
  <2> QED BY <1>2, <2>1
<1>4. ASSUME NEW i \in Nat, i \in P PROVE i + 1 \in P
  <2> SUFFICES ASSUME i + 1 <= Len(chunks) PROVE Counts(f[i + 1], Upto(i + 1))
    OBVIOUS
  <2>1. i \in 0..(Len(chunks) - 1) /\ i \in 0..Len(chunks) /\ i + 1 \in 1..Len(chunks)
    BY <1>2
  <2>2. Counts(f[i], Upto(i)) /\ f[i] \in CountType
    BY <1>2, <1>4, <2>1
  <2>3. SubSeq(chunks, 1, i) \in Seq(S) /\ chunks[i + 1] \in S
    BY <2>1, SubSeqProperties, LenProperties
  <2>4. Upto(i) \in Seq(S)
    BY <2>3, ConcatProperties
  <2>5. Upto(i + 1) = Append(Upto(i), chunks[i + 1])
    <3>1. SubSeq(chunks, 1, i + 1) = Append(SubSeq(chunks, 1, i), chunks[i + 1])
      BY <2>1, <2>3, PrefixGrows
    <3> QED BY <2>3, <3>1, ConcatAppend
  <2> HIDE DEF Upto
  <2>6. Counts(Counted(f[i], chunks[i + 1]), Append(Upto(i), chunks[i + 1]))
    BY <2>2, <2>3, <2>4, CountOne
  <2> QED BY <1>2, <2>1, <2>5, <2>6
<1> HIDE DEF P
<1>5. Len(chunks) \in P
  BY <1>2, <1>3, <1>4, NatSet
<1>6. SubSeq(chunks, 1, Len(chunks)) = chunks
  BY <1>2, SubSeqProperties
<1>7. Counts(f[Len(chunks)], s \o chunks)
  BY <1>2, <1>5, <1>6 DEF P
<1>8. f[Len(chunks)] \in CountType
  BY <1>2
<1> QED BY <1>2, <1>7, <1>8

-----------------------------------------------------------------------------
(***************************************************************************)
(* Types of what telegraf wrote, on its way to the tank                    *)
(***************************************************************************)

LinesOf(a) == (1..opt.seconds[a]) \X Metrics

AgentsTyped ==
    /\ opt \in Options /\ ag \in [ToSet(Hosts) -> AgentType]
    /\ \A a \in ToSet(Hosts) :
          ag[a].written \subseteq LinesOf(a) /\ ag[a].fresh \subseteq ag[a].written /\ ag[a].cache \subseteq ag[a].written

ChunksTyped ==
    agents \in Seq(ToSet(Hosts)) /\ collected \in Seq(Chunk) /\ published \in Seq(Chunk) /\ criterion \in CountType

LEMMA SecondsNat ==
    ASSUME opt \in Options, NEW a \in ToSet(Hosts)
    PROVE  /\ opt.seconds[a] \in Nat /\ opt.late \in Nat /\ opt.start \in Nat
           /\ opt.metrics[a] \subseteq Metrics /\ LinesOf(a) \subseteq LineType
<1>1. opt \in [telegraf : BOOLEAN, die : BOOLEAN, seconds : [ToSet(Hosts) -> Nat], late : Nat,
               metrics : [ToSet(Hosts) -> SUBSET Metrics], trash : SUBSET ToSet(Hosts), start : Nat, lower : BOOLEAN]
  BY MonitoringAssumption DEF MonitoringAssumption
<1>2. opt.seconds \in [ToSet(Hosts) -> Nat] /\ opt.metrics \in [ToSet(Hosts) -> SUBSET Metrics] /\ opt.late \in Nat
      /\ opt.start \in Nat
  BY <1>1
<1>3. opt.seconds[a] \in Nat /\ opt.metrics[a] \in SUBSET Metrics
  BY <1>2
<1> QED BY <1>2, <1>3 DEF LinesOf, LineType

LEMMA DumpIs ==
    ASSUME AgentsTyped, NEW a \in ToSet(Hosts), NEW cache \in SUBSET LinesOf(a)
    PROVE  /\ DumpSeconds(cache) \in SUBSET (1..opt.seconds[a])
           /\ Dump(a, cache) \in Seq(DumpSeconds(cache))
           /\ ag[a].state \notin {"closed", "stopped"} => Dump(a, cache) = Ascending(DumpSeconds(cache))
<1> DEFINE S == DumpSeconds(cache)
           ready == Ascending(S)
<1>1. S \in SUBSET (1..opt.seconds[a]) /\ opt.seconds[a] \in Nat
  BY SecondsNat DEF DumpSeconds, LinesOf, AgentsTyped
<1> HIDE DEF S
<1>2. ready \in Seq(S)
  BY <1>1, AscendingIs
<1>3. Dump(a, cache) = IF ag[a].state \in {"closed", "stopped"} /\ ready # << >> THEN SubSeq(ready, 1, 1) ELSE ready
  BY DEF Dump, S
<1> HIDE DEF ready
<1>4. ready # << >> => SubSeq(ready, 1, 1) \in Seq(S)
  <2> SUFFICES ASSUME ready # << >> PROVE SubSeq(ready, 1, 1) \in Seq(S)
    OBVIOUS
  <2>1. Len(ready) \in Nat /\ Len(ready) # 0 /\ \A i \in 1..Len(ready) : ready[i] \in S
    BY <1>2, LenProperties, EmptySeq
  <2>2. \A i \in 1..1 : ready[i] \in S
    BY <2>1
  <2> QED BY <2>2, SubSeqProperties
<1>5. Dump(a, cache) \in Seq(S)
  BY <1>2, <1>3, <1>4
<1>6. ag[a].state \notin {"closed", "stopped"} => Dump(a, cache) = ready
  BY <1>3
<1> QED BY <1>1, <1>5, <1>6 DEF S, ready

LEMMA DecodeTyped ==
    ASSUME NEW a \in ToSet(Hosts), NEW prev \in Sec, NEW block \in Seq(Sec)
    PROVE  Decode(a, prev, block) \in Seq(Chunk) /\ PrevCheck(prev, block) \in Sec
<1>1. Len(block) \in Nat /\ \A i \in 1..Len(block) : block[i] \in Sec
  BY LenProperties
<1>2. ASSUME NEW i \in 1..Len(block)
      PROVE  [host |-> a, ts |-> block[i].ts, keys |-> block[i].keys \ {"net"},
              net |-> Diff(PrevOf(prev, block, i), block[i])] \in Chunk
  <2>1. PrevOf(prev, block, i) \in Sec
    <3>1. i # 1 => i - 1 \in 1..Len(block)
      BY <1>1
    <3> QED BY <1>1, <3>1 DEF PrevOf
  <2>2. \A p, s \in Sec : Diff(p, s) \in Int
    BY DEF Diff, Sec
  <2>3. block[i].ts \in Nat /\ block[i].keys \ {"net"} \in SUBSET Metrics /\ block[i] \in Sec
    BY <1>1 DEF Sec
  <2>4. Diff(PrevOf(prev, block, i), block[i]) \in Int
    BY <2>1, <2>2, <2>3
  <2> QED BY <2>3, <2>4 DEF Chunk
<1>3. Decode(a, prev, block) \in Seq(Chunk)
  BY <1>1, <1>2 DEF Decode
<1>4. PrevCheck(prev, block) \in Sec
  <2>1. Good(block) \in Seq(Sec)
    BY GoodIs
  <2>2. CASE Good(block) = << >>
    BY <2>2 DEF PrevCheck
  <2>3. CASE Good(block) # << >>
    <3>1. Len(Good(block)) \in 1..Len(Good(block))
      BY <2>1, <2>3, LenProperties, EmptySeq
    <3>2. Good(block)[Len(Good(block))] \in Sec
      BY <2>1, <3>1, LenProperties
    <3> QED BY <2>3, <3>2 DEF PrevCheck, Last
  <2> QED BY <2>2, <2>3
<1> QED BY <1>3, <1>4

LEMMA TakeBlockTyped ==
    ASSUME NEW p \in PollStates, NEW a \in ToSet(Hosts), NEW block \in Seq(Sec)
    PROVE  TakeBlock(p, a, block) \in PollStates
<1> DEFINE s == p.ag[a]
           r == [s EXCEPT !.queue = SubSeq(@, 2, Len(@)), !.prev = PrevCheck(@, block)]
           got == p.got \o Decode(a, s.prev, block)
           q == [ag |-> [p.ag EXCEPT ![a] = r], got |-> got, trash |-> Good(block) # block]
<1>1. /\ p.ag \in [ToSet(Hosts) -> AgentType] /\ p.got \in Seq(Chunk) /\ p.trash \in BOOLEAN
      /\ \A b \in ToSet(Hosts) : Unread(p.ag[b], ag[b])
  BY DEF PollStates, PollType
<1>2. s \in AgentType
  BY <1>1
<1>3. s.prev \in Sec /\ s.queue \in Seq(Seq(Sec))
  BY <1>2 DEF AgentType
<1>4. SubSeq(s.queue, 2, Len(s.queue)) \in Seq(Seq(Sec))
  <2>1. Len(s.queue) \in Int /\ \A i \in 2..Len(s.queue) : s.queue[i] \in Seq(Sec)
    BY <1>3, LenProperties
  <2> QED BY <2>1, SubSeqProperties
<1>5. PrevCheck(s.prev, block) \in Sec /\ got \in Seq(Chunk)
  BY <1>1, <1>3, DecodeTyped, ConcatProperties
<1> HIDE DEF s, got
<1>6. r \in AgentType /\ Unread(r, s)
  BY <1>2, <1>4, <1>5 DEF AgentType, Unread
<1> HIDE DEF r
<1>7. q.ag \in [ToSet(Hosts) -> AgentType] /\ \A b \in ToSet(Hosts) : Unread(q.ag[b], ag[b])
  <2>1. q.ag = [p.ag EXCEPT ![a] = r]
    OBVIOUS
  <2>2. Unread(r, ag[a])
    BY <1>1, <1>6 DEF Unread, s
  <2> HIDE DEF q
  <2> QED BY <1>1, <1>6, <2>1, <2>2
<1>8. q \in PollType
  BY <1>5, <1>7 DEF PollType
<1>9. q \in PollStates
  <2> HIDE DEF q
  <2> QED BY <1>7, <1>8 DEF PollStates
<1>10. TakeBlock(p, a, block) = IF p.trash THEN p ELSE q
  BY DEF TakeBlock, q, r, s, got
<1> QED BY <1>9, <1>10

\* A block of a queue is taken in each step, and then the next agent's.
LEMMA TakeQueueGoes ==
    ASSUME AgentsTyped, NEW p \in PollStates, NEW a \in ToSet(Hosts)
    PROVE  TakeQueue(p, a) \in PollStates /\ \E f : BlocksTaken(f, p, a)
<1>1. ag[a].queue \in Seq(Seq(Sec))
  BY DEF AgentsTyped, AgentType
<1>2. \E f : BlocksTaken(f, p, a)
  BY <1>1, TakeBlockTyped, QueueFolds
<1>3. Len(ag[a].queue) \in Nat
  BY <1>1, LenProperties
<1>4. PICK f : BlocksTaken(f, p, a)
  BY <1>2
<1>5. f \in [0..Len(ag[a].queue) -> PollStates] /\ f[Len(ag[a].queue)] = TakeQueue(p, a)
  BY <1>4 DEF BlocksTaken
<1>6. TakeQueue(p, a) \in PollStates
  BY <1>3, <1>5
<1> QED BY <1>2, <1>6

LEMMA PolledGoes ==
    ASSUME AgentsTyped, agents \in Seq(ToSet(Hosts))
    PROVE  LET p == [ag |-> ag, got |-> << >>, trash |-> FALSE]
           IN  p \in PollStates /\ Polled \in PollStates /\ \E f : AgentsTaken(f, p)
<1> DEFINE p == [ag |-> ag, got |-> << >>, trash |-> FALSE]
<1>1. p \in PollStates
  <2>1. p \in PollType
    BY DEF PollType, AgentsTyped
  <2> QED BY <2>1 DEF PollStates, Unread
<1>2. \E f : AgentsTaken(f, p)
  BY <1>1, TakeQueueGoes, PollFolds
<1>3. Len(agents) \in Nat
  BY LenProperties
<1> HIDE DEF p
<1>4. Polled \in PollStates
  BY <1>2, <1>3 DEF AgentsTaken
<1> QED BY <1>1, <1>2, <1>4 DEF p

LEMMA PolledTyped ==
    ASSUME AgentsTyped, agents \in Seq(ToSet(Hosts)), ag' = Polled.ag, opt' = opt
    PROVE  AgentsTyped' /\ Polled.got \in Seq(Chunk) /\ Polled.trash \in BOOLEAN
<1>1. Polled \in PollStates
  BY PolledGoes
<1>2. ag' \in [ToSet(Hosts) -> AgentType] /\ \A a \in ToSet(Hosts) : Unread(ag'[a], ag[a])
  BY <1>1 DEF PollStates, PollType
<1>3. Polled.got \in Seq(Chunk) /\ Polled.trash \in BOOLEAN
  BY <1>1 DEF PollStates, PollType
<1> QED BY <1>2, <1>3 DEF AgentsTyped, Unread, LinesOf

\* A step that changes one agent.
LEMMA OneAgentTyped ==
    ASSUME AgentsTyped, NEW a \in ToSet(Hosts), NEW r \in AgentType, ag' = [ag EXCEPT ![a] = r], opt' = opt,
           r.written \subseteq LinesOf(a), r.fresh \subseteq r.written, r.cache \subseteq r.written
    PROVE  AgentsTyped'
<1>1. \A b \in ToSet(Hosts) : ag'[b] = IF b = a THEN r ELSE ag[b]
  BY DEF AgentsTyped
<1> QED BY <1>1 DEF AgentsTyped, LinesOf

LEMMA SecondTyped == ASSUME NEW cache \in SUBSET LineType, NEW t \in Nat PROVE Second(cache, t) \in Sec
<1>1. {l[2] : l \in {l \in cache : l[1] = t}} \in SUBSET Metrics
  BY DEF LineType
<1> QED BY <1>1 DEF Second, Sec

LEMMA AgentTyped ==
    ASSUME AgentsTyped, NEW a \in ToSet(Hosts), AgentStep(a) \/ Environment(a), opt' = opt
    PROVE  AgentsTyped'
<1> DEFINE s == ag[a]
<1>1. /\ s \in AgentType /\ s.written \subseteq LinesOf(a) /\ s.fresh \subseteq s.written /\ s.cache \subseteq s.written
      /\ LinesOf(a) \subseteq LineType /\ opt.seconds[a] \in Nat /\ opt.metrics[a] \subseteq Metrics
  BY SecondsNat DEF AgentsTyped
<1>2. CASE Telegraf(a)
  <2>1. PICK ts \in 1..opt.seconds[a], m \in opt.metrics[a] :
            ag' = [ag EXCEPT ![a] = [s EXCEPT !.written = @ \cup {<<ts, m>>}, !.fresh = @ \cup {<<ts, m>>}]]
    BY <1>2 DEF Telegraf, Becomes
  <2> DEFINE r == [s EXCEPT !.written = @ \cup {<<ts, m>>}, !.fresh = @ \cup {<<ts, m>>}]
  <2>2. <<ts, m>> \in LinesOf(a) /\ <<ts, m>> \in LineType
    BY <1>1 DEF LinesOf, LineType
  <2> HIDE DEF s
  <2>3. r.written = s.written \cup {<<ts, m>>} /\ r.fresh = s.fresh \cup {<<ts, m>>} /\ r.cache = s.cache
    BY <1>1 DEF AgentType
  <2>4. r \in AgentType
    BY <1>1, <2>2 DEF AgentType
  <2>5. ag' = [ag EXCEPT ![a] = r]
    BY <2>1
  <2> HIDE DEF r
  <2> QED BY <1>1, <2>2, <2>3, <2>4, <2>5, OneAgentTyped
<1>3. CASE PrintTrash(a)
  <2> DEFINE r == [s EXCEPT !.pipe = Append(@, Trash), !.trashed = TRUE]
  <2>1. ag' = [ag EXCEPT ![a] = r]
    BY <1>3 DEF PrintTrash, Becomes
  <2> HIDE DEF s
  <2>2. Append(s.pipe, Trash) \in Seq(Sec)
    BY <1>1, TrashIsSec, AppendProperties DEF AgentType
  <2>3. r \in AgentType /\ r.written = s.written /\ r.fresh = s.fresh /\ r.cache = s.cache
    BY <1>1, <2>2 DEF AgentType
  <2> HIDE DEF r
  <2> QED BY <1>1, <2>1, <2>3, OneAgentTyped
<1>4. CASE Consolidate(a)
  <2> DEFINE cache == s.cache \cup s.fresh
             out == Dump(a, cache)
             pipe == IF s.state = "run" THEN s.pipe \o [i \in 1..Len(out) |-> Second(cache, out[i])] ELSE s.pipe
             r == [s EXCEPT !.fresh = {}, !.cache = {l \in cache : l[1] \notin ToSet(out)},
                       !.pipe = IF s.state = "run" THEN @ \o [i \in 1..Len(out) |-> Second(cache, out[i])] ELSE @,
                       !.drained = s.state \in {"closed", "stopped"} /\ out # << >>]
  <2>1. ag' = [ag EXCEPT ![a] = r]
    BY <1>4 DEF Consolidate, Becomes
  <2>2. cache \in SUBSET LinesOf(a) /\ cache \in SUBSET LineType /\ cache \subseteq s.written
    BY <1>1
  <2> HIDE DEF cache
  <2>3. out \in Seq(Nat) /\ Len(out) \in Nat
    <3>1. DumpSeconds(cache) \in SUBSET (1..opt.seconds[a]) /\ out \in Seq(DumpSeconds(cache))
      BY <2>2, DumpIs
    <3>2. \A i \in 1..Len(out) : out[i] \in Nat
      BY <3>1, LenProperties
    <3> HIDE DEF out
    <3> QED BY <3>1, <3>2, LenProperties
  <2> HIDE DEF out, s
  <2>4. [i \in 1..Len(out) |-> Second(cache, out[i])] \in Seq(Sec)
    <3>1. \A i \in 1..Len(out) : Second(cache, out[i]) \in Sec
      BY <2>2, <2>3, SecondTyped, LenProperties
    <3> QED BY <2>3, <3>1
  <2>5. pipe \in Seq(Sec)
    BY <1>1, <2>4, ConcatProperties DEF AgentType
  <2>6. r = [s EXCEPT !.fresh = {}, !.cache = {l \in cache : l[1] \notin ToSet(out)},
                !.pipe = pipe, !.drained = s.state \in {"closed", "stopped"} /\ out # << >>]
    BY <1>1 DEF AgentType
  <2> HIDE DEF pipe
  <2>7. r \in AgentType /\ r.written = s.written /\ r.fresh = {} /\ r.cache = {l \in cache : l[1] \notin ToSet(out)}
    BY <1>1, <2>2, <2>5, <2>6 DEF AgentType
  <2> HIDE DEF r
  <2> QED BY <1>1, <2>1, <2>2, <2>7, OneAgentTyped
<1>5. CASE CloseDrain(a) \/ StopTelegraf(a) \/ Exit(a)
  <2>1. PICK state \in {"closed", "stopped", "exited"} : ag' = [ag EXCEPT ![a] = [s EXCEPT !.state = state]]
    BY <1>5 DEF CloseDrain, StopTelegraf, Exit, Becomes
  <2> HIDE DEF s
  <2> DEFINE r == [s EXCEPT !.state = state]
  <2>2. r \in AgentType /\ r.written = s.written /\ r.fresh = s.fresh /\ r.cache = s.cache
    BY <1>1 DEF AgentType
  <2>3. ag' = [ag EXCEPT ![a] = r]
    BY <2>1
  <2> HIDE DEF r
  <2> QED BY <1>1, <2>2, <2>3, OneAgentTyped
<1>6. CASE ReadBuffer(a)
  <2>1. PICK n \in 1..Len(s.pipe) :
            ag' = [ag EXCEPT ![a] = [s EXCEPT !.queue = Append(@, SubSeq(s.pipe, 1, n)), !.pipe = SubSeq(@, n + 1, Len(@))]]
    BY <1>6 DEF ReadBuffer, Becomes
  <2> HIDE DEF s
  <2> DEFINE r == [s EXCEPT !.queue = Append(@, SubSeq(s.pipe, 1, n)), !.pipe = SubSeq(@, n + 1, Len(@))]
  <2>2. s.pipe \in Seq(Sec) /\ Len(s.pipe) \in Nat /\ s.queue \in Seq(Seq(Sec)) /\ \A i \in 1..Len(s.pipe) : s.pipe[i] \in Sec
    BY <1>1, LenProperties DEF AgentType
  <2>3. SubSeq(s.pipe, 1, n) \in Seq(Sec) /\ SubSeq(s.pipe, n + 1, Len(s.pipe)) \in Seq(Sec)
    BY <2>2, SubSeqProperties
  <2>4. Append(s.queue, SubSeq(s.pipe, 1, n)) \in Seq(Seq(Sec))
    BY <2>2, <2>3, AppendProperties
  <2>5. r \in AgentType /\ r.written = s.written /\ r.fresh = s.fresh /\ r.cache = s.cache
    BY <1>1, <2>3, <2>4 DEF AgentType
  <2>6. ag' = [ag EXCEPT ![a] = r]
    BY <2>1
  <2> HIDE DEF r
  <2> QED BY <1>1, <2>5, <2>6, OneAgentTyped
<1> QED BY <1>2, <1>3, <1>4, <1>5, <1>6 DEF AgentStep, Environment

-----------------------------------------------------------------------------
(***************************************************************************)
(* What is decoded is published, and the criterion counts what is          *)
(***************************************************************************)

TelegrafStage == {"prepare", "start", "wait", "poll", "uninstall", "over"}
Early == {"prepare", "start", "wait"}

\* What is collected waits only while the test is polled, or was left by a poll
\* that met trash.
Gathered ==
    /\ stage \in TelegrafStage
    /\ stage \in Early => collected = << >> /\ published = << >> /\ monitoring
    /\ ~monitoring => collected = << >>
    /\ stage = "uninstall" => monitoring
    /\ DecodedIsPublished

\* A history that grows has what it had.
LEMMA ListenersGet ==
    ASSUME NEW S, NEW s \in Seq(S), NEW chunks \in Seq(S), NEW i \in DOMAIN chunks
    PROVE  chunks[i] \in ToSet(s \o chunks)
<1>1. Len(s) \in Nat /\ Len(chunks) \in Nat /\ DOMAIN chunks = 1..Len(chunks) /\ i \in Nat
  BY LenProperties
<1>2. /\ s \o chunks \in Seq(S) /\ Len(s \o chunks) = Len(s) + Len(chunks)
      /\ \A k \in 1..(Len(s) + Len(chunks)) : (s \o chunks)[k] = IF k <= Len(s) THEN s[k] ELSE chunks[k - Len(s)]
  BY ConcatProperties
<1>3. Len(s) + i \in 1..(Len(s) + Len(chunks)) /\ ~(Len(s) + i <= Len(s)) /\ Len(s) + i - Len(s) = i
  BY <1>1
<1>4. (s \o chunks)[Len(s) + i] = chunks[i] /\ Len(s) + i \in DOMAIN (s \o chunks)
  BY <1>2, <1>3, LenProperties
<1> QED BY <1>4 DEF ToSet

TelegrafIs == AgentsTyped /\ ChunksTyped /\ Gathered /\ Counts(criterion, published)
TelegrafInv == opt.telegraf => TelegrafIs

\* What the listeners get is counted.
LEMMA PublishHolds ==
    ASSUME NEW chunks \in Seq(Chunk), Publish(chunks), published \in Seq(Chunk), criterion \in CountType,
           Counts(criterion, published)
    PROVE  /\ published' = published \o chunks /\ published' \in Seq(Chunk) /\ criterion' \in CountType
           /\ Counts(criterion', published')
<1>1. published' = published \o chunks /\ criterion' = FoldLeft(Counted, criterion, chunks)
  BY DEF Publish
<1>2. published' \in Seq(Chunk)
  BY <1>1, ConcatProperties
<1> QED BY <1>1, <1>2, CountMany

LEMMA CountsStay ==
    ASSUME Counts(criterion, published), UNCHANGED <<published, criterion>>, opt' = opt
    PROVE  Counts(criterion, published)'
BY DEF Counts, Triggers, CountIs, Over

LEMMA CountsPrimed ==
    ASSUME Counts(criterion', published'), opt' = opt
    PROVE  Counts(criterion, published)'
BY DEF Counts, Triggers, CountIs, Over

\* The stages but for the last, and the polls while the tank waits.
LEMMA StagesGather ==
    ASSUME opt.telegraf, TelegrafIs, opt' = opt, TelegrafStages \/ WaitPolls, ~GiveRest
    PROVE  TelegrafIs'
<1>0. AgentsTyped /\ ChunksTyped /\ Gathered /\ Counts(criterion, published)
  BY DEF TelegrafIs
<1>1. collected' = collected /\ UNCHANGED <<published, criterion>>
  BY DEF TelegrafStages, WaitPolls, Install, StartAgents, StartRaises, WaitEnds, TestEnds, Uninstall, GiveRest,
         PublishNothing, collector, telegraf
<1>2. Counts(criterion, published)'
  BY <1>0, <1>1, CountsStay
<1>3. Gathered'
  <2> USE DEF Gathered, TelegrafStage, Early
  <2>1. CASE Install \/ StartAgents
    BY <1>0, <1>1, <2>1 DEF Install, StartAgents, Now, collector, DecodedIsPublished
  <2>2. CASE StartRaises
    BY <1>0, <1>1, <2>2 DEF StartRaises, Now, DecodedIsPublished
  <2>3. CASE WaitPolls \/ WaitEnds
    BY <1>0, <1>1, <2>3 DEF WaitPolls, WaitEnds, Now, telegraf, collector, DecodedIsPublished
  <2>4. CASE TestEnds
    BY <1>0, <1>1, <2>4 DEF TestEnds, Now, collector, DecodedIsPublished
  <2>5. CASE Uninstall
    BY <1>0, <1>1, <2>5 DEF Uninstall, DecodedIsPublished
  <2> QED BY <2>1, <2>2, <2>3, <2>4, <2>5 DEF TelegrafStages
<1>4. agents' \in Seq(ToSet(Hosts))
  <2>1. CASE Install
    <3>1. \A S : Only(Hosts, S) \in Seq(ToSet(Hosts))
      BY OnlyKeeps, MonitoringAssumption DEF MonitoringAssumption
    <3> QED BY <2>1, <3>1 DEF Install
  <2>2. CASE ~Install
    <3>1. agents' = agents
      BY <2>2 DEF TelegrafStages, WaitPolls, StartAgents, StartRaises, WaitEnds, TestEnds, Uninstall, collector, telegraf
    <3> QED BY <1>0, <3>1 DEF ChunksTyped
  <2> QED BY <2>1, <2>2
<1>5. ChunksTyped'
  BY <1>0, <1>1, <1>4 DEF ChunksTyped
<1>6. AgentsTyped'
  <2> DEFINE Kept(r, s) == r.written = s.written /\ r.fresh = s.fresh /\ r.cache = s.cache
  <2>1. ASSUME ag' \in [ToSet(Hosts) -> AgentType], \A a \in ToSet(Hosts) : Kept(ag'[a], ag[a]) PROVE AgentsTyped'
    BY <1>0, <2>1 DEF AgentsTyped, LinesOf
  <2>2. \A s \in AgentType : /\ \A a : StartAgent(a, s) \in AgentType /\ Kept(StartAgent(a, s), s)
                             /\ Tell(s) \in AgentType /\ Kept(Tell(s), s)
    BY DEF StartAgent, Tell, AgentType
  <2>3. ag \in [ToSet(Hosts) -> AgentType]
    BY <1>0 DEF AgentsTyped
  <2>4. CASE ag' = ag
    BY <2>1, <2>3, <2>4
  <2>5. ASSUME NEW n, ag' = Started(n) PROVE AgentsTyped'
    <3>1. ag' = [a \in ToSet(Hosts) |-> IF a \in ToSet(SubSeq(agents, 1, n)) THEN StartAgent(a, ag[a]) ELSE ag[a]]
      BY <2>3, <2>5 DEF Started
    <3>2. \A a \in ToSet(Hosts) : ag'[a] \in AgentType /\ Kept(ag'[a], ag[a])
      BY <2>2, <2>3, <3>1
    <3> QED BY <2>1, <3>1, <3>2
  <2>6. CASE TestEnds
    <3>1. CASE monitoring
      <4>1. ag' = [a \in ToSet(Hosts) |-> Tell(ag[a])]
        BY <2>3, <2>6, <3>1 DEF TestEnds
      <4>2. \A a \in ToSet(Hosts) : ag'[a] \in AgentType /\ Kept(ag'[a], ag[a])
        BY <2>2, <2>3, <4>1
      <4> QED BY <2>1, <4>1, <4>2
    <3>2. CASE ~monitoring
      BY <2>4, <2>6, <3>2 DEF TestEnds
    <3> QED BY <3>1, <3>2
  <2>7. CASE Uninstall
    <3> DEFINE a == agents[uninstalled + 1]
               r == [ag[a] EXCEPT !.state = IF @ = "off" THEN @ ELSE "exited", !.session = FALSE]
    <3>1. ag' = [ag EXCEPT ![a] = r]
      BY <2>7 DEF Uninstall, Uninstalled, Becomes
    <3>2. CASE a \in ToSet(Hosts)
      <4>1. ag[a] \in AgentType
        BY <2>3, <3>2
      <4>2. r \in AgentType /\ Kept(r, ag[a])
        BY <4>1 DEF AgentType
      <4> HIDE DEF r, a
      <4> QED BY <2>1, <2>3, <3>1, <3>2, <4>2
    <3>3. CASE a \notin ToSet(Hosts)
      <4> HIDE DEF r, a
      <4>1. ag' = ag
        BY <2>3, <3>1, <3>3
      <4> QED BY <2>4, <4>1
    <3> QED BY <3>2, <3>3
  <2>8. CASE WaitPolls
    <3>1. ag' = Polled.ag
      BY <2>8 DEF WaitPolls
    <3> QED BY <1>0, <3>1, PolledTyped DEF ChunksTyped
  <2>9. CASE Install \/ WaitEnds
    BY <2>4, <2>9 DEF Install, WaitEnds, telegraf
  <2>10. CASE StartAgents \/ StartRaises
    BY <2>5, <2>10 DEF StartAgents, StartRaises
  <2> QED BY <2>6, <2>7, <2>8, <2>9, <2>10 DEF TelegrafStages
<1> QED BY <1>2, <1>3, <1>5, <1>6 DEF TelegrafIs

LEMMA GiveRestGathers ==
    ASSUME opt.telegraf, TelegrafIs, opt' = opt, GiveRest
    PROVE  TelegrafIs'
<1>0. AgentsTyped /\ ChunksTyped /\ Gathered /\ Counts(criterion, published)
  BY DEF TelegrafIs
<1>1. stage' = "over" /\ agents' = RestOf(agents) /\ collected' = collected /\ Publish(collected) /\ ag' = ag
      /\ stage = "uninstall" /\ monitoring' = monitoring
  BY DEF GiveRest, Now
<1>2. /\ published' = published \o collected /\ published' \in Seq(Chunk) /\ criterion' \in CountType
      /\ Counts(criterion', published')
  BY <1>0, <1>1, PublishHolds DEF ChunksTyped
<1>3. agents' \in Seq(ToSet(Hosts))
  <2> DEFINE h == Len(agents) \div 2
  <2>1. Len(agents) \in Nat /\ \A i \in 1..Len(agents) : agents[i] \in ToSet(Hosts)
    BY <1>0, LenProperties DEF ChunksTyped
  <2>2. h \in Nat /\ \A i \in 1..h : 2 * i \in 1..Len(agents)
    BY <2>1
  <2> HIDE DEF h
  <2>3. \A i \in 1..h : agents[2 * i] \in ToSet(Hosts)
    BY <2>1, <2>2
  <2>4. agents' = [i \in 1..h |-> agents[2 * i]]
    BY <1>1 DEF RestOf, h
  <2> QED BY <2>2, <2>3, <2>4
<1>4. ChunksTyped'
  BY <1>0, <1>1, <1>2, <1>3 DEF ChunksTyped
<1>5. AgentsTyped'
  BY <1>0, <1>1 DEF AgentsTyped, LinesOf
<1>6. Gathered'
  <2>1. \A i \in DOMAIN collected : collected[i] \in ToSet(published')
    BY <1>0, <1>2, ListenersGet DEF ChunksTyped
  <2> QED BY <1>0, <1>1, <2>1 DEF Gathered, TelegrafStage, Early, DecodedIsPublished
<1> QED BY <1>2, <1>4, <1>5, <1>6, CountsPrimed DEF TelegrafIs

LEMMA PollGathers ==
    ASSUME opt.telegraf, TelegrafIs, opt' = opt, Poll
    PROVE  TelegrafIs'
<1>0. AgentsTyped /\ ChunksTyped /\ Gathered /\ Counts(criterion, published)
  BY DEF TelegrafIs
<1> DEFINE all == collected \o SinceStart(Polled.got)
           given == IF Polled.trash THEN << >> ELSE all
<1>1. stage = "poll" /\ stage' = stage /\ monitoring /\ agents' = agents /\ collected' = (IF Polled.trash THEN all ELSE << >>)
      /\ Publish(given) /\ ag' = Polled.ag /\ monitoring' = monitoring
  BY DEF Poll
<1>2. AgentsTyped' /\ Polled.got \in Seq(Chunk)
  BY <1>0, <1>1, PolledTyped DEF ChunksTyped
<1>3. all \in Seq(Chunk)
  <2>1. SinceStart(Polled.got) \in Seq(Chunk)
    BY <1>2, OnlyKeeps DEF SinceStart
  <2> QED BY <1>0, <2>1, ConcatProperties DEF ChunksTyped
<1> HIDE DEF all
<1>4. given \in Seq(Chunk)
  BY <1>3
<1> HIDE DEF given
<1>5. /\ published' \in Seq(Chunk) /\ criterion' \in CountType
      /\ Counts(criterion', published')
  BY <1>0, <1>1, <1>4, PublishHolds DEF ChunksTyped
<1>6. ChunksTyped'
  BY <1>0, <1>1, <1>3, <1>5 DEF ChunksTyped
<1>7. Gathered'
  BY <1>0, <1>1 DEF Gathered, TelegrafStage, Early, DecodedIsPublished
<1> QED BY <1>2, <1>5, <1>6, <1>7, CountsPrimed DEF TelegrafIs

LEMMA TelegrafBegins == MonitoringInit => TelegrafInv
<1> SUFFICES ASSUME MonitoringInit, opt.telegraf PROVE TelegrafIs
  BY DEF TelegrafInv
<1>1. /\ opt \in Options /\ stage = "prepare" /\ ag = [a \in ToSet(Hosts) |-> NewAgent]
      /\ agents = << >> /\ collected = << >> /\ monitoring = TRUE
      /\ published = << >> /\ criterion = [count |-> 0, triggered |-> FALSE]
  BY DEF MonitoringInit
<1>2. NewAgent \in AgentType /\ NewAgent.written = {} /\ NewAgent.fresh = {} /\ NewAgent.cache = {}
  BY TrashIsSec DEF NewAgent, AgentType, NoCheck
<1>3. AgentsTyped
  <2> HIDE DEF AgentType
  <2> QED BY <1>1, <1>2 DEF AgentsTyped
<1>4. ChunksTyped
  BY <1>1 DEF ChunksTyped, CountType
<1>5. Gathered
  BY <1>1 DEF Gathered, TelegrafStage, Early, DecodedIsPublished
<1>6. Counts(criterion, published)
  <2>1. Limit \in Nat \ {0}
    BY MonitoringAssumption DEF MonitoringAssumption
  <2>2. Len(published) = 0 /\ Watches(published) = {} /\ Since(published, 0) = {}
    BY <1>1 DEF Watches, Since
  <2>3. ~Triggers(published)
    BY <2>2 DEF Triggers
  <2>4. Cardinality(Since(published, 0)) = 0
    <3>1. Cardinality({}) = 0
      BY FS_EmptySet
    <3> QED BY <2>2, <3>1, Zenon
  <2>5. CountIs(criterion, published, 0)
    BY <1>1, <2>1, <2>2, <2>4 DEF CountIs
  <2> QED BY <1>1, <2>3, <2>5 DEF Counts
<1> QED BY <1>3, <1>4, <1>5, <1>6 DEF TelegrafIs

\* With Telegraf, nothing of the panels' changes what it is.
LEMMA OnlyTelegraf ==
    ASSUME opt.telegraf, Gathered, [MonitoringNext]_monitoringVars
    PROVE  /\ opt' = opt
           /\ \/ TelegrafStages \/ WaitPolls \/ Poll
              \/ \E a \in DOMAIN ag : (AgentStep(a) \/ Environment(a)) /\ UNCHANGED <<stage, collector, published, criterion>>
              \/ UNCHANGED <<stage, telegraf, published, criterion>>
<1>1. ~PanelsStages
  BY DEF Gathered, TelegrafStage, PanelsStages, PanelsStart, PanelsPoll, PanelsStop, PanelsJoined
<1> QED BY <1>1 DEF MonitoringNext, Works, Agents, Targets, Polls, monitoringVars, telegraf

\* What the tank has of the agents' seconds, and what the criterion counted of
\* it, is what the state of the collector says.
THEOREM TelegrafInductive == MonitoringSpec => []TelegrafInv
<1>1. TelegrafInv /\ [MonitoringNext]_monitoringVars => TelegrafInv'
  <2> SUFFICES ASSUME TelegrafInv, [MonitoringNext]_monitoringVars, opt'.telegraf PROVE TelegrafIs'
    BY DEF TelegrafInv
  <2>1. opt' = opt
    BY DEF MonitoringNext, Works, Agents, Targets, PanelThreads, World, monitoringVars
  <2>2. opt.telegraf /\ TelegrafIs
    BY <2>1 DEF TelegrafInv
  <2>3. CASE TelegrafStages \/ WaitPolls \/ Poll
    BY <2>1, <2>2, <2>3, StagesGather, GiveRestGathers, PollGathers
  <2>4. CASE UNCHANGED <<stage, collector, published, criterion>> /\ AgentsTyped'
    <3>1. Counts(criterion, published)'
      BY <2>1, <2>2, <2>4, CountsStay DEF TelegrafIs
    <3> QED BY <2>2, <2>4, <3>1 DEF TelegrafIs, ChunksTyped, Gathered, DecodedIsPublished, collector
  <2>5. CASE \E a \in DOMAIN ag : (AgentStep(a) \/ Environment(a)) /\ UNCHANGED <<stage, collector, published, criterion>>
    <3>1. PICK a \in ToSet(Hosts) : AgentStep(a) \/ Environment(a)
      BY <2>2, <2>5 DEF TelegrafIs, AgentsTyped
    <3>2. AgentsTyped'
      BY <2>1, <2>2, <3>1, AgentTyped DEF TelegrafIs
    <3> QED BY <2>4, <2>5, <3>2
  <2>6. CASE UNCHANGED <<stage, telegraf, published, criterion>>
    <3>1. ag' = ag /\ UNCHANGED <<stage, collector, published, criterion>>
      BY <2>6 DEF telegraf
    <3>2. AgentsTyped'
      BY <2>1, <2>2, <3>1 DEF TelegrafIs, AgentsTyped, LinesOf
    <3> QED BY <2>4, <3>1, <3>2
  <2> QED BY <2>2, <2>3, <2>5, <2>6, OnlyTelegraf DEF TelegrafIs
<1> QED BY <1>1, TelegrafBegins, PTL DEF MonitoringSpec

\* The criterion has triggered exactly when as many published seconds of its
\* host in a row were over the limit.
THEOREM TriggersAsSaid == MonitoringSpec => []TriggersExactly
<1>1. TelegrafInv => TriggersExactly
  <2> SUFFICES ASSUME TelegrafInv, opt.telegraf
               PROVE  criterion.triggered <=>
                       \E i, j \in Of(Watched) : i <= j /\ Triggering(Of(Watched) \cap i..j)
    BY DEF TriggersExactly
  <2>1. criterion.triggered <=> Triggers(published)
    BY DEF TelegrafInv, TelegrafIs, Counts
  <2>2. Of(Watched) = Watches(published)
    BY LenProperties DEF TelegrafInv, TelegrafIs, ChunksTyped, Of, Watches
  <2> QED BY <2>1, <2>2 DEF Triggers, Row, Triggering
<1> QED BY <1>1, TelegrafInductive, PTL

-----------------------------------------------------------------------------
(***************************************************************************)
(* The seconds of a target whose lines are late by a second at most        *)
(***************************************************************************)

Gentle == opt.telegraf /\ opt.late <= 1 /\ opt.trash = {}

\* Seconds that follow t one by one, each with its counter.
Follows(s, t) == \A j \in 1..Len(s) : s[j].ts = t + j /\ "net" \in s[j].keys

\* The last second of the first i blocks in the queue, or of what was decoded.
LastOf(r, i) == IF i = 0 THEN r.prev.ts ELSE r.queue[i][Len(r.queue[i])].ts

\* What the agent gave out is on its way to the tank, second by second.
OnTheWay(r) ==
    /\ \A i \in 1..Len(r.queue) : Len(r.queue[i]) # 0 /\ Follows(r.queue[i], LastOf(r, i - 1))
    /\ Follows(r.pipe, LastOf(r, Len(r.queue)))
    /\ r.prev.ts = 0 => r.prev = NoCheck
    /\ r.prev.ts # 0 => "net" \in r.prev.keys

GivenOut(r) == LastOf(r, Len(r.queue)) + Len(r.pipe)

\* Until it is told to stop, the agent caches what comes after the seconds it
\* gave out, and two of them at least; telegraf is late by a second at most.
CachedIs(r) ==
    r.state \in {"off", "run"} =>
      /\ r.cache \cup r.fresh = {l \in r.written : l[1] > GivenOut(r)}
      /\ GivenOut(r) # 0 => \E l \in r.written : l[1] >= GivenOut(r) + 2
      /\ \A l \in r.written : \A u \in 1..(l[1] - opt.late - 1) : <<u, "net">> \in r.written

\* The chunks of an agent in s: in order, from low to top, none left out after
\* the first, and each with the growth of a second.
PlacesOf(s, a) == {k \in 1..Len(s) : s[k].host = a}
Runs(s, a, low, top) ==
    /\ \A i, j \in PlacesOf(s, a) : i < j => s[i].ts < s[j].ts
    /\ \A i \in PlacesOf(s, a) :
          /\ s[i].ts \in 1..top /\ s[i].ts >= low
          /\ s[i].ts # 1 => s[i].net = 1
          /\ \A t \in s[i].ts..top : \E k \in PlacesOf(s, a) : s[k].ts = t

InSteps ==
    /\ \A a \in ToSet(Hosts) :
          OnTheWay(ag[a]) /\ CachedIs(ag[a]) /\ Runs(published, a, opt.start, ag[a].prev.ts)
    /\ stage \in Early => \A a \in ToSet(Hosts) : ag[a].state \in {"off", "run"}
    /\ collected = << >>
    /\ \A i, j \in 1..Len(agents) : agents[i] = agents[j] => i = j
StepsInv == Gentle => InSteps

\* Chunks that go on where those before them ended.
LEMMA RunsOn ==
    ASSUME NEW a, NEW s \in Seq(Chunk), NEW g \in Seq(Chunk), NEW low \in Nat, NEW k0 \in Nat, NEW k1 \in Nat, k0 <= k1,
           Runs(s, a, low, k0), Runs(g, a, low, k1),
           \A i \in PlacesOf(g, a) : g[i].ts > k0,
           PlacesOf(s, a) # {} => \A t \in (k0 + 1)..k1 : \E i \in PlacesOf(g, a) : g[i].ts = t
    PROVE  Runs(s \o g, a, low, k1)
<1> DEFINE c == s \o g
           n == Len(s)
<1>1. n \in Nat /\ Len(g) \in Nat /\ (\A i \in 1..n : s[i] \in Chunk) /\ (\A i \in 1..Len(g) : g[i] \in Chunk)
  BY LenProperties
<1>2. c \in Seq(Chunk) /\ Len(c) = n + Len(g) /\ \A i \in 1..(n + Len(g)) : c[i] = IF i <= n THEN s[i] ELSE g[i - n]
  BY ConcatProperties
<1> HIDE DEF c
<1> HIDE DEF n
<1>3. ASSUME NEW i \in PlacesOf(s, a) PROVE i \in PlacesOf(c, a) /\ c[i] = s[i] /\ i \in 1..n /\ s[i].ts \in Nat
  <2>1. i \in 1..n /\ s[i].host = a
    BY DEF PlacesOf, n
  <2>2. c[i] = s[i] /\ i \in 1..Len(c) /\ s[i] \in Chunk
    BY <1>1, <1>2, <2>1
  <2>3. s[i].ts \in Nat
    BY <2>2 DEF Chunk
  <2> QED BY <2>1, <2>2, <2>3 DEF PlacesOf
<1>4. ASSUME NEW i \in PlacesOf(g, a) PROVE n + i \in PlacesOf(c, a) /\ c[n + i] = g[i] /\ i \in 1..Len(g) /\ g[i].ts \in Nat
  <2>1. i \in 1..Len(g) /\ g[i].host = a /\ g[i] \in Chunk
    BY <1>1 DEF PlacesOf
  <2>2. n + i \in 1..(n + Len(g)) /\ ~(n + i <= n) /\ n + i - n = i
    BY <1>1, <2>1
  <2>3. c[n + i] = g[i] /\ n + i \in 1..Len(c)
    BY <1>1, <1>2, <2>1, <2>2
  <2>4. g[i].ts \in Nat
    BY <2>1 DEF Chunk
  <2> QED BY <2>1, <2>3, <2>4 DEF PlacesOf
<1>5. ASSUME NEW i \in PlacesOf(c, a)
      PROVE  \/ i \in PlacesOf(s, a) /\ i <= n
             \/ i - n \in PlacesOf(g, a) /\ c[i] = g[i - n] /\ i > n
  <2>1. i \in 1..(n + Len(g)) /\ c[i].host = a
    BY <1>2 DEF PlacesOf
  <2>2. CASE i <= n
    <3>1. c[i] = s[i] /\ i \in 1..n
      BY <1>1, <1>2, <2>1, <2>2
    <3> QED BY <2>1, <2>2, <3>1 DEF PlacesOf, n
  <2>3. CASE i > n
    <3>1. c[i] = g[i - n] /\ i - n \in 1..Len(g)
      BY <1>1, <1>2, <2>1, <2>3
    <3> QED BY <2>1, <2>3, <3>1 DEF PlacesOf
  <2>4. i \in Int /\ n \in Int
    BY <1>1, <2>1
  <2> QED BY <2>2, <2>3, <2>4
<1>0. ASSUME NEW i \in PlacesOf(c, a) PROVE i \in Nat
  BY <1>1, <1>2 DEF PlacesOf
<1>6. ASSUME NEW i \in PlacesOf(c, a), NEW j \in PlacesOf(c, a), i < j PROVE c[i].ts < c[j].ts
  <2>0. i \in Nat /\ j \in Nat
    BY <1>0
  <2>1. CASE i <= n /\ j <= n
    <3>1. i \in PlacesOf(s, a) /\ j \in PlacesOf(s, a)
      BY <1>1, <1>5, <2>0, <2>1
    <3> QED BY <1>3, <1>6, <3>1 DEF Runs
  <2>2. CASE i <= n /\ j > n
    <3>1. i \in PlacesOf(s, a) /\ j - n \in PlacesOf(g, a) /\ c[j] = g[j - n]
      BY <1>1, <1>5, <2>0, <2>2
    <3>2. c[i] = s[i] /\ s[i].ts \in 1..k0 /\ c[j].ts > k0 /\ c[j].ts \in Nat
      BY <1>3, <1>4, <3>1 DEF Runs
    <3> QED BY <3>2
  <2>3. CASE i > n /\ j > n
    <3>1. i - n \in PlacesOf(g, a) /\ j - n \in PlacesOf(g, a) /\ c[i] = g[i - n] /\ c[j] = g[j - n] /\ i - n < j - n
      BY <1>1, <1>5, <1>6, <2>0, <2>3
    <3> QED BY <3>1 DEF Runs
  <2> QED BY <1>1, <1>6, <2>0, <2>1, <2>2, <2>3
<1>7. ASSUME NEW i \in PlacesOf(c, a)
      PROVE  /\ c[i].ts \in 1..k1 /\ c[i].ts >= low
             /\ c[i].ts # 1 => c[i].net = 1
             /\ \A t \in c[i].ts..k1 : \E k \in PlacesOf(c, a) : c[k].ts = t
  <2>1. CASE i \in PlacesOf(s, a)
    <3>1. c[i] = s[i] /\ s[i].ts \in 1..k0 /\ s[i].ts >= low /\ (s[i].ts # 1 => s[i].net = 1)
      BY <1>3, <2>1 DEF Runs
    <3>2. ASSUME NEW t \in s[i].ts..k1 PROVE \E k \in PlacesOf(c, a) : c[k].ts = t
      <4>1. CASE t <= k0
        <5>1. t \in s[i].ts..k0
          BY <3>1, <3>2, <4>1
        <5>2. PICK k \in PlacesOf(s, a) : s[k].ts = t
          BY <2>1, <5>1 DEF Runs
        <5> QED BY <1>3, <5>2
      <4>2. CASE t > k0
        <5>1. t \in (k0 + 1)..k1
          BY <3>1, <3>2, <4>2
        <5>2. PICK k \in PlacesOf(g, a) : g[k].ts = t
          BY <2>1, <5>1
        <5> QED BY <1>4, <5>2
      <4> QED BY <3>1, <3>2, <4>1, <4>2
    <3> QED BY <3>1, <3>2
  <2>2. CASE i - n \in PlacesOf(g, a) /\ c[i] = g[i - n]
    <3>1. /\ c[i].ts \in 1..k1 /\ c[i].ts >= low /\ (c[i].ts # 1 => c[i].net = 1)
          /\ \A t \in c[i].ts..k1 : \E k \in PlacesOf(g, a) : g[k].ts = t
      BY <2>2 DEF Runs
    <3>2. ASSUME NEW t \in c[i].ts..k1 PROVE \E k \in PlacesOf(c, a) : c[k].ts = t
      <4>1. PICK k \in PlacesOf(g, a) : g[k].ts = t
        BY <3>1, <3>2
      <4> QED BY <1>4, <4>1
    <3> QED BY <3>1, <3>2
  <2> QED BY <1>5, <2>1, <2>2
<1> QED BY <1>6, <1>7 DEF Runs, c, n

\* What the tank has got of an agent since it had decoded k0.
GotAll(g, a, k0, k1) ==
    /\ k0 <= k1 /\ Runs(g, a, k0 + 1, k1)
    /\ \A t \in (k0 + 1)..k1 : \E i \in PlacesOf(g, a) : g[i].ts = t

\* The seconds of a block that follow those decoded.
LEMMA BlockDecoded ==
    ASSUME NEW a \in ToSet(Hosts), NEW prev \in Sec, NEW block \in Seq(Sec), Follows(block, prev.ts), Len(block) # 0,
           prev.ts = 0 => prev = NoCheck, prev.ts # 0 => "net" \in prev.keys
    PROVE  /\ Good(block) = block /\ PrevCheck(prev, block) = block[Len(block)]
           /\ block[Len(block)].ts = prev.ts + Len(block)
           /\ GotAll(Decode(a, prev, block), a, prev.ts, prev.ts + Len(block))
           /\ \A b : b # a => PlacesOf(Decode(a, prev, block), b) = {}
<1> DEFINE n == Len(block)
           g == Decode(a, prev, block)
           Net(i) == Diff(PrevOf(prev, block, i), block[i])
<1>1. n \in Nat /\ n \in 1..n /\ prev.ts \in Nat /\ \A i \in 1..n : block[i] \in Sec
  <2>1. n \in Nat /\ \A i \in 1..n : block[i] \in Sec
    BY LenProperties
  <2>2. prev.ts \in Nat
    BY DEF Sec
  <2> QED BY <2>1, <2>2
<1>2. \A i \in 1..n : block[i].ts = prev.ts + i /\ "net" \in block[i].keys /\ block[i] # Trash
  BY DEF Follows, Trash
<1>3. Good(block) = block
  BY <1>2, GoodIs
<1>4. PrevCheck(prev, block) = block[n]
  <2>1. block # << >>
    BY EmptySeq
  <2> QED BY <1>3, <2>1 DEF PrevCheck, Last
<1>5. g = [i \in 1..n |-> [host |-> a, ts |-> block[i].ts, keys |-> block[i].keys \ {"net"}, net |-> Net(i)]]
  BY <1>3 DEF Decode
<1>6. ASSUME NEW i \in 1..n, prev.ts + i # 1 PROVE Net(i) = 1
  <2>1. CASE i = 1
    <3>1. prev.ts # 0 /\ prev # NoCheck /\ "net" \in prev.keys
      BY <1>1, <1>6, <2>1 DEF NoCheck, Trash
    <3>2. block[1].ts = prev.ts + 1 /\ "net" \in block[1].keys
      BY <1>2, <2>1
    <3> QED BY <1>1, <2>1, <3>1, <3>2 DEF PrevOf, Diff
  <2>2. CASE i # 1
    <3>1. i - 1 \in 1..n
      BY <1>1, <2>2
    <3>2. block[i - 1] # NoCheck /\ "net" \in block[i - 1].keys /\ block[i - 1].ts = prev.ts + (i - 1)
      BY <1>2, <3>1 DEF NoCheck
    <3>3. block[i].ts - block[i - 1].ts = 1
      BY <1>1, <1>2, <3>1
    <3> QED BY <1>2, <2>2, <3>2, <3>3 DEF PrevOf, Diff
  <2> QED BY <2>1, <2>2
<1> HIDE DEF Net
<1>7. Len(g) = n /\ \A i \in 1..n : g[i].host = a /\ g[i].ts = prev.ts + i /\ g[i].net = Net(i)
  BY <1>1, <1>2, <1>5
<1> HIDE DEF g
<1>8. PlacesOf(g, a) = 1..n /\ \A b : b # a => PlacesOf(g, b) = {}
  BY <1>7 DEF PlacesOf
<1>9. \A t \in (prev.ts + 1)..(prev.ts + n) : \E i \in 1..n : g[i].ts = t
  <2> SUFFICES ASSUME NEW t \in (prev.ts + 1)..(prev.ts + n) PROVE \E i \in 1..n : g[i].ts = t
    OBVIOUS
  <2>1. t - prev.ts \in 1..n /\ prev.ts + (t - prev.ts) = t
    BY <1>1
  <2> QED BY <1>7, <2>1
<1>10. Runs(g, a, prev.ts + 1, prev.ts + n)
  <2>1. \A i, j \in 1..n : i < j => g[i].ts < g[j].ts
    BY <1>1, <1>7
  <2>2. ASSUME NEW i \in 1..n
        PROVE  /\ g[i].ts \in 1..(prev.ts + n) /\ g[i].ts >= prev.ts + 1
               /\ g[i].ts # 1 => g[i].net = 1
               /\ \A t \in g[i].ts..(prev.ts + n) : \E k \in 1..n : g[k].ts = t
    <3>1. g[i].ts = prev.ts + i
      BY <1>7
    <3>2. \A t \in g[i].ts..(prev.ts + n) : t \in (prev.ts + 1)..(prev.ts + n)
      BY <1>1, <3>1
    <3> QED BY <1>1, <1>6, <1>7, <1>9, <3>1, <3>2
  <2> QED BY <1>8, <2>1, <2>2 DEF Runs
<1>11. GotAll(g, a, prev.ts, prev.ts + n)
  BY <1>1, <1>8, <1>9, <1>10 DEF GotAll
<1> QED BY <1>1, <1>2, <1>3, <1>4, <1>8, <1>11 DEF g

\* A block that is taken from the queue.
LEMMA BlockTaken ==
    ASSUME NEW r \in AgentType, NEW q \in AgentType, OnTheWay(r), Len(r.queue) # 0,
           q.queue = SubSeq(r.queue, 2, Len(r.queue)), q.pipe = r.pipe, q.prev = PrevCheck(r.prev, r.queue[1])
    PROVE  /\ OnTheWay(q) /\ GivenOut(q) = GivenOut(r)
           /\ q.prev = r.queue[1][Len(r.queue[1])] /\ q.prev.ts = r.prev.ts + Len(r.queue[1])
           /\ Len(q.queue) = Len(r.queue) - 1 /\ \A i \in 1..Len(q.queue) : q.queue[i] = r.queue[i + 1]
<1> DEFINE n == Len(r.queue)
           block == r.queue[1]
<1>1. /\ r.queue \in Seq(Seq(Sec)) /\ n \in Nat /\ r.prev \in Sec /\ r.prev.ts \in Nat
      /\ \A i \in 1..n : r.queue[i] \in Seq(Sec)
  <2>1. r.queue \in Seq(Seq(Sec)) /\ r.prev \in Sec
    BY DEF AgentType
  <2>2. n \in Nat /\ \A i \in 1..n : r.queue[i] \in Seq(Sec)
    BY <2>1, LenProperties
  <2>3. r.prev.ts \in Nat
    BY <2>1 DEF Sec
  <2> QED BY <2>1, <2>2, <2>3
<1>2. Len(q.queue) = n - 1 /\ \A i \in 1..(n - 1) : q.queue[i] = r.queue[i + 1]
  <2>1. \A i \in 2..n : r.queue[i] \in Seq(Sec)
    BY <1>1
  <2>2. Len(SubSeq(r.queue, 2, n)) = n - 1 /\ \A i \in 1..(n - 1) : SubSeq(r.queue, 2, n)[i] = r.queue[2 + i - 1]
    BY <1>1, <2>1, SubSeqProperties
  <2>3. \A i \in 1..(n - 1) : 2 + i - 1 = i + 1
    BY <1>1
  <2> HIDE DEF n
  <2> QED BY <2>2, <2>3 DEF n
<1>3. /\ 1 \in 1..n /\ block \in Seq(Sec) /\ Len(block) # 0 /\ Follows(block, r.prev.ts)
      /\ r.prev.ts = 0 => r.prev = NoCheck
      /\ r.prev.ts # 0 => "net" \in r.prev.keys
  BY <1>1 DEF OnTheWay, LastOf
<1>5. Len(block) \in Nat /\ Len(block) \in 1..Len(block)
  <2>1. Len(block) \in Nat
    BY <1>3, LenProperties
  <2> QED BY <1>3, <2>1
<1>6. q.prev = block[Len(block)] /\ q.prev.ts = r.prev.ts + Len(block) /\ "net" \in q.prev.keys
  <2>1. \A i \in 1..Len(block) : block[i] # Trash
    BY <1>1, <1>3, <1>5 DEF Follows, Trash
  <2>2. Good(block) = block /\ block # << >>
    BY <1>3, <2>1, GoodIs, EmptySeq
  <2>3. q.prev = block[Len(block)]
    BY <2>2 DEF PrevCheck, Last
  <2> QED BY <1>3, <1>5, <2>3 DEF Follows
<1>7. ASSUME NEW i \in 0..(n - 1) PROVE LastOf(q, i) = LastOf(r, i + 1)
  <2>1. CASE i = 0
    BY <1>6, <2>1 DEF LastOf
  <2>2. CASE i # 0
    <3>1. i \in 1..(n - 1) /\ i + 1 # 0
      BY <1>1, <2>2
    <3> QED BY <1>2, <2>2, <3>1 DEF LastOf
  <2> QED BY <2>1, <2>2
<1>8. n - 1 \in 0..(n - 1) /\ LastOf(q, n - 1) = LastOf(r, n)
  <2>1. n - 1 \in 0..(n - 1) /\ n - 1 + 1 = n
    BY <1>1
  <2> HIDE DEF n
  <2> QED BY <1>7, <2>1
<1>9. OnTheWay(q)
  <2>1. ASSUME NEW i \in 1..(n - 1) PROVE Len(q.queue[i]) # 0 /\ Follows(q.queue[i], LastOf(q, i - 1))
    <3>0. n \in Nat /\ i \in Int
      BY <1>1
    <3> HIDE DEF n
    <3>1. i - 1 \in 0..(n - 1) /\ i - 1 + 1 = i /\ i + 1 \in 1..n /\ i + 1 - 1 = i
      BY <3>0
    <3>2. LastOf(q, i - 1) = LastOf(r, i)
      BY <1>7, <3>1
    <3>3. Len(r.queue[i + 1]) # 0 /\ Follows(r.queue[i + 1], LastOf(r, i + 1 - 1))
      BY <3>1 DEF OnTheWay, n
    <3> QED BY <1>2, <3>1, <3>2, <3>3
  <2>2. Follows(q.pipe, LastOf(q, n - 1))
    BY <1>8 DEF OnTheWay
  <2>3. q.prev.ts # 0
    BY <1>1, <1>5, <1>6
  <2> HIDE DEF n
  <2> QED BY <1>2, <1>6, <2>1, <2>2, <2>3 DEF OnTheWay
<1>10. GivenOut(q) = GivenOut(r)
  BY <1>2, <1>8 DEF GivenOut
<1> QED BY <1>2, <1>6, <1>9, <1>10

\* The poll has got all that was on the way of what it took.
GotEach(p) ==
    /\ ~p.trash
    /\ \A b \in ToSet(Hosts) : /\ OnTheWay(p.ag[b]) /\ GivenOut(p.ag[b]) = GivenOut(ag[b])
                               /\ GotAll(p.got, b, ag[b].prev.ts, p.ag[b].prev.ts)

LEMMA GotWith ==
    ASSUME NEW b, NEW s \in Seq(Chunk), NEW g \in Seq(Chunk), NEW k0 \in Nat, NEW k \in Nat, NEW k1 \in Nat,
           GotAll(s, b, k0, k), GotAll(g, b, k, k1)
    PROVE  GotAll(s \o g, b, k0, k1)
<1> DEFINE c == s \o g
<1>1. Runs(s, b, k0 + 1, k) /\ Runs(g, b, k + 1, k1) /\ k0 <= k /\ k <= k1 /\ k0 + 1 \in Nat
  BY DEF GotAll
<1>2. ASSUME NEW i \in PlacesOf(g, b) PROVE g[i].ts > k /\ g[i].ts >= k0 + 1
  <2>1. g[i].ts \in 1..k1 /\ g[i].ts >= k + 1
    BY <1>1 DEF Runs
  <2> QED BY <1>1, <2>1
<1>3. Runs(g, b, k0 + 1, k1)
  BY <1>1, <1>2 DEF Runs
<1>4. Runs(c, b, k0 + 1, k1)
  <2>1. \A t \in (k + 1)..k1 : \E i \in PlacesOf(g, b) : g[i].ts = t
    BY DEF GotAll
  <2>2. \A i \in PlacesOf(g, b) : g[i].ts > k
    BY <1>2
  <2> QED BY <1>1, <1>3, <2>1, <2>2, RunsOn
<1> SUFFICES GotAll(c, b, k0, k1)
  OBVIOUS
<1>5. ASSUME NEW t \in (k0 + 1)..k1 PROVE \E i \in PlacesOf(c, b) : c[i].ts = t
  <2>1. Len(s) \in Nat /\ Len(g) \in Nat
    BY LenProperties
  <2>2. Len(s \o g) = Len(s) + Len(g) /\ \A i \in 1..(Len(s) + Len(g)) : (s \o g)[i] = IF i <= Len(s) THEN s[i] ELSE g[i - Len(s)]
    BY ConcatProperties
  <2> HIDE DEF c
  <2>5. t \in Int
    OBVIOUS
  <2>3. CASE t <= k
    <3>1. t \in (k0 + 1)..k
      BY <1>1, <2>3
    <3>2. PICK i \in PlacesOf(s, b) : s[i].ts = t
      BY <3>1 DEF GotAll
    <3>3. i \in 1..Len(s) /\ i \in 1..(Len(s) + Len(g)) /\ i <= Len(s)
      BY <2>1 DEF PlacesOf
    <3>4. c[i] = s[i] /\ s[i].host = b /\ i \in 1..Len(c)
      BY <2>2, <3>3 DEF PlacesOf, c
    <3> QED BY <3>2, <3>4 DEF PlacesOf
  <2>4. CASE t > k
    <3>1. t \in (k + 1)..k1
      BY <1>1, <2>4
    <3>2. PICK i \in PlacesOf(g, b) : g[i].ts = t
      BY <3>1 DEF GotAll
    <3>3. i \in 1..Len(g) /\ Len(s) + i \in 1..(Len(s) + Len(g)) /\ ~(Len(s) + i <= Len(s)) /\ Len(s) + i - Len(s) = i
      BY <2>1 DEF PlacesOf
    <3>4. c[Len(s) + i] = g[i] /\ g[i].host = b /\ Len(s) + i \in 1..Len(c)
      BY <2>2, <3>3 DEF PlacesOf, c
    <3> QED BY <3>2, <3>4 DEF PlacesOf
  <2> QED BY <2>3, <2>4, <2>5
<1> HIDE DEF c
<1> QED BY <1>1, <1>4, <1>5 DEF GotAll

LEMMA NoneGot ==
    ASSUME NEW b, NEW g, PlacesOf(g, b) = {}, NEW k \in Nat
    PROVE  GotAll(g, b, k, k)
<1>1. \A t \in (k + 1)..k : FALSE
  OBVIOUS
<1> QED BY <1>1 DEF GotAll, Runs

LEMMA TakesOne ==
    ASSUME AgentsTyped, NEW p \in PollStates, GotEach(p), NEW a \in ToSet(Hosts), Len(p.ag[a].queue) # 0,
           NEW q, q = TakeBlock(p, a, p.ag[a].queue[1])
    PROVE  /\ GotEach(q) /\ \A b \in ToSet(Hosts) : b # a => q.ag[b] = p.ag[b]
           /\ Len(q.ag[a].queue) = Len(p.ag[a].queue) - 1
           /\ \A i \in 1..Len(q.ag[a].queue) : q.ag[a].queue[i] = p.ag[a].queue[i + 1]
<1> DEFINE r == p.ag[a]
           block == r.queue[1]
           g == Decode(a, r.prev, block)
<1>1. /\ p.ag \in [ToSet(Hosts) -> AgentType] /\ p.got \in Seq(Chunk) /\ r \in AgentType /\ r.prev \in Sec
      /\ r.queue \in Seq(Seq(Sec)) /\ ag \in [ToSet(Hosts) -> AgentType]
  BY DEF PollStates, PollType, AgentType, AgentsTyped
<1>2. OnTheWay(r) /\ ~p.trash
  BY DEF GotEach
<1>3. Len(r.queue) \in Nat /\ 1 \in 1..Len(r.queue) /\ block \in Seq(Sec)
  <2>1. Len(r.queue) \in Nat
    BY <1>1, LenProperties
  <2>2. 1 \in 1..Len(r.queue)
    BY <2>1
  <2> QED BY <1>1, <2>1, <2>2, LenProperties
<1>4. /\ Len(block) # 0 /\ Follows(block, r.prev.ts)
      /\ r.prev.ts = 0 => r.prev = NoCheck
      /\ r.prev.ts # 0 => "net" \in r.prev.keys
  BY <1>2, <1>3 DEF OnTheWay, LastOf
<1>5. /\ Good(block) = block
      /\ GotAll(g, a, r.prev.ts, r.prev.ts + Len(block)) /\ \A b : b # a => PlacesOf(g, b) = {}
  <2> HIDE DEF r
  <2> QED BY <1>1, <1>3, <1>4, BlockDecoded
<1>6. g \in Seq(Chunk)
  BY <1>1, <1>3, DecodeTyped
<1>7. /\ q.ag = [p.ag EXCEPT ![a].queue = SubSeq(@, 2, Len(@)), ![a].prev = PrevCheck(@, block)]
      /\ q.got = p.got \o g /\ q.trash = FALSE
  BY <1>2, <1>5 DEF TakeBlock
<1> HIDE DEF g
<1>8. q \in PollStates
  BY <1>3, TakeBlockTyped
<1>9. q.ag[a].queue = SubSeq(r.queue, 2, Len(r.queue)) /\ q.ag[a].pipe = r.pipe /\ q.ag[a].prev = PrevCheck(r.prev, block)
      /\ q.ag[a] \in AgentType
  <2>1. q.ag[a] \in AgentType
    BY <1>8 DEF PollStates, PollType
  <2> HIDE DEF block
  <2> QED BY <1>1, <1>7, <2>1 DEF AgentType
<1>10. \A b \in ToSet(Hosts) : b # a => q.ag[b] = p.ag[b]
  BY <1>1, <1>7
<1>11. /\ OnTheWay(q.ag[a]) /\ GivenOut(q.ag[a]) = GivenOut(r)
       /\ q.ag[a].prev.ts = r.prev.ts + Len(block)
       /\ Len(q.ag[a].queue) = Len(r.queue) - 1 /\ \A i \in 1..Len(q.ag[a].queue) : q.ag[a].queue[i] = r.queue[i + 1]
  <2> HIDE DEF r
  <2> QED BY <1>1, <1>2, <1>9, BlockTaken DEF r
<1>12. \A b \in ToSet(Hosts) : ag[b].prev.ts \in Nat /\ p.ag[b].prev.ts \in Nat /\ q.ag[b].prev.ts \in Nat
  <2>1. \A x \in AgentType : x.prev.ts \in Nat
    BY DEF AgentType, Sec
  <2>2. q.ag \in [ToSet(Hosts) -> AgentType]
    BY <1>8 DEF PollStates, PollType
  <2> QED BY <1>1, <2>1, <2>2
<1>13. ASSUME NEW b \in ToSet(Hosts)
       PROVE  /\ OnTheWay(q.ag[b]) /\ GivenOut(q.ag[b]) = GivenOut(ag[b])
              /\ GotAll(q.got, b, ag[b].prev.ts, q.ag[b].prev.ts)
  <2>1. GotAll(p.got, b, ag[b].prev.ts, p.ag[b].prev.ts) /\ OnTheWay(p.ag[b]) /\ GivenOut(p.ag[b]) = GivenOut(ag[b])
    BY DEF GotEach
  <2>2. GotAll(g, b, p.ag[b].prev.ts, q.ag[b].prev.ts)
    <3>1. CASE b = a
      BY <1>5, <1>11, <3>1
    <3>2. CASE b # a
      BY <1>5, <1>10, <1>12, <3>2, NoneGot
    <3> QED BY <3>1, <3>2
  <2>3. GotAll(p.got \o g, b, ag[b].prev.ts, q.ag[b].prev.ts)
    BY <1>1, <1>6, <1>12, <2>1, <2>2, GotWith
  <2>4. OnTheWay(q.ag[b]) /\ GivenOut(q.ag[b]) = GivenOut(ag[b])
    <3>1. CASE b = a
      BY <1>11, <2>1, <3>1
    <3>2. CASE b # a
      BY <1>10, <2>1, <3>2
    <3> QED BY <3>1, <3>2
  <2> QED BY <1>7, <2>3, <2>4
<1>14. GotEach(q)
  BY <1>7, <1>13 DEF GotEach
<1> QED BY <1>10, <1>11, <1>14

\* All the blocks of an agent's queue are taken.
LEMMA QueueTaken ==
    ASSUME AgentsTyped, NEW p \in PollStates, GotEach(p), NEW a \in ToSet(Hosts), p.ag[a].queue = ag[a].queue
    PROVE  GotEach(TakeQueue(p, a)) /\ \A b \in ToSet(Hosts) : b # a => TakeQueue(p, a).ag[b] = p.ag[b]
<1> DEFINE n == Len(ag[a].queue)
           queue == ag[a].queue
           Left(q, i) == /\ GotEach(q) /\ \A b \in ToSet(Hosts) : b # a => q.ag[b] = p.ag[b]
                         /\ Len(q.ag[a].queue) = n - i
                         /\ \A j \in 1..(n - i) : q.ag[a].queue[j] = queue[i + j]
<1>1. PICK f : BlocksTaken(f, p, a)
  BY TakeQueueGoes
<1>2. /\ f \in [0..n -> PollStates] /\ f[0] = p /\ f[n] = TakeQueue(p, a)
      /\ \A i \in 0..(n - 1) : f[i + 1] = TakeBlock(f[i], a, queue[i + 1])
  BY <1>1 DEF BlocksTaken
<1>3. n \in Nat
  <2>1. ag[a].queue \in Seq(Seq(Sec))
    BY DEF AgentsTyped, AgentType
  <2> QED BY <2>1, LenProperties
<1> HIDE DEF queue, n
<1> DEFINE P == {i \in Nat : i <= n => Left(f[i], i)}
<1>4. 0 \in P
  <2>1. Len(p.ag[a].queue) = n - 0 /\ \A j \in 1..(n - 0) : p.ag[a].queue[j] = queue[0 + j]
    <3>1. \A j \in 1..n : 0 + j = j
      BY <1>3
    <3> QED BY <1>3, <3>1 DEF queue, n
  <2> QED BY <1>2, <2>1
<1>5. ASSUME NEW i \in Nat, i \in P PROVE i + 1 \in P
  <2>1. CASE i + 1 <= n
    <3>1. i \in 0..n /\ i \in 0..(n - 1) /\ i <= n /\ 1 \in 1..(n - i) /\ n - i # 0 /\ i + 1 \in 0..n
      BY <1>3, <2>1
    <3>2. f[i] \in PollStates /\ Left(f[i], i)
      BY <1>2, <1>5, <3>1
    <3>3. f[i].ag[a].queue[1] = queue[i + 1] /\ Len(f[i].ag[a].queue) # 0 /\ GotEach(f[i])
      BY <3>1, <3>2
    <3>4. f[i + 1] = TakeBlock(f[i], a, f[i].ag[a].queue[1])
      BY <1>2, <3>1, <3>3
    <3>5. /\ GotEach(f[i + 1]) /\ \A b \in ToSet(Hosts) : b # a => f[i + 1].ag[b] = f[i].ag[b]
          /\ Len(f[i + 1].ag[a].queue) = Len(f[i].ag[a].queue) - 1
          /\ \A j \in 1..Len(f[i + 1].ag[a].queue) : f[i + 1].ag[a].queue[j] = f[i].ag[a].queue[j + 1]
      <4> DEFINE u == f[i]
                 v == f[i + 1]
      <4>1. u \in PollStates /\ GotEach(u) /\ Len(u.ag[a].queue) # 0 /\ v = TakeBlock(u, a, u.ag[a].queue[1])
        BY <3>2, <3>3, <3>4
      <4> HIDE DEF u, v
      <4>2. /\ GotEach(v) /\ \A b \in ToSet(Hosts) : b # a => v.ag[b] = u.ag[b]
            /\ Len(v.ag[a].queue) = Len(u.ag[a].queue) - 1
            /\ \A j \in 1..Len(v.ag[a].queue) : v.ag[a].queue[j] = u.ag[a].queue[j + 1]
        BY <4>1, TakesOne
      <4> QED BY <4>2 DEF u, v
    <3>6. n - (i + 1) = n - i - 1 /\ \A j \in 1..(n - (i + 1)) : j + 1 \in 1..(n - i) /\ i + (j + 1) = (i + 1) + j
      BY <1>3
    <3>7. Len(f[i + 1].ag[a].queue) = n - (i + 1)
      BY <3>2, <3>5, <3>6
    <3>8. \A j \in 1..(n - (i + 1)) : f[i + 1].ag[a].queue[j] = queue[(i + 1) + j]
      <4> SUFFICES ASSUME NEW j \in 1..(n - (i + 1)) PROVE f[i + 1].ag[a].queue[j] = queue[(i + 1) + j]
        OBVIOUS
      <4>1. f[i + 1].ag[a].queue[j] = f[i].ag[a].queue[j + 1]
        BY <3>5, <3>7
      <4>2. f[i].ag[a].queue[j + 1] = queue[i + (j + 1)]
        BY <3>2, <3>6
      <4> QED BY <3>6, <4>1, <4>2
    <3>9. \A b \in ToSet(Hosts) : b # a => f[i + 1].ag[b] = p.ag[b]
      BY <3>2, <3>5
    <3>10. Left(f[i + 1], i + 1)
      BY <3>5, <3>7, <3>8, <3>9
    <3> QED BY <3>10
  <2>2. CASE ~(i + 1 <= n)
    BY <2>2
  <2> QED BY <2>1, <2>2
<1> HIDE DEF P
<1>6. n \in P
  BY <1>3, <1>4, <1>5, NatSet
<1>7. Left(f[n], n)
  BY <1>3, <1>6 DEF P
<1> QED BY <1>2, <1>7

\* What a poll of agents of different hosts gets.
LEMMA PolledGets ==
    ASSUME AgentsTyped, agents \in Seq(ToSet(Hosts)), \A i, j \in 1..Len(agents) : agents[i] = agents[j] => i = j,
           \A a \in ToSet(Hosts) : OnTheWay(ag[a])
    PROVE  GotEach(Polled)
<1> DEFINE p == [ag |-> ag, got |-> << >>, trash |-> FALSE]
           n == Len(agents)
           Left(q, i) == GotEach(q) /\ \A j \in 1..n : j > i => q.ag[agents[j]] = ag[agents[j]]
<1>1. PICK f : AgentsTaken(f, p)
  BY PolledGoes
<1>2. /\ f \in [0..n -> PollStates] /\ f[0] = p /\ f[n] = Polled
      /\ \A i \in 0..(n - 1) : f[i + 1] = TakeQueue(f[i], agents[i + 1])
  BY <1>1 DEF AgentsTaken
<1>3. n \in Nat /\ \A i \in 1..n : agents[i] \in ToSet(Hosts)
  BY LenProperties
<1>4. GotEach(p)
  <2>1. \A b : PlacesOf(<< >>, b) = {}
    BY DEF PlacesOf
  <2>2. \A b \in ToSet(Hosts) : ag[b].prev.ts \in Nat
    BY DEF AgentsTyped, AgentType, Sec
  <2>3. \A b \in ToSet(Hosts) : GotAll(<< >>, b, ag[b].prev.ts, ag[b].prev.ts)
    BY <2>1, <2>2, NoneGot
  <2> QED BY <2>3 DEF GotEach
<1>5. p.ag = ag
  OBVIOUS
<1> HIDE DEF p
<1> DEFINE P == {i \in Nat : i <= n => Left(f[i], i)}
<1>6. 0 \in P
  BY <1>2, <1>4, <1>5
<1>7. ASSUME NEW i \in Nat, i \in P PROVE i + 1 \in P
  <2>1. CASE i + 1 <= n
    <3>1. i \in 0..n /\ i \in 0..(n - 1) /\ i <= n /\ i + 1 \in 1..n /\ i + 1 > i
      BY <1>3, <2>1
    <3>2. f[i] \in PollStates /\ Left(f[i], i) /\ agents[i + 1] \in ToSet(Hosts)
      BY <1>2, <1>3, <1>7, <3>1
    <3>3. f[i].ag[agents[i + 1]].queue = ag[agents[i + 1]].queue
      BY <3>1, <3>2
    <3>4. /\ GotEach(f[i + 1])
          /\ \A b \in ToSet(Hosts) : b # agents[i + 1] => f[i + 1].ag[b] = f[i].ag[b]
      BY <1>2, <3>1, <3>2, <3>3, QueueTaken
    <3>5. ASSUME NEW j \in 1..n, j > i + 1 PROVE f[i + 1].ag[agents[j]] = ag[agents[j]]
      <4>1. j # i + 1 /\ j > i
        BY <1>3, <3>5
      <4>2. agents[j] # agents[i + 1] /\ agents[j] \in ToSet(Hosts)
        BY <1>3, <3>1, <4>1
      <4> QED BY <3>2, <3>4, <4>1, <4>2
    <3> QED BY <3>4, <3>5
  <2>2. CASE ~(i + 1 <= n)
    BY <2>2
  <2> QED BY <2>1, <2>2
<1> HIDE DEF P
<1>8. n \in P
  BY <1>3, <1>6, <1>7, NatSet
<1>9. GotEach(f[n])
  BY <1>3, <1>8 DEF P
<1> QED BY <1>2, <1>9

\* Only the chunks since the start are published.
LEMMA RunsKept ==
    ASSUME NEW a \in ToSet(Hosts), NEW g \in Seq(Chunk), NEW k0 \in Nat, NEW k1 \in Nat, NEW start \in Nat,
           GotAll(g, a, k0, k1), NEW S, \A c \in ToSet(g) : c \in S <=> c.ts >= start,
           NEW kept, kept = Only(g, S)
    PROVE  /\ kept \in Seq(Chunk) /\ Runs(kept, a, start, k1)
           /\ \A i \in PlacesOf(kept, a) : kept[i].ts > k0
           /\ k0 >= start => \A t \in (k0 + 1)..k1 : \E i \in PlacesOf(kept, a) : kept[i].ts = t
<1> DEFINE m == Len(kept)
           n == Len(g)
<1>1. kept \in Seq(Chunk)
  BY OnlyKeeps
<1>0. PICK e : Keeps(e, kept, g, S, n)
  BY OnlyKeeps
<1>2. n \in Nat /\ (\A i \in 1..n : g[i] \in Chunk /\ g[i].ts \in Nat) /\ m \in Nat
  <2>1. n \in Nat /\ (\A i \in 1..n : g[i] \in Chunk) /\ m \in Nat
    BY <1>1, LenProperties
  <2> QED BY <2>1 DEF Chunk
<1> HIDE DEF m
<1>3. /\ \A i \in 1..m : e[i] \in 1..n
      /\ \A i, j \in 1..m : i < j => e[i] < e[j]
      /\ \A i \in 1..m : kept[i] = g[e[i]] /\ kept[i] \in S
      /\ \A j \in 1..n : g[j] \in S => \E i \in 1..m : e[i] = j
  BY <1>0 DEF Keeps, m
<1>4. ASSUME NEW j \in 1..n PROVE g[j] \in S <=> g[j].ts >= start
  BY LenProperties DEF ToSet
<1>5. ASSUME NEW i \in PlacesOf(kept, a)
      PROVE  i \in 1..m /\ e[i] \in PlacesOf(g, a) /\ kept[i] = g[e[i]] /\ g[e[i]].ts >= start
  <2>1. i \in 1..m /\ kept[i].host = a
    BY DEF PlacesOf, m
  <2>2. e[i] \in 1..n /\ kept[i] = g[e[i]] /\ g[e[i]] \in S
    BY <1>3, <2>1
  <2> QED BY <1>4, <2>1, <2>2 DEF PlacesOf
<1>6. ASSUME NEW j \in PlacesOf(g, a), g[j].ts >= start PROVE \E i \in PlacesOf(kept, a) : kept[i].ts = g[j].ts
  <2>1. j \in 1..n /\ g[j].host = a
    BY DEF PlacesOf
  <2>2. PICK i \in 1..m : e[i] = j
    BY <1>3, <1>4, <1>6, <2>1
  <2>3. kept[i] = g[j]
    BY <1>3, <2>2
  <2> QED BY <2>1, <2>2, <2>3 DEF PlacesOf, m
<1>7. /\ \A i, j \in PlacesOf(g, a) : i < j => g[i].ts < g[j].ts
      /\ \A i \in PlacesOf(g, a) :
          /\ g[i].ts \in 1..k1 /\ g[i].ts >= k0 + 1
          /\ g[i].ts # 1 => g[i].net = 1
          /\ \A t \in g[i].ts..k1 : \E k \in PlacesOf(g, a) : g[k].ts = t
      /\ \A t \in (k0 + 1)..k1 : \E i \in PlacesOf(g, a) : g[i].ts = t
  BY DEF GotAll, Runs
<1>8. ASSUME NEW i \in PlacesOf(kept, a), NEW j \in PlacesOf(kept, a), i < j PROVE kept[i].ts < kept[j].ts
  <2>1. e[i] < e[j]
    BY <1>3, <1>5, <1>8
  <2> QED BY <1>5, <1>7, <2>1
<1>9. ASSUME NEW i \in PlacesOf(kept, a)
      PROVE  /\ kept[i].ts \in 1..k1 /\ kept[i].ts >= start /\ kept[i].ts > k0
             /\ kept[i].ts # 1 => kept[i].net = 1
             /\ \A t \in kept[i].ts..k1 : \E k \in PlacesOf(kept, a) : kept[k].ts = t
  <2>1. /\ kept[i].ts \in 1..k1 /\ kept[i].ts >= start /\ kept[i].ts >= k0 + 1 /\ (kept[i].ts # 1 => kept[i].net = 1)
        /\ \A t \in kept[i].ts..k1 : \E k \in PlacesOf(g, a) : g[k].ts = t
    <3>1. e[i] \in PlacesOf(g, a) /\ kept[i] = g[e[i]] /\ g[e[i]].ts >= start
      BY <1>5
    <3>2. /\ g[e[i]].ts \in 1..k1 /\ g[e[i]].ts >= k0 + 1 /\ (g[e[i]].ts # 1 => g[e[i]].net = 1)
          /\ \A t \in g[e[i]].ts..k1 : \E k \in PlacesOf(g, a) : g[k].ts = t
      BY ONLY <1>7, <3>1
    <3> QED BY ONLY <3>1, <3>2
  <2>2. ASSUME NEW t \in kept[i].ts..k1 PROVE \E k \in PlacesOf(kept, a) : kept[k].ts = t
    <3>1. PICK k \in PlacesOf(g, a) : g[k].ts = t
      BY <2>1
    <3>2. t >= start
      BY <2>1
    <3> QED BY <1>6, <3>1, <3>2
  <2>3. kept[i].ts > k0
    BY <2>1
  <2> QED BY ONLY <2>1, <2>2, <2>3
<1>10. Runs(kept, a, start, k1)
  BY <1>8, <1>9 DEF Runs
<1>11. ASSUME k0 >= start, NEW t \in (k0 + 1)..k1 PROVE \E i \in PlacesOf(kept, a) : kept[i].ts = t
  <2>1. PICK k \in PlacesOf(g, a) : g[k].ts = t
    BY <1>7
  <2>2. t >= start
    BY <1>11
  <2> QED BY <1>6, <2>1, <2>2
<1>12. \A i \in PlacesOf(kept, a) : kept[i].ts > k0
  BY <1>9
<1> QED BY <1>1, <1>10, <1>11, <1>12

\* Seconds given out of the lines of a cache, after the first N, leave those
\* that come after them, and two at least.
GivesOut(out, cache, lines, N) ==
    /\ Len(out) \in Nat /\ \A i \in 1..Len(out) : out[i] = N + i /\ <<N + i, "net">> \in cache
    /\ \A l \in lines : l \in cache /\ l[1] \notin ToSet(out) <=> l[1] > N + Len(out)
    /\ N + Len(out) # 0 => \E l \in lines : l[1] >= N + Len(out) + 2

\* The seconds that the Consolidator gives out follow those it gave out before.
LEMMA DumpFollows ==
    ASSUME AgentsTyped, opt.late <= 1, NEW a \in ToSet(Hosts), CachedIs(ag[a]), ag[a].state \in {"off", "run"},
           NEW N \in Nat, N = GivenOut(ag[a]), NEW cache, cache = ag[a].cache \cup ag[a].fresh,
           NEW out, out = Ascending(DumpSeconds(cache))
    PROVE  GivesOut(out, cache, ag[a].written, N)
<1> DEFINE W == ag[a].written
           S == {l[1] : l \in cache}
           Later(t) == {u \in S : u > t}
           D == DumpSeconds(cache)
           n == Cardinality(D)
           last == opt.seconds[a]
<1>1. /\ cache = {l \in W : l[1] > N} /\ (N # 0 => \E l \in W : l[1] >= N + 2)
      /\ \A l \in W : \A u \in 1..(l[1] - opt.late - 1) : <<u, "net">> \in W
  BY DEF CachedIs
<1>2. last \in Nat /\ opt.late \in 0..1 /\ \A l \in W : l[1] \in 1..last
  BY SecondsNat DEF AgentsTyped, LinesOf
<1> HIDE DEF W, last
<1>3. \A u \in S : u \in 1..last /\ u > N /\ \E l \in W : l[1] = u
  BY <1>1, <1>2
<1>4. D = {t \in S : Cardinality(Later(t)) >= 2}
  BY DEF DumpSeconds
<1>20. D \subseteq S
  BY <1>4
<1> HIDE DEF D, S
<1>5. \A t : IsFiniteSet(Later(t)) /\ Cardinality(Later(t)) \in Nat
  <2> SUFFICES ASSUME NEW t PROVE IsFiniteSet(Later(t)) /\ Cardinality(Later(t)) \in Nat
    OBVIOUS
  <2>1. IsFiniteSet(1..last)
    BY <1>2, FS_Interval
  <2>2. Later(t) \subseteq 1..last
    BY <1>3
  <2> HIDE DEF Later
  <2> QED BY <2>1, <2>2, FS_Subset, FS_CardinalityType
<1>6. ASSUME NEW t \in D PROVE \E l \in W : l[1] >= t + 2
  <2>1. Cardinality(Later(t)) >= 2 /\ t \in S
    BY <1>4
  <2>2. ASSUME \A u \in Later(t) : u = t + 1 PROVE FALSE
    <3>1. Later(t) \subseteq {t + 1}
      BY <2>2
    <3>2. IsFiniteSet({t + 1}) /\ Cardinality({t + 1}) = 1
      BY FS_Singleton
    <3> HIDE DEF Later
    <3>3. Cardinality(Later(t)) <= Cardinality({t + 1})
      BY <3>1, <3>2, FS_Subset
    <3> QED BY <1>5, <2>1, <3>2, <3>3
  <2>3. PICK u \in Later(t) : u # t + 1
    BY <2>2
  <2>4. u \in S /\ u > t
    OBVIOUS
  <2>5. u \in 1..last /\ t \in 1..last /\ \E l \in W : l[1] = u
    BY <1>3, <2>1, <2>4
  <2>6. u >= t + 2
    BY <2>3, <2>4, <2>5
  <2> QED BY <2>5, <2>6
<1>7. ASSUME NEW t \in D, NEW u \in (N + 1)..t PROVE u \in D /\ <<u, "net">> \in cache
  <2>1. PICK l \in W : l[1] >= t + 2
    BY <1>6
  <2>2. t \in S /\ t \in 1..last /\ l[1] \in 1..last /\ u \in Int
    BY <1>2, <1>3, <1>4
  <2>3. u \in 1..(l[1] - opt.late - 1) /\ u > N
    BY <1>2, <2>1, <2>2
  <2>4. <<u, "net">> \in cache
    BY <1>1, <2>3
  <2>5. u \in S
    BY <2>4 DEF S
  <2>6. Later(t) \subseteq Later(u)
    <3> SUFFICES ASSUME NEW x \in S, x > t PROVE x > u
      OBVIOUS
    <3>1. x \in Int
      BY <1>3
    <3> QED BY <2>2, <3>1
  <2>9. Cardinality(Later(t)) >= 2
    BY <1>4
  <2> HIDE DEF Later
  <2>7. Cardinality(Later(t)) <= Cardinality(Later(u))
    BY <1>5, <2>6, FS_Subset
  <2>8. Cardinality(Later(u)) >= 2
    BY <1>5, <2>7, <2>9
  <2> QED BY <1>4, <2>4, <2>5, <2>8
<1>8. /\ n \in Nat /\ out \in [1..n -> D] /\ out \in Seq(D)
      /\ \A i, j \in 1..n : i < j => out[i] < out[j]
      /\ \A x \in D : \E i \in 1..n : out[i] = x
  <2>1. D \in SUBSET (1..last)
    BY <1>3, <1>20
  <2>2. out = Ascending(D)
    BY DEF D
  <2>3. /\ Cardinality(D) \in Nat
        /\ Ascending(D) \in [1..Cardinality(D) -> D] /\ Ascending(D) \in Seq(D)
        /\ \A i, j \in 1..Cardinality(D) : i < j => Ascending(D)[i] < Ascending(D)[j]
        /\ \A x \in D : \E i \in 1..Cardinality(D) : Ascending(D)[i] = x
    BY <1>2, <2>1, AscendingIs
  <2> QED BY <2>2, <2>3
<1>9. Len(out) = n
  BY <1>8
<1> HIDE DEF n
<1>21. n \in Nat
  BY <1>8
<1>22. \A i, j \in 1..n : i < j => out[i] < out[j]
  BY <1>8
<1>23. \A x \in D : \E i \in 1..n : out[i] = x
  BY <1>8
<1>0. \A i \in 1..n : out[i] \in D /\ out[i] \in Nat /\ out[i] > N
  <2> SUFFICES ASSUME NEW i \in 1..n PROVE out[i] \in D /\ out[i] \in Nat /\ out[i] > N
    OBVIOUS
  <2>1. out[i] \in D
    BY <1>8
  <2> QED BY <1>3, <1>20, <2>1
<1> DEFINE P == {i \in Nat : i \in 1..n => out[i] = N + i}
<1>10. 0 \in P
  OBVIOUS
<1>11. ASSUME NEW i \in Nat, i \in P PROVE i + 1 \in P
  <2> SUFFICES ASSUME i + 1 \in 1..n PROVE out[i + 1] = N + (i + 1)
    OBVIOUS
  <2>8. PICK j \in 1..n : j = i + 1
    OBVIOUS
  <2>0. j \in Nat /\ j > i /\ N + j \in Nat /\ N + j > N
    BY <2>8
  <2>1. i # 0 => i \in 1..n /\ out[i] = N + i
    BY <1>21, <1>11, <2>8
  <2>2. out[j] >= N + j
    <3>1. CASE i = 0
      BY <1>0, <2>8, <3>1
    <3>2. CASE i # 0
      <4>1. out[i] < out[j]
        BY <1>22, <2>0, <2>1, <3>2
      <4> QED BY <1>0, <2>1, <2>8, <3>2, <4>1
    <3> QED BY <3>1, <3>2
  <2>3. N + j \in D
    <3>1. out[j] \in D /\ out[j] \in Nat
      BY <1>0
    <3>2. N + j \in (N + 1)..out[j]
      BY <2>0, <2>2, <3>1
    <3> QED BY <1>7, <3>1, <3>2
  <2>4. PICK k \in 1..n : out[k] = N + j
    BY <1>23, <2>3
  <2>5. ~(k < j)
    <3> SUFFICES ASSUME k < j PROVE FALSE
      OBVIOUS
    <3>1. i # 0 /\ i \in 1..n /\ out[i] = N + i /\ (k = i \/ k < i)
      BY <1>21, <2>1, <2>8
    <3>2. k = i \/ out[k] < out[i]
      BY <1>22, <3>1
    <3> QED BY <2>0, <2>4, <2>8, <3>1, <3>2
  <2>6. ~(j < k)
    <3> SUFFICES ASSUME j < k PROVE FALSE
      OBVIOUS
    <3>1. out[j] < out[k] /\ out[j] \in Nat
      BY <1>0, <1>22
    <3> QED BY <2>0, <2>2, <2>4, <3>1
  <2>7. k = j
    BY <1>21, <2>5, <2>6
  <2> QED BY <2>4, <2>7, <2>8
<1>12. \A i \in 1..n : out[i] = N + i
  <2> HIDE DEF P
  <2>1. \A i \in Nat : i \in P
    BY <1>10, <1>11, NatSet
  <2>2. \A i \in 1..n : i \in Nat
    BY <1>21
  <2> QED BY <2>1, <2>2 DEF P
<1>13. \A i \in 1..n : <<N + i, "net">> \in cache
  <2> SUFFICES ASSUME NEW i \in 1..n PROVE <<N + i, "net">> \in cache
    OBVIOUS
  <2>1. out[i] \in D /\ out[i] \in Nat /\ out[i] > N /\ out[i] = N + i
    BY <1>0, <1>12
  <2>2. out[i] \in (N + 1)..out[i]
    BY <2>1
  <2>3. <<out[i], "net">> \in cache
    BY <1>7, <2>1, <2>2
  <2> QED BY <2>1, <2>3
<1>14. ToSet(out) = {out[i] : i \in 1..n}
  BY <1>8, <1>9 DEF ToSet
<1>15. ASSUME NEW l \in W PROVE (l[1] > N /\ l[1] \notin ToSet(out)) <=> l[1] > N + n
  <2>1. l[1] \in Nat /\ n \in Nat
    BY <1>2, <1>8
  <2>2. CASE l[1] > N + n
    <3>1. \A i \in 1..n : out[i] # l[1]
      <4> SUFFICES ASSUME NEW i \in 1..n PROVE out[i] # l[1]
        OBVIOUS
      <4>1. out[i] = N + i /\ i <= n
        BY <1>12, <2>1
      <4> QED BY <2>1, <2>2, <4>1
    <3>2. l[1] \notin ToSet(out)
      BY <1>14, <3>1
    <3> QED BY <2>1, <2>2, <3>2
  <2>3. CASE l[1] <= N
    BY <2>1, <2>3
  <2>4. CASE l[1] > N /\ l[1] <= N + n
    <3>1. l[1] - N \in 1..n /\ N + (l[1] - N) = l[1]
      BY <2>1, <2>4
    <3>2. out[l[1] - N] = l[1]
      BY <1>12, <3>1
    <3>3. l[1] \in ToSet(out)
      BY <1>14, <3>1, <3>2
    <3> QED BY <2>1, <2>4, <3>3
  <2> QED BY <2>1, <2>2, <2>3, <2>4
<1>16. \A l \in W : l \in cache /\ l[1] \notin ToSet(out) <=> l[1] > N + n
  BY <1>1, <1>15
<1>17. N + n # 0 => \E l \in W : l[1] >= N + n + 2
  <2>1. CASE n = 0
    BY <1>1, <1>8, <2>1
  <2>2. CASE n # 0
    <3>1. n \in 1..n
      BY <1>8, <2>2
    <3>2. out[n] \in D /\ out[n] = N + n
      BY <1>0, <1>12, <3>1
    <3> QED BY <1>6, <3>2
  <2> QED BY <2>1, <2>2
<1> QED BY <1>9, <1>12, <1>13, <1>16, <1>17, <1>21 DEF W, GivesOut

\* What is not of the way of the seconds.
LEMMA SameWay ==
    ASSUME NEW r, NEW q, q.queue = r.queue, q.pipe = r.pipe, q.prev = r.prev
    PROVE  (OnTheWay(q) <=> OnTheWay(r)) /\ GivenOut(q) = GivenOut(r)
<1>1. \A i : LastOf(q, i) = LastOf(r, i)
  BY DEF LastOf
<1> QED BY <1>1 DEF OnTheWay, GivenOut

LEMMA GivenOutNat ==
    ASSUME NEW r \in AgentType, OnTheWay(r)
    PROVE  LastOf(r, Len(r.queue)) \in Nat /\ GivenOut(r) \in Nat /\ Len(r.queue) \in Nat /\ Len(r.pipe) \in Nat
<1>1. r.queue \in Seq(Seq(Sec)) /\ r.pipe \in Seq(Sec) /\ r.prev.ts \in Nat
  BY DEF AgentType, Sec
<1>2. Len(r.queue) \in Nat /\ Len(r.pipe) \in Nat /\ \A i \in 1..Len(r.queue) : r.queue[i] \in Seq(Sec)
  BY <1>1, LenProperties
<1>3. LastOf(r, Len(r.queue)) \in Nat
  <2> DEFINE n == Len(r.queue)
  <2>1. CASE n = 0
    BY <1>1, <2>1 DEF LastOf
  <2>2. CASE n # 0
    <3> DEFINE block == r.queue[n]
    <3>1. n \in 1..n
      BY <1>2, <2>2
    <3>2. block \in Seq(Sec) /\ Len(block) # 0
      BY <1>2, <3>1 DEF OnTheWay
    <3>3. block[Len(block)] \in Sec
      <4> HIDE DEF block
      <4>1. Len(block) \in 1..Len(block)
        BY <3>2, LenProperties
      <4> QED BY <3>2, <4>1, LenProperties
    <3> QED BY <2>2, <3>3 DEF LastOf, Sec
  <2> QED BY <2>1, <2>2
<1> QED BY <1>2, <1>3 DEF GivenOut

\* A block that the reader thread cuts off.
LEMMA BlockRead ==
    ASSUME NEW r \in AgentType, OnTheWay(r), NEW n \in 1..Len(r.pipe), NEW q,
           q.queue = Append(r.queue, SubSeq(r.pipe, 1, n)), q.pipe = SubSeq(r.pipe, n + 1, Len(r.pipe)), q.prev = r.prev
    PROVE  OnTheWay(q) /\ GivenOut(q) = GivenOut(r)
<1> DEFINE m == Len(r.queue)
           block == SubSeq(r.pipe, 1, n)
           left == SubSeq(r.pipe, n + 1, Len(r.pipe))
           t == LastOf(r, m)
<1>1. r.queue \in Seq(Seq(Sec)) /\ r.pipe \in Seq(Sec)
  BY DEF AgentType
<1>2. m \in Nat /\ Len(r.pipe) \in Nat /\ n \in Nat /\ t \in Nat /\ (\A i \in 1..Len(r.pipe) : r.pipe[i] \in Sec)
  BY <1>1, GivenOutNat, LenProperties
<1>3. block \in Seq(Sec) /\ Len(block) = n /\ \A i \in 1..n : block[i] = r.pipe[i]
  BY <1>1, <1>2, SubSeqProperties
<1>4. Len(left) = Len(r.pipe) - n /\ \A i \in 1..(Len(r.pipe) - n) : left[i] = r.pipe[n + i]
  <2>1. n + 1 \in Int /\ \A i \in (n + 1)..Len(r.pipe) : r.pipe[i] \in Sec
    BY <1>2
  <2>2. /\ Len(left) = IF n + 1 <= Len(r.pipe) THEN Len(r.pipe) - (n + 1) + 1 ELSE 0
        /\ \A i \in 1..(Len(r.pipe) - (n + 1) + 1) : left[i] = r.pipe[n + 1 + i - 1]
    BY <1>2, <2>1, SubSeqProperties
  <2> HIDE DEF left
  <2>3. Len(left) = Len(r.pipe) - n
    BY <1>2, <2>2
  <2>4. ASSUME NEW i \in 1..(Len(r.pipe) - n) PROVE left[i] = r.pipe[n + i]
    <3>1. i \in 1..(Len(r.pipe) - (n + 1) + 1) /\ n + 1 + i - 1 = n + i
      BY <1>2
    <3> QED BY <2>2, <3>1
  <2> QED BY <2>3, <2>4
<1> HIDE DEF block, left
<1>5. Len(q.queue) = m + 1 /\ q.queue[m + 1] = block /\ \A i \in 1..m : q.queue[i] = r.queue[i]
  <2>1. q.queue = Append(r.queue, block)
    BY DEF block
  <2> QED BY <1>1, <1>2, <1>3, <2>1, AppendProperties
<1>6. \A j \in 1..Len(r.pipe) : r.pipe[j].ts = t + j /\ "net" \in r.pipe[j].keys
  BY DEF OnTheWay, Follows
<1>7. \A i \in 0..m : LastOf(q, i) = LastOf(r, i)
  <2> SUFFICES ASSUME NEW i \in 0..m PROVE LastOf(q, i) = LastOf(r, i)
    OBVIOUS
  <2>1. i = 0 \/ i \in 1..m
    BY <1>2
  <2> QED BY <1>5, <2>1 DEF LastOf
<1>8. LastOf(q, m + 1) = t + n
  <2>1. q.queue[m + 1][Len(q.queue[m + 1])].ts = t + n /\ m + 1 # 0
    BY <1>2, <1>3, <1>5, <1>6
  <2> QED BY <2>1 DEF LastOf
<1> HIDE DEF m
<1>9. \A i \in 1..m : Len(q.queue[i]) # 0 /\ Follows(q.queue[i], LastOf(q, i - 1))
  <2> SUFFICES ASSUME NEW i \in 1..m PROVE Len(q.queue[i]) # 0 /\ Follows(q.queue[i], LastOf(q, i - 1))
    OBVIOUS
  <2>1. Len(r.queue[i]) # 0 /\ Follows(r.queue[i], LastOf(r, i - 1))
    BY DEF OnTheWay, m
  <2>2. i - 1 \in 0..m
    BY <1>2
  <2> QED BY <1>5, <1>7, <2>1, <2>2
<1>10. Follows(block, LastOf(q, m)) /\ Len(block) # 0
  <2>1. LastOf(q, m) = t
    BY <1>2, <1>7
  <2> HIDE DEF t
  <2>2. ASSUME NEW i \in 1..n PROVE block[i].ts = t + i /\ "net" \in block[i].keys
    <3>1. i \in 1..Len(r.pipe)
      BY <1>2
    <3> QED BY <1>3, <1>6, <3>1
  <2>3. Len(block) # 0
    BY <1>2, <1>3
  <2> QED BY <1>3, <2>1, <2>2, <2>3 DEF Follows
<1>11. Follows(q.pipe, LastOf(q, m + 1))
  <2>0. q.pipe = left
    BY DEF left
  <2> HIDE DEF t
  <2> SUFFICES ASSUME NEW i \in 1..(Len(r.pipe) - n)
               PROVE  left[i].ts = t + n + i /\ "net" \in left[i].keys
    BY <1>4, <1>8, <2>0 DEF Follows
  <2>1. n + i \in 1..Len(r.pipe) /\ t + (n + i) = t + n + i
    BY <1>2
  <2> QED BY <1>4, <1>6, <2>1
<1>12. OnTheWay(q)
  <2>1. ASSUME NEW i \in 1..(m + 1) PROVE Len(q.queue[i]) # 0 /\ Follows(q.queue[i], LastOf(q, i - 1))
    <3>1. CASE i = m + 1
      <4>1. i - 1 = m
        BY <1>2, <3>1
      <4> QED BY <1>5, <1>10, <3>1, <4>1
    <3>2. CASE i # m + 1
      <4>1. i \in 1..m
        BY <1>2, <3>2
      <4> QED BY <1>9, <4>1
    <3> QED BY <3>1, <3>2
  <2>2. r.prev.ts = 0 => r.prev = NoCheck
    BY DEF OnTheWay
  <2>3. r.prev.ts # 0 => "net" \in r.prev.keys
    BY DEF OnTheWay
  <2> HIDE DEF t
  <2> QED BY <1>5, <1>11, <2>1, <2>2, <2>3 DEF OnTheWay
<1>13. GivenOut(q) = GivenOut(r)
  <2>1. q.pipe = left /\ GivenOut(r) = t + Len(r.pipe) /\ GivenOut(q) = LastOf(q, Len(q.queue)) + Len(q.pipe)
    BY DEF left, GivenOut, m
  <2> HIDE DEF t
  <2> QED BY <1>2, <1>4, <1>5, <1>8, <2>1
<1> QED BY <1>12, <1>13

\* What the agent printed goes on where it ended.
LEMMA SecondsGivenOut ==
    ASSUME NEW r \in AgentType, OnTheWay(r), NEW cache \in SUBSET LineType, NEW out, Len(out) \in Nat,
           \A i \in 1..Len(out) : out[i] = GivenOut(r) + i /\ <<GivenOut(r) + i, "net">> \in cache,
           NEW q, q.queue = r.queue, q.prev = r.prev, q.pipe = r.pipe \o [i \in 1..Len(out) |-> Second(cache, out[i])]
    PROVE  OnTheWay(q) /\ GivenOut(q) = GivenOut(r) + Len(out)
<1> DEFINE k == Len(out)
           s == [i \in 1..k |-> Second(cache, out[i])]
           n == Len(r.pipe)
           t == LastOf(r, Len(r.queue))
<1>1. r.pipe \in Seq(Sec) /\ n \in Nat /\ t \in Nat /\ GivenOut(r) = t + n /\ Len(r.queue) \in Nat
  BY GivenOutNat DEF AgentType, GivenOut
<1>2. \A i \in 1..Len(out) : s[i].ts = t + n + i /\ "net" \in s[i].keys /\ s[i] \in Sec
  <2> SUFFICES ASSUME NEW i \in 1..Len(out) PROVE s[i].ts = t + n + i /\ "net" \in s[i].keys /\ s[i] \in Sec
    OBVIOUS
  <2>1. out[i] = t + n + i /\ <<t + n + i, "net">> \in cache
    BY <1>1
  <2>2. out[i] \in Nat /\ s[i] = Second(cache, out[i])
    BY <1>1, <2>1
  <2>3. s[i].ts = out[i] /\ s[i].keys = {l[2] : l \in {l \in cache : l[1] = out[i]}}
    BY <2>2 DEF Second
  <2>4. "net" \in s[i].keys
    <3>1. <<out[i], "net">> \in {l \in cache : l[1] = out[i]}
      BY <2>1
    <3> HIDE DEF s
    <3> QED BY <2>3, <3>1
  <2> QED BY <2>1, <2>2, <2>3, <2>4, SecondTyped
<1>3. s \in Seq(Sec) /\ Len(s) = Len(out)
  BY <1>2
<1> HIDE DEF s
<1> DEFINE p == r.pipe
           w == q.pipe
<1>4. Len(w) = n + k /\ \A i \in 1..(n + k) : w[i] = IF i <= n THEN p[i] ELSE s[i - n]
  <2>1. w = p \o s /\ p \in Seq(Sec) /\ n = Len(p) /\ k = Len(s)
    BY <1>1, <1>3 DEF s
  <2> HIDE DEF p, w, n, k
  <2>2. /\ Len(p \o s) = Len(p) + Len(s)
        /\ \A i \in 1..(Len(p) + Len(s)) : (p \o s)[i] = IF i <= Len(p) THEN p[i] ELSE s[i - Len(p)]
    BY ONLY <1>3, <2>1, ConcatProperties
  <2> QED BY <2>1, <2>2
<1>13. Len(w) = n + k
  BY <1>4
<1>5. \A i \in 1..n : p[i].ts = t + i /\ "net" \in p[i].keys
  BY DEF OnTheWay, Follows
<1>6. \A i : LastOf(q, i) = LastOf(r, i)
  BY DEF LastOf
<1>7. LastOf(q, Len(q.queue)) = t
  BY <1>6
<1> HIDE DEF t, n
<1>11. n \in Nat /\ t \in Nat /\ k \in Nat /\ GivenOut(r) = t + n
  BY <1>1
<1>12. \A i \in 1..k : s[i].ts = t + n + i /\ "net" \in s[i].keys
  BY <1>2
<1> HIDE DEF k, p, w
<1>8. Follows(w, t)
  <2> SUFFICES ASSUME NEW i \in 1..(n + k) PROVE w[i].ts = t + i /\ "net" \in w[i].keys
    BY <1>13 DEF Follows
  <2>0. i \in Int /\ n \in Int
    BY <1>11
  <2>1. CASE i <= n
    <3>1. i \in 1..n /\ w[i] = p[i]
      BY <1>4, <2>0, <2>1
    <3> QED BY <1>5, <3>1
  <2>2. CASE i > n
    <3>1. i - n \in 1..k /\ t + n + (i - n) = t + i
      BY <1>11, <2>0, <2>2
    <3>2. w[i] = s[i - n]
      BY <1>4, <2>0, <2>2
    <3> QED BY <1>12, <3>1, <3>2
  <2> QED BY <2>0, <2>1, <2>2
<1>9. OnTheWay(q)
  BY <1>6, <1>7, <1>8 DEF OnTheWay, w
<1>10. GivenOut(q) = t + n + k
  <2>1. GivenOut(q) = LastOf(q, Len(q.queue)) + Len(w)
    BY DEF GivenOut, w
  <2> QED BY <1>7, <1>11, <1>13, <2>1
<1> QED BY <1>11, <1>9, <1>10 DEF k

\* What a step of an agent, or of telegraf, leaves as it was of the way.
Goes(r, q) ==
    /\ OnTheWay(q) /\ CachedIs(q) /\ q.prev = r.prev
    /\ r.state \in {"off", "run"} => q.state = r.state

LEMMA TelegrafGoes ==
    ASSUME AgentsTyped, Gentle, NEW a \in ToSet(Hosts), OnTheWay(ag[a]), CachedIs(ag[a]), Telegraf(a)
    PROVE  Goes(ag[a], ag'[a])
<1> DEFINE r == ag[a]
           q == ag'[a]
           N == GivenOut(r)
<1>1. ag \in [ToSet(Hosts) -> AgentType] /\ r \in AgentType /\ r.written \subseteq LinesOf(a)
  BY DEF AgentsTyped
<1>0. PICK ts \in 1..opt.seconds[a], m \in opt.metrics[a] :
         Timely(a, ts) /\ ag' = [ag EXCEPT ![a] = [r EXCEPT !.written = @ \cup {<<ts, m>>}, !.fresh = @ \cup {<<ts, m>>}]]
  BY DEF Telegraf, Becomes
<1> DEFINE l == <<ts, m>>
<1>2. /\ q.written = r.written \cup {l} /\ q.fresh = r.fresh \cup {l} /\ q.cache = r.cache /\ q.state = r.state
      /\ q.queue = r.queue /\ q.pipe = r.pipe /\ q.prev = r.prev
  BY <1>0, <1>1 DEF AgentType
<1>3. OnTheWay(q) /\ GivenOut(q) = N /\ N \in Nat
  <2> HIDE DEF q
  <2> QED BY <1>1, <1>2, SameWay, GivenOutNat
<1>4. l[1] = ts /\ ts \in Nat /\ ts >= 1 /\ opt.late \in 0..1 /\ \A x \in r.written : x[1] \in Nat
  BY <1>1, SecondsNat DEF Gentle, AgentsTyped, LinesOf
<1>5. (\A x \in r.written : ts >= x[1] - opt.late) /\ \A u \in 1..(ts - opt.late - 1) : <<u, "net">> \in r.written
  BY <1>0 DEF Timely
<1> HIDE DEF l, q, N
<1>6. CachedIs(q)
  <2> SUFFICES ASSUME r.state \in {"off", "run"}
               PROVE  /\ q.cache \cup q.fresh = {x \in q.written : x[1] > N}
                      /\ N # 0 => \E x \in q.written : x[1] >= N + 2
                      /\ \A x \in q.written : \A u \in 1..(x[1] - opt.late - 1) : <<u, "net">> \in q.written
    BY <1>2, <1>3 DEF CachedIs
  <2>1. /\ r.cache \cup r.fresh = {x \in r.written : x[1] > N}
        /\ N # 0 => \E x \in r.written : x[1] >= N + 2
        /\ \A x \in r.written : \A u \in 1..(x[1] - opt.late - 1) : <<u, "net">> \in r.written
    BY DEF CachedIs, N
  <2>2. ts > N
    <3>1. CASE N = 0
      BY <1>4, <3>1
    <3>2. CASE N # 0
      <4>1. PICK x \in r.written : x[1] >= N + 2
        BY <2>1, <3>2
      <4>2. x[1] \in Nat /\ ts >= x[1] - opt.late
        BY <1>4, <1>5
      <4> QED BY <1>3, <1>4, <4>1, <4>2
    <3> QED BY <3>1, <3>2
  <2>3. q.cache \cup q.fresh = (r.cache \cup r.fresh) \cup {l}
    BY <1>2
  <2>4. q.cache \cup q.fresh = {x \in q.written : x[1] > N}
    BY <1>2, <1>4, <2>1, <2>2, <2>3
  <2>5. \A x \in q.written : \A u \in 1..(x[1] - opt.late - 1) : <<u, "net">> \in q.written
    BY <1>2, <1>4, <1>5, <2>1
  <2> QED BY <1>2, <2>1, <2>4, <2>5
<1> QED BY <1>2, <1>3, <1>6 DEF Goes, q

LEMMA ConsolidateGoes ==
    ASSUME AgentsTyped, Gentle, NEW a \in ToSet(Hosts), OnTheWay(ag[a]), CachedIs(ag[a]), Consolidate(a)
    PROVE  Goes(ag[a], ag'[a])
<1> DEFINE r == ag[a]
           q == ag'[a]
           N == GivenOut(r)
           cache == r.cache \cup r.fresh
           out == Dump(a, cache)
<1>1. /\ ag \in [ToSet(Hosts) -> AgentType] /\ r \in AgentType /\ r.written \subseteq LinesOf(a)
      /\ r.fresh \subseteq r.written /\ r.cache \subseteq r.written
  BY DEF AgentsTyped
<1>2. cache \in SUBSET LinesOf(a) /\ cache \in SUBSET LineType
  BY <1>1 DEF AgentType
<1>3. ag' = [ag EXCEPT ![a] = [r EXCEPT !.fresh = {}, !.cache = {l \in cache : l[1] \notin ToSet(out)},
                        !.pipe = IF r.state = "run" THEN @ \o [i \in 1..Len(out) |-> Second(cache, out[i])]
                                 ELSE @,
                        !.drained = r.state \in {"closed", "stopped"} /\ out # << >>]]
      /\ r.state # "off"
  BY DEF Consolidate, Becomes
<1> HIDE DEF out
<1>4. /\ q.written = r.written /\ q.fresh = {} /\ q.cache = {l \in cache : l[1] \notin ToSet(out)} /\ q.state = r.state
      /\ q.queue = r.queue /\ q.prev = r.prev
      /\ q.pipe = IF r.state = "run" THEN r.pipe \o [i \in 1..Len(out) |-> Second(cache, out[i])] ELSE r.pipe
  <2> HIDE DEF cache
  <2> QED BY <1>1, <1>3 DEF AgentType
<1>5. N \in Nat
  <2> HIDE DEF r
  <2> QED BY <1>1, GivenOutNat DEF r
<1> HIDE DEF q, cache
<1>6. CASE r.state = "run"
  <2>1. out = Ascending(DumpSeconds(cache))
    BY <1>2, <1>6, DumpIs DEF out
  <2>2. /\ Len(out) \in Nat /\ \A i \in 1..Len(out) : out[i] = N + i /\ <<N + i, "net">> \in cache
        /\ \A l \in r.written : l \in cache /\ l[1] \notin ToSet(out) <=> l[1] > N + Len(out)
        /\ N + Len(out) # 0 => \E l \in r.written : l[1] >= N + Len(out) + 2
    <3>1. N = GivenOut(ag[a]) /\ cache = ag[a].cache \cup ag[a].fresh /\ ag[a].state \in {"off", "run"} /\ opt.late <= 1
      BY <1>6 DEF Gentle, cache
    <3> HIDE DEF N
    <3>2. GivesOut(out, cache, ag[a].written, N)
      BY <1>5, <2>1, <3>1, DumpFollows
    <3> QED BY <3>2 DEF GivesOut
  <2>3. OnTheWay(q) /\ GivenOut(q) = N + Len(out)
    <3> HIDE DEF r
    <3>1. r \in AgentType /\ OnTheWay(r) /\ q.pipe = r.pipe \o [i \in 1..Len(out) |-> Second(cache, out[i])]
      BY <1>1, <1>4, <1>6 DEF r
    <3> QED BY <1>2, <1>4, <2>2, <3>1, SecondsGivenOut
  <2>4. \A x \in r.written : \A u \in 1..(x[1] - opt.late - 1) : <<u, "net">> \in r.written
    BY <1>6 DEF CachedIs
  <2> HIDE DEF r, N
  <2>5. q.cache \cup q.fresh = {l \in r.written : l[1] > N + Len(out)}
    <3>1. cache \subseteq ag[a].written
      BY <1>1 DEF r, cache
    <3> QED BY <1>4, <2>2, <3>1 DEF r
  <2>6. CachedIs(q)
    BY <1>4, <2>2, <2>3, <2>4, <2>5 DEF CachedIs
  <2> QED BY <1>4, <2>3, <2>6 DEF Goes, r, q
<1>7. CASE r.state # "run"
  <2>1. OnTheWay(q)
    <3> HIDE DEF r
    <3>1. OnTheWay(r)
      BY DEF r
    <3> QED BY <1>4, <1>7, <3>1, SameWay
  <2>2. q.state \notin {"off", "run"}
    BY <1>3, <1>4, <1>7
  <2> QED BY <1>3, <1>4, <1>7, <2>1, <2>2 DEF Goes, CachedIs, q
<1> QED BY <1>6, <1>7

LEMMA AgentGoes ==
    ASSUME AgentsTyped, Gentle, NEW a \in ToSet(Hosts), AgentStep(a) \/ Environment(a),
           OnTheWay(ag[a]), CachedIs(ag[a])
    PROVE  Goes(ag[a], ag'[a]) /\ \A b \in ToSet(Hosts) : b # a => ag'[b] = ag[b]
<1> DEFINE r == ag[a]
           q == ag'[a]
<1>1. ag \in [ToSet(Hosts) -> AgentType] /\ r \in AgentType
  BY DEF AgentsTyped
<1>2. \A b \in ToSet(Hosts) : b # a => ag'[b] = ag[b]
  <2>1. \E x : Becomes(a, x)
    BY DEF AgentStep, Environment, Telegraf, PrintTrash, Consolidate, CloseDrain, StopTelegraf, Exit, ReadBuffer
  <2> QED BY <1>1, <2>1 DEF Becomes
<1>3. ~PrintTrash(a)
  BY DEF PrintTrash, Gentle
<1>4. CASE CloseDrain(a) \/ StopTelegraf(a) \/ Exit(a)
  <2>1. PICK state \in {"closed", "stopped", "exited"} : ag' = [ag EXCEPT ![a] = [r EXCEPT !.state = state]]
    BY <1>4 DEF CloseDrain, StopTelegraf, Exit, Becomes
  <2>2. r.state \notin {"off", "run"}
    BY <1>4 DEF CloseDrain, StopTelegraf, Exit
  <2>3. q.state = state /\ q.queue = r.queue /\ q.pipe = r.pipe /\ q.prev = r.prev
    BY <1>1, <2>1 DEF AgentType
  <2>4. OnTheWay(q)
    <3> HIDE DEF q
    <3> QED BY <2>3, SameWay
  <2> HIDE DEF q
  <2> QED BY <1>2, <2>2, <2>3, <2>4 DEF Goes, CachedIs, q
<1>5. CASE ReadBuffer(a)
  <2>1. PICK n \in 1..Len(r.pipe) :
            ag' = [ag EXCEPT ![a] = [r EXCEPT !.queue = Append(@, SubSeq(r.pipe, 1, n)), !.pipe = SubSeq(@, n + 1, Len(@))]]
    BY <1>5 DEF ReadBuffer, Becomes
  <2>2. /\ q.queue = Append(r.queue, SubSeq(r.pipe, 1, n)) /\ q.pipe = SubSeq(r.pipe, n + 1, Len(r.pipe)) /\ q.prev = r.prev
        /\ q.state = r.state /\ q.written = r.written /\ q.fresh = r.fresh /\ q.cache = r.cache
    BY <1>1, <2>1 DEF AgentType
  <2> HIDE DEF q
  <2>3. OnTheWay(q) /\ GivenOut(q) = GivenOut(r)
    <3> HIDE DEF r
    <3>1. OnTheWay(r)
      BY DEF r
    <3> QED BY <1>1, <2>2, <3>1, BlockRead
  <2>4. CachedIs(q)
    BY <2>2, <2>3 DEF CachedIs
  <2> QED BY <1>2, <2>2, <2>3, <2>4 DEF Goes, q
<1> QED BY <1>2, <1>3, <1>4, <1>5, TelegrafGoes, ConsolidateGoes DEF AgentStep, Environment

-----------------------------------------------------------------------------
\* What holds of every host, and of the stages, after a step.
LEMMA StepsPrimed ==
    ASSUME opt' = opt,
           \A a \in ToSet(Hosts) :
              OnTheWay(ag'[a]) /\ CachedIs(ag'[a]) /\ Runs(published', a, opt.start, ag'[a].prev.ts),
           stage' \in Early => \A a \in ToSet(Hosts) : ag'[a].state \in {"off", "run"},
           collected' = << >>, \A i, j \in 1..Len(agents') : agents'[i] = agents'[j] => i = j
    PROVE  InSteps'
BY DEF InSteps, CachedIs, Early

\* An agent whose cache and way are as they were, and that starts at most when it
\* had not run.
SameSeconds(r, q) ==
    /\ q.queue = r.queue /\ q.pipe = r.pipe /\ q.prev = r.prev
    /\ q.written = r.written /\ q.fresh = r.fresh /\ q.cache = r.cache
    /\ q.state \in {"off", "run"} => r.state \in {"off", "run"}

LEMMA SecondsStay ==
    ASSUME NEW r, NEW q, SameSeconds(r, q), OnTheWay(r), CachedIs(r)
    PROVE  OnTheWay(q) /\ CachedIs(q) /\ q.prev = r.prev
<1>1. OnTheWay(q) /\ GivenOut(q) = GivenOut(r)
  BY SameWay DEF SameSeconds
<1> QED BY <1>1 DEF SameSeconds, CachedIs

LEMMA HostsApart ==
    ASSUME NEW S
    PROVE  \A i, j \in 1..Len(Only(Hosts, S)) : Only(Hosts, S)[i] = Only(Hosts, S)[j] => i = j
<1> DEFINE kept == Only(Hosts, S)
           n == Len(Hosts)
<1>1. Hosts \in Seq(ToSet(Hosts)) /\ IsInjective(Hosts)
  BY MonitoringAssumption DEF MonitoringAssumption
<1>2. kept \in Seq(ToSet(Hosts)) /\ \E e : Keeps(e, kept, Hosts, S, n)
  BY <1>1, OnlyKeeps
<1>3. PICK e : Keeps(e, kept, Hosts, S, n)
  BY <1>2
<1>4. Len(kept) \in Nat /\ n \in Nat
  BY <1>1, <1>2, LenProperties
<1>5. \A i, j \in 1..n : Hosts[i] = Hosts[j] => i = j
  BY <1>1, LenProperties DEF IsInjective
<1> SUFFICES ASSUME NEW i \in 1..Len(kept), NEW j \in 1..Len(kept), kept[i] = kept[j] PROVE i = j
  OBVIOUS
<1>6. e[i] \in 1..n /\ e[j] \in 1..n /\ Hosts[e[i]] = Hosts[e[j]] /\ (i < j => e[i] < e[j]) /\ (j < i => e[j] < e[i])
  <2> HIDE DEF kept, n
  <2> QED BY <1>3 DEF Keeps
<1>7. e[i] = e[j] /\ e[i] \in Nat
  BY <1>4, <1>5, <1>6
<1>8. ~(i < j) /\ ~(j < i)
  BY <1>6, <1>7
<1>9. i \in Nat /\ j \in Nat
  BY <1>4
<1> QED BY <1>8, <1>9

LEMMA RestApart ==
    ASSUME NEW S, NEW s \in Seq(S), \A i, j \in 1..Len(s) : s[i] = s[j] => i = j
    PROVE  \A i, j \in 1..Len(RestOf(s)) : RestOf(s)[i] = RestOf(s)[j] => i = j
<1> DEFINE h == Len(s) \div 2
<1>1. Len(s) \in Nat
  BY LenProperties
<1>2. h \in Nat /\ \A i \in 1..h : 2 * i \in 1..Len(s)
  BY <1>1
<1> HIDE DEF h
<1>3. RestOf(s) = [i \in 1..h |-> s[2 * i]]
  BY DEF RestOf, h
<1>4. Len(RestOf(s)) = h /\ \A i \in 1..h : RestOf(s)[i] = s[2 * i]
  BY <1>2, <1>3
<1> SUFFICES ASSUME NEW i \in 1..h, NEW j \in 1..h, s[2 * i] = s[2 * j] PROVE i = j
  BY <1>4
<1>5. 2 * i = 2 * j
  BY <1>2
<1> QED BY <1>2, <1>5

LEMMA StagesInSteps ==
    ASSUME Gentle, TelegrafIs, InSteps, opt' = opt, TelegrafStages
    PROVE  InSteps'
<1>0. AgentsTyped /\ ChunksTyped /\ Gathered
  BY DEF TelegrafIs
<1>1. /\ ag \in [ToSet(Hosts) -> AgentType] /\ agents \in Seq(ToSet(Hosts)) /\ published \in Seq(Chunk)
      /\ collected = << >> /\ \A i, j \in 1..Len(agents) : agents[i] = agents[j] => i = j
  BY <1>0 DEF AgentsTyped, ChunksTyped, InSteps
<1>2. \A a \in ToSet(Hosts) : OnTheWay(ag[a]) /\ CachedIs(ag[a]) /\ Runs(published, a, opt.start, ag[a].prev.ts)
  BY DEF InSteps
<1>3. collected' = collected /\ published' = published
  <2>1. CASE GiveRest
    <3>1. collected' = collected /\ published' = published \o << >>
      BY <1>1, <2>1 DEF GiveRest, Publish
    <3> QED BY <1>1, <3>1, ConcatEmptySeq
  <2>2. CASE ~GiveRest
    BY <2>2 DEF TelegrafStages, Install, StartAgents, StartRaises, WaitEnds, TestEnds, Uninstall, PublishNothing, collector,
       telegraf
  <2> QED BY <2>1, <2>2
<1>4. \A i, j \in 1..Len(agents') : agents'[i] = agents'[j] => i = j
  <2>1. CASE Install
    BY <2>1, HostsApart DEF Install
  <2>2. CASE GiveRest
    BY <1>1, <2>2, RestApart DEF GiveRest
  <2>3. CASE StartAgents \/ StartRaises \/ WaitEnds \/ TestEnds \/ Uninstall
    <3>1. agents' = agents
      BY <2>3 DEF StartAgents, StartRaises, WaitEnds, TestEnds, Uninstall, collector, telegraf
    <3> QED BY <1>1, <3>1
  <2> QED BY <2>1, <2>2, <2>3 DEF TelegrafStages
<1>5. ASSUME \A a \in ToSet(Hosts) : SameSeconds(ag[a], ag'[a]),
             stage' \in Early => \A a \in ToSet(Hosts) : ag'[a].state \in {"off", "run"}
      PROVE  InSteps'
  <2>1. \A a \in ToSet(Hosts) : OnTheWay(ag'[a]) /\ CachedIs(ag'[a]) /\ ag'[a].prev = ag[a].prev
    BY <1>2, <1>5, SecondsStay
  <2>2. \A a \in ToSet(Hosts) : Runs(published', a, opt.start, ag'[a].prev.ts)
    BY <1>2, <1>3, <2>1
  <2> QED BY <1>1, <1>3, <1>4, <1>5, <2>1, <2>2, StepsPrimed
<1>6. CASE Install \/ WaitEnds \/ GiveRest
  <2>1. ag' = ag /\ (stage' \in Early => stage \in Early)
    BY <1>6 DEF Install, WaitEnds, GiveRest, Now, Early, telegraf
  <2> QED BY <1>5, <2>1 DEF SameSeconds, InSteps
<1>7. CASE StartAgents \/ StartRaises
  <2>1. PICK n : ag' = Started(n)
    BY <1>7 DEF StartAgents, StartRaises
  <2>2. \A a \in ToSet(Hosts) : ag[a].state \in {"off", "run"}
    BY <1>7 DEF InSteps, Early, StartAgents, StartRaises
  <2>3. \A r \in AgentType : r.state \in {"off", "run"} =>
           \A a : SameSeconds(r, StartAgent(a, r)) /\ SameSeconds(r, r) /\ StartAgent(a, r).state = "run"
    BY DEF SameSeconds, StartAgent, AgentType
  <2>4. \A a \in ToSet(Hosts) : ag'[a] = IF a \in ToSet(SubSeq(agents, 1, n)) THEN StartAgent(a, ag[a]) ELSE ag[a]
    BY <1>1, <2>1 DEF Started
  <2>5. \A a \in ToSet(Hosts) : SameSeconds(ag[a], ag'[a]) /\ ag'[a].state \in {"off", "run"}
    BY <1>1, <2>2, <2>3, <2>4
  <2> QED BY <1>5, <2>5
<1>8. CASE TestEnds
  <2>1. \A r \in AgentType : SameSeconds(r, Tell(r)) /\ SameSeconds(r, r)
    BY DEF SameSeconds, Tell, AgentType
  <2>2. \A a \in ToSet(Hosts) : ag'[a] = Tell(ag[a]) \/ ag'[a] = ag[a]
    BY <1>1, <1>8 DEF TestEnds
  <2>3. stage' \notin Early
    BY <1>8 DEF TestEnds, Now, Early
  <2> QED BY <1>1, <1>5, <2>1, <2>2, <2>3
<1>9. CASE Uninstall
  <2> DEFINE a == agents[uninstalled + 1]
             q == [ag[a] EXCEPT !.state = IF @ = "off" THEN @ ELSE "exited", !.session = FALSE]
  <2>1. ag' = [ag EXCEPT ![a] = q] /\ stage' = "uninstall"
    BY <1>9 DEF Uninstall, Uninstalled, Becomes
  <2>2. a \in ToSet(Hosts) => SameSeconds(ag[a], q)
    <3> SUFFICES ASSUME a \in ToSet(Hosts) PROVE SameSeconds(ag[a], q)
      OBVIOUS
    <3>1. ag[a] \in AgentType
      BY <1>1
    <3> HIDE DEF a
    <3> QED BY <3>1 DEF SameSeconds, AgentType
  <2> HIDE DEF q, a
  <2>3. \A b \in ToSet(Hosts) : ag'[b] = IF b = a THEN q ELSE ag[b]
    BY <1>1, <2>1
  <2>4. \A b \in ToSet(Hosts) : SameSeconds(ag[b], ag'[b])
    BY <2>2, <2>3 DEF SameSeconds
  <2> QED BY <1>5, <2>1, <2>4 DEF Early
<1> QED BY <1>6, <1>7, <1>8, <1>9 DEF TelegrafStages

LEMMA PollsInSteps ==
    ASSUME Gentle, TelegrafIs, InSteps, opt' = opt, WaitPolls \/ Poll
    PROVE  InSteps'
<1>0. AgentsTyped /\ ChunksTyped /\ Gathered
  BY DEF TelegrafIs
<1>1. /\ ag \in [ToSet(Hosts) -> AgentType] /\ agents \in Seq(ToSet(Hosts)) /\ published \in Seq(Chunk)
      /\ collected = << >> /\ \A i, j \in 1..Len(agents) : agents[i] = agents[j] => i = j
  BY <1>0 DEF AgentsTyped, ChunksTyped, InSteps
<1>2. \A a \in ToSet(Hosts) : OnTheWay(ag[a]) /\ CachedIs(ag[a]) /\ Runs(published, a, opt.start, ag[a].prev.ts)
  BY DEF InSteps
<1>3. GotEach(Polled)
  BY <1>0, <1>1, <1>2, PolledGets
<1>4. Polled \in PollStates
  BY <1>0, <1>1, PolledGoes
<1>5. ag' = Polled.ag /\ agents' = agents /\ stage' = stage
  BY DEF WaitPolls, Poll
<1>6. /\ ag' \in [ToSet(Hosts) -> AgentType] /\ Polled.got \in Seq(Chunk) /\ ~Polled.trash
      /\ \A a \in ToSet(Hosts) : Unread(ag'[a], ag[a]) /\ OnTheWay(ag'[a]) /\ GivenOut(ag'[a]) = GivenOut(ag[a])
                                 /\ GotAll(Polled.got, a, ag[a].prev.ts, ag'[a].prev.ts)
  BY <1>3, <1>4, <1>5 DEF PollStates, PollType, GotEach
<1>7. \A a \in ToSet(Hosts) : CachedIs(ag'[a])
  BY <1>2, <1>6 DEF CachedIs, Unread
<1>8. stage' \in Early => \A a \in ToSet(Hosts) : ag'[a].state \in {"off", "run"}
  BY <1>5, <1>6 DEF InSteps, Unread
<1>9. ASSUME collected' = << >>, \A a \in ToSet(Hosts) : Runs(published', a, opt.start, ag'[a].prev.ts)
      PROVE  InSteps'
  BY <1>1, <1>5, <1>6, <1>7, <1>8, <1>9, StepsPrimed
<1>10. CASE WaitPolls
  <2>1. collected' = << >> /\ published' = << >>
    BY <1>0, <1>1, <1>10 DEF WaitPolls, PublishNothing, Gathered, Early
  <2>2. \A a : PlacesOf(published', a) = {}
    BY <2>1 DEF PlacesOf
  <2> QED BY <1>9, <2>1, <2>2 DEF Runs
<1>11. CASE Poll
  <2> DEFINE kept == SinceStart(Polled.got)
  <2>1. \A a \in ToSet(Hosts) : ag[a].prev.ts \in Nat /\ ag'[a].prev.ts \in Nat
    BY <1>1, <1>6 DEF AgentType, Sec
  <2>2. opt.start \in Nat
    <3>1. opt \in [telegraf : BOOLEAN, die : BOOLEAN, seconds : [ToSet(Hosts) -> Nat], late : Nat,
                   metrics : [ToSet(Hosts) -> SUBSET Metrics], trash : SUBSET ToSet(Hosts), start : Nat, lower : BOOLEAN]
      BY <1>0, MonitoringAssumption DEF MonitoringAssumption, AgentsTyped
    <3> QED BY <3>1
  <2>3. ASSUME NEW a \in ToSet(Hosts)
        PROVE  /\ kept \in Seq(Chunk) /\ Runs(kept, a, opt.start, ag'[a].prev.ts)
               /\ \A i \in PlacesOf(kept, a) : kept[i].ts > ag[a].prev.ts
               /\ ag[a].prev.ts >= opt.start =>
                     \A t \in (ag[a].prev.ts + 1)..ag'[a].prev.ts : \E i \in PlacesOf(kept, a) : kept[i].ts = t
    <3>1. kept = Only(Polled.got, {c \in ToSet(Polled.got) : c.ts >= opt.start})
      BY DEF SinceStart
    <3> DEFINE k0 == ag[a].prev.ts
               k1 == ag'[a].prev.ts
               g == Polled.got
               start == opt.start
               S == {c \in ToSet(g) : c.ts >= start}
    <3>2. k0 \in Nat /\ k1 \in Nat /\ start \in Nat /\ g \in Seq(Chunk) /\ GotAll(g, a, k0, k1)
          /\ kept = Only(g, S) /\ \A c \in ToSet(g) : c \in S <=> c.ts >= start
      BY <1>6, <2>1, <2>2, <3>1
    <3> HIDE DEF kept, k0, k1, g, start, S
    <3>3. /\ kept \in Seq(Chunk) /\ Runs(kept, a, start, k1)
          /\ \A i \in PlacesOf(kept, a) : kept[i].ts > k0
          /\ k0 >= start => \A t \in (k0 + 1)..k1 : \E i \in PlacesOf(kept, a) : kept[i].ts = t
      BY <3>2, RunsKept
    <3> QED BY <3>3 DEF k0, k1, start
  <2> HIDE DEF kept
  <2>4. kept \in Seq(Chunk)
    <3>1. Only(Polled.got, {c \in ToSet(Polled.got) : c.ts >= opt.start}) \in Seq(Chunk)
      BY <1>6, OnlyKeeps
    <3> QED BY <3>1 DEF kept, SinceStart
  <2>5. collected' = << >> /\ published' = published \o kept
    <3>1. collected' = << >> /\ published' = published \o (<< >> \o kept)
      BY <1>1, <1>6, <1>11 DEF Poll, Publish, kept
    <3>2. << >> \o kept = kept
      BY <2>4, ConcatEmptySeq
    <3> QED BY <3>1, <3>2
  <2>6. ASSUME NEW a \in ToSet(Hosts) PROVE Runs(published', a, opt.start, ag'[a].prev.ts)
    <3> DEFINE k0 == ag[a].prev.ts
               k1 == ag'[a].prev.ts
    <3>1. k0 \in Nat /\ k1 \in Nat /\ k0 <= k1 /\ Runs(published, a, opt.start, k0)
      BY <1>2, <1>6, <2>1 DEF GotAll
    <3>2. PlacesOf(published, a) # {} => k0 >= opt.start
      <4> SUFFICES ASSUME NEW i \in PlacesOf(published, a) PROVE k0 >= opt.start
        OBVIOUS
      <4>1. published[i].ts \in 1..k0 /\ published[i].ts >= opt.start
        BY <3>1 DEF Runs
      <4> HIDE DEF k0
      <4> QED BY <2>2, <3>1, <4>1
    <3>3. PlacesOf(published, a) # {} => \A t \in (k0 + 1)..k1 : \E i \in PlacesOf(kept, a) : kept[i].ts = t
      BY <2>3, <3>2
    <3>4. Runs(kept, a, opt.start, k1) /\ \A i \in PlacesOf(kept, a) : kept[i].ts > k0
      BY <2>3
    <3> HIDE DEF k0, k1
    <3>5. Runs(published \o kept, a, opt.start, k1)
      BY <1>1, <2>2, <2>4, <3>1, <3>3, <3>4, RunsOn
    <3> QED BY <2>5, <3>5 DEF k1
  <2> QED BY <1>9, <2>5, <2>6
<1> QED BY <1>10, <1>11

\* The seconds of gentle targets are published one by one.
THEOREM StepsInductive == MonitoringSpec => []StepsInv
<1>1. MonitoringInit => StepsInv
  <2> SUFFICES ASSUME MonitoringInit, Gentle PROVE InSteps
    BY DEF StepsInv
  <2>1. /\ stage = "prepare" /\ ag = [a \in ToSet(Hosts) |-> NewAgent]
        /\ agents = << >> /\ collected = << >> /\ published = << >>
    BY DEF MonitoringInit, Gentle
  <2> DEFINE r == NewAgent
  <2>2. OnTheWay(r) /\ GivenOut(r) = 0 /\ r.prev.ts = 0
    BY DEF NewAgent, NoCheck, Trash, OnTheWay, Follows, GivenOut, LastOf
  <2>3. CachedIs(r)
    <3>1. r.written = {} /\ r.cache = {} /\ r.fresh = {}
      BY DEF NewAgent
    <3> HIDE DEF r
    <3> QED BY <2>2, <3>1 DEF CachedIs
  <2>4. \A a : PlacesOf(published, a) = {}
    BY <2>1 DEF PlacesOf
  <2>5. \A a : Runs(published, a, opt.start, r.prev.ts)
    BY <2>4 DEF Runs
  <2>6. r.state = "off"
    BY DEF NewAgent
  <2> HIDE DEF r
  <2>7. \A a \in ToSet(Hosts) : ag[a] = r
    BY <2>1 DEF r
  <2> QED BY <2>1, <2>2, <2>3, <2>5, <2>6, <2>7 DEF InSteps
<1>2. TelegrafInv /\ StepsInv /\ [MonitoringNext]_monitoringVars => StepsInv'
  <2> SUFFICES ASSUME TelegrafInv, StepsInv, [MonitoringNext]_monitoringVars, Gentle' PROVE InSteps'
    BY DEF StepsInv
  <2>1. opt' = opt
    BY DEF MonitoringNext, Works, Agents, Targets, PanelThreads, World, monitoringVars
  <2>2. opt.telegraf /\ Gentle /\ TelegrafIs /\ InSteps
    BY <2>1 DEF Gentle, TelegrafInv, StepsInv
  <2>3. AgentsTyped /\ Gathered
    BY <2>2 DEF TelegrafIs
  <2>4. \A a \in ToSet(Hosts) : OnTheWay(ag[a]) /\ CachedIs(ag[a]) /\ Runs(published, a, opt.start, ag[a].prev.ts)
    BY <2>2 DEF InSteps
  <2>5. CASE \E a \in DOMAIN ag : (AgentStep(a) \/ Environment(a)) /\ UNCHANGED <<stage, collector, published, criterion>>
    <3>1. PICK a \in ToSet(Hosts) : AgentStep(a) \/ Environment(a)
      BY <2>3, <2>5 DEF AgentsTyped
    <3>2. Goes(ag[a], ag'[a]) /\ \A b \in ToSet(Hosts) : b # a => ag'[b] = ag[b]
      BY <2>2, <2>3, <2>4, <3>1, AgentGoes
    <3>3. ASSUME NEW b \in ToSet(Hosts)
          PROVE  OnTheWay(ag'[b]) /\ CachedIs(ag'[b]) /\ ag'[b].prev = ag[b].prev
                 /\ (ag[b].state \in {"off", "run"} => ag'[b].state \in {"off", "run"})
      BY <2>4, <3>2 DEF Goes
    <3>4. UNCHANGED <<stage, agents, collected, published>>
      BY <2>5 DEF collector
    <3>5. /\ collected' = << >> /\ \A i, j \in 1..Len(agents') : agents'[i] = agents'[j] => i = j
          /\ stage' \in Early => \A b \in ToSet(Hosts) : ag'[b].state \in {"off", "run"}
      BY <2>2, <3>3, <3>4 DEF InSteps
    <3>6. \A b \in ToSet(Hosts) : Runs(published', b, opt.start, ag'[b].prev.ts)
      BY <2>4, <3>3, <3>4
    <3> QED BY <2>1, <3>3, <3>5, <3>6, StepsPrimed
  <2>6. CASE UNCHANGED <<stage, telegraf, published, criterion>>
    BY <2>1, <2>2, <2>6 DEF InSteps, CachedIs, telegraf, collector
  <2> QED BY <2>1, <2>2, <2>3, <2>5, <2>6, OnlyTelegraf, StagesInSteps, PollsInSteps
<1> QED BY <1>1, <1>2, TelegrafInductive, PTL DEF MonitoringSpec

\* The listeners get the seconds of the agents: those of gentle targets in
\* order and with their growth, and what was decoded, all of it.
THEOREM SecondsAreExact == MonitoringSpec => []SecondsExact
<1>1. TelegrafInv /\ StepsInv => GrowthIsExact
  <2> SUFFICES ASSUME TelegrafInv, StepsInv, opt.telegraf, Gentle, NEW a \in DOMAIN ag, NEW i \in Of(a), NEW j \in Of(a), i < j
               PROVE  /\ published[i].ts < published[j].ts
                      /\ Of(a) \cap (i + 1)..(j - 1) = {} => published[j].net = published[j].ts - published[i].ts
    BY DEF GrowthIsExact, Gentle
  <2>1. AgentsTyped /\ ChunksTyped /\ InSteps
    BY DEF TelegrafInv, TelegrafIs, StepsInv
  <2>2. a \in ToSet(Hosts) /\ published \in Seq(Chunk) /\ Runs(published, a, opt.start, ag[a].prev.ts)
    BY <2>1 DEF AgentsTyped, ChunksTyped, InSteps
  <2>3. Of(a) = PlacesOf(published, a) /\ \A k \in Of(a) : k \in Nat
    BY <2>2, LenProperties DEF Of, PlacesOf
  <2> DEFINE s == published[i].ts
             t == published[j].ts
             top == ag[a].prev.ts
  <2>4. s < t
    BY <2>2, <2>3 DEF Runs
  <2>5. s \in 1..top /\ t \in 1..top /\ (t # 1 => published[j].net = 1)
        /\ \A u \in s..top : \E k \in Of(a) : published[k].ts = u
    BY <2>2, <2>3 DEF Runs
  <2>6. \A k, l \in Of(a) : k < l => published[k].ts < published[l].ts
    BY <2>2, <2>3 DEF Runs
  <2>10. top \in Nat
    BY <2>1, <2>2 DEF AgentsTyped, AgentType, Sec
  <2> HIDE DEF s, t, top
  <2>7. ASSUME Of(a) \cap (i + 1)..(j - 1) = {} PROVE t = s + 1
    <3> SUFFICES ASSUME t # s + 1 PROVE FALSE
      OBVIOUS
    <3>1. s + 1 \in s..top /\ s + 1 < t
      <4>1. s \in Nat /\ t \in Nat /\ t <= top
        BY <2>5, <2>10
      <4> QED BY <2>4, <2>10, <4>1
    <3>2. PICK k \in Of(a) : published[k].ts = s + 1
      BY <2>5, <3>1
    <3>3. ~(k < i) /\ k # i
      BY <2>3, <2>5, <2>6, <3>2 DEF s
    <3>4. ~(j < k) /\ k # j
      BY <2>3, <2>5, <2>6, <3>1, <3>2 DEF t
    <3>5. k \in (i + 1)..(j - 1)
      BY <2>3, <3>3, <3>4
    <3> QED BY <2>7, <3>2, <3>5
  <2>8. t \in Nat /\ s \in Nat /\ s >= 1
    BY <2>5
  <2>9. t = s + 1 => published[j].net = t - s
    BY <2>5, <2>8
  <2> QED BY <2>4, <2>7, <2>9 DEF s, t
<1>2. TelegrafInv /\ opt.telegraf => DecodedIsPublished
  BY DEF TelegrafInv, TelegrafIs, Gathered
<1> DEFINE NoneCollected == ~opt.telegraf => collected = << >>
<1>3. MonitoringInit => NoneCollected
  BY DEF MonitoringInit
<1>4. PanelsInv /\ NoneCollected /\ [MonitoringNext]_monitoringVars => NoneCollected'
  <2> SUFFICES ASSUME PanelsInv, collected = << >>, [MonitoringNext]_monitoringVars, ~opt.telegraf PROVE collected' = collected
    BY DEF MonitoringNext, Works, Agents, Targets, PanelThreads, World, monitoringVars
  <2>1. PanelsClose
    BY DEF PanelsInv
  <2> QED BY <2>1, OnlyPanels
<1>5. GrowthIsExact /\ DecodedIsPublished => SecondsExact
  BY DEF SecondsExact
<1>6. NoneCollected /\ ~opt.telegraf => DecodedIsPublished
  BY DEF DecodedIsPublished
<1> HIDE DEF NoneCollected
<1>7. MonitoringSpec => []NoneCollected
  BY <1>3, <1>4, PanelsInductive, PTL DEF MonitoringSpec
<1> QED BY <1>1, <1>2, <1>5, <1>6, <1>7, TelegrafInductive, StepsInductive, PTL

=============================================================================
