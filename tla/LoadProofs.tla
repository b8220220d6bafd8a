----------------------------- MODULE LoadProofs -----------------------------
(***************************************************************************)
(* TLAPS proofs about the load of a test, before, while and after it is    *)
(* given: about StepperWrapper, which makes the missiles, TimeChopper,     *)
(* which makes seconds of their results, and Autostop, which stops the     *)
(* test at one.                                                            *)
(***************************************************************************)
EXTENDS TimeChopper, Autostop, StepperWrapper, WellFoundedInduction, FiniteSetTheorems, SequenceTheorems, TLAPS

(***************************************************************************)
(* TimeChopper: for any number of sources, seconds and chunks no row is    *)
(* lost or given twice, and, when no source goes back in time, the chopper *)
(* is an ascending stream of complete seconds.                             *)
(*                                                                         *)
(* The invariant adds to the properties what makes them inductive: the     *)
(* pieces that were read are numbered below the counter of their source    *)
(* (Numbered: the next piece is new), and, when no source goes back, every *)
(* second given is below both the second each source is in (Behind: its    *)
(* next rows cannot belong to it) and the seconds cached (Below).          *)
(***************************************************************************)

Numbered == \A ts \in Ts : \A piece \in given[ts] : piece[2] <= chunks[piece[1]]

Behind == InOrder => \A i \in DOMAIN out : \A s \in live : out[i].ts < recent[s]

Below == InOrder => \A i \in DOMAIN out : \A ts \in Cached : out[i].ts < ts

IInv == TypeOK /\ Numbered /\ NothingLost /\ Behind /\ Below /\ Ascending

-----------------------------------------------------------------------------

\* The second and the rows of what was yielded.
LEMMA OutType ==
    ASSUME TypeOK, NEW i \in DOMAIN out
    PROVE  out[i].ts \in Ts /\ out[i].rows \subseteq Piece
<1> DEFINE R == [ts : Ts, rows : SUBSET Piece]
<1>1. out \in Seq(R)
    BY DEF TypeOK
<1>2. out[i] \in R
  <2> HIDE DEF R
  <2> QED
      BY <1>1
<1> QED
    BY <1>2

\* The counter of a source is a number.
LEMMA ChunksType == TypeOK => \A s \in Sources : chunks[s] \in Nat
BY ChopperAssumption DEF ChopperAssumption, TypeOK

\* What yielding a second does to the output.
LEMMA Yielded ==
    ASSUME TypeOK, NEW ts \in Ts, Yield(ts)
    PROVE  /\ ts \in Cached
           /\ \A other \in Cached : ts <= other
           /\ out' \in Seq([ts : Ts, rows : SUBSET Piece])
           /\ Len(out') = Len(out) + 1
           /\ DOMAIN out' = DOMAIN out \union {Len(out) + 1}
           /\ Len(out) + 1 \notin DOMAIN out
           /\ \A i \in DOMAIN out : out'[i] = out[i] /\ i < Len(out) + 1
           /\ out'[Len(out) + 1].ts = ts
           /\ out'[Len(out) + 1].rows = cache[ts]
           /\ cache' \in [Ts -> SUBSET Piece]
           /\ cache'[ts] = {}
           /\ \A other \in Ts : other # ts => cache'[other] = cache[other]
<1> DEFINE r == [ts |-> ts, rows |-> cache[ts]]
<1>1. cache \in [Ts -> SUBSET Piece] /\ out \in Seq([ts : Ts, rows : SUBSET Piece])
    BY DEF TypeOK
<1>2. r \in [ts : Ts, rows : SUBSET Piece]
    BY <1>1
<1>3. out' = Append(out, r) /\ cache' = [cache EXCEPT ![ts] = {}]
    BY DEF Yield
<1>4. ts \in Cached /\ \A other \in Cached : ts <= other
    BY DEF Yield
<1>5. out' \in Seq([ts : Ts, rows : SUBSET Piece]) /\ Len(out') = Len(out) + 1
    BY <1>1, <1>2, <1>3
<1>6. DOMAIN out = 1 .. Len(out) /\ DOMAIN out' = 1 .. Len(out') /\ Len(out) \in Nat
    BY <1>1, <1>5
<1>7. \A i \in DOMAIN out : out'[i] = out[i] /\ i < Len(out) + 1
    BY <1>1, <1>2, <1>3, <1>6
<1>8. out'[Len(out) + 1] = r
    BY <1>1, <1>2, <1>3
<1>9. DOMAIN out' = DOMAIN out \union {Len(out) + 1} /\ Len(out) + 1 \notin DOMAIN out
    BY <1>5, <1>6
<1> QED
    BY <1>1, <1>3, <1>4, <1>5, <1>7, <1>8, <1>9

\* What reading a chunk does.
LEMMA ChunkRead ==
    ASSUME TypeOK, NEW s \in Sources, ReadChunk(s)
    PROVE  /\ s \in live /\ pc = "read"
           /\ UNCHANGED <<pc, live, out>>
           /\ turn' = s + 1
           /\ chunks' \in [Sources -> 0 .. MaxChunks]
           /\ chunks'[s] = chunks[s] + 1
           /\ \A other \in Sources : other # s => chunks'[other] = chunks[other]
           /\ <<s, chunks[s] + 1>> \in Piece
           /\ \E seconds \in SUBSET Ts, at \in Ts :
                 /\ Possible(s, seconds, at)
                 /\ recent' = [recent EXCEPT ![s] = at]
                 /\ cache' = Join(cache, seconds, <<s, chunks[s] + 1>>)
                 /\ given' = Join(given, seconds, <<s, chunks[s] + 1>>)
<1>1. chunks \in [Sources -> 0 .. MaxChunks] /\ chunks[s] < MaxChunks /\ chunks' = [chunks EXCEPT ![s] = @ + 1]
    BY DEF ReadChunk, TypeOK
<1>2. MaxChunks \in Nat
    BY ChopperAssumption DEF ChopperAssumption
<1>3. chunks[s] \in Nat /\ chunks[s] + 1 \in 1 .. MaxChunks
    BY <1>1, <1>2
<1>4. <<s, chunks[s] + 1>> \in Piece
    BY <1>3 DEF Piece
<1>5. chunks' \in [Sources -> 0 .. MaxChunks]
    BY <1>1, <1>3
<1> QED
    BY <1>1, <1>4, <1>5 DEF ReadChunk, At, Join

\* The types are preserved by every step.
LEMMA TypeStep == TypeOK /\ [Next]_vars => TypeOK'
<1> SUFFICES ASSUME TypeOK, [Next]_vars PROVE TypeOK'
    OBVIOUS
<1> USE ChopperAssumption DEF ChopperAssumption
<1>1. ASSUME NEW s \in Sources, ReadChunk(s) PROVE TypeOK'
  <2>1. PICK seconds \in SUBSET Ts, at \in Ts :
           /\ Possible(s, seconds, at)
           /\ recent' = [recent EXCEPT ![s] = at]
           /\ cache' = Join(cache, seconds, <<s, chunks[s] + 1>>)
           /\ given' = Join(given, seconds, <<s, chunks[s] + 1>>)
      BY <1>1, ChunkRead
  <2>2. <<s, chunks[s] + 1>> \in Piece
      BY <1>1, ChunkRead
  <2>3. cache' \in [Ts -> SUBSET Piece] /\ given' \in [Ts -> SUBSET Piece]
      BY <2>1, <2>2 DEF Join, TypeOK
  <2>4. recent' \in [Sources -> 0 .. MaxTs]
      BY <2>1 DEF TypeOK, Ts
  <2>5. turn' \in 1 .. N + 1
    <3>1. turn' = s + 1
        BY <1>1 DEF ReadChunk
    <3> QED
        BY <3>1 DEF Sources
  <2>6. pc' = pc /\ live' = live /\ out' = out /\ chunks' \in [Sources -> 0 .. MaxChunks]
      BY <1>1, ChunkRead
  <2> QED
      BY <2>3, <2>4, <2>5, <2>6 DEF TypeOK
<1>2. ASSUME NEW s \in Sources, SourceOver(s) PROVE TypeOK'
    BY <1>2 DEF SourceOver, At, TypeOK
<1>3. ASSUME NEW s \in Sources, SourceFails(s) PROVE TypeOK'
    BY <1>3 DEF SourceFails, At, TypeOK
<1>4. CASE RoundRead
    BY <1>4 DEF RoundRead, TypeOK
<1>5. CASE Emit
  <2>1. PICK ts \in Ts : Yield(ts)
      BY <1>5 DEF Emit, Cached
  <2> QED
      BY <1>5, <2>1, Yielded DEF Emit, TypeOK
<1>6. CASE Emitted
    BY <1>6 DEF Emitted, TypeOK
<1>7. CASE Flush
  <2>1. PICK ts \in Ts : Yield(ts)
      BY <1>7 DEF Flush, Cached
  <2> QED
      BY <1>7, <2>1, Yielded DEF Flush, TypeOK
<1>8. CASE Flushed
    BY <1>8 DEF Flushed, TypeOK
<1>9. CASE UNCHANGED vars
    BY <1>9 DEF vars, TypeOK
<1> QED
    BY <1>1, <1>2, <1>3, <1>4, <1>5, <1>6, <1>7, <1>8, <1>9 DEF Next

\* The pieces keep their numbers, and a new one has the next.
LEMMA NumberedStep == TypeOK /\ Numbered /\ [Next]_vars => Numbered'
<1> SUFFICES ASSUME TypeOK, Numbered, [Next]_vars PROVE Numbered'
    OBVIOUS
<1> USE DEF Numbered
<1>1. ASSUME NEW s \in Sources, ReadChunk(s) PROVE Numbered'
  <2>1. PICK seconds \in SUBSET Ts, at \in Ts : given' = Join(given, seconds, <<s, chunks[s] + 1>>)
      BY <1>1, ChunkRead
  <2>2. SUFFICES ASSUME NEW ts \in Ts, NEW piece \in given'[ts]
                 PROVE  piece[2] <= chunks'[piece[1]]
      OBVIOUS
  <2>3. piece \in given[ts] \/ piece = <<s, chunks[s] + 1>>
      BY <2>1 DEF Join
  <2>4. CASE piece = <<s, chunks[s] + 1>>
      BY <1>1, <2>4, ChunkRead, ChunksType
  <2>5. CASE piece \in given[ts]
    <3>1. piece \in Piece /\ piece[2] <= chunks[piece[1]]
        BY <2>5 DEF TypeOK
    <3>2. piece[1] \in Sources /\ piece[2] \in Nat
        BY <3>1 DEF Piece
    <3>3. chunks[piece[1]] \in Nat /\ chunks[piece[1]] <= chunks'[piece[1]]
      <4> DEFINE from == piece[1]
      <4>1. from \in Sources /\ chunks[from] \in Nat /\ chunks[s] \in Nat
          BY <3>2, ChunksType
      <4>2. chunks'[from] = IF from = s THEN chunks[s] + 1 ELSE chunks[from]
          BY <1>1, <4>1, ChunkRead
      <4> QED
          BY <4>1, <4>2
    <3>4. chunks'[piece[1]] \in Nat
      <4>1. chunks[piece[1]] \in Nat /\ chunks[s] \in Nat
          BY <3>2, ChunksType
      <4>2. chunks'[piece[1]] = IF piece[1] = s THEN chunks[s] + 1 ELSE chunks[piece[1]]
          BY <1>1, <3>2, ChunkRead
      <4> QED
          BY <4>1, <4>2
    <3> QED
        BY <3>1, <3>2, <3>3, <3>4
  <2> QED
      BY <2>3, <2>4, <2>5
<1>2. CASE UNCHANGED <<given, chunks>>
    BY <1>2
<1> QED
    BY <1>1, <1>2 DEF Next, SourceOver, SourceFails, RoundRead, Emit, Emitted, Flush, Flushed, vars

\* Yielding a second moves its pieces from the cache to the output.
LEMMA YieldKeeps ==
    ASSUME TypeOK, NothingLost, NEW ts \in Ts, Yield(ts), UNCHANGED given, pc' # "done"
    PROVE  NothingLost'
<1> DEFINE new == Len(out) + 1
<1>1. /\ DOMAIN out' = DOMAIN out \union {new}
      /\ new \notin DOMAIN out
      /\ \A i \in DOMAIN out : out'[i] = out[i]
      /\ out'[new].ts = ts
      /\ out'[new].rows = cache[ts]
      /\ cache'[ts] = {}
      /\ \A other \in Ts : other # ts => cache'[other] = cache[other]
    BY Yielded
<1>2. \A i \in DOMAIN out : out[i].ts \in Ts
    BY OutType
<1> HIDE DEF new
<1>3. ASSUME NEW other \in Ts, NEW piece \in Piece
      PROVE  piece \in given'[other] <=>
                piece \in cache'[other] \/ \E i \in DOMAIN out' : out'[i].ts = other /\ piece \in out'[i].rows
  <2>1. piece \in given[other] <=>
           piece \in cache[other] \/ \E i \in DOMAIN out : out[i].ts = other /\ piece \in out[i].rows
      BY DEF NothingLost
  <2>2. CASE other = ts
      BY <1>1, <2>1, <2>2
  <2>3. CASE other # ts
      BY <1>1, <2>1, <2>3
  <2> QED
      BY <2>2, <2>3
<1>4. ASSUME NEW i \in DOMAIN out'
      PROVE  out'[i].rows \intersect cache'[out'[i].ts] = {}
  <2>1. CASE i = new
      BY <1>1, <2>1
  <2>2. CASE i \in DOMAIN out
      BY <1>1, <1>2, <2>2 DEF NothingLost
  <2> QED
      BY <1>1, <2>1, <2>2
<1>5. ASSUME NEW i \in DOMAIN out', NEW j \in DOMAIN out', i # j, out'[i].ts = out'[j].ts
      PROVE  out'[i].rows \intersect out'[j].rows = {}
  <2>1. CASE i \in DOMAIN out /\ j \in DOMAIN out
      BY <1>1, <1>5, <2>1 DEF NothingLost
  <2>2. CASE i = new /\ j \in DOMAIN out
    <3>1. out[j].ts = ts /\ out[j].rows \intersect cache[ts] = {}
        BY <1>1, <1>5, <2>2 DEF NothingLost
    <3> QED
        BY <1>1, <2>2, <3>1
  <2>3. CASE j = new /\ i \in DOMAIN out
    <3>1. out[i].ts = ts /\ out[i].rows \intersect cache[ts] = {}
        BY <1>1, <1>5, <2>3 DEF NothingLost
    <3> QED
        BY <1>1, <2>3, <3>1
  <2> QED
      BY <1>1, <1>5, <2>1, <2>2, <2>3
<1> QED
    BY <1>3, <1>4, <1>5 DEF NothingLost

\* No step loses or repeats a row.
LEMMA NothingLostStep == TypeOK /\ Numbered /\ NothingLost /\ [Next]_vars => NothingLost'
<1> SUFFICES ASSUME TypeOK, Numbered, NothingLost, [Next]_vars PROVE NothingLost'
    OBVIOUS
<1>1. ASSUME NEW s \in Sources, ReadChunk(s) PROVE NothingLost'
  <2> DEFINE new == <<s, chunks[s] + 1>>
  <2>1. PICK seconds \in SUBSET Ts, at \in Ts :
           /\ cache' = Join(cache, seconds, new)
           /\ given' = Join(given, seconds, new)
      BY <1>1, ChunkRead
  <2>2. pc' = "read" /\ out' = out /\ new \in Piece
      BY <1>1, ChunkRead
  <2>3. \A ts \in Ts : new \notin given[ts]
      BY <2>2 DEF Numbered, TypeOK
  <2>4. \A i \in DOMAIN out : out[i].ts \in Ts /\ new \notin out[i].rows
      BY <2>2, <2>3, OutType DEF NothingLost
  <2> HIDE DEF new
  <2>5. ASSUME NEW ts \in Ts, NEW piece \in Piece
        PROVE  piece \in given'[ts] <=>
                  piece \in cache'[ts] \/ \E i \in DOMAIN out' : out'[i].ts = ts /\ piece \in out'[i].rows
    <3>1. piece \in given[ts] <=>
             piece \in cache[ts] \/ \E i \in DOMAIN out : out[i].ts = ts /\ piece \in out[i].rows
        BY DEF NothingLost
    <3> QED
        BY <2>1, <2>2, <2>4, <3>1 DEF Join
  <2>6. ASSUME NEW i \in DOMAIN out PROVE out[i].rows \intersect cache'[out[i].ts] = {}
    <3>1. out[i].rows \intersect cache[out[i].ts] = {} /\ out[i].ts \in Ts /\ new \notin out[i].rows
        BY <2>4 DEF NothingLost
    <3>2. cache'[out[i].ts] \subseteq cache[out[i].ts] \union {new}
        BY <2>1, <3>1 DEF Join
    <3> QED
        BY <3>1, <3>2
  <2> QED
      BY <2>2, <2>5, <2>6 DEF NothingLost
<1>2. CASE Emit
  <2>1. PICK ts \in Ts : Yield(ts)
      BY <1>2 DEF Emit, Cached
  <2> QED
      BY <1>2, <2>1, YieldKeeps DEF Emit
<1>3. CASE Flush
  <2>1. PICK ts \in Ts : Yield(ts)
      BY <1>3 DEF Flush, Cached
  <2> QED
      BY <1>3, <2>1, YieldKeeps DEF Flush
<1>4. CASE UNCHANGED <<cache, given, out>> /\ (pc' = "done" => Cached = {})
    BY <1>4 DEF NothingLost, Cached
<1> QED
    BY <1>1, <1>2, <1>3, <1>4
    DEF Next, SourceOver, SourceFails, RoundRead, Emitted, Flushed, vars, NothingLost

\* The second a source is in only grows when no source goes back, and what it
\* gives is not before it.
LEMMA ChunkNotBefore ==
    ASSUME TypeOK, InOrder, NEW s \in Sources, ReadChunk(s)
    PROVE  /\ s \in live
           /\ \A other \in Sources : recent[other] <= recent'[other]
           /\ \A ts \in Ts : ts \in Cached' => ts \in Cached \/ recent[s] <= ts
<1>1. PICK seconds \in SUBSET Ts, at \in Ts :
         /\ Possible(s, seconds, at)
         /\ recent' = [recent EXCEPT ![s] = at]
         /\ cache' = Join(cache, seconds, <<s, chunks[s] + 1>>)
    BY ChunkRead
<1>2. recent \in [Sources -> Nat]
    BY ChopperAssumption DEF ChopperAssumption, TypeOK
<1>3. recent[s] <= at /\ \A ts \in seconds : recent[s] <= ts
    BY <1>1 DEF Possible
<1>4. \A other \in Sources : recent[other] <= recent'[other]
    BY <1>1, <1>2, <1>3
<1>5. \A ts \in Ts : ts \in Cached' => ts \in Cached \/ ts \in seconds
    BY <1>1 DEF Cached, Join
<1> QED
    BY <1>3, <1>4, <1>5, ChunkRead

\* What was given stays behind every source.
LEMMA BehindStep == TypeOK /\ Behind /\ [Next]_vars => Behind'
<1> SUFFICES ASSUME TypeOK, Behind, [Next]_vars, InOrder
             PROVE  \A i \in DOMAIN out' : \A s \in live' : out'[i].ts < recent'[s]
    BY DEF Behind
<1>1. /\ \A s \in Sources : recent[s] \in Nat
      /\ live \subseteq Sources
    BY ChopperAssumption DEF ChopperAssumption, TypeOK
<1>2. \A i \in DOMAIN out : out[i].ts \in Nat /\ \A s \in live : out[i].ts < recent[s]
    BY OutType DEF Behind, Ts
<1>3. ASSUME NEW s \in Sources, ReadChunk(s)
      PROVE  \A i \in DOMAIN out' : \A r \in live' : out'[i].ts < recent'[r]
  <2>1. \A r \in Sources : recent[r] <= recent'[r] /\ recent'[r] \in Nat
    <3>1. TypeOK'
        BY TypeStep
    <3>2. \A r \in Sources : recent'[r] \in Nat
        BY <3>1, ChopperAssumption DEF ChopperAssumption, TypeOK
    <3> QED
        BY <1>3, <3>2, ChunkNotBefore
  <2>2. live' = live /\ out' = out
      BY <1>3 DEF ReadChunk
  <2>3. ASSUME NEW i \in DOMAIN out, NEW r \in live PROVE out[i].ts < recent'[r]
    <3>1. r \in Sources /\ out[i].ts < recent[r] /\ out[i].ts \in Nat
        BY <1>1, <1>2
    <3>2. recent[r] \in Nat /\ recent'[r] \in Nat /\ recent[r] <= recent'[r]
        BY <1>1, <2>1, <3>1
    <3> QED
        BY <3>1, <3>2
  <2> QED
      BY <2>2, <2>3
<1>4. ASSUME NEW s \in Sources, SourceOver(s)
      PROVE  \A i \in DOMAIN out' : \A r \in live' : out'[i].ts < recent'[r]
    BY <1>2, <1>4 DEF SourceOver
<1>5. CASE Emit
  <2>1. PICK ts \in Ts : Ready(ts) /\ Yield(ts)
      BY <1>5 DEF Emit, Cached
  <2>2. \A s \in live : ts < recent[s]
      BY <1>1, <2>1 DEF Ready, Ts
  <2>3. live' = live /\ recent' = recent
      BY <1>5 DEF Emit
  <2> QED
      BY <1>2, <2>1, <2>2, <2>3, Yielded
<1>6. CASE Flush
    BY <1>6 DEF Flush, TypeOK
<1>7. CASE UNCHANGED <<live, recent, out>>
    BY <1>2, <1>7
<1> QED
    BY <1>3, <1>4, <1>5, <1>6, <1>7 DEF Next, SourceFails, RoundRead, Emitted, Flushed, vars

\* What was given stays below what is cached.
LEMMA BelowStep == TypeOK /\ Behind /\ Below /\ [Next]_vars => Below'
<1> SUFFICES ASSUME TypeOK, Behind, Below, [Next]_vars, InOrder
             PROVE  \A i \in DOMAIN out' : \A ts \in Cached' : out'[i].ts < ts
    BY DEF Below
<1>1. \A i \in DOMAIN out : out[i].ts \in Nat /\ \A ts \in Cached : out[i].ts < ts
    BY OutType DEF Below, Ts
<1>2. ASSUME NEW s \in Sources, ReadChunk(s)
      PROVE  \A i \in DOMAIN out' : \A ts \in Cached' : out'[i].ts < ts
  <2>1. SUFFICES ASSUME NEW i \in DOMAIN out, NEW ts \in Ts, ts \in Cached'
                 PROVE  out[i].ts < ts
      BY <1>2 DEF ReadChunk, Cached
  <2>2. s \in live /\ (ts \in Cached \/ recent[s] <= ts)
      BY <1>2, <2>1, ChunkNotBefore
  <2>3. recent[s] \in Nat /\ ts \in Nat /\ out[i].ts \in Nat
      BY <1>1, ChopperAssumption DEF ChopperAssumption, TypeOK, Ts
  <2>4. out[i].ts < recent[s]
      BY <2>2 DEF Behind
  <2> QED
      BY <1>1, <2>2, <2>3, <2>4
<1>3. ASSUME NEW ts \in Ts, Yield(ts)
      PROVE  \A i \in DOMAIN out' : \A other \in Cached' : out'[i].ts < other
  <2>1. \A other \in Cached' : other \in Cached /\ other # ts
      BY <1>3, Yielded DEF Cached
  <2>2. \A other \in Cached' : ts < other
      BY <1>3, <2>1, Yielded DEF Cached, Ts
  <2> QED
      BY <1>1, <1>3, <2>1, <2>2, Yielded
<1>4. CASE UNCHANGED <<cache, out>>
    BY <1>1, <1>4 DEF Cached
<1>5. Emit \/ Flush => \E ts \in Ts : Yield(ts)
    BY DEF Emit, Flush, Cached
<1> QED
    BY <1>2, <1>3, <1>4, <1>5 DEF Next, SourceOver, SourceFails, RoundRead, Emitted, Flushed, vars

\* The next second is above all that were given.
LEMMA AscendingStep == TypeOK /\ Below /\ Ascending /\ [Next]_vars => Ascending'
<1> SUFFICES ASSUME TypeOK, Below, Ascending, [Next]_vars, InOrder
             PROVE  \A i, j \in DOMAIN out' : i < j => out'[i].ts < out'[j].ts
    BY DEF Ascending
<1>1. ASSUME NEW ts \in Ts, Yield(ts)
      PROVE  \A i, j \in DOMAIN out' : i < j => out'[i].ts < out'[j].ts
  <2>1. \A i \in DOMAIN out : out[i].ts < ts
      BY <1>1, Yielded DEF Below
  <2>2. SUFFICES ASSUME NEW i \in DOMAIN out', NEW j \in DOMAIN out', i < j
                 PROVE  out'[i].ts < out'[j].ts
      OBVIOUS
  <2>3. Len(out) \in Nat /\ DOMAIN out' = 1 .. Len(out) + 1
      BY <1>1, Yielded DEF TypeOK
  <2>4. i \in DOMAIN out
      BY <1>1, <2>2, <2>3, Yielded
  <2> QED
      BY <1>1, <2>1, <2>2, <2>4, Yielded DEF Ascending
<1>2. CASE UNCHANGED out
    BY <1>2 DEF Ascending
<1>3. Emit \/ Flush => \E ts \in Ts : Yield(ts)
    BY DEF Emit, Flush, Cached
<1> QED
    BY <1>1, <1>2, <1>3 DEF Next, ReadChunk, SourceOver, SourceFails, RoundRead, Emitted, Flushed, vars

-----------------------------------------------------------------------------

\* The invariant holds in the beginning.
LEMMA Initially == Init => IInv
<1> SUFFICES ASSUME Init PROVE IInv
    OBVIOUS
<1> USE DEF Init
<1>1. TypeOK
    BY ChopperAssumption DEF ChopperAssumption, TypeOK, Sources
<1>2. Numbered /\ NothingLost /\ Behind /\ Below /\ Ascending
    BY DEF Numbered, NothingLost, Behind, Below, Ascending
<1> QED
    BY <1>1, <1>2 DEF IInv

\* The invariant is inductive.
THEOREM Inductive == Spec => []IInv
<1>1. IInv /\ [Next]_vars => IInv'
    BY TypeStep, NumberedStep, NothingLostStep, BehindStep, BelowStep, AscendingStep DEF IInv
<1> QED
    BY Initially, <1>1, PTL DEF Spec

\* The types of the state, and that a minimum is taken of something.
THEOREM TypeCorrect == Spec => []TypeOK
<1>1. IInv => TypeOK
    BY DEF IInv
<1> QED
    BY Inductive, <1>1, PTL

\* No row is lost and none is given twice, in whatever order the rows come.
THEOREM LosesNothing == Spec => []NothingLost
<1>1. IInv => NothingLost
    BY DEF IInv
<1> QED
    BY Inductive, <1>1, PTL

\* The seconds come in ascending order when no source goes back.
THEOREM GivesAscending == Spec => []Ascending
<1>1. IInv => Ascending
    BY DEF IInv
<1> QED
    BY Inductive, <1>1, PTL

\* A second that was given is complete when no source goes back: none of its
\* rows is in the cache, and no other second given has its number.
LEMMA Complete == IInv => CompleteWhenGiven
<1> SUFFICES ASSUME IInv, InOrder, NEW i \in DOMAIN out
             PROVE  out[i].rows = given[out[i].ts]
    BY DEF CompleteWhenGiven
<1> DEFINE ts == out[i].ts
<1>1. TypeOK /\ NothingLost /\ Below /\ Ascending
    BY DEF IInv
<1>2. ts \in Ts /\ out[i].rows \subseteq Piece
    BY <1>1, OutType
<1>3. cache[ts] = {}
    BY <1>1, <1>2 DEF Below, Cached, Ts
<1>4. \A j \in DOMAIN out : out[j].ts = ts => j = i
  <2>1. SUFFICES ASSUME NEW j \in DOMAIN out, j # i, out[j].ts = ts PROVE FALSE
      OBVIOUS
  <2>2. i \in Nat /\ j \in Nat
      BY <1>1 DEF TypeOK
  <2>3. ts \in Nat
      BY <1>2 DEF Ts
  <2> QED
      BY <1>1, <2>1, <2>2, <2>3 DEF Ascending
<1>5. given[ts] \subseteq Piece
    BY <1>1, <1>2 DEF TypeOK
<1>6. \A piece \in Piece : piece \in given[ts] <=> piece \in out[i].rows
    BY <1>1, <1>2, <1>3, <1>4 DEF NothingLost
<1> QED
    BY <1>2, <1>5, <1>6

\* Nothing of a second is read after it was given, when no source goes back.
THEOREM GivesComplete == Spec => []CompleteWhenGiven
BY Inductive, Complete, PTL

-----------------------------------------------------------------------------

\* The seconds of a longer output.
LEMMA StreamGrows ==
    ASSUME TypeOK, NEW ts \in Ts, Yield(ts)
    PROVE  [i \in DOMAIN out' |-> out'[i].ts] = Append([i \in DOMAIN out |-> out[i].ts], ts)
<1> DEFINE old == [i \in DOMAIN out |-> out[i].ts]
           new == [i \in DOMAIN out' |-> out'[i].ts]
<1>1. Len(out) \in Nat /\ DOMAIN out = 1 .. Len(out) /\ DOMAIN out' = 1 .. Len(out) + 1
    BY Yielded DEF TypeOK
<1>2. \A i \in DOMAIN out : out[i].ts \in Ts
    BY OutType
<1>3. old \in Seq(Ts) /\ Len(old) = Len(out)
    BY <1>1, <1>2
<1>4. DOMAIN Append(old, ts) = 1 .. Len(out) + 1
    BY <1>1, <1>3
<1>5. ASSUME NEW i \in 1 .. Len(out) + 1 PROVE Append(old, ts)[i] = new[i]
  <2>1. CASE i = Len(out) + 1
      BY <1>1, <1>3, <2>1, Yielded
  <2>2. CASE i \in DOMAIN out
    <3>1. Append(old, ts)[i] = old[i]
        BY <1>1, <1>3, <2>2
    <3>2. new[i] = out[i].ts /\ old[i] = out[i].ts
        BY <1>1, <2>2, Yielded
    <3> QED
        BY <3>1, <3>2
  <2> QED
      BY <1>1, <2>1, <2>2
<1> QED
    BY <1>1, <1>3, <1>4, <1>5

\* Every step gives the next second of the stream, ends it, or does neither.
LEMMA StreamStep ==
    ASSUME InOrder, IInv, [Next]_vars
    PROVE  [Stream!Next]_(Stream!vars)
<1>1. TypeOK /\ Below
    BY DEF IInv
<1>2. ASSUME NEW ts \in Ts, Yield(ts), pc \in {"emit", "flush"}, UNCHANGED pc
      PROVE  Stream!Emit(ts)
  <2>1. \A i \in DOMAIN out : out[i].ts < ts
      BY <1>1, <1>2, Yielded DEF Below
  <2> QED
      BY <1>1, <1>2, <2>1, StreamGrows DEF Stream!Emit
<1>3. Emit \/ Flush => \E ts \in Ts : Stream!Emit(ts)
    BY <1>2 DEF Emit, Flush, Cached
<1>4. CASE Flushed
    BY <1>4 DEF Flushed, Stream!Next, Stream!End
<1>5. ASSUME NEW s \in Sources, SourceFails(s) PROVE Stream!End
    BY <1>5 DEF SourceFails, At, Stream!End
<1>6. CASE UNCHANGED out /\ (pc' \in {"done", "failed"} <=> pc \in {"done", "failed"})
    BY <1>6 DEF Stream!vars
<1>7. ASSUME NEW s \in Sources, SourceOver(s) PROVE UNCHANGED out /\ (pc' \in {"done", "failed"} <=> pc \in {"done", "failed"})
    BY <1>7 DEF SourceOver, At
<1>8. RoundRead \/ Emitted \/ UNCHANGED vars \/ (\E s \in Sources : ReadChunk(s)) => UNCHANGED out /\ (pc' \in {"done", "failed"} <=> pc \in {"done", "failed"})
    BY DEF RoundRead, Emitted, ReadChunk, vars
<1> QED
    BY <1>3, <1>4, <1>5, <1>6, <1>7, <1>8 DEF Next, Stream!Next

\* The chopper is a stream of seconds when no source goes back.
THEOREM Refinement ==
    ASSUME InOrder
    PROVE  Spec => Implements
<1>1. Init => Stream!Init
    BY DEF Init, Stream!Init
<1>2. IInv /\ [Next]_vars => [Stream!Next]_(Stream!vars)
    BY StreamStep
<1> QED
    BY Inductive, <1>1, <1>2, PTL DEF Spec, Implements, Stream!Spec

\* The rows of a second are given once, together and all (chopper.py).
THEOREM GivesWhole == Spec => []RowsWhole
<1>1. RowsWhole <=> NothingLost /\ CompleteWhenGiven
    BY DEF RowsWhole
<1> QED
    BY <1>1, LosesNothing, GivesComplete, PTL

-----------------------------------------------------------------------------
(***************************************************************************)
(* Autostop: for any configuration and any seconds the test is stopped at  *)
(* the first second at which a criterion asks for it by all the seconds so *)
(* far.                                                                    *)
(*                                                                         *)
(* What a criterion remembers is a digest of those seconds (Remembers):    *)
(* the length of the run of seconds over the limit that ends now, the      *)
(* newest values, the numbers of their seconds.  One call of notify keeps  *)
(* the digest right, and decides by it as the reference decides by the     *)
(* seconds. The sums and the comparisons of a window are not looked into.  *)
(***************************************************************************)

Second == [sample : Samples, now : Clock]

\* The numbers of the seconds so far.
Numbers(seconds) == [j \in 1..Len(seconds) |-> j]

\* The run of seconds over the limit that ends now, and where it began.
RemembersStreak(c, m, seconds) ==
    /\ m.count \in 0..Len(seconds)
    /\ m.count < c.seconds
    /\ \A j \in (Len(seconds) - m.count + 1)..Len(seconds) : Exceeds(c, seconds[j].sample)
    /\ m.count < Len(seconds) => ~Exceeds(c, seconds[Len(seconds) - m.count].sample)
    /\ m.count > 0 => m.cause = Len(seconds) - m.count + 1

RemembersWindow(c, m, seconds) ==
    /\ m.values = Newest(Values(c, seconds), c.seconds)
    /\ m.window = Newest(Numbers(seconds), c.seconds)
    /\ m.cause = 0

RemembersTrend(c, m, seconds) ==
    /\ m.values = Newest(Tangents(c, seconds), c.seconds)
    /\ m.last = IF seconds = <<>> THEN 0 ELSE Matched(c, seconds[Len(seconds)].sample)
    /\ m.window = Newest(Numbers(seconds), c.seconds - 1)
    /\ m.cause = 0

Fields == {"count", "values", "last", "window", "cause"}

\* What a criterion that has not fired knows of the seconds so far.
Remembers(c, m, seconds) ==
    /\ DOMAIN m = Fields
    /\ c.type \in Streaks => RemembersStreak(c, m, seconds)
    /\ c.type \in Windows => RemembersWindow(c, m, seconds)
    /\ c.type = "http_trend" => RemembersTrend(c, m, seconds)
    /\ c.type = "limit" => m.cause = 0

-----------------------------------------------------------------------------
(* Sequences *)

\* The newest elements of a sequence.
LEMMA NewestProperties ==
    ASSUME NEW S, NEW s \in Seq(S), NEW w \in Nat
    PROVE  /\ Newest(s, w) \in Seq(S)
           /\ Len(Newest(s, w)) = IF Len(s) <= w THEN Len(s) ELSE w
           /\ Len(s) <= w => Newest(s, w) = s
           /\ Len(s) >= w => \A i \in 1..w : Newest(s, w)[i] = s[Len(s) - w + i]
<1>1. Len(s) \in Nat /\ DOMAIN s = 1..Len(s) /\ s \in [1..Len(s) -> S]
    BY LenProperties
<1>2. CASE Len(s) <= w
  <2>1. Newest(s, w) = s
      BY <1>2 DEF Newest
  <2>2. Len(s) >= w => \A i \in 1..w : Len(s) - w + i = i
      BY <1>1, <1>2
  <2> QED
      BY <2>1, <2>2, <1>2
<1>3. CASE ~(Len(s) <= w)
  <2> DEFINE t == [j \in 1..w |-> s[Len(s) - w + j]]
  <2>1. Newest(s, w) = t
      BY <1>3 DEF Newest
  <2>2. \A j \in 1..w : Len(s) - w + j \in 1..Len(s)
      BY <1>1, <1>3
  <2>3. t \in [1..w -> S]
      BY <1>1, <2>2
  <2>4. t \in Seq(S) /\ Len(t) = w
    <3> HIDE DEF t
    <3> QED
        BY <2>3
  <2> QED
      BY <2>1, <2>4, <1>3
<1> QED
    BY <1>2, <1>3

\* A sequence that is trimmed whenever it grows holds the newest elements.
LEMMA TrimKeepsNewest ==
    ASSUME NEW S, NEW s \in Seq(S), NEW x \in S, NEW w \in Nat \ {0}
    PROVE  /\ Trim(Append(Newest(s, w), x), w) = Newest(Append(s, x), w)
           /\ (Len(Append(Newest(s, w), x)) > w) <=> (Len(s) >= w)
<1> DEFINE t == Newest(s, w)
           a == Append(s, x)
           b == Append(t, x)
           u == Trim(b, w)
           v == Newest(a, w)
<1>1. PICK n \in Nat : Len(s) = n
    BY LenProperties
<1>2. /\ t \in Seq(S)
      /\ Len(t) = IF n <= w THEN n ELSE w
      /\ n <= w => t = s
      /\ n >= w => \A i \in 1..w : t[i] = s[n - w + i]
    BY <1>1, NewestProperties
<1>3. /\ a \in Seq(S) /\ Len(a) = n + 1 /\ a[n + 1] = x
      /\ \A i \in 1..n : a[i] = s[i]
    BY <1>1, AppendProperties
<1>4. v \in Seq(S)
    BY <1>3, NewestProperties
<1>5. /\ Len(v) = IF n + 1 <= w THEN n + 1 ELSE w
      /\ n + 1 <= w => v = a
      /\ n + 1 >= w => \A i \in 1..w : v[i] = a[(n + 1) - w + i]
  <2> HIDE DEF a
  <2>0. a \in Seq(S) /\ w \in Nat
      BY <1>3
  <2>1. /\ Len(v) = IF Len(a) <= w THEN Len(a) ELSE w
        /\ Len(a) <= w => v = a
        /\ Len(a) >= w => \A i \in 1..w : v[i] = a[Len(a) - w + i]
      BY ONLY <2>0, NewestProperties DEF v
  <2> HIDE DEF v
  <2> QED
      BY <1>3, <2>1
<1> HIDE DEF t, v
<1>6. /\ b \in Seq(S) /\ b # <<>> /\ Len(b) = Len(t) + 1 /\ b[Len(t) + 1] = x
      /\ \A i \in 1..Len(t) : b[i] = t[i]
    BY <1>2, AppendProperties
<1>7. CASE n < w
  <2>1. b = a
    <3>1. t = s
        BY <1>7, <1>2
    <3> QED
        BY <3>1
  <2>2. u = b /\ v = a
      BY <1>7, <1>3, <1>5, <2>1 DEF Trim
  <2> QED
      BY <1>1, <1>3, <1>7, <2>1, <2>2 DEF t, v
<1>8. CASE n >= w
  <2>1. Len(t) = w /\ Len(b) = w + 1
      BY <1>8, <1>2, <1>6
  <2>2. u = Tail(b)
      BY <2>1 DEF Trim
  <2>3. u \in Seq(S) /\ Len(u) = w /\ \A i \in 1..w : u[i] = b[i + 1]
      BY <1>6, <2>1, <2>2, HeadTailProperties
  <2>4. Len(v) = w /\ \A i \in 1..w : v[i] = a[(n + 1) - w + i]
    <3> HIDE DEF a
    <3>1. n + 1 >= w /\ (n + 1 <= w => n + 1 = w)
        BY <1>8
    <3> QED
        BY <3>1, <1>5
  <2> HIDE DEF a, b, u
  <2>5. ASSUME NEW i \in 1..w
        PROVE  u[i] = v[i]
    <3>1. CASE i = w
      <4>1. u[i] = x
          BY <3>1, <1>6, <2>1, <2>3
      <4>2. (n + 1) - w + i = n + 1
          BY <3>1
      <4>3. v[i] = x
          BY <4>2, <1>3, <2>4
      <4> QED
          BY <4>1, <4>3
    <3>2. CASE i # w
      <4>1. i + 1 \in 1..w /\ (n + 1) - w + i \in 1..n /\ n - w + (i + 1) = (n + 1) - w + i
          BY <3>2, <1>8
      <4>2. u[i] = s[n - w + (i + 1)]
          BY <4>1, <1>2, <1>6, <1>8, <2>1, <2>3
      <4>3. v[i] = s[(n + 1) - w + i]
          BY <4>1, <1>3, <2>4
      <4> QED
          BY <4>1, <4>2, <4>3
    <3> QED
        BY <3>1, <3>2
  <2>6. u = v
      BY <1>4, <2>3, <2>4, <2>5, SeqEqual
  <2> QED
      BY <1>1, <1>8, <2>1, <2>6 DEF a, b, t, u, v
<1> QED
    BY <1>7, <1>8

\* A sequence given by its elements is the other with one more.
LEMMA OneMore ==
    ASSUME NEW S, NEW s \in Seq(S), NEW x \in S, NEW t \in Seq(S),
           Len(t) = Len(s) + 1,
           \A i \in 1..Len(s) : t[i] = s[i],
           t[Len(s) + 1] = x
    PROVE  t = Append(s, x)
<1> DEFINE a == Append(s, x)
<1>1. /\ a \in Seq(S) /\ Len(a) = Len(s) + 1 /\ a[Len(s) + 1] = x
      /\ \A i \in 1..Len(s) : a[i] = s[i]
    BY AppendProperties
<1>2. Len(s) \in Nat
    BY LenProperties
<1> HIDE DEF a
<1>3. \A i \in 1..Len(t) : t[i] = a[i]
    BY <1>1, <1>2
<1> QED
    BY <1>1, <1>3, SeqEqual DEF a

-----------------------------------------------------------------------------
(* What the seconds give a criterion *)

ValuesOf(c, D) == {Value(c, e.sample) : e \in D}

\* One more second is one more value.
LEMMA ValuesGrow ==
    ASSUME NEW c, NEW D, NEW h \in Seq(D), NEW d \in D
    PROVE  /\ Values(c, h) \in Seq(ValuesOf(c, D)) /\ Value(c, d.sample) \in ValuesOf(c, D)
           /\ Len(Values(c, h)) = Len(h)
           /\ Values(c, Append(h, d)) = Append(Values(c, h), Value(c, d.sample))
<1> DEFINE S == ValuesOf(c, D)
<1>0. \A e \in D : Value(c, e.sample) \in S
    BY DEF ValuesOf
<1> HIDE DEF S
<1>1. PICK n \in Nat : Len(h) = n
    BY LenProperties
<1>2. \A i \in 1..n : h[i] \in D
    BY <1>1, ElementOfSeq
<1>3. /\ Append(h, d) \in Seq(D) /\ Len(Append(h, d)) = n + 1 /\ Append(h, d)[n + 1] = d
      /\ \A i \in 1..n : Append(h, d)[i] = h[i]
    BY <1>1, AppendProperties
<1> DEFINE s == Values(c, h)
           t == Values(c, Append(h, d))
           x == Value(c, d.sample)
<1>4. s = [j \in 1..n |-> Value(c, h[j].sample)]
    BY <1>1 DEF Values
<1>5. t = [j \in 1..(n + 1) |-> Value(c, Append(h, d)[j].sample)]
    BY <1>3 DEF Values
<1> HIDE DEF s, t
<1>6. s \in [1..n -> S] /\ x \in S
    BY <1>0, <1>2, <1>4
<1>7. t \in [1..(n + 1) -> S]
  <2>1. \A i \in 1..(n + 1) : Append(h, d)[i] \in D
      BY <1>3, ElementOfSeq
  <2> QED
      BY <2>1, <1>0, <1>5
<1>8. s \in Seq(S) /\ Len(s) = n /\ t \in Seq(S) /\ Len(t) = n + 1
  <2>1. s \in Seq(S) /\ Len(s) = n
      BY ONLY <1>6, n \in Nat
  <2>2. t \in Seq(S) /\ Len(t) = n + 1
      BY ONLY <1>7, n \in Nat
  <2> QED
      BY <2>1, <2>2
<1>9. \A i \in 1..n : t[i] = s[i]
    BY <1>3, <1>4, <1>5
<1>10. t[n + 1] = x
    BY <1>3, <1>5
<1>11. t = Append(s, x)
    BY <1>6, <1>8, <1>9, <1>10, OneMore
<1> QED
    BY <1>1, <1>6, <1>8, <1>11 DEF s, t, S

\* One more second is one more number.
LEMMA NumbersGrow ==
    ASSUME NEW D, NEW h \in Seq(D), NEW d \in D
    PROVE  /\ Numbers(h) \in Seq(Nat) /\ Len(Numbers(h)) = Len(h)
           /\ \A i \in 1..Len(h) : Numbers(h)[i] = i
           /\ Numbers(Append(h, d)) = Append(Numbers(h), Len(h) + 1)
<1>1. PICK n \in Nat : Len(h) = n
    BY LenProperties
<1>2. Len(Append(h, d)) = n + 1
    BY <1>1, AppendProperties
<1> DEFINE s == Numbers(h)
           t == Numbers(Append(h, d))
<1>3. s = [j \in 1..n |-> j] /\ t = [j \in 1..(n + 1) |-> j]
    BY <1>1, <1>2 DEF Numbers
<1> HIDE DEF s, t
<1>4. s \in Seq(Nat) /\ Len(s) = n /\ t \in Seq(Nat) /\ Len(t) = n + 1
  <2>1. s \in [1..n -> Nat] /\ t \in [1..(n + 1) -> Nat]
      BY <1>3
  <2> QED
      BY <2>1
<1>5. t = Append(s, n + 1)
    BY <1>3, <1>4, OneMore
<1> QED
    BY <1>1, <1>3, <1>4, <1>5 DEF s, t

\* The differences of the numbers of matching codes, and the last number.
Differences(c, D) ==
    {0} \union {Matched(c, e.sample) - 0 : e \in D}
        \union UNION {{Matched(c, e.sample) - Matched(c, f.sample) : f \in D} : e \in D}
LastMatched(c, h) == IF h = <<>> THEN 0 ELSE Matched(c, h[Len(h)].sample)

\* One more second is one more tangent.
LEMMA TangentsGrow ==
    ASSUME NEW c, NEW D, NEW h \in Seq(D), NEW d \in D
    PROVE  /\ Tangents(c, h) \in Seq(Differences(c, D))
           /\ Matched(c, d.sample) - LastMatched(c, h) \in Differences(c, D)
           /\ Len(Tangents(c, h)) = Len(h) + 1
           /\ Tangents(c, Append(h, d))
                = Append(Tangents(c, h), Matched(c, d.sample) - LastMatched(c, h))
<1> DEFINE S == Differences(c, D)
           last == LastMatched(c, h)
<1>1. PICK n \in Nat : Len(h) = n
    BY LenProperties
<1>2. \A i \in 1..n : h[i] \in D
    BY <1>1, ElementOfSeq
<1>3. /\ Append(h, d) \in Seq(D) /\ Len(Append(h, d)) = n + 1 /\ Append(h, d)[n + 1] = d
      /\ \A i \in 1..n : Append(h, d)[i] = h[i]
    BY <1>1, AppendProperties
<1> DEFINE g == Append(h, d)
           s == Tangents(c, h)
           t == Tangents(c, g)
           x == Matched(c, d.sample) - last
<1>4. s = [j \in 1..(n + 1) |->
             IF j = 1 THEN 0
             ELSE Matched(c, h[j - 1].sample) - IF j = 2 THEN 0 ELSE Matched(c, h[j - 2].sample)]
    BY <1>1 DEF Tangents
<1>5. t = [j \in 1..((n + 1) + 1) |->
             IF j = 1 THEN 0
             ELSE Matched(c, g[j - 1].sample) - IF j = 2 THEN 0 ELSE Matched(c, g[j - 2].sample)]
    BY <1>3 DEF Tangents
<1>6. h = <<>> <=> n = 0
    BY <1>1, EmptySeq
<1>a. /\ 0 \in S /\ \A e \in D : Matched(c, e.sample) - 0 \in S
      /\ \A e \in D : \A f \in D : Matched(c, e.sample) - Matched(c, f.sample) \in S
  <2>1. 0 \in S /\ \A e \in D : Matched(c, e.sample) - 0 \in S
      BY Zenon DEF Differences
  <2>2. ASSUME NEW e \in D, NEW f \in D
        PROVE  Matched(c, e.sample) - Matched(c, f.sample) \in S
    <3> DEFINE X == {Matched(c, e.sample) - Matched(c, k.sample) : k \in D}
    <3>1. X \in {{Matched(c, i.sample) - Matched(c, k.sample) : k \in D} : i \in D}
        OBVIOUS
    <3>2. Matched(c, e.sample) - Matched(c, f.sample) \in X
        OBVIOUS
    <3> HIDE DEF X
    <3> QED
        BY <3>1, <3>2 DEF Differences
  <2> QED
      BY <2>1, <2>2
<1>b. last = IF n = 0 THEN 0 ELSE Matched(c, h[n].sample)
    BY <1>1, <1>6 DEF LastMatched
<1> HIDE DEF S, last
<1>7. x \in S
    BY <1>2, <1>a, <1>b
<1> HIDE DEF s, t, g, S, last
<1>8. \A i \in 1..(n + 1) : g[i] \in D
    BY <1>3, ElementOfSeq DEF g
<1>9. s \in [1..(n + 1) -> S]
  <2>1. ASSUME NEW j \in 1..(n + 1)
        PROVE  s[j] \in S
    <3>1. CASE j = 1
        BY <3>1, <1>4, <1>a
    <3>2. CASE j = 2
      <4>1. 1 \in 1..n /\ s[j] = Matched(c, h[1].sample) - 0
          BY <3>2, <1>4
      <4> QED
          BY ONLY <4>1, <1>2, <1>a
    <3>3. CASE j # 1 /\ j # 2
      <4>1. /\ j - 1 \in 1..n /\ j - 2 \in 1..n
            /\ s[j] = Matched(c, h[j - 1].sample) - Matched(c, h[j - 2].sample)
          BY <3>3, <1>4
      <4> QED
          BY ONLY <4>1, <1>2, <1>a
    <3> QED
        BY <3>1, <3>2, <3>3
  <2> QED
      BY <2>1, <1>4
<1>10. t \in [1..((n + 1) + 1) -> S]
  <2>1. ASSUME NEW j \in 1..((n + 1) + 1)
        PROVE  t[j] \in S
    <3>1. CASE j = 1
        BY <3>1, <1>5, <1>a
    <3>2. CASE j = 2
      <4>1. 1 \in 1..(n + 1) /\ t[j] = Matched(c, g[1].sample) - 0
          BY <3>2, <1>5
      <4> QED
          BY ONLY <4>1, <1>8, <1>a
    <3>3. CASE j # 1 /\ j # 2
      <4>1. /\ j - 1 \in 1..(n + 1) /\ j - 2 \in 1..(n + 1)
            /\ t[j] = Matched(c, g[j - 1].sample) - Matched(c, g[j - 2].sample)
          BY <3>3, <1>5
      <4> QED
          BY ONLY <4>1, <1>8, <1>a
    <3> QED
        BY <3>1, <3>2, <3>3
  <2> QED
      BY <2>1, <1>5
<1>11. s \in Seq(S) /\ Len(s) = n + 1 /\ t \in Seq(S) /\ Len(t) = (n + 1) + 1
  <2>1. n + 1 \in Nat /\ (n + 1) + 1 \in Nat
      OBVIOUS
  <2>2. s \in Seq(S) /\ Len(s) = n + 1
      BY ONLY <1>9, <2>1
  <2>3. t \in Seq(S) /\ Len(t) = (n + 1) + 1
      BY ONLY <1>10, <2>1
  <2> QED
      BY <2>2, <2>3
<1>12. ASSUME NEW i \in 1..(n + 1)
       PROVE  t[i] = s[i]
  <2>1. i # 1 => i - 1 \in 1..n /\ g[i - 1] = h[i - 1]
      BY <1>3 DEF g
  <2>2. i # 1 /\ i # 2 => i - 2 \in 1..n /\ g[i - 2] = h[i - 2]
      BY <1>3 DEF g
  <2> QED
      BY <2>1, <2>2, <1>4, <1>5
<1>13. t[(n + 1) + 1] = x
  <2>1. g[n + 1] = d
      BY <1>3 DEF g
  <2>2. CASE n = 0
      BY <2>1, <2>2, <1>5, <1>b
  <2>3. CASE n # 0
    <3>1. g[n] = h[n] /\ last = Matched(c, h[n].sample)
        BY <2>3, <1>3, <1>b DEF g
    <3> QED
        BY <2>1, <2>3, <3>1, <1>5
  <2> QED
      BY <2>2, <2>3
<1>14. t = Append(s, x)
    BY <1>7, <1>11, <1>12, <1>13, OneMore
<1> QED
    BY <1>1, <1>7, <1>11, <1>14 DEF s, t, g, S, last

-----------------------------------------------------------------------------
(* One call of notify *)

\* After the call the criterion fires exactly when the seconds ask for it, with
\* a cause in the interval, and else remembers one second more.
Right(c, m, seconds, d) ==
    /\ Fires(c, m, d) <=> Asked(c, seconds)
    /\ ~Fires(c, m, d) => Remembers(c, m, seconds)
    /\ Fires(c, m, d) /\ m.cause # 0 => m.cause \in Interval(c, seconds)

\* The type of a criterion is of one kind.
LEMMA Kinds ==
    ASSUME NEW c \in Criterion
    PROVE  /\ c.type \in Streaks => c.type \notin Windows /\ c.type \notin {"http_trend", "limit", "total_time"}
           /\ c.type \in Windows => c.type \notin Streaks /\ c.type \notin {"http_trend", "limit"}
           /\ c.type = "http_trend" => c.type \notin Streaks \union Windows \union {"limit"}
           /\ c.type = "limit" => c.type \notin Streaks \union Windows \union {"http_trend"}
           /\ c.type \in Streaks \union Windows \union {"http_trend", "limit"}
BY DEF Criterion, Types, Streaks, Windows, Negative

\* The seconds with one more.
LEMMA SecondsGrow ==
    ASSUME NEW D, NEW h \in Seq(D), NEW d \in D
    PROVE  /\ Len(h) \in Nat
           /\ Append(h, d) \in Seq(D) /\ Append(h, d) # <<>>
           /\ Len(Append(h, d)) = Len(h) + 1
           /\ Append(h, d)[Len(h) + 1] = d
           /\ \A i \in 1..Len(h) : Append(h, d)[i] = h[i]
BY AppendProperties, LenProperties

\* A basic criterion counts right.
LEMMA StreakRight ==
    ASSUME NEW c \in Criterion, c.type \in Streaks,
           NEW D, NEW h \in Seq(D), NEW d \in D,
           NEW m, Remembers(c, m, h)
    PROVE  Right(c, Notify(c, m, Len(h) + 1, d.sample), Append(h, d), d)
<1> DEFINE g == Append(h, d)
           m2 == Notify(c, m, Len(h) + 1, d.sample)
<1>1. PICK n \in Nat : Len(h) = n
    BY LenProperties
<1>2. Len(g) = n + 1 /\ g[n + 1] = d /\ \A i \in 1..n : g[i] = h[i]
    BY <1>1, SecondsGrow
<1>3. PICK w \in Nat \ {0} : c.seconds = w
    BY DEF Criterion
<1>4. c.type \notin Windows /\ c.type # "http_trend" /\ c.type # "limit" /\ c.type # "total_time"
    BY Kinds
<1>5. /\ DOMAIN m = Fields
      /\ RemembersStreak(c, m, h)
    BY DEF Remembers
<1>6. PICK k \in Nat : m.count = k
    BY <1>1, <1>5 DEF RemembersStreak
<1>7. /\ k <= n /\ k < w
      /\ \A j \in (n - k + 1)..n : Exceeds(c, h[j].sample)
      /\ k < n => ~Exceeds(c, h[n - k].sample)
      /\ k > 0 => m.cause = n - k + 1
    BY <1>1, <1>3, <1>5, <1>6 DEF RemembersStreak
<1>8. m2 = StreakNotify(c, m, n + 1, d.sample)
    BY <1>1, <1>4 DEF Notify
<1>9. /\ Asked(c, g) <=> /\ n + 1 - w + 1 > 0
                         /\ \A j \in (n + 1 - w + 1)..(n + 1) : Exceeds(c, g[j].sample)
      /\ Interval(c, g) = {n + 1 - w + 1}
  <2> HIDE DEF g
  <2>1. FirstOf(c, g) = n + 1 - w + 1
      BY <1>2, <1>3 DEF FirstOf
  <2>2. Asked(c, g) <=> /\ FirstOf(c, g) > 0
                        /\ \A j \in FirstOf(c, g)..Len(g) : Exceeds(c, g[j].sample)
      BY <1>4, Zenon DEF Asked
  <2>3. Interval(c, g) = {FirstOf(c, g)}
      BY <1>4 DEF Interval
  <2> QED
      BY <2>1, <2>2, <2>3, <1>2
<1>10. Fires(c, m2, d) <=> m2.count > 0 /\ m2.count >= w
    BY <1>3, <1>4 DEF Fires
<1>11. Remembers(c, m2, g) <=> DOMAIN m2 = Fields /\ RemembersStreak(c, m2, g)
    BY <1>4 DEF Remembers
<1> HIDE DEF g, m2
<1>12. CASE Exceeds(c, d.sample)
  <2>1. /\ DOMAIN m2 = Fields
        /\ m2.count = k + 1
        /\ m2.cause = IF k = 0 THEN n + 1 ELSE m.cause
      BY <1>5, <1>6, <1>8, <1>12 DEF StreakNotify, Fields
  <2>2. m2.count = k + 1 /\ m2.cause = n - k + 1
      BY <2>1, <1>7
  <2>3. \A j \in (n - k + 1)..(n + 1) : Exceeds(c, g[j].sample)
    <3> TAKE j \in (n - k + 1)..(n + 1)
    <3>1. CASE j = n + 1
        BY <3>1, <1>2, <1>12
    <3>2. CASE j # n + 1
      <4>1. j \in (n - k + 1)..n /\ j \in 1..n
          BY <3>2, <1>7
      <4> QED
          BY <4>1, <1>2, <1>7
    <3> QED
        BY <3>1, <3>2
  <2>4. k < n => ~Exceeds(c, g[n - k].sample)
      BY <1>2, <1>7
  <2>5. Fires(c, m2, d) <=> k + 1 = w
      BY <2>2, <1>7, <1>10
  <2>6. CASE k + 1 = w
    <3>1. n + 1 - w + 1 = n - k + 1 /\ n - k + 1 > 0
        BY <2>6, <1>7
    <3> QED
        BY <2>2, <2>3, <2>5, <2>6, <3>1, <1>9 DEF Right, g, m2
  <2>7. CASE k + 1 # w
    <3>1. k + 1 < w
        BY <2>7, <1>7
    <3>2. ~Asked(c, g)
      <4>1. CASE k = n
          BY <4>1, <3>1, <1>9
      <4>2. CASE k < n
        <5>1. n - k \in (n + 1 - w + 1)..(n + 1)
            BY <4>2, <3>1
        <5> QED
            BY <5>1, <4>2, <2>4, <1>9
      <4> QED
          BY <4>1, <4>2, <1>7
    <3>3. RemembersStreak(c, m2, g)
      <4>1. Len(g) - m2.count + 1 = n - k + 1 /\ Len(g) - m2.count = n - k
          BY <2>2, <1>2
      <4>2. m2.count \in 0..Len(g) /\ m2.count < c.seconds /\ (m2.count < Len(g) => k < n)
          BY <2>2, <3>1, <1>2, <1>3, <1>7
      <4> QED
          BY <4>1, <4>2, <2>2, <2>3, <2>4, <1>2 DEF RemembersStreak
    <3> QED
        BY <2>1, <2>2, <2>5, <2>7, <3>2, <3>3, <1>11 DEF Right, g, m2
  <2> QED
      BY <2>6, <2>7
<1>13. CASE ~Exceeds(c, d.sample)
  <2>1. DOMAIN m2 = Fields /\ m2.count = 0
      BY <1>5, <1>8, <1>13 DEF StreakNotify, Fields
  <2>2. ~Fires(c, m2, d)
      BY <2>1, <1>10
  <2>3. ~Asked(c, g)
    <3>1. n + 1 \in (n + 1 - w + 1)..(n + 1)
        OBVIOUS
    <3> QED
        BY <3>1, <1>2, <1>9, <1>13
  <2>4. RemembersStreak(c, m2, g)
      BY <2>1, <1>2, <1>3, <1>13 DEF RemembersStreak
  <2> QED
      BY <2>1, <2>2, <2>3, <2>4, <1>11 DEF Right, g, m2
<1> QED
    BY <1>12, <1>13

\* The oldest of the numbers in a window.
LEMMA OldestNumber ==
    ASSUME NEW D, NEW h \in Seq(D), NEW n \in Nat \ {0}, Len(h) = n, NEW w \in Nat \ {0}
    PROVE  /\ Len(Newest(Numbers(h), w)) = IF n <= w THEN n ELSE w
           /\ Head(Newest(Numbers(h), w)) = IF n <= w THEN 1 ELSE n - w + 1
<1> DEFINE s == Numbers(h)
           t == Newest(s, w)
<1>1. s = [j \in 1..n |-> j]
    BY DEF Numbers
<1>2. s \in Seq(Nat) /\ Len(s) = n
  <2>1. s \in [1..n -> Nat]
      BY <1>1
  <2> HIDE DEF s
  <2> QED
      BY ONLY <2>1, n \in Nat
<1> HIDE DEF s
<1>3. /\ t \in Seq(Nat) /\ Len(t) = IF n <= w THEN n ELSE w
      /\ n <= w => t = s
      /\ n >= w => \A i \in 1..w : t[i] = s[n - w + i]
  <2>0. s \in Seq(Nat) /\ w \in Nat
      BY <1>2
  <2>1. /\ t \in Seq(Nat) /\ Len(t) = IF Len(s) <= w THEN Len(s) ELSE w
        /\ Len(s) <= w => t = s
        /\ Len(s) >= w => \A i \in 1..w : t[i] = s[Len(s) - w + i]
      BY ONLY <2>0, NewestProperties DEF t
  <2> HIDE DEF t
  <2> QED
      BY <1>2, <2>1
<1> HIDE DEF t
<1>4. t[1] = IF n <= w THEN 1 ELSE n - w + 1
  <2>1. CASE n <= w
      BY <2>1, <1>1, <1>3
  <2>2. CASE n > w
    <3>1. 1 \in 1..w /\ n - w + 1 \in 1..n
        BY <2>2
    <3> QED
        BY <2>2, <3>1, <1>1, <1>3
  <2> QED
      BY <2>1, <2>2
<1>5. Head(t) = t[1]
    BY <1>3
<1> QED
    BY <1>3, <1>4, <1>5 DEF s, t

\* A cumulative criterion keeps the right window.
LEMMA WindowRight ==
    ASSUME NEW c \in Criterion, c.type \in Windows,
           NEW D, NEW h \in Seq(D), NEW d \in D,
           NEW m, Remembers(c, m, h)
    PROVE  Right(c, Notify(c, m, Len(h) + 1, d.sample), Append(h, d), d)
<1> DEFINE g == Append(h, d)
           m2 == Notify(c, m, Len(h) + 1, d.sample)
           v == Newest(Values(c, g), c.seconds)
           r == Newest(Numbers(g), c.seconds)
           q == Append(Newest(Numbers(h), c.seconds), Len(h) + 1)
<1>1. PICK n \in Nat : Len(h) = n
    BY LenProperties
<1>2. g \in Seq(D) /\ Len(g) = n + 1
    BY <1>1, SecondsGrow
<1>3. PICK w \in Nat \ {0} : c.seconds = w
    BY DEF Criterion
<1>4. c.type \notin Streaks /\ c.type # "http_trend" /\ c.type # "limit"
    BY Kinds
<1>5. /\ DOMAIN m = Fields
      /\ m.values = Newest(Values(c, h), c.seconds)
      /\ m.window = Newest(Numbers(h), c.seconds)
      /\ m.cause = 0
    BY DEF Remembers, RemembersWindow
<1>6. Trim(Append(m.values, Value(c, d.sample)), c.seconds) = v
  <2> DEFINE S == ValuesOf(c, D)
             s == Values(c, h)
             x == Value(c, d.sample)
  <2>1. s \in Seq(S) /\ x \in S /\ Values(c, g) = Append(s, x)
      BY ValuesGrow
  <2> HIDE DEF S, s, x, g
  <2>2. Trim(Append(Newest(s, w), x), w) = Newest(Append(s, x), w)
      BY <2>1, TrimKeepsNewest
  <2> QED
      BY <2>1, <2>2, <1>3, <1>5 DEF s, x
<1>7. Trim(q, c.seconds) = r
  <2> DEFINE s == Numbers(h)
  <2>1. s \in Seq(Nat) /\ n + 1 \in Nat /\ Numbers(g) = Append(s, n + 1)
      BY <1>1, NumbersGrow
  <2> HIDE DEF s, g
  <2>2. Trim(Append(Newest(s, w), n + 1), w) = Newest(Append(s, n + 1), w)
      BY <2>1, TrimKeepsNewest
  <2> QED
      BY <2>1, <2>2, <1>1, <1>3 DEF s
<1>8. Len(v) = IF n + 1 <= w THEN n + 1 ELSE w
  <2> DEFINE S == ValuesOf(c, D)
             s == Values(c, g)
  <2>1. s \in [1..(n + 1) -> S]
    <3>1. \A i \in 1..(n + 1) : g[i] \in D
        BY <1>2, ElementOfSeq
    <3> HIDE DEF g
    <3> QED
        BY <3>1, <1>2 DEF Values, ValuesOf
  <2>2. n + 1 \in Nat
      OBVIOUS
  <2> HIDE DEF s, S, g
  <2>3. s \in Seq(S) /\ Len(s) = n + 1
      BY ONLY <2>1, <2>2
  <2>4. Len(Newest(s, w)) = IF Len(s) <= w THEN Len(s) ELSE w
      BY <2>3, NewestProperties
  <2> QED
      BY <2>3, <2>4, <1>3 DEF s
<1>9. Head(r) = IF n + 1 <= w THEN 1 ELSE n + 1 - w + 1
  <2> HIDE DEF g
  <2>1. n + 1 \in Nat \ {0}
      OBVIOUS
  <2> QED
      BY <2>1, <1>2, <1>3, OldestNumber
<1>10. Head(q) = IF n = 0 THEN 1 ELSE IF n <= w THEN 1 ELSE n - w + 1
  <2> DEFINE s == Newest(Numbers(h), w)
  <2>1. s \in Seq(Nat)
      BY NumbersGrow, NewestProperties
  <2>2. CASE n = 0
    <3>1. Len(s) = 0
      <4> DEFINE z == Numbers(h)
      <4>1. z \in Seq(Nat) /\ Len(z) = 0
          BY <2>2, <1>1, NumbersGrow
      <4> HIDE DEF z
      <4>2. Len(Newest(z, w)) = IF Len(z) <= w THEN Len(z) ELSE w
          BY <4>1, NewestProperties
      <4> QED
          BY <4>1, <4>2 DEF z
    <3> HIDE DEF s
    <3>2. Append(s, n + 1) \in Seq(Nat) /\ Append(s, n + 1)[1] = n + 1
        BY <2>1, <3>1, AppendProperties
    <3>3. Head(Append(s, n + 1)) = n + 1
        BY <3>2
    <3> QED
        BY <2>2, <3>3, <1>1, <1>3 DEF s
  <2>3. CASE n # 0
    <3>1. Len(s) = (IF n <= w THEN n ELSE w) /\ Head(s) = (IF n <= w THEN 1 ELSE n - w + 1)
        BY <2>3, <1>1, OldestNumber
    <3> HIDE DEF s
    <3>2. 1 \in 1..Len(s)
        BY <2>3, <3>1
    <3>3. Append(s, n + 1) \in Seq(Nat) /\ Append(s, n + 1)[1] = s[1]
        BY <2>1, <3>2, AppendProperties
    <3>4. Head(Append(s, n + 1)) = Head(s)
        BY <2>1, <3>2, <3>3
    <3> QED
        BY <2>3, <3>1, <3>4, <1>1, <1>3 DEF s
  <2> QED
      BY <2>2, <2>3
<1> DEFINE reached == Reached(c, v) /\ Len(v) >= w
<1>11. /\ DOMAIN m2 = Fields /\ m2.values = v
       /\ reached => m2.cause = IF c.type = "total_time" THEN Head(q) ELSE Head(r)
       /\ ~reached => m2.window = r /\ m2.cause = 0
  <2>1. m2 = WindowNotify(c, m, Len(h) + 1, d.sample)
      BY <1>4 DEF Notify
  <2> HIDE DEF m2, v, r
  <2>2. Append(m.window, Len(h) + 1) = q
      BY <1>5
  <2> HIDE DEF q
  <2>3. m2 = IF reached
             THEN [m EXCEPT !.values = v,
                            !.window = IF c.type = "total_time" THEN q ELSE r,
                            !.cause = IF c.type = "total_time" THEN Head(q) ELSE Head(r)]
             ELSE [m EXCEPT !.values = v, !.window = r]
      BY <2>1, <2>2, <1>3, <1>6, <1>7 DEF WindowNotify
  <2> HIDE DEF reached
  <2> QED
      BY <2>3, <1>5 DEF Fields
<1> HIDE DEF m2, g, v, r, q
<1>12. Fires(c, m2, d) <=> reached
    BY <1>3, <1>4, <1>11 DEF Fires
<1>13. FirstOf(c, g) = n + 1 - w + 1
    BY <1>2, <1>3 DEF FirstOf
<1>14. Asked(c, g) <=> FirstOf(c, g) > 0 /\ Reached(c, v)
    BY <1>4, Zenon DEF Asked, v
<1>15. Asked(c, g) <=> reached
  <2>1. Len(v) >= w <=> n + 1 - w + 1 > 0
      BY <1>8
  <2> QED
      BY <2>1, <1>13, <1>14
<1>16. CASE reached
  <2>1. n + 1 >= w
      BY <1>8, <1>16
  <2>2. c.type # "total_time" => m2.cause = n + 1 - w + 1
    <3>1. c.type # "total_time" => m2.cause = Head(r)
        BY <1>11, <1>16
    <3> QED
        BY <2>1, <3>1, <1>9
  <2>3. c.type = "total_time" => m2.cause \in {n + 1 - w + 1, n + 1 - w + 1 - 1}
    <3>1. c.type = "total_time" => m2.cause = Head(q)
        BY <1>11, <1>16
    <3> QED
        BY <2>1, <3>1, <1>10
  <2>4. m2.cause \in Interval(c, g)
      BY <2>2, <2>3, <1>4, <1>13 DEF Interval
  <2> QED
      BY <2>4, <1>12, <1>15, <1>16 DEF Right, m2, g
<1>17. CASE ~reached
  <2>1. Remembers(c, m2, g)
      BY <1>4, <1>11, <1>17 DEF Remembers, RemembersWindow, v, r
  <2> QED
      BY <2>1, <1>12, <1>15, <1>17 DEF Right, m2, g
<1> QED
    BY <1>16, <1>17

\* http_trend keeps the right differences.
LEMMA TrendRight ==
    ASSUME NEW c \in Criterion, c.type = "http_trend", c.seconds > 1,
           NEW D, NEW h \in Seq(D), NEW d \in D,
           NEW m, Remembers(c, m, h)
    PROVE  Right(c, Notify(c, m, Len(h) + 1, d.sample), Append(h, d), d)
<1> DEFINE g == Append(h, d)
           m2 == Notify(c, m, Len(h) + 1, d.sample)
           x == Matched(c, d.sample) - m.last
           v == Newest(Tangents(c, g), c.seconds)
           r == Newest(Numbers(g), c.seconds - 1)
           b == Append(m.values, x)
           q == Append(m.window, Len(h) + 1)
<1>1. PICK n \in Nat : Len(h) = n
    BY LenProperties
<1>2. g \in Seq(D) /\ Len(g) = n + 1 /\ g # <<>> /\ g[n + 1] = d
    BY <1>1, SecondsGrow
<1>3. PICK w \in Nat \ {0} : c.seconds = w + 1
  <2>1. PICK k \in Nat : c.seconds = k
      BY DEF Criterion
  <2>2. k - 1 \in Nat \ {0} /\ k = (k - 1) + 1
      BY <2>1
  <2> QED
      BY <2>1, <2>2
<1>4. c.type \notin Streaks /\ c.type \notin Windows /\ c.type # "limit" /\ c.type # "total_time"
    BY Kinds
<1>5. /\ DOMAIN m = Fields
      /\ m.values = Newest(Tangents(c, h), c.seconds)
      /\ m.last = IF h = <<>> THEN 0 ELSE Matched(c, h[Len(h)].sample)
      /\ m.window = Newest(Numbers(h), c.seconds - 1)
      /\ m.cause = 0
    BY DEF Remembers, RemembersTrend
<1>6. c.seconds - 1 = w /\ w + 1 \in Nat \ {0}
    BY <1>3
<1>7. Trim(b, c.seconds) = v /\ (Len(b) > c.seconds <=> n >= w)
  <2> DEFINE S == Differences(c, D)
             s == Tangents(c, h)
  <2>1. s \in Seq(S) /\ x \in S /\ Len(s) = n + 1 /\ Tangents(c, g) = Append(s, x)
    <3>1. m.last = LastMatched(c, h)
        BY <1>5 DEF LastMatched
    <3>2. /\ s \in Seq(S) /\ Matched(c, d.sample) - LastMatched(c, h) \in S
          /\ Len(s) = Len(h) + 1
          /\ Tangents(c, g) = Append(s, Matched(c, d.sample) - LastMatched(c, h))
        BY TangentsGrow
    <3> QED
        BY <3>1, <3>2, <1>1
  <2> HIDE DEF S, s, x, g
  <2>2. /\ Trim(Append(Newest(s, w + 1), x), w + 1) = Newest(Append(s, x), w + 1)
        /\ (Len(Append(Newest(s, w + 1), x)) > w + 1) <=> (Len(s) >= w + 1)
      BY <2>1, <1>6, TrimKeepsNewest
  <2>3. n + 1 >= w + 1 <=> n >= w
      OBVIOUS
  <2>4. m.values = Newest(s, w + 1)
      BY <1>3, <1>5 DEF s
  <2> QED
      BY <2>1, <2>2, <2>3, <2>4, <1>3
<1>8. Trim(q, w) = r /\ (Len(q) > w <=> n >= w)
  <2> DEFINE s == Numbers(h)
  <2>1. s \in Seq(Nat) /\ n + 1 \in Nat /\ Len(s) = n /\ Numbers(g) = Append(s, n + 1)
      BY <1>1, NumbersGrow
  <2> HIDE DEF s, g
  <2>2. /\ Trim(Append(Newest(s, w), n + 1), w) = Newest(Append(s, n + 1), w)
        /\ (Len(Append(Newest(s, w), n + 1)) > w) <=> (Len(s) >= w)
      BY <2>1, TrimKeepsNewest
  <2> QED
      BY <2>1, <2>2, <1>1, <1>5, <1>6 DEF s
<1>9. Head(r) \in 1..(n + 1)
  <2> HIDE DEF g
  <2>1. n + 1 \in Nat \ {0}
      OBVIOUS
  <2>2. Head(Newest(Numbers(g), w)) = IF n + 1 <= w THEN 1 ELSE n + 1 - w + 1
      BY <2>1, <1>2, OldestNumber
  <2> QED
      BY <2>2, <1>6
<1> HIDE DEF b, q, g, v, r
<1>10. IF Len(b) > c.seconds THEN Tail(b) = v /\ Tail(q) = r ELSE b = v /\ q = r
  <2>1. Len(b) > c.seconds <=> Len(q) > w
      BY <1>7, <1>8
  <2> QED
      BY <2>1, <1>7, <1>8 DEF Trim
<1>11. /\ DOMAIN m2 = Fields /\ m2.values = v /\ m2.window = r
       /\ m2.last = Matched(c, d.sample)
       /\ m2.cause = IF Falls(v) THEN Head(r) ELSE 0
  <2>1. m2 = TrendNotify(c, m, Len(h) + 1, d.sample)
      BY <1>4 DEF Notify
  <2> HIDE DEF m2
  <2>2. m2 = [m EXCEPT !.values = v, !.window = r, !.last = Matched(c, d.sample),
                       !.cause = IF Falls(v) THEN Head(r) ELSE @]
    <3>1. Append(m.values, Matched(c, d.sample) - m.last) = b /\ Append(m.window, Len(h) + 1) = q
        BY DEF b, q
    <3>2. CASE Len(b) > c.seconds
        BY <2>1, <3>1, <3>2, <1>10 DEF TrendNotify
    <3>3. CASE ~(Len(b) > c.seconds)
        BY <2>1, <3>1, <3>3, <1>10 DEF TrendNotify
    <3> QED
        BY <3>2, <3>3
  <2> QED
      BY <2>2, <1>5 DEF Fields
<1> HIDE DEF m2
<1>12. Fires(c, m2, d) <=> Falls(v)
    BY <1>4, <1>11 DEF Fires
<1>13. Asked(c, g) <=> Falls(v)
    BY <1>4, Zenon DEF Asked, v
<1>14. Falls(v) => m2.cause \in Interval(c, g)
    BY <1>2, <1>9, <1>11 DEF Interval
<1>15. ~Falls(v) => Remembers(c, m2, g)
    BY <1>2, <1>4, <1>11 DEF Remembers, RemembersTrend, v, r
<1> QED
    BY <1>12, <1>13, <1>14, <1>15 DEF Right, m2, g

\* The time limit remembers nothing.
LEMMA LimitRight ==
    ASSUME NEW c \in Criterion, c.type = "limit",
           NEW D, NEW h \in Seq(D), NEW d \in D,
           NEW m, Remembers(c, m, h)
    PROVE  Right(c, Notify(c, m, Len(h) + 1, d.sample), Append(h, d), d)
<1> DEFINE g == Append(h, d)
           m2 == Notify(c, m, Len(h) + 1, d.sample)
<1>1. c.type \notin Streaks /\ c.type \notin Windows /\ c.type # "http_trend"
    BY Kinds
<1>2. m2 = m /\ m.cause = 0
    BY <1>1 DEF Notify, Remembers
<1>3. g[Len(g)] = d
    BY SecondsGrow
<1> HIDE DEF m2, g
<1>4. Fires(c, m2, d) <=> d.now > c.seconds
    BY <1>1 DEF Fires
<1>5. Asked(c, g) <=> d.now > c.seconds
    BY <1>1, <1>3 DEF Asked
<1>6. Remembers(c, m2, g)
    BY <1>1, <1>2 DEF Remembers
<1> QED
    BY <1>2, <1>4, <1>5, <1>6 DEF Right, m2, g

\* Any criterion decides as the reference does.
LEMMA NotifyRight ==
    ASSUME NEW c \in Criterion, c.type = "http_trend" => c.seconds > 1,
           NEW D, NEW h \in Seq(D), NEW d \in D,
           NEW m, Remembers(c, m, h)
    PROVE  Right(c, Notify(c, m, Len(h) + 1, d.sample), Append(h, d), d)
BY Kinds, StreakRight, WindowRight, TrendRight, LimitRight

-----------------------------------------------------------------------------
(* The specification *)

StopInv ==
    /\ criterions \in Configs
    /\ history \in Seq(Second)
    /\ cause_criterion = 0 =>
         /\ \A i \in DOMAIN criterions : Remembers(criterions[i], mem[i], history)
         /\ imbalance = 0
    /\ StopsExactly
    /\ RateOfInterval

\* The criteria of a configuration.
LEMMA CriterionType ==
    ASSUME criterions \in Configs
    PROVE  /\ \A i \in DOMAIN criterions :
                /\ criterions[i] \in Criterion
                /\ criterions[i].type = "http_trend" => criterions[i].seconds > 1
           /\ 0 \notin DOMAIN criterions
<1>1. criterions \in Seq(Criterion)
    BY ConfigsAssumption DEF ConfigsAssumption
<1>2. /\ DOMAIN criterions = 1..Len(criterions)
      /\ \A i \in 1..Len(criterions) : criterions[i] \in Criterion
    BY <1>1, ElementOfSeq, LenProperties
<1>3. 0 \notin 1..Len(criterions)
    BY <1>1, LenProperties
<1> QED
    BY <1>2, <1>3, ConfigsAssumption DEF ConfigsAssumption

\* Before the first second there is nothing to remember.
LEMMA ForgetRemembers ==
    ASSUME NEW c \in Criterion, c.type = "http_trend" => c.seconds > 1
    PROVE  Remembers(c, Forget(c), <<>>)
<1> DEFINE m == Forget(c)
<1>1. PICK w \in Nat \ {0} : c.seconds = w
    BY DEF Criterion
<1>2. /\ DOMAIN m = Fields /\ m.count = 0 /\ m.last = 0 /\ m.window = <<>> /\ m.cause = 0
      /\ m.values = IF c.type = "http_trend" THEN <<0>> ELSE <<>>
    BY DEF Forget, Fields
<1>3. Len(<<>>) = 0
    OBVIOUS
<1> HIDE DEF m
<1>4. RemembersStreak(c, m, <<>>)
    BY <1>1, <1>2, <1>3 DEF RemembersStreak
<1>5. Numbers(<<>>) = <<>> /\ Values(c, <<>>) = <<>>
    BY <1>3 DEF Numbers, Values
<1>6. \A k \in Nat : Newest(<<>>, k) = <<>>
    BY <1>3 DEF Newest
<1>7. c.type # "http_trend" => RemembersWindow(c, m, <<>>)
    BY <1>1, <1>2, <1>5, <1>6 DEF RemembersWindow
<1>8. c.type = "http_trend" => RemembersTrend(c, m, <<>>)
  <2> HAVE c.type = "http_trend"
  <2>1. w - 1 \in Nat
      OBVIOUS
  <2>2. Tangents(c, <<>>) = <<0>>
    <3>1. Tangents(c, <<>>) = [j \in 1..1 |-> 0]
        BY <1>3 DEF Tangents
    <3> QED
        BY <3>1
  <2>3. Newest(<<0>>, w) = <<0>>
      BY DEF Newest
  <2> QED
      BY <1>1, <1>2, <1>5, <1>6, <2>1, <2>2, <2>3 DEF RemembersTrend
<1> QED
    BY <1>2, <1>4, <1>7, <1>8, Kinds DEF Remembers, m

\* The invariant holds at the start.
LEMMA InitStopInv == AutostopInit => StopInv
<1> SUFFICES ASSUME AutostopInit PROVE StopInv
    OBVIOUS
<1> USE DEF AutostopInit
<1>1. \A i \in DOMAIN criterions : Remembers(criterions[i], mem[i], history)
    BY CriterionType, ForgetRemembers
<1>2. StopsExactly
  <2>1. Len(history) = 0
      OBVIOUS
  <2> QED
      BY <2>1 DEF StopsExactly
<1>3. RateOfInterval
    BY DEF RateOfInterval
<1> QED
    BY <1>1, <1>2, <1>3 DEF StopInv

\* The prefixes of the seconds do not change when there is one more.
LEMMA PrefixesStay ==
    ASSUME NEW D, NEW h \in Seq(D), NEW d \in D, NEW k \in 1..Len(h)
    PROVE  SubSeq(Append(h, d), 1, k) = SubSeq(h, 1, k)
<1>1. PICK n \in Nat : Len(h) = n
    BY LenProperties
<1> DEFINE g == Append(h, d)
<1>2. g \in Seq(D) /\ Len(g) = n + 1 /\ \A i \in 1..n : g[i] = h[i]
    BY <1>1, SecondsGrow
<1> HIDE DEF g
<1>3. \A i \in 1..k : g[i] \in D /\ h[i] \in D /\ g[i] = h[i]
    BY <1>1, <1>2, ElementOfSeq
<1>4. /\ SubSeq(g, 1, k) \in Seq(D) /\ Len(SubSeq(g, 1, k)) = k
      /\ \A i \in 1..k : SubSeq(g, 1, k)[i] = g[i]
    BY <1>1, <1>3, SubSeqProperties
<1>5. /\ SubSeq(h, 1, k) \in Seq(D) /\ Len(SubSeq(h, 1, k)) = k
      /\ \A i \in 1..k : SubSeq(h, 1, k)[i] = h[i]
    BY <1>1, <1>3, SubSeqProperties
<1> QED
    BY <1>3, <1>4, <1>5, SeqEqual DEF g

\* Without a cause no criterion asked at any second.
LEMMA NobodyAsked ==
    ASSUME StopInv, cause_criterion = 0, NEW k \in 1..Len(history)
    PROVE  Asking(criterions, SubSeq(history, 1, k)) = {}
<1>1. history \in Seq(Second) /\ Len(history) \in Nat
    BY LenProperties DEF StopInv
<1>2. CASE k = Len(history)
  <2>1. history # <<>>
      BY <1>1, <1>2
  <2>2. IsLast(0, Asking(criterions, history))
      BY <2>1 DEF StopInv, StopsExactly
  <2>3. 0 \notin Asking(criterions, history)
      BY CriterionType DEF StopInv, Asking
  <2>4. SubSeq(history, 1, k) = history
      BY <1>1, <1>2, SubSeqFull
  <2> QED
      BY <2>2, <2>3, <2>4 DEF IsLast
<1>3. CASE k # Len(history)
  <2>1. k \in 1..(Len(history) - 1)
      BY <1>1, <1>3
  <2> QED
      BY <2>1 DEF StopInv, StopsExactly
<1> QED
    BY <1>2, <1>3

\* A second keeps the invariant.
LEMMA DataStep ==
    ASSUME StopInv, NEW sample \in Samples, NEW now \in Clock, OnAggregatedData(sample, now)
    PROVE  StopInv'
<1> DEFINE d == [sample |-> sample, now |-> now]
           m == [i \in DOMAIN criterions |->
                   Notify(criterions[i], mem[i], Len(history) + 1, sample)]
           fired == {i \in DOMAIN criterions : Fires(criterions[i], m[i], d)}
           rated == {i \in fired : m[i].cause # 0}
<1>1. /\ cause_criterion = 0 /\ history' = Append(history, d) /\ mem' = m
      /\ Report(fired, m) /\ criterions' = criterions
    BY DEF OnAggregatedData
<1>2. d \in Second /\ d.sample = sample
    BY DEF Second
<1>3. /\ history \in Seq(Second) /\ criterions \in Configs
      /\ \A i \in DOMAIN criterions : Remembers(criterions[i], mem[i], history)
      /\ imbalance = 0
    BY <1>1 DEF StopInv
<1> HIDE DEF d
<1>4. ASSUME NEW i \in DOMAIN criterions
      PROVE  Right(criterions[i], m[i], history', d)
  <2>1. /\ criterions[i] \in Criterion
        /\ criterions[i].type = "http_trend" => criterions[i].seconds > 1
      BY <1>3, CriterionType
  <2> DEFINE c == criterions[i]
             r == mem[i]
  <2>2. Right(c, Notify(c, r, Len(history) + 1, d.sample), Append(history, d), d)
    <3>1. c \in Criterion /\ (c.type = "http_trend" => c.seconds > 1)
        BY <2>1
    <3>2. Remembers(c, r, history)
        BY <1>3
    <3> HIDE DEF c, r
    <3> QED
        BY ONLY <3>1, <3>2, <1>2, <1>3, NotifyRight
  <2> QED
      BY <2>2, <1>1, <1>2
<1> HIDE DEF m
<1>5. fired = Asking(criterions, history')
  <2>1. \A i \in DOMAIN criterions : Fires(criterions[i], m[i], d) <=> Asked(criterions[i], history')
      BY <1>4 DEF Right
  <2> QED
      BY <2>1, <1>1 DEF Asking
<1>6. 0 \notin fired
    BY <1>3, CriterionType
<1>7. IsLast(cause_criterion', fired) /\ cause_criterion' \in fired \union {0}
    BY <1>1 DEF Report
<1>8. PICK j \in rated \union {0} :
        IsLast(j, rated) /\ imbalance' = IF j = 0 THEN imbalance ELSE m[j].cause
    BY <1>1 DEF Report
<1> HIDE DEF fired
<1>9. StopsExactly'
  <2>1. history' # <<>> /\ history' \in Seq(Second) /\ Len(history') = Len(history) + 1
        /\ Len(history) \in Nat
      BY <1>1, <1>2, <1>3, SecondsGrow
  <2>2. ASSUME NEW k \in 1..Len(history)
        PROVE  Asking(criterions, SubSeq(history', 1, k)) = {}
    <3>1. Asking(criterions, SubSeq(history, 1, k)) = {}
        BY <1>1, NobodyAsked
    <3>2. SubSeq(history', 1, k) = SubSeq(history, 1, k)
        BY <1>1, <1>2, <1>3, PrefixesStay
    <3> QED
        BY <3>1, <3>2
  <2>3. 1..(Len(history') - 1) = 1..Len(history)
      BY <2>1
  <2> QED
      BY <2>1, <2>2, <2>3, <1>1, <1>5, <1>7 DEF StopsExactly
<1>10. RateOfInterval'
  <2> SUFFICES ASSUME imbalance' # 0
               PROVE  \E i \in Asking(criterions, history') : imbalance' \in Interval(criterions[i], history')
      BY <1>1 DEF RateOfInterval
  <2>1. j \in rated /\ imbalance' = m[j].cause
      BY <1>3, <1>8
  <2>2. j \in DOMAIN criterions /\ Fires(criterions[j], m[j], d) /\ m[j].cause # 0
      BY <2>1 DEF fired
  <2>3. m[j].cause \in Interval(criterions[j], history')
      BY <2>2, <1>4 DEF Right
  <2> QED
      BY <2>1, <2>3, <1>1, <1>5 DEF fired
<1>11. cause_criterion' = 0 =>
         /\ \A i \in DOMAIN criterions' : Remembers(criterions'[i], mem'[i], history')
         /\ imbalance' = 0
  <2> HAVE cause_criterion' = 0
  <2>1. fired = {}
      BY <1>6, <1>7 DEF IsLast
  <2>2. \A i \in DOMAIN criterions : ~Fires(criterions[i], m[i], d)
      BY <2>1 DEF fired
  <2>3. \A i \in DOMAIN criterions : Remembers(criterions[i], m[i], history')
      BY <2>2, <1>4 DEF Right
  <2>4. imbalance' = 0
      BY <2>1, <1>3, <1>8
  <2> QED
      BY <2>3, <2>4, <1>1
<1>12. history' \in Seq(Second)
    BY <1>1, <1>2, <1>3, SecondsGrow
<1> QED
    BY <1>1, <1>3, <1>9, <1>10, <1>11, <1>12 DEF StopInv

\* Every step keeps the invariant.
LEMMA StepStopInv == StopInv /\ [AutostopNext]_autostopVars => StopInv'
<1> SUFFICES ASSUME StopInv, [AutostopNext]_autostopVars PROVE StopInv'
    OBVIOUS
<1>1. CASE \E sample \in Samples, now \in Clock : OnAggregatedData(sample, now)
    BY <1>1, DataStep
<1>2. CASE OnLaterData \/ IsTestFinished \/ UNCHANGED autostopVars
  <2>1. UNCHANGED <<criterions, mem, cause_criterion, imbalance, history>>
      BY <1>2 DEF OnLaterData, IsTestFinished, autostopVars
  <2> QED
      BY <2>1 DEF StopInv, StopsExactly, RateOfInterval, Asking
<1> QED
    BY <1>1, <1>2 DEF AutostopNext

\* The test is stopped at the first second at which a criterion asks for it by
\* all the seconds so far, and the cause is the last one of those that ask: what
\* notify remembers in place of the seconds is enough (plugin.py, on_aggregated_data).
THEOREM StopsWhenAsked == AutostopSpec => []StopsExactly
<1>1. StopInv => StopsExactly
    BY DEF StopInv
<1> QED
    BY InitStopInv, StepStopInv, <1>1, PTL DEF AutostopSpec

\* The rate that is reported with the stop is that of the first second of the
\* interval of a criterion that asked for it (of the one before, for total_time).
THEOREM RateIsOfInterval == AutostopSpec => []RateOfInterval
<1>1. StopInv => RateOfInterval
    BY DEF StopInv
<1> QED
    BY InitStopInv, StepStopInv, <1>1, PTL DEF AutostopSpec

\* The stop, its cause and its rate are those the seconds ask for (plugin.py,
\* on_aggregated_data).
THEOREM StopIsAsAsked == AutostopSpec => []StopsAsAsked
<1>1. StopsAsAsked <=> StopsExactly /\ RateOfInterval
    BY DEF StopsAsAsked
<1> QED
    BY <1>1, StopsWhenAsked, RateIsOfInterval, PTL
-----------------------------------------------------------------------------
(***************************************************************************)
(* StepperWrapper: a run that is ready knows how many missiles its stepped *)
(* file has, and they are of one version of the ammo file, not older than  *)
(* the run; whatever the other runs on the machine do, and wherever they   *)
(* are killed.                                                             *)
(*                                                                         *)
(* The argument is about names.  Sole: of two runs that have one name and  *)
(* are at its stepped file neither makes it, unless server.torn tells so.  *)
(* Then the si is removed or was not there while the file is made (Knows), *)
(* so a si that is whole is of the file that is there (StpdOK).  A hash is *)
(* a version that was there since the run began (Keyed), and a download,   *)
(* or a stepped file, of that name is of this version or a later one       *)
(* (Download, StpdOK), since the head is asked before the file is opened.  *)
(***************************************************************************)

Places == {"idle", "head", "check", "load", "make", "detect", "again", "truncate", "open", "get", "save", "read", "info",
           "si", "ready", "shot", "failed", "dead"}
RunFields == {"pc", "ret", "tries", "key", "opener", "src", "since", "limit", "pos", "loops", "ammo", "headers",
              "request", "number", "first", "out"}
Contents == [v : 0..opt.versions, whole : BOOLEAN]
Infos == [there : BOOLEAN, whole : BOOLEAN, ammo : Nat]
IsSeq(s) == s \in Seq({s[i] : i \in DOMAIN s})

Provided == opt.load = "stpd_file"
Dated == opt.source \in {"http", "file"} /\ ~opt.nohead

\* Of a run s: it is between the head and the end of an opener; it makes the
\* stepped file, or has written some of it; it has that file's name.
Opens(s) == s.pc \in {"head", "open", "get", "save"} /\ s.ret # "name"
Makes(s) == s.pc \in {"make", "detect", "again", "truncate", "read", "info"} \/ Opens(s)
Wrote(s) == s.pc \in {"read", "info", "si", "ready"} \/ (Opens(s) /\ s.ret = "read")
InUse(s) == s.pc \in {"load", "si", "ready"} \/ Makes(s)
Source(s, d) == IF Stored THEN d.tmp[s.opener] ELSE s.src

Configured ==
    /\ opt.versions \in Nat \ {0} /\ 0..opt.versions \subseteq Keys
    /\ opt.given => opt.load = "stpd_file"

Disk(d) ==
    /\ DOMAIN d = {"tmp", "stpd", "si"} /\ DOMAIN d.stpd = Keys
    /\ d.tmp \in [Keys -> Contents] /\ d.si \in [Keys -> Infos]
    /\ \A k \in Keys : /\ DOMAIN d.stpd[k] = {"there", "out"} /\ d.stpd[k].there \in BOOLEAN
                       /\ IsSeq(d.stpd[k].out)
                       /\ \A i \in DOMAIN d.stpd[k].out : d.stpd[k].out[i].missile.version \in Nat

Server(v) == v \in [version : 1..opt.versions, faults : Nat, kills : Nat, torn : BOOLEAN]

Shape(s) ==
    /\ DOMAIN s = RunFields
    /\ s.pc \in Places /\ s.ret \in {"", "name", "detect", "again", "read"} /\ s.key \in Keys /\ s.opener \in Keys
    /\ s.src \in Contents /\ s.since \in 0..opt.versions /\ s.ammo \in Nat /\ s.out = << >>
    /\ s.pc \in {"open", "get", "save"} => s.ret \in {"detect", "again", "read"}
    /\ s.pc = "head" => s.ret # ""
    /\ Provided => s.pc \in {"idle", "load", "ready", "shot", "failed", "dead"}

\* What its name and its opener are hashes of.
Keyed(s, v) ==
    /\ s.opener <= v.version /\ s.since <= v.version
    /\ ~opt.caching => s.key = Plain /\ (s.pc = "head" => s.ret # "name")
    /\ ~opt.caching /\ s.pc = "load" => Provided
    /\ Dated => /\ opt.caching /\ ~Provided /\ (InUse(s) \/ s.pc = "check") =>
                       s.since <= s.key /\ s.key <= v.version
                /\ Http /\ s.pc \in {"open", "get", "save", "read"} =>
                       s.since <= s.opener /\ (opt.caching => s.key <= s.opener)
                /\ ~Http /\ s.pc = "read" => s.since <= s.src.v /\ (opt.caching => s.key <= s.src.v)

\* What it reads: a file, and a whole one.
Reads(s, v, d) ==
    /\ Stored /\ s.pc \in {"save", "detect", "again", "read"} => d.tmp[s.opener] # Nothing
    /\ ~v.torn /\ s.pc \in {"detect", "again", "read"} => Source(s, d).whole
    /\ s.pc \in {"get", "save"} => Stored
    /\ ~Stored /\ s.pc \in {"truncate", "detect", "again", "read"} => s.src.whole

\* What it knows of the stepped file.
Knows(s, v, d) ==
    /\ s.pc \in {"detect", "again", "truncate"} \/ Opens(s) => s.ammo = 0
    /\ ~v.torn /\ opt.caching /\ Makes(s) => ~d.si[s.key].there
    /\ ~v.torn /\ opt.caching /\ s.pc = "si" => ~d.si[s.key].whole
    /\ ~Provided /\ Wrote(s) => d.stpd[s.key].there
    /\ ~v.torn /\ ~Provided /\ Wrote(s) => s.ammo = Len(d.stpd[s.key].out)

VersionAt(d, k, i) == d.stpd[k].out[i].missile.version

\* What it wrote, or found.
Writes(s, v, d) ==
    ~v.torn =>
        /\ Dated /\ Wrote(s) => \A i \in DOMAIN d.stpd[s.key].out : VersionAt(d, s.key, i) >= s.since
        /\ s.pc = "read" => \A i \in DOMAIN d.stpd[s.key].out : VersionAt(d, s.key, i) = Source(s, d).v

\* A download is of the version its name tells, or of a later one.
Download(k, d) ==
    /\ d.tmp[k].v >= k \/ d.tmp[k] = Nothing
    /\ d.tmp[k].v = 0 => d.tmp[k] = Nothing

\* A stepped file with its si: the si is made last and tells how many missiles
\* there are; they are all of one version, the one of the name or a later one.
StpdOK(k, v, d) ==
    /\ d.si[k].whole => d.si[k].there
    /\ ~Provided /\ d.si[k].there => d.stpd[k].there
    /\ ~Provided /\ opt.caching /\ ~v.torn /\ d.si[k].whole => d.si[k].ammo = Len(d.stpd[k].out)
    /\ Provided => d.stpd[k].out = << >>
    /\ Dated /\ opt.caching => \A i \in DOMAIN d.stpd[k].out : VersionAt(d, k, i) >= k
    /\ ~v.torn => \A i, j \in DOMAIN d.stpd[k].out : VersionAt(d, k, i) = VersionAt(d, k, j)

\* Of two runs: one that makes a stepped file has it alone, and one that writes
\* its si shares it only with those that found it.
Apart(s, t) ==
    s.key = t.key /\ InUse(s) /\ InUse(t) =>
        /\ opt.caching /\ ~Makes(s) /\ ~Makes(t)
        /\ (s.pc = "si" => t.pc = "load") /\ (t.pc = "si" => s.pc = "load")

Sole == ~Provided /\ ~server.torn => \A q, r \in Runs : q # r => Apart(run[q], run[r])

RunOK(s, v, d) == Shape(s) /\ Keyed(s, v) /\ Reads(s, v, d) /\ Knows(s, v, d) /\ Writes(s, v, d)
FileOK(k, v, d) == Download(k, d) /\ StpdOK(k, v, d)
StepperInv ==
    /\ Configured /\ Server(server) /\ Disk(disk) /\ Sole
    /\ DOMAIN run = Runs
    /\ \A r \in Runs : RunOK(run[r], server, disk)
    /\ \A k \in Keys : FileOK(k, server, disk)

Kept(t, s) ==
    /\ DOMAIN t = RunFields
    /\ t.ret = s.ret /\ t.key = s.key /\ t.opener = s.opener /\ t.src = s.src /\ t.since = s.since
    /\ t.pc \in {s.pc, "info", "failed"}

Unwritten(t, s) == Kept(t, s) /\ t.out = s.out /\ t.ammo = s.ammo

Appended(t, s) ==
    /\ Kept(t, s)
    /\ \E e : e.missile.version = s.src.v /\ t.out = Append(s.out, e)
    /\ t.ammo \in {s.ammo, s.ammo + 1} /\ (t.pc # "failed" => t.ammo = s.ammo + 1)

Stepping(s) == DOMAIN s = RunFields /\ s.ammo \in Nat /\ s.pc = "read"

\* A missile is counted, or the reading ends before that (info.py, inc_ammo_count).
LEMMA CountedKeeps ==
    ASSUME NEW s, Stepping(s)
    PROVE  /\ Kept(Counted(s), s) /\ Counted(s).out = s.out
           /\ Counted(s).ammo \in {s.ammo, s.ammo + 1} /\ (Counted(s).pc # "failed" => Counted(s).ammo = s.ammo + 1)
<1> DEFINE n == s.ammo + 1
           max == MaxAmmo(s.limit, opt.plan.len)
           limit == IF max = None THEN LoopLimit * n ELSE s.limit
           most == MaxAmmo(limit, opt.plan.len)
<1>1. Counted(s) = IF max = 0 THEN [s EXCEPT !.pc = "failed"]
                   ELSE IF LimitPassed(s, n) THEN [s EXCEPT !.ammo = n, !.pc = "info"]
                   ELSE IF s.first \/ s.loops # 1 THEN [s EXCEPT !.ammo = n]
                   ELSE IF max = None /\ LoopLimit \in {None, 0} THEN [s EXCEPT !.ammo = n, !.pc = "failed"]
                   ELSE [s EXCEPT !.ammo = n, !.first = TRUE, !.limit = limit,
                                  !.pc = IF opt.space < most - n THEN "failed" ELSE @]
  BY Zenon DEF Counted
<1> HIDE DEF max, limit, most
<1> QED BY <1>1 DEF Stepping, Kept, RunFields

\* A missile that a filter passes is written with the version of the file that is
\* read (main.py, AmmoFactory).
LEMMA ShotKeeps ==
    ASSUME NEW s, Stepping(s), NEW m, NEW lines
    PROVE  Unwritten(Shot(s, m, lines), s) \/ Appended(Shot(s, m, lines), s)
<1> DEFINE marker == Marked(m)
           numbered == IF marker = "#" THEN [s EXCEPT !.number = @ + 1] ELSE s
           e == Entry(s, marker, lines)
           c == Counted(numbered)
           t == Shot(s, m, lines)
<1> SUFFICES Unwritten(t, s) \/ Appended(t, s)
  OBVIOUS
<1>1. t = IF Unmarkable(m) THEN [s EXCEPT !.pc = "failed"]
          ELSE IF ~Chosen(marker) THEN numbered
          ELSE IF Text(marker) THEN [s EXCEPT !.pc = "failed"]
          ELSE [c EXCEPT !.out = Append(@, e)]
  BY Zenon DEF Shot
<1>2. e.missile.version = s.src.v
  BY DEF Entry, Missile
<1>3. /\ Stepping(numbered) /\ Unwritten(numbered, s)
  BY DEF Stepping, Unwritten, Kept, RunFields
<1>4. /\ Kept(c, numbered) /\ c.out = numbered.out
      /\ c.ammo \in {numbered.ammo, numbered.ammo + 1} /\ (c.pc # "failed" => c.ammo = numbered.ammo + 1)
  BY <1>3, CountedKeeps
<1>7. Unwritten([s EXCEPT !.pc = "failed"], s)
  BY DEF Stepping, Unwritten, Kept, RunFields
<1> HIDE DEF e, c, numbered, t, marker
<1>5. CASE ~Unmarkable(m) /\ Chosen(marker) /\ ~Text(marker)
  <2>1. t = [c EXCEPT !.out = Append(@, e)]
    BY <1>1, <1>5
  <2>2. /\ t.out = Append(s.out, e) /\ t.pc = c.pc /\ t.ammo = c.ammo /\ DOMAIN t = DOMAIN c
        /\ t.ret = c.ret /\ t.key = c.key /\ t.opener = c.opener /\ t.src = c.src /\ t.since = c.since
    BY <2>1, <1>3, <1>4 DEF Kept, Unwritten, RunFields
  <2>3. c.ammo \in {s.ammo, s.ammo + 1} /\ (c.pc # "failed" => c.ammo = s.ammo + 1) /\ Kept(t, s)
    BY <2>2, <1>3, <1>4 DEF Kept, Unwritten, Stepping
  <2> QED BY <2>2, <2>3, <1>2 DEF Appended
<1>6. CASE Unmarkable(m) \/ ~Chosen(marker) \/ Text(marker)
  BY <1>6, <1>1, <1>3, <1>7
<1> QED BY <1>5, <1>6

\* A line gives a missile or none (missile.py).
LEMMA ReadKeeps ==
    ASSUME NEW s, Stepping(s)
    PROVE  Unwritten(Read(s), s) \/ Appended(Read(s), s)
<1> DEFINE line == Content(s.src)[s.pos + 1]
           next == [s EXCEPT !.pos = @ + 1]
           free == [next EXCEPT !.request = FALSE]
<1>1. Stepping(next) /\ Stepping(free) /\ Unwritten(next, s) /\ Unwritten(free, s)
  BY DEF Stepping, Unwritten, Kept, RunFields
<1>2. \A m, lines : /\ Unwritten(Shot(next, m, lines), s) \/ Appended(Shot(next, m, lines), s)
                    /\ Unwritten(Shot(free, m, lines), s) \/ Appended(Shot(free, m, lines), s)
  <2> SUFFICES ASSUME NEW m, NEW lines
               PROVE  /\ Unwritten(Shot(next, m, lines), s) \/ Appended(Shot(next, m, lines), s)
                      /\ Unwritten(Shot(free, m, lines), s) \/ Appended(Shot(free, m, lines), s)
    OBVIOUS
  <2>1. Unwritten(Shot(next, m, lines), next) \/ Appended(Shot(next, m, lines), next)
    BY <1>1, ShotKeeps
  <2>2. Unwritten(Shot(free, m, lines), free) \/ Appended(Shot(free, m, lines), free)
    BY <1>1, ShotKeeps
  <2> HIDE DEF next, free
  <2> QED BY <1>1, <2>1, <2>2 DEF Unwritten, Appended, Kept
<1>3. Read(s) = IF Yielding(Detected, line) THEN Shot(next, Marker(Detected, line), <<next.pos>>)
                ELSE IF Detected = "slowlog" THEN SlowLog(next, line)
                ELSE IF Detected \in {"uri", "uripost"} /\ line.t = "header"
                     THEN [next EXCEPT !.headers = @ \cup {next.pos}]
                ELSE IF Chunked(Detected) THEN [next EXCEPT !.pc = "failed"]
                ELSE next
  BY Zenon DEF Read
<1>4. SlowLog(next, line) = IF line.t # "#" THEN [next EXCEPT !.request = TRUE]
                            ELSE IF ~next.request THEN next ELSE Shot(free, "", << >>)
  BY Zenon DEF SlowLog
<1>5. \A x : /\ Unwritten([next EXCEPT !.headers = x], s) /\ Unwritten([next EXCEPT !.request = x], s)
             /\ Unwritten([next EXCEPT !.pc = "failed"], s)
  BY DEF Stepping, Unwritten, Kept, RunFields
<1> HIDE DEF next, free, line
<1>6. Unwritten(SlowLog(next, line), s) \/ Appended(SlowLog(next, line), s)
  <2>1. CASE line.t # "#"
    BY <2>1, <1>4, <1>5
  <2>2. CASE line.t = "#" /\ ~next.request
    BY <2>2, <1>4, <1>1
  <2>3. CASE line.t = "#" /\ next.request
    BY <2>3, <1>4, <1>2
  <2> QED BY <2>1, <2>2, <2>3
<1>7. CASE Yielding(Detected, line)
  BY <1>7, <1>3, <1>2
<1>8. CASE ~Yielding(Detected, line)
  BY <1>8, <1>1, <1>3, <1>5, <1>6
<1> QED BY <1>7, <1>8

\* A step of the stepper adds a missile, counted unless it fails, or writes nothing.
LEMMA SteppedKeeps ==
    ASSUME NEW s, Stepping(s)
    PROVE  Unwritten(Stepped(s), s) \/ Appended(Stepped(s), s)
<1>1. Unwritten([s EXCEPT !.pc = "info"], s) /\ Unwritten([s EXCEPT !.pc = "failed"], s)
  BY DEF Stepping, Unwritten, Kept, RunFields
<1>2. Unwritten(NextPass(s), s)
  BY DEF Stepping, Unwritten, Kept, RunFields, NextPass
<1>3. Unwritten(Rewind(s), s)
  BY <1>1, <1>2 DEF Rewind
<1> QED BY <1>1, <1>3, ReadKeeps DEF Stepped

\* Sequences of missiles, whatever a missile is.
LEMMA SequenceFacts ==
    /\ IsSeq(<< >>)
    /\ \A s : IsSeq(s) => Len(s) \in Nat /\ DOMAIN s = 1..Len(s)
    /\ \A s, e : IsSeq(s) => /\ IsSeq(Append(s, e)) /\ Len(Append(s, e)) = Len(s) + 1
                             /\ \A i \in DOMAIN Append(s, e) :
                                   (i \in DOMAIN s /\ Append(s, e)[i] = s[i]) \/ Append(s, e)[i] = e
<1>1. IsSeq(<< >>)
  BY DEF IsSeq
<1>2. ASSUME NEW s, IsSeq(s)
      PROVE  Len(s) \in Nat /\ DOMAIN s = 1..Len(s)
  BY <1>2, LenProperties DEF IsSeq
<1>3. ASSUME NEW s, NEW e, IsSeq(s)
      PROVE  /\ IsSeq(Append(s, e)) /\ Len(Append(s, e)) = Len(s) + 1
             /\ \A i \in DOMAIN Append(s, e) :
                   (i \in DOMAIN s /\ Append(s, e)[i] = s[i]) \/ Append(s, e)[i] = e
  <2> DEFINE S == {s[i] : i \in DOMAIN s} \cup {e}
             a == Append(s, e)
  <2>1. s \in Seq(S)
    <3>1. s \in Seq({s[i] : i \in DOMAIN s})
      BY <1>3 DEF IsSeq
    <3> QED BY <3>1
  <2>2. a \in Seq(S) /\ Len(a) = Len(s) + 1 /\ (\A i \in 1..Len(s) : a[i] = s[i]) /\ a[Len(s) + 1] = e
    BY <2>1, AppendProperties
  <2>3. DOMAIN a = 1..Len(a) /\ Len(a) \in Nat /\ DOMAIN s = 1..Len(s)
    BY <2>1, <2>2, LenProperties
  <2>4. a \in Seq({a[i] : i \in DOMAIN a})
    <3> HIDE DEF a, S
    <3>1. a \in [1..Len(a) -> {a[i] : i \in DOMAIN a}]
      BY <2>3, <2>2
    <3> QED BY <3>1, <2>3, SeqDef
  <2> HIDE DEF a, S
  <2>5. IsSeq(a)
    BY <2>4 DEF IsSeq
  <2>6. \A i \in DOMAIN a : (i \in DOMAIN s /\ a[i] = s[i]) \/ a[i] = e
    BY <2>2, <2>3
  <2> QED BY <2>2, <2>5, <2>6 DEF a
<1> QED BY <1>1, <1>2, <1>3

\* The invariant holds before the first run.
LEMMA InitHolds == StepperInit => StepperInv
<1> SUFFICES ASSUME StepperInit PROVE StepperInv
  OBVIOUS
<1>1. PICK o \in Options : opt = [f \in DOMAIN o \cup {"plan"} |-> IF f = "plan" THEN Plan(o) ELSE o[f]]
  BY DEF StepperInit
<1>2. /\ opt.versions = o.versions /\ opt.given = o.given /\ opt.load = o.load
      /\ opt.faults = o.faults /\ opt.kills = o.kills
  BY <1>1, StepperAssumption
<1>3. Configured
  BY <1>2, StepperAssumption DEF Configured
<1>4. Server(server)
  BY <1>2, <1>3, StepperAssumption DEF Server, StepperInit, Configured
<1>5. /\ disk = [tmp |-> [k \in Keys |-> Nothing], stpd |-> [k \in Keys |-> NoStpd],
                 si |-> [k \in Keys |-> IF opt.given THEN [there |-> TRUE, whole |-> TRUE, ammo |-> 1] ELSE NoInfo]]
      /\ run = [r \in Runs |-> NewRun] /\ server.version = 1
  BY DEF StepperInit
<1>6. Disk(disk)
  <2>1. disk.tmp \in [Keys -> Contents]
    BY <1>3, <1>5 DEF Nothing, Contents, Configured
  <2>2. disk.si \in [Keys -> Infos]
    BY <1>5 DEF NoInfo, Infos
  <2>3. DOMAIN disk.stpd = Keys /\ \A k \in Keys : disk.stpd[k] = NoStpd
    BY <1>5
  <2>4. DOMAIN NoStpd = {"there", "out"} /\ NoStpd.there \in BOOLEAN /\ NoStpd.out = << >> /\ DOMAIN NoStpd.out = {}
    BY DEF NoStpd
  <2>5. DOMAIN disk = {"tmp", "stpd", "si"}
    BY <1>5
  <2> QED BY <2>1, <2>2, <2>3, <2>4, <2>5, SequenceFacts DEF Disk
<1>7. 0 \in Keys /\ Nothing \in Contents
  BY <1>3 DEF Configured, Contents, Nothing
<1>8. RunOK(NewRun, server, disk)
  <2>1. Shape(NewRun)
    BY <1>3, <1>7 DEF Shape, NewRun, RunFields, Places, Plain, Unhashed, Configured
  <2>2. /\ NewRun.pc = "idle" /\ NewRun.key = Plain /\ NewRun.opener = 0 /\ NewRun.since = 0
        /\ ~InUse(NewRun) /\ ~Makes(NewRun) /\ ~Opens(NewRun) /\ ~Wrote(NewRun)
    BY DEF NewRun, InUse, Makes, Opens, Wrote, Unhashed
  <2>3. Keyed(NewRun, server)
    BY <1>5, <2>2 DEF Keyed
  <2>4. Reads(NewRun, server, disk) /\ Knows(NewRun, server, disk) /\ Writes(NewRun, server, disk)
    BY <2>2 DEF Reads, Knows, Writes
  <2> QED BY <2>1, <2>3, <2>4 DEF RunOK
<1>9. ASSUME NEW k \in Keys PROVE FileOK(k, server, disk)
  <2>1. /\ disk.tmp[k] = Nothing /\ disk.stpd[k] = NoStpd
        /\ (disk.si[k] = NoInfo \/ (Provided /\ disk.si[k].there /\ disk.si[k].whole))
    BY <1>3, <1>5 DEF Configured, Provided
  <2> QED BY <2>1 DEF FileOK, Download, StpdOK, NoStpd, NoInfo
<1>10. Sole
  BY <1>5 DEF Sole, Apart, InUse, Makes, Opens, NewRun
<1> QED BY <1>3, <1>4, <1>5, <1>6, <1>8, <1>9, <1>10 DEF StepperInv

\* The invariant after a step, by its parts.
LEMMA Primed ==
    ASSUME opt' = opt, Configured, Server(server'), Disk(disk'), DOMAIN run' = Runs,
           \A q \in Runs : RunOK(run'[q], server', disk'),
           \A k \in Keys : FileOK(k, server', disk'),
           ~Provided /\ ~server'.torn => \A p, q \in Runs : p # q => Apart(run'[p], run'[q])
    PROVE  StepperInv'
<1>1. Configured' /\ (Provided' <=> Provided)
  BY DEF Configured, Provided
<1>2. (Server(server))'
  BY DEF Server
<1>3. (Disk(disk))'
  BY DEF Disk, Contents, Infos
<1>4. Sole'
  BY <1>1 DEF Sole, Apart
<1>5. ASSUME NEW q \in Runs PROVE (RunOK(run[q], server, disk))'
  <2>1. (Shape(run[q]))'
    BY DEF RunOK, Shape, Contents, Provided
  <2>2. (Keyed(run[q], server))'
    BY DEF RunOK, Keyed, Provided, Dated, Http
  <2>3. (Reads(run[q], server, disk))' /\ (Knows(run[q], server, disk))' /\ (Writes(run[q], server, disk))'
    BY DEF RunOK, Reads, Knows, Writes, Provided, Dated, Stored, Source, VersionAt
  <2> QED BY <2>1, <2>2, <2>3 DEF RunOK
<1>6. ASSUME NEW k \in Keys PROVE (FileOK(k, server, disk))'
  BY DEF FileOK, Download, StpdOK, Provided, Dated, VersionAt
<1> QED BY <1>1, <1>2, <1>3, <1>4, <1>5, <1>6 DEF StepperInv

\* A step of one run.
LEMMA Moves ==
    ASSUME StepperInv, opt' = opt, NEW r \in Runs, NEW s, run' = [run EXCEPT ![r] = s],
           Server(server'), Disk(disk'), server.torn => server'.torn, RunOK(s, server', disk'),
           \A q \in Runs \ {r} : RunOK(run[q], server', disk'),
           \A k \in Keys : FileOK(k, server', disk'),
           ~Provided /\ ~server'.torn => \A q \in Runs \ {r} : Apart(run[q], s)
    PROVE  StepperInv'
<1>1. DOMAIN run' = Runs /\ run'[r] = s /\ \A q \in Runs \ {r} : run'[q] = run[q]
  BY DEF StepperInv
<1>2. \A q \in Runs : RunOK(run'[q], server', disk')
  BY <1>1
<1>3. ASSUME ~Provided, ~server'.torn PROVE \A p, q \in Runs : p # q => Apart(run'[p], run'[q])
  <2>1. \A p, q \in Runs : p # q => Apart(run[p], run[q])
    BY <1>3 DEF StepperInv, Sole
  <2>2. \A q \in Runs \ {r} : Apart(run[q], s) /\ Apart(s, run[q])
    BY <1>3 DEF Apart
  <2> QED BY <1>1, <2>1, <2>2
<1> QED BY <1>1, <1>2, <1>3, Primed DEF StepperInv

\* What a run and a file are asked to be stays true of a later version of the ammo
\* file, and of a torn one.
LEMMA Ages ==
    ASSUME StepperInv, NEW v, Server(v), v.version >= server.version, server.torn => v.torn
    PROVE  /\ \A q \in Runs : RunOK(run[q], v, disk)
           /\ \A k \in Keys : FileOK(k, v, disk)
<1>1. server.version \in Nat /\ v.version \in Nat
  BY DEF StepperInv, Server, Configured
<1>2. ASSUME NEW q \in Runs PROVE RunOK(run[q], v, disk)
  <2> DEFINE s == run[q]
  <2>1. RunOK(s, server, disk)
    BY DEF StepperInv
  <2> HIDE DEF s
  <2>2. s.key \in Nat /\ s.opener \in Nat /\ s.since \in Nat
    BY <2>1, StepperAssumption DEF RunOK, Shape, StepperInv, Configured
  <2>3. Keyed(s, v)
    BY <1>1, <2>1, <2>2 DEF RunOK, Keyed
  <2>4. Reads(s, v, disk) /\ Knows(s, v, disk) /\ Writes(s, v, disk)
    BY <2>1 DEF RunOK, Reads, Knows, Writes
  <2>5. RunOK(s, v, disk)
    BY <2>1, <2>3, <2>4 DEF RunOK
  <2> QED BY <2>5 DEF s
<1>3. ASSUME NEW k \in Keys PROVE FileOK(k, v, disk)
  <2>1. FileOK(k, server, disk)
    BY DEF StepperInv
  <2> QED BY <2>1 DEF FileOK, StpdOK
<1> QED BY <1>2, <1>3

\* A step of one run that leaves the files alone.
LEMMA Calm ==
    ASSUME StepperInv, opt' = opt, NEW r \in Runs, NEW s, run' = [run EXCEPT ![r] = s], disk' = disk,
           Server(server'), server'.version >= server.version, server.torn => server'.torn,
           RunOK(s, server', disk),
           ~Provided /\ ~server'.torn => \A q \in Runs \ {r} : Apart(run[q], s)
    PROVE  StepperInv'
<1>1. /\ \A q \in Runs : RunOK(run[q], server', disk)
      /\ \A k \in Keys : FileOK(k, server', disk)
  BY Ages
<1>2. Disk(disk')
  BY DEF StepperInv
<1> QED BY <1>1, <1>2, Moves

\* A run that does less with a stepped file stays apart from the others.
LEMMA StaysApart ==
    ASSUME NEW q, NEW s, NEW t, Apart(q, t), s.key = t.key, InUse(s) => InUse(t), Makes(s) => Makes(t),
           s.pc = "si" => t.pc = "si", t.pc = "load" /\ InUse(s) => s.pc = "load"
    PROVE  Apart(q, s)
BY DEF Apart

\* Numbers of a run.
LEMMA RunFacts ==
    ASSUME StepperInv, NEW r \in Runs
    PROVE  /\ RunOK(run[r], server, disk)
           /\ server.version \in 1..opt.versions /\ server.version \in Nat /\ server.version \in 0..opt.versions
           /\ run[r].since \in Nat /\ run[r].since <= server.version
           /\ run[r].key \in Nat /\ run[r].opener \in Nat /\ run[r].opener <= server.version
<1>1. RunOK(run[r], server, disk)
  BY DEF StepperInv
<1>2. server.version \in 1..opt.versions /\ opt.versions \in Nat /\ 0..opt.versions \subseteq Keys
  BY DEF StepperInv, Server, Configured
<1>3. Shape(run[r]) /\ Keyed(run[r], server)
  BY <1>1 DEF RunOK
<1>4. run[r].since \in 0..opt.versions /\ run[r].key \in Keys /\ run[r].opener \in Keys
  BY <1>3 DEF Shape
<1>5. run[r].since <= server.version /\ run[r].opener <= server.version
  BY <1>3 DEF Keyed
<1>6. run[r].key \in Nat /\ run[r].opener \in Nat /\ run[r].since \in Nat
  BY <1>2, <1>4, StepperAssumption
<1>7. server.version \in 0..opt.versions /\ server.version \in Nat
  BY <1>2
<1> QED BY <1>1, <1>2, <1>5, <1>6, <1>7

\* A run ends, in any way.
LEMMA Stops ==
    ASSUME StepperInv, opt' = opt, NEW r \in Runs, NEW p \in {"shot", "failed", "dead"},
           run' = [run EXCEPT ![r] = [run[r] EXCEPT !.pc = p]], disk' = disk,
           Server(server'), server'.version >= server.version, server.torn => server'.torn
    PROVE  StepperInv'
<1> DEFINE s == [run[r] EXCEPT !.pc = p]
<1>1. RunOK(run[r], server', disk)
  BY Ages
<1>2. /\ DOMAIN s = RunFields /\ s.pc = p /\ s.ret = run[r].ret /\ s.key = run[r].key /\ s.opener = run[r].opener
      /\ s.src = run[r].src /\ s.since = run[r].since /\ s.ammo = run[r].ammo /\ s.out = run[r].out
  BY <1>1 DEF RunOK, Shape, RunFields
<1> HIDE DEF s
<1>3. ~InUse(s) /\ ~Makes(s) /\ ~Opens(s) /\ ~Wrote(s)
  BY <1>2 DEF InUse, Makes, Opens, Wrote
<1>4. Shape(s)
  BY <1>1, <1>2 DEF RunOK, Shape, Places
<1>5. Keyed(s, server') /\ Reads(s, server', disk) /\ Knows(s, server', disk) /\ Writes(s, server', disk)
  BY <1>1, <1>2, <1>3 DEF RunOK, Keyed, Reads, Knows, Writes
<1>6. \A q \in Runs \ {r} : Apart(run[q], s)
  BY <1>3 DEF Apart
<1> QED BY <1>2, <1>4, <1>5, <1>6, Calm DEF RunOK, s

\* A run begins (main.py, __get_stpd_filename).
LEMMA BeginHolds ==
    ASSUME StepperInv, opt' = opt, NEW r \in Runs, Begin(r)
    PROVE  StepperInv'
<1> DEFINE b == [run[r] EXCEPT !.since = server.version]
           s == IF opt.load = "stpd_file" THEN [b EXCEPT !.pc = "load"]
                ELSE IF opt.caching /\ opt.source # "uris" THEN OpenerFor(b, "name") ELSE [b EXCEPT !.pc = "check"]
           t == run[r]
<1>1. run' = [run EXCEPT ![r] = s] /\ server' = server /\ disk' = disk /\ t.pc = "idle"
  BY DEF Begin, Becomes
<1>2. RunOK(t, server, disk)
  BY DEF StepperInv
<1>3. /\ DOMAIN s = RunFields /\ s.pc \in {"load", "check", "head"} /\ s.key = t.key /\ s.opener = t.opener
      /\ s.src = t.src /\ s.since = server.version /\ s.ammo = t.ammo /\ s.out = t.out
      /\ s.pc = "load" <=> Provided
      /\ s.pc = "head" => s.ret = "name" /\ opt.caching /\ opt.source # "uris"
      /\ s.pc = "check" => ~opt.caching \/ opt.source = "uris"
      /\ s.ret \in {t.ret, "name"}
  BY <1>2 DEF RunOK, Shape, RunFields, OpenerFor, Stored, Provided
<1>4. server.version \in 1..opt.versions /\ opt.versions \in Nat
  BY DEF StepperInv, Server, Configured
<1> HIDE DEF s
<1>5. ~Makes(s) /\ ~Opens(s) /\ ~Wrote(s) /\ (InUse(s) => s.pc = "load")
  BY <1>3 DEF InUse, Makes, Opens, Wrote
<1>6. Shape(s)
  BY <1>2, <1>3, <1>4, RunFacts DEF RunOK, Shape, Places
<1>7. Keyed(s, server)
  BY <1>2, <1>3, <1>4, <1>5, RunFacts DEF RunOK, Keyed, Dated
<1>8. Reads(s, server, disk) /\ Knows(s, server, disk) /\ Writes(s, server, disk)
  BY <1>3, <1>5 DEF Reads, Knows, Writes
<1>9. ~Provided => \A q \in Runs \ {r} : Apart(run[q], s)
  BY <1>3, <1>5 DEF Apart
<1>10. RunOK(s, server', disk) /\ Server(server') /\ server'.version >= server.version /\ (server.torn => server'.torn)
  BY <1>1, <1>6, <1>7, <1>8, RunFacts DEF RunOK, StepperInv
<1>11. ~Provided /\ ~server'.torn => \A q \in Runs \ {r} : Apart(run[q], s)
  BY <1>9
<1> QED BY <1>1, <1>10, <1>11, Calm

\* A hash is a version that was, the present one if the source is dated.
LEMMA HashFacts ==
    ASSUME StepperInv
    PROVE  /\ Hash \in Keys /\ Hash \in Nat /\ Hash <= server.version /\ server.version \in 1..opt.versions
           /\ Dated => Hash = server.version
<1>1. server.version \in 1..opt.versions /\ opt.versions \in Nat /\ 0..opt.versions \subseteq Keys
  BY DEF StepperInv, Server, Configured
<1> QED BY <1>1 DEF Hash, HttpHash, S3Hash, FileHash, Unhashed, Dated

\* The head of a file is known: it gives the name, or the opener is made.
LEMMA GetHeadHolds ==
    ASSUME StepperInv, opt' = opt, NEW r \in Runs, GetHead(r)
    PROVE  StepperInv'
<1> DEFINE t == run[r]
           s == IF t.ret = "name" THEN [t EXCEPT !.pc = "check", !.key = Hash]
                                  ELSE [t EXCEPT !.pc = "open", !.opener = Hash, !.tries = 0]
<1>1. run' = [run EXCEPT ![r] = s] /\ server' = server /\ disk' = disk /\ t.pc = "head"
  BY DEF GetHead, Becomes
<1>2. RunOK(t, server, disk)
  BY DEF StepperInv
<1>3. /\ DOMAIN s = RunFields /\ s.ret = t.ret /\ s.src = t.src /\ s.since = t.since /\ s.ammo = t.ammo /\ s.out = t.out
      /\ t.ret = "name" => s.pc = "check" /\ s.key = Hash /\ s.opener = t.opener
      /\ t.ret # "name" => s.pc = "open" /\ s.key = t.key /\ s.opener = Hash
  BY <1>2 DEF RunOK, Shape, RunFields
<1> HIDE DEF s
<1>4. CASE t.ret = "name"
  <2>1. ~Makes(s) /\ ~Opens(s) /\ ~Wrote(s) /\ ~InUse(s)
    BY <1>3, <1>4 DEF InUse, Makes, Opens, Wrote
  <2>2. Shape(s)
    BY <1>1, <1>2, <1>3, <1>4, HashFacts DEF RunOK, Shape, Places
  <2>3. t.since <= server.version /\ t.since \in Nat /\ opt.caching
    BY <1>1, <1>2, <1>4, RunFacts DEF RunOK, Keyed, Makes, InUse
  <2>4. Keyed(s, server)
    BY <1>2, <1>3, <1>4, <2>1, <2>3, RunFacts, HashFacts DEF RunOK, Keyed, Plain
  <2>5. Reads(s, server, disk) /\ Knows(s, server, disk) /\ Writes(s, server, disk)
    BY <1>3, <1>4, <2>1 DEF Reads, Knows, Writes
  <2>6. \A q \in Runs \ {r} : Apart(run[q], s)
    BY <2>1 DEF Apart
  <2>7. Server(server') /\ server'.version >= server.version
    BY <1>1, HashFacts DEF StepperInv
  <2> QED BY <1>1, <2>2, <2>4, <2>5, <2>6, <2>7, Calm DEF RunOK
<1>5. CASE t.ret # "name"
  <2>1. Makes(s) /\ Opens(s) /\ Makes(t) /\ Opens(t) /\ (Wrote(s) <=> Wrote(t)) /\ InUse(s) /\ InUse(t)
    BY <1>1, <1>3, <1>5 DEF InUse, Makes, Opens, Wrote
  <2>2. Shape(s)
    BY <1>1, <1>2, <1>3, <1>5, HashFacts DEF RunOK, Shape, Places
  <2>3. t.since <= server.version /\ t.since \in Nat /\ (~Provided /\ Dated /\ opt.caching => t.key <= server.version)
    <3>1. Keyed(t, server)
      BY <1>2 DEF RunOK
    <3>2. ~Provided /\ Dated /\ opt.caching => t.key <= server.version
      BY <2>1, <3>1 DEF Keyed
    <3> QED BY <3>2, RunFacts
  <2>4. Keyed(s, server)
    BY <1>2, <1>3, <1>5, <2>1, <2>2, <2>3, HashFacts DEF RunOK, Keyed, Shape
  <2>5. Reads(s, server, disk) /\ Knows(s, server, disk) /\ Writes(s, server, disk)
    BY <1>2, <1>3, <1>5, <2>1 DEF RunOK, Reads, Knows, Writes
  <2>6. ~Provided /\ ~server.torn => \A q \in Runs \ {r} : Apart(run[q], s)
    <3>1. ~Provided /\ ~server.torn => \A q \in Runs \ {r} : Apart(run[q], t)
      BY DEF StepperInv, Sole
    <3> QED BY <1>1, <1>3, <1>5, <2>1, <3>1, StaysApart
  <2>7. Server(server') /\ server'.version >= server.version
    BY <1>1, HashFacts DEF StepperInv
  <2> QED BY <1>1, <2>2, <2>4, <2>5, <2>6, <2>7, Calm DEF RunOK
<1> QED BY <1>4, <1>5


\* A call to the server fails and is tried again, or no more (resource.py, retry).
LEMMA FaultHolds ==
    ASSUME StepperInv, opt' = opt, NEW r \in Runs, HeadFails(r) \/ GetFails(r)
    PROVE  StepperInv'
<1> DEFINE t == run[r]
           s == [run[r] EXCEPT !.tries = @ + 1]
<1>1. PICK last : Fault(r, last) /\ t.pc \in {"head", "open", "get"}
  BY DEF HeadFails, GetFails
<1>2. RunOK(t, server, disk)
  BY DEF StepperInv
<1>3. /\ server'.version = server.version /\ server'.torn = server.torn /\ Server(server') /\ disk' = disk
      /\ Server(server)
  BY <1>1, RunFacts DEF Fault, StepperInv, Server
<1>4. CASE run' = [run EXCEPT ![r] = [run[r] EXCEPT !.pc = "failed"]]
  <2>1. server'.version >= server.version
    BY <1>3, RunFacts
  <2> QED BY <1>3, <1>4, <2>1, Stops
<1>5. CASE run' = [run EXCEPT ![r] = s]
  <2>1. /\ DOMAIN s = RunFields /\ s.pc = t.pc /\ s.ret = t.ret /\ s.key = t.key /\ s.opener = t.opener
        /\ s.src = t.src /\ s.since = t.since /\ s.ammo = t.ammo /\ s.out = t.out
    BY <1>2 DEF RunOK, Shape, RunFields
  <2> HIDE DEF s, t
  <2>2. Opens(s) = Opens(t) /\ Makes(s) = Makes(t) /\ Wrote(s) = Wrote(t) /\ InUse(s) = InUse(t)
    BY <2>1 DEF Opens, Makes, Wrote, InUse
  <2>3. Shape(s)
    BY <1>2, <2>1 DEF RunOK, Shape
  <2>4. Keyed(s, server')
    BY <1>2, <1>3, <2>1, <2>2 DEF RunOK, Keyed
  <2>5. Reads(s, server', disk) /\ Knows(s, server', disk) /\ Writes(s, server', disk)
    BY <1>2, <1>3, <2>1, <2>2 DEF RunOK, Reads, Knows, Writes, Source
  <2>6. ~Provided /\ ~server'.torn => \A q \in Runs \ {r} : Apart(run[q], s)
    <3>1. ~Provided /\ ~server.torn => \A q \in Runs \ {r} : Apart(run[q], t)
      BY DEF StepperInv, Sole, t
    <3> QED BY <1>3, <2>1, <2>2, <3>1, StaysApart
  <2>7. RunOK(s, server', disk) /\ server'.version >= server.version
    BY <1>3, <2>3, <2>4, <2>5, RunFacts DEF RunOK
  <2> QED BY <1>3, <1>5, <2>6, <2>7, Calm DEF s
<1>6. run' = [run EXCEPT ![r] = [run[r] EXCEPT !.pc = "failed"]] \/ run' = [run EXCEPT ![r] = s]
  BY <1>1 DEF Fault, Fails, Goes, Becomes
<1> QED BY <1>4, <1>5, <1>6

\* A stepped file that was found is used (main.py, prepare_stepper).
LEMMA LoadHolds ==
    ASSUME StepperInv, opt' = opt, NEW r \in Runs, Load(r)
    PROVE  StepperInv'
<1> DEFINE t == run[r]
           s == [run[r] EXCEPT !.pc = "ready", !.ammo = Si(r).ammo]
<1>1. t.pc = "load" /\ server' = server /\ disk' = disk
  BY DEF Load
<1>2. RunOK(t, server, disk) /\ Server(server') /\ server'.version >= server.version
  BY <1>1, RunFacts DEF StepperInv
<1>3. CASE ~Si(r).whole
  <2>1. run' = [run EXCEPT ![r] = [run[r] EXCEPT !.pc = "failed"]]
    BY <1>3 DEF Load, Fails, Goes, Becomes
  <2> QED BY <1>1, <1>2, <2>1, Stops
<1>4. CASE Si(r).whole
  <2>1. run' = [run EXCEPT ![r] = s]
    BY <1>4 DEF Load, Becomes
  <2>2. /\ DOMAIN s = RunFields /\ s.pc = "ready" /\ s.ret = t.ret /\ s.key = t.key /\ s.opener = t.opener
        /\ s.src = t.src /\ s.since = t.since /\ s.ammo = disk.si[t.key].ammo /\ s.out = t.out
    BY <1>2 DEF RunOK, Shape, RunFields, Si
  <2>3. t.key \in Keys /\ disk.si[t.key] \in Infos /\ disk.si[t.key].whole /\ FileOK(t.key, server, disk)
    BY <1>2, <1>4 DEF RunOK, Shape, StepperInv, Disk, Si
  <2> HIDE DEF s, t
  <2>4. ~Opens(s) /\ ~Makes(s) /\ Wrote(s) /\ InUse(s) /\ InUse(t)
    BY <1>1, <2>2 DEF Opens, Makes, Wrote, InUse
  <2>5. Shape(s)
    BY <1>2, <2>2, <2>3 DEF RunOK, Shape, Infos, Places
  <2>6. Keyed(s, server)
    BY <1>1, <1>2, <2>2, <2>4 DEF RunOK, Keyed
  <2>7. opt.caching \/ Provided
    BY <1>1, <1>2 DEF RunOK, Keyed
  <2>8. Reads(s, server, disk) /\ Knows(s, server, disk)
    BY <2>2, <2>3, <2>4, <2>7 DEF Reads, Knows, FileOK, StpdOK
  <2>9. Writes(s, server, disk)
    <3>1. SUFFICES ASSUME Dated, ~Provided, ~server.torn, NEW i \in DOMAIN disk.stpd[s.key].out
                   PROVE  VersionAt(disk, s.key, i) >= s.since
      <4>1. Provided => disk.stpd[s.key].out = << >>
        BY <2>2, <2>3 DEF FileOK, StpdOK
      <4> QED BY <2>2, <4>1 DEF Writes
    <3>2. VersionAt(disk, s.key, i) >= s.key
      BY <2>2, <2>3, <2>7, <3>1 DEF FileOK, StpdOK
    <3>3. s.key >= s.since
      <4>1. Keyed(t, server) /\ t.key \in Nat /\ t.since \in Nat
        BY <1>2, RunFacts DEF RunOK, t
      <4> QED BY <4>1, <2>2, <2>4, <2>7, <3>1 DEF Keyed
    <3>4. VersionAt(disk, s.key, i) \in Nat
      BY <2>2, <2>3, <3>1 DEF StepperInv, Disk, VersionAt
    <3>5. s.key \in Nat /\ s.since \in Nat
      BY <2>2, RunFacts DEF t
    <3> QED BY <3>2, <3>3, <3>4, <3>5
  <2>10. ~Provided /\ ~server.torn => \A q \in Runs \ {r} : Apart(run[q], s)
    <3>1. SUFFICES ASSUME ~Provided, ~server.torn, NEW q \in Runs \ {r} PROVE Apart(run[q], s)
      OBVIOUS
    <3>2. Apart(run[q], t)
      BY <3>1 DEF StepperInv, Sole, t
    <3>3. ~(run[q].pc = "si" /\ run[q].key = s.key)
      <4>1. Knows(run[q], server, disk)
        BY <3>1 DEF StepperInv, RunOK
      <4> QED BY <2>2, <2>3, <2>7, <3>1, <4>1 DEF Knows
    <3> QED BY <1>1, <2>2, <2>4, <3>2, <3>3 DEF Apart
  <2>11. RunOK(s, server', disk)
    BY <1>1, <2>5, <2>6, <2>8, <2>9 DEF RunOK
  <2>12. ~Provided /\ ~server'.torn => \A q \in Runs \ {r} : Apart(run[q], s)
    BY <1>1, <2>10
  <2> QED BY <1>1, <1>2, <2>1, <2>11, <2>12, Calm
<1> QED BY <1>3, <1>4

\* A run that counted no missile has written none.
LEMMA NothingWritten ==
    ASSUME StepperInv, NEW r \in Runs, ~server.torn, Wrote(run[r]), run[r].ammo = 0, ~Provided
    PROVE  DOMAIN disk.stpd[run[r].key].out = {}
<1>1. RunOK(run[r], server, disk) /\ run[r].key \in Keys
  BY RunFacts DEF RunOK, Shape
<1>2. Len(disk.stpd[run[r].key].out) = 0 /\ IsSeq(disk.stpd[run[r].key].out)
  BY <1>1 DEF RunOK, Knows, StepperInv, Disk
<1> QED BY <1>2, SequenceFacts

\* A file is opened: a local one, or the temporary file if it is there.
LEMMA OpenFileHolds ==
    ASSUME StepperInv, opt' = opt, NEW r \in Runs, OpenFile(r)
    PROVE  StepperInv'
<1> DEFINE t == run[r]
           now == [v |-> server.version, whole |-> TRUE]
           s == IF ~Stored THEN [t EXCEPT !.pc = t.ret, !.src = now]
                ELSE [t EXCEPT !.pc = IF opt.caching /\ disk.tmp[t.opener] # Nothing THEN t.ret ELSE "get"]
<1>1. run' = [run EXCEPT ![r] = s] /\ disk' = disk /\ t.pc = "open"
  BY DEF OpenFile, Becomes, Goes
<1>2. RunOK(t, server, disk) /\ Disk(disk) /\ Server(server)
  BY DEF StepperInv
<1>3. /\ server'.version = server.version /\ Server(server') /\ (server.torn => server'.torn)
      /\ ~server'.torn => (Stored /\ opt.caching => ~Part(disk.tmp[t.opener]))
  BY <1>2 DEF OpenFile, Server
<1>4. t.ret \in {"detect", "again", "read"} /\ ~Provided /\ t.opener \in Keys /\ disk.tmp[t.opener] \in Contents
  BY <1>1, <1>2 DEF RunOK, Shape, Disk
<1>5. /\ DOMAIN s = RunFields /\ s.ret = t.ret /\ s.key = t.key /\ s.opener = t.opener
      /\ s.since = t.since /\ s.ammo = t.ammo /\ s.out = t.out
      /\ Stored => s.src = t.src /\ (s.pc = "get" \/ (s.pc = t.ret /\ opt.caching /\ disk.tmp[t.opener] # Nothing))
      /\ ~Stored => s.src = now /\ s.pc = t.ret
  BY <1>2 DEF RunOK, Shape, RunFields
<1>6. server'.version >= server.version /\ server.version \in Nat /\ now \in Contents
  BY <1>3, RunFacts DEF Contents
<1> HIDE DEF s, t, now
<1>7. /\ Opens(t) /\ Makes(t) /\ InUse(t)
      /\ Makes(s) /\ InUse(s) /\ (Wrote(s) => Wrote(t)) /\ s.pc \in {"get", "detect", "again", "read"}
  BY <1>1, <1>4, <1>5 DEF Opens, Makes, InUse, Wrote
<1>8. Shape(s)
  BY <1>2, <1>4, <1>5, <1>6, <1>7 DEF RunOK, Shape, Places
<1>9. Keyed(s, server')
  <2>1. Keyed(t, server)
    BY <1>2 DEF RunOK
  <2>2. s.opener <= server.version /\ s.since <= server.version /\ (~opt.caching => s.key = Plain)
    BY <1>5, <2>1 DEF Keyed
  <2>3. Dated /\ opt.caching => s.since <= s.key /\ s.key <= server.version
    BY <1>4, <1>5, <1>7, <2>1 DEF Keyed
  <2>4. Dated /\ Http => s.since <= s.opener /\ (opt.caching => s.key <= s.opener)
    BY <1>1, <1>5, <2>1 DEF Keyed
  <2>5. Dated /\ ~Http /\ s.pc = "read" => s.since <= s.src.v /\ (opt.caching => s.key <= s.src.v)
    <3>1. Dated /\ ~Http => ~Stored
      BY DEF Dated, Http, Stored
    <3>2. now.v = server.version
      BY DEF now
    <3> QED BY <1>5, <2>2, <2>3, <3>1, <3>2
  <2> QED BY <1>3, <1>7, <2>2, <2>3, <2>4, <2>5 DEF Keyed
<1>10. Reads(s, server', disk)
  <2>1. Stored /\ s.pc \in {"detect", "again", "read"} => disk.tmp[s.opener] # Nothing /\ opt.caching
    BY <1>4, <1>5
  <2>2. ~server'.torn /\ Stored /\ s.pc \in {"detect", "again", "read"} => disk.tmp[s.opener].whole
    BY <1>3, <1>4, <1>5, <2>1 DEF Part, Contents
  <2>3. now.whole
    BY DEF now
  <2>4. s.pc = "get" => Stored
    BY <1>4, <1>5
  <2> QED BY <1>5, <1>7, <2>1, <2>2, <2>3, <2>4 DEF Reads, Source
<1>11. Knows(s, server', disk)
  BY <1>2, <1>3, <1>5, <1>7 DEF RunOK, Knows
<1>12. Writes(s, server', disk)
  <2>1. SUFFICES ASSUME ~server'.torn PROVE Writes(s, server', disk)
    BY DEF Writes
  <2>2. t.ammo = 0
    BY <1>2, <1>7 DEF RunOK, Knows
  <2>3. Wrote(s) => DOMAIN disk.stpd[s.key].out = {}
    BY <1>3, <1>4, <1>5, <1>7, <2>1, <2>2, NothingWritten DEF t
  <2>4. s.pc = "read" => Wrote(s)
    BY DEF Wrote
  <2> QED BY <2>3, <2>4 DEF Writes
<1>13. ~Provided /\ ~server'.torn => \A q \in Runs \ {r} : Apart(run[q], s)
  <2>1. ~server'.torn => \A q \in Runs \ {r} : Apart(run[q], t)
    BY <1>3, <1>4 DEF StepperInv, Sole, t
  <2> QED BY <1>1, <1>5, <1>7, <2>1, StaysApart
<1> QED BY <1>1, <1>3, <1>6, <1>8, <1>9, <1>10, <1>11, <1>12, <1>13, Calm DEF RunOK

\* The stepper is made.
LEMMA MakeHolds ==
    ASSUME StepperInv, opt' = opt, NEW r \in Runs, Make(r)
    PROVE  StepperInv'
<1> DEFINE t == run[r]
           n == NewStepper(t)
           none == [v |-> 0, whole |-> TRUE]
           s == IF opt.type = "phantom" /\ opt.source # "uris" THEN OpenerFor(n, "detect")
                ELSE [n EXCEPT !.pc = "truncate", !.src = none]
<1>1. server' = server /\ disk' = disk /\ t.pc = "make"
  BY DEF Make
<1>2. RunOK(t, server, disk) /\ Server(server') /\ server'.version >= server.version
  BY <1>1, RunFacts DEF StepperInv
<1>3. CASE opt.plan.fails
  <2>1. run' = [run EXCEPT ![r] = [run[r] EXCEPT !.pc = "failed"]]
    BY <1>3 DEF Make, Fails, Goes, Becomes
  <2> QED BY <1>1, <1>2, <2>1, Stops
<1>4. CASE ~opt.plan.fails
  <2>1. run' = [run EXCEPT ![r] = s]
    BY <1>4 DEF Make, Becomes
  <2>2. /\ DOMAIN n = RunFields /\ n.ret = t.ret /\ n.key = t.key /\ n.opener = t.opener
        /\ n.src = t.src /\ n.since = t.since /\ n.ammo = 0 /\ n.out = t.out
    BY <1>2 DEF RunOK, Shape, RunFields, NewStepper
  <2> HIDE DEF n
  <2>3. /\ DOMAIN s = RunFields /\ s.key = t.key /\ s.opener = t.opener
        /\ s.since = t.since /\ s.ammo = 0 /\ s.out = t.out
        /\ \/ s.pc = "truncate" /\ s.ret = t.ret /\ s.src = none
           \/ s.pc = (IF Stored THEN "head" ELSE "open") /\ s.ret = "detect" /\ s.src = t.src
    BY <2>2 DEF RunFields, OpenerFor
  <2>4. none \in Contents /\ none.whole /\ ~Provided
    <3>1. opt.versions \in Nat
      BY DEF StepperInv, Configured
    <3>2. none \in Contents
      BY <3>1 DEF Contents
    <3> QED BY <1>1, <1>2, <3>2 DEF RunOK, Shape
  <2> HIDE DEF s, t, none
  <2>5. s.pc \in {"truncate", "head", "open"} /\ Makes(t) /\ InUse(t) /\ ~Wrote(s)
    BY <1>1, <2>3 DEF Makes, InUse, Wrote, Opens
  <2>6. Shape(s)
    <3>1. Shape(t) /\ s.src \in Contents /\ s.pc \in Places
      BY <1>2, <2>3, <2>4 DEF RunOK, Shape, Places
    <3>2. s.ret \in {"", "name", "detect", "again", "read"} /\ (s.pc # "truncate" => s.ret = "detect")
      BY <2>3, <3>1 DEF Shape
    <3>3. s.key \in Keys /\ s.opener \in Keys /\ s.since \in 0..opt.versions /\ s.ammo \in Nat /\ s.out = << >>
      <4>1. s.ammo = 0 /\ s.since = t.since /\ s.key = t.key /\ s.opener = t.opener /\ s.out = t.out
        BY <2>3
      <4>2. t.key \in Keys /\ t.opener \in Keys /\ t.since \in 0..opt.versions /\ t.out = << >>
        BY <3>1 DEF Shape
      <4>3. s.ammo \in Nat
        BY <4>1
      <4> QED BY <4>1, <4>2, <4>3
    <3>4. DOMAIN s = RunFields /\ ~Provided
      BY <2>3, <2>4
    <3> QED BY <2>5, <3>1, <3>2, <3>3, <3>4 DEF Shape
  <2>7. Keyed(s, server)
    <3>1. Keyed(t, server)
      BY <1>2 DEF RunOK
    <3>2. Http => s.pc # "open"
      BY <2>3 DEF Http, Stored
    <3>3. s.pc = "head" => s.ret = "detect"
      BY <2>3
    <3> QED BY <2>3, <2>5, <3>1, <3>2, <3>3 DEF Keyed
  <2>8. Reads(s, server, disk) /\ Knows(s, server, disk) /\ Writes(s, server, disk)
    BY <1>2, <2>3, <2>4, <2>5 DEF Reads, Knows, Writes, RunOK
  <2>9. ~Provided /\ ~server.torn => \A q \in Runs \ {r} : Apart(run[q], s)
    <3>1. ~Provided /\ ~server.torn => \A q \in Runs \ {r} : Apart(run[q], t)
      BY DEF StepperInv, Sole, t
    <3> QED BY <1>1, <2>3, <2>5, <3>1, StaysApart
  <2>10. RunOK(s, server', disk) /\ (~Provided /\ ~server'.torn => \A q \in Runs \ {r} : Apart(run[q], s))
    BY <1>1, <2>6, <2>7, <2>8, <2>9 DEF RunOK
  <2> QED BY <1>1, <1>2, <2>1, <2>10, Calm
<1> QED BY <1>3, <1>4

\* The type of the ammo is found out.
LEMMA DetectHolds ==
    ASSUME StepperInv, opt' = opt, NEW r \in Runs, Detect(r)
    PROVE  StepperInv'
<1> DEFINE t == run[r]
           s == IF t.pc = "detect" THEN OpenerFor(t, "again") ELSE [t EXCEPT !.pc = "truncate"]
<1>1. server' = server /\ disk' = disk /\ t.pc \in {"detect", "again"}
  BY DEF Detect
<1>2. RunOK(t, server, disk) /\ Server(server') /\ server'.version >= server.version
  BY <1>1, RunFacts DEF StepperInv
<1>3. CASE run' = [run EXCEPT ![r] = [run[r] EXCEPT !.pc = "failed"]]
  BY <1>1, <1>2, <1>3, Stops
<1>4. CASE run' = [run EXCEPT ![r] = s]
  <2>1. /\ DOMAIN s = RunFields /\ s.key = t.key /\ s.opener = t.opener
        /\ s.src = t.src /\ s.since = t.since /\ s.ammo = t.ammo /\ s.out = t.out
        /\ \/ s.pc = "truncate" /\ s.ret = t.ret
           \/ s.pc = (IF Stored THEN "head" ELSE "open") /\ s.ret = "again"
    BY <1>2 DEF RunOK, Shape, RunFields, OpenerFor
  <2> HIDE DEF s, t
  <2>2. Makes(s) /\ InUse(s) /\ Makes(t) /\ InUse(t) /\ ~Wrote(s)
    BY <1>1, <2>1 DEF Opens, Makes, Wrote, InUse
  <2>3. Shape(s)
    BY <1>1, <1>2, <2>1 DEF RunOK, Shape, Places
  <2>4. Keyed(s, server)
    <3>1. Keyed(t, server)
      BY <1>2 DEF RunOK
    <3>2. Http => s.pc # "open"
      BY <2>1 DEF Http, Stored
    <3>3. s.pc = "head" => s.ret # "name"
      BY <2>1
    <3>4. s.pc \in {"truncate", "head", "open"}
      BY <2>1
    <3> QED BY <2>1, <2>2, <3>1, <3>2, <3>3, <3>4 DEF Keyed
  <2>5. Reads(s, server, disk) /\ Knows(s, server, disk) /\ Writes(s, server, disk)
    BY <1>1, <1>2, <2>1, <2>2 DEF RunOK, Reads, Knows, Writes
  <2>6. ~Provided /\ ~server.torn => \A q \in Runs \ {r} : Apart(run[q], s)
    <3>1. ~Provided /\ ~server.torn => \A q \in Runs \ {r} : Apart(run[q], t)
      BY DEF StepperInv, Sole, t
    <3> QED BY <1>1, <2>1, <2>2, <3>1, StaysApart
  <2>7. RunOK(s, server', disk) /\ (~Provided /\ ~server'.torn => \A q \in Runs \ {r} : Apart(run[q], s))
    BY <1>1, <2>3, <2>4, <2>5, <2>6 DEF RunOK
  <2> QED BY <1>1, <1>2, <1>4, <2>7, Calm DEF s
<1> QED BY <1>3, <1>4 DEF Detect, Fails, Goes, Becomes

\* The file on the server is replaced.
LEMMA ReplaceHolds ==
    ASSUME StepperInv, opt' = opt, Replace
    PROVE  StepperInv'
<1>1. /\ Server(server') /\ server'.version >= server.version /\ server'.torn = server.torn
      /\ disk' = disk /\ run' = run
  BY DEF Replace, StepperInv, Server, Configured
<1>2. (\A q \in Runs : RunOK(run[q], server', disk)) /\ (\A k \in Keys : FileOK(k, server', disk))
  BY <1>1, Ages
<1> QED BY <1>1, <1>2, Primed DEF StepperInv, Sole

\* A run has shot, or is killed.
LEMMA EndHolds ==
    ASSUME StepperInv, opt' = opt, NEW r \in Runs, Shoot(r) \/ Kill(r)
    PROVE  StepperInv'
<1>1. Server(server) /\ server.version \in Nat
  BY RunFacts DEF StepperInv
<1>2. CASE Shoot(r)
  <2>1. server' = server /\ disk' = disk /\ run' = [run EXCEPT ![r] = [run[r] EXCEPT !.pc = "shot"]]
    BY <1>2 DEF Shoot, Goes, Becomes
  <2>2. Server(server') /\ server'.version >= server.version /\ (server.torn => server'.torn)
    BY <1>1, <2>1
  <2> QED BY <2>1, <2>2, Stops
<1>3. CASE Kill(r)
  <2>1. Server(server') /\ server'.version = server.version /\ server'.torn = server.torn
    BY <1>1, <1>3 DEF Kill, Server
  <2>2. disk' = disk /\ run' = [run EXCEPT ![r] = [run[r] EXCEPT !.pc = "dead"]]
    BY <1>3 DEF Kill, Goes, Becomes
  <2>3. server'.version >= server.version
    BY <1>1, <2>1
  <2> QED BY <2>1, <2>2, <2>3, Stops
<1> QED BY <1>2, <1>3

\* Who uses a name.
LEMMA UsesFacts ==
    ASSUME StepperInv, NEW k
    PROVE  \A q \in Runs : q \in Uses(k) <=> run[q].key = k /\ InUse(run[q])
BY DEF Uses, InUse, Makes, Opens

\* The parts of the invariant.
LEMMA DiskFacts ==
    ASSUME StepperInv
    PROVE  /\ Disk(disk) /\ Server(server)
           /\ \A k \in Keys : FileOK(k, server, disk)
           /\ \A q \in Runs : RunOK(run[q], server, disk)
BY DEF StepperInv

\* A stepped file and its si are looked for; a forced run removes the si.
LEMMA CheckHolds ==
    ASSUME StepperInv, opt' = opt, NEW r \in Runs, Check(r)
    PROVE  StepperInv'
<1> DEFINE t == run[r]
           k == t.key
           s == [t EXCEPT !.pc = IF InCache(r) THEN "load" ELSE "make"]
<1>1. run' = [run EXCEPT ![r] = s] /\ t.pc = "check"
  BY DEF Check, Goes, Becomes
<1>2. RunOK(t, server, disk) /\ k \in Keys /\ ~Provided
  BY <1>1, DiskFacts DEF RunOK, Shape
<1>3. /\ server'.version = server.version /\ Server(server') /\ (server.torn => server'.torn)
      /\ ~server'.torn => InCache(r) \/ Uses(k) = {}
  BY DiskFacts DEF Check, Server
<1>4. disk' = IF Forced(r) THEN [disk EXCEPT !.si[k] = NoInfo] ELSE disk
  BY DEF Check
<1>5. /\ disk'.tmp = disk.tmp /\ disk'.stpd = disk.stpd /\ Disk(disk')
      /\ \A l \in Keys : disk'.si[l] = disk.si[l] \/ (disk'.si[l] = NoInfo /\ l = k /\ Forced(r))
      /\ Forced(r) => disk'.si[k] = NoInfo
  <2>1. NoInfo \in Infos
    BY DEF NoInfo, Infos
  <2> QED BY <1>2, <1>4, <2>1, DiskFacts DEF Disk
<1>6. ~NoInfo.there /\ ~NoInfo.whole
  BY DEF NoInfo
<1>7. (\A q \in Runs : RunOK(run[q], server', disk)) /\ (\A l \in Keys : FileOK(l, server', disk))
  BY <1>3, RunFacts, Ages
<1>8. ASSUME NEW q \in Runs PROVE RunOK(run[q], server', disk')
  <2>1. RunOK(run[q], server', disk) /\ run[q].key \in Keys
    BY <1>7, DiskFacts DEF RunOK, Shape
  <2>2. Reads(run[q], server', disk') /\ Writes(run[q], server', disk')
    BY <1>5, <2>1 DEF RunOK, Reads, Writes, Source, VersionAt
  <2>3. Knows(run[q], server', disk')
    BY <1>5, <1>6, <2>1 DEF RunOK, Knows
  <2> QED BY <2>1, <2>2, <2>3 DEF RunOK
<1>9. ASSUME NEW l \in Keys PROVE FileOK(l, server', disk')
  BY <1>5, <1>6, <1>7 DEF FileOK, Download, StpdOK, VersionAt
<1>10. /\ DOMAIN s = RunFields /\ s.ret = t.ret /\ s.key = k /\ s.opener = t.opener
       /\ s.src = t.src /\ s.since = t.since /\ s.ammo = t.ammo /\ s.out = t.out
       /\ s.pc = IF InCache(r) THEN "load" ELSE "make"
  BY <1>2 DEF RunOK, Shape, RunFields
<1> HIDE DEF s, t, k
<1>11. ~Opens(s) /\ ~Wrote(s) /\ InUse(s) /\ (Makes(s) => ~InCache(r)) /\ ~Wrote(t)
  BY <1>1, <1>10 DEF Opens, Wrote, InUse, Makes
<1>12. InCache(r) => opt.caching /\ ~Forced(r) /\ disk.si[k].there /\ disk' = disk
  BY <1>4 DEF InCache, Si, t, k
<1>13. Shape(s)
  BY <1>2, <1>10 DEF RunOK, Shape, Places
<1>14. Keyed(s, server')
  <2>1. Keyed(t, server)
    BY <1>2 DEF RunOK
  <2> QED BY <1>1, <1>3, <1>10, <1>11, <1>12, <2>1 DEF Keyed, k
<1>15. Reads(s, server', disk') /\ Writes(s, server', disk')
  BY <1>10, <1>11 DEF Reads, Writes
<1>16. Knows(s, server', disk')
  <2>1. SUFFICES ASSUME ~server'.torn, opt.caching, Makes(s) PROVE ~disk'.si[k].there
    BY <1>10, <1>11 DEF Knows
  <2>2. CASE Forced(r)
    BY <2>2, <1>5, <1>6
  <2>3. CASE ~Forced(r)
    <3>1. ~(disk.stpd[k].there /\ disk.si[k].there)
      BY <1>11, <2>1, <2>3 DEF InCache, Si, Stpd, t, k
    <3>2. disk.si[k].there => disk.stpd[k].there
      BY <1>2, DiskFacts DEF FileOK, StpdOK
    <3> QED BY <1>4, <2>3, <3>1, <3>2
  <2> QED BY <2>2, <2>3
<1>17. ASSUME ~server'.torn, NEW q \in Runs \ {r} PROVE Apart(run[q], s)
  <2>1. SUFFICES ASSUME run[q].key = k, InUse(run[q]) PROVE opt.caching /\ ~Makes(run[q]) /\ s.pc = "load"
    BY <1>10, <1>11 DEF Apart, Makes, Opens
  <2>2. InCache(r)
    BY <1>3, <1>17, <2>1, UsesFacts
  <2>3. Knows(run[q], server, disk)
    BY DiskFacts DEF RunOK
  <2> QED BY <1>3, <1>10, <1>12, <1>17, <2>1, <2>2, <2>3 DEF Knows
<1>18. RunOK(s, server', disk')
  BY <1>13, <1>14, <1>15, <1>16 DEF RunOK
<1> QED BY <1>1, <1>3, <1>5, <1>8, <1>9, <1>17, <1>18, Moves

\* The stepped file is opened for writing: it has no missile now.
LEMMA TruncateHolds ==
    ASSUME StepperInv, opt' = opt, NEW r \in Runs, Truncate(r)
    PROVE  StepperInv'
<1> DEFINE t == run[r]
           k == t.key
           empty == [there |-> TRUE, out |-> << >>]
           s == IF opt.source = "uris" THEN [t EXCEPT !.pc = "read"] ELSE OpenerFor(t, "read")
<1>1. run' = [run EXCEPT ![r] = s] /\ t.pc = "truncate"
  BY DEF Truncate, Becomes
<1>2. RunOK(t, server, disk) /\ k \in Keys /\ ~Provided
  BY <1>1, DiskFacts DEF RunOK, Shape
<1>3. /\ server'.version = server.version /\ Server(server') /\ (server.torn => server'.torn)
      /\ ~server'.torn => Uses(k) = {r}
  BY DiskFacts DEF Truncate, Server
<1>4. disk' = [disk EXCEPT !.stpd[k] = empty]
  BY DEF Truncate
<1>5. /\ empty.there /\ empty.out = << >> /\ DOMAIN empty.out = {} /\ Len(empty.out) = 0 /\ IsSeq(empty.out)
      /\ DOMAIN empty = {"there", "out"} /\ empty.there \in BOOLEAN
  BY SequenceFacts
<1> HIDE DEF empty
<1>6. /\ disk'.tmp = disk.tmp /\ disk'.si = disk.si /\ disk'.stpd[k] = empty /\ DOMAIN disk'.stpd = Keys
      /\ DOMAIN disk' = {"tmp", "stpd", "si"}
      /\ \A l \in Keys \ {k} : disk'.stpd[l] = disk.stpd[l]
  BY <1>2, <1>4, DiskFacts DEF Disk
<1>7. Disk(disk')
  BY <1>5, <1>6, DiskFacts DEF Disk
<1>8. (\A q \in Runs : RunOK(run[q], server', disk)) /\ (\A l \in Keys : FileOK(l, server', disk))
  BY <1>3, RunFacts, Ages
<1>9. ASSUME ~server'.torn, NEW q \in Runs \ {r} PROVE ~(InUse(run[q]) /\ run[q].key = k)
  BY <1>3, <1>9, UsesFacts
<1>10. ASSUME NEW q \in Runs \ {r} PROVE RunOK(run[q], server', disk')
  <2>1. RunOK(run[q], server', disk) /\ run[q].key \in Keys
    BY <1>8, DiskFacts DEF RunOK, Shape
  <2>2. ~server'.torn => (Wrote(run[q]) => run[q].key # k)
    BY <1>9 DEF Wrote, InUse, Makes
  <2>3. run[q].pc = "read" => Wrote(run[q])
    BY DEF Wrote
  <2>4. Reads(run[q], server', disk')
    BY <1>6, <2>1 DEF RunOK, Reads, Source
  <2>5. Knows(run[q], server', disk')
    BY <1>5, <1>6, <2>1, <2>2 DEF RunOK, Knows
  <2>6. Writes(run[q], server', disk')
    BY <1>6, <2>1, <2>2, <2>3 DEF RunOK, Writes, VersionAt, Source
  <2> QED BY <2>1, <2>4, <2>5, <2>6 DEF RunOK
<1> HIDE DEF s, t, k
<1>11. /\ DOMAIN s = RunFields /\ s.key = k /\ s.opener = t.opener
       /\ s.src = t.src /\ s.since = t.since /\ s.ammo = t.ammo /\ s.out = t.out
       /\ \/ s.pc = "read" /\ s.ret = t.ret /\ opt.source = "uris"
          \/ s.pc \in {"head", "open"} /\ s.ret = "read" /\ (s.pc = "open" => ~Stored)
  BY <1>2 DEF RunOK, Shape, RunFields, OpenerFor, s, k
<1>12. Makes(t) /\ InUse(t) /\ Makes(s) /\ InUse(s) /\ Wrote(s)
  BY <1>1, <1>11 DEF Makes, InUse, Wrote, Opens
<1>13. Shape(s)
  BY <1>2, <1>11 DEF RunOK, Shape, Places, k
<1>14. Keyed(s, server')
  <2>1. Keyed(t, server)
    BY <1>2 DEF RunOK
  <2>2. Http => Stored
    BY DEF Http, Stored
  <2>3. Dated => opt.source # "uris"
    BY DEF Dated
  <2> QED BY <1>3, <1>11, <1>12, <2>1, <2>2, <2>3 DEF Keyed, k
<1>15. Reads(s, server', disk')
  <2>1. Reads(t, server, disk)
    BY <1>2 DEF RunOK
  <2>2. opt.source = "uris" => ~Stored
    BY DEF Stored
  <2>3. s.pc = "read" => ~Stored /\ s.src.whole
    BY <1>1, <1>11, <2>1, <2>2 DEF Reads
  <2> QED BY <1>11, <2>3 DEF Reads, Source
<1>16. Knows(s, server', disk')
  <2>1. Knows(t, server, disk)
    BY <1>2 DEF RunOK
  <2>2. s.ammo = 0
    BY <1>1, <1>11, <2>1 DEF Knows
  <2>3. ~server'.torn /\ opt.caching => ~disk'.si[s.key].there
    BY <1>3, <1>6, <1>11, <1>12, <2>1 DEF Knows, k
  <2> QED BY <1>5, <1>6, <1>11, <2>2, <2>3 DEF Knows
<1>17. Writes(s, server', disk')
  BY <1>5, <1>6, <1>11 DEF Writes
<1>18. ASSUME NEW l \in Keys PROVE FileOK(l, server', disk')
  <2>1. FileOK(l, server', disk)
    BY <1>8
  <2>2. CASE l # k
    BY <1>6, <2>1, <2>2 DEF FileOK, Download, StpdOK, VersionAt
  <2>3. CASE l = k
    <3>1. ~server'.torn /\ opt.caching => ~disk.si[k].whole
      <4>1. Knows(t, server, disk)
        BY <1>2 DEF RunOK
      <4>2. disk.si[k].whole => disk.si[k].there
        BY <2>1, <2>3 DEF FileOK, StpdOK
      <4> QED BY <1>3, <1>12, <4>1, <4>2 DEF Knows, k
    <3>2. Download(k, disk')
      BY <1>6, <2>1, <2>3 DEF FileOK, Download
    <3>3. StpdOK(k, server', disk')
      BY <1>2, <1>5, <1>6, <2>1, <2>3, <3>1 DEF FileOK, StpdOK
    <3> QED BY <2>3, <3>2, <3>3 DEF FileOK
  <2> QED BY <2>2, <2>3
<1>19. ~Provided /\ ~server'.torn => \A q \in Runs \ {r} : Apart(run[q], s)
  BY <1>9, <1>11 DEF Apart
<1>20. RunOK(s, server', disk')
  BY <1>13, <1>14, <1>15, <1>16, <1>17 DEF RunOK
<1> QED BY <1>1, <1>3, <1>7, <1>10, <1>18, <1>19, <1>20, Moves

\* A line is read, and a missile of it written.
LEMMA StepHolds ==
    ASSUME StepperInv, opt' = opt, NEW r \in Runs, Step(r)
    PROVE  StepperInv'
<1> DEFINE t == run[r]
           k == t.key
           x == [t EXCEPT !.src = Open(r), !.out = Stpd(r).out]
           y == Stepped(x)
           s == [y EXCEPT !.src = t.src, !.out = << >>]
           old == disk.stpd[k].out
           new == disk'.stpd[k].out
           v == Source(t, disk).v
<1>1. run' = [run EXCEPT ![r] = s] /\ t.pc = "read" /\ disk' = [disk EXCEPT !.stpd[k].out = y.out] /\ server' = server
  BY DEF Step, Becomes
<1>2. RunOK(t, server, disk) /\ k \in Keys /\ ~Provided
  BY <1>1, DiskFacts DEF RunOK, Shape
<1>3. Stepping(x) /\ x.src = Source(t, disk) /\ x.out = old /\ x.ammo = t.ammo /\ x.ret = t.ret /\ x.key = k
      /\ x.opener = t.opener /\ x.since = t.since
  BY <1>1, <1>2 DEF RunOK, Shape, RunFields, Stepping, Open, Source, Stpd
<1>4. Unwritten(y, x) \/ Appended(y, x)
  BY <1>3, SteppedKeeps
<1> HIDE DEF x, y
<1>5. /\ DOMAIN s = RunFields /\ s.ret = t.ret /\ s.key = k /\ s.opener = t.opener
      /\ s.src = t.src /\ s.since = t.since /\ s.ammo = y.ammo /\ s.out = << >>
      /\ s.pc = y.pc /\ y.pc \in {"read", "info", "failed"}
  BY <1>3, <1>4 DEF Unwritten, Appended, Kept, RunFields, Stepping
<1>6. /\ disk'.tmp = disk.tmp /\ disk'.si = disk.si /\ DOMAIN disk'.stpd = Keys /\ DOMAIN disk' = {"tmp", "stpd", "si"}
      /\ DOMAIN disk'.stpd[k] = {"there", "out"} /\ disk'.stpd[k].there = disk.stpd[k].there /\ new = y.out
      /\ \A l \in Keys \ {k} : disk'.stpd[l] = disk.stpd[l]
  BY <1>1, <1>2, DiskFacts DEF Disk
<1>7. IsSeq(old) /\ disk.stpd[k].there \in BOOLEAN /\ Len(old) \in Nat
      /\ \A i \in DOMAIN old : old[i].missile.version \in Nat
  BY <1>2, DiskFacts, SequenceFacts DEF Disk
<1>8. Source(t, disk) \in Contents /\ v \in Nat
  <2>1. Source(t, disk) \in Contents
    BY <1>2, DiskFacts DEF Source, RunOK, Shape, Disk
  <2>2. opt.versions \in Nat
    BY DEF StepperInv, Configured
  <2> QED BY <2>1, <2>2 DEF Contents
<1> HIDE DEF s, t, k, v, old, new
<1>9. /\ IsSeq(new)
      /\ \A i \in DOMAIN new : (i \in DOMAIN old /\ new[i] = old[i]) \/ new[i].missile.version = v
      /\ s.pc # "failed" => (Len(old) = t.ammo => Len(new) = s.ammo)
      /\ s.ammo \in Nat
  <2>1. t.ammo \in Nat
    BY <1>2 DEF RunOK, Shape
  <2>2. CASE Unwritten(y, x)
    BY <1>3, <1>5, <1>6, <1>7, <2>1, <2>2 DEF Unwritten
  <2>3. CASE Appended(y, x)
    <3>1. PICK e : e.missile.version = v /\ new = Append(old, e)
      BY <1>3, <1>6, <2>3 DEF Appended, v
    <3>2. y.ammo \in {t.ammo, t.ammo + 1} /\ (y.pc # "failed" => y.ammo = t.ammo + 1)
      BY <1>3, <2>3 DEF Appended
    <3>3. /\ IsSeq(new) /\ Len(new) = Len(old) + 1
          /\ \A i \in DOMAIN new : (i \in DOMAIN old /\ new[i] = old[i]) \/ new[i] = e
      BY <1>7, <3>1, SequenceFacts
    <3> QED BY <1>5, <1>7, <2>1, <3>1, <3>2, <3>3
  <2> QED BY <1>4, <2>2, <2>3
<1>10. Disk(disk')
  <2>1. \A i \in DOMAIN new : new[i].missile.version \in Nat
    BY <1>7, <1>8, <1>9
  <2>2. ASSUME NEW l \in Keys
        PROVE  /\ DOMAIN disk'.stpd[l] = {"there", "out"} /\ disk'.stpd[l].there \in BOOLEAN
               /\ IsSeq(disk'.stpd[l].out)
               /\ \A i \in DOMAIN disk'.stpd[l].out : disk'.stpd[l].out[i].missile.version \in Nat
    <3>1. CASE l = k
      BY <1>6, <1>7, <1>9, <2>1, <3>1 DEF new
    <3>2. CASE l # k
      BY <1>6, <3>2, DiskFacts DEF Disk
    <3> QED BY <3>1, <3>2
  <2> QED BY <1>6, <2>2, DiskFacts DEF Disk
<1>11. Makes(t) /\ InUse(t) /\ Wrote(t) /\ ~Opens(s) /\ ~Opens(t) /\ (Makes(s) <=> s.pc # "failed")
       /\ (InUse(s) <=> s.pc # "failed") /\ (Wrote(s) <=> s.pc # "failed")
  BY <1>1, <1>5 DEF Makes, InUse, Wrote, Opens
<1>12. ASSUME ~server.torn, NEW q \in Runs \ {r} PROVE ~(InUse(run[q]) /\ run[q].key = k) /\ Apart(run[q], t)
  <2>1. Apart(run[q], t)
    BY <1>2, <1>12 DEF StepperInv, Sole, t
  <2> QED BY <1>11, <2>1 DEF Apart, k
<1>13. ASSUME NEW q \in Runs \ {r} PROVE RunOK(run[q], server, disk')
  <2>1. RunOK(run[q], server, disk) /\ run[q].key \in Keys
    BY DiskFacts DEF RunOK, Shape
  <2>2. ~server.torn => (Wrote(run[q]) => run[q].key # k)
    BY <1>12 DEF Wrote, InUse, Makes
  <2>3. run[q].pc = "read" => Wrote(run[q])
    BY DEF Wrote
  <2>4. Reads(run[q], server, disk')
    BY <1>6, <2>1 DEF RunOK, Reads, Source
  <2>5. Knows(run[q], server, disk')
    BY <1>6, <2>1, <2>2 DEF RunOK, Knows
  <2>6. Writes(run[q], server, disk')
    <3>1. Source(run[q], disk') = Source(run[q], disk)
      BY <1>6 DEF Source
    <3>2. ~server.torn /\ Wrote(run[q]) => disk'.stpd[run[q].key] = disk.stpd[run[q].key]
      BY <1>6, <2>1, <2>2
    <3>3. Writes(run[q], server, disk)
      BY <2>1 DEF RunOK
    <3> QED BY <2>3, <3>1, <3>2, <3>3 DEF Writes, VersionAt
  <2> QED BY <2>1, <2>4, <2>5, <2>6 DEF RunOK
<1>14. Shape(s)
  BY <1>2, <1>5, <1>9 DEF RunOK, Shape, Places, k
<1>15. Keyed(t, server) /\ Reads(t, server, disk) /\ Knows(t, server, disk) /\ Writes(t, server, disk)
  BY <1>2 DEF RunOK
<1>16. Keyed(s, server)
  BY <1>1, <1>5, <1>11, <1>15 DEF Keyed, k
<1>17. Reads(s, server, disk')
  BY <1>1, <1>5, <1>6, <1>15 DEF Reads, Source
<1>18. Knows(s, server, disk')
  <2>1. ~server.torn => Len(old) = t.ammo
    BY <1>2, <1>11, <1>15 DEF Knows, old, k
  <2>2. disk.stpd[k].there
    BY <1>2, <1>11, <1>15 DEF Knows, k
  <2>3. ~server.torn /\ opt.caching => ~disk.si[k].there
    BY <1>11, <1>15 DEF Knows, k
  <2>4. ~server.torn /\ Wrote(s) => s.ammo = Len(disk'.stpd[s.key].out)
    BY <1>5, <1>9, <1>11, <2>1 DEF new
  <2> QED BY <1>5, <1>6, <1>11, <2>2, <2>3, <2>4 DEF Knows
\* The version that is read is the one of the name or a later one.
<1>19. Dated => v >= t.since /\ (opt.caching => v >= k)
  <2>1. SUFFICES ASSUME Dated PROVE v >= t.since /\ (opt.caching => v >= k)
    OBVIOUS
  <2>2. t.since \in Nat /\ k \in Nat /\ t.opener \in Nat /\ t.opener \in Keys
    BY <1>2, RunFacts DEF t, k, RunOK, Shape
  <2>3. CASE Http
    <3>1. t.since <= t.opener /\ (opt.caching => k <= t.opener)
      BY <1>1, <1>15, <2>1, <2>3 DEF Keyed, k
    <3>2. Stored /\ disk.tmp[t.opener] # Nothing
      BY <1>1, <1>15, <2>3 DEF Reads, Stored, Http
    <3>3. v >= t.opener
      BY <2>2, <3>2, DiskFacts DEF FileOK, Download, v, Source
    <3> QED BY <1>8, <2>2, <3>1, <3>3
  <2>4. CASE ~Http
    <3>1. v = t.src.v
      BY <2>1, <2>4 DEF v, Source, Stored, Http, Dated
    <3>2. t.since <= t.src.v /\ (opt.caching => k <= t.src.v)
      BY <1>1, <1>15, <2>1, <2>4 DEF Keyed, k
    <3> QED BY <1>8, <2>2, <3>1, <3>2
  <2> QED BY <2>3, <2>4
<1>20. Writes(s, server, disk')
  <2>1. SUFFICES ASSUME ~server.torn, NEW i \in DOMAIN new
                 PROVE  new[i].missile.version = v /\ (Dated => new[i].missile.version >= t.since)
    <3>1. Source(s, disk').v = v
      BY <1>5, <1>6 DEF Source, v
    <3> QED BY <1>5, <2>1, <3>1 DEF Writes, VersionAt, new
  <2>2. \A j \in DOMAIN old : old[j].missile.version = v
    BY <1>1, <1>15, <2>1 DEF Writes, VersionAt, old, v, k
  <2> QED BY <1>9, <1>19, <2>1, <2>2
<1>21. ASSUME NEW l \in Keys PROVE FileOK(l, server, disk')
  <2>1. FileOK(l, server, disk)
    BY DiskFacts
  <2>2. CASE l # k
    BY <1>6, <2>1, <2>2 DEF FileOK, Download, StpdOK, VersionAt
  <2>3. CASE l = k
    <3>1. ~server.torn /\ opt.caching => ~disk.si[k].whole
      BY <1>11, <1>15, <2>1, <2>3 DEF FileOK, StpdOK, Knows, k
    <3>2. Download(k, disk')
      BY <1>6, <2>1, <2>3 DEF FileOK, Download
    <3>3. Dated /\ opt.caching => \A i \in DOMAIN new : new[i].missile.version >= k
      <4>1. Dated /\ opt.caching => \A i \in DOMAIN old : old[i].missile.version >= k
        BY <2>1, <2>3 DEF FileOK, StpdOK, VersionAt, old
      <4> QED BY <1>9, <1>19, <4>1
    <3>4. ~server.torn => \A i, j \in DOMAIN new : new[i].missile.version = new[j].missile.version
      <4>1. ~server.torn => \A i \in DOMAIN new : new[i].missile.version = v
        <5>1. ~server.torn => \A j \in DOMAIN old : old[j].missile.version = v
          BY <1>1, <1>15 DEF Writes, VersionAt, old, v, k
        <5> QED BY <1>9, <5>1
      <4> QED BY <4>1
    <3>5. StpdOK(k, server, disk')
      BY <1>2, <1>6, <2>1, <2>3, <3>1, <3>3, <3>4 DEF FileOK, StpdOK, VersionAt, new
    <3> QED BY <2>3, <3>2, <3>5 DEF FileOK
  <2> QED BY <2>2, <2>3
<1>22. ~Provided /\ ~server.torn => \A q \in Runs \ {r} : Apart(run[q], s)
  BY <1>5, <1>12 DEF Apart
<1>23. RunOK(s, server, disk')
  BY <1>14, <1>16, <1>17, <1>18, <1>20 DEF RunOK
<1>24. /\ Server(server') /\ RunOK(s, server', disk') /\ (\A q \in Runs \ {r} : RunOK(run[q], server', disk'))
       /\ \A l \in Keys : FileOK(l, server', disk')
       /\ ~Provided /\ ~server'.torn => \A q \in Runs \ {r} : Apart(run[q], s)
       /\ server.torn => server'.torn
  BY <1>1, <1>13, <1>21, <1>22, <1>23, DiskFacts
<1> QED BY <1>1, <1>10, <1>24, Moves

\* The si is opened: it is there, and not whole.
LEMMA OpenSiHolds ==
    ASSUME StepperInv, opt' = opt, NEW r \in Runs, OpenSi(r)
    PROVE  StepperInv'
<1> DEFINE t == run[r]
           k == t.key
           begun == [NoInfo EXCEPT !.there = TRUE]
           s == [t EXCEPT !.pc = "si"]
<1>1. run' = [run EXCEPT ![r] = s] /\ t.pc = "info" /\ disk' = [disk EXCEPT !.si[k] = begun] /\ server' = server
  BY DEF OpenSi, Goes, Becomes
<1>2. RunOK(t, server, disk) /\ k \in Keys /\ ~Provided
  BY <1>1, DiskFacts DEF RunOK, Shape
<1>3. begun.there /\ ~begun.whole /\ begun \in Infos
  BY DEF NoInfo, Infos
<1> HIDE DEF begun
<1>4. /\ disk'.tmp = disk.tmp /\ disk'.stpd = disk.stpd /\ Disk(disk')
      /\ disk'.si[k] = begun /\ \A l \in Keys \ {k} : disk'.si[l] = disk.si[l]
  BY <1>1, <1>2, <1>3, DiskFacts DEF Disk
<1>5. /\ DOMAIN s = RunFields /\ s.pc = "si" /\ s.ret = t.ret /\ s.key = k /\ s.opener = t.opener
      /\ s.src = t.src /\ s.since = t.since /\ s.ammo = t.ammo /\ s.out = t.out
  BY <1>2 DEF RunOK, Shape, RunFields
<1> HIDE DEF s, t, k
<1>6. Makes(t) /\ InUse(t) /\ Wrote(t) /\ ~Makes(s) /\ ~Opens(s) /\ InUse(s) /\ Wrote(s)
  BY <1>1, <1>5 DEF Makes, InUse, Wrote, Opens
<1>7. ASSUME ~server.torn, NEW q \in Runs \ {r} PROVE ~(InUse(run[q]) /\ run[q].key = k)
  <2>1. Apart(run[q], t)
    BY <1>2, <1>7 DEF StepperInv, Sole, t
  <2> QED BY <1>6, <2>1 DEF Apart, k
<1>8. ASSUME NEW q \in Runs \ {r} PROVE RunOK(run[q], server, disk')
  <2>1. RunOK(run[q], server, disk) /\ run[q].key \in Keys
    BY DiskFacts DEF RunOK, Shape
  <2>2. ~server.torn => (Makes(run[q]) \/ run[q].pc = "si" => run[q].key # k)
    BY <1>7 DEF InUse
  <2>3. Reads(run[q], server, disk') /\ Writes(run[q], server, disk')
    BY <1>4, <2>1 DEF RunOK, Reads, Writes, Source, VersionAt
  <2>4. Knows(run[q], server, disk')
    BY <1>4, <2>1, <2>2 DEF RunOK, Knows
  <2> QED BY <2>1, <2>3, <2>4 DEF RunOK
<1>9. Knows(t, server, disk) /\ Writes(t, server, disk) /\ Keyed(t, server)
  BY <1>2 DEF RunOK
<1>10. Shape(s)
  BY <1>2, <1>5 DEF RunOK, Shape, Places, k
<1>11. Keyed(s, server)
  BY <1>5, <1>6, <1>9 DEF Keyed, k
<1>12. Reads(s, server, disk')
  BY <1>5 DEF Reads
<1>13. Knows(s, server, disk')
  BY <1>3, <1>4, <1>5, <1>6, <1>9 DEF Knows, k
<1>14. Writes(s, server, disk')
  BY <1>4, <1>5, <1>6, <1>9 DEF Writes, VersionAt, k
<1>15. ASSUME NEW l \in Keys PROVE FileOK(l, server, disk')
  <2>1. FileOK(l, server, disk)
    BY DiskFacts
  <2>2. disk.stpd[k].there
    BY <1>2, <1>6, <1>9 DEF Knows, k
  <2>3. CASE l = k
    BY <1>3, <1>4, <2>1, <2>2, <2>3 DEF FileOK, Download, StpdOK, VersionAt
  <2>4. CASE l # k
    BY <1>4, <2>1, <2>4 DEF FileOK, Download, StpdOK, VersionAt
  <2> QED BY <2>3, <2>4
<1>16. /\ Server(server') /\ RunOK(s, server', disk') /\ (\A q \in Runs \ {r} : RunOK(run[q], server', disk'))
       /\ \A l \in Keys : FileOK(l, server', disk')
       /\ ~Provided /\ ~server'.torn => \A q \in Runs \ {r} : Apart(run[q], s)
       /\ server.torn => server'.torn
  <2>1. ~server.torn => \A q \in Runs \ {r} : Apart(run[q], s)
    BY <1>5, <1>7 DEF Apart
  <2> QED BY <1>1, <1>8, <1>10, <1>11, <1>12, <1>13, <1>14, <1>15, <2>1, DiskFacts DEF RunOK
<1> QED BY <1>1, <1>4, <1>16, Moves

\* The si is written, with the number of missiles that were counted.
LEMMA WriteSiHolds ==
    ASSUME StepperInv, opt' = opt, NEW r \in Runs, WriteSi(r)
    PROVE  StepperInv'
<1> DEFINE t == run[r]
           k == t.key
           info == [there |-> TRUE, whole |-> TRUE, ammo |-> t.ammo]
           s == [t EXCEPT !.pc = "ready"]
<1>1. run' = [run EXCEPT ![r] = s] /\ t.pc = "si" /\ disk' = [disk EXCEPT !.si[k] = info] /\ server' = server
  BY DEF WriteSi, Goes, Becomes
<1>2. RunOK(t, server, disk) /\ k \in Keys /\ ~Provided /\ t.ammo \in Nat
  BY <1>1, DiskFacts DEF RunOK, Shape
<1>3. info.there /\ info.whole /\ info.ammo = t.ammo /\ info \in Infos
  BY <1>2 DEF Infos
<1> HIDE DEF info
<1>4. /\ disk'.tmp = disk.tmp /\ disk'.stpd = disk.stpd /\ Disk(disk')
      /\ disk'.si[k] = info /\ \A l \in Keys \ {k} : disk'.si[l] = disk.si[l]
  BY <1>1, <1>2, <1>3, DiskFacts DEF Disk
<1>5. /\ DOMAIN s = RunFields /\ s.pc = "ready" /\ s.ret = t.ret /\ s.key = k /\ s.opener = t.opener
      /\ s.src = t.src /\ s.since = t.since /\ s.ammo = t.ammo /\ s.out = t.out
  BY <1>2 DEF RunOK, Shape, RunFields
<1> HIDE DEF s, t, k
<1>6. ~Makes(t) /\ InUse(t) /\ Wrote(t) /\ ~Makes(s) /\ ~Opens(s) /\ InUse(s) /\ Wrote(s)
  BY <1>1, <1>5 DEF Makes, InUse, Wrote, Opens
<1>7. ASSUME ~server.torn, NEW q \in Runs \ {r}
      PROVE  InUse(run[q]) /\ run[q].key = k => run[q].pc = "load" /\ ~Makes(run[q]) /\ opt.caching
  <2>1. Apart(run[q], t)
    BY <1>2, <1>7 DEF StepperInv, Sole, t
  <2> QED BY <1>1, <1>6, <2>1 DEF Apart, k
<1>8. ASSUME NEW q \in Runs \ {r} PROVE RunOK(run[q], server, disk')
  <2>1. RunOK(run[q], server, disk) /\ run[q].key \in Keys
    BY DiskFacts DEF RunOK, Shape
  <2>2. ~server.torn => (Makes(run[q]) \/ run[q].pc = "si" => run[q].key # k)
    BY <1>7 DEF InUse
  <2>3. Reads(run[q], server, disk') /\ Writes(run[q], server, disk')
    BY <1>4, <2>1 DEF RunOK, Reads, Writes, Source, VersionAt
  <2>4. Knows(run[q], server, disk')
    BY <1>4, <2>1, <2>2 DEF RunOK, Knows
  <2> QED BY <2>1, <2>3, <2>4 DEF RunOK
<1>9. Knows(t, server, disk) /\ Writes(t, server, disk) /\ Keyed(t, server)
  BY <1>2 DEF RunOK
<1>10. Shape(s)
  BY <1>2, <1>5 DEF RunOK, Shape, Places, k
<1>11. Keyed(s, server)
  BY <1>5, <1>6, <1>9 DEF Keyed, k
<1>12. Reads(s, server, disk')
  BY <1>5 DEF Reads
<1>13. Knows(s, server, disk')
  BY <1>3, <1>4, <1>5, <1>6, <1>9 DEF Knows, k
<1>14. Writes(s, server, disk')
  BY <1>4, <1>5, <1>6, <1>9 DEF Writes, VersionAt, k
<1>15. ASSUME NEW l \in Keys PROVE FileOK(l, server, disk')
  <2>1. FileOK(l, server, disk)
    BY DiskFacts
  <2>2. disk.stpd[k].there /\ (~server.torn => t.ammo = Len(disk.stpd[k].out))
    BY <1>2, <1>6, <1>9 DEF Knows, k
  <2>3. CASE l = k
    BY <1>2, <1>3, <1>4, <2>1, <2>2, <2>3 DEF FileOK, Download, StpdOK, VersionAt
  <2>4. CASE l # k
    BY <1>4, <2>1, <2>4 DEF FileOK, Download, StpdOK, VersionAt
  <2> QED BY <2>3, <2>4
<1>16. /\ Server(server') /\ RunOK(s, server', disk') /\ (\A q \in Runs \ {r} : RunOK(run[q], server', disk'))
       /\ \A l \in Keys : FileOK(l, server', disk')
       /\ ~Provided /\ ~server'.torn => \A q \in Runs \ {r} : Apart(run[q], s)
       /\ server.torn => server'.torn
  <2>1. ~server.torn => \A q \in Runs \ {r} : Apart(run[q], s)
    BY <1>5, <1>6, <1>7 DEF Apart
  <2> QED BY <1>1, <1>8, <1>10, <1>11, <1>12, <1>13, <1>14, <1>15, <2>1, DiskFacts DEF RunOK
<1> QED BY <1>1, <1>4, <1>16, Moves

\* The answer to GET is here: the download is of the present version.
LEMMA GetHolds ==
    ASSUME StepperInv, opt' = opt, NEW r \in Runs, Get(r)
    PROVE  StepperInv'
<1> DEFINE t == run[r]
           o == t.opener
           now == [v |-> server.version, whole |-> ~Http]
           s == [t EXCEPT !.pc = IF Http THEN "save" ELSE t.ret]
<1>1. run' = [run EXCEPT ![r] = s] /\ t.pc = "get" /\ disk' = [disk EXCEPT !.tmp[o] = now]
  BY DEF Get, Goes, Becomes
<1>2. RunOK(t, server, disk) /\ o \in Keys /\ o \in Nat /\ ~Provided /\ t.ret \in {"detect", "again", "read"}
  BY <1>1, DiskFacts, RunFacts DEF RunOK, Shape
<1>3. now \in Contents /\ now.v = server.version /\ (now.whole <=> ~Http) /\ server.version \in Nat /\ now # Nothing
  <2>1. server.version \in 0..opt.versions /\ server.version \in Nat \ {0}
    BY RunFacts, DiskFacts DEF Server
  <2>2. now \in Contents
    BY <2>1 DEF Contents, Http
  <2>3. now.v = server.version /\ (now.whole <=> ~Http)
    OBVIOUS
  <2>4. now # Nothing
    BY <2>1, <2>3 DEF Nothing
  <2> QED BY <2>1, <2>2, <2>3, <2>4
<1>4. /\ server'.version = server.version /\ Server(server') /\ (server.torn => server'.torn)
      /\ ~server'.torn => \A q \in Runs \ {r} : ~(Holds(q) /\ run[q].opener = o)
  BY DiskFacts DEF Get, Server
<1> HIDE DEF now
<1>5. /\ disk'.stpd = disk.stpd /\ disk'.si = disk.si /\ Disk(disk')
      /\ disk'.tmp[o] = now /\ \A l \in Keys \ {o} : disk'.tmp[l] = disk.tmp[l]
  BY <1>1, <1>2, <1>3, DiskFacts DEF Disk
<1>6. /\ DOMAIN s = RunFields /\ s.ret = t.ret /\ s.key = t.key /\ s.opener = o
      /\ s.src = t.src /\ s.since = t.since /\ s.ammo = t.ammo /\ s.out = t.out
      /\ s.pc = IF Http THEN "save" ELSE t.ret
  BY <1>2 DEF RunOK, Shape, RunFields
<1>7. (\A q \in Runs : RunOK(run[q], server', disk)) /\ (\A l \in Keys : FileOK(l, server', disk))
      /\ server'.version >= server.version
  BY <1>3, <1>4, Ages
<1> HIDE DEF s, t, o
<1>8. /\ Makes(t) /\ Opens(t) /\ InUse(t)
      /\ Makes(s) /\ InUse(s) /\ (Wrote(s) => Wrote(t)) /\ s.pc \in {"save", "detect", "again", "read"}
  BY <1>1, <1>2, <1>6 DEF Makes, InUse, Wrote, Opens
<1>9. ASSUME NEW q \in Runs \ {r} PROVE RunOK(run[q], server', disk')
  <2>1. RunOK(run[q], server', disk) /\ run[q].opener \in Keys
    BY <1>7, DiskFacts DEF RunOK, Shape
  <2>2. ~server'.torn /\ run[q].pc \in {"save", "detect", "again", "read"} => run[q].opener # o
    BY <1>4 DEF Holds
  <2>3. Knows(run[q], server', disk')
    BY <1>5, <2>1 DEF RunOK, Knows
  <2>4. Reads(run[q], server', disk')
    BY <1>3, <1>5, <2>1, <2>2 DEF RunOK, Reads, Source
  <2>5. Writes(run[q], server', disk')
    <3>1. ~server'.torn /\ run[q].pc = "read" => Source(run[q], disk') = Source(run[q], disk)
      BY <1>5, <2>1, <2>2 DEF Source
    <3> QED BY <1>5, <2>1, <3>1 DEF RunOK, Writes, VersionAt
  <2> QED BY <2>1, <2>3, <2>4, <2>5 DEF RunOK
<1>10. Stored /\ RunOK(t, server', disk) /\ t.ammo = 0
  BY <1>1, <1>2, <1>7, <1>8 DEF RunOK, Reads, Knows, t
<1>11. Shape(s)
  BY <1>2, <1>6, <1>8 DEF RunOK, Shape, Places, o
<1>12. Keyed(s, server')
  <2>1. Keyed(t, server')
    BY <1>10 DEF RunOK
  <2>2. Dated => Http
    BY <1>10 DEF Dated, Stored, Http
  <2> QED BY <1>1, <1>6, <1>8, <2>1, <2>2 DEF Keyed, o
<1>13. Reads(s, server', disk')
  BY <1>3, <1>5, <1>6, <1>8, <1>10 DEF Reads, Source
<1>14. Knows(s, server', disk')
  BY <1>5, <1>6, <1>8, <1>10 DEF RunOK, Knows
<1>15. Writes(s, server', disk')
  <2>1. SUFFICES ASSUME ~server'.torn PROVE Writes(s, server', disk')
    BY DEF Writes
  <2>2. Wrote(s) => DOMAIN disk.stpd[s.key].out = {}
    BY <1>2, <1>4, <1>6, <1>8, <1>10, <2>1, NothingWritten DEF t
  <2>3. s.pc = "read" => Wrote(s)
    BY DEF Wrote
  <2> QED BY <1>5, <2>2, <2>3 DEF Writes
<1>16. ASSUME NEW l \in Keys PROVE FileOK(l, server', disk')
  <2>1. FileOK(l, server', disk)
    BY <1>7
  <2>2. StpdOK(l, server', disk')
    BY <1>5, <2>1 DEF FileOK, StpdOK, VersionAt
  <2>3. CASE l = o
    <3>1. o <= server.version /\ server.version # 0
      BY RunFacts DEF o, t
    <3> QED BY <1>2, <1>3, <1>5, <2>2, <2>3, <3>1 DEF FileOK, Download
  <2>4. CASE l # o
    BY <1>5, <2>1, <2>2, <2>4 DEF FileOK, Download
  <2> QED BY <2>3, <2>4
<1>17. ~Provided /\ ~server'.torn => \A q \in Runs \ {r} : Apart(run[q], s)
  <2>1. ~server'.torn => \A q \in Runs \ {r} : Apart(run[q], t)
    BY <1>2, <1>4 DEF StepperInv, Sole, t
  <2> QED BY <1>1, <1>6, <1>8, <2>1, StaysApart
<1> QED BY <1>1, <1>4, <1>5, <1>9, <1>11, <1>12, <1>13, <1>14, <1>15, <1>16, <1>17, Moves DEF RunOK

\* The download is written to its end.
LEMMA SaveHolds ==
    ASSUME StepperInv, opt' = opt, NEW r \in Runs, Save(r)
    PROVE  StepperInv'
<1> DEFINE t == run[r]
           o == t.opener
           saved == [disk.tmp[o] EXCEPT !.whole = TRUE]
           s == [t EXCEPT !.pc = t.ret]
<1>1. run' = [run EXCEPT ![r] = s] /\ t.pc = "save" /\ disk' = [disk EXCEPT !.tmp[o] = saved] /\ server' = server
  BY DEF Save, Goes, Becomes
<1>2. RunOK(t, server, disk) /\ o \in Keys /\ ~Provided /\ t.ret \in {"detect", "again", "read"}
  BY <1>1, DiskFacts, RunFacts DEF RunOK, Shape
<1>3. Stored /\ disk.tmp[o] # Nothing /\ disk.tmp[o] \in Contents
  <2>1. Stored /\ disk.tmp[o] # Nothing
    BY <1>1, <1>2 DEF RunOK, Reads
  <2> QED BY <1>2, <2>1, DiskFacts DEF Disk
<1>4. saved \in Contents /\ saved.v = disk.tmp[o].v /\ saved.whole /\ saved # Nothing
  BY <1>3 DEF Contents, Nothing
<1> HIDE DEF saved
<1>5. /\ disk'.stpd = disk.stpd /\ disk'.si = disk.si /\ Disk(disk')
      /\ disk'.tmp[o] = saved /\ \A l \in Keys \ {o} : disk'.tmp[l] = disk.tmp[l]
  BY <1>1, <1>2, <1>4, DiskFacts DEF Disk
<1>6. /\ DOMAIN s = RunFields /\ s.ret = t.ret /\ s.key = t.key /\ s.opener = o
      /\ s.src = t.src /\ s.since = t.since /\ s.ammo = t.ammo /\ s.out = t.out /\ s.pc = t.ret
  BY <1>2 DEF RunOK, Shape, RunFields
<1> HIDE DEF s, t, o
<1>7. /\ Makes(t) /\ Opens(t) /\ InUse(t)
      /\ Makes(s) /\ InUse(s) /\ (Wrote(s) => Wrote(t)) /\ s.pc \in {"detect", "again", "read"}
  BY <1>1, <1>2, <1>6 DEF Makes, InUse, Wrote, Opens
<1>8. ASSUME NEW q \in Runs \ {r} PROVE RunOK(run[q], server, disk')
  <2>1. RunOK(run[q], server, disk) /\ run[q].opener \in Keys
    BY DiskFacts DEF RunOK, Shape
  <2>2. Knows(run[q], server, disk')
    BY <1>5, <2>1 DEF RunOK, Knows
  <2>3. disk'.tmp[run[q].opener] = disk.tmp[run[q].opener] \/ run[q].opener = o
    BY <1>5, <2>1
  <2>4. Reads(run[q], server, disk')
    BY <1>4, <1>5, <2>1, <2>3 DEF RunOK, Reads, Source
  <2>5. Writes(run[q], server, disk')
    <3>1. Source(run[q], disk').v = Source(run[q], disk).v
      BY <1>4, <1>5, <2>3 DEF Source
    <3> QED BY <1>5, <2>1, <3>1 DEF RunOK, Writes, VersionAt
  <2> QED BY <2>1, <2>2, <2>4, <2>5 DEF RunOK
<1>9. t.ammo = 0
  BY <1>2, <1>7 DEF RunOK, Knows
<1>10. Shape(s)
  BY <1>2, <1>6, <1>7 DEF RunOK, Shape, Places, o
<1>11. Keyed(s, server)
  <2>1. Keyed(t, server)
    BY <1>2 DEF RunOK
  <2>2. Dated => Http
    BY <1>3 DEF Dated, Stored, Http
  <2> QED BY <1>1, <1>6, <1>7, <2>1, <2>2 DEF Keyed, o
<1>12. Reads(s, server, disk')
  BY <1>3, <1>4, <1>5, <1>6, <1>7 DEF Reads, Source
<1>13. Knows(s, server, disk')
  <2>1. Knows(t, server, disk)
    BY <1>2 DEF RunOK
  <2> QED BY <1>5, <1>6, <1>7, <1>9, <2>1 DEF Knows
<1>14. Writes(s, server, disk')
  <2>1. ~server.torn /\ Wrote(s) => DOMAIN disk.stpd[s.key].out = {}
    BY <1>2, <1>6, <1>7, <1>9, NothingWritten DEF t
  <2>2. s.pc = "read" => Wrote(s)
    BY DEF Wrote
  <2> QED BY <1>5, <2>1, <2>2 DEF Writes
<1>15. ASSUME NEW l \in Keys PROVE FileOK(l, server, disk')
  <2>1. FileOK(l, server, disk)
    BY DiskFacts
  <2>2. StpdOK(l, server, disk')
    BY <1>5, <2>1 DEF FileOK, StpdOK, VersionAt
  <2>3. Download(l, disk')
    BY <1>3, <1>4, <1>5, <2>1 DEF FileOK, Download
  <2> QED BY <2>2, <2>3 DEF FileOK
<1>16. ~Provided /\ ~server.torn => \A q \in Runs \ {r} : Apart(run[q], s)
  <2>1. ~Provided /\ ~server.torn => \A q \in Runs \ {r} : Apart(run[q], t)
    BY DEF StepperInv, Sole, t
  <2> QED BY <1>1, <1>6, <1>7, <2>1, StaysApart
<1>17. Server(server') /\ RunOK(s, server', disk') /\ (\A q \in Runs \ {r} : RunOK(run[q], server', disk'))
  BY <1>1, <1>8, <1>10, <1>11, <1>12, <1>13, <1>14, DiskFacts DEF RunOK
<1>18. /\ \A l \in Keys : FileOK(l, server', disk')
       /\ ~Provided /\ ~server'.torn => \A q \in Runs \ {r} : Apart(run[q], s)
       /\ server.torn => server'.torn
  BY <1>1, <1>15, <1>16
<1> QED BY <1>1, <1>5, <1>17, <1>18, Moves

\* A step of the stream.
LEMMA Untouched ==
    ASSUME StepperInv, opt' = opt, server' = server, disk' = disk, run' = run
    PROVE  StepperInv'
<1>1. ~Provided /\ ~server.torn => \A p, q \in Runs : p # q => Apart(run[p], run[q])
  BY DEF StepperInv, Sole
<1> QED BY <1>1, Primed DEF StepperInv

\* The invariant, for any number of runs, any options, any lines and any number of
\* replacements, faults and kills.
THEOREM StepperInductive == StepperSpec => []StepperInv
<1>1. StepperInv /\ [StepperNext]_stepperVars => StepperInv'
  <2> SUFFICES ASSUME StepperInv, [StepperNext]_stepperVars PROVE StepperInv'
    OBVIOUS
  <2>1. ASSUME UNCHANGED stepperVars PROVE StepperInv'
    BY <2>1, Untouched DEF stepperVars
  <2>2. ASSUME UNCHANGED <<opt, server, disk, run>> PROVE StepperInv'
    BY <2>2, Untouched
  <2>3. ASSUME opt' = opt, Replace PROVE StepperInv'
    BY <2>3, ReplaceHolds
  <2>4. ASSUME opt' = opt, NEW r \in Runs, RunStep(r) \/ HeadFails(r) \/ GetFails(r) \/ Kill(r) PROVE StepperInv'
    <3>1. CASE Begin(r) \/ Check(r) \/ Load(r) \/ Make(r)
      BY <2>4, <3>1, BeginHolds, CheckHolds, LoadHolds, MakeHolds
    <3>2. CASE Detect(r) \/ Truncate(r) \/ Step(r)
      BY <2>4, <3>2, DetectHolds, TruncateHolds, StepHolds
    <3>3. CASE OpenSi(r) \/ WriteSi(r) \/ Shoot(r) \/ Kill(r)
      BY <2>4, <3>3, OpenSiHolds, WriteSiHolds, EndHolds
    <3>4. CASE ResourceStep(r)
      BY <2>4, <3>4, GetHeadHolds, OpenFileHolds, GetHolds, SaveHolds DEF ResourceStep
    <3>5. CASE HeadFails(r) \/ GetFails(r)
      BY <2>4, <3>5, FaultHolds
    <3> QED BY <2>4, <3>1, <3>2, <3>3, <3>4, <3>5 DEF RunStep
  <2> QED BY <2>1, <2>2, <2>3, <2>4 DEF StepperNext
<1> QED BY <1>1, InitHolds, PTL DEF StepperSpec

\* A run that was not disturbed knows how many missiles its stepped file has, also
\* if the run that made it, or one before, was killed at any step (main.py,
\* prepare_stepper and __write_cached_options).
THEOREM AmmoIsKnown == StepperSpec => []KnowsAmmo
<1>1. StepperInv => KnowsAmmo
  <2> SUFFICES ASSUME StepperInv, NEW r \in Runs, Undisturbed(r), opt.load # "stpd_file"
               PROVE  run[r].ammo = Len(Stpd(r).out)
    BY DEF KnowsAmmo
  <2>1. Wrote(run[r]) /\ ~server.torn
    BY DEF Undisturbed, Wrote
  <2>2. Knows(run[r], server, disk)
    BY DiskFacts DEF RunOK
  <2> QED BY <2>1, <2>2 DEF Knows, Provided, Stpd
<1> QED BY <1>1, StepperInductive, PTL

\* The missiles are of the version of the ammo file that was there when the run
\* began, or of a later one: no stepped file and no download that is kept is taken
\* for another version, where the hash tells the version (resource.py, hash).
THEOREM AmmoIsFresh == StepperSpec => []FreshAmmo
<1>1. StepperInv => FreshAmmo
  <2> SUFFICES ASSUME StepperInv, NEW r \in Runs, Undisturbed(r), Dated, NEW i \in 1..Len(Stpd(r).out)
               PROVE  Stpd(r).out[i].missile.version >= run[r].since
    BY DEF FreshAmmo, Dated
  <2>1. Wrote(run[r]) /\ ~server.torn
    BY DEF Undisturbed, Wrote
  <2>2. Writes(run[r], server, disk) /\ run[r].key \in Keys
    BY DiskFacts DEF RunOK, Shape
  <2>3. IsSeq(Stpd(r).out)
    BY <2>2, DiskFacts DEF Disk, Stpd
  <2>4. i \in DOMAIN Stpd(r).out
    BY <2>3, SequenceFacts
  <2> QED BY <2>1, <2>2, <2>4 DEF Writes, VersionAt, Stpd
<1> QED BY <1>1, StepperInductive, PTL

\* Of an undisturbed run, see Undisturbed.
OneVersion ==
    \A r \in Runs : Undisturbed(r) =>
        \A i, j \in DOMAIN Stpd(r).out : Stpd(r).out[i].missile.version = Stpd(r).out[j].missile.version

\* The missiles of a run that was not disturbed are of one version of the ammo
\* file, though the file may be replaced while it is read.
THEOREM AmmoIsOneVersion == StepperSpec => []OneVersion
<1>1. StepperInv => OneVersion
  <2> SUFFICES ASSUME StepperInv, NEW r \in Runs, Undisturbed(r),
                      NEW i \in DOMAIN Stpd(r).out, NEW j \in DOMAIN Stpd(r).out
               PROVE  Stpd(r).out[i].missile.version = Stpd(r).out[j].missile.version
    BY DEF OneVersion
  <2>1. run[r].key \in Keys /\ ~server.torn
    BY DiskFacts DEF RunOK, Shape, Undisturbed
  <2>2. StpdOK(run[r].key, server, disk)
    BY <2>1, DiskFacts DEF FileOK
  <2> QED BY <2>1, <2>2 DEF StpdOK, VersionAt, Stpd
<1> QED BY <1>1, StepperInductive, PTL

\* Runs that do not overlap, none of which was killed.
Calmly == opt.overlap = {} /\ server.kills = opt.kills

\* They read whole files, and no run disturbs another.
WholeSource ==
    Calmly => ~server.torn /\ \A r \in Runs : run[r].pc = "read" => Open(r).whole

Active(s) == s.pc \notin {"idle", "shot", "failed", "dead"}
Saving(k) == \E r \in Runs : run[r].pc = "save" /\ run[r].opener = k

\* One run at a time; only it can have a download that is written in part.
CalmInv ==
    /\ server.kills <= opt.kills /\ opt.kills \in Nat
    /\ opt.overlap = {} => \A q, r \in Runs : q < r /\ run[r].pc # "idle" => Over(q)
    /\ Calmly => ~server.torn /\ \A k \in Keys : Part(disk.tmp[k]) => Saving(k)

\* A step is of a run that began and is not over, or begins.
LEMMA OneMoves ==
    ASSUME StepperInv, NEW r \in Runs, RunStep(r) \/ HeadFails(r) \/ GetFails(r) \/ Kill(r)
    PROVE  /\ \E s : run' = [run EXCEPT ![r] = s]
           /\ Begin(r) \/ Active(run[r])
<1>1. \E s : run' = [run EXCEPT ![r] = s]
  BY Zenon DEF RunStep, HeadFails, GetFails, Kill, Fault, Begin, Check, Load, Make, Detect, Truncate, Step, OpenSi,
     WriteSi, Shoot, ResourceStep, GetHead, OpenFile, Get, Save, Becomes, Goes, Fails
<1>2. Begin(r) \/ Active(run[r])
  BY DEF RunStep, HeadFails, GetFails, Kill, Begin, Check, Load, Make, Detect, Truncate, Step, OpenSi,
     WriteSi, Shoot, ResourceStep, GetHead, OpenFile, Get, Save, Active, Over
<1> QED BY <1>1, <1>2

\* Runs that do not overlap follow each other.
LEMMA OneAtATime ==
    ASSUME StepperInv, CalmInv, opt' = opt, opt.overlap = {}, NEW r \in Runs,
           RunStep(r) \/ HeadFails(r) \/ GetFails(r) \/ Kill(r)
    PROVE  /\ \A p, q \in Runs : p < q /\ run'[q].pc # "idle" => Over(p)'
           /\ \A q \in Runs \ {r} : Active(run[r]) => ~Active(run[q])
<1>1. PICK s : run' = [run EXCEPT ![r] = s]
  BY OneMoves
<1>2. \A q \in Runs : run'[q] = IF q = r THEN s ELSE run[q]
  BY <1>1 DEF StepperInv
<1>3. \A p, q \in Runs : p < q /\ run[q].pc # "idle" => Over(p)
  BY DEF CalmInv
<1>4. Runs \subseteq Nat
  BY RunsAssumption
<1>5. ASSUME NEW p \in Runs, NEW q \in Runs, p < q, run'[q].pc # "idle" PROVE Over(p)'
  <2>1. CASE q = r /\ run[r].pc = "idle"
    <3>1. Begin(r)
      BY <2>1, OneMoves DEF Active
    <3>2. p \in 1..r - 1
      BY <1>4, <1>5, <2>1, RunsAssumption
    <3>3. Over(p)
      BY <3>1, <3>2 DEF Begin
    <3>4. run'[p] = run[p]
      BY <1>2, <1>4, <1>5, <2>1
    <3> QED BY <3>3, <3>4 DEF Over
  <2>2. CASE ~(q = r /\ run[r].pc = "idle")
    <3>1. run[q].pc # "idle"
      BY <1>2, <1>5, <2>2
    <3>2. Over(p)
      BY <1>3, <1>5, <3>1
    <3>3. p # r
      BY <3>2, OneMoves DEF Over, Active, Begin
    <3> QED BY <1>2, <3>2, <3>3 DEF Over
  <2> QED BY <2>1, <2>2
<1>6. ASSUME NEW q \in Runs \ {r}, Active(run[r]) PROVE ~Active(run[q])
  <2>1. q < r \/ r < q
    BY <1>4
  <2> QED BY <1>3, <1>6, <2>1 DEF Active, Over
<1> QED BY <1>5, <1>6

\* The first state.
LEMMA CalmInitially == StepperInit => CalmInv
<1> SUFFICES ASSUME StepperInit PROVE CalmInv
  OBVIOUS
<1>1. PICK o \in Options : opt = [f \in DOMAIN o \cup {"plan"} |-> IF f = "plan" THEN Plan(o) ELSE o[f]]
  BY DEF StepperInit
<1>2. opt.kills = o.kills /\ o.kills \in Nat
  BY <1>1, StepperAssumption
<1>3. server.kills = opt.kills /\ ~server.torn /\ \A k \in Keys : disk.tmp[k] = Nothing
  BY DEF StepperInit
<1>4. \A r \in Runs : run[r].pc = "idle"
  BY DEF StepperInit, NewRun
<1> QED BY <1>2, <1>3, <1>4 DEF CalmInv, Part

\* A step of a run that is alone.
LEMMA CalmKeeps ==
    ASSUME StepperInv, CalmInv, opt' = opt, NEW r \in Runs, RunStep(r) \/ HeadFails(r) \/ GetFails(r) \/ Kill(r)
    PROVE  CalmInv'
<1> DEFINE o == run[r].opener
<1>1. PICK s : run' = [run EXCEPT ![r] = s]
  BY OneMoves
<1>2. \A q \in Runs : run'[q] = IF q = r THEN s ELSE run[q]
  BY <1>1 DEF StepperInv
<1>3. /\ server.kills \in Nat /\ DOMAIN server = {"version", "faults", "kills", "torn"}
      /\ disk.tmp \in [Keys -> Contents] /\ DOMAIN disk = {"tmp", "stpd", "si"} /\ o \in Keys
      /\ DOMAIN run[r] = RunFields
  BY DiskFacts DEF Server, Disk, RunOK, Shape
<1>4. server'.kills <= opt.kills /\ (server'.kills = opt.kills => server'.kills = server.kills /\ ~Kill(r))
  <2>1. server'.kills = server.kills \/ (Kill(r) /\ server.kills > 0 /\ server'.kills = server.kills - 1)
    BY <1>3 DEF RunStep, HeadFails, GetFails, Kill, Fault, Begin, Check, Load, Make, Detect, Truncate, Step, OpenSi,
       WriteSi, Shoot, ResourceStep, GetHead, OpenFile, Get, Save
  <2>2. Kill(r) => server'.kills = server.kills - 1
    BY <1>3 DEF Kill
  <2> QED BY <1>3, <2>1, <2>2 DEF CalmInv
<1>5. opt.overlap = {} => \A p, q \in Runs : p < q /\ run'[q].pc # "idle" => Over(p)'
  BY OneAtATime
<1>6. ASSUME opt.overlap = {}, server'.kills = opt.kills
      PROVE  ~server'.torn /\ \A k \in Keys : Part(disk'.tmp[k]) => Saving(k)'
  <2>1. ~server.torn /\ (\A k \in Keys : Part(disk.tmp[k]) => Saving(k)) /\ ~Kill(r)
    BY <1>4, <1>6 DEF CalmInv, Calmly
  <2>2. Begin(r) \/ (Active(run[r]) /\ \A q \in Runs \ {r} : ~Active(run[q]))
    BY <1>6, OneMoves, OneAtATime
  <2>3. \A k \in Keys : Part(disk.tmp[k]) /\ ~Begin(r) => run[r].pc = "save" /\ o = k
    BY <2>1, <2>2 DEF Saving, Active
  <2>4. \A q \in Runs : Active(run[q]) /\ ~Begin(r) => q = r
    BY <2>2
  <2>5. ASSUME NEW k PROVE ~Begin(r) => Uses(k) \subseteq {r}
    BY <2>4 DEF Uses, Active
  <2>6. CASE Begin(r)
    <3>1. server' = server /\ disk' = disk /\ run[r].pc = "idle"
      BY <2>6 DEF Begin
    <3>2. \A k \in Keys : Saving(k) => Saving(k)'
      BY <1>2, <3>1 DEF Saving
    <3> QED BY <2>1, <3>1, <3>2
  <2>7. CASE Check(r)
    <3>1. Uses(run[r].key) = {}
      BY <2>5, <2>7 DEF Check, Uses, Begin
    <3>2. ~server'.torn /\ disk'.tmp = disk.tmp /\ run[r].pc = "check"
      BY <1>3, <2>1, <2>7, <3>1 DEF Check
    <3> QED BY <2>3, <2>7, <3>2 DEF Begin
  <2>8. CASE Truncate(r)
    <3>1. Uses(run[r].key) = {r}
      BY <2>5, <2>8 DEF Truncate, Uses, Begin
    <3>2. ~server'.torn /\ disk'.tmp = disk.tmp /\ run[r].pc = "truncate"
      BY <1>3, <2>1, <2>8, <3>1 DEF Truncate
    <3> QED BY <2>3, <2>8, <3>2 DEF Begin
  <2>9. CASE OpenFile(r)
    <3>1. ~Part(disk.tmp[o]) /\ run[r].pc = "open"
      BY <1>3, <2>3, <2>9 DEF OpenFile, Begin
    <3>2. ~server'.torn /\ disk' = disk
      BY <1>3, <2>1, <2>9, <3>1 DEF OpenFile
    <3> QED BY <2>3, <3>1, <3>2 DEF Begin
  <2>10. CASE Get(r)
    <3> DEFINE now == [v |-> server.version, whole |-> ~Http]
    <3>1. run[r].pc = "get" /\ disk' = [disk EXCEPT !.tmp[o] = now]
      BY <2>10 DEF Get
    <3>2. \A q \in Runs \ {r} : ~Holds(q)
      BY <2>2, <3>1 DEF Holds, Active, Begin
    <3>3. ~server'.torn
      BY <1>3, <2>1, <2>10, <3>2 DEF Get
    <3>4. ASSUME NEW k \in Keys, Part(disk'.tmp[k]) PROVE Saving(k)'
      <4>1. k = o /\ Http
        <5>1. k # o => disk'.tmp[k] = disk.tmp[k]
          BY <1>3, <3>1
        <5>2. k = o => disk'.tmp[k] = now
          BY <1>3, <3>1
        <5>3. k # o => FALSE
          BY <2>3, <3>1, <3>4, <5>1 DEF Begin
        <5>4. k = o
          BY <5>3
        <5>5. Part(now)
          BY <3>4, <5>2, <5>4
        <5>6. now.whole = ~Http
          OBVIOUS
        <5>7. ~now.whole
          BY <5>5 DEF Part
        <5>8. Http
          BY <5>6, <5>7, ZenonT(30)
        <5> QED BY <5>4, <5>8
      <4>2. run' = [run EXCEPT ![r] = [run[r] EXCEPT !.pc = "save"]]
        BY <2>10, <4>1 DEF Get, Goes, Becomes
      <4>3. run'[r].pc = "save" /\ run'[r].opener = o
        BY <1>3, <4>2 DEF StepperInv, RunFields
      <4> QED BY <4>1, <4>3 DEF Saving
    <3> QED BY <3>3, <3>4
  <2>11. CASE Save(r)
    <3>1. run[r].pc = "save" /\ disk' = [disk EXCEPT !.tmp[o].whole = TRUE] /\ server' = server
      BY <2>11 DEF Save
    <3>2. ASSUME NEW k \in Keys PROVE ~Part(disk'.tmp[k])
      <4>1. CASE k = o
        <5>1. disk'.tmp[k].whole
          BY <1>3, <3>1, <4>1 DEF Contents
        <5> QED BY <5>1 DEF Part
      <4>2. CASE k # o
        <5>1. disk'.tmp[k] = disk.tmp[k]
          BY <1>3, <3>1, <4>2
        <5> QED BY <2>3, <3>1, <4>2, <5>1 DEF Begin
      <4> QED BY <4>1, <4>2
    <3> QED BY <2>1, <3>1, <3>2
  <2>12. CASE \/ Load(r) \/ Make(r) \/ Detect(r) \/ Step(r) \/ OpenSi(r) \/ WriteSi(r) \/ Shoot(r) \/ GetHead(r)
              \/ HeadFails(r) \/ GetFails(r)
    <3>1. server'.torn = server.torn /\ disk'.tmp = disk.tmp /\ run[r].pc \notin {"save", "idle"}
      BY <1>3, <2>12 DEF Load, Make, Detect, Step, OpenSi, WriteSi, Shoot, GetHead, HeadFails, GetFails, Fault
    <3> QED BY <2>1, <2>3, <3>1 DEF Begin
  <2> QED BY <2>1, <2>6, <2>7, <2>8, <2>9, <2>10, <2>11, <2>12 DEF RunStep, ResourceStep
<1> QED BY <1>4, <1>5, <1>6 DEF CalmInv, Calmly

\* Runs that come one after the other, none of them killed, read whole ammo files
\* and leave no other file torn, whatever calls fail and however often the file
\* is replaced: only a kill or an overlap leaves a part of a download
\* (resource.py, download_file).
THEOREM SourceIsWhole == StepperSpec => []WholeSource
<1>1. StepperInv /\ CalmInv => WholeSource
  <2> SUFFICES ASSUME StepperInv, CalmInv, Calmly
               PROVE  ~server.torn /\ \A r \in Runs : run[r].pc = "read" => Open(r).whole
    BY DEF WholeSource
  <2>1. ~server.torn
    BY DEF CalmInv
  <2>2. ASSUME NEW r \in Runs, run[r].pc = "read" PROVE Open(r).whole
    <3>1. Reads(run[r], server, disk)
      BY DiskFacts DEF RunOK
    <3> QED BY <2>1, <2>2, <3>1 DEF Reads, Source, Open
  <2> QED BY <2>1, <2>2
<1>2. StepperInv /\ CalmInv /\ [StepperNext]_stepperVars => CalmInv'
  <2> SUFFICES ASSUME StepperInv, CalmInv, [StepperNext]_stepperVars PROVE CalmInv'
    OBVIOUS
  <2>1. CASE UNCHANGED <<opt, server, disk, run>>
    BY <2>1 DEF CalmInv, Calmly, Over, Saving, Part
  <2>2. CASE opt' = opt /\ Replace
    <3>1. run' = run /\ disk' = disk /\ server'.kills = server.kills /\ server'.torn = server.torn
      BY <2>2, DiskFacts DEF Replace, Server
    <3> QED BY <2>2, <3>1 DEF CalmInv, Calmly, Over, Saving, Part
  <2>3. ASSUME opt' = opt, NEW r \in Runs, RunStep(r) \/ HeadFails(r) \/ GetFails(r) \/ Kill(r) PROVE CalmInv'
    BY <2>3, CalmKeeps
  <2> QED BY <2>1, <2>2, <2>3 DEF StepperNext, stepperVars
<1> QED BY <1>1, <1>2, StepperInductive, CalmInitially, PTL DEF StepperSpec
-----------------------------------------------------------------------------
(***************************************************************************)
(* Folds: a fold over a sequence goes through its prefixes.                *)
(***************************************************************************)

\* A set of natural numbers has a least member, and one that is bounded a greatest.
LEMMA LeastExists ==
    ASSUME NEW numbers, numbers \subseteq Nat, numbers # {}
    PROVE  \E x \in numbers : \A y \in numbers : x <= y
<1> DEFINE less == {p \in Nat \X Nat : p[1] < p[2]}
<1>1. IsWellFoundedOn(less, Nat)
  BY NatLessThanWellFounded, Zenon DEF OpToRel
<1>2. PICK x \in numbers : \A y \in numbers : ~(<<y, x>> \in less)
  <2> HIDE DEF less
  <2> QED BY <1>1, WFMin
<1>3. \A y \in numbers : ~(y < x)
  BY <1>2
<1> QED BY <1>3

\* A set of numbers with a bound has a greatest one.
LEMMA GreatestExists ==
    ASSUME NEW n \in Nat, NEW numbers, numbers \subseteq 0..n, numbers # {}
    PROVE  \E x \in numbers : \A y \in numbers : x >= y
<1> DEFINE T == {n - y : y \in numbers}
<1>1. T \subseteq Nat /\ T # {}
  <2>1. PICK y : y \in numbers
    OBVIOUS
  <2>2. n - y \in T
    BY <2>1
  <2> QED BY <2>2
<1>2. PICK t \in T : \A u \in T : t <= u
  BY <1>1, LeastExists
<1>3. PICK x \in numbers : t = n - x
  OBVIOUS
<1>4. ASSUME NEW y \in numbers PROVE x >= y
  <2>1. t <= n - y
    BY <1>2
  <2> QED BY <1>3, <2>1
<1> QED BY <1>4

\* The largest place of a set of places is one of them.
LEMMA LargestOf ==
    ASSUME NEW n \in Nat, NEW s \in SUBSET (1..n), s # {}
    PROVE  Max(s) \in s /\ \A x \in s : Max(s) >= x
<1>1. s \subseteq 0..n
  OBVIOUS
<1> QED BY <1>1, GreatestExists DEF Max

\* A set that 0 is in, and the next of every number that is, has all of them.
LEMMA NatSet ==
    ASSUME NEW T, 0 \in T, \A n \in Nat : n \in T => n + 1 \in T
    PROVE  Nat \subseteq T
<1> SUFFICES ASSUME Nat \ T # {} PROVE FALSE
  OBVIOUS
<1>1. PICK x \in Nat \ T : \A y \in Nat \ T : x <= y
  <2>1. Nat \ T \subseteq Nat
    OBVIOUS
  <2> QED BY <2>1, LeastExists
<1>2. x # 0 /\ x - 1 \in Nat /\ x - 1 \notin Nat \ T
  BY <1>1
<1> QED BY <1>1, <1>2

\* g folds the sets of places with a step on a place and a value.
IsFold(g, n, V, base, step) ==
    /\ g \in [SUBSET (1..n) -> V]
    /\ \A s \in SUBSET (1..n) : g[s] = IF s = {} THEN base ELSE step[<<Max(s), g[s \ {Max(s)}]>>]

\* A fold of the sets of the first m places is one of the first m + 1.
LEMMA FoldGrows ==
    ASSUME NEW V, NEW n \in Nat, NEW base \in V, NEW step \in [(1..n) \X V -> V],
           NEW m \in Nat, m + 1 <= n, NEW g, IsFold(g, m, V, base, step)
    PROVE  \E h : IsFold(h, m + 1, V, base, step)
<1> DEFINE k == m + 1
           h == [s \in SUBSET (1..k) |-> IF k \in s THEN step[<<k, g[s \ {k}]>>] ELSE g[s]]
<1>1. /\ g \in [SUBSET (1..m) -> V] /\ k \in 1..n
      /\ \A s \in SUBSET (1..m) : g[s] = IF s = {} THEN base ELSE step[<<Max(s), g[s \ {Max(s)}]>>]
  BY DEF IsFold
<1>2. ASSUME NEW s \in SUBSET (1..k)
      PROVE  s \ {k} \in SUBSET (1..m) /\ s \ {k} \in SUBSET (1..k) /\ k \notin s \ {k} /\ (k \notin s => s \in SUBSET (1..m))
  OBVIOUS
<1>3. h \in [SUBSET (1..k) -> V]
  BY <1>1, <1>2
<1>4. ASSUME NEW s \in SUBSET (1..k) PROVE h[s] = IF s = {} THEN base ELSE step[<<Max(s), h[s \ {Max(s)}]>>]
  <2>1. CASE k \in s
    <3>1. Max(s) \in s /\ Max(s) >= k
      <4>1. k \in Nat
        OBVIOUS
      <4> HIDE DEF k
      <4> QED BY <2>1, <4>1, LargestOf
    <3>2. Max(s) = k
      <4>1. \A x \in s : x \in 1..k
        OBVIOUS
      <4>2. Max(s) \in 1..k
        BY <3>1, <4>1
      <4> QED BY <3>1, <4>2
    <3>3. h[s \ {k}] = g[s \ {k}]
      BY <1>2
    <3>4. h[s] = step[<<k, g[s \ {k}]>>]
      BY <2>1
    <3> HIDE DEF h
    <3> QED BY <2>1, <3>2, <3>3, <3>4
  <2>2. CASE k \notin s /\ s # {}
    <3>1. s \in SUBSET (1..m) /\ Max(s) \in s
      BY <1>2, <2>2, LargestOf
    <3>2. s \ {Max(s)} \in SUBSET (1..k) /\ k \notin s \ {Max(s)}
      BY <2>2
    <3>3. h[s] = g[s] /\ h[s \ {Max(s)}] = g[s \ {Max(s)}]
      BY <2>2, <3>2
    <3> HIDE DEF h
    <3> QED BY <1>1, <2>2, <3>1, <3>3
  <2>3. CASE s = {}
    BY <1>1, <2>3
  <2> QED BY <2>1, <2>2, <2>3
<1> HIDE DEF h
<1> QED BY <1>3, <1>4 DEF IsFold

\* So there is such a fold, by which the recursion of FoldLeft is what it says.
LEMMA FoldExists ==
    ASSUME NEW V, NEW n \in Nat, NEW base \in V, NEW step \in [(1..n) \X V -> V]
    PROVE  \E g : IsFold(g, n, V, base, step)
<1> DEFINE T == {m \in Nat : m <= n => \E g : IsFold(g, m, V, base, step)}
<1>1. 0 \in T
  <2> DEFINE g == [s \in SUBSET (1..0) |-> base]
  <2>1. \A s \in SUBSET (1..0) : s = {}
    OBVIOUS
  <2>2. IsFold(g, 0, V, base, step)
    BY <2>1 DEF IsFold
  <2> HIDE DEF g
  <2> QED BY <2>2
<1>2. ASSUME NEW m \in Nat, m \in T PROVE m + 1 \in T
  <2>1. CASE m + 1 <= n
    <3>1. PICK g : IsFold(g, m, V, base, step)
      BY <1>2, <2>1
    <3>2. \E h : IsFold(h, m + 1, V, base, step)
      BY <2>1, <3>1, FoldGrows
    <3> QED BY <3>2
  <2>2. CASE ~(m + 1 <= n)
    BY <2>2
  <2> QED BY <2>1, <2>2
<1> HIDE DEF T
<1>3. n \in T
  BY <1>1, <1>2, NatSet
<1> QED BY <1>3 DEF T

\* The last of the first places is the largest, and the others are those before it.
LEMMA LargestOfFirst ==
    ASSUME NEW i \in Nat
    PROVE  Max(1..(i + 1)) = i + 1 /\ (1..(i + 1)) \ {i + 1} = 1..i
<1>1. i + 1 \in Nat /\ 1..(i + 1) # {} /\ i + 1 \in 1..(i + 1)
  OBVIOUS
<1>2. Max(1..(i + 1)) \in 1..(i + 1) /\ Max(1..(i + 1)) >= i + 1
  <2> DEFINE s == 1..(i + 1)
  <2>1. s \in SUBSET (1..(i + 1)) /\ s # {} /\ i + 1 \in s
    OBVIOUS
  <2> HIDE DEF s
  <2>2. Max(s) \in s /\ Max(s) >= i + 1
    BY <1>1, <2>1, LargestOf
  <2> QED BY <2>2 DEF s
<1> QED BY <1>2

\* The first places are places.
LEMMA FirstPlaces ==
    ASSUME NEW n \in Nat, NEW i \in 0..(n - 1)
    PROVE  1..(i + 1) \in SUBSET (1..n) /\ 1..(i + 1) # {} /\ i + 1 \in 1..n /\ i \in Nat
<1>1. i + 1 \in 1..n /\ i \in Nat
  OBVIOUS
<1>2. \A x \in 1..(i + 1) : x \in 1..n
  OBVIOUS
<1>3. i + 1 \in 1..(i + 1)
  BY <1>1
<1> QED BY ONLY <1>1, <1>2, <1>3

\* What is a step from every set of places without its largest one to this set
\* goes through the prefixes.
StepsBy(g, n, V, base, step) ==
    /\ g[{}] = base
    /\ \A s \in SUBSET (1..n) : s # {} /\ g[s \ {Max(s)}] \in V => g[s] = step[<<Max(s), g[s \ {Max(s)}]>>]

\* f goes through the first places; g is the fold it goes through.
GoesBy(f, g, n, V, base, step) ==
    /\ f \in [0..n -> V] /\ f[0] = base /\ f[n] = g[1..n]
    /\ \A i \in 0..(n - 1) : f[i + 1] = step[<<i + 1, f[i]>>]

\* A fold goes through the first places.
LEMMA FoldGoes ==
    ASSUME NEW V, NEW n \in Nat, NEW base \in V, NEW step \in [(1..n) \X V -> V], NEW g, StepsBy(g, n, V, base, step)
    PROVE  \E f : GoesBy(f, g, n, V, base, step)
<1> USE DEF StepsBy
<1> DEFINE T == {i \in Nat : i <= n => g[1..i] \in V}
           f == [i \in 0..n |-> g[1..i]]
<1>1. g[1..0] = base
  <2>1. 1..0 = {}
    OBVIOUS
  <2> QED BY <2>1
<1>2. ASSUME NEW i \in 0..(n - 1), g[1..i] \in V PROVE g[1..(i + 1)] = step[<<i + 1, g[1..i]>>]
  <2> DEFINE s == 1..(i + 1)
  <2>1. s \in SUBSET (1..n) /\ s # {} /\ i \in Nat
    BY FirstPlaces
  <2>2. Max(s) = i + 1 /\ s \ {Max(s)} = 1..i
    BY <2>1, LargestOfFirst
  <2>3. s # {} /\ g[s \ {Max(s)}] \in V => g[s] = step[<<Max(s), g[s \ {Max(s)}]>>]
    <3> HIDE DEF s
    <3> QED BY <2>1
  <2> QED BY <1>2, <2>1, <2>2, <2>3
<1>3. ASSUME NEW i \in Nat, i \in T PROVE i + 1 \in T
  <2>1. CASE i + 1 <= n
    <3>1. i \in 0..(n - 1) /\ i + 1 \in 1..n /\ g[1..i] \in V
      BY <1>3, <2>1
    <3>2. step[<<i + 1, g[1..i]>>] \in V
      BY <3>1
    <3> QED BY <1>2, <3>1, <3>2
  <2> QED BY <2>1
<1>4. 0 \in T
  BY <1>1
<1> HIDE DEF T
<1>5. Nat \subseteq T
  BY <1>3, <1>4, NatSet
<1>6. \A i \in 0..n : g[1..i] \in V
  BY <1>5 DEF T
<1>7. f \in [0..n -> V] /\ f[0] = base /\ f[n] = g[1..n]
  BY <1>1, <1>6
<1>8. \A i \in 0..(n - 1) : f[i + 1] = step[<<i + 1, f[i]>>]
  BY <1>2, <1>6
<1> HIDE DEF f
<1> QED BY <1>7, <1>8 DEF GoesBy

-----------------------------------------------------------------------------
(***************************************************************************)
(* The folds of the load plans                                             *)
(***************************************************************************)

\* A plan, and the one that a schedule starts with.
PlanType == [fails : BOOLEAN, times : Seq(Nat), forever : BOOLEAN, len : Int, dur : Nat, seconds : Seq(Int \X Int),
             instances : Nat]
NoPlan == Steps(<< >>, 0, << >>)

\* f is the sum of the first numbers.
SumsUp(f, numbers) ==
    /\ f \in [0..Len(numbers) -> Nat] /\ f[0] = 0 /\ f[Len(numbers)] = Sum(numbers)
    /\ \A i \in 0..(Len(numbers) - 1) : f[i + 1] = f[i] + numbers[i + 1]

\* A sum goes through the first numbers.
LEMMA SumFolds ==
    ASSUME NEW numbers \in Seq(Nat),
           0 \in Nat, \A v \in Nat, x \in Nat : v + x \in Nat
    PROVE  \E f : SumsUp(f, numbers)
<1> DEFINE n == Len(numbers)
           V == Nat
           base == 0
           step == [q \in (1..n) \X V |-> q[2] + numbers[q[1]]]
           G(g) == [s \in SUBSET (DOMAIN numbers) |-> IF s = {} THEN base
                                               ELSE g[s \ {Max(s)}] + numbers[Max(s)]]
           iter == CHOOSE g : g = G(g)
<1>1. n \in Nat /\ DOMAIN numbers = 1..n /\ base \in V /\ \A i \in 1..n : numbers[i] \in Nat
  BY LenProperties
<1>2. step \in [(1..n) \X V -> V]
  <2>1. ASSUME NEW q \in (1..n) \X V PROVE q[2] + numbers[q[1]] \in V
    <3>1. q[2] \in V /\ numbers[q[1]] \in Nat
      BY <1>1
    <3> QED BY <3>1
  <2> QED BY <2>1
<1>3. Sum(numbers) = iter[DOMAIN numbers]
  BY Zenon DEF Sum, FoldLeft, MapThenFoldSet
<1>4. \A i \in 1..n, v \in V : step[<<i, v>>] = v + numbers[i]
  OBVIOUS
<1> HIDE DEF step, V, n, base
<1>5. \E h : IsFold(h, n, V, base, step)
  BY <1>1, <1>2, FoldExists
<1>6. ASSUME NEW h, IsFold(h, n, V, base, step) PROVE h = G(h)
  <2>1. h \in [SUBSET (1..n) -> V]
    BY <1>6 DEF IsFold
  <2>2. ASSUME NEW s \in SUBSET (1..n), s # {}
        PROVE  h[s] = h[s \ {Max(s)}] + numbers[Max(s)]
    <3>1. Max(s) \in 1..n /\ s \ {Max(s)} \in SUBSET (1..n)
      BY <1>1, <2>2, LargestOf
    <3>2. h[s] = step[<<Max(s), h[s \ {Max(s)}]>>]
      BY <1>6, <2>2 DEF IsFold
    <3> QED BY <1>4, <2>1, <3>1, <3>2
  <2>3. h[{}] = base
    BY <1>6 DEF IsFold
  <2> QED BY <1>1, <2>1, <2>2, <2>3
<1>7. iter = G(iter)
  <2> HIDE DEF G
  <2> QED BY <1>5, <1>6
<1> HIDE DEF iter
<1>8. iter[{}] = base
  <2>1. {} \in SUBSET (DOMAIN numbers)
    OBVIOUS
  <2> QED BY <1>7, <2>1
<1>9. ASSUME NEW s \in SUBSET (1..n), s # {}, iter[s \ {Max(s)}] \in V
      PROVE  iter[s] = step[<<Max(s), iter[s \ {Max(s)}]>>]
  <2>1. Max(s) \in 1..n
    BY <1>1, <1>9, LargestOf
  <2>2. iter[s] = iter[s \ {Max(s)}] + numbers[Max(s)]
    BY <1>1, <1>7, <1>9
  <2> QED BY <1>4, <1>9, <2>1, <2>2
<1>10. PICK f : GoesBy(f, iter, n, V, base, step)
  <2>1. StepsBy(iter, n, V, base, step)
    BY <1>8, <1>9 DEF StepsBy
  <2> QED BY <1>1, <1>2, <2>1, FoldGoes
<1>11. \A i \in 0..(n - 1) : f[i + 1] = f[i] + numbers[i + 1]
  <2> SUFFICES ASSUME NEW i \in 0..(n - 1) PROVE f[i + 1] = f[i] + numbers[i + 1]
    OBVIOUS
  <2>1. i + 1 \in 1..n /\ f[i] \in V
    <3>1. f \in [0..n -> V]
      BY <1>10 DEF GoesBy
    <3> QED BY ONLY <1>1, <3>1
  <2> QED BY <1>4, <1>10, <2>1 DEF GoesBy
<1>12. SumsUp(f, numbers)
  BY <1>1, <1>3, <1>10, <1>11 DEF V, n, base, GoesBy, SumsUp
<1> QED BY <1>12

\* A rate joins those before it.
OneRate(rates, r) == IF rates # << >> /\ Last(rates)[1] = r
                     THEN [rates EXCEPT ![Len(rates)][2] = @ + 1] ELSE Append(rates, <<r, 1>>)

\* f is the first rates, equal neighbours as one.
Groups(f, rates) ==
    /\ f \in [0..Len(rates) -> Seq(Int \X Int)] /\ f[0] = << >> /\ f[Len(rates)] = Grouped(rates)
    /\ \A i \in 0..(Len(rates) - 1) : f[i + 1] = OneRate(f[i], rates[i + 1])

\* The grouping of rates goes through the first rates.
LEMMA GroupFolds ==
    ASSUME NEW rates \in Seq(Int),
           << >> \in Seq(Int \X Int), \A v \in Seq(Int \X Int), x \in Int : OneRate(v, x) \in Seq(Int \X Int)
    PROVE  \E f : Groups(f, rates)
<1> DEFINE n == Len(rates)
           V == Seq(Int \X Int)
           base == << >>
           step == [q \in (1..n) \X V |-> OneRate(q[2], rates[q[1]])]
           G(g) == [s \in SUBSET (DOMAIN rates) |-> IF s = {} THEN base
                                               ELSE OneRate(g[s \ {Max(s)}], rates[Max(s)])]
           iter == CHOOSE g : g = G(g)
<1>1. n \in Nat /\ DOMAIN rates = 1..n /\ base \in V /\ \A i \in 1..n : rates[i] \in Int
  BY LenProperties
<1>2. step \in [(1..n) \X V -> V]
  <2>1. ASSUME NEW q \in (1..n) \X V PROVE OneRate(q[2], rates[q[1]]) \in V
    <3>1. q[2] \in V /\ rates[q[1]] \in Int
      BY <1>1
    <3> QED BY <3>1
  <2> QED BY <2>1
<1>3. Grouped(rates) = iter[DOMAIN rates]
  BY Zenon DEF Grouped, OneRate, FoldLeft, MapThenFoldSet
<1>4. \A i \in 1..n, v \in V : step[<<i, v>>] = OneRate(v, rates[i])
  OBVIOUS
<1> HIDE DEF step, V, n, base
<1>5. \E h : IsFold(h, n, V, base, step)
  BY <1>1, <1>2, FoldExists
<1>6. ASSUME NEW h, IsFold(h, n, V, base, step) PROVE h = G(h)
  <2>1. h \in [SUBSET (1..n) -> V]
    BY <1>6 DEF IsFold
  <2>2. ASSUME NEW s \in SUBSET (1..n), s # {}
        PROVE  h[s] = OneRate(h[s \ {Max(s)}], rates[Max(s)])
    <3>1. Max(s) \in 1..n /\ s \ {Max(s)} \in SUBSET (1..n)
      BY <1>1, <2>2, LargestOf
    <3>2. h[s] = step[<<Max(s), h[s \ {Max(s)}]>>]
      BY <1>6, <2>2 DEF IsFold
    <3> QED BY <1>4, <2>1, <3>1, <3>2
  <2>3. h[{}] = base
    BY <1>6 DEF IsFold
  <2> QED BY <1>1, <2>1, <2>2, <2>3
<1>7. iter = G(iter)
  <2> HIDE DEF G
  <2> QED BY <1>5, <1>6
<1> HIDE DEF iter
<1>8. iter[{}] = base
  <2>1. {} \in SUBSET (DOMAIN rates)
    OBVIOUS
  <2> QED BY <1>7, <2>1
<1>9. ASSUME NEW s \in SUBSET (1..n), s # {}, iter[s \ {Max(s)}] \in V
      PROVE  iter[s] = step[<<Max(s), iter[s \ {Max(s)}]>>]
  <2>1. Max(s) \in 1..n
    BY <1>1, <1>9, LargestOf
  <2>2. iter[s] = OneRate(iter[s \ {Max(s)}], rates[Max(s)])
    BY <1>1, <1>7, <1>9
  <2> QED BY <1>4, <1>9, <2>1, <2>2
<1>10. PICK f : GoesBy(f, iter, n, V, base, step)
  <2>1. StepsBy(iter, n, V, base, step)
    BY <1>8, <1>9 DEF StepsBy
  <2> QED BY <1>1, <1>2, <2>1, FoldGoes
<1>11. \A i \in 0..(n - 1) : f[i + 1] = OneRate(f[i], rates[i + 1])
  <2> SUFFICES ASSUME NEW i \in 0..(n - 1) PROVE f[i + 1] = OneRate(f[i], rates[i + 1])
    OBVIOUS
  <2>1. i + 1 \in 1..n /\ f[i] \in V
    <3>1. f \in [0..n -> V]
      BY <1>10 DEF GoesBy
    <3> QED BY ONLY <1>1, <3>1
  <2> QED BY <1>4, <1>10, <2>1 DEF GoesBy
<1>12. Groups(f, rates)
  BY <1>1, <1>3, <1>10, <1>11 DEF V, n, base, GoesBy, Groups
<1> QED BY <1>12

\* f is the plan of the first plans.
Composes(f, plans) ==
    /\ f \in [0..Len(plans) -> PlanType] /\ f[0] = NoPlan /\ f[Len(plans)] = Composite(plans)
    /\ \A i \in 0..(Len(plans) - 1) : f[i + 1] = Then(f[i], plans[i + 1])

\* Composite goes through the first plans.
LEMMA CompositeFolds ==
    ASSUME NEW plans \in Seq(PlanType),
           NoPlan \in PlanType, \A v \in PlanType, x \in PlanType : Then(v, x) \in PlanType
    PROVE  \E f : Composes(f, plans)
<1> DEFINE n == Len(plans)
           V == PlanType
           base == NoPlan
           step == [q \in (1..n) \X V |-> Then(q[2], plans[q[1]])]
           G(g) == [s \in SUBSET (DOMAIN plans) |-> IF s = {} THEN base
                                               ELSE Then(g[s \ {Max(s)}], plans[Max(s)])]
           iter == CHOOSE g : g = G(g)
<1>1. n \in Nat /\ DOMAIN plans = 1..n /\ base \in V /\ \A i \in 1..n : plans[i] \in PlanType
  BY LenProperties
<1>2. step \in [(1..n) \X V -> V]
  <2>1. ASSUME NEW q \in (1..n) \X V PROVE Then(q[2], plans[q[1]]) \in V
    <3>1. q[2] \in V /\ plans[q[1]] \in PlanType
      BY <1>1
    <3> QED BY <3>1
  <2> QED BY <2>1
<1>3. Composite(plans) = iter[DOMAIN plans]
  BY Zenon DEF Composite, NoPlan, FoldLeft, MapThenFoldSet
<1>4. \A i \in 1..n, v \in V : step[<<i, v>>] = Then(v, plans[i])
  OBVIOUS
<1> HIDE DEF step, V, n, base
<1>5. \E h : IsFold(h, n, V, base, step)
  BY <1>1, <1>2, FoldExists
<1>6. ASSUME NEW h, IsFold(h, n, V, base, step) PROVE h = G(h)
  <2>1. h \in [SUBSET (1..n) -> V]
    BY <1>6 DEF IsFold
  <2>2. ASSUME NEW s \in SUBSET (1..n), s # {}
        PROVE  h[s] = Then(h[s \ {Max(s)}], plans[Max(s)])
    <3>1. Max(s) \in 1..n /\ s \ {Max(s)} \in SUBSET (1..n)
      BY <1>1, <2>2, LargestOf
    <3>2. h[s] = step[<<Max(s), h[s \ {Max(s)}]>>]
      BY <1>6, <2>2 DEF IsFold
    <3> QED BY <1>4, <2>1, <3>1, <3>2
  <2>3. h[{}] = base
    BY <1>6 DEF IsFold
  <2> QED BY <1>1, <2>1, <2>2, <2>3
<1>7. iter = G(iter)
  <2> HIDE DEF G
  <2> QED BY <1>5, <1>6
<1> HIDE DEF iter
<1>8. iter[{}] = base
  <2>1. {} \in SUBSET (DOMAIN plans)
    OBVIOUS
  <2> QED BY <1>7, <2>1
<1>9. ASSUME NEW s \in SUBSET (1..n), s # {}, iter[s \ {Max(s)}] \in V
      PROVE  iter[s] = step[<<Max(s), iter[s \ {Max(s)}]>>]
  <2>1. Max(s) \in 1..n
    BY <1>1, <1>9, LargestOf
  <2>2. iter[s] = Then(iter[s \ {Max(s)}], plans[Max(s)])
    BY <1>1, <1>7, <1>9
  <2> QED BY <1>4, <1>9, <2>1, <2>2
<1>10. PICK f : GoesBy(f, iter, n, V, base, step)
  <2>1. StepsBy(iter, n, V, base, step)
    BY <1>8, <1>9 DEF StepsBy
  <2> QED BY <1>1, <1>2, <2>1, FoldGoes
<1>11. \A i \in 0..(n - 1) : f[i + 1] = Then(f[i], plans[i + 1])
  <2> SUFFICES ASSUME NEW i \in 0..(n - 1) PROVE f[i + 1] = Then(f[i], plans[i + 1])
    OBVIOUS
  <2>1. i + 1 \in 1..n /\ f[i] \in V
    <3>1. f \in [0..n -> V]
      BY <1>10 DEF GoesBy
    <3> QED BY ONLY <1>1, <3>1
  <2> QED BY <1>4, <1>10, <2>1 DEF GoesBy
<1>12. Composes(f, plans)
  BY <1>1, <1>3, <1>10, <1>11 DEF V, n, base, GoesBy, Composes
<1> QED BY <1>12

\* f is the plan of instances of the first steps.
Builds(f, steps) ==
    /\ f \in [0..Len(steps) -> PlanType] /\ f[0] = NoPlan /\ f[Len(steps)] = FoldLeft(AddStep, NoPlan, steps)
    /\ \A i \in 0..(Len(steps) - 1) : f[i + 1] = AddStep(f[i], steps[i + 1])

\* The builder of instances goes through the first steps.
LEMMA BuildFolds ==
    ASSUME NEW steps \in Seq(StepOf),
           NoPlan \in PlanType, \A v \in PlanType, x \in StepOf : AddStep(v, x) \in PlanType
    PROVE  \E f : Builds(f, steps)
<1> DEFINE n == Len(steps)
           V == PlanType
           base == NoPlan
           step == [q \in (1..n) \X V |-> AddStep(q[2], steps[q[1]])]
           G(g) == [s \in SUBSET (DOMAIN steps) |-> IF s = {} THEN base
                                               ELSE AddStep(g[s \ {Max(s)}], steps[Max(s)])]
           iter == CHOOSE g : g = G(g)
<1>1. n \in Nat /\ DOMAIN steps = 1..n /\ base \in V /\ \A i \in 1..n : steps[i] \in StepOf
  BY LenProperties
<1>2. step \in [(1..n) \X V -> V]
  <2>1. ASSUME NEW q \in (1..n) \X V PROVE AddStep(q[2], steps[q[1]]) \in V
    <3>1. q[2] \in V /\ steps[q[1]] \in StepOf
      BY <1>1
    <3> QED BY <3>1
  <2> QED BY <2>1
<1>3. FoldLeft(AddStep, NoPlan, steps) = iter[DOMAIN steps]
  BY Zenon DEF FoldLeft, MapThenFoldSet
<1>4. \A i \in 1..n, v \in V : step[<<i, v>>] = AddStep(v, steps[i])
  OBVIOUS
<1> HIDE DEF step, V, n, base
<1>5. \E h : IsFold(h, n, V, base, step)
  BY <1>1, <1>2, FoldExists
<1>6. ASSUME NEW h, IsFold(h, n, V, base, step) PROVE h = G(h)
  <2>1. h \in [SUBSET (1..n) -> V]
    BY <1>6 DEF IsFold
  <2>2. ASSUME NEW s \in SUBSET (1..n), s # {}
        PROVE  h[s] = AddStep(h[s \ {Max(s)}], steps[Max(s)])
    <3>1. Max(s) \in 1..n /\ s \ {Max(s)} \in SUBSET (1..n)
      BY <1>1, <2>2, LargestOf
    <3>2. h[s] = step[<<Max(s), h[s \ {Max(s)}]>>]
      BY <1>6, <2>2 DEF IsFold
    <3> QED BY <1>4, <2>1, <3>1, <3>2
  <2>3. h[{}] = base
    BY <1>6 DEF IsFold
  <2> QED BY <1>1, <2>1, <2>2, <2>3
<1>7. iter = G(iter)
  <2> HIDE DEF G
  <2> QED BY <1>5, <1>6
<1> HIDE DEF iter
<1>8. iter[{}] = base
  <2>1. {} \in SUBSET (DOMAIN steps)
    OBVIOUS
  <2> QED BY <1>7, <2>1
<1>9. ASSUME NEW s \in SUBSET (1..n), s # {}, iter[s \ {Max(s)}] \in V
      PROVE  iter[s] = step[<<Max(s), iter[s \ {Max(s)}]>>]
  <2>1. Max(s) \in 1..n
    BY <1>1, <1>9, LargestOf
  <2>2. iter[s] = AddStep(iter[s \ {Max(s)}], steps[Max(s)])
    BY <1>1, <1>7, <1>9
  <2> QED BY <1>4, <1>9, <2>1, <2>2
<1>10. PICK f : GoesBy(f, iter, n, V, base, step)
  <2>1. StepsBy(iter, n, V, base, step)
    BY <1>8, <1>9 DEF StepsBy
  <2> QED BY <1>1, <1>2, <2>1, FoldGoes
<1>11. \A i \in 0..(n - 1) : f[i + 1] = AddStep(f[i], steps[i + 1])
  <2> SUFFICES ASSUME NEW i \in 0..(n - 1) PROVE f[i + 1] = AddStep(f[i], steps[i + 1])
    OBVIOUS
  <2>1. i + 1 \in 1..n /\ f[i] \in V
    <3>1. f \in [0..n -> V]
      BY <1>10 DEF GoesBy
    <3> QED BY ONLY <1>1, <3>1
  <2> QED BY <1>4, <1>10, <2>1 DEF GoesBy
<1>12. Builds(f, steps)
  BY <1>1, <1>3, <1>10, <1>11 DEF V, n, base, GoesBy, Builds
<1> QED BY <1>12

\* What a step leads to from n instances.
LeadsTo(n, s) == CASE s.kind = "wait" -> n [] s.kind = "ramp" -> n + s.to [] OTHER -> s.to

\* f is the instances the first steps lead to.
Leads(f, steps) ==
    /\ f \in [0..Len(steps) -> Nat] /\ f[0] = 0 /\ f[Len(steps)] = Instances(steps)
    /\ \A i \in 0..(Len(steps) - 1) : f[i + 1] = LeadsTo(f[i], steps[i + 1])

\* What steps lead to goes through the first steps.
LEMMA InstancesFolds ==
    ASSUME NEW steps \in Seq(StepOf),
           0 \in Nat, \A v \in Nat, x \in StepOf : LeadsTo(v, x) \in Nat
    PROVE  \E f : Leads(f, steps)
<1> DEFINE n == Len(steps)
           V == Nat
           base == 0
           step == [q \in (1..n) \X V |-> LeadsTo(q[2], steps[q[1]])]
           G(g) == [s \in SUBSET (DOMAIN steps) |-> IF s = {} THEN base
                                               ELSE LeadsTo(g[s \ {Max(s)}], steps[Max(s)])]
           iter == CHOOSE g : g = G(g)
<1>1. n \in Nat /\ DOMAIN steps = 1..n /\ base \in V /\ \A i \in 1..n : steps[i] \in StepOf
  BY LenProperties
<1>2. step \in [(1..n) \X V -> V]
  <2>1. ASSUME NEW q \in (1..n) \X V PROVE LeadsTo(q[2], steps[q[1]]) \in V
    <3>1. q[2] \in V /\ steps[q[1]] \in StepOf
      BY <1>1
    <3> QED BY <3>1
  <2> QED BY <2>1
<1>3. Instances(steps) = iter[DOMAIN steps]
  BY Zenon DEF Instances, LeadsTo, FoldLeft, MapThenFoldSet
<1>4. \A i \in 1..n, v \in V : step[<<i, v>>] = LeadsTo(v, steps[i])
  OBVIOUS
<1> HIDE DEF step, V, n, base
<1>5. \E h : IsFold(h, n, V, base, step)
  BY <1>1, <1>2, FoldExists
<1>6. ASSUME NEW h, IsFold(h, n, V, base, step) PROVE h = G(h)
  <2>1. h \in [SUBSET (1..n) -> V]
    BY <1>6 DEF IsFold
  <2>2. ASSUME NEW s \in SUBSET (1..n), s # {}
        PROVE  h[s] = LeadsTo(h[s \ {Max(s)}], steps[Max(s)])
    <3>1. Max(s) \in 1..n /\ s \ {Max(s)} \in SUBSET (1..n)
      BY <1>1, <2>2, LargestOf
    <3>2. h[s] = step[<<Max(s), h[s \ {Max(s)}]>>]
      BY <1>6, <2>2 DEF IsFold
    <3> QED BY <1>4, <2>1, <3>1, <3>2
  <2>3. h[{}] = base
    BY <1>6 DEF IsFold
  <2> QED BY <1>1, <2>1, <2>2, <2>3
<1>7. iter = G(iter)
  <2> HIDE DEF G
  <2> QED BY <1>5, <1>6
<1> HIDE DEF iter
<1>8. iter[{}] = base
  <2>1. {} \in SUBSET (DOMAIN steps)
    OBVIOUS
  <2> QED BY <1>7, <2>1
<1>9. ASSUME NEW s \in SUBSET (1..n), s # {}, iter[s \ {Max(s)}] \in V
      PROVE  iter[s] = step[<<Max(s), iter[s \ {Max(s)}]>>]
  <2>1. Max(s) \in 1..n
    BY <1>1, <1>9, LargestOf
  <2>2. iter[s] = LeadsTo(iter[s \ {Max(s)}], steps[Max(s)])
    BY <1>1, <1>7, <1>9
  <2> QED BY <1>4, <1>9, <2>1, <2>2
<1>10. PICK f : GoesBy(f, iter, n, V, base, step)
  <2>1. StepsBy(iter, n, V, base, step)
    BY <1>8, <1>9 DEF StepsBy
  <2> QED BY <1>1, <1>2, <2>1, FoldGoes
<1>11. \A i \in 0..(n - 1) : f[i + 1] = LeadsTo(f[i], steps[i + 1])
  <2> SUFFICES ASSUME NEW i \in 0..(n - 1) PROVE f[i + 1] = LeadsTo(f[i], steps[i + 1])
    OBVIOUS
  <2>1. i + 1 \in 1..n /\ f[i] \in V
    <3>1. f \in [0..n -> V]
      BY <1>10 DEF GoesBy
    <3> QED BY ONLY <1>1, <3>1
  <2> QED BY <1>4, <1>10, <2>1 DEF GoesBy
<1>12. Leads(f, steps)
  BY <1>1, <1>3, <1>10, <1>11 DEF V, n, base, GoesBy, Leads
<1> QED BY <1>12

\* The part of a stairway of instances that is of equal steps.
ClimbFrom(b, dur, up) == FoldLeft(LAMBDA c, n : StartInstances(Wait(c, dur), n), b, up)

\* f is the plan after the first of equal steps.
Climbs(f, b, dur, up) ==
    /\ f \in [0..Len(up) -> PlanType] /\ f[0] = b /\ f[Len(up)] = ClimbFrom(b, dur, up)
    /\ \A i \in 0..(Len(up) - 1) : f[i + 1] = StartInstances(Wait(f[i], dur), up[i + 1])

\* A climb goes through the first of its steps.
LEMMA ClimbFolds ==
    ASSUME NEW b \in PlanType, NEW dur \in Nat, NEW up \in Seq(Nat),
           b \in PlanType, \A v \in PlanType, x \in Nat : StartInstances(Wait(v, dur), x) \in PlanType
    PROVE  \E f : Climbs(f, b, dur, up)
<1> DEFINE n == Len(up)
           V == PlanType
           base == b
           step == [q \in (1..n) \X V |-> StartInstances(Wait(q[2], dur), up[q[1]])]
           G(g) == [s \in SUBSET (DOMAIN up) |-> IF s = {} THEN base
                                               ELSE StartInstances(Wait(g[s \ {Max(s)}], dur), up[Max(s)])]
           iter == CHOOSE g : g = G(g)
<1>1. n \in Nat /\ DOMAIN up = 1..n /\ base \in V /\ \A i \in 1..n : up[i] \in Nat
  BY LenProperties
<1>2. step \in [(1..n) \X V -> V]
  <2>1. ASSUME NEW q \in (1..n) \X V PROVE StartInstances(Wait(q[2], dur), up[q[1]]) \in V
    <3>1. q[2] \in V /\ up[q[1]] \in Nat
      BY <1>1
    <3> QED BY <3>1
  <2> QED BY <2>1
<1>3. ClimbFrom(b, dur, up) = iter[DOMAIN up]
  BY Zenon DEF ClimbFrom, FoldLeft, MapThenFoldSet
<1>4. \A i \in 1..n, v \in V : step[<<i, v>>] = StartInstances(Wait(v, dur), up[i])
  OBVIOUS
<1> HIDE DEF step, V, n, base
<1>5. \E h : IsFold(h, n, V, base, step)
  BY <1>1, <1>2, FoldExists
<1>6. ASSUME NEW h, IsFold(h, n, V, base, step) PROVE h = G(h)
  <2>1. h \in [SUBSET (1..n) -> V]
    BY <1>6 DEF IsFold
  <2>2. ASSUME NEW s \in SUBSET (1..n), s # {}
        PROVE  h[s] = StartInstances(Wait(h[s \ {Max(s)}], dur), up[Max(s)])
    <3>1. Max(s) \in 1..n /\ s \ {Max(s)} \in SUBSET (1..n)
      BY <1>1, <2>2, LargestOf
    <3>2. h[s] = step[<<Max(s), h[s \ {Max(s)}]>>]
      BY <1>6, <2>2 DEF IsFold
    <3> QED BY <1>4, <2>1, <3>1, <3>2
  <2>3. h[{}] = base
    BY <1>6 DEF IsFold
  <2> QED BY <1>1, <2>1, <2>2, <2>3
<1>7. iter = G(iter)
  <2> HIDE DEF G
  <2> QED BY <1>5, <1>6
<1> HIDE DEF iter
<1>8. iter[{}] = base
  <2>1. {} \in SUBSET (DOMAIN up)
    OBVIOUS
  <2> QED BY <1>7, <2>1
<1>9. ASSUME NEW s \in SUBSET (1..n), s # {}, iter[s \ {Max(s)}] \in V
      PROVE  iter[s] = step[<<Max(s), iter[s \ {Max(s)}]>>]
  <2>1. Max(s) \in 1..n
    BY <1>1, <1>9, LargestOf
  <2>2. iter[s] = StartInstances(Wait(iter[s \ {Max(s)}], dur), up[Max(s)])
    BY <1>1, <1>7, <1>9
  <2> QED BY <1>4, <1>9, <2>1, <2>2
<1>10. PICK f : GoesBy(f, iter, n, V, base, step)
  <2>1. StepsBy(iter, n, V, base, step)
    BY <1>8, <1>9 DEF StepsBy
  <2> QED BY <1>1, <1>2, <2>1, FoldGoes
<1>11. \A i \in 0..(n - 1) : f[i + 1] = StartInstances(Wait(f[i], dur), up[i + 1])
  <2> SUFFICES ASSUME NEW i \in 0..(n - 1) PROVE f[i + 1] = StartInstances(Wait(f[i], dur), up[i + 1])
    OBVIOUS
  <2>1. i + 1 \in 1..n /\ f[i] \in V
    <3>1. f \in [0..n -> V]
      BY <1>10 DEF GoesBy
    <3> QED BY ONLY <1>1, <3>1
  <2> QED BY <1>4, <1>10, <2>1 DEF GoesBy
<1>12. Climbs(f, b, dur, up)
  BY <1>1, <1>3, <1>10, <1>11 DEF V, n, base, GoesBy, Climbs
<1> QED BY <1>12

-----------------------------------------------------------------------------
(***************************************************************************)
(* Sums of numbers, and of sets of them                                    *)
(***************************************************************************)

\* A sum of natural numbers is one.
LEMMA SumNat ==
    ASSUME NEW numbers \in Seq(Nat)
    PROVE  Sum(numbers) \in Nat /\ \E f : SumsUp(f, numbers)
<1>1. PICK f : SumsUp(f, numbers)
  BY SumFolds
<1>2. Len(numbers) \in 0..Len(numbers)
  BY LenProperties
<1> QED BY <1>1, <1>2 DEF SumsUp

\* The sum of the first numbers is what the fold has then.
LEMMA SumOfFirst ==
    ASSUME NEW numbers \in Seq(Nat), NEW f, SumsUp(f, numbers), NEW j \in 0..Len(numbers)
    PROVE  Sum([i \in 1..j |-> numbers[i]]) = f[j]
<1> DEFINE first == [i \in 1..j |-> numbers[i]]
<1>1. Len(numbers) \in Nat /\ \A i \in 1..Len(numbers) : numbers[i] \in Nat
  BY LenProperties
<1>2. first \in Seq(Nat) /\ Len(first) = j /\ \A i \in 1..j : first[i] = numbers[i]
  BY <1>1
<1> HIDE DEF first
<1>3. PICK h : SumsUp(h, first)
  BY <1>2, SumNat
<1> DEFINE T == {i \in Nat : i <= j => h[i] = f[i]}
<1>4. 0 \in T
  BY <1>3 DEF SumsUp
<1>5. ASSUME NEW i \in Nat, i \in T PROVE i + 1 \in T
  <2>1. CASE i + 1 <= j
    <3>1. i \in 0..(j - 1) /\ i \in 0..(Len(numbers) - 1) /\ i + 1 \in 1..j /\ h[i] = f[i]
      BY <1>1, <1>5, <2>1
    <3>2. h[i + 1] = h[i] + first[i + 1] /\ f[i + 1] = f[i] + numbers[i + 1]
      BY <1>2, <1>3, <3>1 DEF SumsUp
    <3> QED BY <1>2, <3>1, <3>2
  <2> QED BY <2>1
<1> HIDE DEF T
<1>6. j \in T
  <2>1. Nat \subseteq T
    BY <1>4, <1>5, NatSet
  <2> QED BY <1>1, <2>1
<1> QED BY <1>2, <1>3, <1>6 DEF T, SumsUp, first

\* The sum of a set, in any order.
SumOver(A) == FoldSet(LAMBDA q, sum : q + sum, 0, A)

\* g adds up the members of a set in any order.
AnyOrder(g, A) ==
    /\ g \in [SUBSET A -> Nat] /\ g[{}] = 0
    /\ \A B \in SUBSET A : \A x \in B : g[B] = x + g[B \ {x}]

\* The numbers up to n have such a sum.
LEMMA PositiveSum ==
    ASSUME NEW n \in Nat
    PROVE  \E g : AnyOrder(g, 1..n)
<1> DEFINE T == {k \in Nat : \E g : AnyOrder(g, 1..k)}
<1>1. 0 \in T
  <2> DEFINE g == [B \in SUBSET (1..0) |-> 0]
  <2>1. AnyOrder(g, 1..0)
    BY DEF AnyOrder
  <2> HIDE DEF g
  <2> QED BY <2>1
<1>2. ASSUME NEW k \in Nat, k \in T PROVE k + 1 \in T
  <2>1. PICK g : AnyOrder(g, 1..k)
    BY <1>2
  <2> DEFINE h == [B \in SUBSET (1..(k + 1)) |-> IF k + 1 \in B THEN k + 1 + g[B \ {k + 1}] ELSE g[B]]
  <2>2. \A B \in SUBSET (1..(k + 1)) : B \ {k + 1} \in SUBSET (1..k) /\ (k + 1 \notin B => B \in SUBSET (1..k))
    OBVIOUS
  <2>3. h \in [SUBSET (1..(k + 1)) -> Nat] /\ h[{}] = 0
    BY <2>1, <2>2 DEF AnyOrder
  <2>4. ASSUME NEW B \in SUBSET (1..(k + 1)), NEW x \in B PROVE h[B] = x + h[B \ {x}]
    <3>1. B \ {x} \in SUBSET (1..(k + 1)) /\ x \in Nat
      OBVIOUS
    <3>2. CASE k + 1 \in B /\ x = k + 1
      <4>1. h[B] = k + 1 + g[B \ {k + 1}] /\ h[B \ {x}] = g[B \ {k + 1}]
        BY <3>1, <3>2
      <4> QED BY <3>2, <4>1
    <3>3. CASE k + 1 \in B /\ x # k + 1
      <4>1. h[B] = k + 1 + g[B \ {k + 1}] /\ h[B \ {x}] = k + 1 + g[(B \ {x}) \ {k + 1}]
        BY <3>1, <3>3
      <4>2. (B \ {x}) \ {k + 1} = (B \ {k + 1}) \ {x} /\ x \in B \ {k + 1} /\ (B \ {k + 1}) \ {x} \in SUBSET (1..k)
        BY <2>2, <3>3
      <4>3. g[B \ {k + 1}] = x + g[(B \ {k + 1}) \ {x}] /\ g[(B \ {k + 1}) \ {x}] \in Nat
        BY <2>1, <2>2, <4>2 DEF AnyOrder
      <4> DEFINE v == g[(B \ {k + 1}) \ {x}]
      <4>4. h[B] = k + 1 + (x + v) /\ h[B \ {x}] = k + 1 + v
        BY <4>1, <4>2, <4>3
      <4>5. v \in Nat
        BY <4>3
      <4> HIDE DEF h, v
      <4> QED BY ONLY k \in Nat, <3>1, <4>4, <4>5
    <3>4. CASE k + 1 \notin B
      <4>1. h[B] = g[B] /\ h[B \ {x}] = g[B \ {x}] /\ B \in SUBSET (1..k)
        BY <2>2, <3>1, <3>4
      <4>2. g[B] = x + g[B \ {x}]
        BY <2>1, <4>1 DEF AnyOrder
      <4> HIDE DEF h
      <4> QED BY <4>1, <4>2
    <3> QED BY <3>2, <3>3, <3>4
  <2> HIDE DEF h
  <2>5. AnyOrder(h, 1..(k + 1))
    BY <2>3, <2>4 DEF AnyOrder
  <2> QED BY <2>5
<1> HIDE DEF T
<1>3. n \in T
  BY <1>1, <1>2, NatSet
<1> QED BY <1>3 DEF T

\* The fold over a set adds its members up in any order.
LEMMA SetSum ==
    ASSUME NEW n \in Nat, NEW A \in SUBSET (0..n)
    PROVE  \E g : AnyOrder(g, A) /\ g[A] = SumOver(A)
<1> DEFINE G(g) == [s \in SUBSET A |-> IF s = {} THEN 0 ELSE (CHOOSE x \in s : TRUE) + g[s \ {CHOOSE x \in s : TRUE}]]
           iter == CHOOSE g : g = G(g)
<1>1. SumOver(A) = iter[A]
  BY Zenon DEF SumOver, FoldSet, MapThenFoldSet
<1>2. PICK h : AnyOrder(h, 1..n)
  BY PositiveSum
<1> DEFINE g == [B \in SUBSET A |-> h[B \ {0}]]
<1>3. AnyOrder(g, A)
  <2>1. \A B \in SUBSET A : B \ {0} \in SUBSET (1..n)
    OBVIOUS
  <2>2. g \in [SUBSET A -> Nat] /\ g[{}] = 0
    <3>1. {} \ {0} = {} /\ {} \in SUBSET A
      OBVIOUS
    <3> QED BY <1>2, <2>1, <3>1 DEF AnyOrder
  <2>3. ASSUME NEW B \in SUBSET A, NEW x \in B PROVE g[B] = x + g[B \ {x}]
    <3>1. g[B] = h[B \ {0}] /\ g[B \ {x}] = h[(B \ {x}) \ {0}] /\ h[B \ {0}] \in Nat /\ x \in Nat
      BY <1>2, <2>1 DEF AnyOrder
    <3>2. CASE x = 0
      <4>1. (B \ {x}) \ {0} = B \ {0}
        BY <3>2
      <4> HIDE DEF g
      <4> QED BY <3>1, <3>2, <4>1
    <3>3. CASE x # 0
      <4>1. (B \ {x}) \ {0} = (B \ {0}) \ {x} /\ x \in B \ {0}
        BY <3>3
      <4>2. h[B \ {0}] = x + h[(B \ {0}) \ {x}]
        BY <1>2, <2>1, <4>1 DEF AnyOrder
      <4> HIDE DEF g
      <4> QED BY <3>1, <4>1, <4>2
    <3> QED BY <3>2, <3>3
  <2> HIDE DEF g
  <2> QED BY <2>2, <2>3 DEF AnyOrder
<1> HIDE DEF g
<1>4. g = G(g)
  <2>1. \A s \in SUBSET A : s # {} => (CHOOSE x \in s : TRUE) \in s
    OBVIOUS
  <2> QED BY <1>3, <2>1 DEF AnyOrder
<1>5. iter = G(iter)
  <2> HIDE DEF G
  <2> QED BY <1>4
<1> HIDE DEF iter
<1>6. \A B \in SUBSET A : iter[B] = g[B]
  <2> DEFINE Other == {B \in SUBSET A : iter[B] # g[B]}
  <2> SUFFICES ASSUME Other # {} PROVE FALSE
    OBVIOUS
  <2>1. \A B \in SUBSET A : IsFiniteSet(B) /\ Cardinality(B) \in Nat
    <3>1. IsFiniteSet(0..n)
      BY FS_Interval
    <3> QED BY <3>1, FS_Subset, FS_CardinalityType
  <2>2. PICK B \in Other : \A C \in Other : Cardinality(B) <= Cardinality(C)
    <3> DEFINE sizes == {Cardinality(B) : B \in Other}
    <3>1. sizes \subseteq Nat /\ sizes # {}
      BY <2>1
    <3>2. PICK c \in sizes : \A d \in sizes : c <= d
      <4> HIDE DEF sizes
      <4> QED BY <3>1, LeastExists
    <3> QED BY <3>2
  <2>3. B # {} /\ B \in SUBSET A
    BY <1>3, <1>5 DEF AnyOrder
  <2> DEFINE x == CHOOSE x \in B : TRUE
  <2>4. x \in B
    BY <2>3
  <2>5. iter[B] = x + iter[B \ {x}]
    BY <1>5, <2>3
  <2> HIDE DEF x
  <2>6. Cardinality(B \ {x}) = Cardinality(B) - 1 /\ B \ {x} \in SUBSET A
    BY <2>1, <2>3, <2>4, FS_RemoveElement
  <2>7. B \ {x} \notin Other
    BY <2>1, <2>2, <2>3, <2>6
  <2>8. iter[B] = g[B]
    BY <1>3, <2>3, <2>4, <2>5, <2>6, <2>7 DEF AnyOrder
  <2> QED BY <2>8
<1> QED BY <1>1, <1>3, <1>6

\* The sum and the size of a set whose members a sequence has, each once.
LEMMA SumOfMembers ==
    ASSUME NEW n \in Nat, NEW A \in SUBSET (0..n), NEW q \in Seq(Nat), A = {q[i] : i \in 1..Len(q)},
           \A i, j \in 1..Len(q) : q[i] = q[j] => i = j
    PROVE  Sum(q) = SumOver(A) /\ Cardinality(A) = Len(q)
<1>1. PICK g : AnyOrder(g, A) /\ g[A] = SumOver(A)
  BY SetSum
<1>2. PICK f : SumsUp(f, q)
  BY SumNat
<1>3. Len(q) \in Nat /\ \A i \in 1..Len(q) : q[i] \in Nat
  BY LenProperties
<1> DEFINE First(i) == {q[k] : k \in 1..i}
           T == {i \in Nat : i <= Len(q) => /\ g[First(i)] = f[i]
                                            /\ IsFiniteSet(First(i)) /\ Cardinality(First(i)) = i}
<1>4. 0 \in T
  <2>1. First(0) = {}
    OBVIOUS
  <2>2. IsFiniteSet({}) /\ Cardinality({}) = 0
    BY FS_EmptySet
  <2> QED BY <1>1, <1>2, <2>1, <2>2 DEF AnyOrder, SumsUp
<1>5. ASSUME NEW i \in Nat, i \in T PROVE i + 1 \in T
  <2>1. CASE i + 1 <= Len(q)
    <3> DEFINE x == q[i + 1]
    <3>1. i \in 0..(Len(q) - 1) /\ i + 1 \in 1..Len(q) /\ i <= Len(q) /\ x \in Nat
      BY <1>3, <2>1
    <3>2. First(i + 1) \in SUBSET A /\ x \in First(i + 1)
      BY <1>3, <3>1
    <3>3. x \notin First(i)
      BY <1>3, <3>1
    <3>4. First(i + 1) = First(i) \cup {x}
      <4>1. 1..(i + 1) = (1..i) \cup {i + 1}
        BY <3>1
      <4> QED BY <4>1
    <3>5. First(i + 1) \ {x} = First(i)
      BY <3>3, <3>4
    <3>6. g[First(i + 1)] = x + g[First(i)] /\ f[i + 1] = f[i] + x
      <4>1. f[i + 1] = f[i] + x
        BY <1>2, <3>1 DEF SumsUp
      <4>2. g[First(i + 1)] = x + g[First(i + 1) \ {x}]
        <5> HIDE DEF First, x
        <5> QED BY <1>1, <3>2 DEF AnyOrder
      <4> QED BY <3>5, <4>1, <4>2
    <3>7. g[First(i)] = f[i] /\ IsFiniteSet(First(i)) /\ Cardinality(First(i)) = i /\ f[i] \in Nat
      BY <1>2, <1>5, <3>1 DEF SumsUp
    <3>8. IsFiniteSet(First(i + 1)) /\ Cardinality(First(i + 1)) = i + 1
      <4> HIDE DEF First, x
      <4>1. IsFiniteSet(First(i) \cup {x}) /\ Cardinality(First(i) \cup {x}) = Cardinality(First(i)) + 1
        BY <3>3, <3>7, FS_AddElement
      <4> QED BY <3>4, <3>7, <4>1
    <3> HIDE DEF First, x
    <3> QED BY <3>1, <3>6, <3>7, <3>8
  <2> QED BY <2>1
<1> HIDE DEF T
<1>6. Len(q) \in T
  <2>1. Nat \subseteq T
    BY <1>4, <1>5, NatSet
  <2> QED BY <1>3, <2>1
<1>7. First(Len(q)) = A
  OBVIOUS
<1>8. g[First(Len(q))] = f[Len(q)] /\ Cardinality(First(Len(q))) = Len(q)
  <2> HIDE DEF First
  <2> QED BY <1>6 DEF T
<1> HIDE DEF First
<1> QED BY <1>1, <1>2, <1>7, <1>8 DEF SumsUp

-----------------------------------------------------------------------------
(***************************************************************************)
(* Plans of rates                                                          *)
(***************************************************************************)

\* No moment is before an earlier one.
Ascends(times) == \A i, j \in 1..Len(times) : i <= j => times[i] <= times[j]

\* A plan of rates: moments ascend and are within its duration.
Sound(p) ==
    /\ p \in PlanType
    /\ ~p.fails => /\ ~p.forever /\ p.len = Len(p.times) /\ p.instances = 0
                   /\ Ascends(p.times) /\ \A i \in 1..Len(p.times) : p.times[i] < p.dur

\* A plan that failed promises nothing.
LEMMA FailedIs == Failed \in PlanType /\ Failed.fails /\ Sound(Failed)
BY DEF Failed, PlanType, Sound

\* A plan has the moments it is made of.
LEMMA StepsIs ==
    ASSUME NEW times \in Seq(Nat), NEW dur \in Nat, NEW seconds \in Seq(Int \X Int),
           NEW p, p = Steps(times, dur, seconds)
    PROVE  /\ p \in PlanType /\ ~p.fails /\ ~p.forever /\ p.instances = 0
           /\ p.times = times /\ p.dur = dur /\ p.len = Len(times)
<1>1. Len(times) \in Int
  BY LenProperties
<1> QED BY <1>1 DEF Steps, Failed, PlanType

\* The moments and the duration of a plan are numbers.
LEMMA TimesType ==
    ASSUME NEW p \in PlanType
    PROVE  /\ p.times \in Seq(Nat) /\ p.dur \in Nat /\ p.seconds \in Seq(Int \X Int) /\ p.instances \in Nat
           /\ Len(p.times) \in Nat /\ \A i \in 1..Len(p.times) : p.times[i] \in Nat
<1>1. p.times \in Seq(Nat) /\ p.dur \in Nat /\ p.seconds \in Seq(Int \X Int) /\ p.instances \in Nat
  BY DEF PlanType
<1> QED BY <1>1, LenProperties

\* Two sequences of moments, one after the other.
LEMMA JoinIs ==
    ASSUME NEW a \in Seq(Nat), NEW n \in Nat, NEW b \in [1..n -> Nat]
    PROVE  /\ a \o b \in Seq(Nat) /\ Len(a \o b) = Len(a) + n /\ Len(a) \in Nat
           /\ \A i \in 1..Len(a) : (a \o b)[i] = a[i]
           /\ \A i \in 1..n : (a \o b)[Len(a) + i] = b[i]
<1>1. b \in Seq(Nat) /\ Len(b) = n /\ Len(a) \in Nat
  BY LenProperties
<1>2. /\ a \o b \in Seq(Nat) /\ Len(a \o b) = Len(a) + n
      /\ \A i \in 1..(Len(a) + n) : (a \o b)[i] = IF i <= Len(a) THEN a[i] ELSE b[i - Len(a)]
  BY <1>1, ConcatProperties
<1>3. ASSUME NEW i \in 1..n PROVE (a \o b)[Len(a) + i] = b[i]
  <2>1. Len(a) + i \in 1..(Len(a) + n) /\ ~(Len(a) + i <= Len(a)) /\ (Len(a) + i) - Len(a) = i
    BY <1>1
  <2> QED BY <1>2, <2>1
<1>4. ASSUME NEW i \in 1..Len(a) PROVE (a \o b)[i] = a[i]
  <2>1. i \in 1..(Len(a) + n) /\ i <= Len(a)
    BY <1>1
  <2> QED BY <1>2, <2>1
<1> QED BY <1>1, <1>2, <1>3, <1>4

\* A place of two sequences is one of the first or of the second.
LEMMA PlaceIs ==
    ASSUME NEW m \in Nat, NEW n \in Nat, NEW i \in 1..(m + n)
    PROVE  i \in 1..m \/ (i - m \in 1..n /\ i = m + (i - m))
OBVIOUS

\* p is b after a.
IsThen(p, a, b) ==
    /\ ~p.forever /\ p.len = Len(p.times) /\ p.instances = 0 /\ p.dur = a.dur + b.dur
    /\ Len(p.times) = Len(a.times) + Len(b.times)
    /\ \A i \in 1..Len(a.times) : p.times[i] = a.times[i]
    /\ \A i \in 1..Len(b.times) : p.times[Len(a.times) + i] = b.times[i] + a.dur

\* Then fails when one of the plans does, and is the second after the first else.
LEMMA ThenIs ==
    ASSUME NEW a \in PlanType, NEW b \in PlanType
    PROVE  /\ Then(a, b) \in PlanType /\ (Then(a, b).fails <=> a.fails \/ b.fails)
           /\ ~Then(a, b).fails => IsThen(Then(a, b), a, b)
<1>1. CASE a.fails \/ b.fails
  BY <1>1, FailedIs DEF Then
<1>2. CASE ~a.fails /\ ~b.fails
  <2> DEFINE moved == [n \in 1..Len(b.times) |-> b.times[n] + a.dur]
             times == a.times \o moved
  <2>1. moved \in [1..Len(b.times) -> Nat]
    BY TimesType
  <2>2. /\ times \in Seq(Nat) /\ Len(times) = Len(a.times) + Len(b.times)
        /\ \A i \in 1..Len(a.times) : times[i] = a.times[i]
        /\ \A i \in 1..Len(b.times) : times[Len(a.times) + i] = moved[i]
    <3> HIDE DEF moved
    <3> QED BY <2>1, TimesType, JoinIs
  <2>3. a.dur + b.dur \in Nat /\ a.seconds \o b.seconds \in Seq(Int \X Int)
    BY TimesType, ConcatProperties
  <2>4. Then(a, b) = Steps(times, a.dur + b.dur, a.seconds \o b.seconds)
    BY <1>2, Zenon DEF Then
  <2>5. \A i \in 1..Len(b.times) : moved[i] = b.times[i] + a.dur
    OBVIOUS
  <2> HIDE DEF moved, times
  <2>6. /\ Then(a, b) \in PlanType /\ ~Then(a, b).fails /\ ~Then(a, b).forever /\ Then(a, b).instances = 0
        /\ Then(a, b).times = times /\ Then(a, b).dur = a.dur + b.dur /\ Then(a, b).len = Len(times)
    <3> DEFINE dur == a.dur + b.dur
               seconds == a.seconds \o b.seconds
               p == Then(a, b)
    <3>1. dur \in Nat /\ seconds \in Seq(Int \X Int) /\ times \in Seq(Nat) /\ p = Steps(times, dur, seconds)
      BY <2>2, <2>3, <2>4
    <3> HIDE DEF dur, seconds, p
    <3>2. p \in PlanType /\ ~p.fails /\ ~p.forever /\ p.instances = 0 /\ p.times = times /\ p.dur = dur /\ p.len = Len(times)
      BY <3>1, StepsIs
    <3> QED BY <3>2 DEF p, dur
  <2>7. IsThen(Then(a, b), a, b)
    BY <2>2, <2>5, <2>6 DEF IsThen
  <2> QED BY <1>2, <2>6, <2>7
<1>3. a.fails \in BOOLEAN /\ b.fails \in BOOLEAN
  BY DEF PlanType
<1> QED BY <1>1, <1>2, <1>3

\* One plan of rates after the other is one.
LEMMA ThenSound ==
    ASSUME NEW a, NEW b, Sound(a), Sound(b)
    PROVE  Sound(Then(a, b))
<1> DEFINE p == Then(a, b)
           m == Len(a.times)
           n == Len(b.times)
<1>1. a \in PlanType /\ b \in PlanType
  BY DEF Sound
<1>2. p \in PlanType /\ (~p.fails => ~a.fails /\ ~b.fails /\ IsThen(p, a, b))
  BY <1>1, ThenIs
<1> HIDE DEF p
<1> SUFFICES ASSUME ~p.fails PROVE Ascends(p.times) /\ \A i \in 1..Len(p.times) : p.times[i] < p.dur
  BY <1>2 DEF Sound, IsThen, p
<1>3. /\ Ascends(a.times) /\ \A i \in 1..m : a.times[i] < a.dur
      /\ Ascends(b.times) /\ \A i \in 1..n : b.times[i] < b.dur
  BY <1>2 DEF Sound
<1>4. /\ m \in Nat /\ n \in Nat /\ a.dur \in Nat /\ b.dur \in Nat
      /\ \A i \in 1..m : a.times[i] \in Nat
      /\ \A i \in 1..n : b.times[i] \in Nat
  BY <1>1, TimesType
<1>5. /\ Len(p.times) = m + n /\ p.dur = a.dur + b.dur
      /\ \A i \in 1..m : p.times[i] = a.times[i]
      /\ \A i \in 1..n : p.times[m + i] = b.times[i] + a.dur
  BY <1>2 DEF IsThen
<1> HIDE DEF m, n
<1>6. ASSUME NEW i \in 1..Len(p.times) PROVE p.times[i] < p.dur
  <2>1. CASE i \in 1..m
    BY <1>3, <1>4, <1>5, <2>1
  <2>2. CASE i - m \in 1..n /\ i = m + (i - m)
    <3> DEFINE k == i - m
    <3>1. p.times[i] = b.times[k] + a.dur /\ b.times[k] < b.dur /\ b.times[k] \in Nat
      BY <1>3, <1>4, <1>5, <2>2
    <3> HIDE DEF k
    <3> QED BY <1>4, <1>5, <3>1
  <2> QED BY <1>4, <1>5, <2>1, <2>2, PlaceIs
<1>7. ASSUME NEW i \in 1..Len(p.times), NEW j \in 1..Len(p.times), i <= j PROVE p.times[i] <= p.times[j]
  <2>1. CASE i \in 1..m /\ j \in 1..m
    BY <1>3, <1>5, <1>7, <2>1 DEF Ascends, m
  <2>2. CASE i \in 1..m /\ j - m \in 1..n /\ j = m + (j - m)
    <3> DEFINE k == j - m
    <3>1. p.times[i] = a.times[i] /\ a.times[i] < a.dur /\ a.times[i] \in Nat
      BY <1>3, <1>4, <1>5, <2>2
    <3>2. p.times[j] = b.times[k] + a.dur /\ b.times[k] \in Nat
      BY <1>4, <1>5, <2>2
    <3> HIDE DEF k
    <3> QED BY <1>4, <3>1, <3>2
  <2>3. CASE i - m \in 1..n /\ i = m + (i - m) /\ j - m \in 1..n /\ j = m + (j - m)
    <3> DEFINE k == i - m
               l == j - m
    <3>1. k \in 1..n /\ l \in 1..n /\ k <= l
      BY <1>4, <1>5, <1>7, <2>3
    <3>2. p.times[i] = b.times[k] + a.dur /\ p.times[j] = b.times[l] + a.dur
      BY <1>5, <2>3
    <3> HIDE DEF k, l
    <3>3. b.times[k] <= b.times[l] /\ b.times[k] \in Nat /\ b.times[l] \in Nat
      BY <1>3, <1>4, <3>1 DEF Ascends, n
    <3> QED BY <1>4, <3>2, <3>3
  <2>4. ~(j \in 1..m /\ i - m \in 1..n)
    BY <1>4, <1>5, <1>7
  <2>5. (i \in 1..m \/ (i - m \in 1..n /\ i = m + (i - m))) /\ (j \in 1..m \/ (j - m \in 1..n /\ j = m + (j - m)))
    BY <1>4, <1>5, PlaceIs
  <2> QED BY <2>1, <2>2, <2>3, <2>4, <2>5
<1> QED BY <1>6, <1>7 DEF Ascends

\* What plans are together: f[k] is the first k of them, and the moments before
\* its end are its own.
Parted(f, plans) ==
    /\ \A k \in 0..Len(plans) : Sound(f[k]) /\ ~f[k].fails
    /\ f[0].dur = 0 /\ Len(f[0].times) = 0
    /\ \A k \in 0..(Len(plans) - 1) : /\ ~plans[k + 1].fails
                                      /\ f[k + 1].dur = f[k].dur + plans[k + 1].dur
                                      /\ Len(f[k + 1].times) = Len(f[k].times) + Len(plans[k + 1].times)
    /\ \A k \in 0..Len(plans) : Len(f[k].times) <= Len(f[Len(plans)].times)
    /\ \A k \in 0..Len(plans), i \in 1..Len(f[Len(plans)].times) :
          f[Len(plans)].times[i] < f[k].dur <=> i <= Len(f[k].times)

\* The plan that a schedule starts with has no moments.
LEMMA NoPlanIs == /\ NoPlan \in PlanType /\ ~NoPlan.fails /\ ~NoPlan.forever /\ NoPlan.instances = 0
                  /\ NoPlan.times = << >> /\ NoPlan.dur = 0 /\ NoPlan.len = 0
<1>1. << >> \in Seq(Nat) /\ << >> \in Seq(Int \X Int) /\ Len(<< >>) = 0
  OBVIOUS
<1> DEFINE none == << >>
<1>2. NoPlan = Steps(none, 0, none) /\ none \in Seq(Nat) /\ none \in Seq(Int \X Int) /\ 0 \in Nat
  BY <1>1 DEF NoPlan
<1> HIDE DEF none
<1>3. /\ NoPlan \in PlanType /\ ~NoPlan.fails /\ ~NoPlan.forever /\ NoPlan.instances = 0
      /\ NoPlan.times = none /\ NoPlan.dur = 0 /\ NoPlan.len = Len(none)
  BY <1>2, StepsIs
<1> QED BY <1>1, <1>3 DEF none

\* The moments of c before the end of b are as many as b has.
Bounds(c, b) ==
    /\ b.dur <= c.dur /\ Len(b.times) <= Len(c.times)
    /\ \A i \in 1..Len(c.times) : c.times[i] < b.dur <=> i <= Len(b.times)

\* All moments of a plan are before its end.
LEMMA BoundsSelf ==
    ASSUME NEW c, Sound(c), ~c.fails
    PROVE  Bounds(c, c)
<1>1. Len(c.times) \in Nat /\ c.dur \in Nat
  BY TimesType DEF Sound
<1> QED BY <1>1 DEF Bounds, Sound

\* What comes after moves no moment across the end of what was before.
LEMMA BoundsThen ==
    ASSUME NEW a \in PlanType, NEW b, NEW c, Sound(b), Sound(c), ~Then(c, b).fails, Bounds(c, a)
    PROVE  Bounds(Then(c, b), a)
<1> DEFINE p == Then(c, b)
           m == Len(c.times)
           n == Len(b.times)
<1>1. b \in PlanType /\ c \in PlanType
  BY DEF Sound
<1>2. p \in PlanType /\ ~p.fails /\ IsThen(p, c, b)
  BY <1>1, ThenIs
<1> HIDE DEF p
<1>3. /\ m \in Nat /\ n \in Nat /\ c.dur \in Nat /\ b.dur \in Nat /\ a.dur \in Nat /\ Len(a.times) \in Nat
      /\ \A i \in 1..n : b.times[i] \in Nat
  BY <1>1, TimesType
<1>4. /\ Len(p.times) = m + n /\ p.dur = c.dur + b.dur
      /\ \A i \in 1..m : p.times[i] = c.times[i]
      /\ \A i \in 1..n : p.times[m + i] = b.times[i] + c.dur
  BY <1>2 DEF IsThen
<1>5. a.dur <= c.dur /\ Len(a.times) <= m /\ \A i \in 1..m : c.times[i] < a.dur <=> i <= Len(a.times)
  BY DEF Bounds
<1> HIDE DEF m, n
<1>6. ASSUME NEW i \in 1..Len(p.times) PROVE p.times[i] < a.dur <=> i <= Len(a.times)
  <2>1. CASE i \in 1..m
    BY <1>4, <1>5, <2>1
  <2>2. CASE i - m \in 1..n /\ i = m + (i - m)
    <3> DEFINE k == i - m
    <3>1. p.times[i] = b.times[k] + c.dur /\ b.times[k] \in Nat /\ k \in 1..n /\ i = m + k
      BY <1>3, <1>4, <2>2
    <3> HIDE DEF k
    <3> QED BY <1>3, <1>5, <3>1
  <2> QED BY <1>3, <1>4, <2>1, <2>2, PlaceIs
<1>7. a.dur <= p.dur /\ Len(a.times) <= Len(p.times)
  BY <1>3, <1>4, <1>5
<1> QED BY <1>6, <1>7 DEF Bounds, p

\* A composite is its parts, each at its place.
LEMMA CompositeIs ==
    ASSUME NEW plans \in Seq(PlanType), \A i \in 1..Len(plans) : Sound(plans[i]), ~Composite(plans).fails,
           NEW f, Composes(f, plans)
    PROVE  Parted(f, plans)
<1> DEFINE n == Len(plans)
<1>1. n \in Nat /\ f \in [0..n -> PlanType] /\ f[0] = NoPlan /\ ~f[n].fails
  BY LenProperties DEF Composes
<1>2. ASSUME NEW k \in 0..(n - 1)
      PROVE  /\ f[k + 1] = Then(f[k], plans[k + 1]) /\ f[k] \in PlanType /\ plans[k + 1] \in PlanType
             /\ Sound(plans[k + 1]) /\ k + 1 \in 0..n /\ k \in 0..n
  <2>1. k + 1 \in 1..n /\ k + 1 \in 0..n /\ k \in 0..n
    BY <1>1
  <2> QED BY <1>1, <2>1 DEF Composes, Sound
<1> HIDE DEF n
<1>3. \A k \in 0..n : ~f[k].fails
  <2> DEFINE T == {d \in Nat : d <= n => ~f[n - d].fails}
  <2>1. 0 \in T
    BY <1>1
  <2>2. ASSUME NEW d \in Nat, d \in T PROVE d + 1 \in T
    <3>1. CASE d + 1 <= n
      <4> DEFINE k == n - (d + 1)
      <4>1. k \in 0..(n - 1) /\ k + 1 = n - d /\ d <= n
        BY <1>1, <3>1
      <4>2. ~f[k + 1].fails
        BY <2>2, <4>1
      <4> HIDE DEF k
      <4>3. ~f[k].fails
        BY <1>2, <4>1, <4>2, ThenIs
      <4> QED BY <4>3 DEF k
    <3> QED BY <3>1
  <2> HIDE DEF T
  <2>3. Nat \subseteq T
    BY <2>1, <2>2, NatSet
  <2>4. \A k \in 0..n : n - k \in Nat /\ n - k <= n /\ n - (n - k) = k
    BY <1>1
  <2> QED BY <2>3, <2>4 DEF T
<1>4. ASSUME NEW k \in 0..(n - 1)
      PROVE  ~plans[k + 1].fails /\ IsThen(f[k + 1], f[k], plans[k + 1])
  BY <1>2, <1>3, ThenIs
<1> DEFINE T == {k \in Nat : k <= n => Sound(f[k]) /\ \A j \in 0..k : Bounds(f[k], f[j])}
<1>5. 0 \in T
  <2>1. Sound(NoPlan)
    <3>1. Len(<< >>) = 0 /\ \A i \in 1..0 : FALSE
      OBVIOUS
    <3> QED BY <3>1, NoPlanIs DEF Sound, Ascends
  <2>2. Bounds(f[0], f[0])
    BY <1>1, <2>1, BoundsSelf, NoPlanIs
  <2>3. \A j \in 0..0 : j = 0
    OBVIOUS
  <2> QED BY <1>1, <2>1, <2>2, <2>3
<1>6. ASSUME NEW k \in Nat, k \in T PROVE k + 1 \in T
  <2>1. CASE k + 1 <= n
    <3>1. k \in 0..(n - 1) /\ k <= n /\ k + 1 \in 0..n
      BY <1>1, <2>1
    <3>2. Sound(f[k]) /\ \A j \in 0..k : Bounds(f[k], f[j])
      BY <1>6, <3>1
    <3>3. Sound(f[k + 1])
      BY <1>2, <3>1, <3>2, ThenSound
    <3>4. ASSUME NEW j \in 0..(k + 1) PROVE Bounds(f[k + 1], f[j])
      <4>1. CASE j = k + 1
        BY <1>3, <3>1, <3>3, <4>1, BoundsSelf
      <4>2. CASE j \in 0..k
        <5>1. f[j] \in PlanType /\ ~f[k + 1].fails
          BY <1>1, <1>3, <3>1, <4>2
        <5>2. Bounds(f[k], f[j])
          BY <3>2, <4>2
        <5>3. f[k + 1] = Then(f[k], plans[k + 1]) /\ Sound(plans[k + 1])
          BY <1>2, <3>1
        <5> QED BY <3>2, <5>1, <5>2, <5>3, BoundsThen
      <4> QED BY <4>1, <4>2
    <3> QED BY <3>3, <3>4
  <2> QED BY <2>1
<1> HIDE DEF T
<1>7. Nat \subseteq T
  BY <1>5, <1>6, NatSet
<1>8. \A k \in 0..n : Sound(f[k]) /\ \A j \in 0..k : Bounds(f[k], f[j])
  BY <1>1, <1>7 DEF T
<1>9. f[0].dur = 0 /\ Len(f[0].times) = 0
  BY <1>1, NoPlanIs
<1>10. ASSUME NEW k \in 0..n, NEW i \in 1..Len(f[n].times) PROVE f[n].times[i] < f[k].dur <=> i <= Len(f[k].times)
  <2>1. n \in 0..n /\ k \in 0..n
    BY <1>1
  <2>2. Bounds(f[n], f[k])
    BY <1>8, <2>1
  <2> QED BY <2>2 DEF Bounds
<1>11. ASSUME NEW k \in 0..(n - 1)
       PROVE  /\ f[k + 1].dur = f[k].dur + plans[k + 1].dur
              /\ Len(f[k + 1].times) = Len(f[k].times) + Len(plans[k + 1].times)
  BY <1>4 DEF IsThen
<1>12. ASSUME NEW k \in 0..n PROVE Len(f[k].times) <= Len(f[n].times)
  <2>1. n \in 0..n /\ k \in 0..n
    BY <1>1
  <2>2. Bounds(f[n], f[k])
    BY <1>8, <2>1
  <2> QED BY <2>2 DEF Bounds
<1> QED BY <1>3, <1>4, <1>8, <1>9, <1>10, <1>11, <1>12 DEF Parted, n

-----------------------------------------------------------------------------
(***************************************************************************)
(* What each kind of step gives                                            *)
(***************************************************************************)

\* A quotient is rounded down.
LEMMA RoundedDown ==
    ASSUME NEW a \in Nat, NEW d \in Nat \ {0}
    PROVE  a \div d \in Nat /\ (a \div d) * d <= a /\ a < (a \div d) * d + d
OBVIOUS

\* Rounding keeps the order.
LEMMA RoundedAscends ==
    ASSUME NEW a \in Nat, NEW b \in Nat, NEW d \in Nat \ {0}, a <= b
    PROVE  a \div d <= b \div d
OBVIOUS

\* What is below a multiple is rounded below its factor.
LEMMA RoundedBelow ==
    ASSUME NEW a \in Nat, NEW q \in Nat, NEW d \in Nat \ {0}, a < q * d
    PROVE  a \div d < q
OBVIOUS

\* A product with a number keeps the order.
LEMMA ProductAscends ==
    ASSUME NEW a \in Nat, NEW b \in Nat, NEW c \in Nat, a <= b
    PROVE  a * c \in Nat /\ b * c \in Nat /\ a * c <= b * c
OBVIOUS

\* p gives the load, less at most one missile, in the time.
Gives(p, load, dur) == Sound(p) /\ ~p.fails /\ p.dur = dur /\ load \in Nat /\ load - 1000 * Len(p.times) \in 0..1000

\* A constant rate gives its load, less at most one missile, in its time.
LEMMA ConstIs ==
    ASSUME NEW rps \in Nat, NEW dur \in Nat
    PROVE  Gives(Const(rps, dur), rps * dur, dur)
<1> DEFINE p == Const(rps, dur)
           load == rps * dur
           n == load \div 1000
           times == [i \in 1..n |-> ((i - 1) * 1000) \div rps]
           seconds == << <<rps, dur \div 1000>> >>
<1>1. load \in Nat
  OBVIOUS
<1>2. n \in Nat /\ 1000 * n <= load /\ load < 1000 * n + 1000
  <2> HIDE DEF load
  <2> QED BY <1>1
<1>3. ASSUME NEW i \in 1..n
      PROVE  rps # 0 /\ (i - 1) * 1000 \in Nat /\ times[i] \in Nat /\ times[i] < dur
  <2>1. (i - 1) * 1000 \in Nat /\ (i - 1) * 1000 < load
    <3> HIDE DEF load, n
    <3> QED BY <1>1, <1>2
  <2>2. rps # 0
    BY <2>1
  <2>3. ((i - 1) * 1000) \div rps \in Nat /\ ((i - 1) * 1000) \div rps < dur
    <3> DEFINE a == (i - 1) * 1000
    <3>1. a \in Nat /\ a < dur * rps
      BY <2>1
    <3> HIDE DEF a
    <3> QED BY <2>2, <3>1, RoundedDown, RoundedBelow DEF a
  <2> QED BY <2>1, <2>2, <2>3
<1>4. ASSUME NEW i \in 1..n, NEW j \in 1..n, i <= j PROVE times[i] <= times[j]
  <2> DEFINE a == (i - 1) * 1000
             b == (j - 1) * 1000
  <2>1. a \in Nat /\ b \in Nat /\ a <= b /\ rps \in Nat \ {0}
    <3> HIDE DEF n, times
    <3> QED BY <1>2, <1>3, <1>4
  <2>2. times[i] = a \div rps /\ times[j] = b \div rps
    OBVIOUS
  <2> HIDE DEF a, b, times
  <2> QED BY <2>1, <2>2, RoundedAscends
<1>5. seconds \in Seq(Int \X Int)
  <2>1. dur \div 1000 \in Int
    OBVIOUS
  <2> QED BY <2>1
<1> DEFINE result == Steps(times, dur, seconds)
<1>6. p = result
  BY Zenon DEF Const
<1>7. times \in [1..n -> Nat]
  BY <1>3
<1> HIDE DEF p, load, n, times, seconds
<1>8. times \in Seq(Nat) /\ Len(times) = n
  BY <1>2, <1>7
<1>9. /\ p \in PlanType /\ ~p.fails /\ ~p.forever /\ p.instances = 0
      /\ p.times = times /\ p.dur = dur /\ p.len = Len(times)
  BY <1>5, <1>6, <1>8, StepsIs
<1>10. Sound(p)
  BY <1>3, <1>4, <1>8, <1>9 DEF Sound, Ascends
<1>11. load - 1000 * n \in 0..1000
  BY <1>1, <1>2
<1>12. Len(p.times) = n
  BY <1>8, <1>9
<1>13. Gives(p, load, dur)
  BY <1>1, <1>9, <1>10, <1>11, <1>12 DEF Gives
<1> QED BY <1>13 DEF p, load

\* It is a plan of rates.
LEMMA ConstSound ==
    ASSUME NEW rps \in Nat, NEW dur \in Nat
    PROVE  Const(rps, dur) \in PlanType /\ Sound(Const(rps, dur))
<1>1. Gives(Const(rps, dur), rps * dur, dur)
  BY ConstIs
<1> QED BY <1>1 DEF Gives, Sound

\* The load that a line has given grows.
LEMMA GivenAscends ==
    ASSUME NEW s \in StepOf, NEW x \in 0..s.dur, NEW y \in x..s.dur
    PROVE  Given(s, x) \in Nat /\ Given(s, y) \in Nat /\ Given(s, x) <= Given(s, y)
<1> DEFINE f == s.from
           t == s.to
           d == s.dur
<1>1. f \in Nat /\ t \in Nat /\ d \in Nat /\ x \in 0..d /\ y \in x..d
  BY DEF StepOf
<1>2. Given(s, x) = 2 * f * d * x + (t - f) * x * x /\ Given(s, y) = 2 * f * d * y + (t - f) * y * y
  BY DEF Given
<1> HIDE DEF f, t, d
<1>3. 2 * f * d * x + (t - f) * x * x <= 2 * f * d * y + (t - f) * y * y
  BY <1>1
<1>4. 2 * f * d * x + (t - f) * x * x >= 0
  BY <1>1
<1>5. 2 * f * d * x + (t - f) * x * x \in Int /\ 2 * f * d * y + (t - f) * y * y \in Int
  BY <1>1
<1> QED BY <1>2, <1>3, <1>4, <1>5

\* What LineTs chooses is there, and ascends.
IsLineTs(s, n, t) == /\ t \in 0..s.dur /\ Given(s, t) <= 2000 * s.dur * n
                     /\ t = s.dur \/ Given(s, t + 1) > 2000 * s.dur * n

\* The moment of a charge of a line: the last one at which the line has not given more.
LEMMA LineTsIs ==
    ASSUME NEW s \in StepOf, NEW n \in Nat
    PROVE  IsLineTs(s, n, LineTs(s, n))
<1> DEFINE d == s.dur
           most == 2000 * d * n
           moments == {t \in 0..d : Given(s, t) <= most}
<1>1. d \in Nat
  BY DEF StepOf
<1>2. most \in Nat
  <2> HIDE DEF d
  <2> QED BY <1>1
<1>3. 0 \in moments
  <2>1. Given(s, 0) = 0
    <3>1. s.from \in Nat /\ s.to \in Nat
      BY DEF StepOf
    <3> QED BY <1>1, <3>1 DEF Given
  <2> HIDE DEF most
  <2> QED BY <1>1, <1>2, <2>1
<1>4. moments \subseteq 0..d /\ moments # {}
  BY <1>3
<1>5. PICK t \in moments : \A y \in moments : t >= y
  <2> HIDE DEF moments
  <2> QED BY <1>1, <1>4, GreatestExists
<1>6. t \in 0..d /\ Given(s, t) <= most
  BY <1>5
<1>7. ASSUME t # d PROVE Given(s, t + 1) > most
  <2>1. t + 1 \in 0..d /\ ~(t >= t + 1)
    BY <1>1, <1>6, <1>7
  <2>2. t + 1 \notin moments
    BY <1>5, <2>1
  <2>3. ~(Given(s, t + 1) <= most)
    BY <2>1, <2>2
  <2>4. Given(s, t + 1) \in Nat
    <3>1. t + 1 \in (t + 1)..d
      BY <2>1
    <3> QED BY <2>1, <3>1, GivenAscends
  <2> HIDE DEF most
  <2> QED BY <1>2, <2>3, <2>4
<1>8. \E u \in 0..s.dur : Given(s, u) <= 2000 * s.dur * n /\ (u = s.dur \/ Given(s, u + 1) > 2000 * s.dur * n)
  BY <1>6, <1>7
<1> QED BY <1>8 DEF LineTs, IsLineTs

\* The moments of the charges of a line ascend.
LEMMA LineTsAscends ==
    ASSUME NEW s \in StepOf, NEW n \in Nat, NEW m \in Nat, n <= m
    PROVE  LineTs(s, n) <= LineTs(s, m)
<1> DEFINE d == s.dur
           t == LineTs(s, n)
           u == LineTs(s, m)
           a == 2000 * d * n
           b == 2000 * d * m
<1>1. /\ t \in 0..d /\ Given(s, t) <= a
      /\ u \in 0..d /\ (u = d \/ Given(s, u + 1) > b)
  BY LineTsIs DEF IsLineTs
<1>2. d \in Nat
  BY DEF StepOf
<1>3. a \in Nat /\ b \in Nat /\ a <= b
  <2> HIDE DEF d
  <2> QED BY <1>2
<1> HIDE DEF d, t, u, a, b
<1> SUFFICES ASSUME t > u PROVE FALSE
  BY <1>1, <1>2 DEF t, u
<1>4. u + 1 \in 0..d /\ t \in (u + 1)..d /\ u # d
  BY <1>1, <1>2
<1>5. Given(s, u + 1) \in Nat /\ Given(s, t) \in Nat /\ Given(s, u + 1) <= Given(s, t)
  BY <1>4, GivenAscends DEF d
<1> QED BY <1>1, <1>3, <1>4, <1>5

\* Before the last missile of a line the line is not over.
LEMMA LineTsBelow ==
    ASSUME NEW s \in StepOf, s.dur # 0, NEW n \in Nat, (n + 1) * 2000 <= (s.from + s.to) * s.dur
    PROVE  LineTs(s, n) < s.dur
<1> DEFINE f == s.from
           t == s.to
           d == s.dur
<1>1. f \in Nat /\ t \in Nat /\ d \in Nat /\ d # 0 /\ (n + 1) * 2000 <= (f + t) * d
  BY DEF StepOf
<1>2. LineTs(s, n) \in 0..d /\ Given(s, LineTs(s, n)) <= 2000 * d * n
  BY LineTsIs DEF IsLineTs
<1>3. Given(s, d) = 2 * f * d * d + (t - f) * d * d
  BY DEF Given
<1> HIDE DEF f, t, d
<1>4. 2 * f * d * d + (t - f) * d * d = ((f + t) * d) * d
  BY <1>1
<1>5. 2000 * d * n = (n * 2000) * d
  BY <1>1
<1>6. (n * 2000) * d < ((f + t) * d) * d
  <2> DEFINE x == n * 2000
             y == (f + t) * d
  <2>1. x \in Nat /\ y \in Nat /\ x < y
    BY <1>1
  <2> HIDE DEF x, y
  <2>2. x * d < y * d
    BY <1>1, <2>1
  <2> QED BY <2>2 DEF x, y
<1>7. LineTs(s, n) # d
  BY <1>1, <1>2, <1>3, <1>4, <1>5, <1>6
<1> QED BY <1>1, <1>2, <1>7 DEF d

\* Equal neighbours are joined.
LEMMA GroupedType ==
    ASSUME NEW rates \in Seq(Int)
    PROVE  Grouped(rates) \in Seq(Int \X Int)
<1> DEFINE V == Seq(Int \X Int)
<1>1. ASSUME NEW v \in V, NEW r \in Int PROVE OneRate(v, r) \in V
  <2>1. CASE v # << >> /\ Last(v)[1] = r
    <3>1. Len(v) \in 1..Len(v) /\ Len(v) \in Nat /\ DOMAIN v = 1..Len(v) /\ \A i \in 1..Len(v) : v[i] \in Int \X Int
      BY <2>1, LenProperties, EmptySeq
    <3> DEFINE w == [v EXCEPT ![Len(v)][2] = @ + 1]
    <3>2. \A i \in 1..Len(v) : w[i] \in Int \X Int
      BY <3>1
    <3>3. w \in [1..Len(v) -> Int \X Int]
      BY <3>1, <3>2
    <3>4. w \in V
      <4> DEFINE m == Len(v)
      <4>1. m \in Nat /\ w \in [1..m -> Int \X Int]
        BY <3>1, <3>3
      <4> HIDE DEF w, m
      <4> QED BY ONLY <4>1
    <3> QED BY <2>1, <3>4 DEF OneRate
  <2>2. CASE ~(v # << >> /\ Last(v)[1] = r)
    <3>1. <<r, 1>> \in Int \X Int
      OBVIOUS
    <3>2. Append(v, <<r, 1>>) \in V
      BY <3>1, AppendProperties
    <3> QED BY <2>2, <3>2 DEF OneRate
  <2> QED BY <2>1, <2>2
<1>2. << >> \in V
  OBVIOUS
<1>3. PICK f : Groups(f, rates)
  BY <1>1, <1>2, GroupFolds
<1>4. Len(rates) \in 0..Len(rates)
  BY LenProperties
<1> QED BY <1>3, <1>4 DEF Groups

\* A line gives its load, less at most one missile, in its time.
LEMMA LineIs ==
    ASSUME NEW s \in StepOf
    PROVE  /\ Sound(Line(s))
           /\ ~Line(s).fails => Gives(Line(s), ((s.from + s.to) * s.dur) \div 2, s.dur)
<1> DEFINE p == Line(s)
<1>1. s.from \in Nat /\ s.to \in Nat /\ s.dur \in Nat
  BY DEF StepOf
<1>2. CASE s.dur = 0
  <2>1. p = Failed
    BY <1>2 DEF Line
  <2> QED BY <2>1, FailedIs
<1>3. CASE s.dur # 0
  <2> DEFINE load == (s.from + s.to) * s.dur
             n == load \div 2000
             times == [i \in 1..n |-> LineTs(s, i - 1)]
             rates == [t \in 1..(s.dur \div 1000) + 1 |-> RpsAt(s, t - 1)]
             seconds == Grouped(rates)
             dur == s.dur
             result == Steps(times, dur, seconds)
  <2>1. p = result
    BY <1>3 DEF Line
  <2> HIDE DEF p
  <2>2. load \in Nat
    BY <1>1
  <2>3. n \in Nat /\ 2000 * n <= load /\ load < 2000 * n + 2000
    <3> HIDE DEF load
    <3> QED BY <2>2
  <2>4. load \div 2 \in Nat /\ load \div 2 - 1000 * n \in 0..1000
    <3>1. load \div 2 \in Nat /\ (load \div 2) * 2 <= load /\ load < (load \div 2) * 2 + 2
      <4> HIDE DEF load
      <4> QED BY <2>2, RoundedDown
    <3> DEFINE half == load \div 2
    <3> HIDE DEF half, load, n
    <3>2. half \in Nat /\ half * 2 <= load /\ load < half * 2 + 2
      BY <3>1 DEF half
    <3>3. half - 1000 * n \in 0..1000
      BY <2>2, <2>3, <3>2
    <3> QED BY <3>2, <3>3 DEF half
  <2>5. seconds \in Seq(Int \X Int)
    <3> DEFINE m == (s.dur \div 1000) + 1
    <3>1. m \in Nat
      BY <1>1
    <3>2. \A t \in 1..m : RpsAt(s, t - 1) \in Int
      <4> SUFFICES ASSUME NEW t \in 1..m PROVE RpsAt(s, t - 1) \in Int
        OBVIOUS
      <4> DEFINE a == 2 * (s.from * s.dur + (s.to - s.from) * (t - 1) * 1000) + s.dur
                 d == 2 * s.dur
      <4>1. a \in Int /\ d \in Nat \ {0}
        BY <1>1, <1>3, <3>1
      <4>2. RpsAt(s, t - 1) = a \div d
        BY DEF RpsAt
      <4> HIDE DEF a, d
      <4> QED BY <4>1, <4>2
    <3>3. rates \in [1..m -> Int]
      BY <3>2
    <3> HIDE DEF rates, m
    <3>4. rates \in Seq(Int)
      BY <3>1, <3>3
    <3> QED BY <3>4, GroupedType
  <2> HIDE DEF load, n, seconds
  <2>6. ASSUME NEW i \in 1..n
        PROVE  i - 1 \in Nat /\ LineTs(s, i - 1) \in Nat /\ LineTs(s, i - 1) < s.dur
    <3> DEFINE k == i - 1
    <3>1. k \in Nat /\ (k + 1) * 2000 <= load
      BY <2>2, <2>3
    <3> HIDE DEF k
    <3>2. LineTs(s, k) \in 0..s.dur /\ LineTs(s, k) < s.dur
      BY <1>3, <3>1, LineTsIs, LineTsBelow DEF IsLineTs, load
    <3> QED BY <1>1, <3>1, <3>2 DEF k
  <2>7. \A i, j \in 1..n : i <= j => LineTs(s, i - 1) <= LineTs(s, j - 1)
    <3> SUFFICES ASSUME NEW i \in 1..n, NEW j \in 1..n, i <= j PROVE LineTs(s, i - 1) <= LineTs(s, j - 1)
      OBVIOUS
    <3>1. i - 1 \in Nat /\ j - 1 \in Nat /\ i - 1 <= j - 1
      BY <2>3
    <3> QED BY <3>1, LineTsAscends
  <2>8. times \in [1..n -> Nat] /\ \A i \in 1..n : times[i] = LineTs(s, i - 1)
    BY <2>6
  <2> HIDE DEF times, dur
  <2>9. times \in Seq(Nat) /\ Len(times) = n /\ dur \in Nat
    BY <1>1, <2>3, <2>8 DEF dur
  <2>10. /\ p \in PlanType /\ ~p.fails /\ ~p.forever /\ p.instances = 0
         /\ p.times = times /\ p.dur = dur /\ p.len = Len(times)
    BY <2>1, <2>5, <2>9, StepsIs
  <2>11. Ascends(p.times) /\ \A i \in 1..Len(p.times) : p.times[i] < p.dur
    BY <2>6, <2>7, <2>8, <2>9, <2>10 DEF Ascends, dur
  <2>12. Sound(p)
    BY <2>10, <2>11 DEF Sound
  <2>13. load \div 2 \in Nat /\ load \div 2 - 1000 * Len(p.times) \in 0..1000 /\ p.dur = s.dur /\ ~p.fails
    <3>1. Len(p.times) = n /\ p.dur = s.dur /\ ~p.fails
      BY <2>9, <2>10 DEF dur
    <3> QED BY ONLY <2>4, <3>1
  <2>14. Gives(p, load \div 2, s.dur)
    BY <2>12, <2>13 DEF Gives
  <2> QED BY <2>12, <2>14 DEF p, load
<1> QED BY <1>2, <1>3

\* The smaller and the larger of two rates.
LEMMA EndsOf ==
    ASSUME NEW a \in Nat, NEW b \in Nat
    PROVE  /\ Min({a, b}) = IF a <= b THEN a ELSE b
           /\ Max({a, b}) = IF a <= b THEN b ELSE a
<1> DEFINE P == {a, b}
<1>1. Min(P) \in P /\ \A y \in P : Min(P) <= y
  <2>1. \E x \in P : \A y \in P : x <= y
    OBVIOUS
  <2> HIDE DEF P
  <2> QED BY <2>1 DEF Min
<1>2. Max(P) \in P /\ \A y \in P : Max(P) >= y
  <2>1. \E x \in P : \A y \in P : x >= y
    OBVIOUS
  <2> HIDE DEF P
  <2> QED BY <2>1 DEF Max
<1> QED BY <1>1, <1>2

\* The rates of a stairway are those that the code goes through, each once.
RatesOnce(s, q) ==
    /\ q \in Seq(Nat)
    /\ Rates(s) = {q[i] : i \in 1..Len(q)}
    /\ \A i, j \in 1..Len(q) : q[i] = q[j] => i = j

\* How far a rate is from the first one.
Far(s, q) == IF q < s.from THEN s.from - q ELSE q - s.from

\* The rate that the code has at its ith step.
Toward(s, i) == s.from + (i - 1) * (IF s.to < s.from THEN -s.by ELSE s.by)

\* What can be divided is a multiple.
LEMMA Multiples ==
    ASSUME NEW d \in Nat \ {0}, NEW a \in Nat
    PROVE  a % d = 0 <=> \E k \in Nat : a = k * d
<1>1. ASSUME NEW k \in Nat, a = k * d PROVE a % d = 0
  BY <1>1
<1>2. ASSUME a % d = 0 PROVE \E k \in Nat : a = k * d
  BY <1>2
<1> QED BY <1>1, <1>2

\* Multiples are in the order of their factors.
LEMMA MultipleIs ==
    ASSUME NEW d \in Nat \ {0}, NEW k \in Nat, NEW l \in Nat
    PROVE  /\ k * d \in Nat /\ (k <= l <=> k * d <= l * d) /\ (k = l <=> k * d = l * d)
           /\ (l * d) \div d = l
<1>1. k * d \in Nat /\ (k <= l <=> k * d <= l * d)
  OBVIOUS
<1>2. (k = l <=> k * d = l * d)
  OBVIOUS
<1>3. (l * d) \div d = l
  OBVIOUS
<1> QED BY <1>1, <1>2, <1>3

\* The rates of the code are at multiples of the increment, between the ends.
LEMMA TowardIs ==
    ASSUME NEW s \in StepOf, s.by # 0, NEW i \in Nat \ {0}, (i - 1) * s.by <= Far(s, s.to)
    PROVE  /\ Toward(s, i) \in Nat /\ Far(s, Toward(s, i)) = (i - 1) * s.by
           /\ Toward(s, i) \in Min({s.from, s.to})..Max({s.from, s.to})
<1> DEFINE a == (i - 1) * s.by
<1>1. s.from \in Nat /\ s.to \in Nat /\ s.by \in Nat \ {0}
  BY DEF StepOf
<1>2. a \in Nat
  BY <1>1
<1>3. Toward(s, i) = IF s.to < s.from THEN s.from - a ELSE s.from + a
  BY <1>1 DEF Toward
<1>4. a <= Far(s, s.to)
  OBVIOUS
<1>5. /\ Min({s.from, s.to}) = IF s.from <= s.to THEN s.from ELSE s.to
      /\ Max({s.from, s.to}) = IF s.from <= s.to THEN s.to ELSE s.from
  BY <1>1, EndsOf
<1> HIDE DEF a
<1>6. Toward(s, i) \in Nat /\ Far(s, Toward(s, i)) = a
  BY <1>1, <1>2, <1>3, <1>4 DEF Far
<1>7. Toward(s, i) \in Min({s.from, s.to})..Max({s.from, s.to})
  BY <1>1, <1>2, <1>3, <1>4, <1>5 DEF Far
<1> QED BY <1>6, <1>7 DEF a

\* A rate between the ends is as far from the first one as it tells.
LEMMA FarIs ==
    ASSUME NEW s \in StepOf, NEW q \in Nat, q \in Min({s.from, s.to})..Max({s.from, s.to})
    PROVE  /\ Far(s, q) \in Nat /\ Far(s, q) <= Far(s, s.to)
           /\ q = IF s.to < s.from THEN s.from - Far(s, q) ELSE s.from + Far(s, q)
<1>1. s.from \in Nat /\ s.to \in Nat
  BY DEF StepOf
<1>2. /\ Min({s.from, s.to}) = IF s.from <= s.to THEN s.from ELSE s.to
      /\ Max({s.from, s.to}) = IF s.from <= s.to THEN s.to ELSE s.from
  BY <1>1, EndsOf
<1> QED BY <1>1, <1>2 DEF Far

\* The equal steps that fit between the ends, the rates they have, and all rates.
Climb(s) == Far(s, s.to) \div s.by
Up(s) == [i \in 1..Climb(s) + 1 |-> Toward(s, i)]
GoneThrough(s) == IF Toward(s, Climb(s) + 1) # s.to THEN Append(Up(s), s.to) ELSE Up(s)

\* No more equal steps fit.
LEMMA ClimbIs ==
    ASSUME NEW s \in StepOf, s.by # 0
    PROVE  /\ s.by \in Nat \ {0} /\ Climb(s) \in Nat /\ Far(s, s.to) \in Nat
           /\ \A k \in Nat : k * s.by <= Far(s, s.to) <=> k <= Climb(s)
           /\ \A k \in Nat : k * s.by = Far(s, s.to) => k = Climb(s)
<1> DEFINE d == s.by
           a == Far(s, s.to)
           n == a \div d
<1>1. d \in Nat \ {0} /\ a \in Nat
  BY DEF StepOf, Far
<1> HIDE DEF d, a
<1>2. n \in Nat /\ n * d <= a /\ a < n * d + d
  BY <1>1, RoundedDown
<1> HIDE DEF n
<1>3. ASSUME NEW k \in Nat PROVE k * d <= a <=> k <= n
  <2>1. CASE k <= n
    <3>1. k * d <= n * d
      BY <1>1, <1>2, <2>1, MultipleIs
    <3> QED BY <1>1, <1>2, <2>1, <3>1
  <2>2. CASE n + 1 <= k
    <3>1. (n + 1) * d <= k * d /\ (n + 1) * d = n * d + d
      BY <1>1, <1>2, <2>2, MultipleIs
    <3>2. k * d \in Nat /\ n * d \in Nat
      BY <1>1, <1>2
    <3> QED BY <1>1, <1>2, <2>2, <3>1, <3>2
  <2> QED BY <1>2, <2>1, <2>2
<1>4. ASSUME NEW k \in Nat, k * d = a PROVE k = n
  BY <1>1, <1>4, MultipleIs DEF n
<1> QED BY <1>1, <1>2, <1>3, <1>4 DEF Climb, n, d, a

\* The rates of the equal steps are those at multiples of the increment, each once.
LEMMA UpIs ==
    ASSUME NEW s \in StepOf, s.by # 0
    PROVE  /\ Up(s) \in Seq(Nat) /\ Len(Up(s)) = Climb(s) + 1
           /\ \A i \in 1..Climb(s) + 1 : /\ Up(s)[i] = Toward(s, i) /\ Toward(s, i) \in Rates(s)
                                         /\ Far(s, Toward(s, i)) = (i - 1) * s.by
<1>1. /\ s.by \in Nat \ {0} /\ Climb(s) \in Nat /\ \A k \in Nat : k * s.by <= Far(s, s.to) <=> k <= Climb(s)
  BY ClimbIs
<1> DEFINE n == Climb(s) + 1
<1>2. ASSUME NEW i \in 1..n
      PROVE  Toward(s, i) \in Nat /\ Toward(s, i) \in Rates(s) /\ Far(s, Toward(s, i)) = (i - 1) * s.by
  <2>1. i \in Nat \ {0} /\ i - 1 \in Nat /\ (i - 1) * s.by <= Far(s, s.to)
    <3> DEFINE k == i - 1
    <3>1. k \in Nat /\ k <= Climb(s) /\ i \in Nat \ {0}
      BY <1>1
    <3> HIDE DEF k
    <3>2. k * s.by <= Far(s, s.to)
      BY <1>1, <3>1
    <3> QED BY <3>1, <3>2 DEF k
  <2>2. /\ Toward(s, i) \in Nat /\ Far(s, Toward(s, i)) = (i - 1) * s.by
        /\ Toward(s, i) \in Min({s.from, s.to})..Max({s.from, s.to})
    BY <2>1, TowardIs
  <2>3. Far(s, Toward(s, i)) % s.by = 0
    <3> DEFINE a == Far(s, Toward(s, i))
    <3>1. a \in Nat /\ \E k \in Nat : a = k * s.by
      BY <1>1, <2>1, <2>2
    <3> HIDE DEF a
    <3>2. a % s.by = 0
      BY <1>1, <3>1, Multiples
    <3> QED BY <3>2 DEF a
  <2>4. Toward(s, i) \in Rates(s)
    BY <2>2, <2>3 DEF Rates, Far
  <2> QED BY <2>2, <2>4
<1>3. Up(s) \in [1..n -> Nat] /\ n \in Nat
  BY <1>1, <1>2 DEF Up
<1>4. Up(s) \in Seq(Nat) /\ Len(Up(s)) = n
  <2> HIDE DEF n
  <2> QED BY <1>3
<1> QED BY <1>2, <1>4 DEF Up

\* The rates of the code are those of the reference, the end only once.
LEMMA StairRates ==
    ASSUME NEW s \in StepOf, s.by # 0
    PROVE  RatesOnce(s, GoneThrough(s))
<1> DEFINE n == Climb(s)
           q == GoneThrough(s)
<1>1. s.from \in Nat /\ s.to \in Nat
  BY DEF StepOf
<1>2. /\ s.by \in Nat \ {0} /\ n \in Nat /\ Far(s, s.to) \in Nat
      /\ \A k \in Nat : k * s.by <= Far(s, s.to) <=> k <= n
      /\ \A k \in Nat : k * s.by = Far(s, s.to) => k = n
  BY ClimbIs
<1>3. /\ Up(s) \in Seq(Nat) /\ Len(Up(s)) = n + 1
      /\ \A i \in 1..n + 1 : /\ Up(s)[i] = Toward(s, i) /\ Toward(s, i) \in Rates(s)
                             /\ Far(s, Toward(s, i)) = (i - 1) * s.by
  BY UpIs
<1> HIDE DEF n
<1>4. ASSUME NEW i \in 1..n + 1, NEW j \in 1..n + 1, Toward(s, i) = Toward(s, j) PROVE i = j
  <2> DEFINE k == i - 1
             l == j - 1
  <2>1. k \in Nat /\ l \in Nat /\ k * s.by = l * s.by
    BY <1>2, <1>3, <1>4
  <2> HIDE DEF k, l
  <2>2. k = l
    BY <1>2, <2>1, MultipleIs
  <2> QED BY <1>2, <2>2 DEF k, l
<1>5. ASSUME NEW r \in Rates(s), r # s.to PROVE \E i \in 1..n + 1 : r = Toward(s, i)
  <2>1. r \in Min({s.from, s.to})..Max({s.from, s.to}) /\ Far(s, r) % s.by = 0
    BY <1>5 DEF Rates, Far
  <2>2. r \in Nat
    BY <1>1, <2>1, EndsOf
  <2>3. /\ Far(s, r) \in Nat /\ Far(s, r) <= Far(s, s.to)
        /\ r = IF s.to < s.from THEN s.from - Far(s, r) ELSE s.from + Far(s, r)
    BY <2>1, <2>2, FarIs
  <2>4. PICK k \in Nat : Far(s, r) = k * s.by
    <3> DEFINE a == Far(s, r)
    <3>1. a \in Nat /\ a % s.by = 0
      BY <2>1, <2>3
    <3> HIDE DEF a
    <3>2. \E k \in Nat : a = k * s.by
      BY <1>2, <3>1, Multiples
    <3> QED BY <3>2 DEF a
  <2>5. k <= n
    BY <1>2, <2>3, <2>4
  <2>6. k + 1 \in 1..n + 1 /\ r = Toward(s, k + 1)
    <3>1. (k + 1) - 1 = k /\ k + 1 \in 1..n + 1
      BY <1>2, <2>5
    <3>2. k * (-s.by) = -(k * s.by)
      BY <1>2
    <3> DEFINE a == k * s.by
    <3>3. a \in Nat
      BY <1>2
    <3>4. Toward(s, k + 1) = IF s.to < s.from THEN s.from + (-a) ELSE s.from + a
      BY <3>1, <3>2 DEF Toward
    <3>5. Far(s, r) = a
      BY <2>4
    <3> HIDE DEF a
    <3> QED BY <1>1, <2>3, <3>1, <3>3, <3>4, <3>5
  <2> QED BY <2>6
<1>6. s.to \in Rates(s)
  BY DEF Rates
<1>7. CASE Toward(s, n + 1) # s.to
  <2>1. q = Append(Up(s), s.to)
    BY <1>7 DEF GoneThrough, n
  <2> HIDE DEF q
  <2>2. /\ q \in Seq(Nat) /\ Len(q) = n + 2 /\ q[n + 2] = s.to
        /\ \A i \in 1..n + 1 : q[i] = Toward(s, i)
    <3>1. /\ q \in Seq(Nat) /\ Len(q) = Len(Up(s)) + 1 /\ q[Len(Up(s)) + 1] = s.to
          /\ \A i \in 1..Len(Up(s)) : q[i] = Up(s)[i]
      BY <1>1, <1>3, <2>1, AppendProperties
    <3>2. Len(Up(s)) + 1 = n + 2
      BY <1>2, <1>3
    <3> QED BY <1>3, <3>1, <3>2
  <2>3. ASSUME NEW i \in 1..n + 1 PROVE Toward(s, i) # s.to
    <3> SUFFICES ASSUME Toward(s, i) = s.to PROVE FALSE
      OBVIOUS
    <3> DEFINE k == i - 1
    <3>1. k \in Nat
      BY <1>2
    <3>2. Far(s, Toward(s, i)) = (i - 1) * s.by
      BY <1>3
    <3>3. k * s.by = Far(s, s.to)
      BY <3>2
    <3> HIDE DEF k
    <3>4. k = n
      BY <1>2, <3>1, <3>3
    <3>5. i = n + 1
      BY <1>2, <3>4 DEF k
    <3> QED BY <1>7, <3>5
  <2>4. \A i \in 1..n + 2 : i \in 1..n + 1 \/ i = n + 2
    BY <1>2
  <2>5. n + 2 \in 1..n + 2 /\ \A i \in 1..n + 1 : i \in 1..n + 2
    BY <1>2
  <2>6. Rates(s) = {q[i] : i \in 1..Len(q)}
    <3>1. ASSUME NEW r \in Rates(s) PROVE \E i \in 1..n + 2 : r = q[i]
      <4>1. CASE r = s.to
        BY <2>2, <2>5, <4>1
      <4>2. CASE r # s.to
        BY <1>5, <2>2, <2>5, <4>2
      <4> QED BY <4>1, <4>2
    <3>2. ASSUME NEW i \in 1..n + 2 PROVE q[i] \in Rates(s)
      BY <1>3, <1>6, <2>2, <2>4
    <3> QED BY <2>2, <3>1, <3>2
  <2>7. ASSUME NEW i \in 1..n + 2, NEW j \in 1..n + 2, q[i] = q[j] PROVE i = j
    BY <1>4, <2>2, <2>3, <2>4, <2>7
  <2> QED BY <2>2, <2>6, <2>7 DEF RatesOnce, q
<1>8. CASE Toward(s, n + 1) = s.to
  <2>1. q = Up(s)
    BY <1>8 DEF GoneThrough, n
  <2> HIDE DEF q
  <2>2. Rates(s) = {q[i] : i \in 1..Len(q)}
    <3>1. ASSUME NEW r \in Rates(s) PROVE \E i \in 1..n + 1 : r = q[i]
      <4>1. CASE r = s.to
        <5>1. n + 1 \in 1..n + 1
          BY <1>2
        <5> QED BY <1>3, <1>8, <2>1, <4>1, <5>1
      <4>2. CASE r # s.to
        BY <1>3, <1>5, <2>1, <4>2
      <4> QED BY <4>1, <4>2
    <3>2. ASSUME NEW i \in 1..n + 1 PROVE q[i] \in Rates(s)
      BY <1>3, <2>1
    <3> QED BY <1>3, <2>1, <3>1, <3>2
  <2>3. \A i, j \in 1..Len(q) : q[i] = q[j] => i = j
    BY <1>3, <1>4, <2>1
  <2> QED BY <1>3, <2>1, <2>2, <2>3 DEF RatesOnce, q
<1> QED BY <1>7, <1>8

\* A stairway is its rates, one after the other.
LEMMA StairwayIs ==
    ASSUME NEW s \in StepOf, s.by # 0
    PROVE  Stairway(s) = Composite([i \in 1..Len(GoneThrough(s)) |-> Const(GoneThrough(s)[i], s.dur)])
<1> DEFINE by == IF s.to < s.from THEN -s.by ELSE s.by
           n == (IF s.to < s.from THEN s.from - s.to ELSE s.to - s.from) \div s.by
           steps == [i \in 1..n + 1 |-> Const(s.from + (i - 1) * by, s.dur)]
           all == IF s.from + n * by # s.to THEN Append(steps, Const(s.to, s.dur)) ELSE steps
           q == GoneThrough(s)
           plans == [i \in 1..Len(q) |-> Const(q[i], s.dur)]
<1>1. Stairway(s) = Composite(all)
  BY Zenon DEF Stairway
<1>2. n = Climb(s)
  BY DEF Climb, Far
<1>3. n \in Nat
  BY <1>2, ClimbIs
<1> HIDE DEF n
<1>4. Toward(s, n + 1) = s.from + n * by
  <2>1. (n + 1) - 1 = n
    BY <1>3
  <2> QED BY <2>1 DEF Toward
<1>5. \A i \in 1..n + 1 : Toward(s, i) = s.from + (i - 1) * by
  BY DEF Toward
<1>6. Up(s) \in Seq(Nat) /\ Len(Up(s)) = n + 1 /\ \A i \in 1..n + 1 : Up(s)[i] = Toward(s, i)
  BY <1>2, UpIs
<1>7. /\ steps = [i \in 1..n + 1 |-> Const(Up(s)[i], s.dur)]
      /\ DOMAIN steps = 1..n + 1
  BY <1>5, <1>6
<1>8. CASE Toward(s, n + 1) = s.to
  <2>1. q = Up(s) /\ all = steps
    BY <1>2, <1>4, <1>8 DEF GoneThrough
  <2> QED BY <1>1, <1>6, <1>7, <2>1
<1>9. CASE Toward(s, n + 1) # s.to
  <2>1. q = Append(Up(s), s.to) /\ all = Append(steps, Const(s.to, s.dur))
    BY <1>2, <1>4, <1>9 DEF GoneThrough
  <2> HIDE DEF q, all
  <2>2. s.to \in Nat
    BY DEF StepOf
  <2>3. Len(q) = n + 2 /\ q[n + 2] = s.to /\ \A i \in 1..n + 1 : q[i] = Toward(s, i)
    <3>1. /\ q \in Seq(Nat) /\ Len(q) = Len(Up(s)) + 1 /\ q[Len(Up(s)) + 1] = s.to
          /\ \A i \in 1..Len(Up(s)) : q[i] = Up(s)[i]
      BY <1>6, <2>1, <2>2, AppendProperties
    <3>2. Len(Up(s)) + 1 = n + 2
      BY <1>3, <1>6
    <3> QED BY <1>6, <3>1, <3>2
  <2> DEFINE last == Const(s.to, s.dur)
             S == {steps[i] : i \in 1..n + 1} \cup {last}
  <2> HIDE DEF steps
  <2>4. steps \in Seq(S) /\ Len(steps) = n + 1 /\ last \in S
    <3>1. steps \in [1..n + 1 -> S] /\ n + 1 \in Nat
      BY <1>3, <1>7
    <3> HIDE DEF S
    <3>2. steps \in Seq(S) /\ Len(steps) = n + 1
      <4> DEFINE m == n + 1
      <4> HIDE DEF m
      <4> QED BY <3>1 DEF m
    <3> QED BY <3>2 DEF S
  <2> HIDE DEF S, last
  <2>5. /\ DOMAIN all = 1..n + 2 /\ all[n + 2] = last
        /\ \A i \in 1..n + 1 : all[i] = steps[i]
    <3>1. /\ all \in Seq(S) /\ Len(all) = Len(steps) + 1 /\ all[Len(steps) + 1] = last
          /\ \A i \in 1..Len(steps) : all[i] = steps[i]
      BY <2>1, <2>4, AppendProperties DEF last
    <3>2. Len(steps) + 1 = n + 2
      BY <1>3, <2>4
    <3> QED BY <2>4, <3>1, <3>2, LenProperties
  <2>6. \A i \in 1..n + 2 : i \in 1..n + 1 \/ i = n + 2
    BY <1>3
  <2>7. all \in [1..n + 2 -> {all[i] : i \in 1..n + 2}]
    <3>1. all \in Seq(S)
      BY <2>1, <2>4, AppendProperties DEF last
    <3> QED BY <2>5, <3>1
  <2>8. \A i \in 1..n + 2 : all[i] = Const(q[i], s.dur)
    BY <1>6, <1>7, <2>3, <2>5, <2>6 DEF last
  <2>9. all = plans
    BY <2>3, <2>7, <2>8
  <2> QED BY <1>1, <2>9 DEF q
<1> QED BY <1>8, <1>9

\* What a step is to give in its time, less at most one missile a rate.
GivesLoad(s, p) ==
    /\ Sound(p)
    /\ StepTime(s) \in Nat /\ StepLoad(s) \in Nat /\ RateCount(s) \in Nat
    /\ p.dur = StepTime(s) /\ StepLoad(s) - 1000 * Len(p.times) \in 0..1000 * RateCount(s)

\* A stairway gives its load, less at most one missile a rate, in its time.
LEMMA StairwayGives ==
    ASSUME NEW s \in StepOf, s.kind = "step", NEW p, p = Stairway(s), ~p.fails
    PROVE  GivesLoad(s, p)
<1>1. s.by # 0
  BY FailedIs DEF Stairway
<1> DEFINE q == GoneThrough(s)
           n == Len(q)
           d == s.dur
           plans == [i \in 1..n |-> Const(q[i], d)]
<1>2. s.from \in Nat /\ s.to \in Nat /\ d \in Nat
  BY DEF StepOf
<1>3. RatesOnce(s, q)
  BY <1>1, StairRates
<1> HIDE DEF q
<1>4. q \in Seq(Nat) /\ n \in Nat /\ \A i \in 1..n : q[i] \in Nat
  BY <1>3, LenProperties DEF RatesOnce
<1>5. p = Composite(plans)
  BY <1>1, StairwayIs DEF q
<1> HIDE DEF n, d
<1>6. ASSUME NEW i \in 1..n PROVE Const(q[i], d) \in PlanType /\ Gives(Const(q[i], d), q[i] * d, d)
  <2>1. Gives(Const(q[i], d), q[i] * d, d)
    BY <1>2, <1>4, ConstIs
  <2> QED BY <2>1 DEF Gives, Sound
<1>7. /\ plans \in Seq(PlanType) /\ Len(plans) = n
      /\ \A i \in 1..n : plans[i] \in PlanType /\ Gives(plans[i], q[i] * d, d)
  <2>1. plans \in [1..n -> PlanType]
    BY <1>6
  <2>2. \A i \in 1..n : plans[i] = Const(q[i], d)
    OBVIOUS
  <2> HIDE DEF plans
  <2>3. \A i \in 1..n : plans[i] \in PlanType /\ Gives(plans[i], q[i] * d, d)
    BY <1>6, <2>2
  <2> QED BY <1>4, <2>1, <2>3
<1> HIDE DEF plans
<1>8. PICK f : Composes(f, plans)
  BY <1>7, NoPlanIs, ThenIs, CompositeFolds
<1>9. Parted(f, plans)
  BY <1>5, <1>7, <1>8, CompositeIs DEF Gives
<1>10. Rates(s) \in SUBSET (0..Max({s.from, s.to}))
  <2>1. Min({s.from, s.to}) \in Nat /\ Max({s.from, s.to}) \in Nat /\ s.to <= Max({s.from, s.to})
    BY <1>2, EndsOf
  <2> QED BY <1>2, <2>1 DEF Rates
<1>11. Sum(q) = SumOver(Rates(s)) /\ Cardinality(Rates(s)) = n
  <2>1. Max({s.from, s.to}) \in Nat
    BY <1>2, EndsOf
  <2> QED BY <1>3, <1>10, <2>1, SumOfMembers DEF RatesOnce, n
<1>12. PICK g : SumsUp(g, q)
  BY <1>4, SumNat
<1> DEFINE Short(k) == /\ f[k].dur = k * d /\ g[k] \in Nat /\ Len(f[k].times) \in Nat
                       /\ g[k] * d - 1000 * Len(f[k].times) \in 0..1000 * k
           T == {k \in Nat : k <= n => Short(k)}
<1>13. 0 \in T
  <2>1. g[0] = 0 /\ f[0].dur = 0 /\ Len(f[0].times) = 0
    BY <1>9, <1>12 DEF Parted, SumsUp
  <2> QED BY <1>2, <2>1
<1>14. ASSUME NEW k \in Nat, k \in T PROVE k + 1 \in T
  <2>1. CASE k + 1 <= n
    <3>1. k \in 0..(n - 1) /\ k + 1 \in 1..n /\ Short(k)
      BY <1>4, <1>14, <2>1
    <3> DEFINE m == Len(plans[k + 1].times)
               l == Len(f[k].times)
               x == q[k + 1]
               y == g[k]
    <3>2. /\ f[k + 1].dur = f[k].dur + d /\ Len(f[k + 1].times) = l + m
          /\ g[k + 1] = y + x
      <4>1. k \in 0..(Len(plans) - 1) /\ plans[k + 1].dur = d
        BY <1>7, <3>1 DEF Gives
      <4>2. f[k + 1].dur = f[k].dur + d /\ Len(f[k + 1].times) = l + m
        BY <1>9, <4>1 DEF Parted
      <4>3. g[k + 1] = y + x
        BY <1>12, <3>1 DEF SumsUp, n
      <4> QED BY <4>2, <4>3
    <3>3. x * d - 1000 * m \in 0..1000 /\ x \in Nat /\ m \in Nat
      <4>1. plans[k + 1] \in PlanType /\ Gives(plans[k + 1], q[k + 1] * d, d)
        BY <1>7, <3>1
      <4>2. m \in Nat
        BY <4>1, TimesType
      <4>3. x \in Nat
        BY <1>4, <3>1
      <4>4. x * d - 1000 * m \in 0..1000
        BY ONLY <4>1 DEF Gives
      <4> HIDE DEF x, m
      <4> QED BY ONLY <4>2, <4>3, <4>4
    <3>4. f[k].dur = k * d /\ y \in Nat /\ l \in Nat /\ y * d - 1000 * l \in 0..1000 * k
      BY <3>1
    <3> HIDE DEF m, l, x, y, Short
    <3>5. (k + 1) * d = k * d + d /\ (y + x) * d = y * d + x * d /\ y * d \in Nat /\ x * d \in Nat /\ 1000 * (k + 1) = 1000 * k + 1000
      BY <1>2, <3>3, <3>4
    <3>6. (y + x) * d - 1000 * (l + m) \in 0..1000 * (k + 1)
      <4> DEFINE v == y * d
                 w == x * d
      <4>1. v \in Nat /\ w \in Nat /\ v - 1000 * l \in 0..1000 * k /\ w - 1000 * m \in 0..1000
        BY <3>3, <3>4, <3>5
      <4> HIDE DEF v, w
      <4>2. (v + w) - 1000 * (l + m) \in 0..1000 * (k + 1)
        BY <3>3, <3>4, <4>1
      <4> QED BY <3>5, <4>2 DEF v, w
    <3>7. Short(k + 1)
      BY <3>2, <3>3, <3>4, <3>5, <3>6 DEF Short
    <3> QED BY <3>7
  <2> QED BY <2>1
<1> HIDE DEF T
<1>15. Short(n)
  <2>1. Nat \subseteq T
    BY <1>13, <1>14, NatSet
  <2> HIDE DEF Short
  <2> QED BY <1>4, <2>1 DEF T
<1>16. f[n] = p /\ g[n] = Sum(q)
  BY <1>5, <1>7, <1>8, <1>12 DEF Composes, SumsUp, n
<1>17. Sound(p)
  <2>1. n \in 0..n
    BY <1>4
  <2> QED BY <1>7, <1>9, <1>16, <2>1 DEF Parted
<1>18. StepTime(s) = d * n /\ StepLoad(s) = d * Sum(q) /\ RateCount(s) = n
  BY <1>11 DEF StepTime, StepLoad, RateCount, SumOver, d
<1>19. p.dur = n * d /\ Sum(q) \in Nat /\ Len(p.times) \in Nat /\ Sum(q) * d - 1000 * Len(p.times) \in 0..1000 * n
  BY <1>15, <1>16
<1> HIDE DEF Short
<1>20. d * n \in Nat /\ d * Sum(q) \in Nat /\ d * n = n * d /\ d * Sum(q) = Sum(q) * d
  BY <1>2, <1>4, <1>19
<1> QED BY <1>4, <1>17, <1>18, <1>19, <1>20 DEF GivesLoad

\* What a step gives, if it is one of rates.
LEMMA ProduceType ==
    ASSUME NEW s \in StepOf
    PROVE  Produce(s) \in PlanType /\ Sound(Produce(s))
<1>1. s.from \in Nat /\ s.to \in Nat /\ s.dur \in Nat
  BY DEF StepOf
<1>2. CASE s.kind = "const"
  <2>1. Produce(s) = Const(s.from, s.dur)
    BY <1>2 DEF Produce
  <2> QED BY <1>1, <2>1, ConstSound
<1>3. CASE s.kind = "line"
  <2>1. Produce(s) = Line(s)
    BY <1>3 DEF Produce
  <2> QED BY <2>1, LineIs DEF Sound
<1>4. CASE s.kind = "step"
  <2>1. Produce(s) = Stairway(s)
    BY <1>4 DEF Produce
  <2>2. CASE s.by = 0
    <3>1. Produce(s) = Failed
      BY <2>1, <2>2 DEF Stairway
    <3> QED BY <3>1, FailedIs
  <2>3. CASE s.by # 0
    <3> DEFINE q == GoneThrough(s)
               n == Len(q)
               plans == [i \in 1..n |-> Const(q[i], s.dur)]
    <3>1. Produce(s) = Composite(plans)
      BY <2>1, <2>3, StairwayIs
    <3>2. q \in Seq(Nat)
      BY <2>3, StairRates DEF RatesOnce
    <3> HIDE DEF q
    <3>3. n \in Nat /\ \A i \in 1..n : q[i] \in Nat
      BY <3>2, LenProperties
    <3> HIDE DEF n
    <3>4. \A i \in 1..n : Const(q[i], s.dur) \in PlanType /\ Sound(Const(q[i], s.dur))
      BY <1>1, <3>3, ConstSound
    <3>5. plans \in [1..n -> PlanType] /\ \A i \in 1..n : Sound(plans[i])
      BY <3>4
    <3> HIDE DEF plans
    <3>6. plans \in Seq(PlanType) /\ Len(plans) = n
      BY <3>3, <3>5
    <3>7. PICK f : Composes(f, plans)
      BY <3>6, NoPlanIs, ThenIs, CompositeFolds
    <3>8. Composite(plans) \in PlanType
      <4>1. n \in 0..n
        BY <3>3
      <4> QED BY <3>6, <3>7, <4>1 DEF Composes
    <3>9. CASE Composite(plans).fails
      BY <3>1, <3>8, <3>9 DEF Sound
    <3>10. CASE ~Composite(plans).fails
      <4>1. Parted(f, plans)
        BY <3>5, <3>6, <3>7, <3>10, CompositeIs
      <4>2. n \in 0..n
        BY <3>3
      <4> QED BY <3>1, <3>6, <3>7, <3>8, <4>1, <4>2 DEF Parted, Composes
    <3> QED BY <3>9, <3>10
  <2> QED BY <2>2, <2>3
<1>5. CASE s.kind \notin {"const", "line", "step"}
  <2>1. Produce(s) = Failed
    BY <1>5 DEF Produce
  <2> QED BY <2>1, FailedIs
<1> QED BY <1>2, <1>3, <1>4, <1>5

\* And so does every step that does not fail.
LEMMA ProduceGives ==
    ASSUME NEW s \in StepOf, ~Produce(s).fails
    PROVE  GivesLoad(s, Produce(s))
<1> DEFINE p == Produce(s)
<1>1. s.from \in Nat /\ s.to \in Nat /\ s.dur \in Nat
  BY DEF StepOf
<1>2. CASE s.kind = "const"
  <2>1. p = Const(s.from, s.dur)
    BY <1>2 DEF Produce
  <2>2. StepTime(s) = s.dur /\ StepLoad(s) = s.from * s.dur /\ RateCount(s) = 1
    <3>1. s.kind = "const"
      BY <1>2
    <3>2. RateCount(s) = 1
      BY <3>1 DEF RateCount
    <3>3. StepTime(s) = s.dur
      BY <1>1, <3>2 DEF StepTime
    <3>4. StepLoad(s) = s.from * s.dur
      BY ONLY <3>1 DEF StepLoad
    <3> QED BY <3>2, <3>3, <3>4
  <2> HIDE DEF p
  <2>3. Gives(p, StepLoad(s), StepTime(s))
    BY <1>1, <2>1, <2>2, ConstIs
  <2> QED BY <1>1, <2>2, <2>3 DEF Gives, GivesLoad, p
<1>3. CASE s.kind = "line"
  <2>1. p = Line(s)
    BY <1>3 DEF Produce
  <2>2. StepTime(s) = s.dur /\ StepLoad(s) = ((s.from + s.to) * s.dur) \div 2 /\ RateCount(s) = 1
    <3>1. s.kind = "line"
      BY <1>3
    <3>2. RateCount(s) = 1
      BY <3>1 DEF RateCount
    <3>3. StepTime(s) = s.dur
      BY <1>1, <3>2 DEF StepTime
    <3>4. StepLoad(s) = ((s.from + s.to) * s.dur) \div 2
      BY ONLY <3>1 DEF StepLoad
    <3> QED BY <3>2, <3>3, <3>4
  <2> HIDE DEF p
  <2>3. Gives(p, StepLoad(s), StepTime(s))
    BY <2>1, <2>2, LineIs DEF p
  <2>4. StepTime(s) \in Nat /\ RateCount(s) = 1
    BY <1>1, <2>2
  <2> QED BY ONLY <2>3, <2>4 DEF Gives, GivesLoad, p
<1>4. CASE s.kind = "step"
  <2>1. p = Stairway(s)
    BY <1>4 DEF Produce
  <2> QED BY <1>4, <2>1, StairwayGives
<1>5. CASE s.kind \notin {"const", "line", "step"}
  BY <1>5, FailedIs DEF Produce
<1> QED BY <1>2, <1>3, <1>4, <1>5

\* The load, the time and the rates of the first steps.
LEMMA FirstSteps ==
    ASSUME NEW steps \in Seq(StepOf), NEW j \in 0..Len(steps)
    PROVE  /\ LoadOf(SubSeq(steps, 1, j)) = Sum([i \in 1..j |-> StepLoad(steps[i])])
           /\ TimeOf(SubSeq(steps, 1, j)) = Sum([i \in 1..j |-> StepTime(steps[i])])
           /\ RatesOf(SubSeq(steps, 1, j)) = Sum([i \in 1..j |-> RateCount(steps[i])])
<1> DEFINE done == SubSeq(steps, 1, j)
<1>1. Len(steps) \in Nat /\ \A i \in 1..Len(steps) : steps[i] \in StepOf
  BY LenProperties
<1>2. Len(done) = j /\ \A i \in 1..j : done[i] = steps[i]
  <2>1. 1 \in 1..(Len(steps) + 1) /\ j \in (1 - 1)..Len(steps) /\ j - 1 + 1 = j
    BY <1>1
  <2>2. \A i \in 1..Len(steps) : steps[i] \in StepOf
    BY <1>1
  <2> QED BY <1>1, <2>1, SubSeqProperties
<1> HIDE DEF done
<1>3. /\ [i \in 1..Len(done) |-> StepLoad(done[i])] = [i \in 1..j |-> StepLoad(steps[i])]
      /\ [i \in 1..Len(done) |-> StepTime(done[i])] = [i \in 1..j |-> StepTime(steps[i])]
      /\ [i \in 1..Len(done) |-> RateCount(done[i])] = [i \in 1..j |-> RateCount(steps[i])]
  BY <1>2
<1> QED BY <1>3 DEF LoadOf, TimeOf, RatesOf, done

\* The plan of a schedule of rates gives its load.
LEMMA RpsPlanGives ==
    ASSUME NEW steps \in Seq(StepOf), ~RpsPlan(steps).fails
    PROVE  ~RpsPlan(steps).forever /\ PlanIsLoad(RpsPlan(steps), steps)
<1> DEFINE n == Len(steps)
           plans == [i \in 1..n |-> Produce(steps[i])]
           p == RpsPlan(steps)
           loads == [i \in 1..n |-> StepLoad(steps[i])]
           times == [i \in 1..n |-> StepTime(steps[i])]
           counts == [i \in 1..n |-> RateCount(steps[i])]
<1>1. n \in Nat /\ \A i \in 1..n : steps[i] \in StepOf
  BY LenProperties
<1>2. p = Composite(plans)
  <2>1. steps # << >>
    BY FailedIs DEF RpsPlan
  <2> QED BY <2>1 DEF RpsPlan
<1>3. \A i \in 1..n : Produce(steps[i]) \in PlanType /\ Sound(Produce(steps[i]))
  BY <1>1, ProduceType
<1>4. plans \in [1..n -> PlanType] /\ \A i \in 1..n : plans[i] = Produce(steps[i])
  BY <1>3
<1> HIDE DEF p, plans
<1>5. plans \in Seq(PlanType) /\ Len(plans) = n /\ \A i \in 1..n : Sound(plans[i])
  <2> HIDE DEF n
  <2> QED BY <1>1, <1>3, <1>4
<1>6. ~p.fails
  BY DEF p
<1>7. PICK f : Composes(f, plans)
  BY <1>5, NoPlanIs, ThenIs, CompositeFolds
<1>8. Parted(f, plans)
  BY <1>2, <1>5, <1>6, <1>7, CompositeIs
<1> HIDE DEF n
<1>9. f[n] = p /\ Sound(p) /\ n \in 0..n
  BY <1>1, <1>2, <1>5, <1>7, <1>8 DEF Parted, Composes
<1>10. ASSUME NEW i \in 1..n PROVE GivesLoad(steps[i], plans[i])
  <2> DEFINE k == i - 1
  <2>1. k \in 0..(n - 1) /\ k + 1 = i
    BY <1>1
  <2> HIDE DEF k
  <2>2. ~plans[i].fails
    BY <1>5, <1>8, <2>1 DEF Parted
  <2> QED BY <1>1, <1>4, <2>2, ProduceGives
<1>11. loads \in Seq(Nat) /\ times \in Seq(Nat) /\ counts \in Seq(Nat)
  <2>1. \A i \in 1..n : StepTime(steps[i]) \in Nat /\ StepLoad(steps[i]) \in Nat /\ RateCount(steps[i]) \in Nat
    BY <1>10 DEF GivesLoad
  <2> QED BY <1>1, <2>1
<1>12. /\ Len(loads) = n /\ Len(times) = n /\ Len(counts) = n
       /\ \A i \in 1..n : loads[i] = StepLoad(steps[i]) /\ times[i] = StepTime(steps[i]) /\ counts[i] = RateCount(steps[i])
  BY <1>1
<1> HIDE DEF loads, times, counts
<1>13. PICK g : SumsUp(g, loads)
  BY <1>11, SumNat
<1>14. PICK h : SumsUp(h, times)
  BY <1>11, SumNat
<1>15. PICK c : SumsUp(c, counts)
  BY <1>11, SumNat
<1> DEFINE Short(k) == f[k].dur = h[k] /\ g[k] - 1000 * Len(f[k].times) \in 0..1000 * c[k]
           T == {k \in Nat : k <= n => Short(k)}
<1>16. 0 \in T
  <2>1. g[0] = 0 /\ h[0] = 0 /\ c[0] = 0 /\ f[0].dur = 0 /\ Len(f[0].times) = 0
    BY <1>8, <1>13, <1>14, <1>15 DEF Parted, SumsUp
  <2> QED BY <2>1
<1>17. ASSUME NEW k \in 0..n
       PROVE  g[k] \in Nat /\ h[k] \in Nat /\ c[k] \in Nat /\ f[k] \in PlanType /\ Len(f[k].times) \in Nat
  <2>1. f[k] \in PlanType
    BY <1>5, <1>8 DEF Parted, Sound
  <2> QED BY <1>12, <1>13, <1>14, <1>15, <2>1, TimesType DEF SumsUp
<1>18. ASSUME NEW k \in Nat, k \in T PROVE k + 1 \in T
  <2>1. CASE k + 1 <= n
    <3>1. k \in 0..(n - 1) /\ k \in 0..n /\ k + 1 \in 1..n /\ Short(k)
      BY <1>1, <1>18, <2>1
    <3>2. g[k + 1] = g[k] + loads[k + 1] /\ h[k + 1] = h[k] + times[k + 1] /\ c[k + 1] = c[k] + counts[k + 1]
      BY <1>12, <1>13, <1>14, <1>15, <3>1 DEF SumsUp
    <3>3. f[k + 1].dur = f[k].dur + plans[k + 1].dur /\ Len(f[k + 1].times) = Len(f[k].times) + Len(plans[k + 1].times)
      BY <1>5, <1>8, <3>1 DEF Parted
    <3>4. /\ loads[k + 1] \in Nat /\ times[k + 1] \in Nat /\ counts[k + 1] \in Nat /\ plans[k + 1].dur = times[k + 1]
          /\ loads[k + 1] - 1000 * Len(plans[k + 1].times) \in 0..1000 * counts[k + 1]
      <4> DEFINE i == k + 1
      <4>1. i \in 1..n
        BY <3>1
      <4> HIDE DEF i
      <4>2. GivesLoad(steps[i], plans[i])
        BY <1>10, <4>1
      <4>3. loads[i] = StepLoad(steps[i]) /\ times[i] = StepTime(steps[i]) /\ counts[i] = RateCount(steps[i])
        BY <1>12, <4>1
      <4>4. /\ loads[i] \in Nat /\ times[i] \in Nat /\ counts[i] \in Nat /\ plans[i].dur = times[i]
            /\ loads[i] - 1000 * Len(plans[i].times) \in 0..1000 * counts[i]
        BY <4>2, <4>3 DEF GivesLoad
      <4> QED BY <4>4 DEF i
    <3>5. Len(plans[k + 1].times) \in Nat
      <4>1. plans[k + 1] \in PlanType
        BY <1>4, <3>1
      <4> QED BY <4>1, TimesType
    <3>6. Short(k + 1)
      <4>1. g[k] \in Nat /\ h[k] \in Nat /\ c[k] \in Nat /\ Len(f[k].times) \in Nat
        BY <1>17, <3>1
      <4>2. f[k].dur = h[k] /\ g[k] - 1000 * Len(f[k].times) \in 0..1000 * c[k]
        BY <3>1
      <4>3. f[k + 1].dur = h[k + 1]
        BY <3>2, <3>3, <3>4, <4>2
      <4>4. g[k + 1] - 1000 * Len(f[k + 1].times) \in 0..1000 * c[k + 1]
        <5> DEFINE more == loads[k + 1] - 1000 * Len(plans[k + 1].times)
                   was == g[k] - 1000 * Len(f[k].times)
        <5>1. g[k + 1] - 1000 * Len(f[k + 1].times) = was + more
          <6> DEFINE a == g[k]
                     b == loads[k + 1]
                     x == Len(f[k].times)
                     y == Len(plans[k + 1].times)
          <6>1. g[k + 1] = a + b /\ Len(f[k + 1].times) = x + y
            BY <3>2, <3>3
          <6>2. a \in Nat /\ b \in Nat /\ x \in Nat /\ y \in Nat
            BY <3>4, <3>5, <4>1
          <6>3. was + more = (a - 1000 * x) + (b - 1000 * y)
            OBVIOUS
          <6> HIDE DEF a, b, x, y, was, more
          <6>4. (a + b) - 1000 * (x + y) = (a - 1000 * x) + (b - 1000 * y)
            BY ONLY <6>2
          <6>5. g[k + 1] - 1000 * Len(f[k + 1].times) = (a + b) - 1000 * (x + y)
            BY ONLY <6>1
          <6> QED BY ONLY <6>3, <6>4, <6>5
        <5>2. more \in 0..1000 * counts[k + 1] /\ was \in 0..1000 * c[k]
          BY <3>4, <4>2
        <5> HIDE DEF more, was
        <5>3. was + more \in 0..1000 * (c[k] + counts[k + 1])
          <6> DEFINE u == c[k]
                     w == counts[k + 1]
          <6>1. u \in Nat /\ w \in Nat /\ more \in 0..1000 * w /\ was \in 0..1000 * u
            BY <3>4, <4>1, <5>2
          <6> HIDE DEF u, w
          <6>2. was + more \in 0..1000 * (u + w)
            BY ONLY <6>1
          <6> QED BY <6>2 DEF u, w
        <5> QED BY ONLY <3>2, <5>1, <5>3
      <4> QED BY <4>3, <4>4
    <3> QED BY <3>6
  <2> QED BY <2>1
<1> HIDE DEF T
<1>19. \A k \in 0..n : Short(k)
  <2>1. Nat \subseteq T
    BY <1>16, <1>18, NatSet
  <2> HIDE DEF Short
  <2> QED BY <2>1 DEF T
<1>20. ASSUME NEW j \in 0..n
       PROVE  LET done == SubSeq(steps, 1, j) IN LoadOf(done) = g[j] /\ TimeOf(done) = h[j] /\ RatesOf(done) = c[j]
  <2>1. \A i \in 1..j : i \in 1..n
    BY <1>1
  <2>2. /\ [i \in 1..j |-> loads[i]] = [i \in 1..j |-> StepLoad(steps[i])]
        /\ [i \in 1..j |-> times[i]] = [i \in 1..j |-> StepTime(steps[i])]
        /\ [i \in 1..j |-> counts[i]] = [i \in 1..j |-> RateCount(steps[i])]
    BY <1>12, <2>1
  <2>3. /\ Sum([i \in 1..j |-> loads[i]]) = g[j]
        /\ Sum([i \in 1..j |-> times[i]]) = h[j]
        /\ Sum([i \in 1..j |-> counts[i]]) = c[j]
    <3>1. j \in 0..Len(loads) /\ j \in 0..Len(times) /\ j \in 0..Len(counts)
      BY <1>12
    <3>2. Sum([i \in 1..j |-> loads[i]]) = g[j]
      BY ONLY <1>11, <1>13, <3>1, SumOfFirst
    <3>3. Sum([i \in 1..j |-> times[i]]) = h[j]
      BY ONLY <1>11, <1>14, <3>1, SumOfFirst
    <3>4. Sum([i \in 1..j |-> counts[i]]) = c[j]
      BY ONLY <1>11, <1>15, <3>1, SumOfFirst
    <3> QED BY <3>2, <3>3, <3>4
  <2> QED BY <2>2, <2>3, FirstSteps DEF n
<1> DEFINE Before(t) == Cardinality({i \in 1..Len(p.times) : p.times[i] < t})
<1>21. p \in PlanType /\ Len(p.times) \in Nat
  BY <1>9, TimesType DEF Sound
<1>22. ASSUME NEW j \in 0..n PROVE Before(h[j]) = Len(f[j].times)
  <2> DEFINE m == Len(f[j].times)
             size == Len(p.times)
  <2>1. h[j] = f[j].dur
    BY <1>19
  <2>2. \A i \in 1..size : p.times[i] < f[j].dur <=> i <= m
    BY <1>5, <1>8, <1>9 DEF Parted
  <2>3. m \in Nat /\ size \in Nat
    BY <1>17, <1>21
  <2>4. m <= size
    BY <1>5, <1>8, <1>9 DEF Parted
  <2> HIDE DEF m, size
  <2>5. {i \in 1..size : p.times[i] < f[j].dur} = 1..m
    BY <2>2, <2>3, <2>4
  <2>6. Cardinality(1..m) = m
    BY <2>3, FS_Interval
  <2> QED BY <2>1, <2>5, <2>6 DEF m, size
<1>23. TimeOf(steps) = p.dur
  <2>1. n \in 0..n /\ h[n] = p.dur
    BY <1>9, <1>19
  <2>2. h[n] = Sum(times)
    BY <1>12, <1>14 DEF SumsUp
  <2>3. times = [i \in 1..Len(steps) |-> StepTime(steps[i])]
    BY DEF times, n
  <2> QED BY <2>1, <2>2, <2>3 DEF TimeOf
<1> HIDE DEF Before
<1>24. ASSUME NEW j \in 0..n
       PROVE  LoadOf(SubSeq(steps, 1, j)) - 1000 * Before(TimeOf(SubSeq(steps, 1, j))) \in 0..1000 * RatesOf(SubSeq(steps, 1, j))
  <2>1. Before(h[j]) = Len(f[j].times)
    BY <1>22
  <2>2. g[j] - 1000 * Len(f[j].times) \in 0..1000 * c[j]
    BY <1>19
  <2> QED BY <1>20, <2>1, <2>2
<1>25. \A i \in 1..Len(p.times) - 1 : p.times[i] <= p.times[i + 1]
  BY <1>6, <1>9, <1>21 DEF Sound, Ascends
<1>26. ~p.forever /\ p.len = Len(p.times)
  BY <1>6, <1>9 DEF Sound
<1>27. PlanIsLoad(p, steps)
  BY <1>23, <1>24, <1>25, <1>26 DEF PlanIsLoad, Before, n
<1> QED BY <1>26, <1>27 DEF p
-----------------------------------------------------------------------------
(***************************************************************************)
(* Plans of instances                                                      *)
(***************************************************************************)

\* A plan of instances being built: as many moments as instances, in order.
Built(b) ==
    /\ b \in PlanType
    /\ ~b.fails => /\ Len(b.times) = b.instances
                   /\ Ascends(b.times) /\ \A i \in 1..Len(b.times) : b.times[i] <= b.dur

\* n moments in order from the first to the last.
Within(more, n, first, last) ==
    /\ first <= last /\ \A i \in 1..n : first <= more[i] /\ more[i] <= last
    /\ \A i, j \in 1..n : i <= j => more[i] <= more[j]

\* p is b with n more moments, the last one at dur.
IsMore(p, b, more, n, dur) == p = [b EXCEPT !.times = @ \o more, !.instances = @ + n, !.dur = dur]

\* More moments from the end of what was built on leave the plan in order.
LEMMA AddsOn ==
    ASSUME NEW b \in PlanType, ~b.fails, NEW n \in Nat, NEW more \in [1..n -> Nat], NEW dur \in Nat,
           NEW p, IsMore(p, b, more, n, dur)
    PROVE  /\ p \in PlanType /\ ~p.fails /\ p.instances = b.instances + n /\ p.dur = dur
           /\ Built(b) /\ Within(more, n, b.dur, dur) => Built(p)
<1> DEFINE m == Len(b.times)
<1>1. /\ b.times \in Seq(Nat) /\ m \in Nat /\ b.dur \in Nat /\ b.instances \in Nat
      /\ \A i \in 1..m : b.times[i] \in Nat
  BY TimesType
<1>2. /\ b.times \o more \in Seq(Nat) /\ Len(b.times \o more) = m + n
      /\ \A i \in 1..m : (b.times \o more)[i] = b.times[i]
      /\ \A i \in 1..n : (b.times \o more)[m + i] = more[i]
  BY <1>1, JoinIs
<1> DEFINE times == b.times \o more
<1> HIDE DEF times
<1>3. p = [b EXCEPT !.times = times, !.instances = b.instances + n, !.dur = dur]
  BY DEF times, IsMore
<1>4. times \in Seq(Nat) /\ b.instances + n \in Nat
  BY <1>1, <1>2 DEF times
<1>5. p \in PlanType /\ ~p.fails /\ p.instances = b.instances + n /\ p.dur = dur /\ p.times = times
  BY <1>3, <1>4 DEF PlanType
<1>6. Len(times) = m + n /\ (\A i \in 1..m : times[i] = b.times[i]) /\ (\A i \in 1..n : times[m + i] = more[i])
  BY <1>2 DEF times
<1>7. ASSUME Built(b), Within(more, n, b.dur, dur) PROVE Built(p)
  <2>1. m = b.instances /\ Ascends(b.times) /\ \A i \in 1..m : b.times[i] <= b.dur
    BY <1>7 DEF Built
  <2> HIDE DEF m
  <2>2. ASSUME NEW i \in 1..(m + n)
        PROVE  \/ i \in 1..m /\ times[i] = b.times[i] /\ b.times[i] <= b.dur /\ b.times[i] \in Nat
               \/ i - m \in 1..n /\ times[i] = more[i - m] /\ b.dur <= more[i - m] /\ more[i - m] <= dur /\ more[i - m] \in Nat
    <3>1. CASE i \in 1..m
      BY <1>1, <1>6, <2>1, <3>1
    <3>2. CASE i - m \in 1..n /\ i = m + (i - m)
      <4> DEFINE k == i - m
      <4>1. k \in 1..n /\ i = m + k
        BY <3>2
      <4> HIDE DEF k
      <4>2. times[i] = more[k] /\ b.dur <= more[k] /\ more[k] <= dur /\ more[k] \in Nat
        BY <1>6, <1>7, <4>1 DEF Within
      <4> QED BY <4>1, <4>2 DEF k
    <3> QED BY <1>1, <3>1, <3>2, PlaceIs
  <2>3. b.dur <= dur
    BY <1>7 DEF Within
  <2>4. ASSUME NEW i \in 1..(m + n) PROVE times[i] <= dur
    <3>1. CASE i \in 1..m /\ times[i] = b.times[i] /\ b.times[i] <= b.dur /\ b.times[i] \in Nat
      BY <1>1, <2>3, <3>1
    <3>2. CASE times[i] = more[i - m] /\ more[i - m] <= dur
      BY <3>2
    <3> QED BY <2>2, <3>1, <3>2
  <2>5. ASSUME NEW i \in 1..(m + n), NEW j \in 1..(m + n), i <= j PROVE times[i] <= times[j]
    <3> DEFINE k == i - m
               l == j - m
    <3>1. CASE i \in 1..m /\ j \in 1..m
      <4>1. b.times[i] <= b.times[j]
        BY <2>1, <2>5, <3>1 DEF Ascends, m
      <4> QED BY <1>6, <3>1, <4>1
    <3>2. CASE i \in 1..m /\ l \in 1..n
      <4>1. times[i] = b.times[i] /\ b.times[i] <= b.dur /\ b.times[i] \in Nat
        BY <1>1, <1>6, <2>1, <3>2
      <4>2. times[j] = more[l] /\ b.dur <= more[l] /\ more[l] \in Nat
        <5>1. j = m + l
          BY <1>1
        <5> HIDE DEF l
        <5> QED BY <1>6, <1>7, <3>2, <5>1 DEF Within
      <4> HIDE DEF l
      <4> QED BY <1>1, <4>1, <4>2
    <3>3. CASE k \in 1..n /\ l \in 1..n
      <4>1. i = m + k /\ j = m + l /\ k <= l
        BY <1>1, <2>5
      <4> HIDE DEF k, l
      <4>2. more[k] <= more[l]
        BY <1>7, <3>3, <4>1 DEF Within
      <4> QED BY <1>6, <3>3, <4>1, <4>2
    <3>4. ~(j \in 1..m /\ k \in 1..n)
      BY <1>1, <2>5
    <3>5. (i \in 1..m \/ k \in 1..n) /\ (j \in 1..m \/ l \in 1..n)
      BY <1>1, PlaceIs
    <3> QED BY <3>1, <3>2, <3>3, <3>4, <3>5
  <2>6. Ascends(p.times) /\ \A i \in 1..Len(p.times) : p.times[i] <= p.dur
    BY <1>5, <1>6, <2>4, <2>5 DEF Ascends
  <2> QED BY <1>5, <1>6, <2>1, <2>6 DEF Built
<1> QED BY <1>5, <1>7

\* start: that many instances more at the end, unless there would be fewer.
LEMMA StartsIs ==
    ASSUME NEW b \in PlanType, NEW count \in Int
    PROVE  LET p == StartInstances(b, count)
           IN  /\ p \in PlanType /\ (Built(b) => Built(p))
               /\ ~p.fails => ~b.fails /\ p.instances = b.instances + count /\ p.dur = b.dur
<1>1. CASE b.fails \/ count < 0
  BY <1>1, FailedIs DEF StartInstances, Built
<1>2. CASE ~b.fails /\ ~(count < 0)
  <2> DEFINE more == [i \in 1..count |-> b.dur]
             p == StartInstances(b, count)
  <2>1. b.dur \in Nat /\ count \in Nat
    BY <1>2, TimesType
  <2>2. more \in [1..count -> Nat] /\ \A i \in 1..count : more[i] = b.dur
    BY <2>1
  <2> HIDE DEF more
  <2>3. p = [b EXCEPT !.times = @ \o more, !.instances = @ + count]
    BY <1>2 DEF StartInstances, more
  <2> HIDE DEF p
  <2>4. p = [b EXCEPT !.times = @ \o more, !.instances = @ + count, !.dur = b.dur]
    BY <2>3 DEF PlanType
  <2>5. Within(more, count, b.dur, b.dur)
    BY <2>1, <2>2 DEF Within
  <2> DEFINE dur == b.dur
  <2>6. dur \in Nat /\ IsMore(p, b, more, count, dur)
    BY <2>1, <2>4 DEF IsMore
  <2> HIDE DEF dur
  <2>7. /\ p \in PlanType /\ ~p.fails /\ p.instances = b.instances + count /\ p.dur = dur
        /\ Built(b) /\ Within(more, count, b.dur, dur) => Built(p)
    BY ONLY <1>2, <2>1, <2>2, <2>6, AddsOn
  <2> QED BY <1>2, <2>5, <2>7 DEF p, dur
<1>3. b.fails \in BOOLEAN
  BY DEF PlanType
<1> QED BY <1>1, <1>2, <1>3

\* wait: nothing but time.
LEMMA WaitIs ==
    ASSUME NEW b \in PlanType, NEW dur \in Nat
    PROVE  LET p == Wait(b, dur)
           IN  /\ p \in PlanType /\ (Built(b) => Built(p))
               /\ ~p.fails => ~b.fails /\ p.instances = b.instances
<1>1. CASE b.fails
  BY <1>1, FailedIs DEF Wait, Built
<1>2. CASE ~b.fails
  <2> DEFINE p == Wait(b, dur)
  <2>1. b.dur \in Nat /\ \A i \in 1..Len(b.times) : b.times[i] \in Nat
    BY TimesType
  <2>2. p = [b EXCEPT !.dur = @ + dur]
    BY <1>2 DEF Wait
  <2> HIDE DEF p
  <2>3. p \in PlanType /\ ~p.fails /\ p.instances = b.instances /\ p.times = b.times /\ p.dur = b.dur + dur
    BY <1>2, <2>1, <2>2 DEF PlanType
  <2>4. ASSUME Built(b) PROVE Built(p)
    <3>1. Len(b.times) = b.instances /\ Ascends(b.times) /\ \A i \in 1..Len(b.times) : b.times[i] <= b.dur
      BY <1>2, <2>4 DEF Built
    <3>2. \A i \in 1..Len(p.times) : p.times[i] <= p.dur
      BY <2>1, <2>3, <3>1
    <3> QED BY <2>3, <3>1, <3>2 DEF Built
  <2> QED BY <1>2, <2>3, <2>4 DEF p
<1>3. b.fails \in BOOLEAN
  BY DEF PlanType
<1> QED BY <1>1, <1>2, <1>3

\* ramp: that many instances more, spread over the time.
LEMMA RampIs ==
    ASSUME NEW b \in PlanType, NEW count \in Int, NEW dur \in Nat
    PROVE  LET p == Ramp(b, count, dur)
           IN  /\ p \in PlanType /\ (Built(b) => Built(p))
               /\ ~p.fails => ~b.fails /\ p.instances = b.instances + count
<1>1. CASE b.fails \/ count < 0 \/ count = 1
  BY <1>1, FailedIs DEF Ramp, Built
<1>2. CASE ~b.fails /\ ~(count < 0) /\ count # 1
  <2> DEFINE more == [i \in 1..count |-> b.dur + ((i - 1) * dur) \div (count - 1)]
             p == Ramp(b, count, dur)
             last == b.dur + dur
  <2>1. b.dur \in Nat /\ count \in Nat /\ last \in Nat
    BY <1>2, TimesType
  <2>2. ASSUME NEW i \in 1..count
        PROVE  /\ ((i - 1) * dur) \div (count - 1) \in 0..dur
               /\ \A j \in 1..count : i <= j => ((i - 1) * dur) \div (count - 1) <= ((j - 1) * dur) \div (count - 1)
    <3> DEFINE c == count - 1
               a == i - 1
    <3>1. c \in Nat \ {0} /\ a \in Nat /\ a <= c
      BY <1>2, <2>1
    <3> HIDE DEF a, c
    <3>2. a * dur \in Nat /\ c * dur \in Nat /\ a * dur <= c * dur
      BY <3>1, ProductAscends
    <3>3. (a * dur) \div c \in Nat /\ (a * dur) \div c <= dur
      <4> DEFINE x == a * dur
                 y == c * dur
      <4>1. x \in Nat /\ y \in Nat /\ x <= y /\ y \div c = dur
        BY <3>1, <3>2
      <4> HIDE DEF x, y
      <4>2. x \div c \in Nat /\ x \div c <= y \div c
        BY <3>1, <4>1, RoundedAscends, RoundedDown
      <4> QED BY <4>1, <4>2 DEF x
    <3>4. ASSUME NEW j \in 1..count, i <= j PROVE (a * dur) \div c <= ((j - 1) * dur) \div c
      <4> DEFINE k == j - 1
      <4>1. k \in Nat /\ a <= k
        BY <3>4 DEF a
      <4> HIDE DEF k
      <4>2. k * dur \in Nat /\ a * dur <= k * dur
        BY <3>1, <4>1, ProductAscends
      <4> DEFINE x == a * dur
                 y == k * dur
      <4>3. x \in Nat /\ y \in Nat /\ x <= y
        BY <3>2, <4>2
      <4> HIDE DEF x, y
      <4>4. x \div c <= y \div c
        BY <3>1, <4>3, RoundedAscends
      <4> QED BY <4>4 DEF x, y, k
    <3> QED BY <3>3, <3>4 DEF a, c
  <2> DEFINE Spread(i) == ((i - 1) * dur) \div (count - 1)
  <2>3. /\ \A i \in 1..count : Spread(i) \in 0..dur /\ more[i] = b.dur + Spread(i)
        /\ \A i, j \in 1..count : i <= j => Spread(i) <= Spread(j)
    BY <2>2
  <2>4. IsMore(p, b, more, count, last)
    BY <1>2 DEF Ramp, IsMore
  <2>5. more = [i \in 1..count |-> b.dur + Spread(i)]
    OBVIOUS
  <2> HIDE DEF more, Spread, last, p
  <2>6. more \in [1..count -> Nat]
    BY <2>1, <2>3, <2>5
  <2>7. Within(more, count, b.dur, last)
    BY <2>1, <2>3 DEF Within, last
  <2>8. /\ p \in PlanType /\ ~p.fails /\ p.instances = b.instances + count
        /\ Built(b) /\ Within(more, count, b.dur, last) => Built(p)
    BY ONLY <1>2, <2>1, <2>4, <2>6, AddsOn
  <2> QED BY <1>2, <2>7, <2>8 DEF p
<1>3. b.fails \in BOOLEAN
  BY DEF PlanType
<1> QED BY <1>1, <1>2, <1>3

\* Equal steps, each after a wait, start as many instances as they are.
LEMMA StairClimbs ==
    ASSUME NEW b \in PlanType, NEW dur \in Nat, NEW up \in Seq(Nat)
    PROVE  /\ ClimbFrom(b, dur, up) \in PlanType /\ (Built(b) => Built(ClimbFrom(b, dur, up)))
           /\ ~ClimbFrom(b, dur, up).fails => ~b.fails
<1>1. ASSUME NEW v \in PlanType, NEW x \in Nat
      PROVE  /\ StartInstances(Wait(v, dur), x) \in PlanType
             /\ (Built(v) => Built(StartInstances(Wait(v, dur), x)))
             /\ ~StartInstances(Wait(v, dur), x).fails => ~v.fails
  <2> DEFINE w == Wait(v, dur)
  <2>1. w \in PlanType /\ (Built(v) => Built(w)) /\ (~w.fails => ~v.fails)
    BY WaitIs
  <2> HIDE DEF w
  <2>2. x \in Int
    OBVIOUS
  <2>3. /\ StartInstances(w, x) \in PlanType /\ (Built(w) => Built(StartInstances(w, x)))
        /\ ~StartInstances(w, x).fails => ~w.fails
    BY <2>1, <2>2, StartsIs
  <2> QED BY <2>1, <2>3 DEF w
<1>2. PICK f : Climbs(f, b, dur, up)
  BY <1>1, ClimbFolds
<1> DEFINE n == Len(up)
           T == {k \in Nat : k <= n => (Built(b) => Built(f[k])) /\ (~f[k].fails => ~b.fails)}
<1>3. n \in Nat /\ n \in 0..n /\ \A i \in 1..n : up[i] \in Nat
  BY LenProperties
<1>4. f \in [0..n -> PlanType] /\ f[0] = b /\ f[n] = ClimbFrom(b, dur, up)
  BY <1>2 DEF Climbs
<1>5. 0 \in T
  BY <1>4
<1>6. ASSUME NEW k \in Nat, k \in T PROVE k + 1 \in T
  <2>1. CASE k + 1 <= n
    <3>1. k \in 0..(n - 1) /\ k \in 0..n /\ k + 1 \in 1..n /\ (Built(b) => Built(f[k])) /\ (~f[k].fails => ~b.fails)
      BY <1>3, <1>6, <2>1
    <3>2. f[k + 1] = StartInstances(Wait(f[k], dur), up[k + 1])
      BY <1>2, <3>1 DEF Climbs
    <3>3. f[k] \in PlanType /\ up[k + 1] \in Nat
      BY <1>3, <1>4, <3>1
    <3>4. (Built(f[k]) => Built(f[k + 1])) /\ (~f[k + 1].fails => ~f[k].fails)
      BY <1>1, <3>2, <3>3
    <3> QED BY <3>1, <3>4
  <2> QED BY <2>1
<1> HIDE DEF T
<1>7. n \in T
  <2>1. Nat \subseteq T
    BY <1>5, <1>6, NatSet
  <2> QED BY <1>3, <2>1
<1> QED BY <1>3, <1>4, <1>7 DEF T

\* b leads to p, which has the instances.
Leading(p, b, instances) ==
    p \in PlanType /\ (Built(b) => Built(p)) /\ (~p.fails => ~b.fails /\ p.instances = instances)

\* const leads to its instances,
LEMMA ConstLeads ==
    ASSUME NEW b \in PlanType, NEW s \in StepOf
    PROVE  Leading(ConstInstances(b, s), b, s.to)
<1> DEFINE count == s.to - b.instances
           a == StartInstances(b, count)
<1>1. s.to \in Nat /\ s.dur \in Nat /\ b.instances \in Nat /\ count \in Int
  BY TimesType DEF StepOf
<1>2. count + b.instances = s.to /\ b.instances + count = s.to
  BY <1>1
<1> HIDE DEF count
<1>3. /\ a \in PlanType /\ (Built(b) => Built(a))
      /\ ~a.fails => ~b.fails /\ a.instances = b.instances + count
  BY <1>1, StartsIs
<1>4. ConstInstances(b, s) = Wait(a, s.dur)
  BY DEF ConstInstances, count
<1> HIDE DEF a
<1>5. Leading(Wait(a, s.dur), b, s.to)
  BY <1>1, <1>2, <1>3, WaitIs DEF Leading
<1> QED BY <1>4, <1>5

\* line to its last instances,
LEMMA LineLeads ==
    ASSUME NEW b \in PlanType, NEW s \in StepOf
    PROVE  Leading(LineInstances(b, s), b, s.to)
<1> DEFINE count == s.from - b.instances - 1
           more == s.to - s.from + 1
           a == StartInstances(b, count)
<1>1. s.from \in Nat /\ s.to \in Nat /\ s.dur \in Nat /\ b.instances \in Nat /\ count \in Int /\ more \in Int
  BY TimesType DEF StepOf
<1>2. b.instances + count + more = s.to
  BY <1>1
<1> HIDE DEF count, more
<1>3. /\ a \in PlanType /\ (Built(b) => Built(a))
      /\ ~a.fails => ~b.fails /\ a.instances = b.instances + count
  BY <1>1, StartsIs
<1>4. LineInstances(b, s) = Ramp(a, more, s.dur)
  BY DEF LineInstances, count, more
<1> HIDE DEF a
<1>5. Leading(Ramp(a, more, s.dur), b, s.to)
  BY <1>1, <1>2, <1>3, RampIs DEF Leading
<1> QED BY <1>4, <1>5

\* step to its last instances, in equal steps and what is left,
LEMMA StairsLead ==
    ASSUME NEW b \in PlanType, NEW s \in StepOf
    PROVE  Leading(StairwayInstances(b, s), b, s.to)
<1>1. s.from \in Nat /\ s.to \in Nat /\ s.by \in Nat /\ s.dur \in Nat /\ b.instances \in Nat
  BY TimesType DEF StepOf
<1>2. CASE s.by = 0
  <2>1. StairwayInstances(b, s) = Failed
    BY <1>2 DEF StairwayInstances
  <2> QED BY <2>1, FailedIs DEF Leading, Built
<1>3. CASE s.by # 0
  <2> DEFINE count == s.from - b.instances
             k == (s.to - s.from) \div s.by
             up == [i \in 1..k |-> s.by]
             a == StartInstances(b, count)
             c == ClimbFrom(a, s.dur, up)
             rest == s.to - c.instances
             d == IF rest # 0 THEN StartInstances(Wait(c, s.dur), rest) ELSE c
  <2>1. StairwayInstances(b, s) = Wait(d, s.dur)
    BY <1>3, Zenon DEF StairwayInstances, ClimbFrom
  <2>2. count \in Int /\ k \in Int
    BY <1>1, <1>3
  <2> HIDE DEF k
  <2>3. up \in Seq(Nat)
    <3>1. CASE k >= 0
      <4>1. k \in Nat
        BY <2>2, <3>1
      <4> QED BY <1>1, <4>1
    <3>2. CASE k < 0
      <4>1. 1..k = {} /\ 1..0 = {}
        BY <2>2, <3>2
      <4>2. up = [i \in 1..0 |-> s.by]
        BY <4>1
      <4> HIDE DEF up
      <4>3. [i \in 1..0 |-> s.by] \in Seq(Nat)
        BY <1>1
      <4> QED BY <4>2, <4>3
    <3> QED BY <2>2, <3>1, <3>2
  <2> HIDE DEF up, count
  <2>4. a \in PlanType /\ (Built(b) => Built(a)) /\ (~a.fails => ~b.fails)
    BY <2>2, StartsIs
  <2> HIDE DEF a
  <2>5. c \in PlanType /\ (Built(b) => Built(c)) /\ (~c.fails => ~b.fails)
    BY <1>1, <2>3, <2>4, StairClimbs
  <2> HIDE DEF c
  <2>6. c.instances \in Nat /\ rest \in Int /\ c.instances + rest = s.to
    BY <1>1, <2>5, TimesType
  <2>7. Leading(d, b, s.to)
    <3>1. CASE rest = 0
      <4>1. d = c /\ c.instances = s.to
        BY <1>1, <2>6, <3>1
      <4> HIDE DEF d
      <4> QED BY <2>5, <4>1 DEF Leading
    <3>2. CASE rest # 0
      <4> DEFINE w == Wait(c, s.dur)
      <4>1. d = StartInstances(w, rest)
        BY <3>2
      <4>2. w \in PlanType /\ (Built(c) => Built(w)) /\ (~w.fails => ~c.fails /\ w.instances = c.instances)
        BY <1>1, <2>5, WaitIs
      <4> HIDE DEF d, w, rest
      <4>3. /\ d \in PlanType /\ (Built(w) => Built(d))
            /\ ~d.fails => ~w.fails /\ d.instances = w.instances + rest
        BY <2>6, <4>1, <4>2, StartsIs
      <4> QED BY <2>5, <2>6, <4>2, <4>3 DEF Leading
    <3> QED BY <3>1, <3>2
  <2> HIDE DEF d
  <2>8. Leading(Wait(d, s.dur), b, s.to)
    BY <1>1, <2>7, WaitIs DEF Leading
  <2> QED BY <2>1, <2>8
<1> QED BY <1>2, <1>3

\* and every step to what the reference says.
LEMMA AddStepLeads ==
    ASSUME NEW b \in PlanType, NEW s \in StepOf
    PROVE  Leading(AddStep(b, s), b, LeadsTo(b.instances, s))
<1>1. s.to \in Nat /\ s.dur \in Nat /\ s.to \in Int
  BY DEF StepOf
<1>2. CASE s.kind = "const"
  <2>1. AddStep(b, s) = ConstInstances(b, s) /\ LeadsTo(b.instances, s) = s.to
    BY <1>2 DEF AddStep, LeadsTo
  <2> QED BY <2>1, ConstLeads
<1>3. CASE s.kind = "line"
  <2>1. AddStep(b, s) = LineInstances(b, s) /\ LeadsTo(b.instances, s) = s.to
    BY <1>3 DEF AddStep, LeadsTo
  <2> QED BY <2>1, LineLeads
<1>4. CASE s.kind = "step"
  <2>1. AddStep(b, s) = StairwayInstances(b, s) /\ LeadsTo(b.instances, s) = s.to
    BY <1>4 DEF AddStep, LeadsTo
  <2> QED BY <2>1, StairsLead
<1>5. CASE s.kind = "ramp"
  <2>1. AddStep(b, s) = Ramp(b, s.to, s.dur) /\ LeadsTo(b.instances, s) = b.instances + s.to
    BY <1>5 DEF AddStep, LeadsTo
  <2> QED BY <1>1, <2>1, RampIs DEF Leading
<1>6. CASE s.kind = "wait"
  <2>1. AddStep(b, s) = Wait(b, s.dur) /\ LeadsTo(b.instances, s) = b.instances
    BY <1>6 DEF AddStep, LeadsTo
  <2> QED BY <1>1, <2>1, WaitIs DEF Leading
<1>7. CASE s.kind \notin {"const", "line", "step", "ramp", "wait"}
  <2>1. AddStep(b, s) = Failed
    BY <1>7 DEF AddStep
  <2> QED BY <2>1, FailedIs DEF Leading, Built
<1> QED BY <1>2, <1>3, <1>4, <1>5, <1>6, <1>7

\* The plan of a schedule of instances starts those that its steps lead to.
LEMMA InstancesPlanGives ==
    ASSUME NEW steps \in Seq(StepOf), ~InstancesPlan(steps).fails
    PROVE  PlanIsLoad(InstancesPlan(steps), steps)
<1> DEFINE n == Len(steps)
           b == FoldLeft(AddStep, NoPlan, steps)
           p == InstancesPlan(steps)
<1>1. n \in Nat /\ n \in 0..n /\ \A i \in 1..n : steps[i] \in StepOf
  BY LenProperties
<1>2. \A v \in PlanType, x \in StepOf : AddStep(v, x) \in PlanType
  BY AddStepLeads DEF Leading
<1>3. PICK f : Builds(f, steps)
  BY <1>2, NoPlanIs, BuildFolds
<1>4. \A v \in Nat, x \in StepOf : LeadsTo(v, x) \in Nat
  BY DEF LeadsTo, StepOf
<1>5. PICK g : Leads(g, steps)
  BY <1>4, InstancesFolds
<1> HIDE DEF b
<1>6. f \in [0..n -> PlanType] /\ f[0] = NoPlan /\ f[n] = b
  BY <1>3 DEF Builds, b
<1>7. g \in [0..n -> Nat] /\ g[0] = 0 /\ g[n] = Instances(steps)
  BY <1>5 DEF Leads
<1> DEFINE Led(k) == Built(f[k]) /\ (~f[k].fails => f[k].instances = g[k])
           T == {k \in Nat : k <= n => Led(k)}
<1>8. 0 \in T
  <2>1. Len(NoPlan.times) = 0 /\ \A i \in 1..0 : FALSE
    BY NoPlanIs
  <2>2. Built(NoPlan)
    BY <2>1, NoPlanIs DEF Built, Ascends
  <2> QED BY <1>6, <1>7, <2>2, NoPlanIs
<1>9. ASSUME NEW k \in Nat, k \in T PROVE k + 1 \in T
  <2>1. CASE k + 1 <= n
    <3>1. k \in 0..(n - 1) /\ k \in 0..n /\ k + 1 \in 1..n /\ Led(k)
      BY <1>1, <1>9, <2>1
    <3>2. f[k + 1] = AddStep(f[k], steps[k + 1]) /\ g[k + 1] = LeadsTo(g[k], steps[k + 1])
      BY <1>3, <1>5, <3>1 DEF Builds, Leads
    <3>3. f[k] \in PlanType /\ steps[k + 1] \in StepOf
      BY <1>1, <1>6, <3>1
    <3>4. Leading(f[k + 1], f[k], LeadsTo(f[k].instances, steps[k + 1]))
      BY <3>2, <3>3, AddStepLeads
    <3>5. Led(k + 1)
      BY <3>1, <3>2, <3>4 DEF Leading
    <3> QED BY <3>5
  <2> QED BY <2>1
<1> HIDE DEF T
<1>10. Led(n)
  <2>1. Nat \subseteq T
    BY <1>8, <1>9, NatSet
  <2> QED BY <1>1, <2>1 DEF T
<1>11. ~b.fails /\ p = [b EXCEPT !.forever = TRUE, !.len = -1, !.dur = 0]
  <2>1. p = IF b.fails THEN Failed ELSE [b EXCEPT !.forever = TRUE, !.len = -1, !.dur = 0]
    BY DEF InstancesPlan, b, NoPlan
  <2> QED BY <2>1, FailedIs
<1> HIDE DEF p, n
<1>12. b \in PlanType
  BY <1>1, <1>6
<1>13. p.forever /\ p.times = b.times /\ p.instances = b.instances
  BY <1>11, <1>12 DEF PlanType
<1>14. /\ Len(b.times) = Instances(steps) /\ b.instances = Instances(steps) /\ Ascends(b.times)
       /\ Len(b.times) \in Nat
  BY <1>6, <1>7, <1>10, <1>11, <1>12, TimesType DEF Built
<1>15. \A i \in 1..Len(p.times) - 1 : p.times[i] <= p.times[i + 1]
  BY <1>13, <1>14 DEF Ascends
<1>16. PlanIsLoad(p, steps)
  BY <1>13, <1>14, <1>15 DEF PlanIsLoad
<1> QED BY <1>16 DEF p
-----------------------------------------------------------------------------
(***************************************************************************)
(* The plan of the configuration                                           *)
(***************************************************************************)

\* A run that opens the file to find out its type, or is past that.
Planned(s) == s.pc \in {"detect", "again", "truncate"} \/ (s.pc \in {"head", "open", "get", "save"} /\ s.ret \in {"detect", "again"})

\* The plan is the one of the steps, and it was made before the stepped file is.
PlanInv ==
    /\ opt.steps \in Seq(StepOf) /\ opt.plan = Plan(opt)
    /\ \A r \in Runs : Planned(run[r]) => ~opt.plan.fails

\* The plan is that of one of the options.
LEMMA PlanInitially == StepperInit => PlanInv
<1> SUFFICES ASSUME StepperInit PROVE PlanInv
  OBVIOUS
<1>1. PICK o \in Options : opt = [f \in DOMAIN o \cup {"plan"} |-> IF f = "plan" THEN Plan(o) ELSE o[f]]
  BY DEF StepperInit
<1>2. opt.steps = o.steps /\ opt.load = o.load /\ opt.plan = Plan(o)
  BY <1>1, StepperAssumption, PlanAssumption
<1>3. o.steps \in Seq(StepOf)
  BY PlanAssumption
<1>4. Plan(opt) = Plan(o)
  BY <1>2 DEF Plan, Rps
<1>5. \A r \in Runs : ~Planned(run[r])
  BY DEF StepperInit, NewRun, Planned
<1> QED BY <1>2, <1>3, <1>4, <1>5 DEF PlanInv

\* Of one run, of which it becomes true only with a plan.
LEMMA PlanMoves ==
    ASSUME PlanInv, opt' = opt, DOMAIN run = Runs, NEW r \in Runs, NEW s, run' = [run EXCEPT ![r] = s],
           Planned(s) => Planned(run[r]) \/ ~opt.plan.fails
    PROVE  PlanInv'
<1>1. \A q \in Runs : run'[q] = IF q = r THEN s ELSE run[q]
  OBVIOUS
<1>2. ASSUME NEW q \in Runs PROVE Planned(run'[q]) => ~opt.plan.fails
  BY <1>1 DEF PlanInv
<1>3. Plan(opt)' = Plan(opt) /\ opt'.steps = opt.steps /\ opt'.plan = opt.plan
  BY DEF Plan, Rps
<1>4. \A q \in Runs : Planned(run[q])' <=> Planned(run'[q])
  BY DEF Planned
<1> QED BY <1>2, <1>3, <1>4 DEF PlanInv

\* A step that is of no run.
LEMMA PlanStays ==
    ASSUME PlanInv, opt' = opt, run' = run
    PROVE  PlanInv'
BY DEF PlanInv, Plan, Rps, Planned

\* Only Make begins to make a stepped file, and it fails without a plan.
LEMMA PlanStep == StepperInv /\ PlanInv /\ [StepperNext]_stepperVars => PlanInv'
<1> SUFFICES ASSUME StepperInv, PlanInv, [StepperNext]_stepperVars PROVE PlanInv'
  OBVIOUS
<1>1. CASE UNCHANGED <<opt, run>>
  BY <1>1, PlanStays
<1>2. ASSUME opt' = opt, NEW r \in Runs, RunStep(r) \/ HeadFails(r) \/ GetFails(r) \/ Kill(r) PROVE PlanInv'
  <2>1. DOMAIN run = Runs /\ DOMAIN run[r] = RunFields
    BY DEF StepperInv, RunOK, Shape
  <2>2. ASSUME NEW place, Goes(r, place), Planned([run[r] EXCEPT !.pc = place]) => Planned(run[r]) \/ ~opt.plan.fails
        PROVE  PlanInv'
    BY <1>2, <2>1, <2>2, PlanMoves DEF Goes, Becomes
  <2>3. ASSUME NEW place \in {"check", "load", "make", "read", "info", "si", "ready", "shot", "failed", "dead"}, Goes(r, place)
        PROVE  PlanInv'
    <3>1. ~Planned([run[r] EXCEPT !.pc = place])
      BY <2>1, <2>3 DEF Planned, RunFields
    <3> QED BY <2>2, <2>3, <3>1
  <2>4. CASE Begin(r)
    <3> DEFINE s == [run[r] EXCEPT !.since = server.version]
               t == IF opt.load = "stpd_file" THEN [s EXCEPT !.pc = "load"]
                    ELSE IF opt.caching /\ opt.source # "uris" THEN OpenerFor(s, "name") ELSE [s EXCEPT !.pc = "check"]
    <3>1. run' = [run EXCEPT ![r] = t]
      BY <2>4 DEF Begin, Becomes
    <3>2. ~Planned(t)
      BY <2>1 DEF Planned, RunFields, OpenerFor
    <3> HIDE DEF t
    <3> QED BY <1>2, <2>1, <3>1, <3>2, PlanMoves
  <2>5. CASE Check(r) \/ Shoot(r) \/ Kill(r) \/ OpenSi(r) \/ WriteSi(r)
    BY <2>3, <2>5 DEF Check, Shoot, Kill, OpenSi, WriteSi
  <2>6. CASE Load(r)
    <3> DEFINE t == [run[r] EXCEPT !.pc = "ready", !.ammo = Si(r).ammo]
    <3>1. CASE Fails(r)
      BY <2>3, <3>1 DEF Fails
    <3>2. CASE run' = [run EXCEPT ![r] = t]
      <4>1. ~Planned(t)
        BY <2>1 DEF Planned, RunFields
      <4> HIDE DEF t
      <4> QED BY <1>2, <2>1, <3>2, <4>1, PlanMoves
    <3> QED BY <2>6, <3>1, <3>2 DEF Load, Becomes
  <2>7. CASE Make(r)
    <3>1. CASE opt.plan.fails
      BY <2>3, <2>7, <3>1 DEF Make, Fails
    <3>2. CASE ~opt.plan.fails
      <4> DEFINE s == NewStepper(run[r])
                 t == IF opt.type = "phantom" /\ opt.source # "uris" THEN OpenerFor(s, "detect")
                      ELSE [s EXCEPT !.pc = "truncate", !.src = [v |-> 0, whole |-> TRUE]]
      <4>1. run' = [run EXCEPT ![r] = t]
        BY <2>7, <3>2 DEF Make, Becomes
      <4> HIDE DEF t
      <4> QED BY <1>2, <2>1, <3>2, <4>1, PlanMoves
    <3> QED BY <3>1, <3>2
  <2>8. CASE Detect(r)
    <3> DEFINE t == OpenerFor(run[r], "again")
    <3>1. Planned(run[r])
      BY <2>8 DEF Detect, Planned
    <3>2. Fails(r) \/ Goes(r, "truncate") \/ run' = [run EXCEPT ![r] = t]
      BY <2>8 DEF Detect, Becomes
    <3> HIDE DEF t
    <3> QED BY <1>2, <2>1, <2>2, <3>1, <3>2, PlanMoves DEF Fails
  <2>9. CASE Truncate(r)
    <3> DEFINE t == IF opt.source = "uris" THEN [run[r] EXCEPT !.pc = "read"] ELSE OpenerFor(run[r], "read")
    <3>1. run' = [run EXCEPT ![r] = t]
      BY <2>9 DEF Truncate, Becomes
    <3>2. ~Planned(t)
      BY <2>1 DEF Planned, RunFields, OpenerFor
    <3> HIDE DEF t
    <3> QED BY <1>2, <2>1, <3>1, <3>2, PlanMoves
  <2>10. CASE Step(r)
    <3> DEFINE b == [run[r] EXCEPT !.src = Open(r), !.out = Stpd(r).out]
               s == Stepped(b)
               t == [s EXCEPT !.src = run[r].src, !.out = << >>]
    <3>1. run' = [run EXCEPT ![r] = t]
      BY <2>10 DEF Step, Becomes
    <3>2. Stepping(b)
      <4>1. run[r].ammo \in Nat /\ run[r].pc = "read"
        BY <2>10 DEF StepperInv, RunOK, Shape, Step
      <4> QED BY <2>1, <4>1 DEF Stepping, RunFields
    <3> HIDE DEF b
    <3>3. Kept(s, b)
      BY <3>2, SteppedKeeps DEF Unwritten, Appended
    <3> HIDE DEF s
    <3>4. ~Planned(t)
      BY <3>2, <3>3 DEF Kept, Planned, RunFields, Stepping
    <3> HIDE DEF t
    <3> QED BY <1>2, <2>1, <3>1, <3>4, PlanMoves
  <2>11. CASE GetHead(r)
    <3> DEFINE t == IF run[r].ret = "name" THEN [run[r] EXCEPT !.pc = "check", !.key = Hash]
                                           ELSE [run[r] EXCEPT !.pc = "open", !.opener = Hash, !.tries = 0]
    <3>1. run' = [run EXCEPT ![r] = t] /\ run[r].pc = "head"
      BY <2>11 DEF GetHead, Becomes
    <3>2. Planned(t) => Planned(run[r])
      BY <2>1, <3>1 DEF Planned, RunFields
    <3> HIDE DEF t
    <3> QED BY <1>2, <2>1, <3>1, <3>2, PlanMoves
  <2>12. CASE OpenFile(r)
    <3> DEFINE t == [run[r] EXCEPT !.pc = run[r].ret, !.src = [v |-> server.version, whole |-> TRUE]]
               place == IF opt.caching /\ disk.tmp[run[r].opener] # Nothing THEN run[r].ret ELSE "get"
    <3>1. run[r].pc = "open" /\ run[r].ret \in {"detect", "again", "read"}
      BY <2>12 DEF OpenFile, StepperInv, RunOK, Shape
    <3>2. CASE run' = [run EXCEPT ![r] = t]
      <4>1. Planned(t) => Planned(run[r])
        BY <2>1, <3>1 DEF Planned, RunFields
      <4> HIDE DEF t
      <4> QED BY <1>2, <2>1, <3>2, <4>1, PlanMoves
    <3>3. CASE Goes(r, place)
      <4>1. Planned([run[r] EXCEPT !.pc = place]) => Planned(run[r])
        BY <2>1, <3>1 DEF Planned, RunFields
      <4> HIDE DEF place
      <4> QED BY <2>2, <3>3, <4>1
    <3> QED BY <2>12, <3>2, <3>3 DEF OpenFile, Becomes
  <2>13. CASE Get(r) \/ Save(r)
    <3>1. run[r].pc \in {"get", "save"} /\ run[r].ret \in {"detect", "again", "read"}
      BY <2>13 DEF Get, Save, StepperInv, RunOK, Shape
    <3>2. \E x \in {"save", run[r].ret} : Goes(r, x)
      BY <2>13 DEF Get, Save
    <3>3. \A x \in {"save", run[r].ret} : Planned([run[r] EXCEPT !.pc = x]) => Planned(run[r])
      BY <2>1, <3>1 DEF Planned, RunFields
    <3> QED BY <2>2, <3>2, <3>3
  <2>14. CASE HeadFails(r) \/ GetFails(r)
    <3> DEFINE t == [run[r] EXCEPT !.tries = @ + 1]
    <3>1. Fails(r) \/ run' = [run EXCEPT ![r] = t]
      BY <2>14 DEF HeadFails, GetFails, Fault, Becomes
    <3>2. Planned(t) => Planned(run[r])
      BY <2>1 DEF Planned, RunFields
    <3> HIDE DEF t
    <3>3. CASE Fails(r)
      BY <2>3, <3>3 DEF Fails
    <3>4. CASE run' = [run EXCEPT ![r] = t]
      BY <1>2, <2>1, <3>2, <3>4, PlanMoves
    <3> QED BY <3>1, <3>3, <3>4
  <2> QED BY <1>2, <2>4, <2>5, <2>6, <2>7, <2>8, <2>9, <2>10, <2>11, <2>12, <2>13, <2>14 DEF RunStep, ResourceStep
<1>3. ASSUME opt' = opt, Replace PROVE PlanInv'
  BY <1>3, PlanStays DEF Replace
<1> QED BY <1>1, <1>2, <1>3 DEF StepperNext, stepperVars

\* Before a stepped file is made its moments ascend, and they are the load of the
\* schedule: for every step of rates the missiles it is to give in its time, less
\* at most one for each of its rates, and for every schedule of instances as many
\* as its steps lead to (load_plan.py and instance_plan.py, create).
THEOREM PlanIsGiven == StepperSpec => []PlanGivesLoad
<1>1. PlanInv => PlanGivesLoad
  <2> SUFFICES ASSUME PlanInv, NEW r \in Runs, run[r].pc = "truncate" PROVE PlanIsLoad(opt.plan, opt.steps)
    BY DEF PlanGivesLoad
  <2>1. ~opt.plan.fails /\ opt.plan = Plan(opt) /\ opt.steps \in Seq(StepOf)
    BY DEF PlanInv, Planned
  <2>2. CASE Rps(opt)
    <3>1. opt.plan = RpsPlan(opt.steps)
      BY <2>1, <2>2 DEF Plan
    <3> QED BY <2>1, <3>1, RpsPlanGives
  <2>3. CASE ~Rps(opt)
    <3>1. opt.plan = InstancesPlan(opt.steps)
      BY <2>1, <2>3 DEF Plan
    <3> QED BY <2>1, <3>1, InstancesPlanGives
  <2> QED BY <2>2, <2>3
<1> QED BY <1>1, PlanInitially, PlanStep, StepperInductive, PTL DEF StepperSpec
=============================================================================
