----------------------------- MODULE TimeChopper -----------------------------
(***************************************************************************)
(* yandextank/aggregator/chopper.py: a generator that reads chunks of rows *)
(* from its sources in turn, keeps the rows by their second, and gives a   *)
(* second when every source that is still read is past it.                 *)
(*                                                                         *)
(* A chunk is the set of seconds its rows have and the second of its last  *)
(* row; the rows of one second of one chunk are a piece, named by the      *)
(* source and the number of the chunk.  A source is a poller, which gives  *)
(* no empty chunk: the test for None never fails here.                     *)
(***************************************************************************)
EXTENDS Integers, Sequences, FiniteSetsExt, SequencesExt

CONSTANTS
    N,            \* number of sources
    MaxTs,        \* bound: the seconds are 1..MaxTs
    MaxChunks,    \* bound: chunks each source gives
    InOrder,      \* rows of a source never go back to an earlier second
    Failing       \* reading a source may raise something else than StopIteration

ChopperAssumption ==
    /\ N \in Nat \ {0}
    /\ MaxTs \in Nat
    /\ MaxChunks \in Nat
    /\ InOrder \in BOOLEAN
    /\ Failing \in BOOLEAN

ASSUME ChopperAssumption

Sources == 1 .. N
Ts == 1 .. MaxTs
Piece == Sources \X (1 .. MaxChunks)

VARIABLES
    pc,        \* "read" a source, "emit" what is ready, "flush" the rest, "done", "failed"
    turn,      \* the source the for loop is at, N + 1 after the last
    live,      \* self.sources
    recent,    \* self.recent_ts
    cache,     \* self.cache: the pieces of each second, none when it is not a key
    chunks,    \* chunks each source gave
    given,     \* all pieces that were read of each second (history)
    out        \* what was yielded, in order (history)

vars == <<pc, turn, live, recent, cache, chunks, given, out>>

Init ==
    /\ pc = "read"
    /\ turn = 1
    /\ live = Sources
    /\ recent = [s \in Sources |-> 0]
    /\ cache = [ts \in Ts |-> {}]
    /\ chunks = [s \in Sources |-> 0]
    /\ given = [ts \in Ts |-> {}]
    /\ out = << >>

-----------------------------------------------------------------------------
(***************************************************************************)
(* Reading                                                                 *)
(***************************************************************************)

\* The for loop is at source s.
At(s) ==
    /\ pc = "read"
    /\ s \in live
    /\ s >= turn
    /\ \A r \in live : r >= turn => s <= r

\* The rows of the next chunk of s may have these seconds, the last of them at `at'.
Possible(s, seconds, at) ==
    /\ at \in seconds
    /\ InOrder => \A ts \in seconds : recent[s] <= ts /\ ts <= at

\* Mutant: what was cached of a second is replaced by the new rows.
JoinReplaces(old, seconds, piece) ==
    [ts \in Ts |-> IF ts \in seconds THEN {piece} ELSE old[ts]]

\* The rows of each second are appended to those in the cache.
Join(old, seconds, piece) ==
    [ts \in Ts |-> IF ts \in seconds THEN old[ts] \union {piece} ELSE old[ts]]

ReadChunk(s) ==
    /\ At(s)
    /\ chunks[s] < MaxChunks
    /\ \E seconds \in SUBSET Ts : \E at \in seconds :
          /\ Possible(s, seconds, at)
          /\ recent' = [recent EXCEPT ![s] = at]
          /\ cache' = Join(cache, seconds, <<s, chunks[s] + 1>>)
          /\ given' = [ts \in Ts |-> IF ts \in seconds THEN given[ts] \union {<<s, chunks[s] + 1>>} ELSE given[ts]]
    /\ chunks' = [chunks EXCEPT ![s] = @ + 1]
    /\ turn' = s + 1
    /\ UNCHANGED <<pc, live, out>>

\* Mutant: the rows that are cached are dropped when the last source is over.
SourceOverForgets(s) ==
    /\ At(s)
    /\ live' = live \ {s}
    /\ turn' = 1
    /\ pc' = IF live' = {} THEN "done" ELSE "read"
    /\ UNCHANGED <<recent, cache, chunks, given, out>>

\* StopIteration: the source is popped, the round is given up, the next one
\* begins with the first source.  There are as many rounds as sources, so the
\* loop ends with the last of them.
SourceOver(s) ==
    /\ At(s)
    /\ live' = live \ {s}
    /\ turn' = 1
    /\ pc' = IF live' = {} THEN "flush" ELSE "read"
    /\ UNCHANGED <<recent, cache, chunks, given, out>>

\* The parser of a reader raises: the generator is dead.
SourceFails(s) ==
    /\ Failing
    /\ At(s)
    /\ pc' = "failed"
    /\ UNCHANGED <<turn, live, recent, cache, chunks, given, out>>

-----------------------------------------------------------------------------
(***************************************************************************)
(* Giving                                                                  *)
(***************************************************************************)

Cached == {ts \in Ts : cache[ts] # {}}

\* Mutant: the second the slowest source is in is taken for complete.
ReadyUpToRecent(ts) == \A s \in live : ts <= recent[s]

\* ts <= min(recent_ts.values()) - 1
Ready(ts) == \A s \in live : ts <= recent[s] - 1

RoundRead ==
    /\ pc = "read"
    /\ \A s \in live : s < turn
    /\ pc' = "emit"
    /\ UNCHANGED <<turn, live, recent, cache, chunks, given, out>>

\* The earliest cached second leaves the cache.
Yield(ts) ==
    /\ ts \in Cached
    /\ \A other \in Cached : ts <= other
    /\ out' = Append(out, [ts |-> ts, rows |-> cache[ts]])
    /\ cache' = [cache EXCEPT ![ts] = {}]

Emit ==
    /\ pc = "emit"
    /\ \E ts \in Cached : Ready(ts) /\ Yield(ts)
    /\ UNCHANGED <<pc, turn, live, recent, chunks, given>>

Emitted ==
    /\ pc = "emit"
    /\ \A ts \in Cached : ~Ready(ts)
    /\ pc' = "read"
    /\ turn' = 1
    /\ UNCHANGED <<live, recent, cache, chunks, given, out>>

Flush ==
    /\ pc = "flush"
    /\ \E ts \in Cached : Yield(ts)
    /\ UNCHANGED <<pc, turn, live, recent, chunks, given>>

Flushed ==
    /\ pc = "flush"
    /\ Cached = {}
    /\ pc' = "done"
    /\ UNCHANGED <<turn, live, recent, cache, chunks, given, out>>

Next ==
    \/ \E s \in Sources : ReadChunk(s) \/ SourceOver(s) \/ SourceFails(s)
    \/ RoundRead
    \/ Emit
    \/ Emitted
    \/ Flush
    \/ Flushed

Spec == Init /\ [][Next]_vars

\* The thread that drains the chopper asks for the next item again and again
\* until it is interrupted, and a poller gives a chunk or gives up.
FairSpec == Spec /\ WF_vars(Next)

-----------------------------------------------------------------------------
(***************************************************************************)
(* Properties                                                              *)
(***************************************************************************)

\* The types; there is a source to take the minimum of as long as the loop runs.
TypeOK ==
    /\ pc \in {"read", "emit", "flush", "done", "failed"}
    /\ turn \in 1 .. N + 1
    /\ live \in SUBSET Sources
    /\ live = {} <=> pc \in {"flush", "done"}
    /\ recent \in [Sources -> 0 .. MaxTs]
    /\ cache \in [Ts -> SUBSET Piece]
    /\ chunks \in [Sources -> 0 .. MaxChunks]
    /\ given \in [Ts -> SUBSET Piece]
    /\ out \in Seq([ts : Ts, rows : SUBSET Piece])

\* No row is lost and none is given twice: what was read of a second is in the
\* cache or was yielded, and never both, nor yielded twice; at the end
\* everything was yielded.
NothingLost ==
    /\ \A ts \in Ts, piece \in Piece :
          piece \in given[ts] <=>
             piece \in cache[ts] \/ \E i \in DOMAIN out : out[i].ts = ts /\ piece \in out[i].rows
    /\ \A i \in DOMAIN out : out[i].rows \intersect cache[out[i].ts] = {}
    /\ \A i, j \in DOMAIN out : i # j /\ out[i].ts = out[j].ts => out[i].rows \intersect out[j].rows = {}
    /\ pc = "done" => Cached = {}

\* The seconds come in ascending order, each once, when no source goes back.
Ascending == InOrder => \A i, j \in DOMAIN out : i < j => out[i].ts < out[j].ts

\* A second is given only when no row of it can come any more, when no source
\* goes back: all that is ever read of it was given with it.
CompleteWhenGiven == InOrder => \A i \in DOMAIN out : out[i].rows = given[out[i].ts]

\* No row of a second is lost, given twice or given before the second is whole.
RowsWhole == NothingLost /\ CompleteWhenGiven

\* Rows that were read are given in the end, or reading failed.
EverythingGiven == \A ts \in Ts : cache[ts] # {} ~> (cache[ts] = {} \/ pc = "failed")

\* The stream its consumer relies on, when no source goes back.
Stream == INSTANCE SecondStream WITH
    Seconds <- Ts,
    stream <- [i \in DOMAIN out |-> out[i].ts],
    over <- pc \in {"done", "failed"}

Implements == Stream!Spec
=============================================================================
