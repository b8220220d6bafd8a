---------------------------- MODULE ResultFiles ----------------------------
(***************************************************************************)
(* The files a load generator writes while it shoots and the threads that  *)
(* drain them: the reader of its results (PhantomReader and                *)
(* _ShootExecReader over a FileMultiReader, JMeterReader) and the reader   *)
(* of its statistics (PhantomStatsReader, PandoraStatsReader and its       *)
(* poller, _FileStatsReader, or the results once more).                    *)
(*                                                                         *)
(* A text is a sequence of halves of lines: half h belongs to line         *)
(* (h + 1) \div 2, which an even half ends.  How readers share a file is   *)
(* the subject of PhoutReader; a read is one step here, and what the       *)
(* reader does when it read nothing is another.                            *)
(***************************************************************************)
EXTENDS Integers, Sequences, FiniteSetsExt, SequencesExt

CONSTANT
    Chunk  \* halves that are read at once

VARIABLES
    opt,       \* the generator, its settings and what goes wrong: see Generators
    finished,  \* phout_finished or output_finished; for JMeter, jmeter_finished
    out,       \* the file of results: its text, and what was written of it by this test
    reader,    \* see OutInit
    stat       \* the statistics: see OutInit

files == <<finished, out, reader, stat>>

EndsLine(h) == h % 2 = 0

\* How the statistics are made.
StatsKind ==
    CASE opt.gen = "phantom" -> "blocks"
      [] opt.gen = "pandora" -> "expvar"
      [] opt.gen = "shootexec" /\ opt.statsPath -> "lines"
      [] OTHER -> "queue"

\* The file may hold a line of an earlier test.
OutInit ==
    /\ finished = FALSE
    /\ out = [text |-> IF opt.old THEN <<-1, 0>> ELSE << >>, written |-> 0]
    /\ reader = [pc |-> "none",      \* none, read, empty, over, failed
                 pos |-> 0, buffer |-> << >>,
                 given |-> << >>,    \* history: the text it gave
                 lost |-> {},        \* history: what readline took
                 quiet |-> FALSE,    \* history: nobody wrote when it last read nothing
                 closed |-> FALSE,
                 last |-> FALSE,     \* the read is the one after the loop
                 agg |-> FALSE]      \* agg_finished
    /\ stat = [pc |-> "none",        \* none, read, over; of a file also loop, end, line; of a queue
                                     \* empty; with expvar start, swap, iterate
               out |-> 0,            \* halves of items the generator wrote, or seconds it answered
               pos |-> 0,            \* halves the reader of Phantom's blocks has read
               lined |-> {},         \* history: those that readline took
               seen |-> 0,           \* history: Len(reader.given) when the queue was empty
               buffer |-> << >>,     \* what waits: seconds, or chunks of results
               taken |-> << >>,      \* the list get_data returned
               given |-> << >>,      \* what the drain got
               pending |-> 0,        \* the second the poller is about to append
               list |-> "buffer",    \* to this list; "none": that one was taken and is gone
               poller |-> "none",    \* none, runs, told, dead; late: started after close
               closed |-> FALSE,
               gaveUp |-> FALSE,     \* history: its poller had waited for too long
               atClose |-> 0]        \* history: out when it was closed

-----------------------------------------------------------------------------
(***************************************************************************)
(* The reader of results                                                   *)
(***************************************************************************)

\* What comes after the position, at most a chunk.
Ahead == SubSeq(out.text, reader.pos + 1, Min({Len(out.text), reader.pos + Chunk}))

LineEnds(text) == {i \in DOMAIN text : EndsLine(text[i])}

\* The text up to its last end of line, and what is left.
Whole(text) == SubSeq(text, 1, Max({0} \cup LineEnds(text)))
Rest(text) == SubSeq(text, Max({0} \cup LineEnds(text)) + 1, Len(text))

\* A half without its other half makes a row that is none.
Paired(text, i, j) == j \in DOMAIN text /\ text[j] - text[i] = j - i
Torn(text) == \E i \in DOMAIN text : ~Paired(text, i, IF EndsLine(text[i]) THEN i - 1 ELSE i + 1)

\* The chunk goes into the queue of the statistics, too.
Counted(text) ==
    stat' = IF StatsKind = "queue" /\ text # << >> THEN [stat EXCEPT !.buffer = Append(@, Len(text))] ELSE stat

AfterRead(last) == IF last THEN "over" ELSE "read"

\* The chunk, cut at its last end of line, goes on where the one before was cut.
Give(last) ==
    \E text \in {reader.buffer \o Ahead} :
        /\ reader' = [reader EXCEPT !.pos = @ + Len(Ahead), !.pc = AfterRead(last),
                                    !.given = @ \o Whole(text), !.buffer = Rest(text)]
        /\ Counted(Whole(text))

\* JMeter's reader, once closed, reads once more; the parser raises at a row that
\* is none, or makes something of it.
ReadSome ==
    /\ reader.pc = "read" /\ Ahead # << >>
    /\ \/ Give(opt.gen = "jmeter" /\ reader.closed)
       \/ /\ Torn(Whole(reader.buffer \o Ahead))
          /\ reader' = [reader EXCEPT !.pc = "failed"] /\ UNCHANGED stat
    /\ UNCHANGED <<opt, finished, out>>

ReadNothing(quiet) ==
    /\ reader.pc = "read" /\ Ahead = << >>
    /\ reader' = [reader EXCEPT !.pc = "empty", !.quiet = quiet, !.last = opt.gen = "jmeter" /\ reader.closed]
    /\ UNCHANGED <<opt, finished, out, stat>>

\* A FileMultiReader is over when it has read nothing and was told to stop.
MultiEmpty ==
    /\ reader.pc = "empty" /\ opt.gen # "jmeter"
    /\ reader' = [reader EXCEPT !.pc = AfterRead(finished), !.closed = finished]
    /\ UNCHANGED <<opt, finished, out, stat>>

\* What readline finds if something was written after the read: to the end of
\* the line, or of the file.
Readline ==
    LET ahead == SubSeq(out.text, reader.pos + 1, Len(out.text)) IN
    IF LineEnds(ahead) = {} THEN ahead ELSE SubSeq(ahead, 1, Min(LineEnds(ahead)))

\* JMeter's reader calls readline and throws away what it returns.
JtlEmpty ==
    /\ reader.pc = "empty" /\ opt.gen = "jmeter"
    /\ reader' = [reader EXCEPT !.pc = AfterRead(reader.last), !.agg = @ \/ finished,
                                !.pos = @ + Len(Readline), !.lost = @ \cup ToSet(Readline)]
    /\ UNCHANGED <<opt, finished, out, stat>>

ReaderThread(quiet) == ReadSome \/ ReadNothing(quiet) \/ MultiEmpty \/ JtlEmpty

-----------------------------------------------------------------------------
(***************************************************************************)
(* The reader of statistics                                                *)
(***************************************************************************)

\* Phantom's blocks, one of each second; and ShootExec's lines, two of a second,
\* of which the second one is not taken.
Blocks(n) == [k \in 1 .. n \div 2 |-> k]
Lines(n) == [k \in 1 .. (n \div 2 + 1) \div 2 |-> k]

\* What the reader yields is None: the poller waits, or gives up if there was
\* nothing for max_wait.
NoStats(s) ==
    \E tired \in BOOLEAN : stat' = [s EXCEPT !.pc = IF tired THEN "over" ELSE "read", !.gaveUp = tired]

\* The reader of a file looks whether it was closed.  Phantom's then reads what is
\* left, the scanner of lines does not.
LookClosed ==
    /\ stat.pc = "read" /\ StatsKind \in {"blocks", "lines"}
    /\ stat' = [stat EXCEPT !.pc = IF ~stat.closed THEN "loop" ELSE IF StatsKind = "blocks" THEN "end" ELSE "over"]
    /\ UNCHANGED <<opt, finished, out, reader>>

\* The scanner gives a list, be it empty, of the lines it read to their end.
ReadLines ==
    /\ stat.pc = "loop" /\ StatsKind = "lines"
    /\ stat' = [stat EXCEPT !.pc = "read", !.given = Lines(stat.out)]
    /\ UNCHANGED <<opt, finished, out, reader>>

\* The buffer with what a read found in the file: all blocks that end in it are
\* given; a read that found nothing gives none.
Filled ==
    IF stat.pos < stat.out THEN [stat EXCEPT !.pos = stat.out, !.given = Blocks(stat.out)] ELSE stat

ReadBlocks ==
    /\ stat.pc = "loop" /\ StatsKind = "blocks" /\ stat.pos < stat.out
    /\ IF Filled.given = stat.given THEN NoStats(Filled) ELSE stat' = [Filled EXCEPT !.pc = "read"]
    /\ UNCHANGED <<opt, finished, out, reader>>

ReadNoBlocks ==
    /\ stat.pc = "loop" /\ StatsKind = "blocks" /\ stat.pos = stat.out
    /\ stat' = [stat EXCEPT !.pc = "line"]
    /\ UNCHANGED <<opt, finished, out, reader>>

\* After a read that found nothing, readline puts the next line into the buffer:
\* if it ends a block, that waits for the next read that finds something.
BlocksLine ==
    /\ stat.pc = "line"
    /\ LET upto == Min({stat.out, stat.pos + 1}) IN
        NoStats([stat EXCEPT !.pos = upto, !.lined = IF upto > stat.pos THEN @ \cup {upto} ELSE @])
    /\ UNCHANGED <<opt, finished, out, reader>>

\* Mutant: the blocks are not read once more after close.
BlocksLeft ==
    /\ stat.pc = "end"
    /\ stat' = [stat EXCEPT !.pc = "over"]
    /\ UNCHANGED <<opt, finished, out, reader>>

\* Once closed, Phantom's reader reads until a read gives no block; what is in the
\* buffer by then stays there.
BlocksEnd ==
    /\ stat.pc = "end"
    /\ stat' = [Filled EXCEPT !.pc = IF Filled.given = stat.given THEN "over" ELSE "end"]
    /\ UNCHANGED <<opt, finished, out, reader>>

\* The queue of chunks.
TakeChunk ==
    /\ stat.pc = "read" /\ StatsKind = "queue" /\ stat.buffer # << >>
    /\ opt.gen = "jmeter" => ~reader.closed
    /\ stat' = [stat EXCEPT !.given = Append(@, stat.buffer[1]), !.buffer = Tail(@)]
    /\ UNCHANGED <<opt, finished, out, reader>>

\* ShootExec's source finds its queue empty, and then looks whether the results
\* are over: what was put into the queue between the two stays there.
ShootExecQueueEmpty ==
    /\ stat.pc = "read" /\ StatsKind = "queue" /\ opt.gen = "shootexec" /\ stat.buffer = << >>
    /\ stat' = [stat EXCEPT !.pc = "empty", !.seen = Len(reader.given)]
    /\ UNCHANGED <<opt, finished, out, reader>>

ShootExecQueueOver ==
    /\ stat.pc = "empty"
    /\ IF reader.closed THEN stat' = [stat EXCEPT !.pc = "over"] ELSE NoStats(stat)
    /\ UNCHANGED <<opt, finished, out, reader>>

\* JMeter's leaves what is in it when the reader is closed, and then, or when it
\* had nothing for too long, says that the aggregator is finished.
JMeterQueueOver ==
    /\ stat.pc = "read" /\ StatsKind = "queue" /\ opt.gen = "jmeter" /\ (reader.closed \/ stat.buffer = << >>)
    /\ stat' = [stat EXCEPT !.pc = "over", !.gaveUp = ~reader.closed]
    /\ reader' = [reader EXCEPT !.agg = TRUE]
    /\ UNCHANGED <<opt, finished, out>>

\* __next__ of PandoraStatsReader: zeros without expvar; else the poller is
\* started by the first call.
ExpvarNext ==
    /\ stat.pc = "read" /\ StatsKind = "expvar"
    /\ stat' = CASE stat.closed -> [stat EXCEPT !.pc = "over"]
                 [] ~stat.closed /\ ~opt.conf.expvar -> stat
                 [] ~stat.closed /\ opt.conf.expvar /\ stat.poller = "none" -> [stat EXCEPT !.pc = "start"]
                 [] OTHER -> [stat EXCEPT !.pc = "swap"]
    /\ UNCHANGED <<opt, finished, out, reader>>

\* close may have come since closed was read: then nobody stops the poller.
StartPoller ==
    /\ stat.pc = "start"
    /\ stat' = [stat EXCEPT !.pc = "swap", !.poller = IF stat.closed THEN "late" ELSE "runs"]
    /\ UNCHANGED <<opt, finished, out, reader>>

\* get_data returns the list and leaves a new one; the poller may have its eye on
\* the one before.
Follows(list) == IF stat.pending = 0 THEN "buffer" ELSE IF list = "buffer" THEN "taken" ELSE "none"

Swap ==
    /\ stat.pc = "swap"
    /\ stat' = [stat EXCEPT !.pc = "iterate", !.taken = stat.buffer, !.buffer = << >>, !.list = Follows(@)]
    /\ UNCHANGED <<opt, finished, out, reader>>

Iterated ==
    /\ stat.pc = "iterate"
    /\ stat' = [stat EXCEPT !.pc = "read", !.given = @ \o stat.taken, !.taken = << >>,
                            !.list = IF @ = "taken" THEN "none" ELSE @]
    /\ UNCHANGED <<opt, finished, out, reader>>

StatThread ==
    \/ LookClosed \/ ReadLines
    \/ ReadBlocks \/ ReadNoBlocks \/ BlocksLine \/ BlocksEnd
    \/ TakeChunk \/ ShootExecQueueEmpty \/ ShootExecQueueOver \/ JMeterQueueOver
    \/ ExpvarNext \/ StartPoller \/ Swap \/ Iterated

\* The poller asks once a second, and dies of an answer it cannot decode.
Fetch ==
    /\ stat.poller \in {"runs", "late"} /\ stat.pending = 0 /\ stat.out < opt.seconds
    /\ \/ stat' = [stat EXCEPT !.out = @ + 1, !.pending = stat.out + 1]
       \/ stat' = [stat EXCEPT !.poller = "dead"]
    /\ UNCHANGED <<opt, finished, out, reader>>

\* The second is appended to the list that was there when the poller looked, be
\* it the one that is iterated over, or one nobody has any more.
AppendSecond ==
    /\ stat.pending # 0
    /\ stat' = [stat EXCEPT !.pending = 0, !.list = "buffer",
                            !.buffer = IF stat.list = "buffer" THEN Append(@, stat.pending) ELSE @,
                            !.taken  = IF stat.list = "taken" THEN Append(@, stat.pending) ELSE @]
    /\ UNCHANGED <<opt, finished, out, reader>>

PollerStops ==
    /\ stat.poller = "told" /\ stat.pending = 0
    /\ stat' = [stat EXCEPT !.poller = "dead"]
    /\ UNCHANGED <<opt, finished, out, reader>>

StatPoller == Fetch \/ AppendSecond \/ PollerStops

\* close() of the reader of statistics; Pandora's also stops a poller it sees alive.
Closed ==
    [stat EXCEPT !.closed = TRUE, !.atClose = stat.out,
                 !.poller = IF stat.poller = "runs" THEN "told" ELSE @]
=============================================================================
