------------------------------ MODULE PhoutReader ------------------------------
(***************************************************************************)
(* How the answers of a load generator get from its output file to the     *)
(* aggregator: the generator appends to the file, a FileMultiReader        *)
(* (yandextank/common/util.py) lets several readers share one open file    *)
(* under a lock, a PhantomReader (plugins/Phantom/reader.py) cuts what it  *)
(* reads at the last end of line, and a poller (aggregator/aggregator.py)  *)
(* asks it again until it is over or gives nothing for too long.  The      *)
(* plugin sets the stop event when its process is gone.                    *)
(*                                                                         *)
(* A character is its position in the file; those in Newlines end a line.  *)
(* Names that Generators has too are told apart from its: ReaderProofs     *)
(* speaks of both.                                                         *)
(***************************************************************************)
EXTENDS Integers, Sequences, FiniteSetsExt, SequencesExt

CONSTANTS
    Readers,     \* the readers of the file
    Newlines,    \* the characters that end a line
    Size,        \* bound: characters the generator writes
    CacheSize,   \* characters a reader asks for
    MaxIdle,     \* times the poller waits for a reader that gives nothing
    Waits        \* end_test waits for the process it told to stop (Phantom does, Pandora does not)

ReaderAssumption ==
    /\ Newlines \in SUBSET Nat
    /\ Size \in Nat
    /\ CacheSize \in Nat \ {0}
    /\ MaxIdle \in Nat
    /\ Waits \in BOOLEAN

ASSUME ReaderAssumption

Chars == 1 .. Size

VARIABLES
    written,     \* characters in the file
    process,     \* the generator's process: "runs", "told" to stop, "gone"
    worker,      \* the plugin: "polls", "ends" the test, is "over"
    stop,        \* the stop event of the readers
    locked,      \* _is_locked
    pos,         \* position of the file object all readers share
    pc,          \* each reader: see TypeOK
    cursor,      \* its position
    result,      \* what it just read
    buffer,      \* the line it has a part of
    parsed,      \* all it gave to the parser (history)
    idle,        \* wait_counter of its poller
    stopBefore   \* the stop event was set when it began to read (history)

generator == <<written, process, worker, stop>>
file == <<locked, pos>>
readers == <<pc, cursor, result, buffer, parsed, idle, stopBefore>>

phoutVars == <<generator, file, readers>>

PhoutInit ==
    /\ written = 0
    /\ process = "runs" /\ worker = "polls" /\ stop = FALSE
    /\ locked = FALSE /\ pos = 0
    /\ pc = [r \in Readers |-> "lock"]
    /\ cursor = [r \in Readers |-> 0]
    /\ result = [r \in Readers |-> << >>]
    /\ buffer = [r \in Readers |-> << >>]
    /\ parsed = [r \in Readers |-> << >>]
    /\ idle = [r \in Readers |-> 0]
    /\ stopBefore = [r \in Readers |-> FALSE]

-----------------------------------------------------------------------------
(***************************************************************************)
(* The generator and its plugin                                            *)
(***************************************************************************)

Write ==
    /\ process # "gone"
    /\ written' \in written + 1 .. Size
    /\ UNCHANGED <<process, worker, stop, file, readers>>

ProcessExits ==
    /\ process # "gone"
    /\ process' = "gone"
    /\ UNCHANGED <<written, worker, stop, file, readers>>

\* is_test_finished or end_test sees the return code of the process.
SeenGone ==
    /\ worker = "polls" /\ process = "gone"
    /\ stop' = TRUE
    /\ worker' = "over"
    /\ UNCHANGED <<written, process, file, readers>>

Terminate ==
    /\ worker = "polls" /\ process = "runs"
    /\ process' = "told"
    /\ worker' = "ends"
    /\ UNCHANGED <<written, stop, file, readers>>

\* After communicate(), in the plugin that calls it.
Terminated ==
    /\ worker = "ends"
    /\ Waits => process = "gone"
    /\ stop' = TRUE
    /\ worker' = "over"
    /\ UNCHANGED <<written, process, file, readers>>

-----------------------------------------------------------------------------
(***************************************************************************)
(* read_with_lock                                                          *)
(***************************************************************************)

Goto(r, place) == pc' = [pc EXCEPT ![r] = place]

\* Mutant: the file is taken while another reader has it.
LockShared(r) ==
    /\ pc[r] = "lock"
    /\ locked' = TRUE
    /\ stopBefore' = [stopBefore EXCEPT ![r] = stop]
    /\ Goto(r, "seek")
    /\ UNCHANGED <<generator, pos, cursor, result, buffer, parsed, idle>>

Lock(r) ==
    /\ pc[r] = "lock" /\ ~locked
    /\ locked' = TRUE
    /\ stopBefore' = [stopBefore EXCEPT ![r] = stop]
    /\ Goto(r, "seek")
    /\ UNCHANGED <<generator, pos, cursor, result, buffer, parsed, idle>>

\* The retries last ten seconds; their error ends the reader.
LockTimeout(r) ==
    /\ pc[r] = "lock" /\ locked
    /\ Goto(r, "failed")
    /\ UNCHANGED <<generator, file, cursor, result, buffer, parsed, idle, stopBefore>>

Seek(r) ==
    /\ pc[r] = "seek"
    /\ pos' = cursor[r]
    /\ Goto(r, "read")
    /\ UNCHANGED <<generator, locked, cursor, result, buffer, parsed, idle, stopBefore>>

\* As many characters as there are, at most CacheSize.
Read(r) ==
    /\ pc[r] = "read"
    /\ LET n == IF written - pos < CacheSize THEN written - pos ELSE CacheSize IN
          /\ result' = [result EXCEPT ![r] = [i \in 1 .. n |-> pos + i]]
          /\ pos' = pos + n
    /\ Goto(r, "tell")
    /\ UNCHANGED <<generator, locked, cursor, buffer, parsed, idle, stopBefore>>

Tell(r) ==
    /\ pc[r] = "tell"
    /\ cursor' = [cursor EXCEPT ![r] = pos]
    /\ locked' = FALSE
    /\ Goto(r, "check")
    /\ UNCHANGED <<generator, pos, result, buffer, parsed, idle, stopBefore>>

\* Mutant: the reader waits for the rest of the line it has a part of.
OverOnlyAtLine(r) ==
    /\ pc[r] = "check"
    /\ result[r] = << >> /\ stop
    /\ buffer[r] = << >>
    /\ Goto(r, "over")
    /\ UNCHANGED <<generator, file, cursor, result, buffer, parsed, idle, stopBefore>>

\* not result and self.stop.is_set(): the iteration is over.
Over(r) ==
    /\ pc[r] = "check"
    /\ result[r] = << >> /\ stop
    /\ Goto(r, "over")
    /\ UNCHANGED <<generator, file, cursor, result, buffer, parsed, idle, stopBefore>>

-----------------------------------------------------------------------------
(***************************************************************************)
(* PhantomReader.__next__ and the poller                                   *)
(***************************************************************************)

\* The ends of lines in a text.
Ends(text) == {i \in DOMAIN text : text[i] \in Newlines}

Part(text, from, to) == [i \in 1 .. to - from |-> text[from + i]]

\* Nothing for the chopper: the poller waits, or gives up.
Nothing(r) ==
    IF idle[r] < MaxIdle
    THEN idle' = [idle EXCEPT ![r] = @ + 1] /\ Goto(r, "lock")
    ELSE Goto(r, "gaveUp") /\ UNCHANGED idle

\* No end of line: the text is a part of the line in the buffer.
Buffered(r) ==
    /\ pc[r] = "check"
    /\ ~(result[r] = << >> /\ stop)
    /\ Ends(result[r]) = {}
    /\ buffer' = [buffer EXCEPT ![r] = @ \o result[r]]
    /\ Nothing(r)
    /\ UNCHANGED <<generator, file, cursor, result, parsed, stopBefore>>

\* The text is cut at its last end of line; the parser makes rows of the lines,
\* or logs that it cannot and gives nothing.
Parsed(r) ==
    /\ pc[r] = "check"
    /\ \E cut \in Ends(result[r]) :
          /\ \A i \in Ends(result[r]) : i <= cut
          /\ parsed' = [parsed EXCEPT ![r] = @ \o buffer[r] \o Part(result[r], 0, cut)]
          /\ buffer' = [buffer EXCEPT ![r] = Part(result[r], cut, Len(result[r]))]
    /\ \/ idle' = [idle EXCEPT ![r] = 0] /\ Goto(r, "lock")
       \/ Nothing(r)
    /\ UNCHANGED <<generator, file, cursor, result, stopBefore>>

Generator == Write \/ ProcessExits

Plugin == SeenGone \/ Terminate \/ Terminated

Reader(r) ==
    \/ Lock(r) \/ LockTimeout(r) \/ Seek(r) \/ Read(r) \/ Tell(r)
    \/ Over(r) \/ Buffered(r) \/ Parsed(r)

PhoutNext == Generator \/ Plugin \/ \E r \in Readers : Reader(r)

PhoutSpec == PhoutInit /\ [][PhoutNext]_phoutVars

\* Each reader is drained by a thread of its own.
FairPhoutSpec == PhoutSpec /\ \A r \in Readers : WF_phoutVars(Reader(r))

-----------------------------------------------------------------------------
(***************************************************************************)
(* Properties                                                              *)
(***************************************************************************)

Stopped == {"over", "gaveUp", "failed"}

\* The types of the state.
TypeOK ==
    /\ written \in 0 .. Size
    /\ process \in {"runs", "told", "gone"}
    /\ worker \in {"polls", "ends", "over"}
    /\ stop \in BOOLEAN /\ locked \in BOOLEAN
    /\ pos \in 0 .. Size
    /\ pc \in [Readers -> {"lock", "seek", "read", "tell", "check"} \union Stopped]
    /\ cursor \in [Readers -> 0 .. Size]
    /\ result \in [Readers -> Seq(Chars)]
    /\ buffer \in [Readers -> Seq(Chars)]
    /\ parsed \in [Readers -> Seq(Chars)]
    /\ idle \in [Readers -> 0 .. MaxIdle]
    /\ stopBefore \in [Readers -> BOOLEAN]

\* What a reader had, to the parser and in the buffer, is the file from its
\* beginning: nothing is skipped, read twice or taken from another reader's
\* position; and the parser got whole lines, all that are complete.
ReadsTheFile ==
    \A r \in Readers :
        /\ LET text == parsed[r] \o buffer[r] IN \A i \in DOMAIN text : text[i] = i
        /\ parsed[r] # << >> => Len(parsed[r]) \in Newlines
        /\ Ends(buffer[r]) = {}

\* The parser got every complete line of the file.
AllParsed(r) == \A n \in Newlines : n \in 1 .. written => n <= Len(parsed[r])

\* A reader that is over has read it all when the stop event was set before it
\* began its last read, and the plugin had waited for the process.
QuietEndReadsAll == \A r \in Readers : Waits /\ pc[r] = "over" /\ stopBefore[r] => AllParsed(r)

\* A reader gives the lines of the file and nothing else, and after an event
\* that came in time all of them.
ReadsWhole == ReadsTheFile /\ QuietEndReadsAll

\* The readers end after the stop event, whoever holds the lock.
ReadersEnd == \A r \in Readers : stop ~> pc[r] \in Stopped
=============================================================================
