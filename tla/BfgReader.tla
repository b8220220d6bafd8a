------------------------------ MODULE BfgReader ------------------------------
(***************************************************************************)
(* The results of BFG on their way to the report file                      *)
(* (yandextank/plugins/Bfg/reader.py BfgReader, and the thread             *)
(* _write_results_into_file of the plugin): a cacher thread moves them     *)
(* from the queue to a list, and the listener thread swaps the list for an *)
(* empty one, turns it into rows and appends these to the file.            *)
(*                                                                         *)
(* The cacher evaluates self.records.append before results.get(), so the   *)
(* list it holds may be swapped away before the result is appended.  The   *)
(* two are one step here: a swap between them counts as one after the get. *)
(***************************************************************************)
EXTENDS Naturals, Sequences

VARIABLES
    results,     \* the queue of results, filled by the processes of the pool
    closeEvent,  \* the event of the plugin
    cacher,      \* the cacher thread: "get", "append", "empty", "over"
    target,      \* the list it holds: "records", "taken", or "orphan" that nobody reads
    item,        \* the result it holds, as a sequence of at most one
    records,     \* the list self.records
    listener,    \* the listener thread: "look", "convert", "join", "over"
    taken,       \* the list it swapped away
    report,      \* the report file
    orphaned     \* history: results appended to a list nobody reads

caching == <<cacher, target, item>>
listening == <<listener, taken, report>>

ReaderInit ==
    /\ cacher = "get" /\ target = "records" /\ item = << >>
    /\ records = << >> /\ orphaned = << >>
    /\ listener = "look" /\ taken = << >> /\ report = << >>

-----------------------------------------------------------------------------
(* _cacher *)

\* self.records.append is looked up, self.results.get(block=False) called.
Get ==
    /\ cacher = "get"
    /\ IF results # << >>
       THEN item' = <<Head(results)>> /\ results' = Tail(results) /\ cacher' = "append"
       ELSE cacher' = "empty" /\ UNCHANGED <<item, results>>
    /\ UNCHANGED <<target, listening, records, orphaned, closeEvent>>

\* The result goes to the list that was looked up: the current one, the one the
\* listener is about to turn into rows, or one nobody reads any more.
AppendItem ==
    /\ cacher = "append"
    /\ \/ target = "records" /\ records' = records \o item /\ UNCHANGED <<taken, orphaned>>
       \/ target = "taken" /\ taken' = taken \o item /\ UNCHANGED <<records, orphaned>>
       \/ target = "orphan" /\ orphaned' = orphaned \o item /\ UNCHANGED <<records, taken>>
    /\ item' = << >> /\ target' = "records" /\ cacher' = "get"
    /\ UNCHANGED <<listener, report, results, closeEvent>>

\* Empty: the thread sleeps or, when the reader is closed, ends.
LookClosed ==
    /\ cacher = "empty"
    /\ cacher' = IF closeEvent THEN "over" ELSE "get"
    /\ UNCHANGED <<target, item, listening, records, orphaned, results, closeEvent>>

Cacher == Get \/ AppendItem \/ LookClosed

-----------------------------------------------------------------------------
(* __next__ and the loop of _write_results_into_file *)

\* Mutant: the list is taken and not replaced.
SwapKeeps ==
    /\ listener = "look" /\ ~closeEvent
    /\ taken' = records
    /\ listener' = IF records = << >> THEN "look" ELSE "convert"
    /\ UNCHANGED <<report, records, caching, orphaned, results, closeEvent>>

\* The list is swapped under the lock, which the cacher does not take.  An empty
\* list gives None, nothing to write.
Swap ==
    /\ listener = "look" /\ ~closeEvent
    /\ records' = << >>
    /\ taken' = records
    /\ listener' = IF records = << >> THEN "look" ELSE "convert"
    /\ target' = IF cacher # "append" THEN target
                 ELSE IF target = "records" /\ records # << >> THEN "taken"
                 ELSE "orphan"
    /\ UNCHANGED <<report, cacher, item, orphaned, results, closeEvent>>

\* records_to_df, and the rows are appended to the file.
Write ==
    /\ listener = "convert"
    /\ report' = report \o taken
    /\ taken' = << >>
    /\ target' = IF target = "taken" THEN "orphan" ELSE target
    /\ listener' = "look"
    /\ UNCHANGED <<cacher, item, records, orphaned, results, closeEvent>>

Closed ==
    /\ listener = "look" /\ closeEvent
    /\ listener' = "join"
    /\ UNCHANGED <<taken, report, caching, records, orphaned, results, closeEvent>>

\* thread.join() and StopIteration: what records holds by now is not returned.
CacherJoined ==
    /\ listener = "join" /\ cacher = "over"
    /\ listener' = "over"
    /\ UNCHANGED <<taken, report, caching, records, orphaned, results, closeEvent>>

Listener == Swap \/ Write \/ Closed \/ CacherJoined

ReaderNext == Cacher \/ Listener
=============================================================================
