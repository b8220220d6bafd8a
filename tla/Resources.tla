----------------------------- MODULE Resources ------------------------------
(***************************************************************************)
(* Openers of netort/resource.py: a local file, a file of an HTTP server   *)
(* and an object of S3, downloaded to a temporary file that all tanks of a *)
(* machine share and use again.  A run of a tank opens its ammo file when  *)
(* it names the stepped file, when it finds out the type of the ammo, and  *)
(* when it reads the ammo.  The file on the server may be replaced.        *)
(*                                                                         *)
(* A content is a version of the file and whether it is all of it.         *)
(***************************************************************************)
EXTENDS Integers, SequencesExt, FiniteSetsExt

CONSTANTS
    Runs,       \* runs of a tank, 1..n
    Attempts    \* of an opener: a call is made once more than that

ASSUME RunsAssumption == \A r \in Runs : r \in Nat \ {0} /\ 1..r \subseteq Runs

VARIABLES
    opt,        \* the configuration all runs share
    server,     \* version of the file, faults and kills left, torn
    disk,       \* tmp, stpd and si: files by the hash in their names
    run         \* for every run: where it is and what it has

Unhashed == 0   \* the hash of what has no version
Nothing == [v |-> 0, whole |-> FALSE]
Part(c) == c # Nothing /\ ~c.whole
Http == opt.source = "http"
Stored == opt.source \in {"http", "s3"}   \* read from the temporary file

Becomes(r, s) == run' = [run EXCEPT ![r] = s]
Goes(r, pc) == Becomes(r, [run[r] EXCEPT !.pc = pc])
Fails(r) == Goes(r, "failed")

\* The file a run reads: all lines of it, or those that were written so far.
Content(c) == IF c.whole THEN opt.file ELSE SubSeq(opt.file, 1, Len(opt.file) \div 2)
Open(r) == IF Stored THEN disk.tmp[run[r].opener] ELSE run[r].src
Holds(q) == run[q].pc \in {"save", "detect", "again", "read"}

-----------------------------------------------------------------------------
\* A hash of a file has the time of its last change; of an object of S3 it has
\* bucket and key only.
FileHash == server.version
S3Hash == Unhashed

\* Mutant: the hash is the url.
UrlHash == Unhashed

\* Url and Last-Modified, which an answer that HEAD is not allowed lacks.
HttpHash == IF opt.nohead THEN Unhashed ELSE server.version

Hash == CASE opt.source = "http" -> HttpHash [] opt.source = "s3" -> S3Hash [] OTHER -> FileHash

\* get_opener: the opener of an HTTP file asks for its HEAD.
OpenerFor(s, why) == [s EXCEPT !.pc = IF Stored \/ why = "name" THEN "head" ELSE "open", !.ret = why, !.tries = 0]

GetHead(r) ==
    /\ run[r].pc = "head"
    /\ Becomes(r, IF run[r].ret = "name" THEN [run[r] EXCEPT !.pc = "check", !.key = Hash]
                                         ELSE [run[r] EXCEPT !.pc = "open", !.opener = Hash, !.tries = 0])
    /\ UNCHANGED <<server, disk>>

\* @retry: every failure is tried again, and then once more.  open() is
\* retried as a whole and download_file within it.
Calls == IF Http THEN (Attempts + 1) * (Attempts + 1) ELSE Attempts + 1

Fault(r, last) ==
    /\ server.faults > 0
    /\ server' = [server EXCEPT !.faults = @ - 1]
    /\ IF run[r].tries + 1 = last THEN Fails(r) ELSE Becomes(r, [run[r] EXCEPT !.tries = @ + 1])
    /\ UNCHANGED disk

HeadFails(r) == run[r].pc = "head" /\ Http /\ Fault(r, Attempts + 1)
GetFails(r) == run[r].pc \in {"open", "get"} /\ Stored /\ Fault(r, Calls)

\* A temporary file that exists is used, whoever wrote how much of it.
OpenFile(r) ==
    /\ run[r].pc = "open"
    /\ IF ~Stored THEN Becomes(r, [run[r] EXCEPT !.pc = run[r].ret, !.src = [v |-> server.version, whole |-> TRUE]])
       ELSE Goes(r, IF opt.caching /\ disk.tmp[run[r].opener] # Nothing THEN run[r].ret ELSE "get")
    /\ server' = [server EXCEPT !.torn = @ \/ (Stored /\ opt.caching /\ Part(disk.tmp[run[r].opener]))]
    /\ UNCHANGED disk

\* The answer to GET is written in place; boto3 writes elsewhere and renames.
Get(r) ==
    /\ run[r].pc = "get"
    /\ LET now == [v |-> server.version, whole |-> ~Http]
       IN  disk' = [disk EXCEPT !.tmp[run[r].opener] = now]
    /\ Goes(r, IF Http THEN "save" ELSE run[r].ret)
    /\ server' = [server EXCEPT !.torn = @ \/ \E q \in Runs \ {r} : Holds(q) /\ run[q].opener = run[r].opener]

Save(r) ==
    /\ run[r].pc = "save"
    /\ disk' = [disk EXCEPT !.tmp[run[r].opener].whole = TRUE]
    /\ Goes(r, run[r].ret)
    /\ UNCHANGED server

\* External: another version is put on the server.
Replace ==
    /\ server.version < opt.versions
    /\ server' = [server EXCEPT !.version = @ + 1]
    /\ UNCHANGED <<disk, run>>

ResourceStep(r) == GetHead(r) \/ OpenFile(r) \/ Get(r) \/ Save(r)
=============================================================================
