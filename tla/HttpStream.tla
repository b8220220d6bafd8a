----------------------------- MODULE HttpStream -----------------------------
(***************************************************************************)
(* HttpBytesStreamWrapper (netort/resource.py): a large ammo file that is  *)
(* read from its HTTP stream as if it were a file.  It keeps what it got   *)
(* of the stream and was not asked for in a buffer, and starts the stream  *)
(* again to go back.  Beside it is the position in the file it stands for. *)
(***************************************************************************)
EXTENDS Integers, SequencesExt, FiniteSetsExt

CONSTANTS
    Texts,      \* the files there may be: sequences of bytes
    ChunkSize,  \* bytes that one step of the stream's iterator gives
    Sizes       \* how many bytes a reader may ask for

VARIABLE hs     \* the wrapper, and the file: text, pos, got and wanted

NL == "nl"

\* The bytes there are in the files.
Bytes == UNION {ToSet(text) : text \in Texts}

ASSUME StreamAssumption == Texts \subseteq Seq(Bytes) /\ ChunkSize \in Nat \ {0} /\ Sizes \subseteq Nat

StreamInit ==
    \E text \in Texts :
        hs = [text |-> text, buffer |-> << >>, pointer |-> 0, left |-> text, open |-> TRUE,
              pos |-> 0, got |-> << >>, wanted |-> << >>]

-----------------------------------------------------------------------------
\* The buffer after n steps of the iterator; fewer when the stream ends.
Enhanced(s, n) == LET size == Min({n * ChunkSize, Len(s.left)})
                  IN  [s EXCEPT !.buffer = @ \o SubSeq(s.left, 1, size),
                                !.left = SubSeq(s.left, size + 1, Len(s.left))]

\* The numbers of steps after which the buffer has a line, and n bytes.
LineAfter(s) == {k \in 0..Len(s.left) : NL \in ToSet(Enhanced(s, k).buffer)}
BytesAfter(s, n) == {k \in 0..Len(s.left) : Len(Enhanced(s, k).buffer) >= n}

\* The least of these steps, or all there are.
EnhancedUntil(s, enough) == Enhanced(s, Min(enough \cup {Len(s.left)}))

\* The first n bytes of the buffer are given out.
GiveOut(s, n) == [s EXCEPT !.got = SubSeq(s.buffer, 1, n), !.pointer = @ + n,
                        !.buffer = SubSeq(s.buffer, n + 1, Len(s.buffer))]

LineEnd(bytes) == IF NL \in ToSet(bytes) THEN SelectInSeq(bytes, LAMBDA b : b = NL) ELSE Len(bytes)

\* __next__ and readline: at the end of the stream what is left is a line.
ReadLine(s) == LET full == EnhancedUntil(s, LineAfter(s))
               IN  GiveOut(full, LineEnd(full.buffer))

ReadBytes(s, n) == LET full == EnhancedUntil(s, BytesAfter(s, n))
                   IN  GiveOut(full, Min({n, Len(full.buffer)}))

\* Mutant: what was buffered stays when the stream is started again.
SeekKeeps(s, p) ==
    IF s.pointer = 0 THEN s
    ELSE LET again == Enhanced([s EXCEPT !.left = s.text], 1)
             full  == EnhancedUntil(again, BytesAfter(again, p))
         IN  [full EXCEPT !.pointer = p, !.buffer = SubSeq(@, p + 1, Len(@))]

\* seek: nothing before the first byte was read; else the stream is started
\* again and skipped up to the position.
SeekTo(s, p) ==
    IF s.pointer = 0 THEN s
    ELSE LET again == Enhanced([s EXCEPT !.buffer = << >>, !.left = s.text], 1)
             full  == EnhancedUntil(again, BytesAfter(again, p))
         IN  [full EXCEPT !.pointer = p, !.buffer = SubSeq(@, p + 1, Len(@))]

\* What the file itself gives.
InFile(s, n) == [s EXCEPT !.wanted = SubSeq(s.text, s.pos + 1, Min({s.pos + n, Len(s.text)})),
                          !.pos = Min({s.pos + n, Len(s.text)})]
FileLine(s) == InFile(s, LineEnd(SubSeq(s.text, s.pos + 1, Len(s.text))))

-----------------------------------------------------------------------------
StreamLine == hs.open /\ hs' = FileLine(ReadLine(hs))
StreamRead == hs.open /\ \E n \in Sizes : hs' = InFile(ReadBytes(hs, n), n)

\* The readers go back to the start only; the connection may be refused, and
\* the exception ends the reader.
StreamSeek == hs.open /\ hs' = [SeekTo(hs, 0) EXCEPT !.pos = 0, !.got = << >>, !.wanted = << >>]
StreamRefused == hs.open /\ hs.pointer > 0 /\ hs' = [hs EXCEPT !.buffer = << >>, !.open = FALSE]

StreamNext == StreamLine \/ StreamRead \/ StreamSeek \/ StreamRefused

StreamSpec == StreamInit /\ [][StreamNext]_hs

\* What a reader gets is what the file has at the place the reader is at,
\* and tell() says that place, however reads of lines and of bytes follow
\* each other, wherever the stream is cut into chunks, and after every
\* return to the start.
StreamIsFile == hs.open => hs.got = hs.wanted /\ hs.pointer = hs.pos
=============================================================================
