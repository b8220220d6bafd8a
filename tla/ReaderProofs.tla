------------------------------ MODULE ReaderProofs ------------------------------
(***************************************************************************)
(* Proofs about what is read of a load generator: Generators, for every    *)
(* set of options and every size of a chunk, and then PhoutReader; and at  *)
(* the end about what is read of a large ammo file, HttpStream.            *)
(*                                                                         *)
(* A test has the results of its own generator, and all of them, because   *)
(* what its reader kept and what it threw away are together the text up to *)
(* its position (Reads), the file is empty or given when the process       *)
(* starts (Begun, Text), and who ended in quiet saw the end of a file      *)
(* nobody writes (QuietEnd).  Its last retcode tells a failure because the *)
(* first one was 0 only of a process that ended with 0 (Codes).  The three *)
(* parts of the invariant are kept apart: Control needs neither of the     *)
(* others; Reading and Stating need Control.  That every chunk is in the   *)
(* statistics (Tally) needs them all, and sums over sequences: they are    *)
(* folds, and a fold goes through the prefixes of what it folds            *)
(* (FoldPrefixes), as does what is told of Phantom's streams (LoadsAdd).   *)
(***************************************************************************)
EXTENDS Generators, PhoutReader, HttpStream, WellFoundedInduction, SequenceTheorems, TLAPS


\* The stages of a test before its generator runs, from the first end_test on, and
\* after all of them.
Early == {"configure", "prepare", "start"}
Shut == {"join", "after", "post", "done"}
Late == {"end", "udp", "kill", "close"} \union Shut
Stages == Early \union Late \union {"poll", "failed", "stuck"}

ProcSet == [pc : {"none", "runs", "told", "gone"}, rc : Int, child : BOOLEAN]

\* The types of the state.
TankSet == [stage : Stages, turn : 1 .. 3, port : BOOLEAN, rc : Int, first : Int]

TankTypes ==
    /\ opt \in Options
    /\ tank \in TankSet
    /\ proc \in ProcSet
    /\ finished \in BOOLEAN

ReaderSet ==
    [pc : {"none", "read", "empty", "over", "failed"}, pos : Nat, buffer : Seq(Int), given : Seq(Int),
     lost : SUBSET Int, quiet : BOOLEAN, closed : BOOLEAN, last : BOOLEAN, agg : BOOLEAN]

ReaderTypes == out \in [text : Seq(Int), written : Nat] /\ reader \in ReaderSet

StatPcs == {"none", "read", "over", "loop", "line", "end", "empty", "start", "swap", "iterate"}

StatSet ==
    [pc : StatPcs, out : Nat, pos : Nat,
     lined : SUBSET Nat, seen : Nat,
     buffer : Seq(Nat), taken : Seq(Nat), given : Seq(Nat), pending : Nat, list : {"buffer", "taken", "none"},
     poller : {"none", "runs", "told", "dead", "late"}, closed : BOOLEAN, gaveUp : BOOLEAN, atClose : Nat]

StatTypes == stat \in StatSet

TestTypes == TankTypes /\ ReaderTypes /\ StatTypes

-----------------------------------------------------------------------------
(***************************************************************************)
(* The control of a test                                                   *)
(***************************************************************************)

\* Nothing runs or is written before start_test; what is in the file by then was
\* left by an earlier run.  What a shell had started writes by itself only when the
\* shell is gone.
Begun ==
    /\ tank.stage \in Early => proc.pc = "none" /\ out.written = 0 /\ reader.pc = "none" /\ stat.pc = "none"
    /\ tank.stage \in Early /\ out.text # << >> => opt.old /\ ~(tank.stage = "start" /\ opt.gen = "pandora")
    /\ tank.stage = "poll" => reader.pc # "none"
    /\ proc.child => proc.pc = "gone"

\* What became of the first retcode on its way to the last, and what it says of
\* the process.
Codes ==
    /\ tank.stage \in {"end", "udp", "kill", "close", "join", "after"} => tank.rc = tank.first
    /\ tank.stage = "post" => tank.rc = Guarded(opt.end, tank.first)
    /\ tank.stage = "done" => tank.rc \in {1, Asserted(Guarded(opt.end, tank.first))}
    /\ tank.stage \in Late /\ reader.pc = "none" => tank.first = 1
    /\ tank.stage \in Late /\ tank.first = 0 => proc.pc = "gone" /\ proc.rc = 0
    /\ finished /\ opt.gen = "jmeter" => proc.pc = "gone"

\* Phantom and ShootExec are over, and known to be, before the others are told.
Ending ==
    /\ tank.stage = "kill" => opt.gen = "shootexec"
    /\ tank.stage = "udp" => opt.gen = "jmeter"
    /\ tank.stage \in {"close"} \union Shut /\ opt.gen \in {"phantom", "shootexec"} => finished /\ ~Alive

-----------------------------------------------------------------------------
(***************************************************************************)
(* The results                                                             *)
(***************************************************************************)

\* Characters that were in the file before the test.
Before == Len(out.text) - out.written

\* Characters of earlier runs have numbers below one, those of this run follow.
Text ==
    /\ Before >= 0
    /\ \A i \in DOMAIN out.text : out.text[i] = i - Before
    /\ reader.pc # "none" /\ ~opt.given => Before = 0

\* What the reader gave, and the part of a line it still has.
Kept == reader.given \o reader.buffer

Grows(s) == \A i \in 1 .. Len(s) - 1 : s[i] < s[i + 1]

\* What was read up to a position is kept, in order, or was thrown away.
Accounts(kept, lost, before, upto) ==
    /\ Grows(kept)
    /\ ToSet(kept) \union lost = 1 - before .. upto - before
    /\ ToSet(kept) \intersect lost = {}

Reads ==
    reader.pc # "failed" =>
        /\ reader.pos <= Len(out.text)
        /\ Accounts(Kept, reader.lost, Before, reader.pos)
        /\ \A i \in DOMAIN reader.buffer : ~EndsLine(reader.buffer[i])

\* A reader that does not exist has read nothing.
Unread == reader.pc = "none" => reader.pos = 0 /\ Kept = << >> /\ reader.lost = {} /\ ~reader.quiet

\* A reader that ended in quiet saw the end of a file nobody writes any more.
QuietEnd == reader.quiet => ~Writing /\ tank.stage \notin Early /\ reader.pos = Len(out.text)

-----------------------------------------------------------------------------
(***************************************************************************)
(* The statistics                                                          *)
(***************************************************************************)

Rising(s) == \A i, j \in DOMAIN s : i < j => s[i] < s[j]

\* The seconds of Pandora's statistics: given, taken and waiting.
All == (stat.given \o stat.taken) \o stat.buffer

\* Where the poller of Pandora appends: not to a list that is being iterated over,
\* unless it got hold of it before the swap; then nothing is in the new one.
Lists ==
    /\ stat.pc \in {"start", "swap", "iterate"} => StatsKind = "expvar"
    /\ stat.pc # "iterate" => stat.taken = << >> /\ stat.list # "taken"
    /\ stat.pending = 0 => stat.list = "buffer"
    /\ stat.list # "buffer" => stat.buffer = << >>
    /\ stat.pending # 0 => stat.pending = stat.out
    /\ StatsKind # "expvar" => stat.poller \in {"none", "dead"} /\ stat.pending = 0

\* Seconds that were fetched come in order; the one the poller has is the last.
\* Those read from a file are the first ones, each once.
Seconds ==
    /\ StatsKind = "expvar" =>
          /\ Rising(All)
          /\ \A i \in DOMAIN All : All[i] <= stat.out /\ (stat.pending # 0 => All[i] < stat.out)
    /\ StatsKind \in {"blocks", "lines"} => \A i \in DOMAIN stat.given : stat.given[i] = i

\* Where the readers of files and of queues are.
Kinds ==
    /\ stat.pc \in {"line", "end"} => StatsKind = "blocks"
    /\ stat.pc = "loop" => StatsKind \in {"blocks", "lines"}
    /\ stat.pc = "empty" => StatsKind = "queue"

\* The blocks that were given end where the last read that found something came to;
\* readlines took what is behind.  A drain that is over, and did not give up, had
\* come to the end of the file, or to where it was when it was closed.
AllBlocks ==
    /\ stat.closed => tank.stage \in Shut
    /\ stat.atClose <= stat.out
    /\ StatsKind = "blocks" =>
          /\ stat.pos <= stat.out /\ 2 * Len(stat.given) <= stat.pos
          /\ \A h \in 2 * Len(stat.given) + 2 .. stat.pos : h \in stat.lined
          /\ stat.pc = "end" => stat.closed
          /\ stat.pc = "over" /\ ~stat.gaveUp => stat.closed /\ stat.atClose <= stat.pos

\* The inductive invariant of a test.
TestInv ==
    /\ TestTypes
    /\ Begun /\ Codes /\ Ending
    /\ Text /\ Unread /\ Reads /\ QuietEnd
    /\ Lists /\ Kinds /\ Seconds /\ AllBlocks
-----------------------------------------------------------------------------
(***************************************************************************)
(* Where a text is cut                                                     *)
(***************************************************************************)

\* A set of natural numbers has a least member, and one that is bounded a greatest.
LEMMA LeastExists ==
    ASSUME NEW S, S \subseteq Nat, S # {}
    PROVE  \E x \in S : \A y \in S : x <= y
  <1> DEFINE less == {p \in Nat \X Nat : p[1] < p[2]}
  <1>1. IsWellFoundedOn(less, Nat)
    BY NatLessThanWellFounded, Zenon DEF OpToRel
  <1>2. PICK x \in S : \A y \in S : ~(<<y, x>> \in less)
    <2> HIDE DEF less
    <2> QED BY <1>1, WFMin
  <1>3. \A y \in S : ~(y < x)
    BY <1>2
  <1> QED BY <1>3

LEMMA GreatestExists ==
    ASSUME NEW n \in Nat, NEW S, S \subseteq 0 .. n, S # {}
    PROVE  \E x \in S : \A y \in S : x >= y
  <1> DEFINE T == {n - y : y \in S}
  <1>1. T \subseteq Nat /\ T # {}
    <2>1. PICK y : y \in S
      OBVIOUS
    <2>2. n - y \in T
      BY <2>1
    <2> QED BY <2>2
  <1>2. PICK t \in T : \A u \in T : t <= u
    BY <1>1, LeastExists
  <1>3. PICK x \in S : t = n - x
    OBVIOUS
  <1>4. ASSUME NEW y \in S PROVE x >= y
    <2>1. t <= n - y
      BY <1>2
    <2> QED BY <1>3, <2>1
  <1> QED BY <1>4

\* Min and Max are those members.
LEMMA MinIs ==
    ASSUME NEW S, S \subseteq Nat, S # {}
    PROVE  Min(S) \in S /\ \A y \in S : Min(S) <= y
  BY LeastExists DEF Min

LEMMA MaxIs ==
    ASSUME NEW n \in Nat, NEW S, S \subseteq 0 .. n, S # {}
    PROVE  Max(S) \in S /\ \A y \in S : Max(S) >= y
  BY GreatestExists DEF Max

\* What comes after a position, in the words the provers need.
LEMMA PartIs ==
    ASSUME NEW text \in Seq(Int), NEW from \in 0 .. Len(text), NEW to \in from .. Len(text)
    PROVE  /\ SubSeq(text, from + 1, to) \in Seq(Int)
           /\ Len(SubSeq(text, from + 1, to)) = to - from
           /\ \A i \in 1 .. to - from : SubSeq(text, from + 1, to)[i] = text[from + i]
  <1>1. Len(text) \in Nat /\ \A i \in from + 1 .. to : text[i] \in Int
    BY LenProperties
  <1> QED BY <1>1, SubSeqProperties

\* A text is what it has of whole lines, and the rest, in which no line ends.
LEMMA CutText ==
    ASSUME NEW text \in Seq(Int)
    PROVE  /\ Whole(text) \in Seq(Int) /\ Rest(text) \in Seq(Int)
           /\ Whole(text) \o Rest(text) = text
           /\ \A i \in DOMAIN Rest(text) : ~EndsLine(Rest(text)[i])
  <1> DEFINE cut == Max({0} \cup LineEnds(text))
  <1>1. Len(text) \in Nat /\ DOMAIN text = 1 .. Len(text) /\ {0} \cup LineEnds(text) \subseteq 0 .. Len(text)
    BY LenProperties DEF LineEnds
  <1>2. cut \in 0 .. Len(text) /\ \A i \in LineEnds(text) : cut >= i
    BY <1>1, MaxIs
  <1> HIDE DEF cut
  <1>3. Whole(text) = SubSeq(text, 1, cut) /\ Rest(text) = SubSeq(text, cut + 1, Len(text))
    BY DEF Whole, Rest, cut
  <1>4. SubSeq(text, 1, cut) \in Seq(Int)
    <2>1. SubSeq(text, 0 + 1, cut) \in Seq(Int)
      BY <1>1, <1>2, PartIs
    <2> QED BY <2>1
  <1>5. /\ SubSeq(text, cut + 1, Len(text)) \in Seq(Int)
        /\ Len(SubSeq(text, cut + 1, Len(text))) = Len(text) - cut
        /\ \A i \in 1 .. Len(text) - cut : SubSeq(text, cut + 1, Len(text))[i] = text[cut + i]
    <2>1. cut \in 0 .. Len(text) /\ Len(text) \in cut .. Len(text)
      BY <1>1, <1>2
    <2> QED BY <2>1, PartIs
  <1>6. SubSeq(text, 1, cut) \o SubSeq(text, cut + 1, Len(text)) = text
    <2>1. SubSeq(text, 1, cut) \o SubSeq(text, cut + 1, Len(text)) = SubSeq(text, 1, Len(text))
      <3>1. 1 \in 1 .. Len(text) + 1 /\ cut \in 1 - 1 .. Len(text) /\ Len(text) \in cut .. Len(text)
        BY <1>1, <1>2
      <3> QED BY <3>1, ConcatAdjacentSubSeq
    <2> QED BY <2>1, SubSeqFull
  <1>7. ASSUME NEW i \in DOMAIN Rest(text) PROVE ~EndsLine(Rest(text)[i])
    <2>1. i \in 1 .. Len(text) - cut /\ Rest(text)[i] = text[cut + i]
      BY <1>3, <1>5, LenProperties
    <2>2. cut + i \in DOMAIN text /\ cut + i \notin LineEnds(text)
      BY <1>1, <1>2, <2>1
    <2> QED BY <2>1, <2>2 DEF LineEnds
  <1> QED BY <1>3, <1>4, <1>5, <1>6, <1>7
-----------------------------------------------------------------------------
(***************************************************************************)
(* Folds: a fold over a sequence goes through its prefixes.                *)
(***************************************************************************)

LEMMA NatSet ==
    ASSUME NEW T, 0 \in T, \A n \in Nat : n \in T => n + 1 \in T
    PROVE  Nat \subseteq T
  <1> SUFFICES ASSUME Nat \ T # {} PROVE FALSE
    OBVIOUS
  <1>1. PICK x \in Nat \ T : \A y \in Nat \ T : x <= y
    <2>1. Nat \ T \subseteq Nat
      OBVIOUS
    <2> QED BY <2>1, LeastExists
  <1>2. x # 0 /\ x - 1 \in Nat /\ x - 1 \notin Nat \ T
    BY <1>1
  <1> QED BY <1>1, <1>2

LEMMA LargestOf ==
    ASSUME NEW n \in Nat, NEW s \in SUBSET (1..n), s # {}
    PROVE  Max(s) \in s /\ \A x \in s : Max(s) >= x
  <1>1. s \subseteq 0..n
    OBVIOUS
  <1> QED BY <1>1, MaxIs

\* g folds the sets of places with a step on a place and a value.
IsFold(g, n, V, base, step) ==
    /\ g \in [SUBSET (1..n) -> V]
    /\ \A s \in SUBSET (1..n) : g[s] = IF s = {} THEN base ELSE step[<<Max(s), g[s \ {Max(s)}]>>]

LEMMA FoldGrows ==
    ASSUME NEW V, NEW n \in Nat, NEW base \in V, NEW step \in [(1..n) \X V -> V],
           NEW m \in Nat, m + 1 <= n, NEW g, IsFold(g, m, V, base, step)
    PROVE  \E h : IsFold(h, m + 1, V, base, step)
  <1> DEFINE k == m + 1
             h == [s \in SUBSET (1..k) |-> IF k \in s THEN step[<<k, g[s \ {k}]>>] ELSE g[s]]
  <1>1. /\ g \in [SUBSET (1..m) -> V] /\ k \in 1..n
        /\ \A s \in SUBSET (1..m) : g[s] = IF s = {} THEN base ELSE step[<<Max(s), g[s \ {Max(s)}]>>]
    BY DEF IsFold
  <1>2. ASSUME NEW s \in SUBSET (1..k)
        PROVE  s \ {k} \in SUBSET (1..m) /\ s \ {k} \in SUBSET (1..k) /\ k \notin s \ {k} /\ (k \notin s => s \in SUBSET (1..m))
    OBVIOUS
  <1>3. h \in [SUBSET (1..k) -> V]
    BY <1>1, <1>2
  <1>4. ASSUME NEW s \in SUBSET (1..k) PROVE h[s] = IF s = {} THEN base ELSE step[<<Max(s), h[s \ {Max(s)}]>>]
    <2>1. CASE k \in s
      <3>1. Max(s) \in s /\ Max(s) >= k
        <4>1. k \in Nat
          OBVIOUS
        <4> HIDE DEF k
        <4> QED BY <2>1, <4>1, LargestOf
      <3>2. Max(s) = k
        <4>1. \A x \in s : x \in 1..k
          OBVIOUS
        <4>2. Max(s) \in 1..k
          BY <3>1, <4>1
        <4> QED BY <3>1, <4>2
      <3>3. h[s \ {k}] = g[s \ {k}]
        BY <1>2
      <3>4. h[s] = step[<<k, g[s \ {k}]>>]
        BY <2>1
      <3> HIDE DEF h
      <3> QED BY <2>1, <3>2, <3>3, <3>4
    <2>2. CASE k \notin s /\ s # {}
      <3>1. s \in SUBSET (1..m) /\ Max(s) \in s
        BY <1>2, <2>2, LargestOf
      <3>2. s \ {Max(s)} \in SUBSET (1..k) /\ k \notin s \ {Max(s)}
        BY <2>2
      <3>3. h[s] = g[s] /\ h[s \ {Max(s)}] = g[s \ {Max(s)}]
        BY <2>2, <3>2
      <3> HIDE DEF h
      <3> QED BY <1>1, <2>2, <3>1, <3>3
    <2>3. CASE s = {}
      BY <1>1, <2>3
    <2> QED BY <2>1, <2>2, <2>3
  <1> HIDE DEF h
  <1> QED BY <1>3, <1>4 DEF IsFold

LEMMA FoldExists ==
    ASSUME NEW V, NEW n \in Nat, NEW base \in V, NEW step \in [(1..n) \X V -> V]
    PROVE  \E g : IsFold(g, n, V, base, step)
  <1> DEFINE T == {m \in Nat : m <= n => \E g : IsFold(g, m, V, base, step)}
  <1>1. 0 \in T
    <2> DEFINE g == [s \in SUBSET (1..0) |-> base]
    <2>1. \A s \in SUBSET (1..0) : s = {}
      OBVIOUS
    <2>2. IsFold(g, 0, V, base, step)
      BY <2>1 DEF IsFold
    <2> HIDE DEF g
    <2> QED BY <2>2
  <1>2. ASSUME NEW m \in Nat, m \in T PROVE m + 1 \in T
    <2>1. CASE m + 1 <= n
      <3>1. PICK g : IsFold(g, m, V, base, step)
        BY <1>2, <2>1
      <3>2. \E h : IsFold(h, m + 1, V, base, step)
        BY <2>1, <3>1, FoldGrows
      <3> QED BY <3>2
    <2>2. CASE ~(m + 1 <= n)
      BY <2>2
    <2> QED BY <2>1, <2>2
  <1> HIDE DEF T
  <1>3. n \in T
    BY <1>1, <1>2, NatSet
  <1> QED BY <1>3 DEF T

\* What is a step from every set of the first places to the next is a fold of
\* the prefixes.
StepsBy(g, n, V, base, step) ==
    /\ g[1..0] = base
    /\ \A i \in 0..(n - 1) : g[1..i] \in V => g[1..(i + 1)] = step[<<i + 1, g[1..i]>>]

GoesBy(f, g, n, V, base, step) ==
    /\ f \in [0..n -> V] /\ f[0] = base /\ f[n] = g[1..n]
    /\ \A i \in 0..(n - 1) : f[i + 1] = step[<<i + 1, f[i]>>]

LEMMA FoldPrefixes ==
    ASSUME NEW V, NEW n \in Nat, NEW base \in V, NEW step \in [(1..n) \X V -> V], NEW g, StepsBy(g, n, V, base, step)
    PROVE  \E f : GoesBy(f, g, n, V, base, step)
  <1> USE DEF StepsBy
  <1> DEFINE T == {i \in Nat : i <= n => g[1..i] \in V}
             f == [i \in 0..n |-> g[1..i]]
  <1>1. 0 \in T
    OBVIOUS
  <1>2. ASSUME NEW i \in Nat, i \in T PROVE i + 1 \in T
    <2>1. CASE i + 1 <= n
      <3>1. i \in 0..(n - 1) /\ i + 1 \in 1..n /\ g[1..i] \in V
        BY <1>2, <2>1
      <3>2. step[<<i + 1, g[1..i]>>] \in V
        BY <3>1
      <3> QED BY <3>1, <3>2
    <2> QED BY <2>1
  <1> HIDE DEF T
  <1>3. Nat \subseteq T
    BY <1>1, <1>2, NatSet
  <1>4. \A i \in 0..n : g[1..i] \in V
    BY <1>3 DEF T
  <1>5. f \in [0..n -> V] /\ f[0] = base /\ f[n] = g[1..n]
    BY <1>4
  <1>6. \A i \in 0..(n - 1) : f[i + 1] = step[<<i + 1, f[i]>>]
    BY <1>4
  <1> HIDE DEF f
  <1> QED BY <1>5, <1>6 DEF GoesBy

LEMMA LargestOfFirst ==
    ASSUME NEW i \in Nat
    PROVE  Max(1..(i + 1)) = i + 1 /\ (1..(i + 1)) \ {i + 1} = 1..i
  <1>1. i + 1 \in Nat /\ 1..(i + 1) # {} /\ i + 1 \in 1..(i + 1)
    OBVIOUS
  <1>2. Max(1..(i + 1)) \in 1..(i + 1) /\ Max(1..(i + 1)) >= i + 1
    <2> DEFINE s == 1..(i + 1)
    <2>1. s \in SUBSET (1..(i + 1)) /\ s # {} /\ i + 1 \in s
      OBVIOUS
    <2> HIDE DEF s
    <2>2. Max(s) \in s /\ Max(s) >= i + 1
      BY <1>1, <2>1, LargestOf
    <2> QED BY <2>2 DEF s
  <1> QED BY <1>2

LEMMA FirstPlaces ==
    ASSUME NEW n \in Nat, NEW i \in 0..(n - 1)
    PROVE  1..(i + 1) \in SUBSET (1..n) /\ 1..(i + 1) # {} /\ i + 1 \in 1..n /\ i \in Nat
  <1>1. i + 1 \in 1..n /\ i \in Nat
    OBVIOUS
  <1>2. \A x \in 1..(i + 1) : x \in 1..n
    OBVIOUS
  <1>3. i + 1 \in 1..(i + 1)
    BY <1>1
  <1> QED BY ONLY <1>1, <1>2, <1>3

\* f is the sum of the first numbers.
SumsUp(f, numbers) ==
    /\ f \in [0..Len(numbers) -> Nat] /\ f[0] = 0 /\ f[Len(numbers)] = Total(numbers)
    /\ \A i \in 0..(Len(numbers) - 1) : f[i + 1] = f[i] + numbers[i + 1]

LEMMA SumFolds ==
    ASSUME NEW numbers \in Seq(Nat)
    PROVE  \E f : SumsUp(f, numbers)
  <1> DEFINE n == Len(numbers)
             V == Nat
             step == [q \in (1..n) \X V |-> q[2] + numbers[q[1]]]
             G(g) == [s \in SUBSET (DOMAIN numbers) |-> IF s = {} THEN 0
                                                 ELSE g[s \ {Max(s)}] + numbers[Max(s)]]
             iter == CHOOSE g : g = G(g)
  <1>1. n \in Nat /\ DOMAIN numbers = 1..n /\ \A i \in 1..n : numbers[i] \in Nat
    BY LenProperties
  <1>2. step \in [(1..n) \X V -> V]
    <2>1. ASSUME NEW q \in (1..n) \X V PROVE q[2] + numbers[q[1]] \in V
      <3>1. q[2] \in V /\ numbers[q[1]] \in Nat
        BY <1>1
      <3> QED BY <3>1
    <2> QED BY <2>1
  <1>3. Total(numbers) = iter[DOMAIN numbers]
    BY Zenon DEF Total, FoldLeft, MapThenFoldSet
  <1>4. \A i \in 1..n, v \in V : step[<<i, v>>] = v + numbers[i]
    OBVIOUS
  <1> HIDE DEF step, V, n
  <1>5. \E h : IsFold(h, n, V, 0, step)
    BY <1>1, <1>2, FoldExists DEF V
  <1>6. ASSUME NEW h, IsFold(h, n, V, 0, step) PROVE h = G(h)
    <2>1. h \in [SUBSET (1..n) -> V]
      BY <1>6 DEF IsFold
    <2>2. ASSUME NEW s \in SUBSET (1..n), s # {}
          PROVE  h[s] = h[s \ {Max(s)}] + numbers[Max(s)]
      <3>1. Max(s) \in 1..n /\ s \ {Max(s)} \in SUBSET (1..n)
        BY <1>1, <2>2, LargestOf
      <3>2. h[s] = step[<<Max(s), h[s \ {Max(s)}]>>]
        BY <1>6, <2>2 DEF IsFold
      <3> QED BY <1>4, <2>1, <3>1, <3>2
    <2>3. h[{}] = 0
      BY <1>6 DEF IsFold
    <2> QED BY <1>1, <2>1, <2>2, <2>3
  <1>7. iter = G(iter)
    <2> HIDE DEF G
    <2> QED BY <1>5, <1>6
  <1>8. iter[1..0] = 0
    <2>1. 1..0 = {} /\ {} \in SUBSET (DOMAIN numbers)
      OBVIOUS
    <2> HIDE DEF iter
    <2> QED BY <1>7, <2>1
  <1>9. ASSUME NEW i \in 0..(n - 1), iter[1..i] \in V PROVE iter[1..(i + 1)] = step[<<i + 1, iter[1..i]>>]
    <2>1. 1..(i + 1) \in SUBSET (DOMAIN numbers) /\ 1..(i + 1) # {} /\ i + 1 \in 1..n /\ i \in Nat
      <3>1. 1..(i + 1) \in SUBSET (1..n) /\ 1..(i + 1) # {} /\ i + 1 \in 1..n /\ i \in Nat
        BY <1>1, FirstPlaces
      <3> QED BY ONLY <1>1, <3>1
    <2> HIDE DEF iter
    <2>2. iter[1..(i + 1)] = iter[1..i] + numbers[i + 1]
      <3> DEFINE s == 1..(i + 1)
      <3>1. Max(s) = i + 1 /\ s \ {Max(s)} = 1..i
        BY <2>1, LargestOfFirst
      <3>2. iter[s] = iter[s \ {Max(s)}] + numbers[Max(s)]
        <4>1. s \in SUBSET (DOMAIN numbers) /\ s # {}
          BY <2>1
        <4> HIDE DEF s
        <4> QED BY <1>7, <4>1
      <3> QED BY <3>1, <3>2
    <2> QED BY <1>4, <1>9, <2>1, <2>2
  <1> HIDE DEF iter
  <1>10. PICK f : GoesBy(f, iter, n, V, 0, step)
    <2>1. StepsBy(iter, n, V, 0, step)
      BY <1>8, <1>9 DEF StepsBy
    <2> QED BY <1>1, <1>2, <2>1, FoldPrefixes DEF V
  <1>11. \A i \in 0..(n - 1) : f[i + 1] = f[i] + numbers[i + 1]
    <2> SUFFICES ASSUME NEW i \in 0..(n - 1) PROVE f[i + 1] = f[i] + numbers[i + 1]
      OBVIOUS
    <2>1. i + 1 \in 1..n /\ f[i] \in V
      BY <1>1, <1>10 DEF GoesBy
    <2> QED BY <1>4, <1>10, <2>1 DEF GoesBy
  <1>12. SumsUp(f, numbers)
    BY <1>1, <1>3, <1>10, <1>11 DEF V, n, GoesBy, SumsUp
  <1> QED BY <1>12

LEMMA TotalIs ==
    ASSUME NEW s \in Seq(Nat)
    PROVE  \E f : SumsUp(f, s)
  BY SumFolds

LEMMA TotalNat ==
    ASSUME NEW s \in Seq(Nat)
    PROVE  Total(s) \in Nat
  <1>1. PICK f : SumsUp(f, s)
    BY TotalIs
  <1> QED BY <1>1, LenProperties DEF SumsUp

LEMMA TotalEmpty == Total(<< >>) = 0
  <1>1. << >> \in Seq(Nat) /\ Len(<< >>) = 0
    OBVIOUS
  <1>2. PICK f : SumsUp(f, << >>)
    BY <1>1, TotalIs
  <1> QED BY <1>1, <1>2 DEF SumsUp

LEMMA TotalAppend ==
    ASSUME NEW s \in Seq(Nat), NEW x \in Nat
    PROVE  Total(Append(s, x)) = Total(s) + x
  <1> DEFINE n == Len(s)
             u == Append(s, x)
  <1>1. n \in Nat /\ u \in Seq(Nat) /\ Len(u) = n + 1 /\ u[n + 1] = x /\ \A i \in 1..n : u[i] = s[i]
    BY LenProperties, AppendProperties
  <1>2. PICK f : SumsUp(f, s)
    BY TotalIs
  <1>3. PICK g : SumsUp(g, u)
    BY <1>1, TotalIs
  <1> HIDE DEF u, n
  <1>4. \A i \in 0..(n - 1) : f[i + 1] = f[i] + s[i + 1]
    BY <1>2 DEF SumsUp, n
  <1>5. \A i \in 0..n : g[i + 1] = g[i] + u[i + 1]
    BY <1>1, <1>3 DEF SumsUp
  <1> DEFINE T == {i \in Nat : i <= n => f[i] = g[i]}
  <1>6. 0 \in T
    BY <1>2, <1>3 DEF SumsUp
  <1>7. ASSUME NEW i \in Nat, i \in T PROVE i + 1 \in T
    <2>1. CASE i + 1 <= n
      <3>1. i \in 0..(n - 1) /\ i \in 0..n /\ i + 1 \in 1..n /\ f[i] = g[i]
        BY <1>1, <1>7, <2>1
      <3> QED BY <1>1, <1>4, <1>5, <3>1
    <2> QED BY <2>1
  <1> HIDE DEF T
  <1>8. n \in T
    BY <1>1, <1>6, <1>7, NatSet
  <1>9. f[n] = g[n] /\ n \in 0..n
    BY <1>1, <1>8 DEF T
  <1>10. Total(s) = f[n] /\ Total(u) = g[n + 1]
    BY <1>1, <1>2, <1>3 DEF SumsUp, n
  <1>11. g[n + 1] = g[n] + x
    BY <1>1, <1>5, <1>9
  <1> QED BY <1>9, <1>10, <1>11 DEF u

LEMMA TotalFirst ==
    ASSUME NEW s \in Seq(Nat), s # << >>
    PROVE  Total(s) = s[1] + Total(Tail(s))
  <1> DEFINE n == Len(s)
             u == Tail(s)
  <1>1. n \in Nat /\ n # 0 /\ \A i \in 1..n : s[i] \in Nat
    BY EmptySeq, LenProperties
  <1>2. u \in Seq(Nat) /\ Len(u) = n - 1 /\ \A i \in 1..(n - 1) : u[i] = s[i + 1]
    BY HeadTailProperties
  <1>3. PICK f : SumsUp(f, s)
    BY TotalIs
  <1>4. PICK g : SumsUp(g, u)
    BY <1>2, TotalIs
  <1> HIDE DEF u, n
  <1>5. f[0] = 0 /\ \A i \in 0..(n - 1) : f[i + 1] = f[i] + s[i + 1]
    BY <1>3 DEF SumsUp, n
  <1>6. g[0] = 0 /\ g \in [0..(n - 1) -> Nat] /\ \A i \in 0..(n - 1 - 1) : g[i + 1] = g[i] + u[i + 1]
    BY <1>2, <1>4 DEF SumsUp
  <1> DEFINE T == {i \in Nat : i <= n - 1 => f[i + 1] = s[1] + g[i]}
  <1>7. 0 \in T
    <2>1. f[0 + 1] = f[0] + s[0 + 1]
      BY <1>1, <1>5
    <2>2. f[1] = s[1]
      BY <1>1, <1>5, <2>1
    <2> QED BY <1>1, <1>6, <2>2
  <1>8. ASSUME NEW i \in Nat, i \in T PROVE i + 1 \in T
    <2>1. CASE i + 1 <= n - 1
      <3>1. i + 1 \in 0..(n - 1) /\ i \in 0..(n - 1 - 1) /\ i + 1 \in 1..(n - 1) /\ i + 2 \in 1..n /\ f[i + 1] = s[1] + g[i]
        BY <1>1, <1>8, <2>1
      <3>2. f[i + 1 + 1] = f[i + 1] + s[i + 1 + 1]
        BY <1>5, <3>1
      <3>3. g[i + 1] = g[i] + s[i + 1 + 1]
        BY <1>2, <1>6, <3>1
      <3>4. s[1] \in Nat /\ s[i + 1 + 1] \in Nat /\ g[i] \in Nat
        <4>1. i + 1 + 1 \in 1..n /\ 1 \in 1..n /\ i \in 0..(n - 1)
          BY <1>1, <3>1
        <4> QED BY <1>1, <1>6, <4>1
      <3>5. f[i + 1 + 1] = s[1] + g[i + 1]
        BY <3>1, <3>2, <3>3, <3>4
      <3> QED BY <3>5
    <2> QED BY <2>1
  <1> HIDE DEF T
  <1>9. n - 1 \in Nat
    BY <1>1
  <1>10. n - 1 \in T
    BY <1>7, <1>8, <1>9, NatSet
  <1>11. f[n - 1 + 1] = s[1] + g[n - 1] /\ n - 1 + 1 = n
    BY <1>1, <1>9, <1>10 DEF T
  <1>12. Total(s) = f[n] /\ Total(u) = g[n - 1]
    BY <1>2, <1>3, <1>4 DEF SumsUp, n
  <1> QED BY <1>11, <1>12 DEF u

-----------------------------------------------------------------------------
(***************************************************************************)
(* The stages of the test and its code                                     *)
(***************************************************************************)

\* The part of the invariant that no result and no statistic is about.
Control == TankTypes /\ Begun /\ Codes /\ Ending

\* What is known of a set of options, and of the variables.
LEMMA OptionIs ==
    ASSUME opt \in Options
    PROVE  /\ opt.gen \in {"phantom", "pandora", "jmeter", "shootexec"}
           /\ opt.rc \in Int /\ opt.poll \in Int /\ opt.end \in Int /\ opt.fail \in Int
           /\ opt.halves \in Nat /\ opt.seconds \in Nat
           /\ opt.old \in BOOLEAN /\ opt.given \in BOOLEAN /\ opt.port \in BOOLEAN /\ opt.child \in BOOLEAN
           /\ opt.old => opt.given \/ opt.gen \in {"pandora", "shootexec"}
  BY GeneratorsAssumption DEF GeneratorsAssumption

USE DEF Early, Shut, Late, Stages

\* The items of a file are one for each second.
LEMMA BlocksAre ==
    ASSUME NEW n \in Nat
    PROVE  /\ Blocks(n) \in Seq(Nat) /\ \A i \in DOMAIN Blocks(n) : Blocks(n)[i] = i
           /\ Len(Blocks(n)) \in Nat /\ 2 * Len(Blocks(n)) <= n /\ n < 2 * Len(Blocks(n)) + 2
  <1>1. n \div 2 \in Nat /\ 2 * (n \div 2) <= n /\ n < 2 * (n \div 2) + 2
    OBVIOUS
  <1>2. PICK m \in Nat : m = n \div 2
    BY <1>1
  <1>3. [k \in 1 .. m |-> k] \in Seq(Nat) /\ Len([k \in 1 .. m |-> k]) = m
    OBVIOUS
  <1>4. \A i \in DOMAIN [k \in 1 .. m |-> k] : [k \in 1 .. m |-> k][i] = i
    OBVIOUS
  <1>5. Blocks(n) = [k \in 1 .. m |-> k]
    BY <1>2 DEF Blocks
  <1> QED BY <1>1, <1>2, <1>3, <1>4, <1>5

LEMMA LinesAre ==
    ASSUME NEW n \in Nat
    PROVE  Lines(n) \in Seq(Nat) /\ \A i \in DOMAIN Lines(n) : Lines(n)[i] = i
  <1>1. (n \div 2 + 1) \div 2 \in Nat
    OBVIOUS
  <1>2. PICK m \in Nat : m = (n \div 2 + 1) \div 2
    BY <1>1
  <1>3. [k \in 1 .. m |-> k] \in Seq(Nat) /\ \A i \in DOMAIN [k \in 1 .. m |-> k] : [k \in 1 .. m |-> k][i] = i
    OBVIOUS
  <1>4. Lines(n) = [k \in 1 .. m |-> k]
    BY <1>2 DEF Lines
  <1> QED BY <1>3, <1>4

LEMMA TankIs ==
    ASSUME TestTypes
    PROVE  /\ opt \in Options /\ tank \in TankSet
           /\ tank \in [stage : Stages, turn : 1 .. 3, port : BOOLEAN, rc : Int, first : Int]
           /\ proc \in ProcSet
           /\ finished \in BOOLEAN
           /\ out.text \in Seq(Int) /\ out.written \in Nat
           /\ out = [text |-> out.text, written |-> out.written]
  BY DEF TestTypes, TankTypes, ReaderTypes, ReaderSet, TankSet

\* A step of the test: its stage and its codes stay in their types.
LEMMA TankMoves ==
    ASSUME tank \in TankSet
    PROVE  \A s \in Stages :
               /\ [tank EXCEPT !.stage = s] \in TankSet
               /\ \A p \in BOOLEAN : [tank EXCEPT !.stage = s, !.port = p] \in TankSet
               /\ \A c \in Int : /\ [tank EXCEPT !.stage = s, !.rc = c] \in TankSet
                                 /\ [tank EXCEPT !.stage = s, !.rc = c, !.first = c] \in TankSet
  <1> TAKE s \in Stages
  <1>1. [tank EXCEPT !.stage = s] \in TankSet
    BY DEF TankSet
  <1>2. ASSUME NEW p \in BOOLEAN PROVE [tank EXCEPT !.stage = s, !.port = p] \in TankSet
    BY DEF TankSet
  <1>3. ASSUME NEW c \in Int
        PROVE  /\ [tank EXCEPT !.stage = s, !.rc = c] \in TankSet
               /\ [tank EXCEPT !.stage = s, !.rc = c, !.first = c] \in TankSet
    BY DEF TankSet
  <1> QED BY <1>1, <1>2, <1>3

LEMMA TankTurns ==
    ASSUME tank \in TankSet
    PROVE  \A t \in 1 .. 3 : [tank EXCEPT !.turn = t] \in TankSet
  BY DEF TankSet

\* The process moves the stages nowhere.
LEMMA WriteControl ==
    ASSUME TestTypes, Control, WriteResults \/ WriteStats
    PROVE  Control'
  <1>1. UNCHANGED <<opt, tank, proc, finished, reader>> /\ stat'.pc = stat.pc /\ proc.pc # "none"
    BY DEF WriteResults, WriteStats, Writing, Alive, Control, Begun, TestTypes, StatTypes, StatSet
  <1>2. tank.stage \notin Early
    BY <1>1 DEF Control, Begun
  <1>3. TankTypes'
    BY TankIs, <1>1, <1>2 DEF TankTypes, TankSet
  <1>4. Begun'
    BY TankIs, <1>1, <1>2 DEF Control, Begun
  <1>5. Codes'
    BY TankIs, <1>1, <1>2 DEF Control, Codes, Guarded, Asserted
  <1>6. Ending'
    BY TankIs, <1>1, <1>2 DEF Control, Ending, Alive
  <1> QED BY <1>3, <1>4, <1>5, <1>6 DEF Control

LEMMA ExitControl ==
    ASSUME TestTypes, Control, Exit
    PROVE  Control'
  <1>1. UNCHANGED <<opt, tank, finished, out, reader, stat>> /\ proc.pc \notin {"none", "gone"}
    BY DEF Exit, Alive, files
  <1>2. PICK child \in BOOLEAN : proc' = [pc |-> "gone", rc |-> opt.rc, child |-> child]
    BY DEF Exit
  <1>3. tank.stage \notin Early
    BY <1>1 DEF Control, Begun
  <1>4. TankTypes'
    BY TankIs, <1>1, <1>2, <1>3, OptionIs DEF TankTypes, TankSet, ProcSet
  <1>5. Begun'
    BY TankIs, <1>1, <1>2, <1>3 DEF Control, Begun
  <1>6. Codes'
    BY TankIs, <1>1, <1>2, <1>3 DEF Control, Codes, Guarded, Asserted
  <1>7. Ending'
    BY TankIs, <1>1, <1>2, <1>3 DEF Control, Ending, Alive
  <1> QED BY <1>4, <1>5, <1>6, <1>7 DEF Control

LEMMA ChildControl ==
    ASSUME TestTypes, Control, ChildEnds
    PROVE  Control'
  <1>1. UNCHANGED <<opt, tank, finished, out, reader, stat>> /\ proc' = [proc EXCEPT !.child = FALSE]
    BY DEF ChildEnds, files
  <1>2. proc' \in ProcSet /\ proc'.pc = proc.pc /\ proc'.rc = proc.rc
    BY <1>1, TankIs DEF ProcSet
  <1>3. TankTypes'
    BY TankIs, <1>1, <1>2 DEF TankTypes
  <1>4. Begun'
    BY <1>1, <1>2 DEF Control, Begun
  <1>5. Codes'
    BY <1>1, <1>2 DEF Control, Codes, Guarded, Asserted
  <1>6. Ending'
    BY <1>1, <1>2 DEF Control, Ending, Alive
  <1> QED BY <1>3, <1>4, <1>5, <1>6 DEF Control

\* Nor do the readers, and no reader becomes none.
LEMMA DrainsControl ==
    ASSUME TestTypes, Control, UNCHANGED <<opt, tank, proc, finished, out>>,
           reader.pc = reader'.pc \/ (reader.pc # "none" /\ reader'.pc # "none"),
           stat.pc = stat'.pc \/ (stat.pc # "none" /\ stat'.pc # "none")
    PROVE  Control'
  <1>1. TankTypes'
    BY TankIs DEF TankTypes, TankSet
  <1>2. Begun'
    BY TankIs DEF Control, Begun
  <1>3. Codes'
    BY TankIs DEF Control, Codes, Guarded, Asserted
  <1>4. Ending'
    BY TankIs DEF Control, Ending, Alive
  <1> QED BY <1>1, <1>2, <1>3, <1>4 DEF Control

LEMMA ConfigureControl ==
    ASSUME TestTypes, Control, Configure
    PROVE  Control'
  <1>1. UNCHANGED <<opt, proc, finished, out, reader, stat>> /\ tank.stage = "configure"
    BY DEF Configure, files
  <1>2. tank' = [tank EXCEPT !.stage = "failed"] \/ tank' = [tank EXCEPT !.stage = "prepare"]
    BY DEF Configure, Stage
  <1>3. TankTypes'
    BY TankIs, <1>1, <1>2 DEF TankTypes, TankSet
  <1>4. Begun'
    BY TankIs, <1>1, <1>2 DEF Control, Begun
  <1>5. Codes'
    BY TankIs, <1>1, <1>2 DEF Control, Codes, Guarded, Asserted
  <1>6. Ending'
    BY TankIs, <1>1, <1>2 DEF Control, Ending, Alive
  <1> QED BY <1>3, <1>4, <1>5, <1>6 DEF Control

LEMMA PrepareControl ==
    ASSUME TestTypes, Control, Prepare
    PROVE  Control'
  <1>1. UNCHANGED <<opt, proc, finished, reader, stat>> /\ tank.stage = "prepare" /\ out'.written = out.written
    BY TankIs DEF Prepare, Emptied
  <1>2. tank' = [tank EXCEPT !.stage = "failed"] \/ tank' = [tank EXCEPT !.stage = "start"]
    BY DEF Prepare, Stage
  <1>3. out' = out \/ out'.text = << >>
    BY TankIs DEF Prepare, Emptied
  <1>4. tank'.stage = "start" /\ opt.gen = "pandora" => out'.text = << >>
    BY TankIs DEF Prepare, Emptied, Stage
  <1>5. TankTypes'
    BY TankIs, <1>1, <1>2, <1>3, <1>4 DEF TankTypes, TankSet
  <1>6. Begun'
    BY TankIs, <1>1, <1>2, <1>3, <1>4 DEF Control, Begun
  <1>7. Codes'
    BY TankIs, <1>1, <1>2, <1>3, <1>4 DEF Control, Codes, Guarded, Asserted
  <1>8. Ending'
    BY TankIs, <1>1, <1>2, <1>3, <1>4 DEF Control, Ending, Alive
  <1> QED BY <1>5, <1>6, <1>7, <1>8 DEF Control

LEMMA StartControl ==
    ASSUME TestTypes, Control, Start
    PROVE  Control'
  <1>1. UNCHANGED <<opt, finished>> /\ tank.stage = "start" /\ reader'.pc = "read" /\ stat'.pc = "read"
    BY DEF Start, TestTypes, ReaderTypes, ReaderSet, StatTypes, StatSet
  <1>2. \/ tank' = [tank EXCEPT !.stage = "end", !.rc = 1, !.first = 1] /\ proc' = proc
        \/ /\ tank' = [tank EXCEPT !.stage = "poll"] \/ tank' = [tank EXCEPT !.stage = "poll", !.port = opt.port]
           /\ proc' = [proc EXCEPT !.pc = "runs"]
    BY TankIs, OptionIs DEF Start, StartPhantom, StartPandora, StartJMeter, StartShootExec, Ended, Stage, Run
  <1>3. TankTypes'
    <2>1. proc' \in ProcSet
      BY TankIs, <1>2 DEF ProcSet
    <2>2. CASE tank' = [tank EXCEPT !.stage = "end", !.rc = 1, !.first = 1]
      <3>1. PICK code \in Int : code = 1
        OBVIOUS
      <3>2. tank' = [tank EXCEPT !.stage = "end", !.rc = code, !.first = code]
        BY <2>2, <3>1
      <3> QED BY <3>2, TankIs, TankMoves, <1>1, <2>1 DEF TankTypes
    <2>3. CASE tank' = [tank EXCEPT !.stage = "poll"]
      BY <2>3, TankIs, TankMoves, <1>1, <2>1 DEF TankTypes
    <2>4. CASE tank' = [tank EXCEPT !.stage = "poll", !.port = opt.port]
      <3>1. opt.port \in BOOLEAN
        BY TankIs, OptionIs
      <3> QED BY <2>4, <3>1, TankIs, TankMoves, <1>1, <2>1 DEF TankTypes
    <2> QED BY <1>2, <2>2, <2>3, <2>4
  <1>4. \/ tank'.stage = "end" /\ tank'.rc = 1 /\ tank'.first = 1
        \/ tank'.stage = "poll"
    BY TankIs, <1>2
  <1>5. Begun'
    <2>1. ~proc'.child
      BY <1>1, <1>2, TankIs DEF Control, Begun, ProcSet
    <2> QED BY <1>1, <1>4, <2>1 DEF Begun
  <1>6. Codes'
    <2>1. finished /\ opt.gen = "jmeter" => proc.pc = "gone"
      BY DEF Control, Codes
    <2>2. proc.pc = "none"
      BY <1>1 DEF Control, Begun
    <2> QED BY <1>1, <1>4, <2>1, <2>2 DEF Codes
  <1>7. Ending'
    BY <1>4 DEF Ending
  <1> QED BY <1>3, <1>5, <1>6, <1>7 DEF Control

\* A code ends the test; 0 does when the process ended well.
LEMMA EndsWith ==
    ASSUME TestTypes, Control, tank.stage \in {"start", "poll"},
           UNCHANGED <<opt, proc, out, stat>>, reader'.pc = reader.pc,
           finished' \in BOOLEAN, finished' = finished \/ proc.pc = "gone",
           NEW code \in Int, tank' = [tank EXCEPT !.stage = "end", !.rc = code, !.first = code],
           code = 0 => proc.pc = "gone" /\ proc.rc = 0,
           code = 1 \/ reader.pc # "none"
    PROVE  Control'
  <1>1. TankTypes'
    BY TankIs, TankMoves DEF TankTypes
  <1>2. tank'.stage = "end" /\ tank'.rc = code /\ tank'.first = code
    BY TankIs
  <1>3. Begun'
    BY <1>2 DEF Control, Begun
  <1>4. Codes'
    <2>1. finished /\ opt.gen = "jmeter" => proc.pc = "gone"
      BY DEF Control, Codes
    <2> QED BY <1>2, <2>1 DEF Codes
  <1>5. Ending'
    BY <1>2 DEF Ending
  <1> QED BY <1>1, <1>3, <1>4, <1>5 DEF Control

\* Any other is no reason to end it.
LEMMA PollsOn ==
    ASSUME TestTypes, Control, tank.stage = "poll",
           UNCHANGED <<opt, proc, out, stat>>, reader'.pc = reader.pc,
           finished' \in BOOLEAN, finished' = finished \/ proc.pc = "gone",
           \/ tank' = [tank EXCEPT !.stage = "stuck"]
           \/ \E t \in 1 .. 3 : tank' = [tank EXCEPT !.turn = t]
    PROVE  Control'
  <1>1. TankTypes'
    <2>1. CASE tank' = [tank EXCEPT !.stage = "stuck"]
      BY <2>1, TankIs, TankMoves DEF TankTypes
    <2>2. ASSUME NEW t \in 1 .. 3, tank' = [tank EXCEPT !.turn = t] PROVE TankTypes'
      BY <2>2, TankIs, TankTurns DEF TankTypes
    <2> QED BY <2>1, <2>2
  <1>2. tank'.stage \in {"stuck", "poll"}
    BY TankIs
  <1>3. Begun'
    BY <1>2 DEF Control, Begun
  <1>4. Codes'
    <2>1. finished /\ opt.gen = "jmeter" => proc.pc = "gone"
      BY DEF Control, Codes
    <2> QED BY <1>2, <2>1 DEF Codes
  <1>5. Ending'
    BY <1>2 DEF Ending
  <1> QED BY <1>1, <1>3, <1>4, <1>5 DEF Control

LEMMA StoppedControl ==
    ASSUME TestTypes, Control, StoppedEarly \/ Interrupted
    PROVE  Control'
  <1>1. UNCHANGED <<opt, proc, out, stat>> /\ reader'.pc = reader.pc /\ tank.stage \in {"start", "poll"}
    BY DEF StoppedEarly, Interrupted, files
  <1>4. finished' \in BOOLEAN /\ (finished' = finished \/ proc.pc = "gone")
    BY TankIs DEF StoppedEarly, Interrupted, files
  <1>2. PICK code \in Int : code = 1
    OBVIOUS
  <1>3. tank' = [tank EXCEPT !.stage = "end", !.rc = code, !.first = code]
    BY <1>2 DEF StoppedEarly, Interrupted, Ended
  <1>5. (code = 0 => proc.pc = "gone" /\ proc.rc = 0) /\ (code = 1 \/ reader.pc # "none")
    BY <1>2
  <1> QED BY <1>1, <1>2, <1>3, <1>4, <1>5, EndsWith

LEMMA PollOthersControl ==
    ASSUME TestTypes, Control, PollShell \/ PollResources
    PROVE  Control'
  <1>1. UNCHANGED <<opt, proc, out, stat>> /\ reader'.pc = reader.pc /\ tank.stage = "poll" /\ reader.pc # "none"
    BY DEF PollShell, PollResources, files, Control, Begun
  <1>4. finished' \in BOOLEAN /\ (finished' = finished \/ proc.pc = "gone")
    BY TankIs DEF PollShell, PollResources, files
  <1>2. CASE NextTurn
    <2>1. Len(Plugins) = 3 /\ tank.turn \in 1 .. 3
      BY TankIs DEF Plugins, TankSet
    <2>2. (tank.turn % 3) + 1 \in 1 .. 3
      BY <2>1
    <2>3. tank' = [tank EXCEPT !.turn = (tank.turn % 3) + 1]
      BY <1>2, <2>1 DEF NextTurn
    <2> QED BY <1>4, <1>1, <2>2, <2>3, PollsOn
  <1>3. ASSUME NEW code \in {0, opt.poll}, code > 0, Ended(code)
        PROVE  Control'
    <2>1. code \in Int /\ code # 0
      BY <1>3, TankIs, OptionIs
    <2>2. tank' = [tank EXCEPT !.stage = "end", !.rc = code, !.first = code]
      BY <1>3 DEF Ended
    <2> QED BY <1>4, <1>1, <2>1, <2>2, EndsWith
  <1> QED BY <1>2, <1>3 DEF PollShell, PollResources

LEMMA PollGeneratorControl ==
    ASSUME TestTypes, Control, PollGenerator
    PROVE  Control'
  <1>1. UNCHANGED <<opt, proc, out, stat>> /\ tank.stage = "poll" /\ reader'.pc = reader.pc /\ reader.pc # "none"
    BY DEF PollGenerator, PollJMeter, Control, Begun, TestTypes, ReaderTypes, ReaderSet
  <1>2. finished' \in BOOLEAN /\ (finished' = finished \/ proc.pc = "gone")
    BY TankIs DEF PollGenerator, PollPhantom, PollPandora, PollShootExec, PollJMeter
  <1>3. CASE Stage("stuck") \/ Answered(-1)
    <2>1. tank' = [tank EXCEPT !.stage = "stuck"] \/ tank' = [tank EXCEPT !.turn = 2]
      BY <1>3 DEF Stage, Answered
    <2> QED BY <1>1, <1>2, <2>1, PollsOn
  <1>4. ASSUME proc.pc = "gone", NEW code \in {proc.rc, Abs(proc.rc)}, Answered(code)
        PROVE  Control'
    <2>1. code \in Int /\ (code = 0 => proc.rc = 0)
      BY TankIs DEF Abs, ProcSet
    <2>2. CASE code >= 0
      <3>1. tank' = [tank EXCEPT !.stage = "end", !.rc = code, !.first = code]
        BY <1>4, <2>2 DEF Answered
      <3> QED BY <1>1, <1>2, <1>4, <2>1, <3>1, EndsWith
    <2>3. CASE ~(code >= 0)
      <3>1. tank' = [tank EXCEPT !.turn = 2]
        BY <1>4, <2>3 DEF Answered
      <3> QED BY <1>1, <1>2, <3>1, PollsOn
    <2> QED BY <2>2, <2>3
  <1>5. \/ Stage("stuck") \/ Answered(-1)
        \/ proc.pc = "gone" /\ (Answered(proc.rc) \/ Answered(Abs(proc.rc)))
    <2>1. CASE opt.gen = "jmeter" /\ PollJMeter
      BY <2>1 DEF PollJMeter, Control, Codes
    <2>2. CASE PollPhantom \/ PollPandora \/ PollShootExec
      BY <2>2 DEF PollPhantom, PollPandora, PollShootExec
    <2> QED BY <2>1, <2>2 DEF PollGenerator
  <1> QED BY <1>3, <1>4, <1>5

\* Nobody is told that the process is over who has not waited for it, but by
\* Pandora, and by JMeter without a reader.
LEMMA EndPlugin ==
    ASSUME TestTypes, Control, EndGenerator
    PROVE  Control'
  <1>1. UNCHANGED <<opt, out, stat>> /\ tank.stage = "end" /\ reader'.pc = reader.pc
    BY OptionIs, TankIs DEF EndGenerator, EndPhantom, EndPandora, EndShootExec, EndJMeter, TestTypes, ReaderTypes, ReaderSet
  <1>2. /\ proc' = proc \/ (proc.pc = "runs" /\ proc' = [proc EXCEPT !.pc = "told"])
        /\ finished' \in BOOLEAN /\ (opt.gen = "jmeter" => finished' = finished)
    BY OptionIs, TankIs DEF EndGenerator, EndPhantom, EndPandora, EndShootExec, EndJMeter, Told
  <1>3. PICK s \in {"end", "close", "kill", "udp", "done"} :
            /\ tank' = [tank EXCEPT !.stage = s]
            /\ s = "close" /\ opt.gen \in {"phantom", "shootexec"} => finished' = TRUE /\ ~Alive /\ proc' = proc
            /\ s = "kill" => opt.gen = "shootexec"
            /\ s = "udp" => opt.gen = "jmeter"
            /\ s = "done" => opt.gen = "jmeter" /\ reader.pc = "none"
    <2>1. CASE opt.gen = "phantom" /\ EndPhantom
      <3>1. tank.stage = "end" => tank = [tank EXCEPT !.stage = "end"]
        BY TankIs
      <3> QED BY <1>1, <2>1, <3>1, TankIs DEF EndPhantom, Told, Alive, Stage
    <2>2. CASE opt.gen = "pandora" /\ EndPandora
      BY <2>2 DEF EndPandora, Stage
    <2>3. CASE opt.gen = "shootexec" /\ EndShootExec
      BY <2>3, TankIs DEF EndShootExec, Told, Alive, Stage
    <2>4. CASE opt.gen = "jmeter" /\ EndJMeter
      <3>1. reader.pc = "none" => tank.rc = 1
        BY <1>1 DEF Control, Codes
      <3>2. tank.rc = 1 => [tank EXCEPT !.stage = "done", !.rc = 1] = [tank EXCEPT !.stage = "done"]
        BY TankIs
      <3> QED BY <2>4, <3>1, <3>2 DEF EndJMeter, Stage, To
    <2> QED BY <2>1, <2>2, <2>3, <2>4, TankIs, OptionIs DEF EndGenerator
  <1>4. TankTypes'
    <2>1. tank' \in TankSet
      BY TankIs, TankMoves, <1>3
    <2>2. proc' \in ProcSet
      BY TankIs, <1>2 DEF ProcSet
    <2> QED BY TankIs, <1>1, <1>2, <2>1, <2>2 DEF TankTypes
  <1>5. tank'.rc = tank.rc /\ tank'.first = tank.first /\ tank'.stage = s
    BY TankIs, <1>3
  <1>6. Begun'
    BY <1>1, <1>2, <1>5, TankIs DEF Control, Begun, ProcSet
  <1>7. Codes'
    <2>1. tank.rc = tank.first /\ (reader.pc = "none" => tank.first = 1)
      BY <1>1 DEF Control, Codes
    <2>2. tank.first = 0 => proc.pc = "gone" /\ proc.rc = 0
      BY <1>1 DEF Control, Codes
    <2>3. finished /\ opt.gen = "jmeter" => proc.pc = "gone"
      BY DEF Control, Codes
    <2>4. proc.pc = "gone" => proc' = proc
      BY <1>2
    <2> QED BY <1>1, <1>2, <1>3, <1>5, <2>1, <2>2, <2>3, <2>4 DEF Codes, Guarded
  <1>8. Ending'
    <2>1. opt' = opt
      BY <1>1
    <2> QED BY <1>3, <1>5, <2>1 DEF Ending, Alive
  <1> QED BY <1>4, <1>6, <1>7, <1>8 DEF Control

LEMMA KillControl ==
    ASSUME TestTypes, Control, Kill
    PROVE  Control'
  <1>1. UNCHANGED <<opt, out, reader, stat>> /\ finished' = TRUE /\ tank.stage = "kill"
    BY DEF Kill
  <1>2. tank' = [tank EXCEPT !.stage = "close"] /\ proc' \in ProcSet /\ proc'.rc = proc.rc /\ proc'.pc \in {proc.pc, "gone"}
        /\ ~Alive' /\ (proc'.child => proc'.pc = "gone")
    <2>1. opt.child \in BOOLEAN
      BY TankIs, OptionIs
    <2> QED BY <2>1, TankIs DEF Kill, Stage, Alive, ProcSet, Control, Begun
  <1>3. TankTypes'
    BY TankIs, <1>1, <1>2 DEF TankTypes, TankSet
  <1>4. Begun'
    BY TankIs, <1>1, <1>2 DEF Control, Begun
  <1>5. Codes'
    BY TankIs, <1>1, <1>2 DEF Control, Codes, Ending, Guarded, Asserted
  <1>6. Ending'
    BY TankIs, <1>1, <1>2 DEF Control, Ending, Alive
  <1> QED BY <1>3, <1>4, <1>5, <1>6 DEF Control

LEMMA CloseControl ==
    ASSUME TestTypes, Control, UdpOver \/ CloseStats
    PROVE  Control'
  <1>1. UNCHANGED <<opt, proc, finished, out>> /\ reader'.pc = reader.pc /\ stat'.pc = stat.pc
    BY DEF UdpOver, CloseStats, Closed, TestTypes, ReaderTypes, ReaderSet, StatTypes, StatSet
  <1>2. \/ tank.stage = "udp" /\ tank' = [tank EXCEPT !.stage = "close"]
        \/ tank.stage = "close" /\ tank' = [tank EXCEPT !.stage = "join"]
    BY DEF UdpOver, CloseStats, Stage
  <1>3. TankTypes'
    BY TankIs, <1>1, <1>2 DEF TankTypes, TankSet
  <1>4. Begun'
    BY TankIs, <1>1, <1>2 DEF Control, Begun
  <1>5. Codes'
    BY TankIs, <1>1, <1>2 DEF Control, Codes, Guarded, Asserted
  <1>6. Ending'
    BY TankIs, <1>1, <1>2 DEF Control, Ending, Alive
  <1> QED BY <1>3, <1>4, <1>5, <1>6 DEF Control

LEMMA AfterControl ==
    ASSUME TestTypes, Control, Join \/ EndOthers \/ PostProcess
    PROVE  Control'
  <1>1. UNCHANGED <<opt, proc, finished, out, reader, stat>>
    BY DEF Join, EndOthers, PostProcess, files
  <1>2. PICK code \in Int :
            \/ tank.stage = "join" /\ tank' = [tank EXCEPT !.stage = "after"]
            \/ tank.stage = "after" /\ tank' = [tank EXCEPT !.stage = "post", !.rc = code] /\ code = Guarded(opt.end, tank.rc)
            \/ tank.stage = "post" /\ tank' = [tank EXCEPT !.stage = "done", !.rc = code] /\ code = Asserted(tank.rc)
    <2>1. Guarded(opt.end, tank.rc) \in Int /\ Asserted(tank.rc) \in Int
      BY TankIs, OptionIs DEF Guarded, Asserted
    <2> QED BY <2>1 DEF Join, EndOthers, PostProcess, Stage, To
  <1>3. TankTypes'
    <2>1. CASE tank' = [tank EXCEPT !.stage = "after"]
      BY <2>1, TankIs, TankMoves, <1>1 DEF TankTypes
    <2>2. CASE tank' = [tank EXCEPT !.stage = "post", !.rc = code]
      BY <2>2, TankIs, TankMoves, <1>1 DEF TankTypes
    <2>3. CASE tank' = [tank EXCEPT !.stage = "done", !.rc = code]
      BY <2>3, TankIs, TankMoves, <1>1 DEF TankTypes
    <2> QED BY <1>2, <2>1, <2>2, <2>3
  <1>4. Begun'
    BY TankIs, <1>1, <1>2 DEF Control, Begun
  <1>5. Codes'
    <2>1. CASE tank.stage = "join" /\ tank' = [tank EXCEPT !.stage = "after"]
      BY <2>1, TankIs, <1>1 DEF Control, Codes
    <2>2. CASE /\ tank.stage = "after" /\ tank' = [tank EXCEPT !.stage = "post", !.rc = code]
               /\ code = Guarded(opt.end, tank.rc)
      BY <2>2, TankIs, <1>1 DEF Control, Codes
    <2>3. CASE /\ tank.stage = "post" /\ tank' = [tank EXCEPT !.stage = "done", !.rc = code]
               /\ code = Asserted(tank.rc)
      <3>1. tank'.stage = "done" /\ tank'.rc = code /\ tank'.first = tank.first
        BY <2>3, TankIs
      <3>2. code = Asserted(Guarded(opt.end, tank.first))
        BY <2>3 DEF Control, Codes
      <3> QED BY <2>3, <3>1, <3>2, <1>1 DEF Control, Codes, Asserted
    <2> QED BY <1>2, <2>1, <2>2, <2>3
  <1>6. Ending'
    BY TankIs, <1>1, <1>2 DEF Control, Ending, Alive
  <1> QED BY <1>3, <1>4, <1>5, <1>6 DEF Control

\* What the reader of statistics does when it has none.
LEMMA NoStatsIs ==
    ASSUME NEW t \in StatSet, NoStats(t)
    PROVE  \E p \in {"read", "over"}, g \in BOOLEAN :
               stat' = [t EXCEPT !.pc = p, !.gaveUp = g] /\ (p = "over" => g)
  <1>1. PICK tired \in BOOLEAN : stat' = [t EXCEPT !.pc = IF tired THEN "over" ELSE "read", !.gaveUp = tired]
    BY DEF NoStats
  <1>2. CASE tired
    <2>1. stat' = [t EXCEPT !.pc = "over", !.gaveUp = TRUE]
      BY <1>1, <1>2
    <2> QED BY <2>1
  <1>3. CASE ~tired
    <2>1. stat' = [t EXCEPT !.pc = "read", !.gaveUp = FALSE]
      BY <1>1, <1>3
    <2> QED BY <2>1
  <1> QED BY <1>2, <1>3

\* What is in the buffer after a read.
LEMMA FilledIs ==
    ASSUME StatTypes
    PROVE  /\ Filled \in StatSet /\ Filled.pc = stat.pc /\ Filled.pos \in {stat.pos, stat.out}
           /\ Filled.given \in {stat.given, Blocks(stat.out)}
           /\ Filled.gaveUp = stat.gaveUp /\ Filled.lined = stat.lined /\ Filled.out = stat.out
           /\ Filled.buffer = stat.buffer /\ Filled.taken = stat.taken
           /\ Filled.pending = stat.pending /\ Filled.list = stat.list /\ Filled.poller = stat.poller
           /\ Filled.closed = stat.closed /\ Filled.atClose = stat.atClose
           /\ stat.pos < stat.out => Filled.pos = stat.out /\ Filled.given = Blocks(stat.out)
           /\ ~(stat.pos < stat.out) => Filled.pos = stat.pos /\ Filled.given = stat.given
  <1>1. stat \in StatSet /\ stat.out \in Nat
    BY DEF StatTypes, StatSet
  <1>2. Blocks(stat.out) \in Seq(Nat)
    BY <1>1, BlocksAre
  <1>3. CASE stat.pos < stat.out
    <2>1. PICK n \in Nat, given \in Seq(Nat) : n = stat.out /\ given = Blocks(stat.out)
      BY <1>1, <1>2
    <2>2. Filled = [stat EXCEPT !.pos = n, !.given = given]
      BY <1>3, <2>1 DEF Filled
    <2> QED BY <1>1, <1>3, <2>1, <2>2 DEF StatSet
  <1>4. CASE ~(stat.pos < stat.out)
    BY <1>1, <1>4 DEF Filled
  <1> QED BY <1>3, <1>4

\* A readline takes one more half, if there is one.
LEMMA LineTaken ==
    ASSUME StatTypes, stat.pos <= stat.out, BlocksLine
    PROVE  \E q \in Nat, lined \in SUBSET Nat :
               /\ NoStats([stat EXCEPT !.pos = q, !.lined = lined])
               /\ \/ q = stat.pos /\ lined = stat.lined
                  \/ q = stat.pos + 1 /\ q <= stat.out /\ lined = stat.lined \union {q}
  <1>1. stat.pos \in Nat /\ stat.out \in Nat /\ stat.lined \in SUBSET Nat
    BY DEF StatTypes, StatSet
  <1> DEFINE q == Min({stat.out, stat.pos + 1})
             lined == IF q > stat.pos THEN stat.lined \union {q} ELSE stat.lined
  <1>2. NoStats([stat EXCEPT !.pos = q, !.lined = lined])
    BY DEF BlocksLine
  <1>3. PICK o \in Nat, n \in Nat : o = stat.out /\ n = stat.pos
    BY <1>1
  <1>4. q \in {o, n + 1} /\ q <= o /\ q <= n + 1
    <2>1. {o, n + 1} \subseteq Nat /\ {o, n + 1} # {} /\ n + 1 \in Nat
      BY <1>3
    <2>2. q = Min({o, n + 1})
      BY <1>3
    <2> QED BY <2>1, <2>2, MinIs
  <1> HIDE DEF q
  <1>5. q \in Nat /\ (q = n \/ q = n + 1) /\ n <= o
    BY <1>3, <1>4
  <1>6. q = n + 1 => q > n
    BY <1>3, <1>5
  <1>7. q = n => ~(q > n)
    BY <1>3, <1>5
  <1>8. lined \in SUBSET Nat
    BY <1>1, <1>5
  <1>9. \/ q = stat.pos /\ lined = stat.lined
        \/ q = stat.pos + 1 /\ q <= stat.out /\ lined = stat.lined \union {q}
    BY <1>3, <1>4, <1>5, <1>6, <1>7
  <1> QED BY <1>2, <1>5, <1>8, <1>9

\* A step of the drain of statistics does not begin it, and tells JMeter's reader
\* at most that the aggregator is finished.
LEMMA DrainIs ==
    ASSUME StatTypes, StatThread
    PROVE  /\ UNCHANGED <<opt, finished, out>> /\ stat.pc # "none" /\ stat'.pc # "none"
           /\ reader' = reader \/ (opt.gen = "jmeter" /\ StatsKind = "queue" /\ reader' = [reader EXCEPT !.agg = TRUE])
  <1> USE DEF StatTypes
  <1>1. CASE LookClosed \/ ReadLines \/ ReadNoBlocks
    BY <1>1 DEF LookClosed, ReadLines, ReadNoBlocks, StatSet
  <1>2. CASE ReadBlocks
    <2>1. stat'.pc # "none"
      BY <1>2, FilledIs, NoStatsIs DEF ReadBlocks, StatSet
    <2> QED BY <1>2, <2>1 DEF ReadBlocks
  <1>3. CASE BlocksLine
    <2>1. \E q \in Nat, lined \in SUBSET Nat : NoStats([stat EXCEPT !.pos = q, !.lined = lined])
      <3>1. stat.pos \in Nat /\ stat.out \in Nat /\ stat.lined \in SUBSET Nat
        BY DEF StatSet
      <3>2. Min({stat.out, stat.pos + 1}) \in Nat
        <4>1. {stat.out, stat.pos + 1} \subseteq Nat /\ {stat.out, stat.pos + 1} # {}
          BY <3>1
        <4> QED BY <4>1, MinIs
      <3> QED BY <1>3, <3>1, <3>2 DEF BlocksLine
    <2>2. PICK q \in Nat, lined \in SUBSET Nat : NoStats([stat EXCEPT !.pos = q, !.lined = lined])
      BY <2>1
    <2>3. [stat EXCEPT !.pos = q, !.lined = lined] \in StatSet
      BY DEF StatSet
    <2>4. stat'.pc # "none"
      BY <2>2, <2>3, NoStatsIs DEF StatSet
    <2> QED BY <1>3, <2>4 DEF BlocksLine
  <1>4. CASE BlocksEnd
    <2>1. stat'.pc # "none"
      BY <1>4, FilledIs DEF BlocksEnd, StatSet
    <2> QED BY <1>4, <2>1 DEF BlocksEnd
  <1>5. CASE TakeChunk \/ ShootExecQueueEmpty \/ JMeterQueueOver
    BY <1>5 DEF TakeChunk, ShootExecQueueEmpty, JMeterQueueOver, StatSet
  <1>6. CASE ShootExecQueueOver
    <2>1. stat'.pc # "none"
      BY <1>6, NoStatsIs DEF ShootExecQueueOver, StatSet
    <2> QED BY <1>6, <2>1 DEF ShootExecQueueOver
  <1>7. CASE ExpvarNext \/ StartPoller \/ Swap \/ Iterated
    BY <1>7 DEF ExpvarNext, StartPoller, Swap, Iterated, StatSet
  <1> QED BY <1>1, <1>2, <1>3, <1>4, <1>5, <1>6, <1>7 DEF StatThread

LEMMA ControlStep ==
    ASSUME TestTypes, Control, [Next]_vars
    PROVE  Control'
  <1>1. CASE UNCHANGED vars
    BY <1>1, DrainsControl DEF vars, files
  <1>2. CASE Results \/ Statistics \/ Poller
    <2>1. UNCHANGED <<opt, tank, proc, finished, out>>
      <3>1. CASE Statistics
        BY <3>1, DrainIs DEF Statistics, Unmoved, TestTypes
      <3>2. CASE Results \/ Poller
        BY <3>2 DEF Results, Poller, Unmoved, ReaderThread, ReadSome, ReadNothing, MultiEmpty, JtlEmpty,
           StatPoller, Fetch, AppendSecond, PollerStops
      <3> QED BY <1>2, <3>1, <3>2
    <2>2. reader.pc = reader'.pc \/ (reader.pc # "none" /\ reader'.pc # "none")
      <3>1. CASE Results
        BY <3>1 DEF Results, ReaderThread, ReadSome, ReadNothing, MultiEmpty, JtlEmpty, Give, AfterRead,
           TestTypes, ReaderTypes, ReaderSet
      <3>2. CASE Statistics
        BY <3>2, DrainIs DEF Statistics, TestTypes, ReaderTypes, ReaderSet
      <3>3. CASE Poller
        BY <3>3 DEF Poller, StatPoller, Fetch, AppendSecond, PollerStops
      <3> QED BY <1>2, <3>1, <3>2, <3>3
    <2>3. stat.pc = stat'.pc \/ (stat.pc # "none" /\ stat'.pc # "none")
      <3>1. CASE Results
        BY <3>1 DEF Results, ReaderThread, ReadSome, ReadNothing, MultiEmpty, JtlEmpty, Give, Counted,
           TestTypes, StatTypes, StatSet
      <3>2. CASE Statistics
        BY <3>2, DrainIs DEF Statistics, TestTypes
      <3>3. CASE Poller
        BY <3>3 DEF Poller, StatPoller, Fetch, AppendSecond, PollerStops, TestTypes, StatTypes, StatSet
      <3> QED BY <1>2, <3>1, <3>2, <3>3
    <2> QED BY <2>1, <2>2, <2>3, DrainsControl
  <1> QED BY <1>1, <1>2, WriteControl, ExitControl, ChildControl, ConfigureControl, PrepareControl, StartControl, StoppedControl,
             PollOthersControl, PollGeneratorControl, EndPlugin, KillControl, CloseControl, AfterControl
          DEF Next, Tank, Process

-----------------------------------------------------------------------------
(***************************************************************************)
(* What was kept and lost of a text                                        *)
(***************************************************************************)

\* The members of a sequence, and of two in a row.
LEMMA MembersOf ==
    ASSUME NEW s \in Seq(Int)
    PROVE  ToSet(s) = {s[i] : i \in 1 .. Len(s)} /\ ToSet(s) \subseteq Int
  <1>1. DOMAIN s = 1 .. Len(s) /\ \A i \in 1 .. Len(s) : s[i] \in Int
    BY LenProperties
  <1> QED BY <1>1 DEF ToSet

LEMMA MembersOfBoth ==
    ASSUME NEW s \in Seq(Int), NEW t \in Seq(Int)
    PROVE  ToSet(s \o t) = ToSet(s) \union ToSet(t)
  <1>1. /\ Len(s) \in Nat /\ Len(t) \in Nat /\ Len(s \o t) = Len(s) + Len(t)
        /\ \A i \in 1 .. Len(s) + Len(t) : (s \o t)[i] = IF i <= Len(s) THEN s[i] ELSE t[i - Len(s)]
    BY LenProperties, ConcatProperties
  <1>2. ToSet(s \o t) = {(s \o t)[i] : i \in 1 .. Len(s) + Len(t)}
    <2>1. s \o t \in Seq(Int)
      BY ConcatProperties
    <2> QED BY <1>1, <2>1, MembersOf
  <1>3. ToSet(s) = {s[i] : i \in 1 .. Len(s)} /\ ToSet(t) = {t[i] : i \in 1 .. Len(t)}
    BY MembersOf
  <1>4. ASSUME NEW x \in ToSet(s \o t) PROVE x \in ToSet(s) \union ToSet(t)
    <2>1. PICK i \in 1 .. Len(s) + Len(t) : x = (s \o t)[i]
      BY <1>2, <1>4
    <2>2. CASE i <= Len(s)
      BY <1>1, <1>3, <2>1, <2>2
    <2>3. CASE i > Len(s)
      <3>1. i - Len(s) \in 1 .. Len(t) /\ x = t[i - Len(s)]
        BY <1>1, <2>1, <2>3
      <3> QED BY <1>3, <3>1
    <2> QED BY <1>1, <2>2, <2>3
  <1>5. ASSUME NEW x \in ToSet(s) PROVE x \in ToSet(s \o t)
    <2>1. PICK i \in 1 .. Len(s) : x = s[i]
      BY <1>3, <1>5
    <2>2. i \in 1 .. Len(s) + Len(t) /\ (s \o t)[i] = x
      BY <1>1, <2>1
    <2> QED BY <1>2, <2>2
  <1>6. ASSUME NEW x \in ToSet(t) PROVE x \in ToSet(s \o t)
    <2>1. PICK i \in 1 .. Len(t) : x = t[i]
      BY <1>3, <1>6
    <2>2. Len(s) + i \in 1 .. Len(s) + Len(t) /\ ~(Len(s) + i <= Len(s)) /\ (Len(s) + i) - Len(s) = i
      BY <1>1
    <2>3. (s \o t)[Len(s) + i] = x
      BY <1>1, <2>1, <2>2
    <2> QED BY <1>2, <2>2, <2>3
  <1> QED BY <1>4, <1>5, <1>6

\* What comes next in the file.
Comes(ahead, before, upto) == \A i \in 1 .. Len(ahead) : ahead[i] = (upto - before) + i

\* What comes next has the numbers that follow.
LEMMA MembersNext ==
    ASSUME NEW ahead \in Seq(Int), NEW before \in Int, NEW upto \in Nat, Comes(ahead, before, upto)
    PROVE  ToSet(ahead) = (upto - before) + 1 .. (upto - before) + Len(ahead)
  <1>1. ToSet(ahead) = {ahead[i] : i \in 1 .. Len(ahead)} /\ Len(ahead) \in Nat
    BY MembersOf, LenProperties
  <1>2. ASSUME NEW x \in ToSet(ahead) PROVE x \in (upto - before) + 1 .. (upto - before) + Len(ahead)
    <2>1. PICK i \in 1 .. Len(ahead) : x = ahead[i]
      BY <1>1, <1>2
    <2> QED BY <1>1, <2>1 DEF Comes
  <1>3. ASSUME NEW x \in (upto - before) + 1 .. (upto - before) + Len(ahead) PROVE x \in ToSet(ahead)
    <2>1. x - (upto - before) \in 1 .. Len(ahead)
      BY <1>1, <1>3
    <2>2. ahead[x - (upto - before)] = x
      BY <1>1, <1>3, <2>1 DEF Comes
    <2> QED BY <1>1, <2>1, <2>2
  <1> QED BY <1>2, <1>3

\* What was read next and is kept goes on the account.
LEMMA KeptGrows ==
    ASSUME NEW kept \in Seq(Int), NEW ahead \in Seq(Int), NEW lost \in SUBSET Int, NEW before \in Int, NEW upto \in Nat,
           Accounts(kept, lost, before, upto), Comes(ahead, before, upto)
    PROVE  Accounts(kept \o ahead, lost, before, upto + Len(ahead))
  <1> DEFINE n == Len(kept)  m == Len(ahead)
  <1>1. /\ n \in Nat /\ m \in Nat /\ Len(kept \o ahead) = n + m
        /\ \A i \in 1 .. n + m : (kept \o ahead)[i] = IF i <= n THEN kept[i] ELSE ahead[i - n]
    BY LenProperties, ConcatProperties
  <1>2. ToSet(ahead) = (upto - before) + 1 .. (upto - before) + m
    BY MembersNext
  <1>3. ToSet(kept \o ahead) = ToSet(kept) \union ToSet(ahead)
    BY MembersOfBoth
  <1>4. ToSet(kept \o ahead) \union lost = 1 - before .. (upto + m) - before
    <2>1. (1 - before .. upto - before) \union ((upto - before) + 1 .. (upto - before) + m) = 1 - before .. (upto + m) - before
      BY <1>1
    <2> QED BY <1>2, <1>3, <2>1 DEF Accounts
  <1>5. ToSet(kept \o ahead) \intersect lost = {}
    <2>1. lost \subseteq 1 - before .. upto - before
      BY DEF Accounts
    <2>2. (1 - before .. upto - before) \intersect ((upto - before) + 1 .. (upto - before) + m) = {}
      BY <1>1
    <2> QED BY <1>2, <1>3, <2>1, <2>2 DEF Accounts
  <1>6. ASSUME NEW i \in 1 .. n + m - 1 PROVE (kept \o ahead)[i] < (kept \o ahead)[i + 1]
    <2>1. CASE i < n
      <3>1. (kept \o ahead)[i] = kept[i] /\ (kept \o ahead)[i + 1] = kept[i + 1]
        BY <1>1, <2>1
      <3>2. i \in 1 .. Len(kept) - 1
        BY <1>1, <2>1
      <3> QED BY <3>1, <3>2 DEF Accounts, Grows
    <2>2. CASE i = n
      <3>1. (kept \o ahead)[i] = kept[n] /\ (kept \o ahead)[i + 1] = ahead[1]
        <4>1. n + 1 \in 1 .. n + m /\ ~(n + 1 <= n) /\ (n + 1) - n = 1
          BY <1>1, <1>6, <2>2
        <4> QED BY <1>1, <2>2, <4>1
      <3>2. ahead[1] = (upto - before) + 1
        BY <1>1, <2>2 DEF Comes
      <3>3. kept[n] \in ToSet(kept)
        BY <1>1, <2>2, MembersOf
      <3>4. kept[n] \in 1 - before .. upto - before
        BY <3>3 DEF Accounts
      <3> QED BY <3>1, <3>2, <3>4
    <2>3. CASE i > n
      <3>1. i - n \in 1 .. m /\ (i + 1) - n \in 1 .. m /\ (i + 1) - n = (i - n) + 1
        BY <1>1, <1>6, <2>3
      <3>2. (kept \o ahead)[i] = ahead[i - n] /\ (kept \o ahead)[i + 1] = ahead[(i + 1) - n]
        <4>1. i \in 1 .. n + m /\ i + 1 \in 1 .. n + m /\ ~(i <= n) /\ ~(i + 1 <= n)
          BY <1>1, <1>6, <2>3
        <4> HIDE DEF n, m
        <4> QED BY <1>1, <4>1, Zenon
      <3>3. ahead[i - n] = (upto - before) + (i - n) /\ ahead[(i + 1) - n] = (upto - before) + ((i + 1) - n)
        BY <3>1 DEF Comes
      <3> QED BY <1>1, <3>1, <3>2, <3>3
    <2> QED BY <1>1, <2>1, <2>2, <2>3
  <1>7. Grows(kept \o ahead)
    BY <1>1, <1>6 DEF Grows
  <1> QED BY <1>4, <1>5, <1>7 DEF Accounts

\* So does what was read next and is lost.
LEMMA LostGrows ==
    ASSUME NEW kept \in Seq(Int), NEW ahead \in Seq(Int), NEW lost \in SUBSET Int, NEW before \in Int, NEW upto \in Nat,
           Accounts(kept, lost, before, upto), Comes(ahead, before, upto)
    PROVE  Accounts(kept, lost \union ToSet(ahead), before, upto + Len(ahead))
  <1> DEFINE m == Len(ahead)
  <1>1. m \in Nat /\ ToSet(ahead) = (upto - before) + 1 .. (upto - before) + m
    BY MembersNext, LenProperties
  <1>2. (1 - before .. upto - before) \union ((upto - before) + 1 .. (upto - before) + m) = 1 - before .. (upto + m) - before
    BY <1>1
  <1>3. (1 - before .. upto - before) \intersect ((upto - before) + 1 .. (upto - before) + m) = {}
    BY <1>1
  <1>4. ToSet(kept) \subseteq 1 - before .. upto - before
    BY DEF Accounts
  <1> QED BY <1>1, <1>2, <1>3, <1>4 DEF Accounts

-----------------------------------------------------------------------------
(***************************************************************************)
(* The reader of results                                                   *)
(***************************************************************************)

\* The part of the invariant about the results.
Reading == ReaderTypes /\ Text /\ Unread /\ Reads /\ QuietEnd

LEMMA ReaderIs ==
    ASSUME TestTypes
    PROVE  /\ reader.pos \in Nat /\ reader.buffer \in Seq(Int) /\ reader.given \in Seq(Int) /\ reader.lost \in SUBSET Int
           /\ reader.pc \in {"none", "read", "empty", "over", "failed"} /\ reader.quiet \in BOOLEAN
           /\ out.text \in Seq(Int) /\ out.written \in Nat /\ Len(out.text) \in Nat /\ Before \in Int
           /\ Kept \in Seq(Int) /\ Chunk \in Nat \ {0} /\ stat.buffer \in Seq(Nat)
  <1>1. out.text \in Seq(Int) /\ out.written \in Nat /\ reader.buffer \in Seq(Int) /\ reader.given \in Seq(Int)
    BY DEF TestTypes, ReaderTypes, ReaderSet
  <1>2. Len(out.text) \in Nat /\ reader.given \o reader.buffer \in Seq(Int)
    BY <1>1, LenProperties, ConcatProperties
  <1>3. Chunk \in Nat \ {0}
    BY GeneratorsAssumption DEF GeneratorsAssumption
  <1>4. stat.buffer \in Seq(Nat)
    BY DEF TestTypes, StatTypes, StatSet
  <1>5. /\ reader.pos \in Nat /\ reader.lost \in SUBSET Int
        /\ reader.pc \in {"none", "read", "empty", "over", "failed"} /\ reader.quiet \in BOOLEAN
    BY DEF TestTypes, ReaderTypes, ReaderSet
  <1> QED BY <1>1, <1>2, <1>3, <1>4, <1>5 DEF Before, Kept

\* What comes after the position, and what readline takes of it.
LEMMA AheadIs ==
    ASSUME TestTypes, Text, reader.pos <= Len(out.text)
    PROVE  /\ Ahead \in Seq(Int) /\ reader.pos + Len(Ahead) <= Len(out.text)
           /\ Comes(Ahead, Before, reader.pos)
           /\ Ahead = << >> => reader.pos = Len(out.text)
           /\ Readline \in Seq(Int) /\ reader.pos + Len(Readline) <= Len(out.text)
           /\ Comes(Readline, Before, reader.pos)
  <1> DEFINE len == Len(out.text)  part(to) == SubSeq(out.text, reader.pos + 1, to)
  <1>1. reader.pos \in 0 .. len /\ len \in Nat /\ out.text \in Seq(Int) /\ Before \in Int
    BY ReaderIs
  <1>2. ASSUME NEW to \in reader.pos .. len
        PROVE  /\ part(to) \in Seq(Int) /\ Len(part(to)) = to - reader.pos
               /\ Comes(part(to), Before, reader.pos)
    <2>1. /\ part(to) \in Seq(Int) /\ Len(part(to)) = to - reader.pos
          /\ \A i \in 1 .. to - reader.pos : part(to)[i] = out.text[reader.pos + i]
      BY <1>1, PartIs
    <2>2. ASSUME NEW i \in 1 .. to - reader.pos PROVE out.text[reader.pos + i] = (reader.pos - Before) + i
      <3>1. reader.pos + i \in DOMAIN out.text
        BY <1>1
      <3> QED BY <1>1, <3>1 DEF Text
    <2> QED BY <2>1, <2>2 DEF Comes
  <1>3. PICK to \in reader.pos .. len : Ahead = part(to) /\ (to = reader.pos => reader.pos = len)
    <2>1. {len, reader.pos + Chunk} \subseteq Nat /\ Chunk \in Nat \ {0}
      BY <1>1, ReaderIs
    <2>2. Min({len, reader.pos + Chunk}) \in {len, reader.pos + Chunk} /\ Min({len, reader.pos + Chunk}) <= len
      <3>1. {len, reader.pos + Chunk} # {} /\ len \in {len, reader.pos + Chunk}
        OBVIOUS
      <3>2. PICK S : S = {len, reader.pos + Chunk}
        OBVIOUS
      <3>3. Min(S) \in S /\ \A y \in S : Min(S) <= y
        BY <2>1, <3>1, <3>2, MinIs
      <3> QED BY <3>1, <3>2, <3>3
    <2> DEFINE to == Min({len, reader.pos + Chunk})
    <2>3. to \in reader.pos .. len /\ (to = reader.pos => reader.pos = len)
      BY <1>1, <2>1, <2>2
    <2>4. Ahead = part(to)
      BY DEF Ahead
    <2> HIDE DEF to
    <2> QED BY <2>3, <2>4
  <1>4. /\ Readline \in Seq(Int) /\ reader.pos + Len(Readline) <= len
        /\ Comes(Readline, Before, reader.pos)
    <2> DEFINE ahead == part(len)
    <2>1. ahead \in Seq(Int) /\ Len(ahead) = len - reader.pos /\ Comes(ahead, Before, reader.pos)
      <3>1. len \in reader.pos .. len
        BY <1>1
      <3> QED BY <1>2, <3>1
    <2>2. Readline = IF LineEnds(ahead) = {} THEN ahead ELSE SubSeq(ahead, 1, Min(LineEnds(ahead)))
      BY DEF Readline
    <2> HIDE DEF ahead
    <2>3. CASE LineEnds(ahead) = {}
      BY <1>1, <2>1, <2>2, <2>3
    <2>4. CASE LineEnds(ahead) # {}
      <3>1. LineEnds(ahead) \subseteq 1 .. len - reader.pos
        BY <2>1, LenProperties DEF LineEnds
      <3>2. LineEnds(ahead) \subseteq Nat
        BY <1>1, <3>1
      <3>3. Min(LineEnds(ahead)) \in LineEnds(ahead)
        BY <2>4, <3>2, MinIs
      <3>4. PICK n \in 0 .. Len(ahead) : n = Min(LineEnds(ahead))
        BY <1>1, <2>1, <3>1, <3>3
      <3>5. /\ SubSeq(ahead, 0 + 1, n) \in Seq(Int) /\ Len(SubSeq(ahead, 0 + 1, n)) = n - 0
            /\ \A i \in 1 .. n - 0 : SubSeq(ahead, 0 + 1, n)[i] = ahead[0 + i]
        BY <1>1, <2>1, PartIs
      <3>6. Readline = SubSeq(ahead, 0 + 1, n)
        BY <2>2, <2>4, <3>4
      <3>7. \A i \in 1 .. n : i \in 1 .. Len(ahead)
        BY <1>1, <2>1
      <3>8. Readline \in Seq(Int) /\ Len(Readline) = n /\ n <= len - reader.pos /\ n \in Nat
        BY <1>1, <2>1, <3>5, <3>6
      <3>9. \A i \in 1 .. n : Readline[i] = ahead[i]
        BY <3>5, <3>6
      <3>10. \A i \in 1 .. n : ahead[i] = (reader.pos - Before) + i
        BY <2>1, <3>7 DEF Comes
      <3>11. reader.pos + n <= len
        BY ONLY <1>1, <3>8
      <3> QED BY <3>8, <3>9, <3>10, <3>11 DEF Comes
    <2> QED BY <2>3, <2>4
  <1>5. to - reader.pos = 0 => reader.pos = len
    BY <1>1, <1>3
  <1>6. Ahead = << >> => Len(Ahead) = 0
    BY EmptySeq
  <1>7. Len(Ahead) = to - reader.pos /\ reader.pos + (to - reader.pos) <= len
    BY <1>1, <1>2, <1>3
  <1> QED BY <1>2, <1>3, <1>4, <1>5, <1>6, <1>7

\* A step that leaves the file and the place of the reader alone.
LEMMA HeldReads ==
    ASSUME TestTypes, Reading, UNCHANGED <<opt, out>>, reader' \in ReaderSet,
           reader'.pc = reader.pc \/ (reader.pc \notin {"none", "failed"} /\ reader'.pc # "none"),
           reader'.pos = reader.pos, reader'.buffer = reader.buffer, reader'.given = reader.given,
           reader'.lost = reader.lost,
           reader'.quiet => ~Writing' /\ tank'.stage \notin Early /\ reader.pos = Len(out.text),
           reader'.pc = "none" => ~reader'.quiet
    PROVE  Reading'
  <1>1. Kept' = Kept /\ Before' = Before
    BY DEF Kept, Before
  <1>2. ReaderTypes'
    BY DEF Reading, ReaderTypes, ReaderSet
  <1>3. Text'
    BY <1>1 DEF Reading, Text
  <1>4. Unread'
    BY <1>1 DEF Reading, Unread
  <1>5. Reads'
    BY <1>1 DEF Reading, Reads
  <1>6. QuietEnd'
    BY DEF QuietEnd
  <1> QED BY <1>2, <1>3, <1>4, <1>5, <1>6 DEF Reading

\* The line the process writes is the next one.
LEMMA WriteReads ==
    ASSUME TestTypes, Control, Reading, WriteResults
    PROVE  Reading'
  <1>1. UNCHANGED <<opt, tank, proc, reader>> /\ Writing /\ out'.written = out.written + 1
        /\ out'.text = Append(out.text, out.written + 1) /\ out' = [text |-> out'.text, written |-> out'.written]
    BY DEF WriteResults
  <1>2. /\ out'.text \in Seq(Int) /\ Len(out'.text) = Len(out.text) + 1
        /\ \A i \in 1 .. Len(out.text) : out'.text[i] = out.text[i]
        /\ out'.text[Len(out.text) + 1] = out.written + 1
    <2>1. PICK text \in Seq(Int), h \in Int : text = out.text /\ h = out.written + 1
      BY ReaderIs
    <2>2. /\ Append(text, h) \in Seq(Int) /\ Len(Append(text, h)) = Len(text) + 1
          /\ \A i \in 1 .. Len(text) : Append(text, h)[i] = text[i]
          /\ Append(text, h)[Len(text) + 1] = h
      BY AppendProperties
    <2> QED BY <1>1, <2>1, <2>2
  <1>3. Before' = Before /\ Kept' = Kept
    <2>1. Len(out.text) \in Nat /\ out.written \in Nat
      BY ReaderIs
    <2>2. (Len(out.text) + 1) - (out.written + 1) = Len(out.text) - out.written
      BY <2>1
    <2> QED BY <1>1, <1>2, <2>2 DEF Before, Kept
  <1>4. ReaderTypes'
    <2>1. out.written + 1 \in Nat
      BY ReaderIs
    <2>2. out' \in [text : Seq(Int), written : Nat]
      BY <1>1, <1>2, <2>1
    <2> QED BY <1>1, <2>2 DEF Reading, ReaderTypes
  <1>5. Text'
    <2>1. ASSUME NEW i \in DOMAIN out'.text PROVE out'.text[i] = i - Before
      <3>1. i \in 1 .. Len(out.text) + 1 /\ DOMAIN out.text = 1 .. Len(out.text)
        BY <1>2, <2>1, ReaderIs, LenProperties
      <3>2. CASE i \in 1 .. Len(out.text)
        BY <1>2, <3>1, <3>2 DEF Reading, Text
      <3>3. CASE i = Len(out.text) + 1
        BY <1>2, <3>3, ReaderIs DEF Before
      <3>4. Len(out.text) \in Nat
        BY ReaderIs
      <3>5. i \in 1 .. Len(out.text) \/ i = Len(out.text) + 1
        BY ONLY <3>1, <3>4
      <3> QED BY <3>2, <3>3, <3>5
    <2> QED BY <1>1, <1>3, <2>1 DEF Reading, Text
  <1>6. Unread'
    BY <1>1, <1>3 DEF Reading, Unread
  <1>7. Reads'
    <2>1. reader.pos <= Len(out.text) => reader.pos <= Len(out.text) + 1
      BY ReaderIs
    <2> QED BY <1>1, <1>2, <1>3, <2>1 DEF Reading, Reads
  <1>8. QuietEnd'
    BY <1>1 DEF Reading, QuietEnd
  <1> QED BY <1>4, <1>5, <1>6, <1>7, <1>8 DEF Reading

\* Before the process runs the file is emptied, or is new, or is one that was given.
LEMMA EarlyReads ==
    ASSUME TestTypes, Control, Reading, tank.stage \in Early, opt' = opt,
           out'.written = out.written, out' = [text |-> out'.text, written |-> out'.written],
           out' = out \/ out'.text = << >>,
           reader' = reader \/ (reader' = [reader EXCEPT !.pc = "read"] /\ (out'.text = << >> \/ opt.given))
    PROVE  Reading'
  <1>1. reader.pc = "none" /\ out.written = 0
    BY DEF Control, Begun
  <1>2. /\ reader.pos = 0 /\ Kept = << >> /\ reader.lost = {} /\ ~reader.quiet
        /\ reader.buffer = << >> /\ reader.given = << >>
    <2>1. reader.pos = 0 /\ Kept = << >> /\ reader.lost = {} /\ ~reader.quiet
      BY <1>1 DEF Reading, Unread
    <2> QED BY <2>1, ReaderIs, ConcatEqualIffEmpty DEF Kept
  <1>3. /\ reader' \in ReaderSet /\ reader'.pos = 0 /\ reader'.lost = {} /\ ~reader'.quiet
        /\ reader'.buffer = << >> /\ reader'.given = << >>
    BY <1>2 DEF Reading, ReaderTypes, ReaderSet
  <1>4. Kept' = << >>
    BY <1>3 DEF Kept
  <1>5. out'.text \in Seq(Int) /\ Len(out'.text) \in Nat /\ Before' = Len(out'.text)
    <2>1. out'.text \in Seq(Int)
      BY ReaderIs, EmptySeq
    <2>2. Len(out'.text) \in Nat
      BY <2>1, LenProperties
    <2> QED BY <1>1, <2>1, <2>2 DEF Before
  <1>6. ReaderTypes'
    BY <1>1, <1>3, <1>5 DEF ReaderTypes, ReaderSet
  <1>7. Text'
    <2>1. Before' >= 0
      BY <1>5
    <2>2. ASSUME NEW i \in DOMAIN out'.text PROVE out'.text[i] = i - Before'
      <3>1. out' = out
        BY <2>2, EmptySeq, LenProperties, <1>5
      <3> QED BY <2>2, <3>1 DEF Reading, Text, Before
    <2>3. reader'.pc # "none" /\ ~opt.given => Before' = 0
      <3>1. reader'.pc # "none" => out'.text = << >> \/ opt.given
        BY <1>1
      <3> QED BY <1>5, <3>1, EmptySeq
    <2> QED BY <2>1, <2>2, <2>3 DEF Text
  <1>8. Unread'
    BY <1>3, <1>4 DEF Unread
  <1>9. Reads'
    <2>1. ToSet(<< >>) = {} /\ Len(<< >>) = 0
      BY EmptySeq DEF ToSet
    <2>2. 1 - Before' .. 0 - Before' = {}
      BY <1>5
    <2>3. Accounts(<< >>, {}, Before', 0)
      <3>1. Grows(<< >>)
        BY <2>1 DEF Grows
      <3> QED BY <2>1, <2>2, <3>1 DEF Accounts
    <2>4. \A i \in DOMAIN reader'.buffer : ~EndsLine(reader'.buffer[i])
      BY <1>3
    <2> QED BY <1>3, <1>4, <1>5, <2>3, <2>4 DEF Reads
  <1>10. QuietEnd'
    BY <1>3 DEF QuietEnd
  <1> QED BY <1>6, <1>7, <1>8, <1>9, <1>10 DEF Reading

\* A chunk goes on where the one before was cut.
LEMMA GiveReads ==
    ASSUME TestTypes, Control, Reading, reader.pc = "read", UNCHANGED <<opt, tank, proc, out>>, Ahead # << >>,
           NEW last \in BOOLEAN, Give(last)
    PROVE  Reading'
  <1> DEFINE text == reader.buffer \o Ahead
  <1>1. /\ reader.pos <= Len(out.text) /\ Accounts(Kept, reader.lost, Before, reader.pos)
        /\ reader.buffer \in Seq(Int) /\ reader.given \in Seq(Int) /\ reader.pos \in Nat
    BY ReaderIs DEF Reading, Reads
  <1>2. /\ Ahead \in Seq(Int) /\ reader.pos + Len(Ahead) <= Len(out.text) /\ Len(Ahead) \in Nat
        /\ Comes(Ahead, Before, reader.pos)
    BY <1>1, AheadIs, LenProperties DEF Reading
  <1>3. text \in Seq(Int)
    BY <1>1, <1>2, ConcatProperties
  <1>4. /\ Whole(text) \in Seq(Int) /\ Rest(text) \in Seq(Int) /\ Whole(text) \o Rest(text) = text
        /\ \A i \in DOMAIN Rest(text) : ~EndsLine(Rest(text)[i])
    BY <1>3, CutText
  <1>5. reader' = [reader EXCEPT !.pos = reader.pos + Len(Ahead), !.pc = AfterRead(last),
                                 !.given = reader.given \o Whole(text), !.buffer = Rest(text)]
    BY DEF Give
  <1> HIDE DEF text
  <1>6. reader.given \o Whole(text) \in Seq(Int) /\ AfterRead(last) \in {"over", "read"}
        /\ reader.pos + Len(Ahead) \in Nat
    BY <1>1, <1>2, <1>4, ConcatProperties DEF AfterRead
  <1>7. /\ reader' \in ReaderSet /\ reader'.pos = reader.pos + Len(Ahead) /\ reader'.pc \in {"over", "read"}
        /\ reader'.given = reader.given \o Whole(text) /\ reader'.buffer = Rest(text)
        /\ reader'.lost = reader.lost /\ reader'.quiet = reader.quiet
    BY <1>4, <1>5, <1>6 DEF Reading, ReaderTypes, ReaderSet
  <1>8. Kept' = Kept \o Ahead
    <2>1. \A s, t, u \in Seq(Int) : (s \o t) \o u = s \o (t \o u)
      OBVIOUS
    <2>2. (reader.given \o Whole(text)) \o Rest(text) = reader.given \o (Whole(text) \o Rest(text))
      BY <1>1, <1>4, <2>1, Zenon
    <2>3. reader.given \o (reader.buffer \o Ahead) = (reader.given \o reader.buffer) \o Ahead
      BY <1>1, <1>2, <2>1, Zenon
    <2> QED BY <1>4, <1>7, <2>2, <2>3 DEF Kept, text
  <1>9. Before' = Before
    BY DEF Before
  <1>10. ReaderTypes'
    BY <1>7 DEF Reading, ReaderTypes, ReaderSet
  <1>11. Text'
    BY <1>7, <1>9 DEF Reading, Text
  <1>12. Unread'
    BY <1>7 DEF Unread
  <1>13. Reads'
    <2>1. Accounts(Kept \o Ahead, reader.lost, Before, reader.pos + Len(Ahead))
      BY <1>1, <1>2, ReaderIs, KeptGrows
    <2> QED BY <1>2, <1>4, <1>7, <1>8, <1>9, <2>1 DEF Reads
  <1>14. QuietEnd'
    <2>1. ~reader.quiet
      <3>1. CASE reader.quiet
        <4>1. reader.pos = Len(out.text)
          BY <3>1 DEF Reading, QuietEnd
        <4>2. Len(Ahead) = 0
          BY <1>1, <1>2, <4>1
        <4> QED BY <1>2, <4>2, EmptySeq
      <3> QED BY <3>1
    <2> QED BY <1>7, <2>1 DEF QuietEnd
  <1> QED BY <1>10, <1>11, <1>12, <1>13, <1>14 DEF Reading

\* What readline takes is lost, and when nothing was left it takes nothing.
LEMMA LoseReads ==
    ASSUME TestTypes, Control, Reading, reader.pc # "none", reader.pc # "failed", UNCHANGED <<opt, tank, proc, out>>,
           JtlEmpty
    PROVE  Reading'
  <1>1. /\ reader.pos <= Len(out.text) /\ Accounts(Kept, reader.lost, Before, reader.pos)
        /\ reader.buffer \in Seq(Int) /\ reader.given \in Seq(Int) /\ reader.pos \in Nat /\ reader.lost \in SUBSET Int
        /\ \A i \in DOMAIN reader.buffer : ~EndsLine(reader.buffer[i])
    BY ReaderIs DEF Reading, Reads
  <1>2. /\ Readline \in Seq(Int) /\ reader.pos + Len(Readline) <= Len(out.text) /\ Len(Readline) \in Nat
        /\ Comes(Readline, Before, reader.pos)
    BY <1>1, AheadIs, LenProperties DEF Reading
  <1>3. ToSet(Readline) \in SUBSET Int
    BY <1>2, MembersOf
  <1>4. PICK agg \in BOOLEAN :
            reader' = [reader EXCEPT !.pc = AfterRead(reader.last), !.agg = agg, !.pos = reader.pos + Len(Readline),
                                     !.lost = reader.lost \union ToSet(Readline)]
    <2>1. (reader.agg \/ finished) \in BOOLEAN
      OBVIOUS
    <2> QED BY <2>1 DEF JtlEmpty
  <1>5. AfterRead(reader.last) \in {"over", "read"} /\ reader.pos + Len(Readline) \in Nat
        /\ reader.lost \union ToSet(Readline) \in SUBSET Int
    BY <1>1, <1>2, <1>3 DEF AfterRead
  <1>6. /\ reader' \in ReaderSet /\ reader'.pos = reader.pos + Len(Readline) /\ reader'.pc \in {"over", "read"}
        /\ reader'.given = reader.given /\ reader'.buffer = reader.buffer
        /\ reader'.lost = reader.lost \union ToSet(Readline) /\ reader'.quiet = reader.quiet
    BY <1>4, <1>5 DEF Reading, ReaderTypes, ReaderSet
  <1>7. Kept' = Kept /\ Before' = Before
    BY <1>6 DEF Kept, Before
  <1>8. ReaderTypes'
    BY <1>6 DEF Reading, ReaderTypes, ReaderSet
  <1>9. Text'
    BY <1>6, <1>7 DEF Reading, Text
  <1>10. Unread'
    BY <1>6 DEF Unread
  <1>11. Reads'
    <2>1. Accounts(Kept, reader.lost \union ToSet(Readline), Before, reader.pos + Len(Readline))
      BY <1>1, <1>2, ReaderIs, LostGrows
    <2> QED BY <1>1, <1>2, <1>6, <1>7, <2>1 DEF Reads
  <1>12. QuietEnd'
    <2>1. CASE reader.quiet
      <3>1. ~Writing /\ tank.stage \notin Early /\ reader.pos = Len(out.text)
        BY <2>1 DEF Reading, QuietEnd
      <3>2. reader.pos + Len(Readline) = Len(out.text)
        BY <1>1, <1>2, <3>1
      <3> QED BY <1>6, <3>1, <3>2 DEF QuietEnd, Writing, Alive
    <2>2. CASE ~reader.quiet
      BY <1>6, <2>2 DEF QuietEnd
    <2> QED BY <2>1, <2>2
  <1> QED BY <1>8, <1>9, <1>10, <1>11, <1>12 DEF Reading

\* Each step of the thread that reads the results.
LEMMA ResultsReads ==
    ASSUME TestTypes, Control, Reading, Results
    PROVE  Reading'
  <1>1. UNCHANGED <<opt, tank, proc, out>>
    BY DEF Results, Unmoved, ReaderThread, ReadSome, ReadNothing, MultiEmpty, JtlEmpty
  <1>2. CASE ReadSome
    <2>1. CASE Give(opt.gen = "jmeter" /\ reader.closed)
      <3>1. PICK last \in BOOLEAN : last = (opt.gen = "jmeter" /\ reader.closed)
        OBVIOUS
      <3> QED BY <1>1, <1>2, <2>1, <3>1, GiveReads DEF ReadSome
    <2>2. CASE reader' = [reader EXCEPT !.pc = "failed"]
      <3>1. reader' \in ReaderSet /\ reader'.pc = "failed" /\ reader'.quiet = reader.quiet
        BY <2>2 DEF Reading, ReaderTypes, ReaderSet
      <3>2. reader'.quiet => ~Writing' /\ tank'.stage \notin Early /\ reader.pos = Len(out.text)
        BY <1>1, <3>1 DEF Reading, QuietEnd, Writing, Alive
      <3>3. Kept' = Kept /\ Before' = Before /\ reader'.pos = reader.pos
        BY <1>1, <2>2 DEF Kept, Before, Reading, ReaderTypes, ReaderSet
      <3>4. ReaderTypes'
        BY <1>1, <3>1 DEF Reading, ReaderTypes, ReaderSet
      <3>5. Text'
        BY <1>1, <1>2, <3>1, <3>3 DEF Reading, Text, ReadSome
      <3>6. Unread' /\ Reads'
        BY <3>1 DEF Unread, Reads
      <3>7. QuietEnd'
        BY <1>1, <3>2, <3>3 DEF QuietEnd
      <3> QED BY <3>4, <3>5, <3>6, <3>7 DEF Reading
    <2> QED BY <1>2, <2>1, <2>2 DEF ReadSome
  <1>3. CASE ReadNothing(~Writing)
    <2>1. reader.pc = "read" /\ Ahead = << >>
      BY <1>3 DEF ReadNothing
    <2>2. reader.pos = Len(out.text)
      BY <2>1, AheadIs DEF Reading, Reads
    <2>3. PICK quiet, last \in BOOLEAN : quiet = ~Writing /\ reader' = [reader EXCEPT !.pc = "empty", !.quiet = quiet, !.last = last]
      <3>1. (~Writing) \in BOOLEAN /\ (opt.gen = "jmeter" /\ reader.closed) \in BOOLEAN
        OBVIOUS
      <3> QED BY <1>3, <3>1 DEF ReadNothing
    <2>4. /\ reader' \in ReaderSet /\ reader'.pc = "empty" /\ reader'.quiet = quiet /\ reader'.pos = reader.pos
          /\ reader'.buffer = reader.buffer /\ reader'.given = reader.given /\ reader'.lost = reader.lost
      BY <2>3 DEF Reading, ReaderTypes, ReaderSet
    <2>5. tank.stage \notin Early
      BY <2>1 DEF Control, Begun
    <2> QED BY <1>1, <2>1, <2>2, <2>3, <2>4, <2>5, HeldReads DEF Writing, Alive
  <1>4. CASE MultiEmpty
    <2>1. reader.pc = "empty" /\ reader' = [reader EXCEPT !.pc = AfterRead(finished), !.closed = finished]
      BY <1>4 DEF MultiEmpty
    <2>2. AfterRead(finished) \in {"over", "read"} /\ finished \in BOOLEAN
      BY TankIs DEF AfterRead
    <2>3. /\ reader' \in ReaderSet /\ reader'.pc \in {"over", "read"} /\ reader'.quiet = reader.quiet /\ reader'.pos = reader.pos
          /\ reader'.buffer = reader.buffer /\ reader'.given = reader.given /\ reader'.lost = reader.lost
      BY <2>1, <2>2 DEF Reading, ReaderTypes, ReaderSet
    <2>4. reader'.quiet => ~Writing' /\ tank'.stage \notin Early /\ reader.pos = Len(out.text)
      BY <1>1, <2>3 DEF Reading, QuietEnd, Writing, Alive
    <2> QED BY <1>1, <2>1, <2>3, <2>4, HeldReads
  <1>5. CASE JtlEmpty
    BY <1>1, <1>5, LoseReads DEF JtlEmpty
  <1> QED BY <1>2, <1>3, <1>4, <1>5 DEF Results, ReaderThread

\* Every other step leaves the place of the reader alone, and what is over stays so.
LEMMA StaysOver ==
    ASSUME TestTypes, Control, tank.stage \notin Early, ~Writing, [Next]_vars
    PROVE  tank'.stage \notin Early /\ ~Writing'
  <1> USE TankIs DEF Alive, Writing
  <1>1. CASE UNCHANGED <<tank, proc>>
    BY <1>1
  <1>2. CASE Process
    BY <1>2 DEF Process, WriteResults, WriteStats, Exit, ChildEnds
  <1>3. CASE PollGenerator \/ PollShell \/ PollResources \/ Interrupted
    <2>1. proc' = proc
      BY <1>3 DEF PollGenerator, PollShell, PollResources, Interrupted
    <2>2. tank'.stage \notin Early
      <3>1. CASE PollGenerator
        BY <3>1 DEF PollGenerator, PollPhantom, PollPandora, PollShootExec, PollJMeter, Answered, Stage
      <3>2. CASE PollShell \/ PollResources \/ Interrupted
        BY <3>2 DEF PollShell, PollResources, Interrupted, NextTurn, Ended
      <3> QED BY <1>3, <3>1, <3>2
    <2> QED BY <2>1, <2>2
  <1>4. CASE EndGenerator \/ Kill \/ UdpOver \/ CloseStats
    <2>1. ~Writing'
      BY <1>4, OptionIs DEF EndGenerator, EndPhantom, EndPandora, EndShootExec, EndJMeter, Told, Kill, UdpOver, CloseStats
    <2>2. tank'.stage \notin Early
      <3>1. CASE EndGenerator
        BY <3>1, OptionIs DEF EndGenerator, EndPhantom, EndPandora, EndShootExec, EndJMeter, Stage, To
      <3>2. CASE Kill \/ UdpOver \/ CloseStats
        BY <3>2 DEF Kill, UdpOver, CloseStats, Stage
      <3> QED BY <1>4, <3>1, <3>2
    <2> QED BY <2>1, <2>2
  <1>5. CASE Join \/ EndOthers \/ PostProcess
    BY <1>5 DEF Join, EndOthers, PostProcess, Stage, To
  <1>6. CASE Configure \/ Prepare \/ Start \/ StoppedEarly
    BY <1>6 DEF Configure, Prepare, Start, StoppedEarly
  <1>7. CASE Results \/ Statistics \/ Poller
    BY <1>7, <1>1 DEF Results, Statistics, Poller, Unmoved
  <1> QED BY <1>1, <1>2, <1>3, <1>4, <1>5, <1>6, <1>7 DEF Next, Tank, vars

\* The steps of a test that start or stop the reader.
LEMMA AsideReads ==
    ASSUME TestTypes, Control, Reading, [Next]_vars, UNCHANGED <<opt, out>>,
           \/ reader' = reader
           \/ reader' = [reader EXCEPT !.closed = TRUE]
           \/ reader' = [reader EXCEPT !.agg = TRUE]
    PROVE  Reading'
  <1>1. reader \in ReaderSet
    BY DEF Reading, ReaderTypes, ReaderSet
  <1>2. /\ reader' \in ReaderSet /\ reader'.pc = reader.pc /\ reader'.quiet = reader.quiet /\ reader'.pos = reader.pos
        /\ reader'.buffer = reader.buffer /\ reader'.given = reader.given /\ reader'.lost = reader.lost
    BY <1>1 DEF ReaderSet
  <1>3. reader'.quiet => ~Writing' /\ tank'.stage \notin Early /\ reader.pos = Len(out.text)
    BY <1>2, StaysOver DEF Reading, QuietEnd
  <1>4. reader'.pc = "none" => ~reader'.quiet
    BY <1>2 DEF Reading, Unread
  <1> QED BY <1>2, <1>3, <1>4, HeldReads

LEMMA ReadingStep ==
    ASSUME TestTypes, Control, Reading, [Next]_vars
    PROVE  Reading'
  <1>1. CASE WriteResults
    BY <1>1, WriteReads
  <1>2. CASE Results
    BY <1>2, ResultsReads
  <1>3. CASE Prepare
    <2>1. /\ tank.stage \in Early /\ opt' = opt /\ reader' = reader /\ out'.written = out.written
          /\ out' = [text |-> out'.text, written |-> out'.written]
      BY <1>3, TankIs DEF Prepare, Emptied
    <2>2. out' = out \/ out'.text = << >>
      BY <1>3, TankIs DEF Prepare, Emptied
    <2> QED BY <2>1, <2>2, EarlyReads
  <1>4. CASE Start
    <2>1. /\ tank.stage = "start" /\ opt' = opt /\ reader' = [reader EXCEPT !.pc = "read"]
          /\ out' = IF opt.gen = "shootexec" THEN [out EXCEPT !.text = << >>] ELSE out
      BY <1>4 DEF Start, GetReader, Emptied
    <2>2. /\ out'.written = out.written /\ out' = [text |-> out'.text, written |-> out'.written]
          /\ out' = out \/ out'.text = << >>
      BY <2>1, TankIs
    <2>3. out'.text = << >> \/ opt.given
      <3>1. CASE opt.gen = "shootexec"
        BY <2>1, <3>1, TankIs
      <3>2. CASE opt.gen # "shootexec"
        <4>1. out.text # << >> => opt.old /\ opt.gen # "pandora"
          BY <2>1 DEF Control, Begun
        <4> QED BY <2>1, <3>2, <4>1, TankIs, OptionIs
      <3> QED BY <3>1, <3>2
    <2> QED BY <2>1, <2>2, <2>3, EarlyReads
  <1>5. CASE PollGenerator \/ EndGenerator \/ UdpOver
    <2>1. UNCHANGED <<opt, out>>
      BY <1>5 DEF PollGenerator, EndGenerator, UdpOver
    <2>2. reader' = reader \/ reader' = [reader EXCEPT !.closed = TRUE]
      <3>1. CASE PollGenerator
        BY <3>1 DEF PollGenerator, PollJMeter
      <3>2. CASE EndGenerator
        BY <3>2, TankIs, OptionIs DEF EndGenerator, EndPhantom, EndPandora, EndShootExec, EndJMeter
      <3>3. CASE UdpOver
        BY <3>3 DEF UdpOver
      <3> QED BY <1>5, <3>1, <3>2, <3>3
    <2> QED BY <2>1, <2>2, AsideReads
  <1>6. CASE Statistics
    <2>1. UNCHANGED <<opt, out>>
      BY <1>6, DrainIs DEF Statistics, TestTypes
    <2>2. reader' = reader \/ reader' = [reader EXCEPT !.agg = TRUE]
      BY <1>6, DrainIs DEF Statistics, TestTypes
    <2> QED BY <2>1, <2>2, AsideReads
  <1>7. CASE \/ WriteStats \/ Exit \/ ChildEnds \/ Configure \/ StoppedEarly \/ PollShell \/ PollResources \/ Interrupted
             \/ Kill \/ CloseStats \/ Join \/ EndOthers \/ PostProcess \/ Poller \/ UNCHANGED vars
    <2>1. UNCHANGED <<opt, out, reader>>
      BY <1>7 DEF WriteStats, Exit, ChildEnds, Configure, StoppedEarly, PollShell, PollResources, Interrupted, Kill, CloseStats,
         Join, EndOthers, PostProcess, Poller, StatPoller, Fetch, AppendSecond, PollerStops, vars, files
    <2> QED BY <2>1, AsideReads
  <1> QED BY <1>1, <1>2, <1>3, <1>4, <1>5, <1>6, <1>7 DEF Next, Process, Tank

\* What the inductive invariant says of the results, in the words of the property.
LEMMA ReadingIsWhole ==
    ASSUME TestTypes, Control, Reading
    PROVE  ReadsThisWhole
  <1>1. ReadsThisTest
    <2> SUFFICES ASSUME reader.pc \notin {"none", "failed"}, ~opt.given
                 PROVE  /\ \A i \in 1 .. Len(Kept) - 1 : Kept[i] < Kept[i + 1]
                        /\ ToSet(Kept) \cup reader.lost = 1 .. reader.pos
                        /\ ToSet(Kept) \cap reader.lost = {}
      BY DEF ReadsThisTest, Kept
    <2>1. Before = 0
      BY DEF Reading, Text
    <2>2. Accounts(Kept, reader.lost, 0, reader.pos)
      BY <2>1 DEF Reading, Reads
    <2>3. 1 - 0 = 1 /\ reader.pos - 0 = reader.pos
      BY ReaderIs
    <2> QED BY <2>2, <2>3 DEF Accounts, Grows
  <1>2. tank.stage \in {"close", "join", "after", "post", "done"} /\ opt.gen \in {"phantom", "shootexec"}
            => finished /\ ~Alive
    BY DEF Control, Ending
  <1>3. ASSUME reader.pc = "over", reader.quiet, NEW h \in 1 .. out.written, EndsLine(h)
        PROVE  h \in ToSet(reader.given) \cup reader.lost
    <2>1. /\ Accounts(Kept, reader.lost, Before, reader.pos) /\ Before >= 0 /\ reader.pos = Len(out.text)
          /\ \A i \in DOMAIN reader.buffer : ~EndsLine(reader.buffer[i])
      BY <1>3 DEF Reading, Reads, Text, QuietEnd
    <2>2. h \in 1 - Before .. reader.pos - Before
      <3>1. PICK n \in Nat, b \in Nat, p \in Nat : n = out.written /\ b = Before /\ p = reader.pos
        BY <2>1, ReaderIs DEF Before
      <3>2. h \in 1 .. n /\ p - b = n
        BY <1>3, <2>1, <3>1, ReaderIs DEF Before
      <3>3. h \in 1 - b .. p - b
        BY ONLY <3>2, n \in Nat, b \in Nat, p \in Nat
      <3> QED BY <3>1, <3>3
    <2>3. h \in ToSet(Kept) \union reader.lost
      BY <2>1, <2>2 DEF Accounts
    <2>4. ToSet(Kept) = ToSet(reader.given) \union ToSet(reader.buffer)
      BY ReaderIs, MembersOfBoth DEF Kept
    <2>5. h \notin ToSet(reader.buffer)
      BY <1>3, <2>1 DEF ToSet
    <2> QED BY <2>3, <2>4, <2>5
  <1> QED BY <1>1, <1>2, <1>3 DEF ReadsThisWhole, EverythingRead

-----------------------------------------------------------------------------
(***************************************************************************)
(* The statistics                                                          *)
(***************************************************************************)

\* The part of the invariant about the statistics.
Stating == StatTypes /\ Lists /\ Kinds /\ Seconds /\ AllBlocks

\* What is shut stays so.
LEMMA StaysShut ==
    ASSUME TestTypes, tank.stage \in Shut, [Next]_vars
    PROVE  tank'.stage \in Shut
  <1> USE TankIs
  <1>1. CASE UNCHANGED tank
    BY <1>1
  <1>2. CASE Process
    BY <1>2 DEF Process, WriteResults, WriteStats, Exit, ChildEnds
  <1>3. CASE PollGenerator \/ PollShell \/ PollResources \/ Interrupted
    BY <1>3 DEF PollGenerator, PollShell, PollResources, Interrupted
  <1>4. CASE EndGenerator \/ Kill \/ UdpOver \/ CloseStats
    BY <1>4 DEF EndGenerator, Kill, UdpOver, CloseStats
  <1>5. CASE Join \/ EndOthers \/ PostProcess
    BY <1>5 DEF Join, EndOthers, PostProcess, Stage, To
  <1>6. CASE Configure \/ Prepare \/ Start \/ StoppedEarly
    BY <1>6 DEF Configure, Prepare, Start, StoppedEarly
  <1>7. CASE Results \/ Statistics \/ Poller
    BY <1>7, <1>1 DEF Results, Statistics, Poller, Unmoved
  <1> QED BY <1>1, <1>2, <1>3, <1>4, <1>5, <1>6, <1>7 DEF Next, Tank, vars

LEMMA StatIs ==
    ASSUME Stating
    PROVE  /\ stat \in StatSet /\ stat.out \in Nat /\ stat.pending \in Nat /\ stat.atClose \in Nat
           /\ stat.buffer \in Seq(Nat) /\ stat.taken \in Seq(Nat) /\ stat.given \in Seq(Nat)
           /\ stat.pos \in Nat /\ stat.lined \in SUBSET Nat /\ stat.seen \in Nat /\ stat.gaveUp \in BOOLEAN
           /\ All \in Seq(Nat)
  <1>1. /\ stat \in StatSet /\ stat.out \in Nat /\ stat.pending \in Nat /\ stat.atClose \in Nat
        /\ stat.buffer \in Seq(Nat) /\ stat.taken \in Seq(Nat) /\ stat.given \in Seq(Nat)
        /\ stat.pos \in Nat /\ stat.lined \in SUBSET Nat /\ stat.seen \in Nat /\ stat.gaveUp \in BOOLEAN
    BY DEF Stating, StatTypes, StatSet
  <1>2. stat.given \o stat.taken \in Seq(Nat)
    BY <1>1, ConcatProperties
  <1>3. (stat.given \o stat.taken) \o stat.buffer \in Seq(Nat)
    BY <1>1, <1>2, ConcatProperties
  <1> QED BY <1>1, <1>3 DEF All

\* A step that leaves the items where they are.
LEMMA HeldStats ==
    ASSUME TestTypes, Stating, [Next]_vars, opt' = opt, stat' \in StatSet,
           stat'.out = stat.out, stat'.pos = stat.pos, stat'.lined = stat.lined,
           stat'.buffer = stat.buffer, stat'.taken = stat.taken, stat'.given = stat.given,
           stat'.pending = stat.pending, stat'.list = stat.list,
           stat'.pc # stat.pc =>
              /\ stat.pc # "iterate" /\ stat'.pc # "iterate"
              /\ stat'.pc \in {"start", "swap"} => StatsKind = "expvar"
              /\ stat'.pc \in {"line", "end"} => StatsKind = "blocks"
              /\ stat'.pc = "loop" => StatsKind \in {"blocks", "lines"}
              /\ stat'.pc = "empty" => StatsKind = "queue"
              /\ stat'.pc = "end" => stat.closed,
           stat'.pc = "over" /\ StatsKind = "blocks" => stat.pc = "over" /\ stat'.gaveUp = stat.gaveUp,
           stat'.poller # stat.poller => StatsKind = "expvar" \/ stat'.poller = "dead",
           \/ stat'.closed = stat.closed /\ stat'.atClose = stat.atClose
           \/ tank'.stage \in Shut /\ stat'.atClose = stat.out /\ stat'.closed /\ ~stat.closed
    PROVE  Stating'
  <1>1. StatsKind' = StatsKind /\ All' = All
    BY DEF StatsKind, All
  <1>2. StatTypes'
    BY DEF StatTypes
  <1>3. (stat.taken = << >> /\ stat.list # "taken") \/ stat.pc = "iterate"
    BY DEF Stating, Lists
  <1>4. Lists'
    <2>1. stat'.pc \in {"start", "swap", "iterate"} => StatsKind = "expvar"
      BY DEF Stating, Lists
    <2>2. stat'.pc # "iterate" => stat'.taken = << >> /\ stat'.list # "taken"
      BY <1>3
    <2>3. StatsKind # "expvar" => stat'.poller \in {"none", "dead"} /\ stat'.pending = 0
      BY DEF Stating, Lists
    <2> QED BY <1>1, <2>1, <2>2, <2>3 DEF Stating, Lists
  <1>5. Seconds'
    BY <1>1 DEF Stating, Seconds
  <1>6. Kinds'
    BY <1>1 DEF Stating, Kinds
  <1>7. AllBlocks'
    <2>1. stat'.closed => tank'.stage \in Shut
      BY StaysShut DEF Stating, AllBlocks
    <2>2. stat'.atClose <= stat'.out
      BY StatIs DEF Stating, AllBlocks
    <2>3. StatsKind = "blocks" =>
              /\ stat'.pos <= stat'.out /\ 2 * Len(stat'.given) <= stat'.pos
              /\ \A h \in 2 * Len(stat'.given) + 2 .. stat'.pos : h \in stat'.lined
      BY DEF Stating, AllBlocks
    <2>4. stat.closed => stat'.closed /\ stat'.atClose = stat.atClose
      OBVIOUS
    <2>5. StatsKind = "blocks" => /\ stat'.pc = "end" => stat'.closed
                                  /\ stat'.pc = "over" /\ ~stat'.gaveUp => stat'.closed /\ stat'.atClose <= stat'.pos
      BY <2>4 DEF Stating, AllBlocks
    <2> QED BY <1>1, <2>1, <2>2, <2>3, <2>5 DEF AllBlocks
  <1> QED BY <1>2, <1>4, <1>5, <1>6, <1>7 DEF Stating

\* A step of another one.
LEMMA SameStats ==
    ASSUME TestTypes, Stating, [Next]_vars, UNCHANGED <<opt, stat>>
    PROVE  Stating'
  BY StatIs, HeldStats

\* The scanner gives the lines that are in the file.
LEMMA LineStats ==
    ASSUME TestTypes, Stating, [Next]_vars, ReadLines
    PROVE  Stating'
  <1>1. PICK given \in Seq(Nat) : given = Lines(stat.out)
    BY StatIs, LinesAre
  <1>2. \A i \in DOMAIN given : given[i] = i
    BY <1>1, StatIs, LinesAre
  <1>3. opt' = opt /\ StatsKind = "lines" /\ StatsKind' = "lines" /\ stat' = [stat EXCEPT !.pc = "read", !.given = given]
    BY <1>1 DEF ReadLines, StatsKind
  <1>4. /\ stat' \in StatSet /\ stat'.pc = "read" /\ stat'.given = given
        /\ stat'.out = stat.out /\ stat'.buffer = stat.buffer /\ stat'.taken = stat.taken
        /\ stat'.pending = stat.pending /\ stat'.list = stat.list /\ stat'.poller = stat.poller
        /\ stat'.closed = stat.closed /\ stat'.atClose = stat.atClose
    BY <1>3, StatIs DEF StatSet, StatPcs
  <1>5. stat.pc = "loop"
    BY DEF ReadLines
  <1>6. Lists'
    BY <1>3, <1>4, <1>5 DEF Stating, Lists
  <1>7. Kinds' /\ Seconds'
    BY <1>2, <1>3, <1>4 DEF Kinds, Seconds
  <1>8. AllBlocks'
    <2>1. stat'.closed => tank'.stage \in Shut
      BY <1>4, StaysShut DEF Stating, AllBlocks
    <2> QED BY <1>3, <1>4, <2>1 DEF Stating, AllBlocks
  <1> QED BY <1>4, <1>6, <1>7, <1>8 DEF Stating, StatTypes

\* The reader of blocks reads to the end of the file, takes a line, or neither.
LEMMA BlockStats ==
    ASSUME TestTypes, Stating, [Next]_vars, opt' = opt, StatsKind = "blocks", stat.pc \in {"loop", "line", "end"},
           stat' \in StatSet, stat'.pc \in {"read", "over", "end"},
           stat'.out = stat.out, stat'.buffer = stat.buffer, stat'.taken = stat.taken,
           stat'.pending = stat.pending, stat'.list = stat.list, stat'.poller = stat.poller,
           stat'.closed = stat.closed, stat'.atClose = stat.atClose,
           stat'.pc = "end" => stat.closed,
           stat'.pc = "over" /\ ~stat'.gaveUp => stat.closed /\ stat'.pos = stat.out,
           \/ stat'.pos = stat.out /\ stat'.given = Blocks(stat.out) /\ stat'.lined = stat.lined
           \/ /\ stat'.given = stat.given /\ stat'.lined = stat.lined \union {stat'.pos}
              /\ stat'.pos = stat.pos + 1 /\ stat'.pos <= stat.out
           \/ stat'.given = stat.given /\ stat'.lined = stat.lined /\ stat'.pos = stat.pos
    PROVE  Stating'
  <1>1. StatsKind' = "blocks"
    BY DEF StatsKind
  <1>2. Lists'
    BY <1>1 DEF Stating, Lists
  <1>3. Kinds'
    BY <1>1 DEF Kinds
  <1>4. stat.out \in Nat /\ stat.pos \in Nat /\ stat.given \in Seq(Nat) /\ Len(stat.given) \in Nat
    BY StatIs, LenProperties
  <1>5. Seconds'
    <2>1. \A i \in DOMAIN stat'.given : stat'.given[i] = i
      BY <1>4, BlocksAre DEF Stating, Seconds
    <2> QED BY <1>1, <2>1 DEF Seconds
  <1>6. /\ stat'.pos <= stat.out /\ 2 * Len(stat'.given) <= stat'.pos
        /\ \A h \in 2 * Len(stat'.given) + 2 .. stat'.pos : h \in stat'.lined
    <2>1. /\ stat.pos <= stat.out /\ 2 * Len(stat.given) <= stat.pos
          /\ \A h \in 2 * Len(stat.given) + 2 .. stat.pos : h \in stat.lined
      BY DEF Stating, AllBlocks
    <2>2. CASE stat'.pos = stat.out /\ stat'.given = Blocks(stat.out)
      <3>1. PICK n \in Nat, k \in Nat : n = stat.out /\ k = Len(Blocks(stat.out)) /\ 2 * k <= n /\ n < 2 * k + 2
        BY <1>4, BlocksAre
      <3>2. 2 * k + 2 .. n = {} /\ n <= n
        BY <3>1
      <3> QED BY <2>2, <3>1, <3>2
    <2>3. CASE /\ stat'.given = stat.given /\ stat'.lined = stat.lined \union {stat'.pos}
               /\ stat'.pos = stat.pos + 1 /\ stat'.pos <= stat.out
      <3>1. PICK n \in Nat, k \in Nat : n = stat.pos /\ k = Len(stat.given)
        BY <1>4
      <3>2. ASSUME NEW h \in 2 * k + 2 .. n + 1 PROVE h \in stat'.lined
        <4>1. h = n + 1 \/ h \in 2 * k + 2 .. n
          BY <3>1
        <4> QED BY <2>1, <2>3, <3>1, <4>1
      <3>3. 2 * k <= n => 2 * k <= n + 1
        BY <3>1
      <3> QED BY <2>1, <2>3, <3>1, <3>2, <3>3
    <2>4. CASE stat'.given = stat.given /\ stat'.lined = stat.lined /\ stat'.pos = stat.pos
      BY <2>1, <2>4
    <2> QED BY <2>2, <2>3, <2>4
  <1>7. AllBlocks'
    <2>1. stat'.closed => tank'.stage \in Shut
      BY StaysShut DEF Stating, AllBlocks
    <2>2. stat'.atClose <= stat'.out
      BY DEF Stating, AllBlocks
    <2> QED BY <1>1, <1>6, <2>1, <2>2 DEF AllBlocks
  <1> QED BY <1>2, <1>3, <1>5, <1>7 DEF Stating, StatTypes

\* The generator writes some more.
LEMMA WriteStating ==
    ASSUME TestTypes, Stating, [Next]_vars, WriteStats
    PROVE  Stating'
  <1>1. opt' = opt /\ StatsKind \in {"blocks", "lines"} /\ stat' = [stat EXCEPT !.out = stat.out + 1]
    BY DEF WriteStats
  <1>2. /\ stat' \in StatSet /\ stat'.out = stat.out + 1
        /\ stat'.pc = stat.pc /\ stat'.given = stat.given /\ stat'.buffer = stat.buffer /\ stat'.taken = stat.taken
        /\ stat'.pending = stat.pending /\ stat'.list = stat.list /\ stat'.poller = stat.poller
        /\ stat'.closed = stat.closed /\ stat'.atClose = stat.atClose
        /\ stat'.pos = stat.pos /\ stat'.lined = stat.lined /\ stat'.gaveUp = stat.gaveUp
    <2>1. PICK n \in Nat : n = stat.out + 1
      BY StatIs
    <2>2. stat' = [stat EXCEPT !.out = n]
      BY <1>1, <2>1
    <2> QED BY <2>1, <2>2, StatIs DEF StatSet
  <1>3. StatsKind' = StatsKind
    BY <1>1 DEF StatsKind
  <1>4. Lists'
    BY <1>1, <1>2, <1>3 DEF Stating, Lists
  <1>5. Seconds'
    BY <1>1, <1>2, <1>3 DEF Stating, Seconds
  <1>6. AllBlocks'
    <2>1. stat'.closed => tank'.stage \in Shut
      BY <1>2, StaysShut DEF Stating, AllBlocks
    <2>2. stat'.atClose <= stat'.out
      BY <1>2, StatIs DEF Stating, AllBlocks
    <2>3. stat.pos <= stat.out => stat'.pos <= stat'.out
      BY <1>2, StatIs
    <2> QED BY <1>2, <1>3, <2>1, <2>2, <2>3 DEF Stating, AllBlocks
  <1>7. Kinds'
    BY <1>2, <1>3 DEF Stating, Kinds
  <1> QED BY <1>2, <1>4, <1>5, <1>6, <1>7 DEF Stating, StatTypes

\* The queue of chunks is of no concern to the seconds.
LEMMA QueueStats ==
    ASSUME TestTypes, Stating, [Next]_vars, opt' = opt, StatsKind = "queue",
           NEW waiting \in Seq(Nat), NEW given \in Seq(Nat),
           stat' = [stat EXCEPT !.buffer = waiting, !.given = given]
    PROVE  Stating'
  <1>1. /\ stat' \in StatSet /\ stat'.out = stat.out /\ stat'.pc = stat.pc /\ stat'.taken = stat.taken
        /\ stat'.pending = stat.pending /\ stat'.list = stat.list /\ stat'.poller = stat.poller
        /\ stat'.closed = stat.closed /\ stat'.atClose = stat.atClose
    BY StatIs DEF StatSet
  <1>2. StatsKind' = "queue"
    BY DEF StatsKind
  <1>3. Lists'
    BY <1>1, <1>2 DEF Stating, Lists
  <1>4. Seconds' /\ Kinds'
    BY <1>1, <1>2 DEF Seconds, Kinds, Stating
  <1>5. AllBlocks'
    <2>1. stat'.closed => tank'.stage \in Shut
      BY <1>1, StaysShut DEF Stating, AllBlocks
    <2> QED BY <1>1, <1>2, <2>1 DEF Stating, AllBlocks
  <1> QED BY <1>1, <1>3, <1>4, <1>5 DEF Stating, StatTypes

\* One more in a list that rises.
LEMMA RisingOn ==
    ASSUME NEW s \in Seq(Nat), NEW x \in Nat, Rising(s), \A i \in DOMAIN s : s[i] < x
    PROVE  /\ Rising(Append(s, x)) /\ \A i \in DOMAIN Append(s, x) : Append(s, x)[i] <= x
  <1>1. /\ Append(s, x) \in Seq(Nat) /\ Len(Append(s, x)) = Len(s) + 1 /\ Len(s) \in Nat
        /\ \A i \in 1 .. Len(s) : Append(s, x)[i] = s[i]
        /\ Append(s, x)[Len(s) + 1] = x
    BY AppendProperties, LenProperties
  <1>2. DOMAIN s = 1 .. Len(s) /\ DOMAIN Append(s, x) = 1 .. Len(s) + 1
    BY <1>1, LenProperties
  <1>3. \A i \in 1 .. Len(s) : s[i] \in Nat
    BY <1>2
  <1>4. ASSUME NEW i \in 1 .. Len(s) + 1, NEW j \in 1 .. Len(s) + 1, i < j
        PROVE  Append(s, x)[i] < Append(s, x)[j]
    <2>1. i \in 1 .. Len(s)
      BY <1>1, <1>4
    <2>2. CASE j \in 1 .. Len(s)
      BY <1>1, <1>2, <1>4, <2>1, <2>2 DEF Rising
    <2>3. CASE j = Len(s) + 1
      BY <1>1, <1>2, <2>1, <2>3
    <2> QED BY <1>1, <2>2, <2>3
  <1>5. ASSUME NEW i \in 1 .. Len(s) + 1 PROVE Append(s, x)[i] <= x
    <2>1. CASE i \in 1 .. Len(s)
      BY <1>1, <1>2, <1>3, <2>1
    <2>2. CASE i = Len(s) + 1
      BY <1>1, <2>2
    <2> QED BY <1>1, <2>1, <2>2
  <1> QED BY <1>2, <1>4, <1>5 DEF Rising

\* A list that rises does so from its beginning.
LEMMA RisingFirst ==
    ASSUME NEW s \in Seq(Nat), NEW t \in Seq(Nat), Rising(s \o t)
    PROVE  Rising(s)
  <1>1. /\ s \o t \in Seq(Nat) /\ Len(s \o t) = Len(s) + Len(t) /\ Len(s) \in Nat /\ Len(t) \in Nat
        /\ DOMAIN s = 1 .. Len(s)
        /\ \A i \in 1 .. Len(s) + Len(t) : (s \o t)[i] = IF i <= Len(s) THEN s[i] ELSE t[i - Len(s)]
    BY ConcatProperties, LenProperties
  <1>2. DOMAIN (s \o t) = 1 .. Len(s) + Len(t)
    BY <1>1, LenProperties
  <1>3. \A i \in 1 .. Len(s) : i \in 1 .. Len(s) + Len(t) /\ (s \o t)[i] = s[i]
    BY <1>1
  <1> QED BY <1>1, <1>2, <1>3 DEF Rising

\* A step of the expvar reader or of its poller: what the lists hold still rises.
LEMMA ExpvarStats ==
    ASSUME TestTypes, Stating, [Next]_vars, opt' = opt, StatsKind = "expvar", stat' \in StatSet,
           stat'.closed = stat.closed, stat'.atClose = stat.atClose, stat'.out >= stat.out,
           stat'.pc \in {stat.pc, "read", "iterate"},
           stat'.pc # "iterate" => stat'.taken = << >> /\ stat'.list # "taken",
           stat'.pending = 0 => stat'.list = "buffer",
           stat'.list # "buffer" => stat'.buffer = << >>,
           stat'.pending # 0 => stat'.pending = stat'.out,
           Rising(All'),
           \A i \in DOMAIN All' : All'[i] <= stat'.out /\ (stat'.pending # 0 => All'[i] < stat'.out)
    PROVE  Stating'
  <1>1. StatsKind' = StatsKind
    BY DEF StatsKind
  <1>2. Lists'
    BY <1>1 DEF Lists
  <1>3. Seconds' /\ Kinds'
    BY <1>1 DEF Seconds, Kinds, Stating
  <1>4. AllBlocks'
    <2>1. stat'.closed => tank'.stage \in Shut
      BY StaysShut DEF Stating, AllBlocks
    <2>2. stat'.out \in Nat
      BY DEF StatSet
    <2>3. stat'.atClose <= stat'.out
      BY StatIs, <2>2 DEF Stating, AllBlocks
    <2> QED BY <1>1, <2>1, <2>3 DEF AllBlocks
  <1> QED BY <1>2, <1>3, <1>4 DEF Stating, StatTypes

\* The same items in lists of which one was taken or given.
LEMMA MovedStats ==
    ASSUME TestTypes, Stating, [Next]_vars, Swap \/ Iterated
    PROVE  Stating'
  <1>1. opt' = opt
    BY DEF Swap, Iterated
  <1>2. StatsKind = "expvar"
    BY DEF Stating, Lists, Swap, Iterated
  <1>3. /\ All \in Seq(Nat) /\ Rising(All)
        /\ \A i \in DOMAIN All : All[i] <= stat.out /\ (stat.pending # 0 => All[i] < stat.out)
    BY <1>2, StatIs DEF Stating, Seconds
  <1>4. CASE Swap
    <2>1. PICK list \in {"buffer", "taken", "none"} :
              /\ list = Follows(stat.list)
              /\ stat' = [stat EXCEPT !.pc = "iterate", !.taken = stat.buffer, !.buffer = << >>, !.list = list]
      BY <1>4 DEF Swap, Follows
    <2>2. << >> \in Seq(Nat)
      BY EmptySeq
    <2>3. /\ stat' \in StatSet /\ stat'.pc = "iterate" /\ stat'.taken = stat.buffer /\ stat'.buffer = << >>
          /\ stat'.list = list /\ stat'.given = stat.given /\ stat'.out = stat.out /\ stat'.pending = stat.pending
          /\ stat'.closed = stat.closed /\ stat'.atClose = stat.atClose
      BY <2>1, <2>2, StatIs DEF StatSet, StatPcs
    <2>4. All' = All
      <3>1. stat.taken = << >>
        BY <1>4 DEF Swap, Stating, Lists
      <3>2. \A s, t \in Seq(Nat) : (s \o t) \o << >> = (s \o << >>) \o t
        OBVIOUS
      <3> QED BY <2>3, <3>1, <3>2, StatIs DEF All
    <2>5. stat.pending = 0 => list = "buffer"
      BY <2>1 DEF Follows
    <2>6. stat.pending # 0 => stat.pending = stat.out
      BY DEF Stating, Lists
    <2>7. stat.out \in Nat /\ stat'.out >= stat.out
      BY <2>3, StatIs
    <2> QED BY <1>1, <1>2, <1>3, <2>3, <2>4, <2>5, <2>6, <2>7, ExpvarStats
  <1>5. CASE Iterated
    <2>1. PICK list \in {"buffer", "none"} :
              /\ list = (IF stat.list = "taken" THEN "none" ELSE stat.list)
              /\ stat' = [stat EXCEPT !.pc = "read", !.given = stat.given \o stat.taken, !.taken = << >>, !.list = list]
      <3>1. stat.list \in {"buffer", "taken", "none"}
        BY StatIs DEF StatSet
      <3> QED BY <1>5, <3>1 DEF Iterated
    <2>2. << >> \in Seq(Nat) /\ stat.given \o stat.taken \in Seq(Nat)
      BY EmptySeq, StatIs, ConcatProperties
    <2>3. /\ stat' \in StatSet /\ stat'.pc = "read" /\ stat'.taken = << >> /\ stat'.buffer = stat.buffer
          /\ stat'.list = list /\ stat'.given = stat.given \o stat.taken
          /\ stat'.out = stat.out /\ stat'.pending = stat.pending
          /\ stat'.closed = stat.closed /\ stat'.atClose = stat.atClose
      BY <2>1, <2>2, StatIs DEF StatSet, StatPcs
    <2>4. All' = All
      <3>1. (stat.given \o stat.taken) \o << >> = stat.given \o stat.taken
        BY <2>2, ConcatEmptySeq
      <3> QED BY <2>3, <3>1 DEF All
    <2>5. /\ stat.pending = 0 => list = "buffer"
          /\ stat.pending # 0 => stat.pending = stat.out
          /\ list # "buffer" => stat.buffer = << >>
      BY <2>1 DEF Stating, Lists
    <2>6. stat.out \in Nat /\ stat'.out >= stat.out
      BY <2>3, StatIs
    <2> QED BY <1>1, <1>2, <1>3, <2>3, <2>4, <2>5, <2>6, ExpvarStats
  <1> QED BY <1>4, <1>5

\* The poller fetches the next second, which is greater than all.
LEMMA FetchStats ==
    ASSUME TestTypes, Stating, [Next]_vars, opt' = opt, StatsKind = "expvar", stat.pending = 0,
           stat' = [stat EXCEPT !.out = stat.out + 1, !.pending = stat.out + 1]
    PROVE  Stating'
  <1>1. PICK n \in Nat : n = stat.out + 1
    BY StatIs
  <1>2. /\ stat' \in StatSet /\ stat'.out = n /\ stat'.pending = n /\ stat'.pc = stat.pc
        /\ stat'.buffer = stat.buffer /\ stat'.taken = stat.taken /\ stat'.given = stat.given
        /\ stat'.list = stat.list /\ stat'.closed = stat.closed /\ stat'.atClose = stat.atClose
    <2>1. stat' = [stat EXCEPT !.out = n, !.pending = n]
      BY <1>1
    <2> QED BY <2>1, StatIs DEF StatSet
  <1>3. All' = All /\ All \in Seq(Nat) /\ Rising(All) /\ \A i \in DOMAIN All : All[i] <= stat.out
    BY <1>2, StatIs DEF All, Stating, Seconds
  <1>4. \A i \in DOMAIN All : All[i] <= n /\ All[i] < n
    <2>1. \A i \in DOMAIN All : All[i] \in Nat
      BY <1>3
    <2> QED BY <1>1, <1>3, <2>1, StatIs
  <1>5. /\ stat.pc # "iterate" => stat.taken = << >> /\ stat.list # "taken"
        /\ stat.list = "buffer" /\ n >= stat.out
    BY <1>1, StatIs DEF Stating, Lists
  <1> QED BY <1>2, <1>3, <1>4, <1>5, ExpvarStats

\* It appends it to the list at the end, or to none.
LEMMA AppendStats ==
    ASSUME TestTypes, Stating, [Next]_vars, AppendSecond
    PROVE  Stating'
  <1>1. opt' = opt /\ stat.pending # 0 /\ stat.pending = stat.out /\ StatsKind = "expvar"
    BY DEF AppendSecond, Stating, Lists
  <1>2. /\ All \in Seq(Nat) /\ Rising(All) /\ stat.out \in Nat
        /\ \A i \in DOMAIN All : All[i] < stat.out
    BY <1>1, StatIs DEF Stating, Seconds
  <1>3. Append(stat.buffer, stat.pending) \in Seq(Nat) /\ Append(stat.taken, stat.pending) \in Seq(Nat)
    BY StatIs, AppendProperties
  <1>4. PICK waiting, taken \in Seq(Nat) :
            /\ waiting = IF stat.list = "buffer" THEN Append(stat.buffer, stat.pending) ELSE stat.buffer
            /\ taken = IF stat.list = "taken" THEN Append(stat.taken, stat.pending) ELSE stat.taken
            /\ stat' = [stat EXCEPT !.pending = 0, !.list = "buffer", !.buffer = waiting, !.taken = taken]
    BY <1>3, StatIs DEF AppendSecond
  <1>5. /\ stat' \in StatSet /\ stat'.pending = 0 /\ stat'.list = "buffer" /\ stat'.buffer = waiting
        /\ stat'.taken = taken /\ stat'.given = stat.given /\ stat'.out = stat.out /\ stat'.pc = stat.pc
        /\ stat'.closed = stat.closed /\ stat'.atClose = stat.atClose
    BY <1>4, StatIs DEF StatSet
  <1>6. All' = All \/ All' = Append(All, stat.out)
    <2>1. CASE stat.list = "buffer"
      <3>1. All' = (stat.given \o stat.taken) \o Append(stat.buffer, stat.out)
        BY <1>1, <1>4, <1>5, <2>1 DEF All
      <3>2. \A s, t \in Seq(Nat) : \A x \in Nat : s \o Append(t, x) = Append(s \o t, x)
        OBVIOUS
      <3>3. PICK s \in Seq(Nat) : s = stat.given \o stat.taken
        BY StatIs, ConcatProperties
      <3>4. s \o Append(stat.buffer, stat.out) = Append(s \o stat.buffer, stat.out)
        BY <1>2, <3>2, StatIs
      <3> QED BY <3>1, <3>3, <3>4 DEF All
    <2>2. CASE stat.list = "taken"
      <3>1. stat.buffer = << >>
        BY <2>2 DEF Stating, Lists
      <3>2. All' = (stat.given \o Append(stat.taken, stat.out)) \o << >>
        BY <1>1, <1>4, <1>5, <2>2, <3>1 DEF All
      <3>3. \A s, t \in Seq(Nat) : \A x \in Nat : (s \o Append(t, x)) \o << >> = Append((s \o t) \o << >>, x)
        <4>1. \A s, t \in Seq(Nat) : \A x \in Nat : s \o Append(t, x) = Append(s \o t, x)
          OBVIOUS
        <4>2. \A s \in Seq(Nat) : s \o << >> = s
          OBVIOUS
        <4>3. \A s, t \in Seq(Nat) : \A x \in Nat : s \o t \in Seq(Nat) /\ s \o Append(t, x) \in Seq(Nat)
          OBVIOUS
        <4> QED BY <4>1, <4>2, <4>3
      <3>4. (stat.given \o Append(stat.taken, stat.out)) \o << >> = Append((stat.given \o stat.taken) \o << >>, stat.out)
        BY <1>2, <3>3, StatIs
      <3> QED BY <3>1, <3>2, <3>4 DEF All
    <2>3. CASE stat.list = "none"
      BY <1>4, <1>5, <2>3 DEF All
    <2> QED BY <2>1, <2>2, <2>3, StatIs DEF StatSet
  <1>7. Rising(All') /\ \A i \in DOMAIN All' : All'[i] <= stat.out
    <2>1. CASE All' = All
      <3>1. \A i \in DOMAIN All : All[i] \in Nat
        BY <1>2
      <3> QED BY <1>2, <2>1, <3>1
    <2>2. CASE All' = Append(All, stat.out)
      BY <1>2, <2>2, RisingOn
    <2> QED BY <1>6, <2>1, <2>2
  <1>8. stat'.pc # "iterate" => stat'.taken = << >> /\ stat'.list # "taken"
    BY <1>4, <1>5 DEF Stating, Lists
  <1> QED BY <1>1, <1>2, <1>5, <1>7, <1>8, ExpvarStats

\* A chunk of results goes into the queue, if there is one.
LEMMA CountedStats ==
    ASSUME TestTypes, Stating, [Next]_vars, opt' = opt, NEW text \in Seq(Int), Counted(text)
    PROVE  Stating'
  <1>1. CASE stat' = stat
    BY <1>1, SameStats
  <1>2. CASE StatsKind = "queue" /\ stat' = [stat EXCEPT !.buffer = Append(stat.buffer, Len(text))]
    <2>1. PICK waiting \in Seq(Nat) : waiting = Append(stat.buffer, Len(text))
      BY StatIs, LenProperties, AppendProperties
    <2>2. PICK given \in Seq(Nat) : given = stat.given
      BY StatIs
    <2>3. stat' = [stat EXCEPT !.buffer = waiting, !.given = given]
      BY <1>2, <2>1, <2>2, StatIs DEF StatSet
    <2> QED BY <1>2, <2>3, QueueStats
  <1> QED BY <1>1, <1>2 DEF Counted

\* The reader of Phantom's blocks.
LEMMA BlockThread ==
    ASSUME TestTypes, Stating, [Next]_vars, ReadBlocks \/ BlocksLine \/ BlocksEnd
    PROVE  Stating'
  <1>1. StatTypes /\ opt' = opt
    BY DEF TestTypes, ReadBlocks, BlocksLine, BlocksEnd
  <1>2. StatsKind = "blocks" /\ stat.pc \in {"loop", "line", "end"} /\ (stat.pc = "end" => stat.closed) /\ stat.pos <= stat.out
    <2>1. StatsKind = "blocks" /\ stat.pc \in {"loop", "line", "end"}
      BY DEF ReadBlocks, BlocksLine, BlocksEnd, Stating, Kinds
    <2> QED BY <2>1 DEF Stating, AllBlocks
  <1>3. CASE BlocksEnd
    <2>1. PICK p \in {"over", "end"} : stat' = [Filled EXCEPT !.pc = p]
      BY <1>3 DEF BlocksEnd
    <2>2. Filled \in StatSet
      BY <1>1, FilledIs
    <2>3. /\ stat' \in StatSet /\ stat'.pc = p /\ stat'.pos = Filled.pos /\ stat'.given = Filled.given
          /\ stat'.lined = Filled.lined /\ stat'.out = Filled.out /\ stat'.buffer = Filled.buffer
          /\ stat'.taken = Filled.taken /\ stat'.pending = Filled.pending /\ stat'.list = Filled.list
          /\ stat'.poller = Filled.poller /\ stat'.closed = Filled.closed /\ stat'.atClose = Filled.atClose
      BY <2>1, <2>2 DEF StatSet, StatPcs
    <2>4. stat.pc = "end" /\ stat.closed
      BY <1>2, <1>3 DEF BlocksEnd
    <2>5. stat'.pos = stat.out
      <3>1. ~(stat.pos < stat.out) => stat.pos = stat.out
        BY <1>2, StatIs
      <3> QED BY <1>1, <2>3, <3>1, FilledIs
    <2>6. \/ stat'.pos = stat.out /\ stat'.given = Blocks(stat.out) /\ stat'.lined = stat.lined
          \/ stat'.given = stat.given /\ stat'.lined = stat.lined /\ stat'.pos = stat.pos
      BY <1>1, <2>3, FilledIs
    <2>7. /\ stat'.out = stat.out /\ stat'.buffer = stat.buffer /\ stat'.taken = stat.taken
          /\ stat'.pending = stat.pending /\ stat'.list = stat.list /\ stat'.poller = stat.poller
          /\ stat'.closed = stat.closed /\ stat'.atClose = stat.atClose
      BY <1>1, <2>3, FilledIs
    <2> QED BY <1>1, <1>2, <2>3, <2>4, <2>5, <2>6, <2>7, BlockStats
  <1>4. CASE ReadBlocks
    <2>1. \E p \in {"read", "over"}, g \in BOOLEAN : stat' = [Filled EXCEPT !.pc = p, !.gaveUp = g] /\ (p = "over" => g)
      <3>1. CASE Filled.given = stat.given
        BY <1>1, <1>4, <3>1, FilledIs, NoStatsIs DEF ReadBlocks
      <3>2. CASE Filled.given # stat.given
        <4>1. stat' = [Filled EXCEPT !.pc = "read"] /\ Filled \in StatSet
          BY <1>1, <1>4, <3>2, FilledIs DEF ReadBlocks
        <4>2. stat' = [Filled EXCEPT !.pc = "read", !.gaveUp = Filled.gaveUp] /\ Filled.gaveUp \in BOOLEAN
          BY <4>1 DEF StatSet
        <4> QED BY <4>2
      <3> QED BY <3>1, <3>2
    <2>2. PICK p \in {"read", "over"}, g \in BOOLEAN : stat' = [Filled EXCEPT !.pc = p, !.gaveUp = g] /\ (p = "over" => g)
      BY <2>1
    <2>3. Filled \in StatSet
      BY <1>1, FilledIs
    <2>4. /\ stat' \in StatSet /\ stat'.pc = p /\ stat'.gaveUp = g /\ stat'.pos = Filled.pos /\ stat'.given = Filled.given
          /\ stat'.lined = Filled.lined /\ stat'.out = Filled.out /\ stat'.buffer = Filled.buffer
          /\ stat'.taken = Filled.taken /\ stat'.pending = Filled.pending /\ stat'.list = Filled.list
          /\ stat'.poller = Filled.poller /\ stat'.closed = Filled.closed /\ stat'.atClose = Filled.atClose
      BY <2>2, <2>3 DEF StatSet, StatPcs
    <2>5. \/ stat'.pos = stat.out /\ stat'.given = Blocks(stat.out) /\ stat'.lined = stat.lined
          \/ stat'.given = stat.given /\ stat'.lined = stat.lined /\ stat'.pos = stat.pos
      BY <1>1, <2>4, FilledIs
    <2>6. /\ stat'.out = stat.out /\ stat'.buffer = stat.buffer /\ stat'.taken = stat.taken
          /\ stat'.pending = stat.pending /\ stat'.list = stat.list /\ stat'.poller = stat.poller
          /\ stat'.closed = stat.closed /\ stat'.atClose = stat.atClose
      BY <1>1, <2>4, FilledIs
    <2> QED BY <1>1, <1>2, <2>2, <2>4, <2>5, <2>6, BlockStats
  <1>5. CASE BlocksLine
    <2>1. PICK q \in Nat, lined \in SUBSET Nat :
              /\ NoStats([stat EXCEPT !.pos = q, !.lined = lined])
              /\ \/ q = stat.pos /\ lined = stat.lined
                 \/ q = stat.pos + 1 /\ q <= stat.out /\ lined = stat.lined \union {q}
      BY <1>1, <1>2, <1>5, LineTaken
    <2>2. PICK t \in StatSet : t = [stat EXCEPT !.pos = q, !.lined = lined]
      BY StatIs DEF StatSet
    <2>3. PICK p \in {"read", "over"}, g \in BOOLEAN : stat' = [t EXCEPT !.pc = p, !.gaveUp = g] /\ (p = "over" => g)
      BY <2>1, <2>2, NoStatsIs
    <2>4. /\ t.pos = q /\ t.lined = lined /\ t.given = stat.given /\ t.out = stat.out /\ t.buffer = stat.buffer
          /\ t.taken = stat.taken /\ t.pending = stat.pending /\ t.list = stat.list
          /\ t.poller = stat.poller /\ t.closed = stat.closed /\ t.atClose = stat.atClose
      BY <2>2, StatIs DEF StatSet
    <2>5. /\ stat' \in StatSet /\ stat'.pc = p /\ stat'.gaveUp = g /\ stat'.pos = t.pos /\ stat'.given = t.given
          /\ stat'.lined = t.lined /\ stat'.out = t.out /\ stat'.buffer = t.buffer
          /\ stat'.taken = t.taken /\ stat'.pending = t.pending /\ stat'.list = t.list
          /\ stat'.poller = t.poller /\ stat'.closed = t.closed /\ stat'.atClose = t.atClose
      BY <2>3 DEF StatSet, StatPcs
    <2> QED BY <1>1, <1>2, <2>1, <2>3, <2>4, <2>5, BlockStats
  <1> QED BY <1>3, <1>4, <1>5

\* The reader moves on, and takes nothing.
LEMMA PlaceStats ==
    ASSUME TestTypes, Stating, [Next]_vars, opt' = opt, NEW p \in StatPcs, NEW g \in BOOLEAN, NEW seen \in Nat,
           stat' = [stat EXCEPT !.pc = p, !.gaveUp = g, !.seen = seen],
           p # stat.pc =>
              /\ stat.pc # "iterate" /\ p # "iterate"
              /\ p \in {"start", "swap"} => StatsKind = "expvar"
              /\ p \in {"line", "end"} => StatsKind = "blocks"
              /\ p = "loop" => StatsKind \in {"blocks", "lines"}
              /\ p = "empty" => StatsKind = "queue"
              /\ p = "end" => stat.closed,
           p = "over" /\ StatsKind = "blocks" => stat.pc = "over" /\ g = stat.gaveUp
    PROVE  Stating'
  <1>1. /\ stat' \in StatSet /\ stat'.pc = p /\ stat'.gaveUp = g /\ stat'.poller = stat.poller
        /\ stat'.buffer = stat.buffer /\ stat'.taken = stat.taken /\ stat'.given = stat.given
        /\ stat'.out = stat.out /\ stat'.pos = stat.pos /\ stat'.lined = stat.lined
        /\ stat'.pending = stat.pending /\ stat'.list = stat.list
        /\ stat'.closed = stat.closed /\ stat'.atClose = stat.atClose
    BY StatIs DEF StatSet
  <1> QED BY <1>1, HeldStats

\* The same with its poller.
LEMMA WaitStats ==
    ASSUME TestTypes, Stating, [Next]_vars, opt' = opt, NEW p \in StatPcs, NEW g \in BOOLEAN, NEW seen \in Nat,
           NEW poller \in {"none", "runs", "told", "dead", "late"},
           stat' = [stat EXCEPT !.pc = p, !.gaveUp = g, !.seen = seen, !.poller = poller],
           p # stat.pc =>
              /\ stat.pc # "iterate" /\ p # "iterate"
              /\ p \in {"start", "swap"} => StatsKind = "expvar"
              /\ p \in {"line", "end"} => StatsKind = "blocks"
              /\ p = "loop" => StatsKind \in {"blocks", "lines"}
              /\ p = "empty" => StatsKind = "queue"
              /\ p = "end" => stat.closed,
           p = "over" /\ StatsKind = "blocks" => stat.pc = "over" /\ g = stat.gaveUp,
           poller # stat.poller => StatsKind = "expvar" \/ poller = "dead"
    PROVE  Stating'
  <1>1. /\ stat' \in StatSet /\ stat'.pc = p /\ stat'.gaveUp = g /\ stat'.poller = poller
        /\ stat'.buffer = stat.buffer /\ stat'.taken = stat.taken /\ stat'.given = stat.given
        /\ stat'.out = stat.out /\ stat'.pos = stat.pos /\ stat'.lined = stat.lined
        /\ stat'.pending = stat.pending /\ stat'.list = stat.list
        /\ stat'.closed = stat.closed /\ stat'.atClose = stat.atClose
    BY StatIs DEF StatSet
  <1> QED BY <1>1, HeldStats

LEMMA DrainStats ==
    ASSUME TestTypes, Stating, [Next]_vars, StatThread
    PROVE  Stating'
  <1>1. opt' = opt
    BY DrainIs DEF TestTypes
  <1>2. /\ stat.gaveUp \in BOOLEAN /\ stat.seen \in Nat /\ stat.pc \in StatPcs
        /\ \A p \in StatPcs : [stat EXCEPT !.pc = p]
                = [stat EXCEPT !.pc = p, !.gaveUp = stat.gaveUp, !.seen = stat.seen]
        /\ stat = [stat EXCEPT !.pc = stat.pc]
    BY StatIs DEF StatSet, StatPcs
  <1>3. CASE TakeChunk
    <2>1. stat.buffer # << >> /\ StatsKind = "queue" /\ stat' = [stat EXCEPT !.given = Append(stat.given, stat.buffer[1]), !.buffer = Tail(stat.buffer)]
      BY <1>3 DEF TakeChunk
    <2>2. PICK waiting \in Seq(Nat) : waiting = Tail(stat.buffer)
      BY <2>1, StatIs, HeadTailProperties
    <2>3. stat.buffer[1] \in Nat
      BY <2>1, StatIs, EmptySeq, ElementOfSeq
    <2>4. PICK given \in Seq(Nat) : given = Append(stat.given, stat.buffer[1])
      BY <2>3, StatIs, AppendProperties
    <2>5. stat' = [stat EXCEPT !.buffer = waiting, !.given = given]
      BY <2>1, <2>2, <2>4, StatIs DEF StatSet
    <2> QED BY <1>1, <2>1, <2>5, QueueStats
  <1>4. CASE LookClosed \/ ReadNoBlocks
    <2>1. PICK p \in {"loop", "end", "over", "line"} :
              /\ stat' = [stat EXCEPT !.pc = p] /\ stat.pc \in {"read", "loop"}
              /\ p = "loop" => StatsKind \in {"blocks", "lines"}
              /\ p \in {"end", "line"} => StatsKind = "blocks"
              /\ p = "end" => stat.closed
              /\ p = "over" => StatsKind = "lines"
      <3>1. CASE LookClosed
        BY <3>1 DEF LookClosed
      <3>2. CASE ReadNoBlocks
        BY <3>2 DEF ReadNoBlocks
      <3> QED BY <1>4, <3>1, <3>2
    <2>2. p \in StatPcs /\ p \notin {"iterate", "start", "swap", "empty"} /\ stat.pc # "iterate"
      BY <2>1 DEF StatPcs
    <2>3. ~(p = "over" /\ StatsKind = "blocks")
      BY <2>1
    <2>4. stat' = [stat EXCEPT !.pc = p, !.gaveUp = stat.gaveUp, !.seen = stat.seen]
      BY <1>2, <2>1, <2>2
    <2>5. p # stat.pc =>
             /\ stat.pc # "iterate" /\ p # "iterate"
             /\ p \in {"start", "swap"} => StatsKind = "expvar"
             /\ p \in {"line", "end"} => StatsKind = "blocks"
             /\ p = "loop" => StatsKind \in {"blocks", "lines"}
             /\ p = "empty" => StatsKind = "queue"
             /\ p = "end" => stat.closed
      BY <2>1, <2>2
    <2>6. stat.gaveUp \in BOOLEAN /\ stat.seen \in Nat
      BY <1>2
    <2> QED BY <1>1, <2>2, <2>3, <2>4, <2>5, <2>6, PlaceStats
  <1>5. CASE ShootExecQueueEmpty
    <2>1. /\ StatsKind = "queue" /\ stat.pc = "read" /\ stat' = [stat EXCEPT !.pc = "empty", !.seen = Len(reader.given)]
      BY <1>5 DEF ShootExecQueueEmpty
    <2>2. PICK seen \in Nat : seen = Len(reader.given)
      BY LenProperties, ReaderIs
    <2>3. stat' = [stat EXCEPT !.pc = "empty", !.gaveUp = stat.gaveUp, !.seen = seen]
      BY <2>1, <2>2, StatIs DEF StatSet
    <2>4. PICK p \in StatPcs : p = "empty"
      BY DEF StatPcs
    <2>5. stat' = [stat EXCEPT !.pc = p, !.gaveUp = stat.gaveUp, !.seen = seen] /\ stat.gaveUp \in BOOLEAN
      BY <1>2, <2>3, <2>4
    <2>6. StatsKind = "queue" /\ stat.pc = "read"
      BY <2>1
    <2> QED BY <1>1, <2>4, <2>5, <2>6, PlaceStats
  <1>6. CASE ShootExecQueueOver \/ JMeterQueueOver
    <2>1. StatsKind = "queue" /\ stat.pc \in {"read", "empty"}
      BY <1>6 DEF ShootExecQueueOver, JMeterQueueOver, Stating, Kinds
    <2>2. \E p \in {"read", "over"}, g \in BOOLEAN : stat' = [stat EXCEPT !.pc = p, !.gaveUp = g]
      <3>1. CASE ShootExecQueueOver /\ reader.closed
        <4>1. stat' = [stat EXCEPT !.pc = "over", !.gaveUp = stat.gaveUp]
          BY <3>1, StatIs DEF ShootExecQueueOver, StatSet
        <4> QED BY <1>2, <4>1
      <3>2. CASE ShootExecQueueOver /\ ~reader.closed
        BY <3>2, StatIs, NoStatsIs DEF ShootExecQueueOver
      <3>3. CASE JMeterQueueOver
        <4>1. stat' = [stat EXCEPT !.pc = "over", !.gaveUp = ~reader.closed] /\ (~reader.closed) \in BOOLEAN
          BY <3>3 DEF JMeterQueueOver
        <4> QED BY <4>1
      <3> QED BY <1>6, <3>1, <3>2, <3>3
    <2>3. PICK p \in {"read", "over"}, g \in BOOLEAN : stat' = [stat EXCEPT !.pc = p, !.gaveUp = g]
      BY <2>2
    <2>4. stat' = [stat EXCEPT !.pc = p, !.gaveUp = g, !.seen = stat.seen]
      BY <2>3, StatIs DEF StatSet
    <2>5. p \in StatPcs
      BY DEF StatPcs
    <2> QED BY <1>1, <1>2, <2>1, <2>4, <2>5, PlaceStats
  <1>7. CASE ExpvarNext
    <2>1. stat.pc = "read" /\ StatsKind = "expvar"
      BY <1>7 DEF ExpvarNext
    <2>2. \/ stat' = [stat EXCEPT !.pc = "over"] \/ stat' = [stat EXCEPT !.pc = "read"]
          \/ stat' = [stat EXCEPT !.pc = "start"] \/ stat' = [stat EXCEPT !.pc = "swap"]
      BY <1>2, <1>7, <2>1 DEF ExpvarNext
    <2>3. PICK p \in {"read", "over", "start", "swap"} : stat' = [stat EXCEPT !.pc = p]
      BY <2>2
    <2>4. p \in StatPcs
      BY DEF StatPcs
    <2>5. stat' = [stat EXCEPT !.pc = p, !.gaveUp = stat.gaveUp, !.seen = stat.seen]
      BY <1>2, <2>3, <2>4
    <2> QED BY <1>1, <1>2, <2>1, <2>4, <2>5, PlaceStats
  <1>8. CASE StartPoller
    <2>1. stat.pc = "start" /\ StatsKind = "expvar"
      BY <1>8 DEF StartPoller, Stating, Lists
    <2>2. PICK p \in {"late", "runs"} : stat' = [stat EXCEPT !.pc = "swap", !.poller = p]
      BY <1>8 DEF StartPoller
    <2>3. stat' = [stat EXCEPT !.pc = "swap", !.gaveUp = stat.gaveUp, !.seen = stat.seen, !.poller = p]
      BY <2>2, StatIs DEF StatSet
    <2>4. "swap" \in StatPcs
      BY DEF StatPcs
    <2> QED BY <1>1, <1>2, <2>1, <2>3, <2>4, WaitStats
  <1> QED BY <1>3, <1>4, <1>5, <1>6, <1>7, <1>8, LineStats, BlockThread, MovedStats DEF StatThread

LEMMA PollerStats ==
    ASSUME TestTypes, Stating, [Next]_vars, StatPoller
    PROVE  Stating'
  <1>1. opt' = opt
    BY DEF StatPoller, Fetch, AppendSecond, PollerStops
  <1>2. CASE stat' = [stat EXCEPT !.poller = "dead"]
    <2>1. stat' = [stat EXCEPT !.pc = stat.pc, !.gaveUp = stat.gaveUp, !.seen = stat.seen, !.poller = "dead"]
      BY <1>2, StatIs DEF StatSet
    <2>2. stat.pc \in StatPcs /\ stat.gaveUp \in BOOLEAN /\ stat.seen \in Nat
      BY StatIs DEF StatSet
    <2> QED BY <1>1, <2>1, <2>2, WaitStats
  <1>3. CASE Fetch
    <2>1. StatsKind = "expvar" /\ stat.pending = 0
      BY <1>3 DEF Fetch, Stating, Lists
    <2> QED BY <1>1, <1>2, <1>3, <2>1, FetchStats DEF Fetch
  <1> QED BY <1>2, <1>3, AppendStats DEF StatPoller, PollerStops

LEMMA StatingStep ==
    ASSUME TestTypes, Control, Reading, Stating, [Next]_vars
    PROVE  Stating'
  <1>1. CASE Statistics
    BY <1>1, DrainStats DEF Statistics
  <1>2. CASE Poller
    BY <1>2, PollerStats DEF Poller
  <1>3. CASE Results
    <2>1. opt' = opt
      BY <1>3 DEF Results, ReaderThread, ReadSome, ReadNothing, MultiEmpty, JtlEmpty
    <2>2. CASE ReadSome /\ Give(opt.gen = "jmeter" /\ reader.closed)
      <3>1. Counted(Whole(reader.buffer \o Ahead))
        BY <2>2 DEF Give
      <3>2. Ahead \in Seq(Int)
        BY <2>2, AheadIs DEF ReadSome, Reading, Reads
      <3>3. reader.buffer \o Ahead \in Seq(Int)
        BY <3>2, ReaderIs, ConcatProperties
      <3>4. Whole(reader.buffer \o Ahead) \in Seq(Int)
        BY <3>3, CutText
      <3> QED BY <2>1, <3>1, <3>4, CountedStats
    <2>3. CASE UNCHANGED stat
      BY <2>1, <2>3, SameStats
    <2> QED BY <1>3, <2>2, <2>3 DEF Results, ReaderThread, ReadSome, ReadNothing, MultiEmpty, JtlEmpty
  <1>4. CASE WriteStats
    BY <1>4, WriteStating
  <1>5. CASE Start
    <2>1. opt' = opt /\ stat' = [stat EXCEPT !.pc = "read"] /\ stat.pc = "none"
      BY <1>5 DEF Start, Control, Begun
    <2>2. stat' = [stat EXCEPT !.pc = "read", !.gaveUp = stat.gaveUp, !.seen = stat.seen]
      BY <2>1, StatIs DEF StatSet
    <2>3. "read" \in StatPcs /\ stat.gaveUp \in BOOLEAN /\ stat.seen \in Nat
      BY StatIs DEF StatSet, StatPcs
    <2> QED BY <2>1, <2>2, <2>3, PlaceStats
  <1>6. CASE CloseStats
    <2>1. opt' = opt /\ tank.stage = "close" /\ tank' = [tank EXCEPT !.stage = "join"]
      BY <1>6 DEF CloseStats, Stage
    <2>2. tank'.stage \in Shut /\ ~stat.closed
      BY <2>1, TankIs DEF Stating, AllBlocks
    <2>3. PICK p \in {stat.poller, "told"} :
              /\ p # stat.poller => stat.poller = "runs"
              /\ stat' = [stat EXCEPT !.closed = TRUE, !.atClose = stat.out, !.poller = p]
      BY <1>6 DEF CloseStats, Closed
    <2>4. stat.poller = "runs" => StatsKind = "expvar"
      BY DEF Stating, Lists
    <2>5. p \in {"none", "runs", "told", "dead", "late"}
      BY StatIs DEF StatSet
    <2>6. /\ stat' \in StatSet /\ stat'.pc = stat.pc /\ stat'.gaveUp = stat.gaveUp
          /\ stat'.pos = stat.pos /\ stat'.lined = stat.lined /\ stat'.buffer = stat.buffer /\ stat'.taken = stat.taken
          /\ stat'.given = stat.given /\ stat'.out = stat.out /\ stat'.pending = stat.pending /\ stat'.list = stat.list
          /\ stat'.poller = p /\ stat'.closed /\ stat'.atClose = stat.out
      BY <2>3, <2>5, StatIs DEF StatSet
    <2> QED BY <2>1, <2>2, <2>3, <2>4, <2>6, HeldStats
  <1>7. CASE \/ WriteResults \/ Exit \/ ChildEnds \/ Configure \/ Prepare \/ StoppedEarly
             \/ PollGenerator \/ PollShell \/ PollResources \/ Interrupted
             \/ EndGenerator \/ Kill \/ UdpOver \/ Join \/ EndOthers \/ PostProcess \/ UNCHANGED vars
    <2>1. UNCHANGED <<opt, stat>>
      BY <1>7 DEF WriteResults, Exit, ChildEnds, Configure, Prepare, StoppedEarly, PollGenerator, PollShell, PollResources,
         Interrupted, EndGenerator, Kill, UdpOver, Join, EndOthers, PostProcess, vars, files
    <2> QED BY <2>1, SameStats
  <1> QED BY <1>1, <1>2, <1>3, <1>4, <1>5, <1>6, <1>7 DEF Next, Process, Tank

LEMMA StatingIsOnce ==
    ASSUME Stating
    PROVE  SecondsOnce
  <1>1. ASSUME StatsKind # "queue", NEW i \in 1 .. Len(stat.given) - 1
        PROVE  stat.given[i] < stat.given[i + 1]
    <2>1. DOMAIN stat.given = 1 .. Len(stat.given) /\ Len(stat.given) \in Nat
      BY StatIs, LenProperties
    <2>2. i \in DOMAIN stat.given /\ i + 1 \in DOMAIN stat.given /\ i < i + 1
      BY <2>1
    <2>3. CASE StatsKind = "expvar"
      <3>1. Rising(stat.given \o stat.taken)
        <4>1. stat.given \o stat.taken \in Seq(Nat)
          BY StatIs, ConcatProperties
        <4> QED BY <2>3, <4>1, StatIs, RisingFirst DEF Stating, Seconds, All
      <3>2. Rising(stat.given)
        BY <3>1, StatIs, RisingFirst
      <3> QED BY <2>2, <3>2 DEF Rising
    <2>4. CASE StatsKind \in {"blocks", "lines"}
      BY <2>2, <2>4 DEF Stating, Seconds
    <2> QED BY <1>1, <2>3, <2>4 DEF StatsKind
  <1>2. ASSUME StatsKind = "blocks", stat.pc = "over", ~stat.gaveUp, NEW k \in 1 .. stat.atClose \div 2
        PROVE  k \in ToSet(stat.given) \/ 2 * k .. stat.atClose \subseteq stat.lined
    <2>1. PICK n \in Nat, m \in Nat, p \in Nat : n = Len(stat.given) /\ m = stat.atClose /\ p = stat.pos
      BY StatIs, LenProperties
    <2>2. m <= p /\ \A h \in 2 * n + 2 .. p : h \in stat.lined
      BY <1>2, <2>1 DEF Stating, AllBlocks
    <2>3. k \in Nat /\ 1 <= k
      BY <2>1
    <2>4. CASE k <= n
      <3>1. DOMAIN stat.given = 1 .. n
        BY <2>1, StatIs, LenProperties
      <3>2. \A i \in DOMAIN stat.given : stat.given[i] = i
        BY <1>2 DEF Stating, Seconds
      <3>3. k \in DOMAIN stat.given /\ stat.given[k] = k
        BY <2>1, <2>3, <2>4, <3>1, <3>2
      <3> QED BY <3>3 DEF ToSet
    <2>5. CASE k > n
      <3>1. \A h \in 2 * k .. m : h \in 2 * n + 2 .. p
        BY <2>1, <2>2, <2>3, <2>5
      <3> QED BY <2>1, <2>2, <3>1
    <2> QED BY <2>1, <2>3, <2>4, <2>5
  <1> QED BY <1>1, <1>2 DEF SecondsOnce

-----------------------------------------------------------------------------
(***************************************************************************)
(* The chunks of ShootExec's results                                       *)
(***************************************************************************)

\* What was given of the queue and what waits in it is what the reader gave; a
\* drain that found the queue empty had been given all there was by then, and one
\* that is over, and did not give up, saw the end of the reader after that.
Tally ==
    StatsKind = "queue" =>
        /\ Total(stat.given) + Total(stat.buffer) = Len(reader.given)
        /\ opt.gen = "shootexec" =>
              /\ reader.closed => reader.pc = "over"
              /\ stat.pc = "empty" => Total(stat.given) = stat.seen
              /\ stat.pc = "over" /\ ~stat.gaveUp => reader.closed /\ Total(stat.given) = stat.seen

LEMMA TallyIsOnce ==
    ASSUME Tally
    PROVE  ChunksOnce
  BY DEF Tally, ChunksOnce

\* A step that leaves the chunks where they are.
LEMMA HeldTally ==
    ASSUME Tally, opt' = opt, reader'.given = reader.given, stat'.given = stat.given, stat'.buffer = stat.buffer,
           opt.gen = "shootexec" =>
              /\ reader'.closed => reader'.pc = "over"
              /\ stat'.pc = "empty" => Total(stat'.given) = stat'.seen
              /\ stat'.pc = "over" /\ ~stat'.gaveUp => reader'.closed /\ Total(stat'.given) = stat'.seen
    PROVE  Tally'
  <1>1. StatsKind' = StatsKind
    BY DEF StatsKind
  <1> QED BY <1>1 DEF Tally

\* A step of one who has to do with neither.
LEMMA SameTally ==
    ASSUME Tally, opt' = opt, reader'.given = reader.given, stat'.given = stat.given, stat'.buffer = stat.buffer,
           StatsKind = "queue" /\ opt.gen = "shootexec" =>
              /\ reader'.pc = reader.pc /\ reader'.closed = reader.closed
              /\ stat'.pc = stat.pc /\ stat'.gaveUp = stat.gaveUp /\ stat'.seen = stat.seen
    PROVE  Tally'
  <1>1. CASE StatsKind = "queue"
    BY <1>1, HeldTally DEF Tally
  <1>2. CASE StatsKind # "queue"
    <2>1. StatsKind' = StatsKind
      BY DEF StatsKind
    <2> QED BY <1>2, <2>1 DEF Tally
  <1> QED BY <1>1, <1>2

\* A chunk that is read goes into the queue.
LEMMA GiveTally ==
    ASSUME TestTypes, Reading, Stating, Tally, opt' = opt, reader.pc = "read", NEW last \in BOOLEAN, Give(last)
    PROVE  Tally'
  <1> DEFINE text == Whole(reader.buffer \o Ahead)
  <1>1. StatsKind' = StatsKind
    BY DEF StatsKind
  <1> SUFFICES ASSUME StatsKind = "queue" PROVE Tally'
    BY <1>1 DEF Tally
  <1>2. text \in Seq(Int)
    <2>1. Ahead \in Seq(Int)
      BY AheadIs DEF Reading, Reads
    <2>2. reader.buffer \o Ahead \in Seq(Int)
      BY <2>1, ReaderIs, ConcatProperties
    <2> QED BY <2>2, CutText
  <1>3. /\ Counted(text)
        /\ reader' = [reader EXCEPT !.pos = @ + Len(Ahead), !.pc = AfterRead(last), !.given = @ \o text,
                                    !.buffer = Rest(reader.buffer \o Ahead)]
    BY DEF Give
  <1> HIDE DEF text
  <1>4. /\ reader'.given = reader.given \o text /\ reader'.closed = reader.closed
    BY <1>3 DEF Reading, ReaderTypes, ReaderSet
  <1>5. Len(reader'.given) = Len(reader.given) + Len(text) /\ Len(text) \in Nat /\ Len(reader.given) \in Nat
    BY <1>2, <1>4, ReaderIs, ConcatProperties, LenProperties
  <1>6. /\ stat'.given = stat.given /\ stat'.pc = stat.pc /\ stat'.gaveUp = stat.gaveUp /\ stat'.seen = stat.seen
        /\ Total(stat'.buffer) = Total(stat.buffer) + Len(text)
    <2>1. CASE text = << >>
      <3>1. Len(text) = 0 /\ stat' = stat
        BY <1>3, <2>1 DEF Counted
      <3>2. Total(stat.buffer) \in Nat
        BY StatIs, TotalNat
      <3> QED BY <3>1, <3>2
    <2>2. CASE text # << >>
      <3>1. stat' = [stat EXCEPT !.buffer = Append(stat.buffer, Len(text))]
        BY <1>3, <2>2 DEF Counted
      <3>2. /\ stat'.buffer = Append(stat.buffer, Len(text)) /\ stat'.given = stat.given /\ stat'.pc = stat.pc
            /\ stat'.gaveUp = stat.gaveUp /\ stat'.seen = stat.seen
        BY <3>1, StatIs DEF StatSet
      <3> QED BY <1>5, <3>2, StatIs, TotalAppend
    <2> QED BY <2>1, <2>2
  <1>7. Total(stat'.given) + Total(stat'.buffer) = Len(reader'.given)
    <2>1. Total(stat.given) \in Nat /\ Total(stat.buffer) \in Nat
      BY StatIs, TotalNat
    <2>2. Total(stat.given) + Total(stat.buffer) = Len(reader.given)
      BY DEF Tally
    <2> QED BY <1>5, <1>6, <2>1, <2>2
  <1>8. opt.gen = "shootexec" => /\ ~reader'.closed /\ ~(stat'.pc = "over" /\ ~stat'.gaveUp)
                                 /\ stat'.pc = "empty" => Total(stat'.given) = stat'.seen
    BY <1>4, <1>6 DEF Tally
  <1> QED BY <1>7, <1>8 DEF Tally

\* The drain takes the first chunk.
LEMMA TakeTally ==
    ASSUME Stating, Tally, TakeChunk
    PROVE  Tally'
  <1>1. /\ stat.pc = "read" /\ StatsKind = "queue" /\ stat.buffer # << >> /\ UNCHANGED <<opt, reader>>
        /\ stat' = [stat EXCEPT !.given = Append(stat.given, stat.buffer[1]), !.buffer = Tail(stat.buffer)]
    BY DEF TakeChunk
  <1>2. stat'.given = Append(stat.given, stat.buffer[1]) /\ stat'.buffer = Tail(stat.buffer) /\ stat'.pc = "read"
    BY <1>1, StatIs DEF StatSet
  <1>3. stat.buffer[1] \in Nat /\ Tail(stat.buffer) \in Seq(Nat)
    BY <1>1, StatIs, EmptySeq, ElementOfSeq, HeadTailProperties
  <1>4. Total(stat'.given) = Total(stat.given) + stat.buffer[1]
    BY <1>2, <1>3, StatIs, TotalAppend
  <1>5. Total(stat.buffer) = stat.buffer[1] + Total(stat'.buffer)
    BY <1>1, <1>2, StatIs, TotalFirst
  <1>6. Total(stat.given) \in Nat /\ Total(stat'.buffer) \in Nat
    BY <1>2, <1>3, StatIs, TotalNat
  <1>7. Total(stat'.given) + Total(stat'.buffer) = Len(reader'.given)
    BY <1>1, <1>3, <1>4, <1>5, <1>6 DEF Tally
  <1> QED BY <1>1, <1>2, <1>7 DEF Tally, StatsKind

LEMMA DrainTally ==
    ASSUME Stating, Tally, StatThread
    PROVE  Tally'
  <1>1. CASE TakeChunk
    BY <1>1, TakeTally
  <1>2. CASE ShootExecQueueEmpty
    <2>1. /\ UNCHANGED <<opt, reader>> /\ stat.buffer = << >> /\ stat.pc = "read" /\ StatsKind = "queue"
          /\ opt.gen = "shootexec" /\ stat' = [stat EXCEPT !.pc = "empty", !.seen = Len(reader.given)]
      BY <1>2 DEF ShootExecQueueEmpty
    <2>2. stat'.given = stat.given /\ stat'.buffer = stat.buffer /\ stat'.pc = "empty" /\ stat'.seen = Len(reader.given)
      BY <2>1, StatIs DEF StatSet
    <2>3. Total(stat.given) = Len(reader.given)
      <3>1. Total(stat.given) + Total(stat.buffer) = Len(reader.given)
        BY <2>1 DEF Tally
      <3>2. Total(stat.given) \in Nat /\ Total(stat.buffer) = 0
        BY <2>1, StatIs, TotalNat, TotalEmpty
      <3> QED BY <3>1, <3>2
    <2> QED BY <2>1, <2>2, <2>3, HeldTally DEF Tally
  <1>3. CASE ShootExecQueueOver
    <2>1. UNCHANGED <<opt, reader>> /\ stat.pc = "empty" /\ StatsKind = "queue"
      BY <1>3 DEF ShootExecQueueOver, Stating, Kinds
    <2>2. \/ reader.closed /\ stat' = [stat EXCEPT !.pc = "over"]
          \/ \E p \in {"read", "over"}, g \in BOOLEAN : stat' = [stat EXCEPT !.pc = p, !.gaveUp = g] /\ (p = "over" => g)
      BY <1>3, StatIs, NoStatsIs DEF ShootExecQueueOver
    <2>3. /\ stat'.given = stat.given /\ stat'.buffer = stat.buffer /\ stat'.seen = stat.seen
          /\ stat'.pc # "empty" /\ (stat'.pc = "over" /\ ~stat'.gaveUp => reader.closed)
      BY <2>2, StatIs DEF StatSet
    <2>4. opt.gen = "shootexec" => Total(stat.given) = stat.seen /\ (reader.closed => reader.pc = "over")
      BY <2>1 DEF Tally
    <2> QED BY <2>1, <2>3, <2>4, HeldTally
  <1>4. CASE JMeterQueueOver
    <2>1. /\ opt' = opt /\ opt.gen = "jmeter" /\ reader' = [reader EXCEPT !.agg = TRUE]
          /\ stat' = [stat EXCEPT !.pc = "over", !.gaveUp = ~reader.closed]
      BY <1>4 DEF JMeterQueueOver
    <2>2. stat'.given = stat.given /\ stat'.buffer = stat.buffer
      BY <2>1, StatIs DEF StatSet
    <2>3. reader'.given = reader.given
      BY <2>1
    <2> QED BY <2>1, <2>2, <2>3, SameTally
  <1>5. CASE \/ LookClosed \/ ReadLines \/ ReadBlocks \/ ReadNoBlocks \/ BlocksLine \/ BlocksEnd
             \/ ExpvarNext \/ StartPoller \/ Swap \/ Iterated
    <2>1. opt' = opt /\ StatsKind # "queue"
      BY <1>5 DEF LookClosed, ReadLines, ReadBlocks, ReadNoBlocks, BlocksLine, BlocksEnd,
                  ExpvarNext, StartPoller, Swap, Iterated, Stating, Lists, Kinds
    <2> QED BY <2>1 DEF Tally, StatsKind
  <1> QED BY <1>1, <1>2, <1>3, <1>4, <1>5 DEF StatThread

LEMMA ResultsTally ==
    ASSUME TestTypes, Reading, Stating, Tally, Results
    PROVE  Tally'
  <1>1. opt' = opt
    BY DEF Results, ReaderThread, ReadSome, ReadNothing, MultiEmpty, JtlEmpty
  <1>2. CASE ReadSome
    <2>1. CASE Give(opt.gen = "jmeter" /\ reader.closed)
      <3>1. PICK last \in BOOLEAN : last = (opt.gen = "jmeter" /\ reader.closed)
        OBVIOUS
      <3> QED BY <1>1, <1>2, <2>1, <3>1, GiveTally DEF ReadSome
    <2>2. CASE reader' = [reader EXCEPT !.pc = "failed"] /\ UNCHANGED stat
      <3>1. reader'.given = reader.given /\ reader'.closed = reader.closed
        BY <2>2 DEF Reading, ReaderTypes, ReaderSet
      <3>2. reader.pc = "read" /\ reader.pc # "over"
        BY <1>2 DEF ReadSome
      <3>3. CASE StatsKind = "queue"
        BY <1>1, <2>2, <3>1, <3>2, <3>3, HeldTally DEF Tally
      <3>4. CASE StatsKind # "queue"
        BY <1>1, <3>4 DEF Tally, StatsKind
      <3> QED BY <3>3, <3>4
    <2> QED BY <1>2, <2>1, <2>2 DEF ReadSome
  <1>3. CASE ReadNothing(~Writing) \/ MultiEmpty \/ JtlEmpty
    <2>1. stat' = stat /\ reader.pc # "over"
      BY <1>3 DEF ReadNothing, MultiEmpty, JtlEmpty
    <2>2. reader'.given = reader.given
      BY <1>3 DEF ReadNothing, MultiEmpty, JtlEmpty, Reading, ReaderTypes, ReaderSet
    <2>3. opt.gen = "shootexec" => \/ reader'.closed = reader.closed
                                   \/ reader'.closed => reader'.pc = "over"
      BY <1>3 DEF ReadNothing, MultiEmpty, JtlEmpty, AfterRead, Reading, ReaderTypes, ReaderSet
    <2>4. CASE StatsKind = "queue"
      BY <1>1, <2>1, <2>2, <2>3, <2>4, HeldTally DEF Tally
    <2>5. CASE StatsKind # "queue"
      BY <1>1, <2>5 DEF Tally, StatsKind
    <2> QED BY <2>4, <2>5
  <1> QED BY <1>2, <1>3 DEF Results, ReaderThread

LEMMA TallyStep ==
    ASSUME TestTypes, Control, Reading, Stating, Tally, [Next]_vars
    PROVE  Tally'
  <1>1. CASE Statistics
    BY <1>1, DrainTally DEF Statistics
  <1>2. CASE Results
    BY <1>2, ResultsTally
  <1>3. CASE Poller
    <2>1. UNCHANGED <<opt, reader>> /\ (StatsKind = "queue" => stat' = [stat EXCEPT !.poller = "dead"])
      BY <1>3 DEF Poller, StatPoller, Fetch, AppendSecond, PollerStops, Stating, Lists
    <2>2. CASE StatsKind = "queue"
      <3>1. /\ stat'.given = stat.given /\ stat'.buffer = stat.buffer /\ stat'.pc = stat.pc /\ stat'.gaveUp = stat.gaveUp
            /\ stat'.seen = stat.seen
        BY <2>1, <2>2, StatIs DEF StatSet
      <3> QED BY <2>1, <3>1, SameTally
    <2>3. CASE StatsKind # "queue"
      BY <2>1, <2>3 DEF Tally, StatsKind
    <2> QED BY <2>2, <2>3
  <1>4. CASE WriteStats
    BY <1>4 DEF WriteStats, Tally, StatsKind
  <1>5. CASE Start
    <2>1. /\ opt' = opt /\ reader' = [reader EXCEPT !.pc = "read"] /\ stat' = [stat EXCEPT !.pc = "read"]
          /\ reader.pc = "none"
      BY <1>5 DEF Start, Control, Begun, Early
    <2>2. reader'.given = reader.given /\ reader'.closed = reader.closed
      BY <2>1 DEF Reading, ReaderTypes, ReaderSet
    <2>3. stat'.given = stat.given /\ stat'.buffer = stat.buffer /\ stat'.pc = "read"
      BY <2>1, StatIs DEF StatSet
    <2>4. CASE StatsKind = "queue"
      BY <2>1, <2>2, <2>3, <2>4, HeldTally DEF Tally
    <2>5. CASE StatsKind # "queue"
      BY <2>1, <2>5 DEF Tally, StatsKind
    <2> QED BY <2>4, <2>5
  <1>6. CASE CloseStats
    <2>1. UNCHANGED <<opt, reader>>
      BY <1>6 DEF CloseStats
    <2>2. /\ stat'.given = stat.given /\ stat'.buffer = stat.buffer /\ stat'.pc = stat.pc /\ stat'.gaveUp = stat.gaveUp
          /\ stat'.seen = stat.seen
      BY <1>6, StatIs DEF CloseStats, Closed, StatSet
    <2> QED BY <2>1, <2>2, SameTally
  <1>7. CASE PollGenerator \/ EndGenerator \/ UdpOver
    <2>1. UNCHANGED <<opt, stat>>
      BY <1>7 DEF PollGenerator, EndGenerator, UdpOver
    <2>2. reader' = reader \/ (opt.gen = "jmeter" /\ reader' = [reader EXCEPT !.closed = TRUE])
      <3>1. CASE PollGenerator
        BY <3>1 DEF PollGenerator, PollJMeter
      <3>2. CASE EndGenerator
        BY <3>2, TankIs, OptionIs DEF EndGenerator, EndPhantom, EndPandora, EndShootExec, EndJMeter
      <3>3. CASE UdpOver
        BY <3>3 DEF UdpOver, Control, Ending
      <3> QED BY <1>7, <3>1, <3>2, <3>3
    <2>3. reader'.given = reader.given
      BY <2>2 DEF Reading, ReaderTypes, ReaderSet
    <2>4. opt.gen = "shootexec" => reader' = reader
      BY <2>2
    <2> QED BY <2>1, <2>3, <2>4, SameTally
  <1>8. CASE \/ WriteResults \/ Exit \/ ChildEnds \/ Configure \/ Prepare \/ StoppedEarly \/ PollShell \/ PollResources
             \/ Interrupted \/ Kill \/ Join \/ EndOthers \/ PostProcess \/ UNCHANGED vars
    <2>1. UNCHANGED <<opt, stat, reader>>
      BY <1>8 DEF WriteResults, Exit, ChildEnds, Configure, Prepare, StoppedEarly, PollShell, PollResources, Interrupted, Kill,
         Join, EndOthers, PostProcess, vars, files
    <2> QED BY <2>1, SameTally
  <1> QED BY <1>1, <1>2, <1>3, <1>4, <1>5, <1>6, <1>7, <1>8 DEF Next, Process, Tank

LEMMA InitTally == Init => Tally
  <1> SUFFICES ASSUME Init PROVE Tally
    OBVIOUS
  <1>1. reader.given = << >> /\ ~reader.closed /\ stat.given = << >> /\ stat.buffer = << >> /\ stat.pc = "none"
    BY DEF Init, OutInit
  <1>2. Len(<< >>) = 0
    OBVIOUS
  <1> QED BY <1>1, <1>2, TotalEmpty DEF Tally

-----------------------------------------------------------------------------
(***************************************************************************)
(* What is told of Phantom's streams                                       *)
(***************************************************************************)

\* f is what the first steps give, second by second.
StepsGive(f, steps) ==
    /\ f \in [0..Len(steps) -> Seq(Nat)] /\ f[0] = << >> /\ f[Len(steps)] = PerSecond(steps)
    /\ \A i \in 0..(Len(steps) - 1) : f[i + 1] = f[i] \o [k \in 1 .. steps[i + 1][2] |-> steps[i + 1][1]]

LEMMA StepFolds ==
    ASSUME NEW steps \in Seq(Nat \X Nat),
           \A v \in Seq(Nat), x \in (Nat \X Nat) : v \o [k \in 1 .. x[2] |-> x[1]] \in Seq(Nat)
    PROVE  \E f : StepsGive(f, steps)
  <1> DEFINE n == Len(steps)
             V == Seq(Nat)
             step == [q \in (1..n) \X V |-> q[2] \o [k \in 1 .. steps[q[1]][2] |-> steps[q[1]][1]]]
             G(g) == [s \in SUBSET (DOMAIN steps) |-> IF s = {} THEN << >>
                                                 ELSE g[s \ {Max(s)}] \o [k \in 1 .. steps[Max(s)][2] |-> steps[Max(s)][1]]]
             iter == CHOOSE g : g = G(g)
  <1>1. n \in Nat /\ DOMAIN steps = 1..n /\ \A i \in 1..n : steps[i] \in (Nat \X Nat)
    BY LenProperties
  <1>2. step \in [(1..n) \X V -> V]
    <2>1. ASSUME NEW q \in (1..n) \X V PROVE q[2] \o [k \in 1 .. steps[q[1]][2] |-> steps[q[1]][1]] \in V
      <3>1. q[2] \in V /\ steps[q[1]] \in (Nat \X Nat)
        BY <1>1
      <3> QED BY <3>1
    <2> QED BY <2>1
  <1>3. PerSecond(steps) = iter[DOMAIN steps]
    BY Zenon DEF PerSecond, FoldLeft, MapThenFoldSet
  <1>4. \A i \in 1..n, v \in V : step[<<i, v>>] = v \o [k \in 1 .. steps[i][2] |-> steps[i][1]]
    OBVIOUS
  <1>13. << >> \in V
    OBVIOUS
  <1> HIDE DEF step, V, n
  <1>5. \E h : IsFold(h, n, V, << >>, step)
    BY <1>1, <1>2, <1>13, FoldExists
  <1>6. ASSUME NEW h, IsFold(h, n, V, << >>, step) PROVE h = G(h)
    <2>1. h \in [SUBSET (1..n) -> V]
      BY <1>6 DEF IsFold
    <2>2. ASSUME NEW s \in SUBSET (1..n), s # {}
          PROVE  h[s] = h[s \ {Max(s)}] \o [k \in 1 .. steps[Max(s)][2] |-> steps[Max(s)][1]]
      <3>1. Max(s) \in 1..n /\ s \ {Max(s)} \in SUBSET (1..n)
        BY <1>1, <2>2, LargestOf
      <3>2. h[s] = step[<<Max(s), h[s \ {Max(s)}]>>]
        BY <1>6, <2>2 DEF IsFold
      <3> QED BY <1>4, <2>1, <3>1, <3>2
    <2>3. h[{}] = << >>
      BY <1>6 DEF IsFold
    <2> QED BY <1>1, <2>1, <2>2, <2>3
  <1>7. iter = G(iter)
    <2> HIDE DEF G
    <2> QED BY <1>5, <1>6
  <1>8. iter[1..0] = << >>
    <2>1. 1..0 = {} /\ {} \in SUBSET (DOMAIN steps)
      OBVIOUS
    <2> HIDE DEF iter
    <2> QED BY <1>7, <2>1
  <1>9. ASSUME NEW i \in 0..(n - 1), iter[1..i] \in V PROVE iter[1..(i + 1)] = step[<<i + 1, iter[1..i]>>]
    <2>1. 1..(i + 1) \in SUBSET (DOMAIN steps) /\ 1..(i + 1) # {} /\ i + 1 \in 1..n /\ i \in Nat
      <3>1. 1..(i + 1) \in SUBSET (1..n) /\ 1..(i + 1) # {} /\ i + 1 \in 1..n /\ i \in Nat
        BY <1>1, FirstPlaces
      <3> QED BY ONLY <1>1, <3>1
    <2> HIDE DEF iter
    <2>2. iter[1..(i + 1)] = iter[1..i] \o [k \in 1 .. steps[i + 1][2] |-> steps[i + 1][1]]
      <3> DEFINE s == 1..(i + 1)
      <3>1. Max(s) = i + 1 /\ s \ {Max(s)} = 1..i
        BY <2>1, LargestOfFirst
      <3>2. iter[s] = iter[s \ {Max(s)}] \o [k \in 1 .. steps[Max(s)][2] |-> steps[Max(s)][1]]
        <4>1. s \in SUBSET (DOMAIN steps) /\ s # {}
          BY <2>1
        <4> HIDE DEF s
        <4> QED BY <1>7, <4>1
      <3> QED BY <3>1, <3>2
    <2> QED BY <1>4, <1>9, <2>1, <2>2
  <1> HIDE DEF iter
  <1>10. PICK f : GoesBy(f, iter, n, V, << >>, step)
    <2>1. StepsBy(iter, n, V, << >>, step)
      BY <1>8, <1>9 DEF StepsBy
    <2> QED BY <1>1, <1>2, <1>13, <2>1, FoldPrefixes
  <1>11. \A i \in 0..(n - 1) : f[i + 1] = f[i] \o [k \in 1 .. steps[i + 1][2] |-> steps[i + 1][1]]
    <2> SUFFICES ASSUME NEW i \in 0..(n - 1) PROVE f[i + 1] = f[i] \o [k \in 1 .. steps[i + 1][2] |-> steps[i + 1][1]]
      OBVIOUS
    <2>1. i + 1 \in 1..n /\ f[i] \in V
      BY <1>1, <1>10 DEF GoesBy
    <2> QED BY <1>4, <1>10, <2>1 DEF GoesBy
  <1>12. StepsGive(f, steps)
    BY <1>1, <1>3, <1>10, <1>11 DEF V, n, GoesBy, StepsGive
  <1> QED BY <1>12

\* What is told of streams.
InfoType(streams) ==
    [steps : Seq(Nat), schedule : {<< >>} \union {s.plan.steps : s \in ToSet(streams)},
     loops : {"", "0"} \union {s.plan.loops : s \in ToSet(streams)}, ammo : Nat, duration : Nat, instances : Nat]

\* f is what is told of the first streams.
InfosOf(f, streams) ==
    /\ f \in [0..Len(streams) -> InfoType(streams)] /\ f[0] = NoInfo /\ f[Len(streams)] = GetInfo(streams)
    /\ \A i \in 0..(Len(streams) - 1) : f[i + 1] = WithStream(f[i], streams[i + 1])

LEMMA InfoFolds ==
    ASSUME NEW streams, streams \in Seq(ToSet(streams)),
           NoInfo \in InfoType(streams), \A v \in InfoType(streams), x \in ToSet(streams) : WithStream(v, x) \in InfoType(streams)
    PROVE  \E f : InfosOf(f, streams)
  <1> DEFINE n == Len(streams)
             V == InfoType(streams)
             step == [q \in (1..n) \X V |-> WithStream(q[2], streams[q[1]])]
             G(g) == [s \in SUBSET (DOMAIN streams) |-> IF s = {} THEN NoInfo
                                                 ELSE WithStream(g[s \ {Max(s)}], streams[Max(s)])]
             iter == CHOOSE g : g = G(g)
  <1>1. n \in Nat /\ DOMAIN streams = 1..n /\ \A i \in 1..n : streams[i] \in ToSet(streams)
    BY LenProperties
  <1>2. step \in [(1..n) \X V -> V]
    <2>1. ASSUME NEW q \in (1..n) \X V PROVE WithStream(q[2], streams[q[1]]) \in V
      <3>1. q[2] \in V /\ streams[q[1]] \in ToSet(streams)
        BY <1>1
      <3> QED BY <3>1
    <2> QED BY <2>1
  <1>3. GetInfo(streams) = iter[DOMAIN streams]
    BY Zenon DEF GetInfo, FoldLeft, MapThenFoldSet
  <1>4. \A i \in 1..n, v \in V : step[<<i, v>>] = WithStream(v, streams[i])
    OBVIOUS
  <1> HIDE DEF step, V, n
  <1>5. \E h : IsFold(h, n, V, NoInfo, step)
    BY <1>1, <1>2, FoldExists DEF V
  <1>6. ASSUME NEW h, IsFold(h, n, V, NoInfo, step) PROVE h = G(h)
    <2>1. h \in [SUBSET (1..n) -> V]
      BY <1>6 DEF IsFold
    <2>2. ASSUME NEW s \in SUBSET (1..n), s # {}
          PROVE  h[s] = WithStream(h[s \ {Max(s)}], streams[Max(s)])
      <3>1. Max(s) \in 1..n /\ s \ {Max(s)} \in SUBSET (1..n)
        BY <1>1, <2>2, LargestOf
      <3>2. h[s] = step[<<Max(s), h[s \ {Max(s)}]>>]
        BY <1>6, <2>2 DEF IsFold
      <3> QED BY <1>4, <2>1, <3>1, <3>2
    <2>3. h[{}] = NoInfo
      BY <1>6 DEF IsFold
    <2> QED BY <1>1, <2>1, <2>2, <2>3
  <1>7. iter = G(iter)
    <2> HIDE DEF G
    <2> QED BY <1>5, <1>6
  <1>8. iter[1..0] = NoInfo
    <2>1. 1..0 = {} /\ {} \in SUBSET (DOMAIN streams)
      OBVIOUS
    <2> HIDE DEF iter
    <2> QED BY <1>7, <2>1
  <1>9. ASSUME NEW i \in 0..(n - 1), iter[1..i] \in V PROVE iter[1..(i + 1)] = step[<<i + 1, iter[1..i]>>]
    <2>1. 1..(i + 1) \in SUBSET (DOMAIN streams) /\ 1..(i + 1) # {} /\ i + 1 \in 1..n /\ i \in Nat
      <3>1. 1..(i + 1) \in SUBSET (1..n) /\ 1..(i + 1) # {} /\ i + 1 \in 1..n /\ i \in Nat
        BY <1>1, FirstPlaces
      <3> QED BY ONLY <1>1, <3>1
    <2> HIDE DEF iter
    <2>2. iter[1..(i + 1)] = WithStream(iter[1..i], streams[i + 1])
      <3> DEFINE s == 1..(i + 1)
      <3>1. Max(s) = i + 1 /\ s \ {Max(s)} = 1..i
        BY <2>1, LargestOfFirst
      <3>2. iter[s] = WithStream(iter[s \ {Max(s)}], streams[Max(s)])
        <4>1. s \in SUBSET (DOMAIN streams) /\ s # {}
          BY <2>1
        <4> HIDE DEF s
        <4> QED BY <1>7, <4>1
      <3> QED BY <3>1, <3>2
    <2> QED BY <1>4, <1>9, <2>1, <2>2
  <1> HIDE DEF iter
  <1>10. PICK f : GoesBy(f, iter, n, V, NoInfo, step)
    <2>1. StepsBy(iter, n, V, NoInfo, step)
      BY <1>8, <1>9 DEF StepsBy
    <2> QED BY <1>1, <1>2, <2>1, FoldPrefixes DEF V
  <1>11. \A i \in 0..(n - 1) : f[i + 1] = WithStream(f[i], streams[i + 1])
    <2> SUFFICES ASSUME NEW i \in 0..(n - 1) PROVE f[i + 1] = WithStream(f[i], streams[i + 1])
      OBVIOUS
    <2>1. i + 1 \in 1..n /\ f[i] \in V
      BY <1>1, <1>10 DEF GoesBy
    <2> QED BY <1>4, <1>10, <2>1 DEF GoesBy
  <1>12. InfosOf(f, streams)
    BY <1>1, <1>3, <1>10, <1>11 DEF V, n, GoesBy, InfosOf
  <1> QED BY <1>12

LEMMA LargerOf ==
    ASSUME NEW a \in Nat, NEW b \in Nat
    PROVE  Max({a, b}) \in Nat /\ Max({a, b}) >= a /\ Max({a, b}) >= b /\ Max({a, b}) \in {a, b}
  <1> DEFINE c == IF a >= b THEN a ELSE b
  <1>1. c \in {a, b} /\ \A x \in {a, b} : c >= x
    OBVIOUS
  <1> HIDE DEF c
  <1>2. Max({a, b}) \in {a, b} /\ \A x \in {a, b} : Max({a, b}) >= x
    BY <1>1 DEF Max
  <1> QED BY <1>2

LEMMA LoadIs ==
    ASSUME NEW secs \in Seq(Nat), NEW k \in Nat
    PROVE  LoadAt(secs, k) \in Nat
  BY LenProperties, ElementOfSeq DEF LoadAt

LEMMA MergedIs ==
    ASSUME NEW a \in Seq(Nat), NEW b \in Seq(Nat)
    PROVE  /\ Merged(a, b) \in Seq(Nat) /\ Len(Merged(a, b)) >= Len(a) /\ Len(Merged(a, b)) >= Len(b)
           /\ \A k \in Nat : LoadAt(Merged(a, b), k) = LoadAt(a, k) + LoadAt(b, k)
  <1> DEFINE n == Max({Len(a), Len(b)})
  <1>1. Len(a) \in Nat /\ Len(b) \in Nat /\ DOMAIN a = 1 .. Len(a) /\ DOMAIN b = 1 .. Len(b)
    BY LenProperties
  <1>2. n \in Nat /\ n >= Len(a) /\ n >= Len(b)
    BY <1>1, LargerOf
  <1> HIDE DEF n
  <1>3. Merged(a, b) = [k \in 1 .. n |-> LoadAt(a, k) + LoadAt(b, k)]
    BY DEF Merged, LoadAt, n
  <1>4. \A k \in 1 .. n : LoadAt(a, k) + LoadAt(b, k) \in Nat
    <2> SUFFICES ASSUME NEW k \in 1 .. n PROVE LoadAt(a, k) + LoadAt(b, k) \in Nat
      OBVIOUS
    <2>1. k \in Nat
      BY <1>2
    <2>2. LoadAt(a, k) \in Nat /\ LoadAt(b, k) \in Nat
      BY <2>1, LoadIs
    <2> QED BY <2>2
  <1>5. Merged(a, b) \in Seq(Nat) /\ Len(Merged(a, b)) = n /\ DOMAIN Merged(a, b) = 1 .. n
    BY <1>2, <1>3, <1>4
  <1>6. ASSUME NEW k \in Nat PROVE LoadAt(Merged(a, b), k) = LoadAt(a, k) + LoadAt(b, k)
    <2>1. CASE k \in 1 .. n
      <3>1. LoadAt(Merged(a, b), k) = Merged(a, b)[k]
        BY <1>5, <2>1 DEF LoadAt
      <3> QED BY <1>3, <2>1, <3>1
    <2>2. CASE k \notin 1 .. n
      <3>1. k \notin DOMAIN a /\ k \notin DOMAIN b /\ k \notin DOMAIN Merged(a, b)
        BY <1>1, <1>2, <1>5, <2>2
      <3> QED BY <3>1 DEF LoadAt
    <2> QED BY <2>1, <2>2
  <1> QED BY <1>2, <1>5, <1>6

LEMMA PerSecondIs ==
    ASSUME NEW steps \in Seq(Nat \X Nat)
    PROVE  PerSecond(steps) \in Seq(Nat)
  <1>1. ASSUME NEW v \in Seq(Nat), NEW x \in Nat \X Nat PROVE v \o [k \in 1 .. x[2] |-> x[1]] \in Seq(Nat)
    <2>1. x[1] \in Nat /\ x[2] \in Nat
      OBVIOUS
    <2>2. [k \in 1 .. x[2] |-> x[1]] \in Seq(Nat)
      BY <2>1
    <2> QED BY <2>2, ConcatProperties
  <1>2. PICK f : StepsGive(f, steps)
    BY <1>1, StepFolds
  <1>3. Len(steps) \in Nat /\ Len(steps) \in 0..Len(steps)
    BY LenProperties
  <1> QED BY <1>2, <1>3 DEF StepsGive

\* Streams of which something can be told.
Tellable(streams) ==
    /\ streams \in Seq(ToSet(streams))
    /\ \A s \in ToSet(streams) : /\ s.plan.steps \in Seq(Nat \X Nat)
                                 /\ {s.plan.ammo, s.plan.duration, Instances(s)} \subseteq Nat

LEMMA InfosAre ==
    ASSUME NEW streams, Tellable(streams)
    PROVE  \E f : InfosOf(f, streams)
  <1>1. NoInfo \in InfoType(streams)
    <2>1. << >> \in Seq(Nat)
      OBVIOUS
    <2> QED BY <2>1 DEF NoInfo, InfoType
  <1>2. ASSUME NEW v \in InfoType(streams), NEW x \in ToSet(streams) PROVE WithStream(v, x) \in InfoType(streams)
    <2>1. x.plan.steps \in Seq(Nat \X Nat) /\ x.plan.ammo \in Nat /\ x.plan.duration \in Nat /\ Instances(x) \in Nat
      BY DEF Tellable
    <2>2. v.steps \in Seq(Nat) /\ v.ammo \in Nat /\ v.duration \in Nat /\ v.instances \in Nat
      BY DEF InfoType
    <2>3. Merged(v.steps, PerSecond(x.plan.steps)) \in Seq(Nat)
      BY <2>1, <2>2, PerSecondIs, MergedIs
    <2>4. Max({v.duration, x.plan.duration}) \in Nat
      BY <2>1, <2>2, LargerOf
    <2>5. v.ammo + x.plan.ammo \in Nat /\ v.instances + Instances(x) \in Nat
      BY <2>1, <2>2
    <2>6. (IF v.schedule # << >> THEN << >> ELSE x.plan.steps) \in {<< >>} \union {s.plan.steps : s \in ToSet(streams)}
      OBVIOUS
    <2>7. (IF v.loops # "" THEN "0" ELSE x.plan.loops) \in {"", "0"} \union {s.plan.loops : s \in ToSet(streams)}
      OBVIOUS
    <2> QED BY <2>3, <2>4, <2>5, <2>6, <2>7 DEF WithStream, InfoType
  <1> QED BY <1>1, <1>2, InfoFolds DEF Tellable

LEMMA LoadsAdd ==
    ASSUME NEW streams, Tellable(streams)
    PROVE  /\ GetInfo(streams).steps \in Seq(Nat)
           /\ \A k \in Nat : LoadAt(GetInfo(streams).steps, k) = LoadOf(streams, k)
           /\ \A i \in DOMAIN streams : Len(PerSecond(streams[i].plan.steps)) <= Len(GetInfo(streams).steps)
  <1> DEFINE n == Len(streams)
             secs(i) == PerSecond(streams[i].plan.steps)
  <1>1. n \in Nat /\ DOMAIN streams = 1 .. n /\ \A i \in 1 .. n : streams[i] \in ToSet(streams)
    BY LenProperties, ElementOfSeq DEF Tellable
  <1>2. \A i \in 1 .. n : secs(i) \in Seq(Nat) /\ Len(secs(i)) \in Nat
    BY <1>1, PerSecondIs, LenProperties DEF Tellable
  <1>3. PICK f : InfosOf(f, streams)
    BY InfosAre
  <1>4. /\ f[0].steps = << >> /\ f[n] = GetInfo(streams)
        /\ \A i \in 0 .. n : f[i].steps \in Seq(Nat) /\ Len(f[i].steps) \in Nat
        /\ \A i \in 0 .. n - 1 : f[i + 1].steps = Merged(f[i].steps, secs(i + 1))
    <2>1. \A i \in 0 .. n : f[i].steps \in Seq(Nat) /\ Len(f[i].steps) \in Nat
      BY <1>3, LenProperties DEF InfosOf, InfoType
    <2>2. f[0].steps = << >> /\ f[n] = GetInfo(streams)
      <3>1. f[0] = NoInfo /\ f[n] = GetInfo(streams)
        BY <1>3 DEF InfosOf
      <3>2. NoInfo.steps = << >>
        BY DEF NoInfo
      <3> QED BY <3>1, <3>2
    <2>3. \A i \in 0 .. n - 1 : f[i + 1].steps = Merged(f[i].steps, secs(i + 1))
      <3>1. \A i \in 0 .. n - 1 : f[i + 1] = WithStream(f[i], streams[i + 1])
        BY <1>3 DEF InfosOf
      <3>2. \A v, x : WithStream(v, x).steps = Merged(v.steps, PerSecond(x.plan.steps))
        BY DEF WithStream
      <3> QED BY <3>1, <3>2
    <2> QED BY <2>1, <2>2, <2>3
  <1> HIDE DEF n, secs
  <1>5. ASSUME NEW k \in Nat PROVE LoadAt(GetInfo(streams).steps, k) = LoadOf(streams, k)
    <2> DEFINE loads == [i \in DOMAIN streams |-> LoadAt(secs(i), k)]
    <2>1. loads \in Seq(Nat) /\ Len(loads) = n /\ \A i \in 1 .. n : loads[i] = LoadAt(secs(i), k)
      <3>1. \A i \in 1 .. n : LoadAt(secs(i), k) \in Nat
        BY <1>2, LoadIs
      <3> QED BY <1>1, <3>1
    <2>2. LoadOf(streams, k) = Total(loads)
      BY DEF LoadOf, secs
    <2> HIDE DEF loads
    <2>3. PICK g : SumsUp(g, loads)
      BY <2>1, TotalIs
    <2>4. g[0] = 0 /\ g[n] = Total(loads) /\ \A i \in 0 .. n - 1 : g[i + 1] = g[i] + LoadAt(secs(i + 1), k)
      <3>1. \A i \in 0 .. n - 1 : i + 1 \in 1 .. n
        BY <1>1
      <3> QED BY <2>1, <2>3, <3>1 DEF SumsUp
    <2> DEFINE T == {i \in Nat : i <= n => LoadAt(f[i].steps, k) = g[i]}
    <2>5. 0 \in T
      <3>1. LoadAt(<< >>, k) = 0
        BY DEF LoadAt
      <3> QED BY <1>4, <2>4, <3>1
    <2>6. ASSUME NEW i \in Nat, i \in T PROVE i + 1 \in T
      <3>1. CASE i + 1 <= n
        <4>1. i \in 0 .. n - 1 /\ i \in 0 .. n /\ i + 1 \in 1 .. n /\ LoadAt(f[i].steps, k) = g[i]
          BY <1>1, <2>6, <3>1
        <4>2. LoadAt(f[i + 1].steps, k) = LoadAt(f[i].steps, k) + LoadAt(secs(i + 1), k)
          BY <1>2, <1>4, <4>1, MergedIs
        <4> QED BY <2>4, <4>1, <4>2
      <3> QED BY <3>1
    <2> HIDE DEF T
    <2>7. n \in T
      BY <1>1, <2>5, <2>6, NatSet
    <2>8. LoadAt(f[n].steps, k) = g[n]
      BY <1>1, <2>7 DEF T
    <2> QED BY <1>4, <2>2, <2>4, <2>8
  <1>6. ASSUME NEW j \in 1 .. n PROVE Len(secs(j)) <= Len(GetInfo(streams).steps)
    <2> DEFINE T == {i \in Nat : j <= i /\ i <= n => Len(secs(j)) <= Len(f[i].steps)}
    <2>1. 0 \in T
      BY <1>1
    <2>2. ASSUME NEW i \in Nat, i \in T PROVE i + 1 \in T
      <3>1. CASE i + 1 <= n /\ j <= i + 1
        <4>1. i \in 0 .. n - 1 /\ i \in 0 .. n /\ i + 1 \in 0 .. n /\ i + 1 \in 1 .. n
          BY <1>1, <3>1
        <4>2. Len(f[i + 1].steps) >= Len(f[i].steps) /\ Len(f[i + 1].steps) >= Len(secs(i + 1))
          BY <1>2, <1>4, <4>1, MergedIs
        <4>3. Len(f[i + 1].steps) \in Nat /\ Len(f[i].steps) \in Nat /\ Len(secs(i + 1)) \in Nat /\ Len(secs(j)) \in Nat
          BY <1>2, <1>4, <4>1
        <4>4. j = i + 1 \/ Len(secs(j)) <= Len(f[i].steps)
          BY <1>1, <2>2, <3>1, <4>1
        <4> QED BY <4>2, <4>3, <4>4
      <3> QED BY <3>1
    <2> HIDE DEF T
    <2>3. n \in T
      BY <1>1, <2>1, <2>2, NatSet
    <2> QED BY <1>1, <1>4, <2>3 DEF T
  <1>7. GetInfo(streams).steps \in Seq(Nat)
    BY <1>1, <1>4
  <1> QED BY <1>1, <1>5, <1>6, <1>7 DEF secs

-----------------------------------------------------------------------------
(***************************************************************************)
(* The theorems                                                            *)
(***************************************************************************)

LEMMA InitTest == Init => TestInv
  <1> SUFFICES ASSUME Init PROVE TestInv
    OBVIOUS
  <1>1. /\ opt \in Options /\ tank.stage = "configure" /\ proc = [pc |-> "none", rc |-> 0, child |-> FALSE] /\ finished = FALSE
        /\ tank = [stage |-> "configure", turn |-> 1, port |-> FALSE, rc |-> 0, first |-> 0]
        /\ out = [text |-> IF opt.old THEN <<-1, 0>> ELSE << >>, written |-> 0]
    BY DEF Init, OutInit
  <1>2. reader = [pc |-> "none", pos |-> 0, buffer |-> << >>, given |-> << >>, lost |-> {}, quiet |-> FALSE,
                  closed |-> FALSE, last |-> FALSE, agg |-> FALSE]
    BY DEF Init, OutInit
  <1>3. stat = [pc |-> "none", out |-> 0, pos |-> 0, lined |-> {}, seen |-> 0, buffer |-> << >>, taken |-> << >>, given |-> << >>, pending |-> 0,
                list |-> "buffer", poller |-> "none", closed |-> FALSE, gaveUp |-> FALSE, atClose |-> 0]
    BY DEF Init, OutInit
  <1>4. out.text \in {<<-1, 0>>, << >>} /\ out.written = 0 /\ (out.text # << >> => opt.old)
    BY <1>1
  <1>5. << >> \in Seq(Int) /\ << >> \in Seq(Nat) /\ <<-1, 0>> \in Seq(Int)
    OBVIOUS
  <1>6. TestTypes
    <2>1. TankTypes
      <3>1. [stage |-> "configure", turn |-> 1, port |-> FALSE, rc |-> 0, first |-> 0] \in TankSet
        BY DEF TankSet, Stages, Early
      <3>2. [pc |-> "none", rc |-> 0, child |-> FALSE] \in ProcSet
        BY DEF ProcSet
      <3>3. finished \in BOOLEAN
        BY <1>1
      <3> QED BY <1>1, <3>1, <3>2, <3>3 DEF TankTypes
    <2>2. ReaderTypes
      <3>1. out \in [text : Seq(Int), written : Nat]
        BY <1>1, <1>5
      <3>2. reader \in ReaderSet
        BY <1>2, <1>5 DEF ReaderSet
      <3> QED BY <3>1, <3>2 DEF ReaderTypes
    <2>3. StatTypes
      BY <1>3, <1>5 DEF StatTypes, StatSet, StatPcs
    <2> QED BY <2>1, <2>2, <2>3 DEF TestTypes
  <1>7. Begun
    BY <1>1, <1>2, <1>3, <1>4 DEF Begun
  <1>8. Codes /\ Ending
    BY <1>1 DEF Codes, Ending
  <1>9. Text
    <2>1. CASE out.text = << >>
      BY <1>2, <1>4, <2>1 DEF Text, Before
    <2>2. CASE out.text = <<-1, 0>>
      <3>1. Len(out.text) = 2 /\ DOMAIN out.text = {1, 2} /\ out.text[1] = 1 - 2 /\ out.text[2] = 2 - 2
        BY <2>2
      <3>2. Before = 2
        BY <1>4, <3>1 DEF Before
      <3> QED BY <1>2, <3>1, <3>2 DEF Text
    <2> QED BY <1>4, <2>1, <2>2
  <1>10. Kept = << >>
    BY <1>2 DEF Kept
  <1>11. Unread
    BY <1>2, <1>10 DEF Unread
  <1>12. Reads
    <2>1. Before \in Nat /\ Len(out.text) \in Nat
      BY <1>6, <1>9, ReaderIs DEF Text
    <2>2. ToSet(<< >>) = {} /\ Len(<< >>) = 0 /\ 1 - Before .. 0 - Before = {}
      BY <2>1 DEF ToSet
    <2>3. Accounts(<< >>, {}, Before, 0)
      <3>1. Grows(<< >>)
        BY <2>2 DEF Grows
      <3> QED BY <2>2, <3>1 DEF Accounts
    <2>4. reader.pos = 0 /\ reader.lost = {} /\ reader.buffer = << >>
      BY <1>2
    <2> QED BY <1>10, <2>1, <2>3, <2>4 DEF Reads
  <1>13. QuietEnd
    BY <1>2 DEF QuietEnd
  <1>14. Lists
    BY <1>3 DEF Lists
  <1>15. Seconds
    <2>1. All = << >> /\ stat.given = << >>
      BY <1>3 DEF All
    <2> QED BY <2>1 DEF Seconds, Rising
  <1>16. AllBlocks
    <2>1. Len(<< >>) = 0 /\ 2 * 0 + 2 .. 0 = {}
      OBVIOUS
    <2> QED BY <1>3, <2>1 DEF AllBlocks
  <1>17. Kinds
    BY <1>3 DEF Kinds
  <1> QED BY <1>6, <1>7, <1>8, <1>9, <1>11, <1>12, <1>13, <1>14, <1>15, <1>16, <1>17 DEF TestInv

\* The inductive invariant of a test and its generator.
THEOREM TestInductive == Spec => []TestInv
  <1>1. Init => TestInv
    BY InitTest
  <1>2. TestInv /\ [Next]_vars => TestInv'
    <2> SUFFICES ASSUME TestInv, [Next]_vars PROVE TestInv'
      OBVIOUS
    <2>1. TestTypes /\ Control /\ Reading /\ Stating
      BY DEF TestInv, TestTypes, Control, Reading, Stating
    <2>2. Control' /\ Reading' /\ Stating'
      BY <2>1, ControlStep, ReadingStep, StatingStep
    <2> QED BY <2>2 DEF TestInv, TestTypes, Control, Reading, Stating
  <1> QED BY <1>1, <1>2, PTL DEF Spec

\* Every variable of the model has the type of what it stands for.
THEOREM TestTypeCorrect == Spec => []TestTypes
  <1>1. TestInv => TestTypes
    BY DEF TestInv
  <1> QED BY <1>1, TestInductive, PTL

\* A test that was ended with an error is not told to have been a success, unless
\* RCAssert was told that this is one.
THEOREM FailureTold == Spec => []FailureIsTold
  <1>1. TestInv => FailureIsTold
    <2> SUFFICES ASSUME TestInv, tank.stage = "done", tank.rc = 0, opt.fail # 0
                 PROVE  \/ tank.first = 0 /\ (proc.pc = "gone" => proc.rc = 0)
                        \/ Guarded(opt.end, tank.first) \in opt.pass
      BY DEF FailureIsTold
    <2>1. Asserted(Guarded(opt.end, tank.first)) = 0 /\ (tank.first = 0 => proc.rc = 0)
      BY DEF TestInv, Codes
    <2> QED BY <2>1 DEF Asserted, Guarded
  <1> QED BY <1>1, TestInductive, PTL

\* The aggregator gets the results of this test, no others, and all of them.
THEOREM TestIsRead == Spec => []ReadsThisWhole
  <1>1. TestInv => ReadsThisWhole
    <2> SUFFICES ASSUME TestInv PROVE ReadsThisWhole
      OBVIOUS
    <2>1. TestTypes /\ Control /\ Reading
      BY DEF TestInv, TestTypes, Control, Reading
    <2> QED BY <2>1, ReadingIsWhole
  <1> QED BY <1>1, TestInductive, PTL

\* Statistics come once for each second, in order; of Phantom's only those are
\* missing whose end the readlines took with all that came after.  Each chunk of
\* the results of JMeter and ShootExec is given or waits, and ShootExec's source
\* ends only with all there was when it last found its queue empty.
THEOREM StatisticsOnce == Spec => []StatsOnce
  <1>1. TestInv /\ Tally /\ [Next]_vars => Tally'
    <2> SUFFICES ASSUME TestInv, Tally, [Next]_vars PROVE Tally'
      OBVIOUS
    <2>1. TestTypes /\ Control /\ Reading /\ Stating
      BY DEF TestInv, TestTypes, Control, Reading, Stating
    <2> QED BY <2>1, TallyStep
  <1>2. Spec => []Tally
    BY InitTally, TestInductive, <1>1, PTL DEF Spec
  <1>3. TestInv /\ Tally => StatsOnce
    <2> SUFFICES ASSUME TestInv, Tally PROVE StatsOnce
      OBVIOUS
    <2>1. Stating
      BY DEF TestInv, TestTypes, Stating
    <2> QED BY <2>1, StatingIsOnce, TallyIsOnce DEF StatsOnce
  <1> QED BY TestInductive, <1>2, <1>3, PTL

\* The load that is told of a Phantom with several streams is, second by second
\* and to the end of the longest, the sum of what their plans shoot.
THEOREM LoadIsTold == Spec => []InfoAddsUp
  <1>1. TestTypes => InfoAddsUp
    <2> SUFFICES ASSUME TestTypes, opt.gen = "phantom", opt.conf.ok PROVE InfoAddsUp
      BY DEF InfoAddsUp
    <2> DEFINE streams == opt.conf.streams
               told == opt.conf.info.steps
    <2>1. opt \in Options
      BY DEF TestTypes, TankTypes
    <2>2. Tellable(streams) /\ told = GetInfo(streams).steps
      BY <2>1, PhantomAssumption DEF PhantomAssumption, Tellable
    <2> HIDE DEF streams, told
    <2>3. told \in Seq(Nat) /\ \A k \in Nat : LoadAt(told, k) = LoadOf(streams, k)
      BY <2>2, LoadsAdd
    <2>4. \A k \in DOMAIN told : k \in Nat /\ told[k] = LoadAt(told, k)
      BY <2>3, LenProperties DEF LoadAt
    <2>5. \A i \in DOMAIN streams : Len(PerSecond(streams[i].plan.steps)) <= Len(told)
      BY <2>2, LoadsAdd
    <2> QED BY <2>3, <2>4, <2>5 DEF InfoAddsUp, streams, told
  <1> QED BY <1>1, TestTypeCorrect, PTL

HIDE DEF Early, Shut, Late, Stages

-----------------------------------------------------------------------------
(***************************************************************************)
(* The readers of phout, for every number of readers, every placing of the *)
(* ends of lines and every bound.                                          *)
(*                                                                         *)
(* A reader has the file from its beginning because nobody moves the       *)
(* shared position between its seek and its tell (Exclusive), so what it   *)
(* reads continues what it had (Placed).  That the last read of a reader   *)
(* found the true end of the file rests on what the event means (Quiet).   *)
(***************************************************************************)

Holding == {"seek", "read", "tell"}

\* A reader at the file has its lock, and it alone.
Exclusive ==
    /\ \A r \in Readers : pc[r] \in Holding => locked
    /\ \A r, q \in Readers : pc[r] \in Holding /\ pc[q] \in Holding => r = q

\* The characters a reader had so far.
Had(r) == Len(parsed[r]) + Len(buffer[r])

\* The cursor is behind what the reader had; what it just read comes next.
Placed ==
    \A r \in Readers :
        /\ Had(r) <= written
        /\ pc[r] # "check" => cursor[r] = Had(r)
        /\ pc[r] = "read" => pos = cursor[r]
        /\ pc[r] = "tell" => pos = cursor[r] + Len(result[r])
        /\ pc[r] = "check" => cursor[r] = Had(r) + Len(result[r])
        /\ pc[r] \in {"tell", "check"} =>
              /\ Had(r) + Len(result[r]) <= written
              /\ \A i \in DOMAIN result[r] : result[r][i] = Had(r) + i

\* The event of a plugin that waits means that nothing more is written; an empty
\* read after it means that the reader had everything.
Quiet ==
    /\ Waits /\ stop => process = "gone"
    /\ \A r \in Readers : stopBefore[r] => stop
    /\ \A r \in Readers :
          /\ Waits /\ stopBefore[r]
          /\ pc[r] = "over" \/ (pc[r] \in {"tell", "check"} /\ result[r] = << >>)
          => Had(r) = written

IInv == TypeOK /\ Exclusive /\ Placed /\ ReadsTheFile /\ Quiet

USE DEF Had, Holding

-----------------------------------------------------------------------------
(***************************************************************************)
(* The effect of the two steps that consume what was read                  *)
(***************************************************************************)

Places == {"lock", "seek", "read", "tell", "check"} \union Stopped

LEMMA NothingEffect ==
    ASSUME TypeOK, NEW r \in Readers, Nothing(r)
    PROVE  /\ pc' \in [Readers -> Places]
           /\ idle' \in [Readers -> 0 .. MaxIdle]
           /\ pc'[r] \in {"lock", "gaveUp"}
           /\ \A q \in Readers \ {r} : pc'[q] = pc[q]
  <1>0. idle[r] \in Nat /\ idle[r] <= MaxIdle /\ MaxIdle \in Nat
    BY ReaderAssumption DEF ReaderAssumption, TypeOK
  <1>1. CASE idle[r] < MaxIdle
    <2>1. idle[r] + 1 \in 0 .. MaxIdle
      BY <1>0, <1>1
    <2>2. idle' = [idle EXCEPT ![r] = idle[r] + 1] /\ pc' = [pc EXCEPT ![r] = "lock"]
      BY <1>1 DEF Nothing, Goto
    <2> QED BY <2>1, <2>2 DEF TypeOK, Places, Stopped
  <1>2. CASE ~(idle[r] < MaxIdle)
    BY <1>2, ReaderAssumption DEF ReaderAssumption, TypeOK, Nothing, Goto, Places, Stopped
  <1> QED BY <1>1, <1>2

\* Part of a text, in the words the provers need.
LEMMA PartOf ==
    ASSUME NEW text \in Seq(Chars), NEW from \in 0 .. Len(text), NEW to \in from .. Len(text)
    PROVE  /\ Part(text, from, to) \in Seq(Chars)
           /\ Len(Part(text, from, to)) = to - from
           /\ \A i \in 1 .. to - from : Part(text, from, to)[i] = text[from + i]
  <1>1. to - from \in Nat
    OBVIOUS
  <1>2. \A i \in 1 .. to - from : from + i \in 1 .. Len(text)
    OBVIOUS
  <1>3. \A i \in 1 .. to - from : text[from + i] \in Chars
    BY <1>2
  <1> QED BY <1>1, <1>3 DEF Part

\* The text so far and what comes next.
Continues(p, b, c) ==
    /\ \A i \in DOMAIN (p \o b) : (p \o b)[i] = i
    /\ \A i \in DOMAIN c : c[i] = Len(p) + Len(b) + i

LEMMA Joined ==
    ASSUME NEW f \in Seq(Chars), NEW c \in Seq(Chars),
           \A i \in 1 .. Len(f) : f[i] = i,
           NEW n, n \in 0 .. Len(c), \A i \in 1 .. n : c[i] = Len(f) + i
    PROVE  \A i \in 1 .. Len(f) + n : (f \o c)[i] = i
  <1>1. SUFFICES ASSUME NEW i \in 1 .. Len(f) + n PROVE (f \o c)[i] = i
    OBVIOUS
  <1>2. CASE i <= Len(f)
    BY <1>2
  <1>3. CASE i > Len(f)
    <2>1. i - Len(f) \in 1 .. n /\ i = Len(f) + (i - Len(f))
      BY <1>3
    <2>2. (f \o c)[i] = c[i - Len(f)]
      BY <1>3, <2>1
    <2>3. c[i - Len(f)] = Len(f) + (i - Len(f))
      BY <2>1
    <2> QED BY <2>1, <2>2, <2>3
  <1> QED BY <1>2, <1>3

LEMMA Appended ==
    ASSUME NEW p \in Seq(Chars), NEW b \in Seq(Chars), NEW c \in Seq(Chars), Continues(p, b, c)
    PROVE  /\ b \o c \in Seq(Chars)
           /\ Len(p) + Len(b \o c) = Len(p) + Len(b) + Len(c)
           /\ \A i \in DOMAIN (p \o (b \o c)) : (p \o (b \o c))[i] = i
           /\ Ends(b) = {} /\ Ends(c) = {} => Ends(b \o c) = {}
  <1>1. b \o c \in Seq(Chars) /\ Len(b \o c) = Len(b) + Len(c)
    BY ConcatProperties
  <1>2. Len(p) + Len(b \o c) = Len(p) + Len(b) + Len(c)
    <2>1. Len(p) \in Nat /\ Len(b) \in Nat /\ Len(c) \in Nat
      BY LenProperties
    <2> QED BY <1>1, <2>1
  <1>3. p \o (b \o c) = (p \o b) \o c
    OBVIOUS
  <1>4. \A i \in DOMAIN ((p \o b) \o c) : ((p \o b) \o c)[i] = i
    <2>1. PICK f : f = p \o b
      OBVIOUS
    <2>2. f \in Seq(Chars) /\ Len(f) = Len(p) + Len(b) /\ DOMAIN f = 1 .. Len(f)
      BY <2>1, ConcatProperties, LenProperties
    <2>3. \A i \in 1 .. Len(f) : f[i] = i
      BY <2>1, <2>2 DEF Continues
    <2>4. \A i \in 1 .. Len(c) : c[i] = Len(f) + i
      BY <2>2, LenProperties DEF Continues
    <2>5. Len(c) \in 0 .. Len(c) /\ DOMAIN (f \o c) = 1 .. Len(f) + Len(c)
      <3>1. Len(c) \in Nat
        BY LenProperties
      <3>2. f \o c \in Seq(Chars) /\ Len(f \o c) = Len(f) + Len(c)
        BY <2>2, ConcatProperties
      <3>3. DOMAIN (f \o c) = 1 .. Len(f \o c)
        BY <3>2, LenProperties
      <3> QED BY <3>1, <3>2, <3>3
    <2>6. \A i \in 1 .. Len(f) + Len(c) : (f \o c)[i] = i
      BY <2>2, <2>3, <2>4, <2>5, Joined
    <2> QED BY <2>1, <2>5, <2>6
  <1>5. ASSUME Ends(b) = {}, Ends(c) = {} PROVE Ends(b \o c) = {}
    BY <1>5 DEF Ends
  <1> QED BY <1>1, <1>2, <1>3, <1>4, <1>5

\* The text up to the last end of a line, and the rest of what was read.
CutRight(p, b, c, text, rest) ==
    /\ text \in Seq(Chars) /\ rest \in Seq(Chars)
    /\ Len(text) + Len(rest) = Len(p) + Len(b) + Len(c)
    /\ \A i \in DOMAIN (text \o rest) : (text \o rest)[i] = i
    /\ Len(text) \in Newlines
    /\ Ends(rest) = {}

LEMMA Cut ==
    ASSUME NEW p \in Seq(Chars), NEW b \in Seq(Chars), NEW c \in Seq(Chars), Continues(p, b, c),
           NEW cut \in Ends(c), \A i \in Ends(c) : i <= cut
    PROVE  CutRight(p, b, c, p \o b \o Part(c, 0, cut), Part(c, cut, Len(c)))
  <1>0. PICK lines, rest : lines = Part(c, 0, cut) /\ rest = Part(c, cut, Len(c))
    OBVIOUS
  <1>1. cut \in 1 .. Len(c) /\ c[cut] \in Newlines
    BY DEF Ends
  <1>2. /\ lines \in Seq(Chars) /\ Len(lines) = cut
        /\ \A i \in 1 .. cut : lines[i] = c[i]
    <2>1. 0 \in 0 .. Len(c) /\ cut \in 0 .. Len(c) /\ cut - 0 = cut
      BY <1>1
    <2>2. /\ lines \in Seq(Chars) /\ Len(lines) = cut - 0
          /\ \A i \in 1 .. cut - 0 : lines[i] = c[0 + i]
      BY <1>0, <2>1, PartOf
    <2> QED BY <1>1, <2>1, <2>2
  <1>3. /\ rest \in Seq(Chars) /\ Len(rest) = Len(c) - cut
        /\ \A i \in 1 .. Len(c) - cut : rest[i] = c[cut + i]
    <2>1. cut \in 0 .. Len(c) /\ Len(c) \in cut .. Len(c)
      BY <1>1
    <2> QED BY <1>0, <2>1, PartOf
  <1>4. PICK text \in Seq(Chars) : text = p \o b \o lines
    <2>1. p \o b \in Seq(Chars)
      OBVIOUS
    <2>2. (p \o b) \o lines \in Seq(Chars)
      BY <1>2, <2>1
    <2> QED BY <2>2
  <1>5. Len(text) = Len(p) + Len(b) + cut
    <2>1. PICK front : front = p \o b
      OBVIOUS
    <2>2. front \in Seq(Chars) /\ Len(front) = Len(p) + Len(b)
      BY <2>1
    <2>3. text = front \o lines
      BY <1>4, <2>1
    <2>4. Len(front \o lines) = Len(front) + Len(lines)
      BY <1>2, <2>2, ConcatProperties
    <2> QED BY <1>2, <2>2, <2>3, <2>4
  <1>6. Len(text) + Len(rest) = Len(p) + Len(b) + Len(c)
    BY <1>1, <1>3, <1>5
  <1>7. \A i \in 1 .. Len(text) : text[i] = i
    <2>1. PICK front : front = p \o b
      OBVIOUS
    <2>2. front \in Seq(Chars) /\ Len(front) = Len(p) + Len(b)
      BY <2>1
    <2>3. \A i \in 1 .. Len(front) : front[i] = i
      <3>1. DOMAIN front = 1 .. Len(front)
        BY <2>2
      <3> QED BY <2>1, <3>1 DEF Continues
    <2>4. \A i \in 1 .. cut : lines[i] = Len(front) + i
      <3>1. SUFFICES ASSUME NEW i \in 1 .. cut PROVE lines[i] = Len(front) + i
        OBVIOUS
      <3>2. i \in DOMAIN c /\ lines[i] = c[i]
        BY <1>1, <1>2
      <3>3. c[i] = Len(p) + Len(b) + i
        BY <3>2 DEF Continues
      <3> QED BY <2>2, <3>2, <3>3
    <2>5. text = front \o lines /\ cut \in 0 .. Len(lines) /\ Len(text) = Len(front) + cut
      BY <1>1, <1>2, <1>4, <1>5, <2>1, <2>2
    <2>6. \A i \in 1 .. Len(front) + cut : (front \o lines)[i] = i
      BY <1>2, <2>2, <2>3, <2>4, <2>5, Joined
    <2> QED BY <2>5, <2>6
  <1>8. \A i \in 1 .. Len(rest) : rest[i] = Len(text) + i
    <2>1. SUFFICES ASSUME NEW i \in 1 .. Len(rest) PROVE rest[i] = Len(text) + i
      OBVIOUS
    <2>2. cut + i \in 1 .. Len(c) /\ rest[i] = c[cut + i]
      BY <1>1, <1>3
    <2>3. c[cut + i] = Len(p) + Len(b) + (cut + i)
      BY <2>2 DEF Continues
    <2> QED BY <1>1, <1>5, <2>2, <2>3
  <1>9. \A i \in DOMAIN (text \o rest) : (text \o rest)[i] = i
    BY <1>3, <1>7, <1>8
  <1>10. Len(text) \in Newlines
    BY <1>1, <1>5 DEF Continues
  <1>11. Ends(rest) = {}
    <2>1. SUFFICES ASSUME NEW i \in 1 .. Len(rest), rest[i] \in Newlines PROVE FALSE
      BY <1>3 DEF Ends
    <2>2. cut + i \in 1 .. Len(c) /\ c[cut + i] \in Newlines /\ i >= 1
      BY <1>1, <1>3, <2>1
    <2>3. cut + i <= cut
      BY <2>2 DEF Ends
    <2> QED BY <1>1, <2>2, <2>3
  <1>12. CutRight(p, b, c, text, rest)
    BY <1>3, <1>6, <1>9, <1>10, <1>11 DEF CutRight
  <1> QED BY <1>0, <1>4, <1>12

\* What a reader has after it consumed what it read.
Consumed(r) ==
    /\ parsed' \in [Readers -> Seq(Chars)] /\ buffer' \in [Readers -> Seq(Chars)]
    /\ \A q \in Readers \ {r} : parsed'[q] = parsed[q] /\ buffer'[q] = buffer[q]
    /\ Len(parsed'[r]) + Len(buffer'[r]) = Had(r) + Len(result[r])
    /\ \A i \in DOMAIN (parsed'[r] \o buffer'[r]) : (parsed'[r] \o buffer'[r])[i] = i
    /\ parsed'[r] # << >> => Len(parsed'[r]) \in Newlines
    /\ Ends(buffer'[r]) = {}

LEMMA BufferedEffect ==
    ASSUME IInv, NEW r \in Readers, Buffered(r)
    PROVE  Consumed(r)
  <1>1. /\ parsed[r] \in Seq(Chars) /\ buffer[r] \in Seq(Chars) /\ result[r] \in Seq(Chars)
        /\ parsed \in [Readers -> Seq(Chars)] /\ buffer \in [Readers -> Seq(Chars)]
    BY DEF IInv, TypeOK
  <1>2. /\ parsed' = parsed
        /\ buffer' = [buffer EXCEPT ![r] = buffer[r] \o result[r]]
        /\ Ends(result[r]) = {} /\ pc[r] = "check"
    BY DEF Buffered
  <1>3. Continues(parsed[r], buffer[r], result[r])
    BY <1>2 DEF IInv, Placed, ReadsTheFile, Continues
  <1>4. Ends(buffer[r]) = {} /\ (parsed[r] # << >> => Len(parsed[r]) \in Newlines)
    BY DEF IInv, ReadsTheFile
  <1>5. /\ buffer[r] \o result[r] \in Seq(Chars)
        /\ Len(parsed[r]) + Len(buffer[r] \o result[r]) = Len(parsed[r]) + Len(buffer[r]) + Len(result[r])
        /\ \A i \in DOMAIN (parsed[r] \o (buffer[r] \o result[r])) : (parsed[r] \o (buffer[r] \o result[r]))[i] = i
        /\ Ends(buffer[r] \o result[r]) = {}
    <2>1. PICK p \in Seq(Chars), b \in Seq(Chars), c \in Seq(Chars) :
             p = parsed[r] /\ b = buffer[r] /\ c = result[r]
      BY <1>1
    <2>2. Continues(p, b, c) /\ Ends(b) = {} /\ Ends(c) = {}
      BY <1>2, <1>3, <1>4, <2>1
    <2>3. /\ b \o c \in Seq(Chars)
          /\ Len(p) + Len(b \o c) = Len(p) + Len(b) + Len(c)
          /\ \A i \in DOMAIN (p \o (b \o c)) : (p \o (b \o c))[i] = i
          /\ Ends(b \o c) = {}
      BY <2>2, Appended
    <2> QED BY <2>1, <2>3
  <1>6. buffer' \in [Readers -> Seq(Chars)] /\ buffer'[r] = buffer[r] \o result[r]
    BY <1>1, <1>2, <1>5
  <1> QED BY <1>1, <1>2, <1>4, <1>5, <1>6 DEF Consumed

LEMMA ParsedEffect ==
    ASSUME IInv, NEW r \in Readers, Parsed(r)
    PROVE  Consumed(r)
  <1>1. /\ parsed[r] \in Seq(Chars) /\ buffer[r] \in Seq(Chars) /\ result[r] \in Seq(Chars)
        /\ parsed \in [Readers -> Seq(Chars)] /\ buffer \in [Readers -> Seq(Chars)]
    BY DEF IInv, TypeOK
  <1>2. PICK cut \in Ends(result[r]) :
          /\ \A i \in Ends(result[r]) : i <= cut
          /\ parsed' = [parsed EXCEPT ![r] = parsed[r] \o buffer[r] \o Part(result[r], 0, cut)]
          /\ buffer' = [buffer EXCEPT ![r] = Part(result[r], cut, Len(result[r]))]
    BY DEF Parsed
  <1>3. pc[r] = "check"
    BY DEF Parsed
  <1>4. Continues(parsed[r], buffer[r], result[r])
    BY <1>3 DEF IInv, Placed, ReadsTheFile, Continues
  <1>5. CutRight(parsed[r], buffer[r], result[r],
                 parsed[r] \o buffer[r] \o Part(result[r], 0, cut), Part(result[r], cut, Len(result[r])))
    BY <1>1, <1>2, <1>4, Cut
  <1>6. PICK text, rest : /\ text = parsed[r] \o buffer[r] \o Part(result[r], 0, cut)
                          /\ rest = Part(result[r], cut, Len(result[r]))
    OBVIOUS
  <1>7. CutRight(parsed[r], buffer[r], result[r], text, rest)
    BY <1>5, <1>6
  <1>8. parsed' = [parsed EXCEPT ![r] = text] /\ buffer' = [buffer EXCEPT ![r] = rest]
    BY <1>2, <1>6
  <1>9. /\ parsed' \in [Readers -> Seq(Chars)] /\ buffer' \in [Readers -> Seq(Chars)]
        /\ parsed'[r] = text /\ buffer'[r] = rest
        /\ \A q \in Readers \ {r} : parsed'[q] = parsed[q] /\ buffer'[q] = buffer[q]
    BY <1>1, <1>7, <1>8 DEF CutRight
  <1> QED BY <1>7, <1>9 DEF Consumed, CutRight

-----------------------------------------------------------------------------
(***************************************************************************)
(* The invariant holds initially and every step keeps it                   *)
(***************************************************************************)

LEMMA InitIInv == PhoutInit => IInv
  <1> SUFFICES ASSUME PhoutInit PROVE IInv
    OBVIOUS
  <1>1. << >> \in Seq(Chars) /\ Len(<< >>) = 0 /\ 0 \in 0 .. Size /\ 0 \in 0 .. MaxIdle
    BY ReaderAssumption DEF ReaderAssumption
  <1>2. TypeOK
    BY <1>1 DEF PhoutInit, TypeOK
  <1>3. Exclusive
    BY DEF PhoutInit, Exclusive
  <1>4. \A r \in Readers : parsed[r] = << >> /\ buffer[r] = << >> /\ cursor[r] = 0 /\ pc[r] = "lock" /\ stopBefore[r] = FALSE
    BY DEF PhoutInit
  <1>5. Placed
    BY <1>1, <1>4 DEF PhoutInit, Placed
  <1>6. ReadsTheFile
    <2>1. ASSUME NEW s, s = << >> PROVE DOMAIN (s \o s) = {} /\ Ends(s) = {}
      BY <2>1 DEF Ends
    <2> QED BY <1>4, <2>1 DEF ReadsTheFile
  <1>7. Quiet
    BY <1>4 DEF PhoutInit, Quiet
  <1> QED BY <1>2, <1>3, <1>5, <1>6, <1>7 DEF IInv

LEMMA Lengths ==
    ASSUME TypeOK, NEW r \in Readers
    PROVE  Len(parsed[r]) \in Nat /\ Len(buffer[r]) \in Nat /\ Len(result[r]) \in Nat /\ Had(r) \in Nat
  <1>1. parsed[r] \in Seq(Chars) /\ buffer[r] \in Seq(Chars) /\ result[r] \in Seq(Chars)
    BY DEF TypeOK
  <1>2. Len(parsed[r]) \in Nat /\ Len(buffer[r]) \in Nat /\ Len(result[r]) \in Nat
    BY <1>1, LenProperties
  <1>3. ASSUME NEW a \in Nat, NEW b \in Nat PROVE a + b \in Nat
    OBVIOUS
  <1> QED BY <1>2, <1>3

\* Steps of the generator and its plugin leave the readers alone.
LEMMA OutsideStep ==
    ASSUME IInv, Generator \/ Plugin
    PROVE  IInv'
  <1> USE DEF IInv
  <1>1. UNCHANGED <<file, readers>>
    BY DEF Generator, Plugin, Write, ProcessExits, SeenGone, Terminate, Terminated
  <1>2. /\ written' \in 0 .. Size /\ written <= written' /\ written \in Nat /\ written' \in Nat
        /\ process' \in {"runs", "told", "gone"} /\ worker' \in {"polls", "ends", "over"} /\ stop' \in BOOLEAN
    <2>1. written \in 0 .. Size /\ Size \in Nat
      BY ReaderAssumption DEF ReaderAssumption, TypeOK
    <2>2. CASE Write
      <3>1. written' \in written + 1 .. Size /\ UNCHANGED <<process, worker, stop>>
        BY <2>2 DEF Write
      <3>2. written' \in 0 .. Size /\ written <= written'
        BY <2>1, <3>1
      <3> QED BY <2>1, <3>1, <3>2 DEF TypeOK
    <2>3. CASE ProcessExits \/ Plugin
      <3>1. written' = written
        BY <2>3 DEF ProcessExits, Plugin, SeenGone, Terminate, Terminated
      <3>2. process' \in {"runs", "told", "gone"} /\ worker' \in {"polls", "ends", "over"} /\ stop' \in BOOLEAN
        BY <2>3 DEF ProcessExits, Plugin, SeenGone, Terminate, Terminated, TypeOK
      <3> QED BY <2>1, <3>1, <3>2
    <2> QED BY <2>2, <2>3 DEF Generator
  <1>3. /\ Waits /\ stop' => process' = "gone"
        /\ stop => stop'
        /\ process = "gone" => written' = written
    BY DEF Generator, Plugin, Write, ProcessExits, SeenGone, Terminate, Terminated, TypeOK, Quiet
  <1>4. TypeOK'
    BY <1>1, <1>2 DEF TypeOK, file, readers
  <1>5. Exclusive'
    BY <1>1 DEF Exclusive, file, readers
  <1>6. Placed'
    <2>1. ASSUME NEW r \in Readers PROVE Had(r) \in Nat /\ Len(result[r]) \in Nat
      BY Lengths
    <2>2. ASSUME NEW r \in Readers
          PROVE  /\ Had(r)' <= written'
                 /\ (pc[r] \in {"tell", "check"})' => (Had(r) + Len(result[r]) <= written)'
      <3>1. Had(r) <= written /\ (pc[r] \in {"tell", "check"} => Had(r) + Len(result[r]) <= written)
        BY DEF Placed
      <3>2. PICK n \in Nat, m \in Nat : n = Had(r) /\ m = Len(result[r])
        BY <2>1
      <3>3. n <= written /\ (pc[r] \in {"tell", "check"} => n + m <= written)
        BY <3>1, <3>2
      <3>4. n <= written' /\ (pc[r] \in {"tell", "check"} => n + m <= written')
        <4>1. PICK w \in Nat, v \in Nat : w = written /\ v = written'
          BY <1>2
        <4>2. w <= v /\ n <= w /\ (pc[r] \in {"tell", "check"} => n + m <= w)
          BY <1>2, <3>3, <4>1
        <4>3. n <= v /\ (pc[r] \in {"tell", "check"} => n + m <= v)
          BY ONLY <4>2, n \in Nat, m \in Nat, w \in Nat, v \in Nat
        <4> QED BY <4>1, <4>3
      <3> QED BY <1>1, <3>2, <3>4 DEF readers
    <2> QED BY <1>1, <2>2 DEF Placed, file, readers
  <1>7. ReadsTheFile'
    BY <1>1 DEF ReadsTheFile, readers
  <1>8. Quiet'
    BY <1>1, <1>3 DEF Quiet, readers, TypeOK
  <1> QED BY <1>4, <1>5, <1>6, <1>7, <1>8

LEMMA ReadEffect ==
    ASSUME IInv, NEW r \in Readers, Read(r)
    PROVE  \E n \in Nat :
              /\ n <= written - Had(r)
              /\ n = 0 => Had(r) = written
              /\ pos' = Had(r) + n
              /\ result' \in [Readers -> Seq(Chars)]
              /\ Len(result'[r]) = n
              /\ \A i \in DOMAIN result'[r] : result'[r][i] = Had(r) + i
              /\ \A q \in Readers \ {r} : result'[q] = result[q]
  <1>1. /\ pc[r] = "read" /\ pos = Had(r) /\ Had(r) <= written /\ Had(r) \in Nat
        /\ written \in 0 .. Size /\ Size \in Nat /\ CacheSize \in Nat \ {0}
    <2>1. parsed[r] \in Seq(Chars) /\ buffer[r] \in Seq(Chars) /\ written \in 0 .. Size
      BY DEF IInv, TypeOK
    <2>2. pc[r] = "read" /\ cursor[r] = Had(r) /\ pos = cursor[r] /\ Had(r) <= written
      BY DEF IInv, Placed, Read
    <2>3. Had(r) \in Nat
      BY Lengths DEF IInv
    <2> QED BY <2>1, <2>2, <2>3, ReaderAssumption DEF ReaderAssumption
  <1>2. PICK n : n = IF written - pos < CacheSize THEN written - pos ELSE CacheSize
    OBVIOUS
  <1>3. /\ result' = [result EXCEPT ![r] = [i \in 1 .. n |-> pos + i]]
        /\ pos' = pos + n
    BY <1>2 DEF Read
  <1>4. n \in Nat /\ n <= written - Had(r) /\ (n = 0 => Had(r) = written)
    <2>1. PICK h \in Nat : h = Had(r)
      BY <1>1
    <2>2. h <= written /\ pos = h /\ n = IF written - h < CacheSize THEN written - h ELSE CacheSize
      BY <1>1, <1>2, <2>1
    <2>3. n \in Nat /\ n <= written - h /\ (n = 0 => h = written)
      BY <1>1, <2>2
    <2> QED BY <2>1, <2>3
  <1>5. PICK text : text = [i \in 1 .. n |-> pos + i]
    OBVIOUS
  <1>6. \A i \in 1 .. n : pos + i \in Chars
    <2>1. PICK h \in Nat : h = Had(r)
      BY <1>1
    <2>2. h <= written /\ pos = h /\ n <= written - h
      BY <1>1, <1>4, <2>1
    <2>3. n \in Nat /\ written \in Nat /\ written <= Size /\ Size \in Nat
      BY <1>1, <1>4
    <2>4. ASSUME NEW i \in 1 .. n PROVE pos + i \in 1 .. Size
      <3>1. h + i >= 1 /\ h + i <= Size /\ h + i \in Int
        BY <2>2, <2>3
      <3> QED BY <2>2, <3>1
    <2> QED BY <2>4 DEF Chars
  <1>7. text \in Seq(Chars) /\ Len(text) = n /\ \A i \in DOMAIN text : text[i] = pos + i
    BY <1>4, <1>5, <1>6
  <1>8. result' = [result EXCEPT ![r] = text]
    BY <1>3, <1>5
  <1>9. /\ result' \in [Readers -> Seq(Chars)] /\ result'[r] = text
        /\ \A q \in Readers \ {r} : result'[q] = result[q]
    BY <1>7, <1>8 DEF IInv, TypeOK
  <1> QED BY <1>1, <1>3, <1>4, <1>7, <1>9

\* Steps of a reader that neither read nor consume: what it had stays.
LEMMA MoveStep ==
    ASSUME IInv, NEW r \in Readers,
           Lock(r) \/ LockTimeout(r) \/ Seek(r) \/ Tell(r) \/ Over(r)
    PROVE  IInv'
  <1> USE DEF IInv
  <1>1. UNCHANGED <<generator, result, buffer, parsed, idle>>
    BY DEF Lock, LockTimeout, Seek, Tell, Over
  <1>2. TypeOK'
    <2>1. pos' \in 0 .. Size /\ locked' \in BOOLEAN
      BY DEF Lock, LockTimeout, Seek, Tell, Over, TypeOK, file
    <2>2. pc' \in [Readers -> Places] /\ cursor' \in [Readers -> 0 .. Size] /\ stopBefore' \in [Readers -> BOOLEAN]
      BY DEF Lock, LockTimeout, Seek, Tell, Over, Goto, TypeOK, Places, Stopped
    <2> QED BY <1>1, <2>1, <2>2 DEF TypeOK, generator, Places
  <1>3. Exclusive'
    <2>1. \A q \in Readers \ {r} : pc'[q] = pc[q]
      BY DEF Lock, LockTimeout, Seek, Tell, Over, Goto, TypeOK
    <2>2. CASE Lock(r)
      <3>1. locked' = TRUE /\ \A q \in Readers : pc[q] \notin Holding
        BY <2>2 DEF Exclusive, Lock, TypeOK
      <3> QED BY <2>1, <3>1 DEF Exclusive
    <2>3. CASE LockTimeout(r) \/ Seek(r) \/ Over(r)
      <3>1. locked' = locked /\ (pc'[r] \in Holding => pc[r] \in Holding)
        BY <2>3 DEF LockTimeout, Seek, Over, Goto, TypeOK, file
      <3> QED BY <2>1, <3>1 DEF Exclusive
    <2>4. CASE Tell(r)
      <3>1. pc[r] \in Holding /\ pc'[r] \notin Holding
        BY <2>4 DEF Tell, Goto, TypeOK
      <3> QED BY <2>1, <3>1 DEF Exclusive
    <2> QED BY <2>2, <2>3, <2>4
  <1>4. Placed'
    <2>1. ASSUME NEW q \in Readers PROVE Had(q)' = Had(q) /\ result'[q] = result[q]
      BY <1>1
    <2>2. ASSUME NEW q \in Readers \ {r}
          PROVE  /\ pc'[q] = pc[q] /\ cursor'[q] = cursor[q]
                 /\ pc[q] \in {"read", "tell"} => pos' = pos
      BY DEF Exclusive, Lock, LockTimeout, Seek, Tell, Over, Goto, TypeOK, file
    <2>3. /\ pc'[r] # "read" \/ (pos' = cursor[r] /\ pc[r] = "seek")
          /\ pc'[r] # "tell"
          /\ pc'[r] = "check" => pc[r] = "tell" /\ cursor'[r] = pos
          /\ pc'[r] # "check" => cursor'[r] = cursor[r] /\ (pc[r] # "check" \/ result[r] = << >>)
      BY DEF Lock, LockTimeout, Seek, Tell, Over, Goto, TypeOK
    <2>4. ASSUME NEW q \in Readers
          PROVE  /\ (Had(q) <= written)'
                 /\ (pc[q] # "check" => cursor[q] = Had(q))'
                 /\ (pc[q] = "read" => pos = cursor[q])'
                 /\ (pc[q] = "tell" => pos = cursor[q] + Len(result[q]))'
                 /\ (pc[q] = "check" => cursor[q] = Had(q) + Len(result[q]))'
                 /\ (pc[q] \in {"tell", "check"} =>
                      /\ Had(q) + Len(result[q]) <= written
                      /\ \A i \in DOMAIN result[q] : result[q][i] = Had(q) + i)'
      <3>1. PICK h : h = Had(q) /\ h = Had(q)'
        BY <2>1
      <3>2. h <= written' /\ h \in Nat
        BY <1>1, <3>1, Lengths DEF Placed, generator
      <3>3. CASE q # r
        <4>1. /\ pc[q] # "check" => cursor[q] = h
              /\ pc[q] = "read" => pos = cursor[q]
              /\ pc[q] = "tell" => pos = cursor[q] + Len(result[q])
              /\ pc[q] = "check" => cursor[q] = h + Len(result[q])
              /\ pc[q] \in {"tell", "check"} =>
                   /\ h + Len(result[q]) <= written
                   /\ \A i \in DOMAIN result[q] : result[q][i] = h + i
          <5>1. /\ pc[q] # "check" => cursor[q] = Had(q)
                /\ pc[q] = "read" => pos = cursor[q]
                /\ pc[q] = "tell" => pos = cursor[q] + Len(result[q])
                /\ pc[q] = "check" => cursor[q] = Had(q) + Len(result[q])
                /\ pc[q] \in {"tell", "check"} =>
                     /\ Had(q) + Len(result[q]) <= written
                     /\ \A i \in DOMAIN result[q] : result[q][i] = Had(q) + i
            BY Zenon DEF Placed
          <5> QED BY ONLY <3>1, <5>1
        <4> QED BY ONLY <1>1, <2>1, <2>2, <3>1, <3>2, <3>3, <4>1 DEF generator
      <3>4. CASE q = r
        <4>1. pc'[r] = "read" => cursor[r] = h /\ cursor'[r] = h /\ pos' = h
          BY <2>3, <3>1, <3>4 DEF Placed
        <4>2. pc'[r] = "check" => /\ cursor'[r] = h + Len(result[r])
                                  /\ h + Len(result[r]) <= written
                                  /\ \A i \in DOMAIN result[r] : result[r][i] = h + i
          BY <2>3, <3>1, <3>4 DEF Placed
        <4>3. pc'[r] # "check" => cursor'[r] = h
          <5>1. ASSUME pc[r] = "check", result[r] = << >> PROVE cursor[r] = h
            <6>1. Len(result[r]) = 0
              BY <5>1
            <6>2. cursor[r] = h + Len(result[r])
              BY <3>1, <3>4, <5>1 DEF Placed
            <6> QED BY <3>2, <6>1, <6>2
          <5>2. pc[r] # "check" => cursor[r] = h
            BY <3>1, <3>4 DEF Placed
          <5> QED BY <2>3, <5>1, <5>2
        <4> QED BY ONLY <1>1, <2>1, <2>3, <3>1, <3>2, <3>4, <4>1, <4>2, <4>3 DEF generator
      <3> QED BY <3>3, <3>4
    <2> QED BY ONLY <2>4 DEF Placed
  <1>5. ReadsTheFile'
    BY <1>1 DEF ReadsTheFile
  <1>6. Quiet'
    <2>1. stop' = stop /\ process' = process /\ written' = written
      BY <1>1 DEF generator
    <2>2. \A q \in Readers \ {r} : pc'[q] = pc[q] /\ stopBefore'[q] = stopBefore[q]
      BY DEF Lock, LockTimeout, Seek, Tell, Over, Goto, TypeOK
    <2>3. /\ stopBefore'[r] \in {stop, stopBefore[r]}
          /\ pc'[r] = "over" => pc[r] = "check" /\ result[r] = << >> /\ stopBefore'[r] = stopBefore[r]
          /\ pc'[r] = "check" => pc[r] = "tell" /\ stopBefore'[r] = stopBefore[r]
          /\ pc'[r] # "tell"
      BY DEF Lock, LockTimeout, Seek, Tell, Over, Goto, TypeOK
    <2>4. \A q \in Readers : Had(q)' = Had(q) /\ result'[q] = result[q]
      BY <1>1
    <2> QED BY ONLY <2>1, <2>2, <2>3, <2>4, Quiet, r \in Readers DEF Quiet
  <1> QED BY <1>2, <1>3, <1>4, <1>5, <1>6

LEMMA ReadStep ==
    ASSUME IInv, NEW r \in Readers, Read(r)
    PROVE  IInv'
  <1> USE DEF IInv
  <1>1. /\ UNCHANGED <<generator, locked, cursor, buffer, parsed, idle, stopBefore>>
        /\ pc[r] = "read" /\ pc' = [pc EXCEPT ![r] = "tell"]
    BY DEF Read, Goto
  <1>2. PICK n \in Nat :
          /\ n <= written - Had(r)
          /\ n = 0 => Had(r) = written
          /\ pos' = Had(r) + n
          /\ result' \in [Readers -> Seq(Chars)]
          /\ Len(result'[r]) = n
          /\ \A i \in DOMAIN result'[r] : result'[r][i] = Had(r) + i
          /\ \A q \in Readers \ {r} : result'[q] = result[q]
    BY ReadEffect
  <1>3. PICK h \in Nat, w \in Nat : h = Had(r) /\ w = written /\ w <= Size
    BY Lengths, ReaderAssumption DEF TypeOK, ReaderAssumption
  <1>4. h + n <= w /\ pos' = h + n
    <2>1. n <= w - h /\ pos' = h + n
      BY <1>2, <1>3
    <2> QED BY ONLY <2>1, n \in Nat, h \in Nat, w \in Nat
  <1>5. TypeOK'
    <2>1. pos' \in 0 .. Size
      <3>1. h + n <= w /\ w <= Size /\ Size \in Nat /\ pos' = h + n
        BY <1>3, <1>4, ReaderAssumption DEF ReaderAssumption
      <3> QED BY ONLY <3>1, n \in Nat, h \in Nat, w \in Nat
    <2> QED BY <1>1, <1>2, <2>1 DEF TypeOK, generator
  <1>6. Exclusive'
    BY <1>1 DEF Exclusive, TypeOK
  <1>7. \A q \in Readers : Had(q)' = Had(q)
    BY <1>1
  <1>8. Placed'
    <2>1. ASSUME NEW q \in Readers
          PROVE  /\ (Had(q) <= written)'
                 /\ (pc[q] # "check" => cursor[q] = Had(q))'
                 /\ (pc[q] = "read" => pos = cursor[q])'
                 /\ (pc[q] = "tell" => pos = cursor[q] + Len(result[q]))'
                 /\ (pc[q] = "check" => cursor[q] = Had(q) + Len(result[q]))'
                 /\ (pc[q] \in {"tell", "check"} =>
                      /\ Had(q) + Len(result[q]) <= written
                      /\ \A i \in DOMAIN result[q] : result[q][i] = Had(q) + i)'
      <3>1. CASE q # r
        <4>1. pc'[q] = pc[q] /\ pc[q] \notin {"read", "tell"} /\ cursor'[q] = cursor[q] /\ result'[q] = result[q] /\ written' = written
          BY <1>1, <1>2, <3>1 DEF Exclusive, TypeOK, generator
        <4>2. PICK g : g = Had(q) /\ g = Had(q)'
          BY <1>7
        <4>3. /\ g <= written
              /\ pc[q] # "check" => cursor[q] = g
              /\ pc[q] = "check" => cursor[q] = g + Len(result[q])
              /\ pc[q] = "check" =>
                   /\ g + Len(result[q]) <= written
                   /\ \A i \in DOMAIN result[q] : result[q][i] = g + i
          <5>1. /\ Had(q) <= written
                /\ pc[q] # "check" => cursor[q] = Had(q)
                /\ pc[q] = "check" => cursor[q] = Had(q) + Len(result[q])
                /\ pc[q] = "check" =>
                     /\ Had(q) + Len(result[q]) <= written
                     /\ \A i \in DOMAIN result[q] : result[q][i] = Had(q) + i
            BY Zenon DEF Placed
          <5> QED BY ONLY <4>2, <5>1
        <4> QED BY ONLY <4>1, <4>2, <4>3
      <3>2. CASE q = r
        <4>1. pc'[r] = "tell" /\ cursor'[r] = h /\ pos' = h + n /\ written' = w /\ Had(r)' = h
          BY <1>1, <1>3, <1>4, <1>7 DEF Placed, TypeOK, generator
        <4>2. /\ Len(result'[r]) = n
              /\ \A i \in DOMAIN result'[r] : result'[r][i] = h + i
          BY <1>2, <1>3
        <4>3. h <= w
          BY <1>3 DEF Placed
        <4> QED BY <1>4, <3>2, <4>1, <4>2, <4>3
      <3> QED BY <3>1, <3>2
    <2> QED BY ONLY <2>1 DEF Placed
  <1>9. ReadsTheFile'
    BY <1>1 DEF ReadsTheFile
  <1>10. Quiet'
    <2>1. result'[r] = << >> => Had(r) = written
      <3>1. result'[r] = << >> => Len(result'[r]) = 0
        OBVIOUS
      <3> QED BY <1>2, <3>1
    <2>2. stop' = stop /\ process' = process /\ written' = written /\ stopBefore' = stopBefore
      BY <1>1 DEF generator
    <2>3. pc'[r] = "tell" /\ \A q \in Readers \ {r} : pc'[q] = pc[q] /\ result'[q] = result[q]
      BY <1>1, <1>2 DEF TypeOK
    <2> QED BY ONLY <1>7, <2>1, <2>2, <2>3, Quiet, r \in Readers DEF Quiet
  <1> QED BY <1>5, <1>6, <1>8, <1>9, <1>10

LEMMA ConsumeStep ==
    ASSUME IInv, NEW r \in Readers, Buffered(r) \/ Parsed(r)
    PROVE  IInv'
  <1> USE DEF IInv
  <1>1. Consumed(r)
    BY BufferedEffect, ParsedEffect
  <1>2. UNCHANGED <<generator, file, cursor, result, stopBefore>> /\ pc[r] = "check"
    BY DEF Buffered, Parsed
  <1>3. /\ pc' \in [Readers -> Places]
        /\ idle' \in [Readers -> 0 .. MaxIdle]
        /\ pc'[r] \in {"lock", "gaveUp"}
        /\ \A q \in Readers \ {r} : pc'[q] = pc[q]
    <2>1. CASE Nothing(r)
      BY <2>1, NothingEffect
    <2>2. CASE idle' = [idle EXCEPT ![r] = 0] /\ Goto(r, "lock")
      BY <2>2, ReaderAssumption DEF ReaderAssumption, Goto, TypeOK, Places, Stopped
    <2> QED BY <2>1, <2>2 DEF Buffered, Parsed
  <1>4. TypeOK'
    BY <1>1, <1>2, <1>3 DEF TypeOK, Consumed, generator, file, Places
  <1>5. Exclusive'
    BY <1>2, <1>3 DEF Exclusive, file
  <1>6. Had(r)' = cursor[r] /\ Had(r)' <= written
    <2>1. Had(r)' = Had(r) + Len(result[r])
      BY <1>1 DEF Consumed
    <2>2. cursor[r] = Had(r) + Len(result[r]) /\ Had(r) + Len(result[r]) <= written
      BY <1>2 DEF Placed
    <2> QED BY <2>1, <2>2
  <1>7. \A q \in Readers \ {r} : Had(q)' = Had(q)
    BY <1>1 DEF Consumed
  <1>8. written' = written /\ cursor' = cursor /\ result' = result /\ pos' = pos /\ stop' = stop /\ process' = process /\ stopBefore' = stopBefore
    BY <1>2 DEF generator, file
  <1>9. Placed'
    <2>1. ASSUME NEW q \in Readers
          PROVE  /\ (Had(q) <= written)'
                 /\ (pc[q] # "check" => cursor[q] = Had(q))'
                 /\ (pc[q] = "read" => pos = cursor[q])'
                 /\ (pc[q] = "tell" => pos = cursor[q] + Len(result[q]))'
                 /\ (pc[q] = "check" => cursor[q] = Had(q) + Len(result[q]))'
                 /\ (pc[q] \in {"tell", "check"} =>
                      /\ Had(q) + Len(result[q]) <= written
                      /\ \A i \in DOMAIN result[q] : result[q][i] = Had(q) + i)'
      <3>1. CASE q = r
        BY ONLY <1>3, <1>6, <1>8, <3>1
      <3>2. CASE q # r
        <4>1. Had(q)' = Had(q) /\ pc'[q] = pc[q]
          BY <1>3, <1>7, <3>2
        <4>2. Placed
          OBVIOUS
        <4> QED BY ONLY <1>8, <4>1, <4>2, q \in Readers DEF Placed
      <3> QED BY <3>1, <3>2
    <2> QED BY ONLY <2>1 DEF Placed
  <1>10. ReadsTheFile'
    <2>1. \A q \in Readers \ {r} : parsed'[q] = parsed[q] /\ buffer'[q] = buffer[q]
      BY <1>1 DEF Consumed
    <2>2. /\ \A i \in DOMAIN (parsed'[r] \o buffer'[r]) : (parsed'[r] \o buffer'[r])[i] = i
          /\ parsed'[r] # << >> => Len(parsed'[r]) \in Newlines
          /\ Ends(buffer'[r]) = {}
      BY <1>1 DEF Consumed
    <2> QED BY <2>1, <2>2 DEF ReadsTheFile, Ends
  <1>11. Quiet'
    BY ONLY <1>3, <1>7, <1>8, Quiet, r \in Readers DEF Quiet
  <1> QED BY <1>4, <1>5, <1>9, <1>10, <1>11

-----------------------------------------------------------------------------
(***************************************************************************)
(* The theorems                                                            *)
(***************************************************************************)

\* The invariant is inductive: it holds in every state of every instance.
THEOREM Inductive == PhoutSpec => []IInv
  <1>1. ASSUME IInv, [PhoutNext]_phoutVars PROVE IInv'
    <2>1. CASE Generator \/ Plugin
      BY <1>1, <2>1, OutsideStep
    <2>2. CASE \E r \in Readers : Reader(r)
      <3>1. PICK r \in Readers : Reader(r)
        BY <2>2
      <3>2. CASE Lock(r) \/ LockTimeout(r) \/ Seek(r) \/ Tell(r) \/ Over(r)
        BY <1>1, <3>2, MoveStep
      <3>3. CASE Read(r)
        BY <1>1, <3>3, ReadStep
      <3>4. CASE Buffered(r) \/ Parsed(r)
        BY <1>1, <3>4, ConsumeStep
      <3> QED BY <3>1, <3>2, <3>3, <3>4 DEF Reader
    <2>3. CASE UNCHANGED phoutVars
      <3>1. IInv
        BY <1>1
      <3>2. UNCHANGED <<written, process, worker, stop, locked, pos, pc, cursor, result, buffer, parsed, idle, stopBefore>>
        BY <2>3 DEF phoutVars, generator, file, readers
      <3> QED BY ONLY <3>1, <3>2 DEF IInv, TypeOK, Exclusive, Placed, ReadsTheFile, Quiet, Had, Ends
    <2> QED BY <1>1, <2>1, <2>2, <2>3 DEF PhoutNext
  <1> QED BY <1>1, InitIInv, PTL DEF PhoutSpec

\* Every variable keeps its type; no poller waits more often than it may.
THEOREM TypeCorrect == PhoutSpec => []TypeOK
  BY Inductive, PTL DEF IInv

\* Whatever the readers and the generator do at the same time, each reader gives
\* its parser the lines of the file from its beginning, whole and each once.
THEOREM ReadsInOrder == PhoutSpec => []ReadsTheFile
  BY Inductive, PTL DEF IInv

\* A reader whose last read began after the stop event of a plugin that waits
\* for its process leaves no complete line of the file behind.
THEOREM ReadsAll == PhoutSpec => []QuietEndReadsAll
  <1>1. IInv => QuietEndReadsAll
    <2>1. SUFFICES ASSUME IInv, NEW r \in Readers, Waits, pc[r] = "over", stopBefore[r],
                          NEW n \in Newlines, n \in 1 .. written
                   PROVE  n <= Len(parsed[r])
      BY DEF QuietEndReadsAll, AllParsed
    <2>2. Had(r) = written
      BY <2>1 DEF IInv, Quiet
    <2>3. PICK p \in Seq(Chars), b \in Seq(Chars) : p = parsed[r] /\ b = buffer[r]
      BY <2>1 DEF IInv, TypeOK
    <2>4. Len(p) \in Nat /\ Len(b) \in Nat /\ Len(p) + Len(b) = written
      BY <2>2, <2>3, LenProperties
    <2>5. SUFFICES ASSUME n > Len(p) PROVE FALSE
      BY <2>1, <2>3, <2>4
    <2>6. n - Len(p) \in 1 .. Len(b) /\ n \in 1 .. Len(p) + Len(b) /\ ~(n <= Len(p))
      BY <2>1, <2>4, <2>5
    <2>7. (p \o b)[n] = b[n - Len(p)]
      BY <2>6, ConcatProperties
    <2>8. (p \o b)[n] = n
      <3>1. n \in DOMAIN (p \o b)
        BY <2>6, ConcatProperties, LenProperties
      <3> QED BY <2>1, <2>3, <3>1 DEF IInv, ReadsTheFile
    <2>9. n - Len(p) \in Ends(b)
      BY <2>1, <2>6, <2>7, <2>8, LenProperties DEF Ends
    <2> QED BY <2>1, <2>3, <2>9 DEF IInv, ReadsTheFile
  <1> QED BY <1>1, Inductive, PTL

\* A reader gives the lines of its file, no others, and all after an event that
\* came in time (FileMultiReader, PhantomReader).
THEOREM ReadsFileWhole == PhoutSpec => []ReadsWhole
  <1>1. ReadsWhole <=> ReadsTheFile /\ QuietEndReadsAll
    BY DEF ReadsWhole
  <1> QED BY <1>1, ReadsInOrder, ReadsAll, PTL

-----------------------------------------------------------------------------
(***************************************************************************)
(* HttpBytesStreamWrapper, for every set of files, every size of a chunk   *)
(* and every size that is asked for.                                       *)
(*                                                                         *)
(* What is buffered and what is left of the stream are together the rest   *)
(* of the file from the position (StreamInv): a step of the iterator moves *)
(* bytes from the one to the other, a read takes them from the front.  The *)
(* end of a line is then the same in the buffer and in the rest of the     *)
(* file, because the buffer holds one or the stream is over.               *)
(***************************************************************************)

StreamSet ==
    [text : Seq(Bytes), buffer : Seq(Bytes), pointer : Nat, left : Seq(Bytes), open : BOOLEAN,
     pos : Nat, got : Seq(Bytes), wanted : Seq(Bytes)]

\* What is to come, of the wrapper and of the file.
ToCome(s) == s.buffer \o s.left
RestOfFile(s) == SubSeq(s.text, s.pos + 1, Len(s.text))

AtFile(s) == s.pointer = s.pos /\ s.pos <= Len(s.text) /\ ToCome(s) = RestOfFile(s)

StreamInv == hs \in StreamSet /\ (hs.open => AtFile(hs) /\ hs.got = hs.wanted)

\* What a step of the iterator does not touch.
Untouched(s, t) ==
    /\ t.text = s.text /\ t.pointer = s.pointer /\ t.open = s.open
    /\ t.pos = s.pos /\ t.got = s.got /\ t.wanted = s.wanted

\* A sequence is its first n elements and the others.
LEMMA Halved ==
    ASSUME NEW S, NEW s \in Seq(S), NEW n \in 0 .. Len(s)
    PROVE  /\ SubSeq(s, 1, n) \in Seq(S) /\ SubSeq(s, n + 1, Len(s)) \in Seq(S)
           /\ Len(SubSeq(s, 1, n)) = n /\ Len(SubSeq(s, n + 1, Len(s))) = Len(s) - n
           /\ \A i \in 1 .. n : SubSeq(s, 1, n)[i] = s[i]
           /\ \A i \in 1 .. Len(s) - n : SubSeq(s, n + 1, Len(s))[i] = s[n + i]
           /\ SubSeq(s, 1, n) \o SubSeq(s, n + 1, Len(s)) = s
  <1>1. Len(s) \in Nat /\ \A i \in 1 .. Len(s) : s[i] \in S
    BY LenProperties, ElementOfSeq
  <1>2. /\ SubSeq(s, 1, n) \in Seq(S) /\ Len(SubSeq(s, 1, n)) = n
        /\ \A i \in 1 .. n : SubSeq(s, 1, n)[i] = s[i]
    <2>1. 1 \in Int /\ n \in Int /\ \A i \in 1 .. n : s[i] \in S
      BY <1>1
    <2>2. /\ SubSeq(s, 1, n) \in Seq(S) /\ Len(SubSeq(s, 1, n)) = IF 1 <= n THEN n - 1 + 1 ELSE 0
          /\ \A i \in 1 .. n - 1 + 1 : SubSeq(s, 1, n)[i] = s[1 + i - 1]
      BY <2>1, SubSeqProperties
    <2> QED BY <1>1, <2>2
  <1>3. /\ SubSeq(s, n + 1, Len(s)) \in Seq(S) /\ Len(SubSeq(s, n + 1, Len(s))) = Len(s) - n
        /\ \A i \in 1 .. Len(s) - n : SubSeq(s, n + 1, Len(s))[i] = s[n + i]
    <2>1. n + 1 \in Int /\ Len(s) \in Int /\ \A i \in n + 1 .. Len(s) : s[i] \in S
      BY <1>1
    <2>2. /\ SubSeq(s, n + 1, Len(s)) \in Seq(S)
          /\ Len(SubSeq(s, n + 1, Len(s))) = IF n + 1 <= Len(s) THEN Len(s) - (n + 1) + 1 ELSE 0
          /\ \A i \in 1 .. Len(s) - (n + 1) + 1 : SubSeq(s, n + 1, Len(s))[i] = s[n + 1 + i - 1]
      BY <2>1, SubSeqProperties
    <2> QED BY <1>1, <2>2
  <1>4. SubSeq(s, 1, n) \o SubSeq(s, n + 1, Len(s)) = s
    <2>1. 1 \in 1 .. Len(s) + 1 /\ n \in 1 - 1 .. Len(s) /\ Len(s) \in n .. Len(s)
      BY <1>1
    <2> QED BY <2>1, ConcatAdjacentSubSeq, SubSeqFull
  <1> QED BY <1>2, <1>3, <1>4

\* The steps of the iterator: nothing is lost, and as many steps as there are bytes
\* empty the stream.
LEMMA EnhancedIs ==
    ASSUME NEW s \in StreamSet, NEW n \in Nat
    PROVE  /\ Enhanced(s, n) \in StreamSet
           /\ ToCome(Enhanced(s, n)) = ToCome(s)
           /\ Untouched(s, Enhanced(s, n))
           /\ n >= Len(s.left) => Enhanced(s, n).left = << >>
  <1>1. s.left \in Seq(Bytes) /\ s.buffer \in Seq(Bytes) /\ Len(s.left) \in Nat
    <2>1. s.left \in Seq(Bytes) /\ s.buffer \in Seq(Bytes)
      BY DEF StreamSet
    <2> QED BY <2>1, LenProperties
  <1> DEFINE size == Min({n * ChunkSize, Len(s.left)})
             now == SubSeq(s.left, 1, size)
             later == SubSeq(s.left, size + 1, Len(s.left))
  <1>2. size \in 0 .. Len(s.left) /\ (n >= Len(s.left) => size = Len(s.left))
    <2>1. PICK c \in Nat : c = ChunkSize /\ c > 0
      BY StreamAssumption DEF StreamAssumption
    <2>2. n * c \in Nat /\ n * c >= n
      BY <2>1
    <2>3. PICK m \in Nat : m = n * c
      BY <2>2
    <2>4. {m, Len(s.left)} \subseteq Nat /\ {m, Len(s.left)} # {}
      BY <1>1
    <2>5. Min({m, Len(s.left)}) \in {m, Len(s.left)}
          /\ \A y \in {m, Len(s.left)} : Min({m, Len(s.left)}) <= y
      BY <2>4, MinIs
    <2>6. size = Min({m, Len(s.left)})
      BY <2>1, <2>3
    <2> QED BY <1>1, <2>2, <2>3, <2>5, <2>6
  <1> HIDE DEF size
  <1>3. /\ now \in Seq(Bytes) /\ later \in Seq(Bytes) /\ now \o later = s.left
        /\ Len(later) = Len(s.left) - size
    <2>1. PICK a \in Seq(Bytes) : a = s.left
      BY <1>1
    <2>2. size \in 0 .. Len(a)
      BY <1>2, <2>1
    <2>3. /\ SubSeq(a, 1, size) \in Seq(Bytes) /\ SubSeq(a, size + 1, Len(a)) \in Seq(Bytes)
          /\ Len(SubSeq(a, size + 1, Len(a))) = Len(a) - size
          /\ SubSeq(a, 1, size) \o SubSeq(a, size + 1, Len(a)) = a
      BY <2>2, Halved
    <2> QED BY <2>1, <2>3
  <1>4. Enhanced(s, n) = [s EXCEPT !.buffer = s.buffer \o now, !.left = later]
    BY DEF Enhanced, size
  <1> HIDE DEF now, later
  <1>5. s.buffer \o now \in Seq(Bytes) /\ (s.buffer \o now) \o later = s.buffer \o s.left
    <2>1. s.buffer \o now \in Seq(Bytes)
      BY <1>1, <1>3, ConcatProperties
    <2>2. (s.buffer \o now) \o later = s.buffer \o (now \o later)
      <3>1. PICK a, b, c \in Seq(Bytes) : a = s.buffer /\ b = now /\ c = later
        BY <1>1, <1>3
      <3>2. (a \o b) \o c = a \o (b \o c)
        OBVIOUS
      <3> QED BY <3>1, <3>2
    <2> QED BY <1>3, <2>1, <2>2
  <1>6. n >= Len(s.left) => later = << >>
    <2>1. n >= Len(s.left) => Len(later) = 0
      BY <1>1, <1>2, <1>3
    <2> QED BY <1>3, <2>1, EmptySeq
  <1>7. Enhanced(s, n).buffer = s.buffer \o now /\ Enhanced(s, n).left = later
    BY <1>4 DEF StreamSet
  <1>8. Enhanced(s, n) \in StreamSet /\ Untouched(s, Enhanced(s, n))
    BY <1>3, <1>4, <1>5 DEF StreamSet, Untouched
  <1> QED BY <1>5, <1>6, <1>7, <1>8 DEF ToCome

\* The steps end where they are enough, or with the stream.
LEMMA UntilIs ==
    ASSUME NEW s \in StreamSet, NEW enough, enough \subseteq 0 .. Len(s.left)
    PROVE  \E k \in Nat : /\ EnhancedUntil(s, enough) = Enhanced(s, k)
                          /\ k \in enough \/ Enhanced(s, k).left = << >>
  <1>1. Len(s.left) \in Nat
    <2>1. s.left \in Seq(Bytes)
      BY DEF StreamSet
    <2> QED BY <2>1, LenProperties
  <1>2. PICK k \in enough \cup {Len(s.left)} : k = Min(enough \cup {Len(s.left)})
    <2>1. 0 .. Len(s.left) \subseteq Nat /\ Len(s.left) \in Nat
      BY <1>1
    <2>2. enough \cup {Len(s.left)} \subseteq Nat /\ enough \cup {Len(s.left)} # {}
      BY <2>1
    <2> QED BY <2>2, MinIs
  <1>3. k \in Nat
    <2>1. 0 .. Len(s.left) \subseteq Nat
      BY <1>1
    <2> QED BY <1>1, <1>2, <2>1
  <1>4. k \notin enough => Enhanced(s, k).left = << >>
    BY <1>1, <1>2, <1>3, EnhancedIs
  <1> QED BY <1>2, <1>3, <1>4 DEF EnhancedUntil

\* Where the first line of a sequence with an end of a line ends.
LEMMA FirstLine ==
    ASSUME NEW a \in Seq(Bytes), NL \in ToSet(a)
    PROVE  /\ LineEnd(a) \in 1 .. Len(a) /\ a[LineEnd(a)] = NL
           /\ \A i \in 1 .. Len(a) : a[i] = NL => LineEnd(a) <= i
  <1> DEFINE ends == {i \in 1 .. Len(a) : a[i] = NL}
  <1>1. Len(a) \in Nat /\ DOMAIN a = 1 .. Len(a)
    BY LenProperties
  <1>2. ends # {} /\ ends \subseteq Nat
    BY <1>1 DEF ToSet
  <1>3. LineEnd(a) = Min(ends)
    <2>1. SelectInSeq(a, LAMBDA b : b = NL) = Min(ends)
      BY <1>2 DEF SelectInSeq
    <2> QED BY <2>1 DEF LineEnd
  <1>4. Min(ends) \in ends /\ \A i \in ends : Min(ends) <= i
    <2> HIDE DEF ends
    <2> QED BY <1>2, MinIs
  <1> QED BY <1>3, <1>4

\* A buffer with an end of a line, or before the end of the stream, shows where the
\* line ends.
LEMMA LineIs ==
    ASSUME NEW a \in Seq(Bytes), NEW b \in Seq(Bytes), NL \in ToSet(a) \/ b = << >>
    PROVE  LineEnd(a \o b) = LineEnd(a) /\ LineEnd(a) \in 0 .. Len(a)
  <1>1. /\ Len(a) \in Nat /\ DOMAIN a = 1 .. Len(a) /\ Len(b) \in Nat
        /\ a \o b \in Seq(Bytes) /\ Len(a \o b) = Len(a) + Len(b) /\ DOMAIN (a \o b) = 1 .. Len(a \o b)
    BY LenProperties, ConcatProperties
  <1>2. CASE NL \in ToSet(a)
    <2>1. \A i \in 1 .. Len(a) : (a \o b)[i] = a[i]
      BY <1>1, ConcatProperties
    <2>2. /\ LineEnd(a) \in 1 .. Len(a) /\ a[LineEnd(a)] = NL
          /\ \A i \in 1 .. Len(a) : a[i] = NL => LineEnd(a) <= i
      BY <1>2, FirstLine
    <2>3. NL \in ToSet(a \o b)
      <3>1. LineEnd(a) \in DOMAIN (a \o b) /\ (a \o b)[LineEnd(a)] = NL
        BY <1>1, <2>1, <2>2
      <3> QED BY <3>1 DEF ToSet
    <2>4. /\ LineEnd(a \o b) \in 1 .. Len(a \o b) /\ (a \o b)[LineEnd(a \o b)] = NL
          /\ \A i \in 1 .. Len(a \o b) : (a \o b)[i] = NL => LineEnd(a \o b) <= i
      BY <1>1, <2>3, FirstLine
    <2>5. LineEnd(a \o b) <= LineEnd(a)
      BY <1>1, <2>1, <2>2, <2>4
    <2>6. a[LineEnd(a \o b)] = NL /\ LineEnd(a \o b) \in 1 .. Len(a)
      BY <1>1, <2>1, <2>2, <2>4, <2>5
    <2> QED BY <1>1, <2>2, <2>5, <2>6
  <1>3. CASE NL \notin ToSet(a)
    <2>1. a \o b = a
      BY <1>3, ConcatEmptySeq
    <2>2. LineEnd(a) = Len(a)
      BY <1>3 DEF LineEnd
    <2> QED BY <1>1, <2>1, <2>2
  <1> QED BY <1>2, <1>3

\* a and b are together what a text has from a place on; n elements are taken from the
\* front of a.
Splits(text, at, a, b) ==
    /\ text \in Seq(Bytes) /\ a \in Seq(Bytes) /\ b \in Seq(Bytes) /\ at \in 0 .. Len(text)
    /\ a \o b = SubSeq(text, at + 1, Len(text))

TakesFront(text, at, a, b, n) ==
    /\ Len(text) - at = Len(a) + Len(b)
    /\ SubSeq(a, 1, n) = SubSeq(text, at + 1, at + n)
    /\ SubSeq(a, n + 1, Len(a)) \o b = SubSeq(text, at + n + 1, Len(text))

LEMMA FrontIs ==
    ASSUME NEW text, NEW at, NEW a, NEW b, Splits(text, at, a, b), NEW n \in 0 .. Len(a)
    PROVE  TakesFront(text, at, a, b, n)
  <1>0. /\ text \in Seq(Bytes) /\ a \in Seq(Bytes) /\ b \in Seq(Bytes) /\ at \in 0 .. Len(text)
        /\ a \o b = SubSeq(text, at + 1, Len(text))
    BY DEF Splits
  <1>1. PICK rest : rest = a \o b
    OBVIOUS
  <1>2. Len(text) \in Nat /\ Len(a) \in Nat /\ Len(b) \in Nat
    BY <1>0, LenProperties
  <1>3. /\ rest \in Seq(Bytes) /\ Len(rest) = Len(a) + Len(b)
        /\ \A i \in 1 .. Len(a) + Len(b) : rest[i] = IF i <= Len(a) THEN a[i] ELSE b[i - Len(a)]
    BY <1>0, <1>1, ConcatProperties
  <1>4. /\ Len(rest) = Len(text) - at
        /\ \A i \in 1 .. Len(text) - at : rest[i] = text[at + i]
    <2>1. rest = SubSeq(text, at + 1, Len(text))
      BY <1>0, <1>1
    <2> QED BY <1>0, <2>1, Halved
  <1>5. Len(text) - at = Len(a) + Len(b)
    BY <1>3, <1>4
  <1>6. SubSeq(a, 1, n) = SubSeq(text, at + 1, at + n)
    <2>1. PICK got : got = SubSeq(a, 1, n)
      OBVIOUS
    <2>2. got \in Seq(Bytes) /\ Len(got) = n /\ \A i \in 1 .. n : got[i] = a[i]
      BY <1>0, <2>1, Halved
    <2>3. PICK wanted : wanted = SubSeq(text, at + 1, at + n)
      OBVIOUS
    <2>4. wanted \in Seq(Bytes) /\ Len(wanted) = n /\ \A i \in 1 .. n : wanted[i] = text[at + i]
      <3>1. PICK first, last \in Int : first = at + 1 /\ last = at + n
        BY <1>0, <1>2
      <3>2. /\ wanted \in Seq(Bytes)
            /\ Len(wanted) = IF first <= last THEN last - first + 1 ELSE 0
            /\ \A i \in 1 .. last - first + 1 : wanted[i] = text[first + i - 1]
        <4>1. wanted = SubSeq(text, first, last)
          BY <2>3, <3>1
        <4>2. \A i \in first .. last : text[i] \in Bytes
          BY <1>0, <1>2, <1>5, <3>1, ElementOfSeq
        <4> QED BY <4>1, <4>2, SubSeqProperties
      <3>3. n \in Nat /\ at \in Nat
        BY <1>0, <1>2
      <3> QED BY <3>1, <3>2, <3>3
    <2>5. \A i \in 1 .. n : got[i] = wanted[i]
      <3>1. ASSUME NEW i \in 1 .. n PROVE rest[i] = a[i] /\ rest[i] = text[at + i]
        BY <1>0, <1>2, <1>3, <1>4, <1>5
      <3> QED BY <2>2, <2>4, <3>1
    <2>6. got = wanted
      BY <2>2, <2>4, <2>5, SeqEqual
    <2> QED BY <2>1, <2>3, <2>6
  <1>7. SubSeq(a, n + 1, Len(a)) \o b = SubSeq(text, at + n + 1, Len(text))
    <2>1. PICK kept : kept = SubSeq(a, n + 1, Len(a))
      OBVIOUS
    <2>2. kept \in Seq(Bytes) /\ Len(kept) = Len(a) - n /\ \A i \in 1 .. Len(a) - n : kept[i] = a[n + i]
      BY <1>0, <2>1, Halved
    <2>3. PICK later : later = kept \o b
      OBVIOUS
    <2>4. /\ later \in Seq(Bytes) /\ Len(later) = Len(kept) + Len(b)
          /\ \A i \in 1 .. Len(kept) + Len(b) : later[i] = IF i <= Len(kept) THEN kept[i] ELSE b[i - Len(kept)]
      BY <1>0, <2>2, <2>3, ConcatProperties
    <2>5. PICK behind : behind = SubSeq(text, at + n + 1, Len(text))
      OBVIOUS
    <2>6. /\ behind \in Seq(Bytes) /\ Len(behind) = Len(text) - (at + n)
          /\ \A i \in 1 .. Len(text) - (at + n) : behind[i] = text[at + n + i]
      <3>1. at + n \in 0 .. Len(text)
        BY <1>0, <1>2, <1>5
      <3> QED BY <1>0, <2>5, <3>1, Halved
    <2>7. Len(later) = Len(behind)
      <3>1. Len(later) = Len(a) - n + Len(b)
        BY <2>2, <2>4
      <3>2. Len(behind) = Len(text) - (at + n)
        BY <2>6
      <3>3. n \in Nat /\ at \in Nat
        BY <1>0, <1>2
      <3> QED BY <1>2, <1>5, <3>1, <3>2, <3>3
    <2>8. ASSUME NEW i \in 1 .. Len(later) PROVE later[i] = behind[i]
      <3>1. n + i \in 1 .. Len(a) + Len(b) /\ i \in 1 .. Len(kept) + Len(b)
        BY <1>0, <1>2, <2>2, <2>4
      <3>2. later[i] = rest[n + i]
        <4>1. CASE i <= Len(kept)
          BY <1>2, <1>3, <2>2, <2>4, <3>1, <4>1
        <4>2. CASE ~(i <= Len(kept))
          <5>1. later[i] = b[i - Len(kept)]
            BY <2>4, <3>1, <4>2
          <5>2. rest[n + i] = b[n + i - Len(a)] /\ n + i - Len(a) = i - Len(kept)
            BY <1>2, <1>3, <2>2, <3>1, <4>2
          <5> QED BY <5>1, <5>2
        <4> QED BY <4>1, <4>2
      <3>3. rest[n + i] = text[at + (n + i)]
        BY <1>0, <1>4, <1>5, <3>1
      <3>4. at + (n + i) = at + n + i /\ behind[i] = text[at + n + i]
        BY <1>0, <1>2, <2>6, <2>7
      <3> QED BY <3>2, <3>3, <3>4
    <2>9. later = behind
      BY <2>4, <2>6, <2>7, <2>8, SeqEqual
    <2> QED BY <2>1, <2>3, <2>5, <2>9
  <1> QED BY <1>5, <1>6, <1>7 DEF TakesFront

\* One read of the two, for every n that the buffer has the bytes for, or the file.
LEMMA TakenIs ==
    ASSUME NEW s \in StreamSet, AtFile(s), NEW full \in StreamSet, Untouched(s, full),
           ToCome(full) = ToCome(s), NEW n \in 0 .. Len(full.buffer), NEW m \in Nat,
           m = n \/ (m > n /\ n = Len(ToCome(s)))
    PROVE  LET next == InFile(GiveOut(full, n), m)
           IN  next \in StreamSet /\ AtFile(next) /\ next.got = next.wanted /\ next.open = s.open
  <1>1. /\ s.text \in Seq(Bytes) /\ s.pos \in Nat /\ full.buffer \in Seq(Bytes) /\ full.left \in Seq(Bytes)
        /\ s.pointer = s.pos /\ full.pointer = s.pos /\ full.text = s.text /\ full.pos = s.pos /\ full.open = s.open
    BY DEF StreamSet, AtFile, Untouched
  <1>2. PICK text, at, a, b, got, kept : /\ text = s.text /\ at = s.pos /\ a = full.buffer /\ b = full.left
                                         /\ got = SubSeq(a, 1, n) /\ kept = SubSeq(a, n + 1, Len(a))
    OBVIOUS
  <1>3. /\ text \in Seq(Bytes) /\ a \in Seq(Bytes) /\ b \in Seq(Bytes) /\ Len(text) \in Nat /\ Len(a) \in Nat
        /\ Len(b) \in Nat /\ at \in 0 .. Len(text) /\ n \in 0 .. Len(a)
        /\ Len(a \o b) = Len(a) + Len(b)
    <2>1. at <= Len(text)
      BY <1>2 DEF AtFile
    <2> QED BY <1>1, <1>2, <2>1, LenProperties, ConcatProperties
  <1>4. a \o b = SubSeq(text, at + 1, Len(text)) /\ ToCome(s) = a \o b
    BY <1>2 DEF AtFile, ToCome, RestOfFile
  <1>5. /\ Len(text) - at = Len(a) + Len(b)
        /\ got = SubSeq(text, at + 1, at + n)
        /\ kept \o b = SubSeq(text, at + n + 1, Len(text))
    <2>1. Splits(text, at, a, b)
      BY <1>3, <1>4 DEF Splits
    <2>2. TakesFront(text, at, a, b, n)
      BY <1>3, <2>1, FrontIs, Zenon
    <2> QED BY <1>2, <2>2 DEF TakesFront
  <1>6. got \in Seq(Bytes) /\ kept \in Seq(Bytes)
    BY <1>2, <1>3, Halved
  <1>7. PICK there : there = Min({at + m, Len(text)})
    OBVIOUS
  <1>8. there = at + n /\ there \in Nat /\ there <= Len(text)
    <2>1. {at + m, Len(text)} \subseteq Nat /\ {at + m, Len(text)} # {}
      BY <1>3
    <2>2. there \in {at + m, Len(text)} /\ there <= at + m /\ there <= Len(text)
      BY <1>7, <2>1, MinIs
    <2>3. m = n \/ (m > n /\ n = Len(a) + Len(b))
      BY <1>3, <1>4
    <2> QED BY <1>3, <1>5, <2>2, <2>3
  <1>9. PICK given : given = GiveOut(full, n)
    OBVIOUS
  <1>10. /\ given \in StreamSet /\ given.text = text /\ given.pos = at /\ given.pointer = at + n
         /\ given.buffer = kept /\ given.left = b /\ given.got = got /\ given.open = s.open
    <2>1. given = [full EXCEPT !.got = got, !.pointer = at + n, !.buffer = kept]
      BY <1>1, <1>2, <1>9 DEF GiveOut
    <2>2. at + n \in Nat
      BY <1>3
    <2> QED BY <1>1, <1>2, <1>6, <2>1, <2>2 DEF StreamSet
  <1>11. PICK next : next = InFile(given, m)
    OBVIOUS
  <1>12. /\ next \in StreamSet /\ next.text = text /\ next.pos = there /\ next.pointer = at + n
         /\ next.buffer = kept /\ next.left = b /\ next.got = got /\ next.open = s.open
         /\ next.wanted = got
    <2>1. next = [given EXCEPT !.wanted = SubSeq(text, at + 1, there), !.pos = there]
      BY <1>7, <1>10, <1>11 DEF InFile
    <2>2. SubSeq(text, at + 1, there) = got
      BY <1>5, <1>8
    <2> QED BY <1>6, <1>8, <1>10, <2>1, <2>2 DEF StreamSet
  <1>13. AtFile(next)
    <2>1. next.buffer \o next.left = SubSeq(next.text, next.pos + 1, Len(next.text))
      BY <1>5, <1>8, <1>12
    <2>2. next.pointer = next.pos /\ next.pos <= Len(next.text)
      BY <1>8, <1>12
    <2> QED BY <2>1, <2>2 DEF AtFile, ToCome, RestOfFile
  <1> QED BY <1>9, <1>11, <1>12, <1>13

\* What the wrapper is after a read of either kind.
LEMMA LineStep ==
    ASSUME StreamInv, StreamLine
    PROVE  StreamInv'
  <1> DEFINE full == EnhancedUntil(hs, LineAfter(hs))
             n == LineEnd(full.buffer)
  <1>1. hs \in StreamSet /\ hs.open /\ AtFile(hs) /\ hs' = FileLine(GiveOut(full, n))
    BY DEF StreamInv, StreamLine, ReadLine
  <1>2. /\ full \in StreamSet /\ ToCome(full) = ToCome(hs) /\ Untouched(hs, full)
        /\ NL \in ToSet(full.buffer) \/ full.left = << >>
    <2>1. LineAfter(hs) \subseteq 0 .. Len(hs.left)
      BY DEF LineAfter
    <2>2. PICK k \in Nat : full = Enhanced(hs, k) /\ (k \in LineAfter(hs) \/ Enhanced(hs, k).left = << >>)
      BY <1>1, <2>1, UntilIs
    <2> QED BY <1>1, <2>2, EnhancedIs DEF LineAfter
  <1> HIDE DEF full
  <1>3. full.buffer \in Seq(Bytes) /\ full.left \in Seq(Bytes)
    BY <1>2 DEF StreamSet
  <1>4. n = LineEnd(RestOfFile(hs)) /\ n \in 0 .. Len(full.buffer)
    <2>1. LineEnd(full.buffer \o full.left) = LineEnd(full.buffer) /\ LineEnd(full.buffer) \in 0 .. Len(full.buffer)
      BY <1>2, <1>3, LineIs
    <2> QED BY <1>1, <1>2, <2>1 DEF AtFile, ToCome
  <1>5. hs' = InFile(GiveOut(full, n), n)
    <2>1. GiveOut(full, n).text = hs.text /\ GiveOut(full, n).pos = hs.pos
      BY <1>2 DEF GiveOut, StreamSet, Untouched
    <2> QED BY <1>1, <1>4, <2>1 DEF FileLine, RestOfFile
  <1>6. n \in Nat
    BY <1>4
  <1> HIDE DEF n
  <1> QED BY <1>1, <1>2, <1>4, <1>5, <1>6, TakenIs DEF StreamInv

LEMMA ChunkStep ==
    ASSUME StreamInv, StreamRead
    PROVE  StreamInv'
  <1>1. PICK m \in Sizes : hs.open /\ hs' = InFile(ReadBytes(hs, m), m)
    BY DEF StreamRead
  <1> DEFINE full == EnhancedUntil(hs, BytesAfter(hs, m))
             n == Min({m, Len(full.buffer)})
  <1>2. hs \in StreamSet /\ AtFile(hs) /\ hs' = InFile(GiveOut(full, n), m) /\ m \in Nat
    BY <1>1, StreamAssumption DEF StreamInv, ReadBytes, StreamAssumption
  <1>3. /\ full \in StreamSet /\ ToCome(full) = ToCome(hs) /\ Untouched(hs, full)
        /\ Len(full.buffer) >= m \/ full.left = << >>
    <2>1. BytesAfter(hs, m) \subseteq 0 .. Len(hs.left)
      BY DEF BytesAfter
    <2>2. PICK k \in Nat : full = Enhanced(hs, k) /\ (k \in BytesAfter(hs, m) \/ Enhanced(hs, k).left = << >>)
      BY <1>2, <2>1, UntilIs
    <2> QED BY <1>2, <2>2, EnhancedIs DEF BytesAfter
  <1> HIDE DEF full
  <1>4. full.buffer \in Seq(Bytes) /\ full.left \in Seq(Bytes)
    BY <1>3 DEF StreamSet
  <1>5. Len(full.buffer) \in Nat
    BY <1>4, LenProperties
  <1>6. n \in {m, Len(full.buffer)} /\ n <= m /\ n <= Len(full.buffer)
    <2>1. {m, Len(full.buffer)} \subseteq Nat /\ {m, Len(full.buffer)} # {}
      BY <1>2, <1>5
    <2> QED BY <2>1, MinIs
  <1>7. m = n \/ (m > n /\ n = Len(ToCome(hs)))
    <2>1. CASE full.left = << >>
      <3>1. ToCome(hs) = full.buffer
        BY <1>3, <1>4, <2>1, ConcatEmptySeq DEF ToCome
      <3> QED BY <1>2, <1>5, <1>6, <3>1
    <2>2. CASE Len(full.buffer) >= m
      BY <1>2, <1>5, <1>6, <2>2
    <2> QED BY <1>3, <2>1, <2>2
  <1>8. n \in 0 .. Len(full.buffer)
    BY <1>2, <1>5, <1>6
  <1> HIDE DEF n
  <1> QED BY <1>1, <1>2, <1>3, <1>7, <1>8, TakenIs DEF StreamInv

LEMMA SeekStep ==
    ASSUME StreamInv, StreamSeek
    PROVE  StreamInv'
  <1>1. hs \in StreamSet /\ hs.open /\ AtFile(hs)
    BY DEF StreamInv, StreamSeek
  <1>2. /\ hs.text \in Seq(Bytes) /\ Len(hs.text) \in Nat /\ << >> \in Seq(Bytes)
        /\ SubSeq(hs.text, 0 + 1, Len(hs.text)) = hs.text
    <2>1. hs.text \in Seq(Bytes)
      BY <1>1 DEF StreamSet
    <2> QED BY <2>1, LenProperties, SubSeqFull, EmptySeq
  <1>3. PICK s \in StreamSet : /\ s.text = hs.text /\ s.pointer = 0 /\ s.open = hs.open /\ ToCome(s) = hs.text
                               /\ hs' = [s EXCEPT !.pos = 0, !.got = << >>, !.wanted = << >>]
    <2>1. CASE hs.pointer = 0
      <3>1. SeekTo(hs, 0) = hs
        BY <2>1 DEF SeekTo
      <3>2. ToCome(hs) = hs.text
        BY <1>1, <1>2, <2>1 DEF AtFile, RestOfFile
      <3> QED BY <1>1, <2>1, <3>1, <3>2 DEF StreamSeek
    <2>2. CASE hs.pointer # 0
      <3> DEFINE start == [hs EXCEPT !.buffer = << >>, !.left = hs.text]
                 again == Enhanced(start, 1)
                 full == EnhancedUntil(again, BytesAfter(again, 0))
      <3>1. /\ start \in StreamSet /\ start.text = hs.text /\ start.open = hs.open
            /\ start.buffer = << >> /\ start.left = hs.text
        BY <1>1, <1>2 DEF StreamSet
      <3>2. ToCome(start) = hs.text
        BY <1>2, <3>1, ConcatEmptySeq DEF ToCome
      <3> HIDE DEF start
      <3>3. again \in StreamSet /\ ToCome(again) = hs.text /\ Untouched(start, again)
        BY <3>1, <3>2, EnhancedIs
      <3> HIDE DEF again
      <3>4. full \in StreamSet /\ ToCome(full) = hs.text /\ Untouched(again, full)
        <4>1. BytesAfter(again, 0) \subseteq 0 .. Len(again.left)
          BY DEF BytesAfter
        <4>2. PICK k \in Nat : full = Enhanced(again, k)
          BY <3>3, <4>1, UntilIs
        <4> QED BY <3>3, <4>2, EnhancedIs
      <3>5. SeekTo(hs, 0) = [full EXCEPT !.pointer = 0, !.buffer = SubSeq(full.buffer, 0 + 1, Len(full.buffer))]
        BY <2>2 DEF SeekTo, full, again, start
      <3> HIDE DEF full
      <3>6. SubSeq(full.buffer, 0 + 1, Len(full.buffer)) = full.buffer
        <4>1. full.buffer \in Seq(Bytes)
          BY <3>4 DEF StreamSet
        <4> QED BY <4>1, SubSeqFull
      <3>7. PICK s : s = [full EXCEPT !.pointer = 0, !.buffer = full.buffer]
        OBVIOUS
      <3>8. s \in StreamSet /\ s.text = hs.text /\ s.pointer = 0 /\ s.open = hs.open /\ ToCome(s) = ToCome(full)
        BY <3>1, <3>3, <3>4, <3>7 DEF StreamSet, Untouched, ToCome
      <3> QED BY <3>4, <3>5, <3>6, <3>7, <3>8 DEF StreamSeek
    <2> QED BY <2>1, <2>2
  <1>4. hs' \in StreamSet /\ hs'.got = hs'.wanted
    BY <1>2, <1>3 DEF StreamSet
  <1>5. /\ hs'.text = hs.text /\ hs'.pointer = 0 /\ hs'.pos = 0 /\ hs'.buffer = s.buffer /\ hs'.left = s.left
    BY <1>3 DEF StreamSet
  <1>6. hs'.buffer \o hs'.left = SubSeq(hs'.text, hs'.pos + 1, Len(hs'.text))
    BY <1>2, <1>3, <1>5 DEF ToCome
  <1>7. hs'.pointer = hs'.pos /\ hs'.pos <= Len(hs'.text)
    BY <1>2, <1>5
  <1> QED BY <1>4, <1>6, <1>7 DEF StreamInv, AtFile, ToCome, RestOfFile

LEMMA InitStream == StreamInit => StreamInv
  <1> SUFFICES ASSUME NEW text \in Texts,
                      hs = [text |-> text, buffer |-> << >>, pointer |-> 0, left |-> text, open |-> TRUE,
                            pos |-> 0, got |-> << >>, wanted |-> << >>]
               PROVE  StreamInv
    BY DEF StreamInit
  <1>1. text \in Seq(Bytes) /\ << >> \in Seq(Bytes) /\ Len(text) \in Nat
    <2>1. text \in Seq(Bytes)
      BY StreamAssumption DEF StreamAssumption
    <2> QED BY <2>1, EmptySeq, LenProperties
  <1>2. << >> \o text = text /\ SubSeq(text, 0 + 1, Len(text)) = text
    BY <1>1, ConcatEmptySeq, SubSeqFull
  <1>3. hs \in StreamSet
    BY <1>1 DEF StreamSet
  <1> QED BY <1>1, <1>2, <1>3 DEF StreamInv, AtFile, ToCome, RestOfFile

\* The wrapper has what the file has from its position on, as long as the connection
\* is not refused.
THEOREM StreamInductive == StreamSpec => []StreamInv
  <1>1. StreamInit => StreamInv
    BY InitStream
  <1>2. StreamInv /\ [StreamNext]_hs => StreamInv'
    <2> SUFFICES ASSUME StreamInv, [StreamNext]_hs PROVE StreamInv'
      OBVIOUS
    <2>1. CASE StreamRefused
      <3>1. hs' = [hs EXCEPT !.buffer = << >>, !.open = FALSE] /\ hs \in StreamSet /\ << >> \in Seq(Bytes)
        BY <2>1, EmptySeq DEF StreamRefused, StreamInv
      <3>2. hs' \in StreamSet /\ ~hs'.open
        BY <3>1 DEF StreamSet
      <3> QED BY <3>2 DEF StreamInv
    <2>2. CASE UNCHANGED hs
      BY <2>2 DEF StreamInv
    <2> QED BY <2>1, <2>2, LineStep, ChunkStep, SeekStep DEF StreamNext
  <1> QED BY <1>1, <1>2, PTL DEF StreamSpec

\* HttpBytesStreamWrapper: a reader of the stream gets what the file has where the
\* reader is, and tell() says where that is, wherever the stream is cut into chunks.
THEOREM StreamReadsFile == StreamSpec => []StreamIsFile
  <1>1. StreamInv => StreamIsFile
    BY DEF StreamInv, StreamIsFile, AtFile
  <1> QED BY <1>1, StreamInductive, PTL
=============================================================================
