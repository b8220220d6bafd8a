------------------------- MODULE DataSessionProofs -------------------------
(***************************************************************************)
(* TLAPS proofs about DataSession: for any metrics, program, clients,      *)
(* faults, buffer and size of an upload, what the service holds is what    *)
(* the program gave, each row once and under metrics registered once and   *)
(* after their parents; a second is uploaded with all its rows; a session  *)
(* without a failure loses nothing; and a closed job gets nothing more.    *)
(*                                                                         *)
(* The invariant follows a row. It is in the routing queue until the       *)
(* router takes it (Routing), then in the buffer of its metric until a     *)
(* row comes that is newer by more than the buffer (Buffers), and then in  *)
(* a line that was given out (Emitting): in the queue of Luna's client, in *)
(* the data of its thread, or with the service, and in one of them only    *)
(* (Apart). The metrics of the lines that the thread has taken are         *)
(* registered (Registered). Without a failure no thread dies or throws     *)
(* anything away (Healthy), main has waited for the threads that it is     *)
(* past (Closing, Joined), and every row that the router has taken is in a *)
(* buffer or was given out (Kept).                                         *)
(*                                                                         *)
(* First what a turn of the router gives (up to TurnGives), then the types *)
(* after each step (to SendTyped), the router (to RouterTurn), the lines   *)
(* and the metrics (to LinesNext), what is in one place only (to           *)
(* ApartNext), and the session without a failure.                          *)
(***************************************************************************)
EXTENDS DataSession, WellFoundedInduction, FiniteSetTheorems, SequenceTheorems, TLAPS

\* Induction over the numbers, for a set of them.
LEMMA NatSet ==
    ASSUME NEW T, 0 \in T, \A n \in Nat : n \in T => n + 1 \in T
    PROVE  Nat \subseteq T
<1> DEFINE less == {p \in Nat \X Nat : p[1] < p[2]}
           S == Nat \ T
<1>1. IsWellFoundedOn(less, Nat)
    BY NatLessThanWellFounded, Zenon DEF OpToRel
<1> SUFFICES ASSUME S # {} PROVE FALSE
    OBVIOUS
<1>2. PICK x \in S : \A y \in S : ~(<<y, x>> \in less)
  <2> HIDE DEF less
  <2> QED
      BY <1>1, WFMin
<1>3. x # 0 /\ x - 1 \in Nat /\ x - 1 < x
    OBVIOUS
<1>4. x - 1 \notin S
    BY <1>2, <1>3
<1> QED
    BY <1>3, <1>4

Ascends(s, S, time) ==
    /\ s \in [1..Cardinality(S) -> S]
    /\ \A i, j \in 1..Cardinality(S) : i < j => time[s[i]] < time[s[j]]
    /\ \A x \in S : \E i \in 1..Cardinality(S) : s[i] = x

\* What can be numbered by its place in time is in a sequence that ascends.
LEMMA Ranked ==
    ASSUME NEW S, IsFiniteSet(S), NEW time \in [S -> Int],
           \A x, y \in S : time[x] = time[y] => x = y
    PROVE  \E s : Ascends(s, S, time)
<1> DEFINE n == Cardinality(S)
           Upto(x) == {y \in S : time[y] <= time[x]}
           rank == [x \in S |-> Cardinality(Upto(x))]
<1>1. n \in Nat
    BY FS_CardinalityType
<1>2. \A x \in S : Upto(x) \in SUBSET S /\ x \in Upto(x)
    OBVIOUS
<1>3. \A x \in S : IsFiniteSet(Upto(x)) /\ rank[x] \in 1..n
  <2> TAKE x \in S
  <2>1. IsFiniteSet(Upto(x)) /\ Cardinality(Upto(x)) <= n
    <3> HIDE DEF Upto
    <3> QED
        BY <1>2, FS_Subset
  <2>2. Cardinality(Upto(x)) \in Nat /\ Cardinality(Upto(x)) # 0
    <3> HIDE DEF Upto
    <3> QED
        BY <1>2, <2>1, FS_CardinalityType, FS_EmptySet
  <2> QED
      BY <1>1, <2>1, <2>2
<1>4. ASSUME NEW x \in S, NEW y \in S, time[x] < time[y] PROVE rank[x] < rank[y]
  <2>1. Upto(x) \in SUBSET Upto(y) /\ Upto(x) # Upto(y)
      BY <1>4
  <2>2. Cardinality(Upto(x)) <= Cardinality(Upto(y)) /\ Cardinality(Upto(x)) # Cardinality(Upto(y))
    <3> HIDE DEF Upto
    <3> QED
        BY <1>3, <2>1, FS_Subset
  <2> QED
      BY <1>3, <2>2
<1>5. ASSUME NEW x \in S, NEW y \in S, rank[x] = rank[y] PROVE x = y
  <2>1. ~(rank[x] < rank[y]) /\ ~(rank[y] < rank[x])
      BY <1>3, <1>5
  <2>2. ~(time[x] < time[y]) /\ ~(time[y] < time[x])
    <3> HIDE DEF rank
    <3> QED
        BY <1>4, <2>1
  <2> QED
      BY <2>2
<1>6. IsFiniteSet(1..n) /\ Cardinality(1..n) = n
    BY <1>1, FS_Interval
<1>7. rank \in [S -> 1..n]
    BY <1>3
<1>8. rank \in Injection(S, 1..n)
  <2> HIDE DEF rank
  <2> QED
      BY <1>5, <1>7 DEF Injection, IsInjective
<1>9. rank \in Surjection(S, 1..n)
  <2> HIDE DEF rank
  <2> QED
      BY <1>6, <1>8, FS_Injection
<1>10. \A i \in 1..n : \E x \in S : rank[x] = i
  <2> HIDE DEF rank
  <2> QED
      BY <1>9 DEF Surjection
<1> DEFINE s == [i \in 1..n |-> CHOOSE x \in S : rank[x] = i]
<1>11. \A i \in 1..n : s[i] \in S /\ rank[s[i]] = i
  <2> HIDE DEF rank
  <2> QED
      BY <1>10
<1>12. \A i, j \in 1..n : i < j => time[s[i]] < time[s[j]]
  <2> TAKE i, j \in 1..n
  <2> HAVE i < j
  <2> HIDE DEF rank, s
  <2>1. ~(time[s[j]] < time[s[i]]) /\ s[i] # s[j]
      BY <1>4, <1>11
  <2> QED
      BY <1>11, <2>1
<1>13. \A x \in S : s[rank[x]] = x
  <2> HIDE DEF rank, s
  <2> QED
      BY <1>5, <1>7, <1>11
<1>14. s \in [1..n -> S]
    BY <1>11
<1> QED
  <2> HIDE DEF rank, s
  <2> QED
      BY <1>7, <1>12, <1>13, <1>14 DEF Ascends

\* Every finite set of numbers has a greatest.
LEMMA Greatest ==
    ASSUME NEW S, IsFiniteSet(S), S \subseteq Int, S # {}
    PROVE  Max(S) \in S /\ \A y \in S : Max(S) >= y
<1>1. PICK n \in Nat : n = Cardinality(S) /\ n # 0
    BY FS_CardinalityType, FS_EmptySet
<1>2. PICK time \in [S -> Int] : time = [x \in S |-> x]
    OBVIOUS
<1>3. PICK s : Ascends(s, S, time)
  <2>1. \A x, y \in S : time[x] = time[y] => x = y
      BY <1>2
  <2> QED
      BY <2>1, Ranked, Zenon
<1>4. /\ s[n] \in S /\ n \in 1..n
      /\ \A i, j \in 1..n : i < j => s[i] < s[j]
      /\ \A x \in S : \E i \in 1..n : s[i] = x
    BY <1>1, <1>2, <1>3 DEF Ascends
<1>5. ASSUME NEW y \in S PROVE s[n] >= y
  <2>1. PICK i \in 1..n : s[i] = y
      BY <1>4
  <2>2. s[n] \in Int /\ s[i] \in Int
      BY <1>4, <2>1
  <2>3. i < n => s[i] < s[n]
      BY <1>4
  <2> QED
      BY <1>1, <2>1, <2>2, <2>3
<1> QED
    BY <1>4, <1>5 DEF Max

\* The values of a function over a finite set are finitely many.
LEMMA FiniteImage ==
    ASSUME NEW f, IsFiniteSet(DOMAIN f), f = [x \in DOMAIN f |-> f[x]]
    PROVE  IsFiniteSet(Range(f))
<1>1. f \in Surjection(DOMAIN f, Range(f))
    BY DEF Surjection, Range
<1> QED
    BY <1>1, FS_Surjection

\* Lines of different seconds can be put in the order of their seconds.
LEMMA BySecondGives ==
    ASSUME NEW L, IsFiniteSet(L), \A l \in L : l.second \in Int,
           \A k, l \in L : k.second = l.second => k = l
    PROVE  BySecond(L) \in Seq(L) /\ ToSet(BySecond(L)) = L
<1>1. PICK n \in Nat : n = Cardinality(L)
    BY FS_CardinalityType
<1>2. PICK time \in [L -> Int] : time = [l \in L |-> l.second]
    OBVIOUS
<1>3. PICK s : Ascends(s, L, time)
  <2>1. \A x, y \in L : time[x] = time[y] => x = y
      BY <1>2
  <2> QED
      BY <2>1, Ranked, Zenon
<1>4. s \in [1..n -> L] /\ \A i, j \in DOMAIN s : i < j => s[i].second < s[j].second
    BY <1>1, <1>2, <1>3 DEF Ascends
<1>5. PICK b : b = BySecond(L)
    OBVIOUS
<1>6. b \in [1..n -> L] /\ \A i, j \in DOMAIN b : i < j => b[i].second < b[j].second
    BY <1>1, <1>4, <1>5 DEF BySecond
<1>7. \A i, j \in 1..n : b[i] = b[j] => i = j
  <2> TAKE i, j \in 1..n
  <2> HAVE b[i] = b[j]
  <2>1. b[i].second \in Int /\ b[j].second = b[i].second
      BY <1>6
  <2>2. ~(i < j) /\ ~(j < i)
      BY <1>6, <2>1
  <2> QED
      BY <1>1, <2>2
<1>8. b \in Injection(1..n, L) /\ IsFiniteSet(1..n) /\ Cardinality(1..n) = n
  <2>1. b \in Injection(1..n, L)
      BY <1>6, <1>7 DEF Injection, IsInjective
  <2>2. IsFiniteSet(1..n) /\ Cardinality(1..n) = n
      BY <1>1, FS_Interval
  <2> QED
      BY <2>1, <2>2
<1>9. b \in Surjection(1..n, L)
    BY <1>1, <1>8, FS_Injection
<1>10. b \in Seq(L)
    BY <1>1, <1>6
<1>11. ToSet(b) = L
    BY <1>6, <1>9 DEF Surjection, ToSet
<1> QED
    BY <1>5, <1>10, <1>11

\* The lines of a table, as a set, and in their order.
LinesSet(t, m, rows) == IF t = "metrics" THEN RawLines(m, rows) ELSE SecondLines(m, rows)

\* The lines of a table are the lines of its set, in the order of their
\* seconds.
LEMMA LinesGiven ==
    ASSUME NEW t, NEW m, NEW rows, IsFiniteSet(rows), \A r \in rows : r.second \in Int,
           t = "metrics" => \A q, r \in rows : q.second = r.second => q = r
    PROVE  Lines(t, m, rows) \in Seq(LinesSet(t, m, rows)) /\ ToSet(Lines(t, m, rows)) = LinesSet(t, m, rows)
<1> DEFINE L == LinesSet(t, m, rows)
<1>1. CASE t = "metrics"
  <2>1. PICK f : f = [r \in rows |-> [metric |-> m, second |-> r.second, rows |-> {r}]]
      OBVIOUS
  <2>2. DOMAIN f = rows /\ L = Range(f)
      BY <1>1, <2>1 DEF LinesSet, RawLines, Range
  <2>3. IsFiniteSet(L)
    <3> HIDE DEF L
    <3> QED
        BY <2>1, <2>2, FiniteImage
  <2>4. \A l \in L : l.second \in Int
      BY <1>1 DEF LinesSet, RawLines
  <2>5. ASSUME NEW k \in L, NEW l \in L, k.second = l.second PROVE k = l
    <3>1. PICK q \in rows, r \in rows : f[q] = k /\ f[r] = l
        BY <2>2 DEF Range
    <3>2. k.second = q.second /\ l.second = r.second
        BY <2>1, <3>1
    <3> QED
        BY <1>1, <2>5, <3>1, <3>2
  <2>6. Lines(t, m, rows) = BySecond(L)
      BY <1>1 DEF Lines, LinesSet
  <2> QED
    <3> HIDE DEF L
    <3>1. BySecond(L) \in Seq(L) /\ ToSet(BySecond(L)) = L
        BY <2>3, <2>4, <2>5, BySecondGives
    <3> QED
        BY <2>6, <3>1 DEF L
<1>2. CASE t # "metrics"
  <2> DEFINE Seconds == {r.second : r \in rows}
  <2>1. PICK g : g = [r \in rows |-> r.second]
      OBVIOUS
  <2>2. DOMAIN g = rows /\ Seconds = Range(g)
      BY <2>1 DEF Range
  <2>3. IsFiniteSet(Seconds)
    <3> HIDE DEF Seconds
    <3> QED
        BY <2>1, <2>2, FiniteImage
  <2>4. PICK f : f = [s \in Seconds |-> [metric |-> m, second |-> s, rows |-> {r \in rows : r.second = s}]]
      OBVIOUS
  <2>5. DOMAIN f = Seconds /\ L = Range(f)
      BY <1>2, <2>4 DEF LinesSet, SecondLines, Range
  <2>6. IsFiniteSet(L)
    <3> HIDE DEF L, Seconds
    <3> QED
        BY <2>3, <2>4, <2>5, FiniteImage
  <2>7. \A l \in L : l.second \in Int
      BY <1>2 DEF LinesSet, SecondLines
  <2>8. ASSUME NEW k \in L, NEW l \in L, k.second = l.second PROVE k = l
    <3>1. PICK q \in Seconds, r \in Seconds : f[q] = k /\ f[r] = l
        BY <2>5 DEF Range
    <3>2. k.second = q /\ l.second = r
        BY <2>4, <3>1
    <3> QED
        BY <2>8, <3>1, <3>2
  <2>9. Lines(t, m, rows) = BySecond(L)
      BY <1>2 DEF Lines, LinesSet
  <2> QED
    <3> HIDE DEF L
    <3>1. BySecond(L) \in Seq(L) /\ ToSet(BySecond(L)) = L
        BY <2>6, <2>7, <2>8, BySecondGives
    <3> QED
        BY <2>9, <3>1 DEF L
<1> QED
    BY <1>1, <1>2

\* q is the first n sequences of ss one after another: member p is member v[p] of ss[u[p]].
Places(q, ss, n, u, v) ==
    /\ u \in [1..Len(q) -> 1..n] /\ v \in [1..Len(q) -> Nat]
    /\ \A p \in 1..Len(q) : v[p] \in 1..Len(ss[u[p]]) /\ q[p] = ss[u[p]][v[p]]
    /\ \A o, p \in 1..Len(q) : u[o] = u[p] /\ v[o] = v[p] => o = p
    /\ \A i \in 1..n : \A j \in 1..Len(ss[i]) : \E p \in 1..Len(q) : u[p] = i /\ v[p] = j

Placed(q, ss, n) == \E u, v : Places(q, ss, n, u, v)

\* One sequence, in its place.
LEMMA PlacedOne ==
    ASSUME NEW S, NEW ss \in Seq(Seq(S)), Len(ss) > 0
    PROVE  Placed(ss[1], ss, 1)
<1>1. PICK q : q = ss[1]
    OBVIOUS
<1>2. q \in Seq(S) /\ Len(q) \in Nat
    BY <1>1
<1>3. PICK u : u = [p \in 1..Len(q) |-> 1]
    OBVIOUS
<1>4. PICK v : v = [p \in 1..Len(q) |-> p]
    OBVIOUS
<1>5. u \in [1..Len(q) -> 1..1] /\ v \in [1..Len(q) -> Nat]
    BY <1>2, <1>3, <1>4
<1>6. \A p \in 1..Len(q) : v[p] \in 1..Len(ss[u[p]]) /\ q[p] = ss[u[p]][v[p]]
    BY <1>1, <1>3, <1>4
<1>7. \A o, p \in 1..Len(q) : u[o] = u[p] /\ v[o] = v[p] => o = p
    BY <1>4
<1>8. \A i \in 1..1 : \A j \in 1..Len(ss[i]) : \E p \in 1..Len(q) : u[p] = i /\ v[p] = j
    BY <1>1, <1>3, <1>4
<1>9. Places(q, ss, 1, u, v)
    BY <1>5, <1>6, <1>7, <1>8 DEF Places
<1> QED
    BY <1>1, <1>9 DEF Placed

\* One more sequence after those that have their places.
LEMMA PlacedMore ==
    ASSUME NEW S, NEW ss \in Seq(Seq(S)), NEW n \in Nat, n < Len(ss), NEW q \in Seq(S), Placed(q, ss, n)
    PROVE  Placed(q \o ss[n + 1], ss, n + 1)
<1>1. PICK s \in Seq(S) : s = ss[n + 1]
    BY ElementOfSeq
<1>2. PICK r \in Seq(S) :
          /\ r = q \o s /\ Len(r) = Len(q) + Len(s)
          /\ \A p \in 1..Len(r) : r[p] = IF p <= Len(q) THEN q[p] ELSE s[p - Len(q)]
  <2>1. q \o s \in Seq(S) /\ Len(q \o s) = Len(q) + Len(s)
      BY ConcatProperties
  <2>2. \A p \in 1..Len(q) + Len(s) : (q \o s)[p] = IF p <= Len(q) THEN q[p] ELSE s[p - Len(q)]
      BY ConcatProperties
  <2> QED
      BY <2>1, <2>2
<1>3. PICK u, v : Places(q, ss, n, u, v)
    BY DEF Placed
<1>4. Len(q) \in Nat /\ Len(s) \in Nat /\ Len(r) \in Nat
    BY <1>1, <1>2
<1>5. PICK a : a = [p \in 1..Len(r) |-> IF p <= Len(q) THEN u[p] ELSE n + 1]
    OBVIOUS
<1>6. PICK b : b = [p \in 1..Len(r) |-> IF p <= Len(q) THEN v[p] ELSE p - Len(q)]
    OBVIOUS
<1>7. a \in [1..Len(r) -> 1..n + 1] /\ b \in [1..Len(r) -> Nat]
    BY <1>2, <1>3, <1>4, <1>5, <1>6 DEF Places
<1>8. ASSUME NEW p \in 1..Len(r) PROVE b[p] \in 1..Len(ss[a[p]]) /\ r[p] = ss[a[p]][b[p]]
  <2>1. CASE p <= Len(q)
    <3>1. p \in 1..Len(q) /\ a[p] = u[p] /\ b[p] = v[p] /\ r[p] = q[p]
        BY <1>2, <1>4, <1>5, <1>6, <2>1
    <3> QED
        BY <1>3, <3>1 DEF Places
  <2>2. CASE ~(p <= Len(q))
    <3>1. p - Len(q) \in 1..Len(s) /\ a[p] = n + 1 /\ b[p] = p - Len(q) /\ r[p] = s[p - Len(q)]
        BY <1>2, <1>4, <1>5, <1>6, <2>2
    <3> QED
        BY <1>1, <3>1
  <2> QED
      BY <2>1, <2>2
<1>9. ASSUME NEW o \in 1..Len(r), NEW p \in 1..Len(r), a[o] = a[p], b[o] = b[p] PROVE o = p
  <2>1. CASE o <= Len(q) /\ p <= Len(q)
    <3>1. o \in 1..Len(q) /\ p \in 1..Len(q) /\ u[o] = u[p] /\ v[o] = v[p]
        BY <1>4, <1>5, <1>6, <1>9, <2>1
    <3> QED
        BY <1>3, <3>1 DEF Places
  <2>2. CASE ~(o <= Len(q)) /\ ~(p <= Len(q))
      BY <1>4, <1>6, <1>9, <2>2
  <2>3. \A i \in 1..Len(r) : i <= Len(q) => a[i] # n + 1
    <3>1. \A i \in 1..Len(q) : u[i] \in 1..n
        BY <1>3 DEF Places
    <3> QED
        BY <1>4, <1>5, <3>1
  <2>4. \A i \in 1..Len(r) : ~(i <= Len(q)) => a[i] = n + 1
      BY <1>5
  <2> QED
      BY <1>9, <2>1, <2>2, <2>3, <2>4
<1>10. ASSUME NEW i \in 1..n + 1, NEW j \in 1..Len(ss[i]) PROVE \E p \in 1..Len(r) : a[p] = i /\ b[p] = j
  <2>1. CASE i \in 1..n
    <3>1. PICK p \in 1..Len(q) : u[p] = i /\ v[p] = j
        BY <1>3, <2>1 DEF Places
    <3>2. p \in 1..Len(r) /\ a[p] = i /\ b[p] = j
        BY <1>2, <1>4, <1>5, <1>6, <3>1
    <3> QED
        BY <3>2
  <2>2. CASE i = n + 1
    <3>1. j \in 1..Len(s)
        BY <1>1, <2>2
    <3>2. Len(q) + j \in 1..Len(r) /\ a[Len(q) + j] = i /\ b[Len(q) + j] = j
        BY <1>2, <1>4, <1>5, <1>6, <2>2, <3>1
    <3> QED
        BY <3>2
  <2> QED
      BY <2>1, <2>2
<1>11. Places(r, ss, n + 1, a, b)
    BY <1>7, <1>8, <1>9, <1>10 DEF Places
<1> QED
    BY <1>1, <1>2, <1>11 DEF Placed

Concats(g, ss, n) == g = [i \in 1..n |-> IF i = 1 THEN ss[i] ELSE g[i - 1] \o ss[i]]

\* There is a flattened sequence for every sequence of sequences.
LEMMA ConcatsExist ==
    ASSUME NEW S, NEW ss \in Seq(Seq(S)), NEW n \in Nat, n <= Len(ss)
    PROVE  \E g \in [1..n -> Seq(S)] : Concats(g, ss, n)
<1> DEFINE T == {k \in Nat : k <= Len(ss) => \E g \in [1..k -> Seq(S)] : Concats(g, ss, k)}
<1>1. 0 \in T
  <2>1. PICK g : g = [i \in 1..0 |-> << >>]
      OBVIOUS
  <2>2. g \in [1..0 -> Seq(S)] /\ Concats(g, ss, 0)
      BY <2>1 DEF Concats
  <2> QED
      BY <2>2
<1>2. ASSUME NEW k \in Nat, k \in T PROVE k + 1 \in T
  <2> SUFFICES ASSUME k + 1 <= Len(ss) PROVE \E g \in [1..k + 1 -> Seq(S)] : Concats(g, ss, k + 1)
      OBVIOUS
  <2>1. PICK g \in [1..k -> Seq(S)] : Concats(g, ss, k)
      BY <1>2
  <2>2. PICK s \in Seq(S) : s = ss[k + 1]
      BY ElementOfSeq
  <2>3. PICK e \in Seq(S) : e = IF k = 0 THEN s ELSE g[k] \o s
    <3>1. k # 0 => g[k] \in Seq(S)
        OBVIOUS
    <3>2. k # 0 => g[k] \o s \in Seq(S)
        BY <3>1, ConcatProperties
    <3> QED
        BY <3>2
  <2>4. PICK h : h = [i \in 1..k + 1 |-> IF i <= k THEN g[i] ELSE e]
      OBVIOUS
  <2>5. h \in [1..k + 1 -> Seq(S)]
      BY <2>4
  <2>6. ASSUME NEW i \in 1..k + 1 PROVE h[i] = IF i = 1 THEN ss[i] ELSE h[i - 1] \o ss[i]
    <3>1. CASE i <= k
      <4>1. i \in 1..k /\ h[i] = g[i] /\ (i # 1 => h[i - 1] = g[i - 1])
          BY <2>4, <3>1
      <4>2. g[i] = IF i = 1 THEN ss[i] ELSE g[i - 1] \o ss[i]
          BY <2>1, <4>1 DEF Concats
      <4> QED
          BY <4>1, <4>2
    <3>2. CASE i = k + 1
      <4>1. h[i] = e /\ (i # 1 => h[i - 1] = g[k])
          BY <2>4, <3>2
      <4> QED
          BY <2>2, <2>3, <3>2, <4>1
    <3> QED
        BY <3>1, <3>2
  <2>7. Concats(h, ss, k + 1)
      BY <2>4, <2>6 DEF Concats
  <2> QED
      BY <2>5, <2>7
<1>3. Nat \subseteq T
  <2> HIDE DEF T
  <2> QED
      BY <1>1, <1>2, NatSet
<1> QED
    BY <1>3

\* In a flattened sequence every sequence has its place.
LEMMA ConcatsPlaced ==
    ASSUME NEW S, NEW ss \in Seq(Seq(S)), NEW n \in Nat, 0 < n, n <= Len(ss), NEW g, Concats(g, ss, Len(ss))
    PROVE  g[n] \in Seq(S) /\ Placed(g[n], ss, n)
<1> DEFINE T == {k \in Nat : 0 < k /\ k <= Len(ss) => g[k] \in Seq(S) /\ Placed(g[k], ss, k)}
<1>1. 0 \in T
    OBVIOUS
<1>2. ASSUME NEW k \in Nat, k \in T PROVE k + 1 \in T
  <2> SUFFICES ASSUME k + 1 <= Len(ss) PROVE g[k + 1] \in Seq(S) /\ Placed(g[k + 1], ss, k + 1)
      OBVIOUS
  <2>1. g[k + 1] = IF k + 1 = 1 THEN ss[k + 1] ELSE g[k] \o ss[k + 1]
    <3>1. PICK h : h = [i \in 1..Len(ss) |-> IF i = 1 THEN ss[i] ELSE g[i - 1] \o ss[i]]
        OBVIOUS
    <3>2. g = h
        BY <3>1 DEF Concats
    <3>3. k + 1 \in 1..Len(ss) /\ (k + 1) - 1 = k
        OBVIOUS
    <3>4. h[k + 1] = IF k + 1 = 1 THEN ss[k + 1] ELSE g[(k + 1) - 1] \o ss[k + 1]
        BY <3>1, <3>3
    <3> QED
        BY <3>2, <3>3, <3>4
  <2>2. CASE k = 0
      BY <2>1, <2>2, PlacedOne, ElementOfSeq
  <2>3. CASE k # 0
    <3>1. PICK s \in Seq(S) : s = ss[k + 1]
        BY ElementOfSeq
    <3>2. PICK q \in Seq(S) : q = g[k] /\ Placed(q, ss, k)
        BY <1>2, <2>3
    <3>3. q \o s \in Seq(S)
        BY ConcatProperties
    <3>4. Placed(q \o ss[k + 1], ss, k + 1)
      <4>1. k < Len(ss)
          OBVIOUS
      <4> QED
          BY <3>2, <4>1, PlacedMore, Zenon
    <3> QED
        BY <2>1, <2>3, <3>1, <3>2, <3>3, <3>4
  <2> QED
      BY <2>2, <2>3
<1>3. Nat \subseteq T
  <2> HIDE DEF T
  <2> QED
      BY <1>1, <1>2, NatSet
<1> QED
    BY <1>3

\* FlattenSeq gives every member of every sequence at one place.
LEMMA Flattened ==
    ASSUME NEW S, NEW ss \in Seq(Seq(S))
    PROVE  FlattenSeq(ss) \in Seq(S) /\ Placed(FlattenSeq(ss), ss, Len(ss))
<1>1. CASE Len(ss) = 0
  <2>1. FlattenSeq(ss) = << >>
      BY <1>1 DEF FlattenSeq
  <2>2. PICK u : u = [p \in 1..0 |-> 0]
      OBVIOUS
  <2>3. Places(<< >>, ss, 0, u, u)
    <3>1. Len(<< >>) = 0
        OBVIOUS
    <3>2. u \in [1..0 -> 1..0] /\ u \in [1..0 -> Nat]
        BY <2>2
    <3> QED
        BY <3>1, <3>2 DEF Places
  <2> QED
      BY <1>1, <2>1, <2>3 DEF Placed
<1>2. CASE Len(ss) # 0
  <2>1. PICK g : g = CHOOSE f : Concats(f, ss, Len(ss))
      OBVIOUS
  <2>2. Concats(g, ss, Len(ss))
      BY <2>1, ConcatsExist
  <2>3. FlattenSeq(ss) = g[Len(ss)]
      BY <1>2, <2>1 DEF FlattenSeq, Concats
  <2> QED
      BY <1>2, <2>2, <2>3, ConcatsPlaced
<1> QED
    BY <1>1, <1>2

(***************************************************************************)
(* The invariant                                                           *)
(***************************************************************************)

Metrics == DOMAIN opt.metrics
Tables == {"metrics"} \cup ToSet(Aggregates)
Row == [put : Nat, second : Int]
Line == [metric : Metrics, second : Int, rows : SUBSET Row]
Piece == [table : Tables, metric : Metrics, lines : Seq(Line)]
Table == [table : Tables, lines : Seq(Line)]
Item == [metric : Metrics, rows : SUBSET Row]

NotClosing == {"build", "raised", "locked", "user"}
InClose == {"close", "job", "worker", "register", "close job", "closed"}
Stages == NotClosing \cup {"join", "interrupted"} \cup InClose

Tagging == [table : Tables, line : Line]
RouterType == [stopped : BOOLEAN, interrupted : BOOLEAN, done : BOOLEAN, buffer : [Metrics -> SUBSET Row]]
LunaType == [failed : BOOLEAN, job : {"unknown", "made", "none"}, put : BOOLEAN, queue : Seq(Piece), ids : SUBSET Metrics]
RegisterType == [at : {"loop", "ask", "finished", "dead"}, todo : Seq(Metrics), metric : Metrics \cup {"none"},
                 stopped : BOOLEAN, interrupted : BOOLEAN]
WorkerType(left) == [at : {"loop", "lock", "unlock", "send", "finished", "dead"}, data : Seq(Table), left : {left},
                     part : {"whole", "first", "second"}, final : BOOLEAN, stopped : BOOLEAN, interrupted : BOOLEAN]
ServerType == [jobs : Nat, closed : BOOLEAN, created : Seq(Metrics), stored : SUBSET Tagging, again : SUBSET Tagging,
               faults : Nat, shaky : BOOLEAN]

TypeOK ==
    /\ opt \in Options
    /\ metrics \in Seq(Metrics)
    /\ routing \in Seq(Item)
    /\ router \in RouterType
    /\ main \in [at : Stages, i : Nat \ {0}]
    /\ luna \in LunaType
    /\ register \in RegisterType
    /\ lock \in BOOLEAN
    /\ worker \in WorkerType(worker.left)
    /\ server \in ServerType

\* What the threads are at.
Working ==
    /\ worker.at = "lock" => worker.left \in Seq(Metrics) /\ Len(worker.left) = 1
    /\ worker.at = "send" => worker.left \in Seq(Table) /\ worker.left # << >>
    /\ worker.at \notin {"lock", "send"} => worker.left = << >>
    /\ register.at = "ask" => register.metric \in Metrics

\* How far close() is.
Closing ==
    /\ main.at = "register" => Ended(worker)
    /\ main.at = "close job" \/ server.closed => Ended(worker) /\ Ended(register)

-----------------------------------------------------------------------------
\* The metrics that the service has.
LinesOfMetric == \A i \in DOMAIN luna.queue : \A j \in DOMAIN luna.queue[i].lines :
                    luna.queue[i].lines[j].metric = luna.queue[i].metric

LinesIn(p) == {[table |-> p.table, line |-> p.lines[j]] : j \in DOMAIN p.lines}
LinesOf(ps) == UNION {LinesIn(ps[i]) : i \in DOMAIN ps}

\* What the thread has taken from its queue, and what the service has.
Held == server.stored \cup LinesOf(worker.data) \cup (IF worker.at = "send" THEN LinesOf(worker.left) ELSE {})
Emitted == LinesOf(luna.queue) \cup Held

\* No answer of a registration is waited for any more.
NoMore == register.at = "dead" \/ (register.at # "ask" /\ register.interrupted)

Registered ==
    /\ luna.ids \subseteq ToSet(server.created)
    /\ \A l \in Held : l.line.metric \in luna.ids
    /\ register.at = "ask" => /\ register.metric \in Metrics \ luna.ids
                              /\ Parent(register.metric) # "none" => Parent(register.metric) \in luna.ids
    /\ \A i \in DOMAIN server.created : Parent(server.created[i]) # "none" =>
          \E j \in 1..(i - 1) : server.created[j] = Parent(server.created[i])
    /\ ~server.shaky =>
          /\ \A i, j \in DOMAIN server.created : server.created[i] = server.created[j] => i = j
          /\ ToSet(server.created) \subseteq luna.ids \/ NoMore

-----------------------------------------------------------------------------
\* The calls of the program that are made.
Made == CASE main.at \in {"build", "raised", "locked"} -> 0
          [] main.at = "user" -> main.i - 1
          [] OTHER -> Len(opt.program)

\* The rows that the router has taken.
Passed(m) == {r \in RowsOf(m) : r.put <= Made /\ \A i \in DOMAIN routing : r \notin routing[i].rows}

IsPut(item, k) == /\ opt.program[k].call = "put"
                  /\ item = [metric |-> opt.program[k].metric, rows |-> Frame(k, opt.program[k].seconds)]

Routing ==
    /\ main.at = "user" => main.i \in 1..Len(opt.program) + 1
    /\ router.stopped => main.at \notin NotClosing
    /\ router.interrupted => opt.interrupt
    /\ router.done => router.stopped
    /\ router.done /\ ~opt.interrupt => routing = << >>
    /\ \A i \in DOMAIN routing : \E k \in 1..Made : IsPut(routing[i], k)
    /\ \A i, j \in DOMAIN routing : i < j =>
          \A a \in routing[i].rows, b \in routing[j].rows : a.put < b.put
    /\ \A m \in Metrics : \A r \in Passed(m) : \A i \in DOMAIN routing : \A b \in routing[i].rows : r.put < b.put

\* The buffers: the rows of the last seconds; no row comes later to what left.
Gone(m) == Passed(m) \ router.buffer[m]

Buffers ==
    \A m \in Metrics :
        /\ router.buffer[m] \subseteq Passed(m)
        /\ router.buffer[m] # {} => IsAggregated(m)
        /\ ~router.done /\ IsAggregated(m) =>
              /\ \A q \in Passed(m) : \E b \in router.buffer[m] : b.second >= q.second
              /\ \A b \in router.buffer[m] : \A q \in Passed(m) : b.second >= q.second - BufferSize
              /\ InTime(m) => \A r \in Gone(m), q \in RowsOf(m) : q.second = r.second => q \in Gone(m)

\* What was given to the client is of rows that the router has taken.
Given1(l) ==
    /\ l.line.rows # {} /\ l.line.rows \subseteq Passed(l.line.metric)
    /\ l.table # "metrics" =>
          /\ ~router.done => l.line.rows \cap router.buffer[l.line.metric] = {}
          /\ InTime(l.line.metric) /\ ~opt.interrupt => l.line.rows = RowsIn(l.line.metric, l.line.second)

Emitting == \A l \in Emitted : Given1(l)

-----------------------------------------------------------------------------
\* Nothing is in two places.
Apart ==
    ~server.shaky =>
        /\ server.again = {}
        /\ worker.part = "whole"
        /\ \A i, j \in DOMAIN luna.queue : i # j => LinesIn(luna.queue[i]) \cap LinesIn(luna.queue[j]) = {}
        /\ LinesOf(luna.queue) \cap Held = {}
        /\ \A i, j \in DOMAIN worker.data : worker.data[i].table = worker.data[j].table => i = j
        /\ worker.at # "send" => LinesOf(worker.data) \cap server.stored = {}
        /\ worker.at = "send" =>
              /\ worker.data \in {worker.left, << >>}
              /\ LinesOf(worker.left) \cap server.stored = {}
              /\ \A i, j \in DOMAIN worker.left : worker.left[i].table = worker.left[j].table => i = j

-----------------------------------------------------------------------------
\* A run without a failure.
Healthy ==
    /\ ~luna.failed /\ luna.put /\ luna.job # "none"
    /\ ~register.interrupted /\ ~worker.interrupted /\ ~server.shaky
    /\ worker.at # "dead" /\ (worker.at = "unlock" => lock)
    /\ worker.stopped => router.done
    /\ worker.at = "finished" => luna.queue = << >> /\ worker.data = << >>
    /\ worker.at = "finished" \/ (worker.at = "send" /\ worker.final) => luna.queue = << >> /\ worker.stopped

Joined ==
    /\ main.at \in InClose => router.done /\ ~opt.interrupt
    /\ main.at \in InClose \ {"closed"} => \A j \in 1..(main.i - 1) : (j \in DOMAIN opt.clients /\ opt.clients[j] = "luna") => Ended(worker)
    /\ main.at = "closed" /\ Has("luna") => Ended(worker)

RawLine(m, r) == [table |-> "metrics", line |-> [metric |-> m, second |-> r.second, rows |-> {r}]]

Kept ==
    Has("luna") => \A m \in Metrics :
        /\ opt.metrics[m].raw => \A r \in Passed(m) : RawLine(m, r) \in Emitted
        /\ IsAggregated(m) =>
              \A r \in Passed(m), t \in ToSet(Aggregates) :
                 \/ ~router.done /\ r \notin router.buffer[m]
                 \/ \E q \in Passed(m) : r.second < q.second - BufferSize
                 => \E l \in Emitted : l.table = t /\ l.line.metric = m /\ r \in l.line.rows

QuietInv == 0 <= server.faults /\ server.faults <= opt.faults /\ (Quiet => Healthy /\ Joined /\ Kept)

SessionInv == /\ TypeOK /\ Working /\ Closing
              /\ LinesOfMetric /\ Registered
              /\ Routing /\ Buffers /\ Emitting
              /\ Apart /\ QuietInv
-----------------------------------------------------------------------------
(***************************************************************************)
(* What a turn of the router gives                                         *)
(***************************************************************************)

Tagged(t, m, rows) == {[table |-> t, line |-> l] : l \in LinesSet(t, m, rows)}

PieceOf(t, m, rows) == [table |-> t, metric |-> m, lines |-> Lines(t, m, rows)]

OwnOf(item, t, rows) ==
    IF Contains(DataTypes(item.metric), t) /\ rows # {} THEN <<PieceOf(t, item.metric, rows)>> ELSE << >>

RestOf(others, t) == [i \in DOMAIN others |-> PieceOf(t, others[i], router.buffer[others[i]])]

\* The rows of metric m for table t, and whether there is a piece of them.
Share(item, from, t, m) ==
    IF t = "metrics" THEN item.rows ELSE IF m = item.metric THEN from ELSE router.buffer[m]

Wanted(item, from, others, t, m) ==
    \/ t = "metrics" /\ m = item.metric /\ opt.metrics[m].raw /\ item.rows # {}
    \/ t \in ToSet(Aggregates) /\ m = item.metric /\ IsAggregated(m) /\ from # {}
    \/ t \in ToSet(Aggregates) /\ m \in ToSet(others)

\* What may be given to Pieces.
Turn(item, from, others) ==
    /\ item \in Item /\ IsFiniteSet(item.rows) /\ \A q, r \in item.rows : q.second = r.second => q = r
    /\ from \in SUBSET Row /\ IsFiniteSet(from)
    /\ others \in Seq(Metrics) /\ \A i, j \in DOMAIN others : others[i] = others[j] => i = j
    /\ \A i \in DOMAIN others : others[i] # item.metric /\ IsFiniteSet(router.buffer[others[i]])

\* What is right of every piece of a sequence, and of the whole.
Right(p, item, from, others) ==
    /\ p \in Piece
    /\ p = PieceOf(p.table, p.metric, Share(item, from, p.table, p.metric))
    /\ Wanted(item, from, others, p.table, p.metric)

AllRight(ps, item, from, others) ==
    /\ ps \in Seq(Piece)
    /\ \A i \in 1..Len(ps) : Right(ps[i], item, from, others)
    /\ \A i, j \in 1..Len(ps) : ps[i].table = ps[j].table /\ ps[i].metric = ps[j].metric => i = j

\* What DataSessionAssumption says of the options at hand.
LEMMA OptionTypes ==
    ASSUME opt \in Options
    PROVE  /\ opt.faults \in Nat /\ opt.interrupt \in BOOLEAN
           /\ "none" \notin Metrics
           /\ \A m \in Metrics : Parent(m) \in Metrics \cup {"none"}
           /\ Len(opt.program) \in Nat /\ DOMAIN opt.program = 1..Len(opt.program)
           /\ Len(opt.clients) \in Nat /\ DOMAIN opt.clients = 1..Len(opt.clients)
           /\ \A k \in 1..Len(opt.program) :
                 /\ opt.program[k].call \in {"metric", "put"} => opt.program[k].metric \in Metrics
                 /\ opt.program[k].call = "put" =>
                       opt.program[k].seconds \subseteq Int /\ IsFiniteSet(opt.program[k].seconds)
<1>1. PICK o \in Options : o = opt
    OBVIOUS
<1>2. opt.clients \in Seq({"luna", "local", "volta"}) /\ opt.program \in Seq(ToSet(opt.program))
    BY <1>1, DataSessionAssumption DEF DataSessionAssumption
<1>3. \A k \in 1..Len(opt.program) : opt.program[k] \in ToSet(opt.program)
    BY <1>2 DEF ToSet
<1>4. \A k \in 1..Len(opt.program) :
         /\ opt.program[k].call \in {"metric", "put"} => opt.program[k].metric \in Metrics
         /\ opt.program[k].call = "put" =>
               opt.program[k].seconds \subseteq Int /\ IsFiniteSet(opt.program[k].seconds)
    BY <1>1, <1>3, DataSessionAssumption DEF DataSessionAssumption, Metrics
<1>5. "none" \notin Metrics /\ \A m \in Metrics : Parent(m) \in Metrics \cup {"none"}
    BY <1>1, DataSessionAssumption DEF DataSessionAssumption, Metrics, Parent
<1>6. opt.faults \in Nat /\ opt.interrupt \in BOOLEAN
    BY <1>1, DataSessionAssumption DEF DataSessionAssumption
<1> QED
    BY <1>2, <1>4, <1>5, <1>6, LenProperties

\* What RouterAssumption says of the tables.
LEMMA TablesTypes ==
    /\ Aggregates \in Seq(Tables) /\ Aggregates \in Seq(ToSet(Aggregates)) /\ DOMAIN Aggregates = 1..Len(Aggregates) /\ Len(Aggregates) \in Nat
    /\ \A i, j \in DOMAIN Aggregates : Aggregates[i] = Aggregates[j] => i = j
    /\ \A i \in DOMAIN Aggregates : Aggregates[i] # "metrics" /\ Aggregates[i] \in ToSet(Aggregates)
    /\ "metrics" \notin ToSet(Aggregates)
<1>1. Aggregates \in Seq(ToSet(Aggregates)) /\ IsInjective(Aggregates) /\ ~Contains(Aggregates, "metrics")
    BY RouterAssumption DEF RouterAssumption
<1>2. ToSet(Aggregates) \subseteq Tables
    BY DEF Tables
<1>3. Aggregates \in Seq(Tables)
    BY <1>1, <1>2, SeqMonotonic
<1>4. DOMAIN Aggregates = 1..Len(Aggregates) /\ Len(Aggregates) \in Nat
    BY <1>1, LenProperties
<1> QED
    BY <1>1, <1>3, <1>4 DEF IsInjective, Contains, ToSet

\* A piece of a data frame, and its lines.
LEMMA PieceTypes ==
    ASSUME NEW t \in Tables, NEW m \in Metrics, NEW rows \in SUBSET Row, IsFiniteSet(rows),
           t = "metrics" => \A q, r \in rows : q.second = r.second => q = r
    PROVE  /\ PieceOf(t, m, rows) \in Piece
           /\ LinesIn(PieceOf(t, m, rows)) = Tagged(t, m, rows)
<1>1. \A r \in rows : r.second \in Int
    BY DEF Row
<1>2. LinesSet(t, m, rows) \subseteq Line
  <2>1. RawLines(m, rows) \subseteq Line
      BY <1>1 DEF RawLines, Line
  <2>2. SecondLines(m, rows) \subseteq Line
      BY <1>1 DEF SecondLines, Line
  <2> QED
      BY <2>1, <2>2 DEF LinesSet
<1>3. PICK s : s = Lines(t, m, rows)
    OBVIOUS
<1>4. s \in Seq(LinesSet(t, m, rows)) /\ ToSet(s) = LinesSet(t, m, rows)
    BY <1>1, <1>3, LinesGiven
<1>5. s \in Seq(Line)
    BY <1>2, <1>4, SeqMonotonic
<1>6. PieceOf(t, m, rows) \in Piece
    BY <1>3, <1>5 DEF PieceOf, Piece
<1>7. LinesIn(PieceOf(t, m, rows)) = {[table |-> t, line |-> s[j]] : j \in DOMAIN s}
    BY <1>3 DEF LinesIn, PieceOf
<1>8. {[table |-> t, line |-> s[j]] : j \in DOMAIN s} = {[table |-> t, line |-> l] : l \in ToSet(s)}
    BY DEF ToSet
<1> QED
    BY <1>4, <1>6, <1>7, <1>8 DEF Tagged

\* A sequence of one.
LEMMA OneMember ==
    ASSUME NEW S, NEW x \in S
    PROVE  <<x>> \in Seq(S) /\ Len(<<x>>) = 1 /\ <<x>>[1] = x
OBVIOUS

\* The tables that the data of a metric go to.
LEMMA HasType ==
    ASSUME opt \in Options, NEW m \in Metrics
    PROVE  /\ Contains(DataTypes(m), "metrics") <=> opt.metrics[m].raw
           /\ \A t \in ToSet(Aggregates) : Contains(DataTypes(m), t) <=> IsAggregated(m)
<1>1. opt.metrics[m].raw \in BOOLEAN /\ opt.metrics[m].aggregate \in BOOLEAN
    BY DataSessionAssumption DEF DataSessionAssumption, Metrics
<1>2. PICK raw \in Seq(Tables) :
         /\ raw = IF opt.metrics[m].raw THEN <<"metrics">> ELSE << >>
         /\ \A t : (\E i \in 1..Len(raw) : raw[i] = t) <=> t = "metrics" /\ opt.metrics[m].raw
  <2>1. CASE opt.metrics[m].raw
    <3>1. <<"metrics">> \in Seq(Tables) /\ Len(<<"metrics">>) = 1 /\ <<"metrics">>[1] = "metrics"
      <4>1. "metrics" \in Tables
          BY DEF Tables
      <4> QED
          BY <4>1, OneMember
    <3>2. PICK s \in Seq(Tables) : s = <<"metrics">>
        BY <3>1
    <3>3. \A t : (\E i \in 1..Len(s) : s[i] = t) <=> t = "metrics"
        BY <3>1, <3>2
    <3> QED
        BY <2>1, <3>2, <3>3, Zenon
  <2>2. CASE ~opt.metrics[m].raw
    <3>1. << >> \in Seq(Tables) /\ Len(<< >>) = 0
        OBVIOUS
    <3>2. PICK s \in Seq(Tables) : s = << >>
        BY <3>1
    <3>3. \A t : ~\E i \in 1..Len(s) : s[i] = t
        BY <3>1, <3>2
    <3> QED
        BY <2>2, <3>2, <3>3, Zenon
  <2> QED
      BY <2>1, <2>2, Zenon
<1>3. PICK agg \in Seq(Tables) :
         /\ agg = IF opt.metrics[m].aggregate THEN Aggregates ELSE << >>
         /\ \A t : (\E i \in 1..Len(agg) : agg[i] = t) <=> t \in ToSet(Aggregates) /\ opt.metrics[m].aggregate
  <2>1. CASE opt.metrics[m].aggregate
    <3>1. \A t : (\E i \in 1..Len(Aggregates) : Aggregates[i] = t) <=> t \in ToSet(Aggregates)
        BY TablesTypes DEF ToSet
    <3> QED
        BY <2>1, <3>1, TablesTypes, Zenon
  <2>2. CASE ~opt.metrics[m].aggregate
    <3>1. << >> \in Seq(Tables) /\ Len(<< >>) = 0
        OBVIOUS
    <3>2. PICK s \in Seq(Tables) : s = << >>
        BY <3>1
    <3>3. \A t : ~\E i \in 1..Len(s) : s[i] = t
        BY <3>1, <3>2
    <3> QED
        BY <2>2, <3>2, <3>3, Zenon
  <2> QED
      BY <2>1, <2>2, Zenon
<1>4. PICK all \in Seq(Tables) :
         /\ all = raw \o agg /\ Len(all) = Len(raw) + Len(agg)
         /\ \A i \in 1..Len(all) : all[i] = IF i <= Len(raw) THEN raw[i] ELSE agg[i - Len(raw)]
  <2>1. raw \o agg \in Seq(Tables) /\ Len(raw \o agg) = Len(raw) + Len(agg)
      BY ConcatProperties
  <2>2. \A i \in 1..Len(raw) + Len(agg) : (raw \o agg)[i] = IF i <= Len(raw) THEN raw[i] ELSE agg[i - Len(raw)]
      BY ConcatProperties
  <2> QED
      BY <2>1, <2>2
<1>5. DataTypes(m) = all
    BY <1>2, <1>3, <1>4 DEF DataTypes
<1>6. Len(raw) \in Nat /\ Len(agg) \in Nat /\ Len(all) \in Nat
    OBVIOUS
<1>7. \A t : Contains(all, t) <=> (\E i \in 1..Len(raw) : raw[i] = t) \/ \E i \in 1..Len(agg) : agg[i] = t
  <2> TAKE t
  <2>1. ASSUME NEW i \in 1..Len(all), all[i] = t
        PROVE  (\E k \in 1..Len(raw) : raw[k] = t) \/ \E k \in 1..Len(agg) : agg[k] = t
    <3>1. CASE i <= Len(raw)
        BY <1>4, <1>6, <2>1, <3>1
    <3>2. CASE ~(i <= Len(raw))
      <4>1. i - Len(raw) \in 1..Len(agg) /\ agg[i - Len(raw)] = t
          BY <1>4, <1>6, <2>1, <3>2
      <4> QED
          BY <4>1
    <3> QED
        BY <3>1, <3>2
  <2>2. ASSUME NEW i \in 1..Len(raw) PROVE i \in 1..Len(all) /\ all[i] = raw[i]
      BY <1>4, <1>6
  <2>3. ASSUME NEW i \in 1..Len(agg) PROVE Len(raw) + i \in 1..Len(all) /\ all[Len(raw) + i] = agg[i]
    <3>1. Len(raw) + i \in 1..Len(all) /\ ~(Len(raw) + i <= Len(raw)) /\ (Len(raw) + i) - Len(raw) = i
        BY <1>4, <1>6
    <3> QED
        BY <1>4, <3>1
  <2> QED
      BY <2>1, <2>2, <2>3 DEF Contains
<1>8. \A t : Contains(DataTypes(m), t) <=>
           (t = "metrics" /\ opt.metrics[m].raw) \/ (t \in ToSet(Aggregates) /\ opt.metrics[m].aggregate)
    BY <1>2, <1>3, <1>5, <1>7, Zenon
<1>9. \A t \in ToSet(Aggregates) : ~(t = "metrics")
    BY TablesTypes
<1>10. Contains(DataTypes(m), "metrics") <=> opt.metrics[m].raw
  <2>1. ~("metrics" \in ToSet(Aggregates))
      BY TablesTypes
  <2> QED
      BY <1>8, <2>1, Zenon
<1>11. ASSUME NEW t \in ToSet(Aggregates) PROVE Contains(DataTypes(m), t) <=> IsAggregated(m)
    BY <1>8, <1>9, Zenon DEF IsAggregated
<1> QED
    BY <1>10, <1>11

\* Two sequences one after the other.
LEMMA Joint ==
    ASSUME NEW S, NEW a \in Seq(S), NEW b \in Seq(S)
    PROVE  /\ a \o b \in Seq(S) /\ Len(a \o b) = Len(a) + Len(b)
           /\ \A i \in 1..Len(a) : (a \o b)[i] = a[i]
           /\ \A i \in 1..Len(b) : (a \o b)[Len(a) + i] = b[i]
           /\ \A i \in 1..Len(a) + Len(b) : i \in 1..Len(a) \/ (i - Len(a) \in 1..Len(b) /\ (a \o b)[i] = b[i - Len(a)])
<1>1. a \o b \in Seq(S) /\ Len(a \o b) = Len(a) + Len(b) /\ Len(a) \in Nat /\ Len(b) \in Nat
    BY ConcatProperties, LenProperties
<1>2. \A i \in 1..Len(a) + Len(b) : (a \o b)[i] = IF i <= Len(a) THEN a[i] ELSE b[i - Len(a)]
    BY ConcatProperties
<1>3. ASSUME NEW i \in 1..Len(a) PROVE (a \o b)[i] = a[i]
    BY <1>1, <1>2
<1>4. ASSUME NEW i \in 1..Len(b) PROVE (a \o b)[Len(a) + i] = b[i]
  <2>1. Len(a) + i \in 1..Len(a) + Len(b) /\ ~(Len(a) + i <= Len(a)) /\ (Len(a) + i) - Len(a) = i
      BY <1>1
  <2> QED
      BY <1>2, <2>1
<1>5. ASSUME NEW i \in 1..Len(a) + Len(b), i \notin 1..Len(a)
      PROVE  i - Len(a) \in 1..Len(b) /\ (a \o b)[i] = b[i - Len(a)]
  <2>1. i - Len(a) \in 1..Len(b) /\ ~(i <= Len(a))
      BY <1>1, <1>5
  <2> QED
      BY <1>2, <2>1
<1> QED
    BY <1>1, <1>3, <1>4, <1>5

\* The pieces of one table of an aggregated type.
BlockRight(b, t, item, from, others) ==
    /\ b \in Seq(Piece)
    /\ \A p \in 1..Len(b) : b[p].table = t /\ Right(b[p], item, from, others)
    /\ \A p, q \in 1..Len(b) : b[p].metric = b[q].metric => p = q
    /\ \A m : Wanted(item, from, others, t, m) => \E p \in 1..Len(b) : b[p].metric = m

\* What the metric of a turn has for an aggregated table.
LEMMA OwnRight ==
    ASSUME opt \in Options, NEW t \in ToSet(Aggregates), NEW item, NEW from, NEW others, Turn(item, from, others)
    PROVE  LET own == OwnOf(item, t, from)
           IN  /\ own \in Seq(Piece)
               /\ \A i \in 1..Len(own) : i = 1 /\ own[i] = PieceOf(t, item.metric, from)
               /\ own # << >> <=> IsAggregated(item.metric) /\ from # {}
<1>1. t \in Tables /\ t # "metrics" /\ item.metric \in Metrics
    BY TablesTypes DEF Tables, Turn, Item
<1>2. Contains(DataTypes(item.metric), t) <=> IsAggregated(item.metric)
    BY <1>1, HasType
<1>3. PICK p \in Piece : p = PieceOf(t, item.metric, from)
    BY <1>1, PieceTypes DEF Turn
<1>4. CASE IsAggregated(item.metric) /\ from # {}
  <2>1. OwnOf(item, t, from) = <<p>>
      BY <1>2, <1>3, <1>4 DEF OwnOf
  <2>2. <<p>> \in Seq(Piece) /\ Len(<<p>>) = 1 /\ <<p>>[1] = p /\ <<p>> # << >>
      OBVIOUS
  <2> QED
      BY <1>3, <1>4, <2>1, <2>2
<1>5. CASE ~(IsAggregated(item.metric) /\ from # {})
  <2>1. OwnOf(item, t, from) = << >>
      BY <1>2, <1>5 DEF OwnOf
  <2> QED
      BY <1>5, <2>1
<1> QED
    BY <1>4, <1>5

\* What the other metrics have for it.
LEMMA RestRight ==
    ASSUME opt \in Options, router.buffer \in [Metrics -> SUBSET Row],
           NEW t \in ToSet(Aggregates), NEW item, NEW from, NEW others, Turn(item, from, others)
    PROVE  LET rest == RestOf(others, t)
           IN  /\ rest \in Seq(Piece) /\ Len(rest) = Len(others)
               /\ \A i \in 1..Len(others) : rest[i] = PieceOf(t, others[i], router.buffer[others[i]])
<1>1. t \in Tables /\ t # "metrics"
    BY TablesTypes DEF Tables
<1>2. others \in Seq(Metrics) /\ Len(others) \in Nat /\ DOMAIN others = 1..Len(others)
    BY DEF Turn
<1>3. ASSUME NEW i \in 1..Len(others) PROVE PieceOf(t, others[i], router.buffer[others[i]]) \in Piece
  <2>1. others[i] \in Metrics /\ IsFiniteSet(router.buffer[others[i]]) /\ router.buffer[others[i]] \in SUBSET Row
      BY <1>2 DEF Turn
  <2> QED
      BY <1>1, <2>1, PieceTypes
<1>4. PICK rest : rest = [i \in 1..Len(others) |-> PieceOf(t, others[i], router.buffer[others[i]])]
    OBVIOUS
<1>5. rest = RestOf(others, t)
    BY <1>2, <1>4 DEF RestOf
<1>6. rest \in [1..Len(others) -> Piece]
    BY <1>3, <1>4
<1>7. rest \in Seq(Piece) /\ Len(rest) = Len(others)
    BY <1>2, <1>6
<1> QED
    BY <1>4, <1>5, <1>7

\* The two together: every piece that is wanted, and each once.
LEMMA BlockGiven ==
    ASSUME opt \in Options, router.buffer \in [Metrics -> SUBSET Row],
           NEW t \in ToSet(Aggregates), NEW item, NEW from, NEW others, Turn(item, from, others)
    PROVE  BlockRight(OwnOf(item, t, from) \o RestOf(others, t), t, item, from, others)
<1>1. PICK own : own = OwnOf(item, t, from)
    OBVIOUS
<1>2. PICK rest : rest = RestOf(others, t)
    OBVIOUS
<1>3. PICK b : b = own \o rest
    OBVIOUS
<1>4. /\ own \in Seq(Piece)
      /\ \A i \in 1..Len(own) : i = 1 /\ own[i] = PieceOf(t, item.metric, from)
      /\ own # << >> <=> IsAggregated(item.metric) /\ from # {}
    BY <1>1, OwnRight
<1>5. /\ rest \in Seq(Piece) /\ Len(rest) = Len(others)
      /\ \A i \in 1..Len(others) : rest[i] = PieceOf(t, others[i], router.buffer[others[i]])
    BY <1>2, RestRight
<1>6. /\ b \in Seq(Piece) /\ Len(b) = Len(own) + Len(rest)
      /\ \A i \in 1..Len(own) : b[i] = own[i]
      /\ \A i \in 1..Len(rest) : b[Len(own) + i] = rest[i]
      /\ \A i \in 1..Len(b) : i \in 1..Len(own) \/ (i - Len(own) \in 1..Len(rest) /\ b[i] = rest[i - Len(own)])
    BY <1>3, <1>4, <1>5, Joint
<1>7. \A m, rows : PieceOf(t, m, rows).table = t /\ PieceOf(t, m, rows).metric = m
    BY DEF PieceOf
<1>8. /\ others \in Seq(Metrics) /\ \A i, j \in 1..Len(others) : others[i] = others[j] => i = j
      /\ \A i \in 1..Len(others) : others[i] # item.metric /\ others[i] \in ToSet(others)
      /\ Len(others) \in Nat /\ Len(own) \in Nat /\ t # "metrics"
    BY <1>4, TablesTypes DEF Turn, ToSet
<1>9. ASSUME NEW p \in 1..Len(own) PROVE p = 1 /\ b[p].metric = item.metric /\ b[p].table = t /\ Right(b[p], item, from, others)
  <2>1. b[p] = PieceOf(t, item.metric, from) /\ b[p] \in Piece /\ p = 1
      BY <1>4, <1>6
  <2>2. own # << >>
      BY <1>4
  <2> QED
      BY <1>4, <1>7, <1>8, <2>1, <2>2 DEF Right, Share, Wanted
<1>10. ASSUME NEW p \in 1..Len(rest), NEW q \in 1..Len(b), q = Len(own) + p
       PROVE  b[q].metric = others[p] /\ b[q].table = t /\ Right(b[q], item, from, others)
  <2>1. b[q] = PieceOf(t, others[p], router.buffer[others[p]]) /\ b[q] \in Piece
      BY <1>5, <1>6, <1>10
  <2> QED
      BY <1>5, <1>7, <1>8, <2>1 DEF Right, Share, Wanted
<1>11. ASSUME NEW p \in 1..Len(b), p \notin 1..Len(own)
       PROVE  p - Len(own) \in 1..Len(rest) /\ b[p].metric = others[p - Len(own)] /\ b[p].table = t /\ Right(b[p], item, from, others)
  <2>1. PICK k \in 1..Len(rest) : k = p - Len(own)
      BY <1>6, <1>11
  <2>2. p = Len(own) + k
      BY <1>8, <2>1
  <2> QED
      BY <1>10, <2>1, <2>2
<1>12. \A p \in 1..Len(b) : b[p].table = t /\ Right(b[p], item, from, others)
    BY <1>9, <1>11
<1>13. ASSUME NEW p \in 1..Len(b), NEW q \in 1..Len(b), b[p].metric = b[q].metric PROVE p = q
  <2>1. CASE p \in 1..Len(own) /\ q \in 1..Len(own)
      BY <1>9, <2>1
  <2>2. CASE p \in 1..Len(own) /\ q \notin 1..Len(own)
    <3>1. b[p].metric = item.metric
        BY <1>9, <2>2
    <3>2. q - Len(own) \in 1..Len(others) /\ b[q].metric = others[q - Len(own)]
        BY <1>5, <1>11, <2>2
    <3> QED
        BY <1>8, <1>13, <3>1, <3>2
  <2>3. CASE p \notin 1..Len(own) /\ q \in 1..Len(own)
    <3>1. b[q].metric = item.metric
        BY <1>9, <2>3
    <3>2. p - Len(own) \in 1..Len(others) /\ b[p].metric = others[p - Len(own)]
        BY <1>5, <1>11, <2>3
    <3> QED
        BY <1>8, <1>13, <3>1, <3>2
  <2>4. CASE p \notin 1..Len(own) /\ q \notin 1..Len(own)
    <3>1. p - Len(own) = q - Len(own)
        BY <1>5, <1>8, <1>11, <1>13, <2>4
    <3> QED
        BY <1>8, <3>1
  <2> QED
      BY <2>1, <2>2, <2>3, <2>4
<1>14. ASSUME NEW m, Wanted(item, from, others, t, m) PROVE \E p \in 1..Len(b) : b[p].metric = m
  <2>1. CASE m = item.metric /\ IsAggregated(m) /\ from # {}
    <3>1. 1 \in 1..Len(own) /\ 1 \in 1..Len(b)
      <4>1. own # << >>
          BY <1>4, <2>1
      <4> QED
          BY <1>4, <1>5, <1>6, <1>8, <4>1
    <3> QED
        BY <1>9, <2>1, <3>1
  <2>2. CASE m \in ToSet(others)
    <3>1. PICK i \in 1..Len(others) : others[i] = m
        BY <1>8, <2>2 DEF ToSet
    <3>2. PICK q \in 1..Len(b) : q = Len(own) + i
        BY <1>5, <1>6, <1>8
    <3>3. b[q].metric = m
        BY <1>5, <1>10, <3>1, <3>2
    <3> QED
        BY <3>3
  <2> QED
      BY <1>8, <1>14, <2>1, <2>2 DEF Wanted
<1>15. BlockRight(b, t, item, from, others)
    BY <1>6, <1>12, <1>13, <1>14 DEF BlockRight
<1> QED
    BY <1>1, <1>2, <1>3, <1>15

AllWanted(ps, item, from, others) ==
    \A t, m : Wanted(item, from, others, t, m) => \E p \in 1..Len(ps) : ps[p].table = t /\ ps[p].metric = m

FlatIs(f, item, from, others) ==
    /\ AllRight(f, item, from, others)
    /\ \A p \in 1..Len(f) : f[p].table \in ToSet(Aggregates)
    /\ \A t \in ToSet(Aggregates) : \A m : Wanted(item, from, others, t, m) =>
          \E p \in 1..Len(f) : f[p].table = t /\ f[p].metric = m

RawIs(own, item, from, others) ==
    /\ own \in Seq(Piece)
    /\ \A i \in 1..Len(own) : /\ i = 1 /\ own[i].table = "metrics" /\ own[i].metric = item.metric
                              /\ Right(own[i], item, from, others)
    /\ own # << >> <=> Wanted(item, from, others, "metrics", item.metric)

\* The blocks of all aggregated tables: every piece that is wanted, and each
\* once.
LEMMA FlatRight ==
    ASSUME NEW item, NEW from, NEW others, NEW ss \in Seq(Seq(Piece)), Len(ss) = Len(Aggregates),
           \A i \in 1..Len(ss) : BlockRight(ss[i], Aggregates[i], item, from, others)
    PROVE  FlatIs(FlattenSeq(ss), item, from, others)
<1>1. PICK q \in Seq(Piece) : q = FlattenSeq(ss) /\ Placed(q, ss, Len(ss))
    BY Flattened
<1>2. PICK u, v : Places(q, ss, Len(ss), u, v)
    BY <1>1 DEF Placed
<1>3. Len(ss) \in Nat /\ DOMAIN Aggregates = 1..Len(ss)
    BY TablesTypes
<1>4. /\ \A p \in 1..Len(q) : /\ u[p] \in 1..Len(ss) /\ v[p] \in 1..Len(ss[u[p]]) /\ q[p] = ss[u[p]][v[p]]
      /\ \A o, p \in 1..Len(q) : u[o] = u[p] /\ v[o] = v[p] => o = p
      /\ \A i \in 1..Len(ss) : \A j \in 1..Len(ss[i]) : \E p \in 1..Len(q) : u[p] = i /\ v[p] = j
    BY <1>2 DEF Places
<1>5. ASSUME NEW p \in 1..Len(q)
      PROVE  q[p].table = Aggregates[u[p]] /\ Right(q[p], item, from, others)
  <2>1. PICK b : b = ss[u[p]]
      OBVIOUS
  <2>2. BlockRight(b, Aggregates[u[p]], item, from, others)
      BY <1>4, <2>1
  <2>3. v[p] \in 1..Len(b) /\ q[p] = b[v[p]]
      BY <1>4, <2>1
  <2>4. \A k \in 1..Len(b) : b[k].table = Aggregates[u[p]] /\ Right(b[k], item, from, others)
      BY <2>2, Zenon DEF BlockRight
  <2> QED
      BY <2>3, <2>4, Zenon
<1>6. ASSUME NEW o \in 1..Len(q), NEW p \in 1..Len(q), q[o].table = q[p].table, q[o].metric = q[p].metric PROVE o = p
  <2>1. u[o] = u[p]
    <3>1. Aggregates[u[o]] = Aggregates[u[p]]
        BY <1>5, <1>6
    <3> QED
        BY <1>3, <1>4, <3>1, TablesTypes
  <2>2. v[o] = v[p]
    <3>1. PICK b : b = ss[u[o]]
        OBVIOUS
    <3>2. BlockRight(b, Aggregates[u[o]], item, from, others)
        BY <1>4, <3>1
    <3>3. v[o] \in 1..Len(b) /\ v[p] \in 1..Len(b) /\ b[v[o]].metric = b[v[p]].metric
        BY <1>4, <1>6, <2>1, <3>1
    <3>4. \A j, k \in 1..Len(b) : b[j].metric = b[k].metric => j = k
        BY <3>2, Zenon DEF BlockRight
    <3> QED
        BY <3>3, <3>4, Zenon
  <2> QED
      BY <1>4, <2>1, <2>2
<1>7. \A p \in 1..Len(q) : q[p].table \in ToSet(Aggregates)
    BY <1>3, <1>4, <1>5, TablesTypes
<1>8. ASSUME NEW t \in ToSet(Aggregates), NEW m, Wanted(item, from, others, t, m)
      PROVE  \E p \in 1..Len(q) : q[p].table = t /\ q[p].metric = m
  <2>1. PICK i \in 1..Len(ss) : Aggregates[i] = t
      BY <1>3 DEF ToSet
  <2>2. PICK j \in 1..Len(ss[i]) : ss[i][j].metric = m
      BY <1>8, <2>1 DEF BlockRight
  <2>3. PICK p \in 1..Len(q) : u[p] = i /\ v[p] = j
      BY <1>4
  <2>4. q[p].table = t /\ q[p].metric = m
      BY <1>4, <1>5, <2>1, <2>2, <2>3
  <2> QED
      BY <2>4
<1>9. AllRight(q, item, from, others)
    BY <1>5, <1>6 DEF AllRight
<1> QED
    BY <1>1, <1>7, <1>8, <1>9 DEF FlatIs

\* What the metric of a turn has for the raw table.
LEMMA RawRight ==
    ASSUME opt \in Options, NEW item, NEW from, NEW others, Turn(item, from, others)
    PROVE  RawIs(OwnOf(item, "metrics", item.rows), item, from, others)
<1>1. item.metric \in Metrics /\ item.rows \in SUBSET Row /\ "metrics" \in Tables /\ "metrics" \notin ToSet(Aggregates)
    BY TablesTypes DEF Tables, Turn, Item
<1>2. Contains(DataTypes(item.metric), "metrics") <=> opt.metrics[item.metric].raw
    BY <1>1, HasType
<1>3. PICK p \in Piece : p = PieceOf("metrics", item.metric, item.rows)
    BY <1>1, PieceTypes DEF Turn
<1>4. p.table = "metrics" /\ p.metric = item.metric
    BY <1>3 DEF PieceOf
<1>7. PICK own : own = OwnOf(item, "metrics", item.rows)
    OBVIOUS
<1>5. CASE opt.metrics[item.metric].raw /\ item.rows # {}
  <2>1. own = <<p>>
      BY <1>2, <1>3, <1>5, <1>7 DEF OwnOf
  <2>2. Wanted(item, from, others, "metrics", item.metric)
      BY <1>5 DEF Wanted
  <2>3. Right(p, item, from, others)
      BY <1>3, <1>4, <2>2 DEF Right, Share
  <2>4. own \in Seq(Piece) /\ Len(own) = 1 /\ own[1] = p /\ own # << >>
    <3>1. <<p>> \in Seq(Piece) /\ Len(<<p>>) = 1 /\ <<p>>[1] = p /\ <<p>> # << >>
        OBVIOUS
    <3> QED
        BY <2>1, <3>1
  <2>5. \A i \in 1..Len(own) : i = 1
      BY <2>4
  <2>6. RawIs(own, item, from, others)
      BY <1>4, <2>2, <2>3, <2>4, <2>5 DEF RawIs
  <2> QED
      BY <1>7, <2>6
<1>6. CASE ~(opt.metrics[item.metric].raw /\ item.rows # {})
  <2>1. own = << >>
      BY <1>2, <1>6, <1>7 DEF OwnOf
  <2>2. ~Wanted(item, from, others, "metrics", item.metric)
      BY <1>1, <1>6 DEF Wanted
  <2>3. RawIs(own, item, from, others)
      BY <2>1, <2>2 DEF RawIs
  <2> QED
      BY <1>7, <2>3
<1> QED
    BY <1>5, <1>6

\* A whole turn: every piece that is wanted, and each once.
LEMMA PiecesRight ==
    ASSUME opt \in Options, router.buffer \in [Metrics -> SUBSET Row],
           NEW item, NEW from, NEW others, Turn(item, from, others)
    PROVE  /\ AllRight(Pieces(item, from, others), item, from, others)
           /\ AllWanted(Pieces(item, from, others), item, from, others)
<1>1. PICK own : own = OwnOf(item, "metrics", item.rows)
    OBVIOUS
<1>2. PICK ss : ss = [i \in DOMAIN Aggregates |-> OwnOf(item, Aggregates[i], from) \o RestOf(others, Aggregates[i])]
    OBVIOUS
<1>3. Pieces(item, from, others) = own \o FlattenSeq(ss)
    BY <1>1, <1>2 DEF Pieces, OwnOf, RestOf, PieceOf
<1>4. /\ own \in Seq(Piece)
      /\ \A i \in 1..Len(own) : /\ i = 1 /\ own[i].table = "metrics" /\ own[i].metric = item.metric
                                /\ Right(own[i], item, from, others)
      /\ own # << >> <=> Wanted(item, from, others, "metrics", item.metric)
  <2>1. RawIs(own, item, from, others)
      BY <1>1, RawRight
  <2> QED
      BY <2>1, Zenon DEF RawIs
<1>5. DOMAIN Aggregates = 1..Len(Aggregates) /\ Len(Aggregates) \in Nat /\ \A i \in 1..Len(Aggregates) : Aggregates[i] \in ToSet(Aggregates)
    BY TablesTypes
<1>6. \A i \in 1..Len(Aggregates) : BlockRight(ss[i], Aggregates[i], item, from, others)
    BY <1>2, <1>5, BlockGiven
<1>7. ss \in Seq(Seq(Piece)) /\ Len(ss) = Len(Aggregates)
  <2>1. \A i \in 1..Len(Aggregates) : ss[i] \in Seq(Piece)
      BY <1>6 DEF BlockRight
  <2>2. ss \in [1..Len(Aggregates) -> Seq(Piece)]
      BY <1>2, <1>5, <2>1
  <2> QED
      BY <1>5, <2>2
<1>8. PICK f : f = FlattenSeq(ss)
    OBVIOUS
<1>18. \A i \in 1..Len(ss) : BlockRight(ss[i], Aggregates[i], item, from, others)
    BY <1>6, <1>7
<1>9. /\ AllRight(f, item, from, others)
      /\ \A p \in 1..Len(f) : f[p].table \in ToSet(Aggregates)
      /\ \A t \in ToSet(Aggregates) : \A m : Wanted(item, from, others, t, m) =>
            \E p \in 1..Len(f) : f[p].table = t /\ f[p].metric = m
  <2>1. FlatIs(FlattenSeq(ss), item, from, others)
      BY <1>7, <1>18, FlatRight
  <2>2. FlatIs(f, item, from, others)
      BY <1>8, <2>1
  <2> QED
      BY <2>2, Zenon DEF FlatIs
<1>10. f \in Seq(Piece)
    BY <1>9 DEF AllRight
<1>11. PICK b : b = own \o f
    OBVIOUS
<1>12. /\ b \in Seq(Piece) /\ Len(b) = Len(own) + Len(f)
       /\ \A i \in 1..Len(own) : b[i] = own[i]
       /\ \A i \in 1..Len(f) : b[Len(own) + i] = f[i]
       /\ \A i \in 1..Len(b) : i \in 1..Len(own) \/ (i - Len(own) \in 1..Len(f) /\ b[i] = f[i - Len(own)])
    BY <1>4, <1>10, <1>11, Joint
<1>13. Len(own) \in Nat /\ Len(f) \in Nat /\ "metrics" \notin ToSet(Aggregates)
    BY <1>4, <1>10, TablesTypes
<1>14. ASSUME NEW i \in 1..Len(b) PROVE Right(b[i], item, from, others)
  <2>1. CASE i \in 1..Len(own)
      BY <1>4, <1>12, <2>1
  <2>2. CASE i \notin 1..Len(own)
    <3>1. PICK k \in 1..Len(f) : b[i] = f[k]
        BY <1>12, <2>2
    <3> QED
        BY <1>9, <3>1 DEF AllRight
  <2> QED
      BY <2>1, <2>2
<1>15. ASSUME NEW p \in 1..Len(b), NEW q \in 1..Len(b), b[p].table = b[q].table, b[p].metric = b[q].metric PROVE p = q
  <2>1. \A i \in 1..Len(own) : i = 1 /\ b[i].table = "metrics"
      BY <1>4, <1>12
  <2>2. \A i \in 1..Len(b) : i \notin 1..Len(own) => b[i].table # "metrics"
      BY <1>9, <1>12, <1>13
  <2>3. CASE p \in 1..Len(own)
      BY <1>15, <2>1, <2>2, <2>3
  <2>4. CASE p \notin 1..Len(own)
    <3>1. q \notin 1..Len(own)
        BY <1>15, <2>1, <2>2, <2>4
    <3>2. PICK k \in 1..Len(f), l \in 1..Len(f) : k = p - Len(own) /\ l = q - Len(own) /\ b[p] = f[k] /\ b[q] = f[l]
        BY <1>12, <2>4, <3>1
    <3>3. k = l
        BY <1>9, <1>15, <3>2 DEF AllRight
    <3> QED
        BY <1>13, <3>2, <3>3
  <2> QED
      BY <2>3, <2>4
<1>16. ASSUME NEW t, NEW m, Wanted(item, from, others, t, m) PROVE \E p \in 1..Len(b) : b[p].table = t /\ b[p].metric = m
  <2>1. CASE t = "metrics"
    <3>1. m = item.metric
        BY <1>13, <1>16, <2>1 DEF Wanted
    <3>2. 1 \in 1..Len(own) /\ 1 \in 1..Len(b)
      <4>1. own # << >>
          BY <1>4, <1>16, <2>1, <3>1
      <4> QED
          BY <1>4, <1>12, <1>13, <4>1
    <3> QED
        BY <1>4, <1>12, <2>1, <3>1, <3>2
  <2>2. CASE t # "metrics"
    <3>1. t \in ToSet(Aggregates)
        BY <1>16, <2>2 DEF Wanted
    <3>2. PICK i \in 1..Len(f) : f[i].table = t /\ f[i].metric = m
        BY <1>9, <1>16, <3>1
    <3>3. PICK p \in 1..Len(b) : p = Len(own) + i
        BY <1>12, <1>13
    <3> QED
        BY <1>12, <3>2, <3>3
  <2> QED
      BY <2>1, <2>2
<1>17. AllRight(b, item, from, others) /\ AllWanted(b, item, from, others)
    BY <1>12, <1>14, <1>15, <1>16 DEF AllRight, AllWanted
<1> QED
    BY <1>3, <1>8, <1>11, <1>17

\* What a turn gives, as lines.
Gives(ps, item, from, others) ==
    /\ ps \in Seq(Piece)
    /\ \A l : l \in LinesOf(ps) <=> \E t, m : Wanted(item, from, others, t, m) /\ l \in Tagged(t, m, Share(item, from, t, m))
    /\ \A i, j \in 1..Len(ps) : i # j => LinesIn(ps[i]) \cap LinesIn(ps[j]) = {}
    /\ \A i \in 1..Len(ps) : \A j \in DOMAIN ps[i].lines : ps[i].lines[j].metric = ps[i].metric

\* The lines of a turn, each in one piece.
LEMMA TurnGives ==
    ASSUME opt \in Options, router.buffer \in [Metrics -> SUBSET Row],
           NEW item, NEW from, NEW others, Turn(item, from, others)
    PROVE  Gives(Pieces(item, from, others), item, from, others)
<1>1. PICK ps : ps = Pieces(item, from, others)
    OBVIOUS
<1>2. AllRight(ps, item, from, others) /\ AllWanted(ps, item, from, others)
    BY <1>1, PiecesRight
<1>3. ps \in Seq(Piece) /\ DOMAIN ps = 1..Len(ps) /\ Len(ps) \in Nat
    BY <1>2, LenProperties DEF AllRight
<1>4. ASSUME NEW i \in 1..Len(ps)
      PROVE  /\ LinesIn(ps[i]) = Tagged(ps[i].table, ps[i].metric, Share(item, from, ps[i].table, ps[i].metric))
             /\ Wanted(item, from, others, ps[i].table, ps[i].metric)
             /\ ps[i] \in Piece
  <2>1. PICK t, m, rows : t = ps[i].table /\ m = ps[i].metric /\ rows = Share(item, from, t, m)
      OBVIOUS
  <2>2. Right(ps[i], item, from, others)
      BY <1>2 DEF AllRight
  <2>3. ps[i] \in Piece /\ ps[i] = PieceOf(t, m, rows) /\ Wanted(item, from, others, t, m)
      BY <2>1, <2>2 DEF Right
  <2>4. t \in Tables /\ m \in Metrics
      BY <2>1, <2>3 DEF Piece
  <2>5. /\ rows \in SUBSET Row /\ IsFiniteSet(rows)
        /\ t = "metrics" => \A q, r \in rows : q.second = r.second => q = r
    <3>1. CASE t = "metrics"
        BY <2>1, <3>1 DEF Share, Turn, Item
    <3>2. CASE t # "metrics" /\ m = item.metric
        BY <2>1, <3>2 DEF Share, Turn
    <3>3. CASE t # "metrics" /\ m # item.metric
      <4>1. m \in ToSet(others)
          BY <2>3, <3>3 DEF Wanted
      <4>2. IsFiniteSet(router.buffer[m])
          BY <4>1 DEF Turn, ToSet
      <4> QED
          BY <2>1, <2>4, <3>3, <4>2 DEF Share
    <3> QED
        BY <3>1, <3>2, <3>3
  <2>6. LinesIn(PieceOf(t, m, rows)) = Tagged(t, m, rows)
      BY <2>4, <2>5, PieceTypes
  <2> QED
      BY <2>1, <2>3, <2>6
<1>5. \A t, m, rows : \A l \in Tagged(t, m, rows) : l.table = t /\ l.line.metric = m
    BY DEF Tagged, LinesSet, RawLines, SecondLines
<1>6. \A i \in 1..Len(ps) : \A l \in LinesIn(ps[i]) : l.table = ps[i].table /\ l.line.metric = ps[i].metric
    BY <1>4, <1>5
<1>7. ASSUME NEW i \in 1..Len(ps), NEW j \in 1..Len(ps), i # j PROVE LinesIn(ps[i]) \cap LinesIn(ps[j]) = {}
  <2>1. ps[i].table # ps[j].table \/ ps[i].metric # ps[j].metric
      BY <1>2, <1>7 DEF AllRight
  <2> QED
      BY <1>6, <2>1
<1>8. ASSUME NEW i \in 1..Len(ps), NEW j \in DOMAIN ps[i].lines PROVE ps[i].lines[j].metric = ps[i].metric
  <2>1. PICK l : l = [table |-> ps[i].table, line |-> ps[i].lines[j]]
      OBVIOUS
  <2>2. l \in LinesIn(ps[i])
      BY <2>1 DEF LinesIn
  <2> QED
      BY <1>6, <2>1, <2>2
<1>9. ASSUME NEW l \in LinesOf(ps)
      PROVE  \E t, m : Wanted(item, from, others, t, m) /\ l \in Tagged(t, m, Share(item, from, t, m))
  <2>1. PICK i \in 1..Len(ps) : l \in LinesIn(ps[i])
      BY <1>3, <1>9 DEF LinesOf
  <2> QED
      BY <1>4, <2>1
<1>10. ASSUME NEW l, NEW t, NEW m, Wanted(item, from, others, t, m), l \in Tagged(t, m, Share(item, from, t, m))
       PROVE  l \in LinesOf(ps)
  <2>1. PICK p \in 1..Len(ps) : ps[p].table = t /\ ps[p].metric = m
      BY <1>2, <1>10 DEF AllWanted
  <2>2. l \in LinesIn(ps[p])
      BY <1>4, <1>10, <2>1
  <2> QED
      BY <1>3, <2>2 DEF LinesOf
<1> QED
    BY <1>1, <1>3, <1>7, <1>8, <1>9, <1>10 DEF Gives

Outcome == [times : 0..2, result : {"ok", "connection", "error"}]

\* How a request may end.
LEMMA OutcomeTypes ==
    ASSUME server \in ServerType, NEW o \in Outcomes
    PROVE  /\ o \in Outcome /\ (o.result = "ok" => o.times \in {1, 2}) /\ (o.times = 2 => o.result = "ok")
           /\ o = Plain \/ server.faults # 0
<1>1. Plain \in Outcome /\ Plain.times = 1 /\ Plain.result = "ok"
    BY DEF Plain, Outcome
<1>2. PICK two : two = [Plain EXCEPT !.times = 2]
    OBVIOUS
<1>3. two \in Outcome /\ two.times = 2 /\ two.result = "ok"
    BY <1>2 DEF Plain, Outcome
<1>4. CASE o = Plain
    BY <1>1, <1>4
<1>5. CASE o # Plain
  <2>1. server.faults # 0
      BY <1>5 DEF Outcomes
  <2>2. o = two \/ \E n \in 0..1, r \in {"connection", "error"} : o = [times |-> n, result |-> r]
      BY <1>2, <1>5, <2>1 DEF Outcomes
  <2>3. CASE o = two
      BY <1>3, <2>1, <2>3
  <2>4. CASE o # two
    <3>1. PICK n \in 0..1, r \in {"connection", "error"} : o = [times |-> n, result |-> r]
        BY <2>2, <2>4
    <3> QED
        BY <2>1, <3>1 DEF Outcome
  <2> QED
      BY <2>3, <2>4
<1> QED
    BY <1>4, <1>5

\* What an outcome does to the record of the server, apart from what was asked for.
Took(o, s, t) ==
    /\ t \in ServerType
    /\ t.jobs = s.jobs /\ t.closed = s.closed /\ t.created = s.created /\ t.stored = s.stored /\ t.again = s.again
    /\ t.faults <= s.faults
    /\ s.shaky => t.shaky
    /\ ~t.shaky => ~s.shaky /\ o.times # 2 /\ o.result # "connection"
    /\ t.faults = s.faults => o = Plain /\ t.shaky = s.shaky
    /\ o = Plain => t.faults = s.faults

\* What a request does to the faults that are left.
LEMMA UsedTypes ==
    ASSUME NEW s \in ServerType, NEW o, o = Plain \/ s.faults # 0
    PROVE  Took(o, s, Used(o, s))
<1>1. PICK d, b : d = Faulty(o).faults /\ b = (s.shaky \/ Faulty(o).shaky)
    OBVIOUS
<1>2. d = (IF o = Plain THEN 0 ELSE 1) /\ b \in BOOLEAN
    BY <1>1 DEF Faulty
<1>3. b = (s.shaky \/ o.times = 2 \/ o.result = "connection")
    BY <1>1 DEF Faulty
<1>4. PICK t : t = Used(o, s)
    OBVIOUS
<1>5. t = [s EXCEPT !.faults = s.faults - d, !.shaky = b]
    BY <1>1, <1>4, Zenon DEF Used
<1>6. s.faults \in Nat /\ s.shaky \in BOOLEAN
    BY DEF ServerType
<1>7. s.faults - d \in Nat
    BY <1>2, <1>6
<1>8. t \in ServerType
    BY <1>2, <1>5, <1>7 DEF ServerType
<1>9. /\ t.jobs = s.jobs /\ t.closed = s.closed /\ t.created = s.created /\ t.stored = s.stored /\ t.again = s.again
      /\ t.faults = s.faults - d /\ t.shaky = b
    BY <1>5 DEF ServerType
<1>10. Plain.times = 1 /\ Plain.result = "ok"
    BY DEF Plain
<1>11. s.shaky => b
    BY <1>3, Zenon
<1>12. ~b => ~s.shaky /\ o.times # 2 /\ o.result # "connection"
    BY <1>3, Zenon
<1>13. d = 0 => o = Plain /\ b = s.shaky
  <2> HAVE d = 0
  <2>1. o = Plain
      BY <1>2
  <2>2. ~(o.times = 2) /\ ~(o.result = "connection")
      BY <1>10, <2>1
  <2>3. b <=> s.shaky
      BY <1>3, <2>2, Zenon
  <2> QED
      BY <1>2, <1>6, <2>1, <2>3
<1>14. Took(o, s, t)
    BY <1>2, <1>6, <1>8, <1>9, <1>11, <1>12, <1>13 DEF Took
<1> QED
    BY <1>4, <1>14

\* The same of one of the outcomes that are possible now.
LEMMA ServerAsked ==
    ASSUME server \in ServerType, NEW o \in Outcomes, NEW s \in ServerType, s.faults = server.faults
    PROVE  o \in Outcome /\ Took(o, s, Used(o, s))
BY OutcomeTypes, UsedTypes

-----------------------------------------------------------------------------
Typed == TypeOK /\ Working

\* The types at the start.
LEMMA InitTyped == ASSUME Init PROVE Typed
<1>1. opt \in Options
    BY DEF Init
<1>2. opt.faults \in Nat
    BY <1>1, OptionTypes
<1>3. << >> \in Seq(Metrics) /\ << >> \in Seq(Item) /\ << >> \in Seq(Piece) /\ << >> \in Seq(Table)
    OBVIOUS
<1>4. router \in RouterType
  <2>1. PICK b : b = [m \in DOMAIN opt.metrics |-> {}]
      OBVIOUS
  <2>2. b \in [Metrics -> SUBSET Row]
      BY <2>1 DEF Metrics
  <2> QED
      BY <2>1, <2>2 DEF Init, RouterInit, RouterType
<1>5. luna \in LunaType /\ register \in RegisterType /\ lock \in BOOLEAN /\ register.at = "loop"
    BY <1>3 DEF Init, LunaInit, LunaType, RegisterType
<1>6. worker \in WorkerType(worker.left) /\ worker.at = "loop" /\ worker.left = << >>
    BY <1>3 DEF Init, LunaInit, WorkerType
<1>7. server \in ServerType
    BY <1>2, <1>3 DEF Init, LunaInit, ServerType
<1>8. main \in [at : Stages, i : Nat \ {0}]
    BY DEF Init, Stages, NotClosing
<1>9. metrics \in Seq(Metrics) /\ routing \in Seq(Item)
    BY <1>3 DEF Init, RouterInit
<1> QED
    BY <1>1, <1>4, <1>5, <1>6, <1>7, <1>8, <1>9 DEF Typed, TypeOK, Working

\* The options stay, so that what was a type before a step is one after it.
LEMMA TypesStay ==
    ASSUME opt' = opt
    PROVE  /\ Metrics' = Metrics /\ Tables' = Tables /\ Row' = Row /\ Line' = Line /\ Piece' = Piece /\ Table' = Table
           /\ Item' = Item /\ Tagging' = Tagging /\ RouterType' = RouterType /\ LunaType' = LunaType
           /\ RegisterType' = RegisterType /\ ServerType' = ServerType
BY DEF Metrics, Tables, Row, Line, Piece, Table, Item, Tagging, RouterType, LunaType, RegisterType, ServerType

Place == [at : Stages, i : Nat \ {0}]

\* The types after a step, variable by variable.
LEMMA TypedNext ==
    ASSUME TypeOK, opt' = opt, metrics' \in Seq(Metrics), routing' \in Seq(Item), router' \in RouterType, main' \in Place,
           luna' \in LunaType, register' \in RegisterType, lock' \in BOOLEAN, worker' \in WorkerType(worker'.left),
           server' \in ServerType, Working'
    PROVE  Typed'
<1>1. WorkerType(worker.left)' = WorkerType(worker'.left)
    BY TypesStay DEF WorkerType
<1> QED
    BY <1>1, TypesStay DEF Typed, TypeOK, Place

\* Telling the uploading thread to stop, or interrupting it.
LEMMA WorkerFields ==
    ASSUME NEW w, w \in WorkerType(w.left)
    PROVE  /\ Stopped(w) \in WorkerType(w.left) /\ Interrupted(w) \in WorkerType(w.left)
           /\ \A v \in {Stopped(w), Interrupted(w)} :
                 v.at = w.at /\ v.left = w.left /\ v.data = w.data /\ v.part = w.part /\ v.final = w.final /\ v.stopped
           /\ Interrupted(w).interrupted /\ Stopped(w).interrupted = w.interrupted
BY DEF WorkerType, Stopped, Interrupted

\* Telling the registering thread to stop, or interrupting it.
LEMMA RegisterFields ==
    ASSUME NEW w \in RegisterType
    PROVE  /\ Stopped(w) \in RegisterType /\ Interrupted(w) \in RegisterType
           /\ \A v \in {Stopped(w), Interrupted(w)} : v.at = w.at /\ v.todo = w.todo /\ v.metric = w.metric /\ v.stopped
           /\ Interrupted(w).interrupted /\ Stopped(w).interrupted = w.interrupted
BY DEF RegisterType, Stopped, Interrupted

\* The thread that uploads stays where it is.
SameWork(w, v) == v.at = w.at /\ v.left = w.left /\ v.data = w.data /\ v.part = w.part /\ v.final = w.final

\* The thread that registers asks for nothing new.
SameAsk(r, q) == q.at = "ask" => r.at = "ask" /\ q.metric = r.metric

\* What the threads are at, when they are only told something.
LEMMA SameWorking ==
    ASSUME Working, opt' = opt, SameWork(worker, worker'), SameAsk(register, register')
    PROVE  Working'
BY TypesStay DEF Working, SameWork, SameAsk

-----------------------------------------------------------------------------
\* The number of the job is asked for.
JobAsked ==
    /\ luna' \in LunaType /\ luna'.queue = luna.queue /\ luna'.ids = luna.ids
    /\ worker' \in WorkerType(worker'.left) /\ SameWork(worker, worker')
    /\ server' \in ServerType
    /\ server'.closed = server.closed /\ server'.created = server.created
    /\ server'.stored = server.stored /\ server'.again = server.again
    /\ server'.faults <= server.faults /\ (server.shaky => server'.shaky)
    /\ lock' = lock
    /\ server'.faults = server.faults /\ ~luna.failed =>
          /\ luna'.job = "made" /\ luna'.failed = luna.failed /\ luna'.put = luna.put
          /\ worker' = worker /\ server'.shaky = server.shaky

\* The request for the number of the job.
LEMMA AsksForJob ==
    ASSUME TypeOK, NEW o, MakesJob(o), o \in Outcome, o = Plain \/ server.faults # 0
    PROVE  /\ server' \in ServerType
           /\ server'.closed = server.closed /\ server'.created = server.created
           /\ server'.stored = server.stored /\ server'.again = server.again
           /\ server'.faults <= server.faults /\ (server.shaky => server'.shaky)
           /\ server'.faults = server.faults => o = Plain /\ server'.shaky = server.shaky
<1>1. PICK s : s = [server EXCEPT !.jobs = @ + o.times]
    OBVIOUS
<1>2. /\ s \in ServerType /\ s.closed = server.closed /\ s.created = server.created
      /\ s.stored = server.stored /\ s.again = server.again /\ s.faults = server.faults /\ s.shaky = server.shaky
  <2>1. PICK n \in Nat : n = server.jobs + o.times
      BY DEF TypeOK, ServerType, Outcome
  <2>2. s = [server EXCEPT !.jobs = n]
      BY <1>1, <2>1
  <2> QED
      BY <2>2 DEF TypeOK, ServerType
<1>3. Took(o, s, Used(o, s))
    BY <1>2, UsedTypes
<1>4. server' = Used(o, s)
    BY <1>1 DEF MakesJob
<1> QED
    BY <1>2, <1>3, <1>4 DEF Took

\* The number comes.
LEMMA JobMadeAsked ==
    ASSUME TypeOK, NEW o \in Outcomes, JobMade(o)
    PROVE  JobAsked /\ register' = register
<1>1. o \in Outcome /\ (o = Plain \/ server.faults # 0)
    BY OutcomeTypes DEF TypeOK
<1>2. luna' \in LunaType /\ luna'.queue = luna.queue /\ luna'.ids = luna.ids
      /\ luna'.job = "made" /\ luna'.failed = luna.failed /\ luna'.put = luna.put
    BY DEF JobMade, TypeOK, LunaType
<1>3. MakesJob(o) /\ register' = register /\ lock' = lock /\ worker' = worker
    BY DEF JobMade
<1>4. /\ server' \in ServerType
      /\ server'.closed = server.closed /\ server'.created = server.created
      /\ server'.stored = server.stored /\ server'.again = server.again
      /\ server'.faults <= server.faults /\ (server.shaky => server'.shaky)
      /\ server'.faults = server.faults => server'.shaky = server.shaky
    BY <1>1, <1>3, AsksForJob
<1> QED
    BY <1>2, <1>3, <1>4 DEF JobAsked, SameWork, TypeOK

\* The request fails, and both threads are interrupted.
LEMMA JobFailsAsked ==
    ASSUME TypeOK, NEW o \in Outcomes, JobFails(o)
    PROVE  JobAsked /\ register' = Interrupted(register)
<1>1. o \in Outcome /\ (o = Plain \/ server.faults # 0) /\ o.result # "ok" /\ Plain.result = "ok"
    BY OutcomeTypes DEF TypeOK, JobFails, Plain
<1>2. luna' \in LunaType /\ luna'.queue = luna.queue /\ luna'.ids = luna.ids
    BY DEF JobFails, TypeOK, LunaType
<1>3. MakesJob(o) /\ register' = Interrupted(register) /\ lock' = lock /\ worker' = Interrupted(worker)
    BY DEF JobFails
<1>4. /\ server' \in ServerType
      /\ server'.closed = server.closed /\ server'.created = server.created
      /\ server'.stored = server.stored /\ server'.again = server.again
      /\ server'.faults <= server.faults /\ (server.shaky => server'.shaky)
      /\ server'.faults # server.faults
    BY <1>1, <1>3, AsksForJob
<1>5. worker' \in WorkerType(worker'.left) /\ SameWork(worker, worker')
    BY <1>3, WorkerFields DEF TypeOK, SameWork
<1> QED
    BY <1>2, <1>3, <1>4, <1>5 DEF JobAsked

\* The answer has no number.
LEMMA NoJobIdAsked ==
    ASSUME TypeOK, NoJobId
    PROVE  JobAsked /\ server'.faults # server.faults
<1>1. PICK o : o = [Plain EXCEPT !.times = 0]
    OBVIOUS
<1>2. o \in Outcome /\ server.faults # 0 /\ o # Plain
    BY <1>1 DEF Plain, Outcome, NoJobId
<1>3. luna' \in LunaType /\ luna'.queue = luna.queue /\ luna'.ids = luna.ids
    BY DEF NoJobId, TypeOK, LunaType
<1>4. MakesJob(o) /\ lock' = lock /\ worker' = Interrupted(worker)
    BY <1>1 DEF NoJobId
<1>5. /\ server' \in ServerType
      /\ server'.closed = server.closed /\ server'.created = server.created
      /\ server'.stored = server.stored /\ server'.again = server.again
      /\ server'.faults <= server.faults /\ (server.shaky => server'.shaky)
      /\ server'.faults # server.faults
    BY <1>2, <1>4, AsksForJob
<1>6. worker' \in WorkerType(worker'.left) /\ SameWork(worker, worker')
    BY <1>4, WorkerFields DEF TypeOK, SameWork
<1> QED
    BY <1>3, <1>4, <1>5, <1>6 DEF JobAsked

\* The client has failed: there is no number, and no request.
LEMMA NoJobAnyMoreAsked ==
    ASSUME TypeOK, NoJobAnyMore
    PROVE  JobAsked /\ register' = register
<1>1. luna' = [luna EXCEPT !.job = "none"] /\ luna.failed /\ UNCHANGED <<register, lock, worker, server>>
    BY DEF NoJobAnyMore
<1>2. luna' \in LunaType /\ luna'.queue = luna.queue /\ luna'.ids = luna.ids
    BY <1>1 DEF TypeOK, LunaType
<1>3. server \in ServerType /\ server.faults <= server.faults
    BY DEF TypeOK, ServerType
<1>4. worker' \in WorkerType(worker'.left)
    BY <1>1 DEF TypeOK
<1> QED
    BY <1>1, <1>2, <1>3, <1>4 DEF JobAsked, SameWork

\* How the thread that registers comes out of it.
LEMMA RegisterAsked ==
    ASSUME TypeOK, RegisterMakesJob
    PROVE  /\ JobAsked /\ register' \in RegisterType /\ SameAsk(register, register')
           /\ register.at = "ask"
           /\ register' \in {register, Interrupted(register), [register EXCEPT !.at = "dead"]}
           /\ server'.faults = server.faults /\ ~luna.failed => register' = register
<1>1. /\ register \in RegisterType /\ Interrupted(register) \in RegisterType /\ [register EXCEPT !.at = "dead"] \in RegisterType
      /\ SameAsk(register, register) /\ SameAsk(register, Interrupted(register))
      /\ SameAsk(register, [register EXCEPT !.at = "dead"])
  <2>1. [register EXCEPT !.at = "dead"] \in RegisterType /\ [register EXCEPT !.at = "dead"].at = "dead"
      BY DEF TypeOK, RegisterType
  <2> QED
      BY <2>1, RegisterFields DEF TypeOK, SameAsk
<1>2. ASSUME NEW o \in Outcomes, JobMade(o) PROVE JobAsked /\ register' = register
    BY <1>2, JobMadeAsked
<1>3. ASSUME NEW o \in Outcomes, JobFails(o)
      PROVE  JobAsked /\ register' = Interrupted(register) /\ (server'.faults = server.faults => luna.failed)
  <2>1. JobAsked /\ register' = Interrupted(register)
      BY <1>3, JobFailsAsked
  <2>2. luna'.job = "none"
      BY <1>3 DEF JobFails, TypeOK, LunaType
  <2> QED
      BY <2>1, <2>2 DEF JobAsked
<1>4. CASE NoJobAnyMore
  <2>1. luna.failed /\ JobAsked /\ register' = register
      BY <1>4, NoJobAnyMoreAsked DEF NoJobAnyMore
  <2> QED
      BY <1>1, <2>1 DEF RegisterMakesJob
<1>5. CASE NoJobId /\ register' = [register EXCEPT !.at = "dead"]
    BY <1>1, <1>5, NoJobIdAsked DEF RegisterMakesJob
<1> QED
    BY <1>1, <1>2, <1>3, <1>4, <1>5 DEF RegisterMakesJob

\* main asks for the number; without a fault it has it and goes on.
LEMMA MainAsked ==
    ASSUME TypeOK, NEW ends, MainMakesJob(ends)
    PROVE  /\ JobAsked /\ register' \in RegisterType /\ SameAsk(register, register')
           /\ register' \in {register, Interrupted(register)}
           /\ UNCHANGED main \/ ends
           /\ UNCHANGED <<opt, metrics, routing, router, local>>
           /\ server'.faults = server.faults /\ ~luna.failed => register' = register /\ UNCHANGED main
<1>1. /\ register \in RegisterType /\ Interrupted(register) \in RegisterType
      /\ SameAsk(register, register) /\ SameAsk(register, Interrupted(register))
    BY RegisterFields DEF TypeOK, SameAsk
<1>2. ASSUME NEW o \in Outcomes, JobMade(o) PROVE JobAsked /\ register' = register
    BY <1>2, JobMadeAsked
<1>3. ASSUME NEW o \in Outcomes, JobFails(o)
      PROVE  JobAsked /\ register' = Interrupted(register) /\ (server'.faults = server.faults => luna.failed)
  <2>1. JobAsked /\ register' = Interrupted(register)
      BY <1>3, JobFailsAsked
  <2>2. luna'.job = "none"
      BY <1>3 DEF JobFails, TypeOK, LunaType
  <2> QED
      BY <2>1, <2>2 DEF JobAsked
<1>4. CASE NoJobAnyMore /\ UNCHANGED main
  <2>1. luna.failed /\ JobAsked /\ register' = register
      BY <1>4, NoJobAnyMoreAsked DEF NoJobAnyMore
  <2> QED
      BY <1>1, <1>4, <2>1 DEF MainMakesJob
<1>5. CASE NoJobId /\ UNCHANGED register /\ ends
    BY <1>1, <1>5, NoJobIdAsked DEF MainMakesJob
<1>6. CASE (\E o \in Outcomes : JobMade(o) \/ JobFails(o)) /\ UNCHANGED main
  <2>1. UNCHANGED <<opt, metrics, routing, router, local>>
      BY DEF MainMakesJob
  <2> QED
      BY <1>1, <1>2, <1>3, <1>6, <2>1
<1> QED
    BY <1>4, <1>5, <1>6 DEF MainMakesJob

\* The types after a step of main alone.
LEMMA MainMoves ==
    ASSUME Typed, UNCHANGED <<opt, routing, router, luna, register, lock, worker>>,
           metrics' \in Seq(Metrics), main' \in Place, server' \in ServerType
    PROVE  Typed'
<1>1. Working'
    BY SameWorking DEF Typed, SameWork, SameAsk
<1> QED
    BY <1>1, TypedNext DEF Typed, TypeOK

\* Where main goes.
LEMMA Moves ==
    ASSUME main \in Place
    PROVE  /\ Next1 => main' \in Place /\ main'.at = main.at /\ main'.i = main.i + 1
           /\ \A place \in Stages : /\ Goes(place) => main' \in Place /\ main'.at = place /\ main'.i = 1
                                    /\ At(place) => main' \in Place /\ main'.at = place /\ main'.i = main.i
           /\ NextClient => main' \in Place /\ main'.at = "close" /\ main'.i = main.i + 1
           /\ UNCHANGED main => main' \in Place
<1>1. main.at \in Stages /\ main.i \in Nat \ {0} /\ main.i + 1 \in Nat \ {0}
    BY DEF Place
<1>2. Next1 => main' \in Place /\ main'.at = main.at /\ main'.i = main.i + 1
    BY <1>1 DEF Next1, Place
<1>3. NextClient => main' \in Place /\ main'.at = "close" /\ main'.i = main.i + 1
  <2>1. PICK n \in Nat \ {0} : n = main.i + 1
      BY <1>1
  <2>2. "close" \in Stages
      BY DEF Stages, InClose
  <2> QED
      BY <2>1, <2>2 DEF NextClient, Place
<1>4. ASSUME NEW place \in Stages
      PROVE  /\ Goes(place) => main' \in Place /\ main'.at = place /\ main'.i = 1
             /\ At(place) => main' \in Place /\ main'.at = place /\ main'.i = main.i
    BY <1>1 DEF Goes, At, Place
<1> QED
    BY <1>2, <1>3, <1>4

\* The constructor leaves the threads alone.
LEMMA BuildTyped ==
    ASSUME Typed, Build
    PROVE  Typed' /\ UNCHANGED <<opt, metrics, routing, router, luna, register, lock, worker>>
<1>1. main \in Place /\ metrics \in Seq(Metrics) /\ server \in ServerType
    BY DEF Typed, TypeOK, Place
<1>2. {"raised", "locked", "user"} \subseteq Stages
    BY DEF Stages, NotClosing
<1>3. CASE BuildLuna
  <2>1. main' \in Place
      BY <1>1, <1>2, <1>3, Moves DEF BuildLuna
  <2>2. UNCHANGED <<opt, metrics, routing, router, luna, register, lock, worker, server>>
      BY <1>3 DEF BuildLuna, Untouched, threads
  <2> QED
      BY <1>1, <2>1, <2>2, MainMoves
<1>4. CASE BuildLocal
  <2>1. main' \in Place
      BY <1>1, <1>2, <1>4, Moves DEF BuildLocal
  <2>2. UNCHANGED <<opt, metrics, routing, router, luna, register, lock, worker, server>>
      BY <1>4 DEF BuildLocal, Untouched, threads
  <2> QED
      BY <1>1, <2>1, <2>2, MainMoves
<1>5. CASE BuildVolta
  <2>1. main' \in Place
      BY <1>1, <1>2, <1>5, Moves DEF BuildVolta
  <2>2. UNCHANGED <<opt, metrics, routing, router, luna, register, lock, worker>>
      BY <1>5 DEF BuildVolta
  <2>3. server' \in ServerType
    <3>1. server' = server \/ (server.faults > 0 /\ server' = [server EXCEPT !.faults = @ - 1])
        BY <1>5 DEF BuildVolta
    <3> QED
        BY <1>1, <3>1 DEF ServerType
  <2> QED
      BY <1>1, <2>1, <2>2, <2>3, MainMoves
<1>6. CASE Built
  <2>1. main' \in Place
      BY <1>1, <1>2, <1>6, Moves DEF Built
  <2>2. UNCHANGED <<opt, metrics, routing, router, luna, register, lock, worker, server>>
      BY <1>6 DEF Built, Untouched, threads
  <2> QED
      BY <1>1, <2>1, <2>2, MainMoves
<1> QED
    BY <1>3, <1>4, <1>5, <1>6 DEF Build

\* The argument of a call.
LEMMA CallTypes ==
    ASSUME Typed, NEW name, Call(name)
    PROVE  /\ main.i \in 1..Len(opt.program) /\ opt.program[main.i] = Argument /\ Argument.call = name
           /\ name \in {"metric", "put"} => Argument.metric \in Metrics
           /\ name = "put" => Argument.seconds \subseteq Int /\ IsFiniteSet(Argument.seconds)
<1>1. opt \in Options /\ opt.program[main.i].call = name /\ main.i \in Nat \ {0} /\ main.i <= Len(opt.program)
    BY DEF Typed, TypeOK, Call
<1>2. main.i \in 1..Len(opt.program)
    BY <1>1, OptionTypes
<1> QED
    BY <1>1, <1>2, OptionTypes DEF Argument

\* The rows of a frame: of the call that put it, and of seconds that differ.
LEMMA FramesTyped ==
    ASSUME opt \in Options, NEW k \in 1..Len(opt.program), opt.program[k].call = "put"
    PROVE  /\ Frame(k, opt.program[k].seconds) \in SUBSET Row
           /\ IsFiniteSet(Frame(k, opt.program[k].seconds))
           /\ \A r \in Frame(k, opt.program[k].seconds) : r.put = k /\ r.second \in Int
           /\ \A q, r \in Frame(k, opt.program[k].seconds) : q.second = r.second => q = r
<1>1. PICK S : S = opt.program[k].seconds
    OBVIOUS
<1>2. S \subseteq Int /\ IsFiniteSet(S) /\ k \in Nat
    BY <1>1, OptionTypes
<1>3. PICK f : f = [s \in S |-> [put |-> k, second |-> s]]
    OBVIOUS
<1>4. Range(f) = Frame(k, S) /\ DOMAIN f = S /\ f = [s \in DOMAIN f |-> f[s]]
    BY <1>3 DEF Range, Frame
<1>5. IsFiniteSet(Frame(k, S))
    BY <1>2, <1>4, FiniteImage
<1>6. Frame(k, S) \in SUBSET Row
    BY <1>2 DEF Frame, Row
<1>7. \A r \in Frame(k, S) : r.put = k /\ r.second \in Int
    BY <1>2 DEF Frame
<1>8. \A q, r \in Frame(k, S) : q.second = r.second => q = r
    BY DEF Frame
<1> QED
    BY <1>1, <1>5, <1>6, <1>7, <1>8

\* A call of put.
LEMMA PutTyped ==
    ASSUME Typed, Put
    PROVE  /\ Typed' /\ UNCHANGED <<opt, metrics, router, luna, register, lock, worker, server>>
           /\ main.at = "user" /\ main.i \in 1..Len(opt.program) /\ main' = [main EXCEPT !.i = main.i + 1]
           /\ opt.program[main.i].call = "put"
           /\ \E item \in Item : IsPut(item, main.i) /\ routing' = Append(routing, item)
<1>1. Call("put") /\ main' = [main EXCEPT !.i = main.i + 1]
    BY DEF Put, Next1
<1>2. main.i \in 1..Len(opt.program) /\ Argument = opt.program[main.i] /\ Argument.call = "put" /\ Argument.metric \in Metrics
    BY <1>1, CallTypes
<1>3. PICK rows : rows = Frame(main.i, Argument.seconds)
    OBVIOUS
<1>4. rows \in SUBSET Row
    BY <1>2, <1>3, FramesTyped DEF Typed, TypeOK
<1>5. PICK item : item = [metric |-> Argument.metric, rows |-> rows]
    OBVIOUS
<1>6. item \in Item /\ IsPut(item, main.i)
    BY <1>2, <1>3, <1>4, <1>5 DEF Item, IsPut
<1>7. routing' = Append(routing, item) /\ UNCHANGED <<opt, metrics, router, luna, register, lock, worker, server>>
    BY <1>3, <1>5 DEF Put, PutRows, threads
<1>8. routing' \in Seq(Item) /\ main' \in Place
  <2>1. Append(routing, item) \in Seq(Item)
      BY <1>6, AppendProperties DEF Typed, TypeOK
  <2>2. main \in Place /\ Next1
      BY DEF Typed, TypeOK, Place, Put
  <2> QED
      BY <1>7, <2>1, <2>2, Moves
<1>9. Working'
    BY <1>7, SameWorking DEF Typed, SameWork, SameAsk
<1>10. Typed'
    BY <1>7, <1>8, <1>9, TypedNext DEF Typed, TypeOK
<1> QED
    BY <1>1, <1>2, <1>6, <1>7, <1>10 DEF Call

\* What the rest of the steps has in common: nothing that is held or stored is touched.
DataSame ==
    /\ luna'.queue = luna.queue /\ luna'.ids = luna.ids
    /\ worker'.data = worker.data /\ worker'.part = worker.part
    /\ worker'.at = "send" <=> worker.at = "send"
    /\ worker.at = "send" => worker'.left = worker.left
    /\ server'.created = server.created /\ server'.stored = server.stored /\ server'.again = server.again
    /\ server.shaky => server'.shaky

\* Asking for the number of the job moves no rows.
LEMMA JobAskedSame ==
    ASSUME JobAsked PROVE DataSame
BY DEF JobAsked, DataSame, SameWork

\* The types after it.
LEMMA JobTyped ==
    ASSUME Typed, JobAsked, register' \in RegisterType, SameAsk(register, register'), main' \in Place, UNCHANGED <<opt, metrics, routing, router>>
    PROVE  Typed'
<1>1. Working'
    BY SameWorking DEF Typed, JobAsked
<1>2. /\ luna' \in LunaType /\ worker' \in WorkerType(worker'.left) /\ server' \in ServerType /\ lock' \in BOOLEAN
      /\ metrics' \in Seq(Metrics) /\ routing' \in Seq(Item) /\ router' \in RouterType /\ opt' = opt
    BY DEF Typed, TypeOK, JobAsked
<1> QED
    BY <1>1, <1>2, TypedNext DEF Typed

\* The calls of the user other than put move no rows.
LEMMA UserTyped ==
    ASSUME Typed, User, ~Put
    PROVE  Typed' /\ UNCHANGED <<opt, routing, router>> /\ DataSame /\ main.at = "user"
<1>1. main \in Place /\ metrics \in Seq(Metrics) /\ server \in ServerType
    BY DEF Typed, TypeOK, Place
<1>2. CASE NewTrueMetric
  <2>1. main' \in Place /\ main.at = "user"
      BY <1>1, <1>2, Moves DEF NewTrueMetric, Call
  <2>2. UNCHANGED <<opt, routing, router, luna, register, lock, worker, server>> /\ metrics' = Append(metrics, Argument.metric)
      BY <1>2 DEF NewTrueMetric, NewMetric, threads
  <2>3. metrics' \in Seq(Metrics)
    <3>1. Argument.metric \in Metrics
        BY <1>2, CallTypes DEF NewTrueMetric
    <3> QED
        BY <1>1, <2>2, <3>1, AppendProperties
  <2> QED
      BY <1>1, <2>1, <2>2, <2>3, MainMoves DEF DataSame
<1>3. CASE UpdateAsksForJob
  <2>1. JobAsked /\ register' \in RegisterType /\ SameAsk(register, register') /\ (UNCHANGED main \/ Next1) /\ UNCHANGED <<opt, metrics, routing, router>>
      BY <1>3, MainAsked DEF UpdateAsksForJob, Typed
  <2>2. main' \in Place /\ main.at = "user"
      BY <1>1, <1>3, <2>1, Moves DEF UpdateAsksForJob, Call
  <2> QED
      BY <2>1, <2>2, JobTyped, JobAskedSame
<1>4. CASE UpdateJob
  <2>1. main' \in Place /\ main.at = "user"
      BY <1>1, <1>4, Moves DEF UpdateJob, Call
  <2>2. UNCHANGED <<opt, metrics, routing, router, luna, register, lock, worker, server>>
      BY <1>4 DEF UpdateJob, Untouched, threads
  <2> QED
      BY <1>1, <2>1, <2>2, MainMoves DEF DataSame
<1>5. CASE UpdateMetric
  <2>1. main' \in Place /\ main.at = "user"
      BY <1>1, <1>5, Moves DEF UpdateMetric, Call
  <2>2. UNCHANGED <<opt, metrics, routing, router, luna, register, lock, worker>>
      BY <1>5 DEF UpdateMetric
  <2>3. server' = server \/ \E o \in Outcomes : server' = Used(o, server)
      BY <1>5 DEF UpdateMetric
  <2>4. /\ server' \in ServerType /\ server'.created = server.created /\ server'.stored = server.stored
        /\ server'.again = server.again /\ (server.shaky => server'.shaky)
    <3>1. CASE server' = server
        BY <1>1, <3>1
    <3>2. ASSUME NEW o \in Outcomes, server' = Used(o, server) PROVE Took(o, server, server')
        BY <1>1, <3>2, ServerAsked
    <3> QED
        BY <2>3, <3>1, <3>2 DEF Took
  <2> QED
      BY <1>1, <2>1, <2>2, <2>4, MainMoves DEF DataSame
<1> QED
    BY <1>2, <1>3, <1>4, <1>5 DEF User

\* The types after a thread has been told something.
LEMMA WorkerMoves ==
    ASSUME Typed, UNCHANGED <<opt, metrics, routing, router, luna, lock, server>>,
           main' \in Place, register' \in RegisterType, worker' \in WorkerType(worker'.left), SameWork(worker, worker'),
           SameAsk(register, register')
    PROVE  Typed' /\ DataSame
<1>1. Working'
    BY SameWorking DEF Typed
<1>2. DataSame
    BY DEF DataSame, SameWork
<1> QED
    BY <1>1, <1>2, TypedNext DEF Typed, TypeOK

\* The router is told to stop.
LEMMA CloseManagerTyped ==
    ASSUME Typed, CloseManager
    PROVE  /\ Typed' /\ UNCHANGED <<opt, metrics, routing, luna, register, lock, worker, server>> /\ DataSame
           /\ main.at = "user" /\ main.i > Len(opt.program) /\ main'.at = "join" /\ main'.i = 1
           /\ router' = [router EXCEPT !.stopped = TRUE, !.interrupted = opt.interrupt]
<1>1. UNCHANGED <<opt, metrics, routing, luna, register, lock, worker, server>>
    BY DEF CloseManager, CloseRouter, threads
<1>2. router' = [router EXCEPT !.stopped = TRUE, !.interrupted = opt.interrupt]
    BY DEF CloseManager, CloseRouter
<1>3. opt.interrupt \in BOOLEAN
    BY OptionTypes DEF Typed, TypeOK
<1>4. router' \in RouterType
    BY <1>2, <1>3 DEF Typed, TypeOK, RouterType
<1>5. "join" \in Stages /\ main \in Place /\ Goes("join")
    BY DEF Stages, Typed, TypeOK, Place, CloseManager
<1>6. main' \in Place /\ main'.at = "join" /\ main'.i = 1
    BY <1>5, Moves
<1>7. Working'
    BY <1>1, SameWorking DEF Typed, SameWork, SameAsk
<1>8. Typed'
    BY <1>1, <1>4, <1>6, <1>7, TypedNext DEF Typed, TypeOK
<1> QED
    BY <1>1, <1>2, <1>6, <1>8 DEF CloseManager, DataSame

CloseOfClients == \/ RouterJoined \/ StopWorker \/ CloseAsksForJob \/ CloseHasJob
                  \/ WorkerJoined \/ RegisterJoined \/ CloseJob \/ StopLocal \/ LocalJoined \/ CloseVolta \/ Closed

\* The steps of close() move no rows.
LEMMA CloseTyped ==
    ASSUME Typed, CloseOfClients
    PROVE  Typed' /\ UNCHANGED <<opt, metrics, routing, router>> /\ DataSame
<1>1. main \in Place /\ metrics \in Seq(Metrics) /\ server \in ServerType /\ register \in RegisterType /\ worker \in WorkerType(worker.left)
    BY DEF Typed, TypeOK, Place
<1>2. {"interrupted", "close", "job", "worker", "register", "close job", "closed"} \subseteq Stages
    BY DEF Stages, InClose
<1>3. ASSUME main' \in Place, Untouched \/ StopLocal
      PROVE  Typed' /\ UNCHANGED <<opt, metrics, routing, router>> /\ DataSame
  <2>1. UNCHANGED <<opt, metrics, routing, router, luna, register, lock, worker, server>>
      BY <1>3 DEF Untouched, StopLocal, threads
  <2> QED
      BY <1>1, <1>3, <2>1, MainMoves DEF DataSame
<1>4. ASSUME main' \in Place, worker' \in {worker, Stopped(worker), Interrupted(worker)},
             UNCHANGED <<opt, metrics, routing, router, luna, lock, server>>, register' \in {register, Stopped(register)}
      PROVE  Typed' /\ UNCHANGED <<opt, metrics, routing, router>> /\ DataSame
  <2>1. register' \in RegisterType /\ SameAsk(register, register')
      BY <1>1, <1>4, RegisterFields DEF SameAsk
  <2>2. worker' \in WorkerType(worker'.left) /\ SameWork(worker, worker')
      BY <1>1, <1>4, WorkerFields DEF SameWork
  <2> QED
      BY <1>4, <2>1, <2>2, WorkerMoves
<1>5. CASE RouterJoined
  <2>1. main' \in Place
      BY <1>1, <1>2, <1>5, Moves DEF RouterJoined
  <2> QED
      BY <1>3, <1>5, <2>1 DEF RouterJoined
<1>6. CASE StopWorker
  <2>1. main' \in Place
      BY <1>1, <1>2, <1>6, Moves DEF StopWorker
  <2> QED
      BY <1>4, <1>6, <2>1 DEF StopWorker, LunaUnlessWorker
<1>7. CASE CloseAsksForJob
  <2>1. JobAsked /\ register' \in RegisterType /\ SameAsk(register, register') /\ (UNCHANGED main \/ NextClient) /\ UNCHANGED <<opt, metrics, routing, router>>
      BY <1>7, MainAsked DEF CloseAsksForJob, Typed
  <2>2. main' \in Place
      BY <1>1, <2>1, Moves
  <2> QED
      BY <2>1, <2>2, JobTyped, JobAskedSame
<1>8. CASE CloseHasJob
  <2>1. main' \in Place
      BY <1>1, <1>2, <1>8, Moves DEF CloseHasJob
  <2> QED
      BY <1>4, <1>8, <2>1 DEF CloseHasJob, LunaUnlessWorker
<1>9. CASE WorkerJoined
  <2>1. main' \in Place
      BY <1>1, <1>2, <1>9, Moves DEF WorkerJoined
  <2> QED
      BY <1>4, <1>9, <2>1 DEF WorkerJoined
<1>10. CASE RegisterJoined
  <2>1. main' \in Place
      BY <1>1, <1>2, <1>10, Moves DEF RegisterJoined
  <2> QED
      BY <1>3, <1>10, <2>1 DEF RegisterJoined
<1>11. CASE CloseJob
  <2>1. main' \in Place
      BY <1>1, <1>2, <1>11, Moves DEF CloseJob
  <2>2. UNCHANGED <<opt, metrics, routing, router, luna, register, lock, worker>>
      BY <1>11 DEF CloseJob
  <2>3. /\ server' \in ServerType /\ server'.created = server.created /\ server'.stored = server.stored
        /\ server'.again = server.again /\ (server.shaky => server'.shaky)
    <3>1. CASE UNCHANGED server
        BY <1>1, <3>1
    <3>2. ASSUME NEW o \in Outcomes, server' = Used(o, [server EXCEPT !.closed = @ \/ o.times > 0])
          PROVE  /\ server' \in ServerType /\ server'.created = server.created /\ server'.stored = server.stored
                 /\ server'.again = server.again /\ (server.shaky => server'.shaky)
      <4>1. PICK s : s = [server EXCEPT !.closed = @ \/ o.times > 0]
          OBVIOUS
      <4>2. PICK b \in BOOLEAN : b = (server.closed \/ o.times > 0)
          OBVIOUS
      <4>3. s = [server EXCEPT !.closed = b]
          BY <4>1, <4>2, Zenon
      <4>4. /\ s \in ServerType /\ s.created = server.created /\ s.stored = server.stored /\ s.again = server.again
            /\ s.faults = server.faults /\ s.shaky = server.shaky
          BY <1>1, <4>3 DEF ServerType
      <4>5. Took(o, s, server')
          BY <1>1, <3>2, <4>1, <4>4, ServerAsked
      <4> QED
          BY <4>4, <4>5 DEF Took
    <3> QED
        BY <1>11, <3>1, <3>2 DEF CloseJob
  <2> QED
      BY <1>1, <2>1, <2>2, <2>3, MainMoves DEF DataSame
<1>12. CASE StopLocal
  <2>1. main' \in Place
      BY <1>1, <1>12 DEF StopLocal
  <2> QED
      BY <1>3, <1>12, <2>1
<1>13. CASE LocalJoined
  <2>1. main' \in Place
      BY <1>1, <1>13, Moves DEF LocalJoined
  <2> QED
      BY <1>3, <1>13, <2>1 DEF LocalJoined
<1>14. CASE CloseVolta
  <2>1. main' \in Place
      BY <1>1, <1>14, Moves DEF CloseVolta
  <2> QED
      BY <1>3, <1>14, <2>1 DEF CloseVolta
<1>15. CASE Closed
  <2>1. main' \in Place
      BY <1>1, <1>2, <1>15, Moves DEF Closed
  <2> QED
      BY <1>3, <1>15, <2>1 DEF Closed
<1> QED
    BY <1>5, <1>6, <1>7, <1>8, <1>9, <1>10, <1>11, <1>12, <1>13, <1>14, <1>15 DEF CloseOfClients

\* The client of the files has nothing to do with the rest.
LEMMA LocalTyped ==
    ASSUME Typed, Local
    PROVE  Typed' /\ UNCHANGED <<opt, metrics, routing, router, main, luna, register, lock, worker, server>> /\ DataSame
<1>1. UNCHANGED <<opt, metrics, routing, router, main, luna, register, lock, worker, server>>
    BY DEF Local, LocalWrites, LocalEnds, threads
<1> QED
    BY <1>1, MainMoves DEF Typed, TypeOK, Place, DataSame

-----------------------------------------------------------------------------
\* The metrics to register, with one more.
LEMMA AddedTyped ==
    ASSUME NEW todo \in Seq(Metrics), NEW m \in Metrics
    PROVE  Added(todo, m) \in Seq(Metrics)
BY AppendProperties DEF Added

\* The steps of the thread that registers, and those that tell the service of a metric.
LEMMA TakeMetricTyped ==
    ASSUME Typed, TakeMetric
    PROVE  /\ register' \in RegisterType /\ UNCHANGED <<luna, lock, worker, server>>
           /\ register.at = "loop" /\ ~register.interrupted /\ register'.interrupted = register.interrupted
           /\ register'.stopped = register.stopped
           /\ register'.at \in {"loop", "ask"}
           /\ register'.at = "ask" => register'.metric \in Metrics \ luna.ids /\ ~WaitsForParent(register'.metric)
<1>1. register \in RegisterType /\ register.todo \in Seq(Metrics) /\ register.todo # << >> /\ luna.ids \subseteq Metrics
    BY DEF Typed, TypeOK, RegisterType, LunaType, TakeMetric
<1>2. PICK m, todo : m = register.todo[1] /\ todo = Tail(register.todo)
    OBVIOUS
<1>3. m \in Metrics /\ todo \in Seq(Metrics)
    BY <1>1, <1>2, HeadTailProperties, EmptySeq, LenProperties, ElementOfSeq
<1>4. register' = Taken(m, todo) /\ UNCHANGED <<luna, lock, worker, server>> /\ register.at = "loop" /\ ~register.interrupted
    BY <1>2 DEF TakeMetric
<1>5. CASE m \in luna.ids
  <2>1. register' = [register EXCEPT !.todo = todo]
      BY <1>4, <1>5 DEF Taken
  <2> QED
      BY <1>1, <1>3, <1>4, <2>1 DEF RegisterType
<1>6. CASE m \notin luna.ids /\ WaitsForParent(m)
  <2>1. PICK more : more = Added(Added(todo, Parent(m)), m)
      OBVIOUS
  <2>2. register' = [register EXCEPT !.todo = more]
      BY <1>4, <1>6, <2>1 DEF Taken
  <2>3. Parent(m) \in Metrics
      BY <1>3, <1>6, OptionTypes DEF WaitsForParent, Typed, TypeOK
  <2>4. more \in Seq(Metrics)
      BY <1>3, <2>1, <2>3, AddedTyped
  <2> QED
      BY <1>1, <1>4, <2>2, <2>4 DEF RegisterType
<1>7. CASE m \notin luna.ids /\ ~WaitsForParent(m)
  <2>1. register' = [register EXCEPT !.todo = todo, !.at = "ask", !.metric = m]
      BY <1>4, <1>7 DEF Taken
  <2> QED
      BY <1>1, <1>3, <1>4, <1>7, <2>1 DEF RegisterType
<1> QED
    BY <1>5, <1>6, <1>7

\* The service is told of a metric: what comes to its record.
Copies(o) == [i \in 1..o.times |-> register.metric]

\* What the service has after a metric was registered.
LEMMA CreatedTypes ==
    ASSUME Typed, register.at = "ask", NEW o \in Outcomes
    PROVE  /\ o \in Outcome /\ Copies(o) \in Seq(Metrics) /\ Len(Copies(o)) = o.times
           /\ Created(o) \in ServerType
           /\ Created(o).created = server.created \o Copies(o)
           /\ Created(o).stored = server.stored /\ Created(o).again = server.again /\ Created(o).closed = server.closed
           /\ Created(o).faults <= server.faults
           /\ server.shaky => Created(o).shaky
           /\ ~Created(o).shaky => ~server.shaky /\ o.times # 2 /\ o.result # "connection"
           /\ Created(o).faults = server.faults => o = Plain /\ Created(o).shaky = server.shaky
<1>1. register.metric \in Metrics /\ server \in ServerType /\ server.created \in Seq(Metrics)
    BY DEF Typed, Working, TypeOK, ServerType
<1>2. o \in Outcome /\ o.times \in Nat
    BY <1>1, OutcomeTypes DEF Outcome
<1>3. PICK c : c = Copies(o)
    OBVIOUS
<1>4. c \in Seq(Metrics) /\ Len(c) = o.times
  <2>1. c \in [1..o.times -> Metrics]
      BY <1>1, <1>3 DEF Copies
  <2> QED
      BY <1>2, <2>1
<1>5. PICK d : d = server.created \o c
    OBVIOUS
<1>6. d \in Seq(Metrics)
    BY <1>1, <1>4, <1>5, ConcatProperties
<1>7. PICK s : s = [server EXCEPT !.created = d]
    OBVIOUS
<1>8. /\ s \in ServerType /\ s.created = d /\ s.closed = server.closed /\ s.stored = server.stored /\ s.again = server.again
      /\ s.faults = server.faults /\ s.shaky = server.shaky
    BY <1>1, <1>6, <1>7 DEF ServerType
<1>9. Created(o) = Used(o, s)
    BY <1>3, <1>5, <1>7 DEF Created, Copies
<1>10. Took(o, s, Created(o))
    BY <1>8, <1>9, <1>1, ServerAsked
<1> QED
    BY <1>2, <1>3, <1>4, <1>5, <1>8, <1>10 DEF Took

\* A metric is registered.
LEMMA RegisterTyped ==
    ASSUME Typed, NEW o \in Outcomes, Register(o), UNCHANGED <<opt, metrics, routing, router, main>>
    PROVE  /\ Typed'
           /\ luna' = [luna EXCEPT !.ids = luna.ids \cup {register.metric}]
           /\ luna'.queue = luna.queue /\ luna'.ids = luna.ids \cup {register.metric}
           /\ register'.at = "loop" /\ register'.interrupted = register.interrupted /\ worker' = worker /\ lock' = lock
           /\ server' = Created(o)
<1>1. register.at = "ask" /\ server' = Created(o) /\ lock' = lock /\ worker' = worker
      /\ luna' = [luna EXCEPT !.ids = luna.ids \cup {register.metric}] /\ register' = [register EXCEPT !.at = "loop"]
    BY DEF Register
<1>2. server' \in ServerType /\ register.metric \in Metrics
    BY <1>1, CreatedTypes DEF Typed, Working
<1>3. luna' \in LunaType /\ luna'.queue = luna.queue /\ luna'.ids = luna.ids \cup {register.metric}
    BY <1>1, <1>2 DEF Typed, TypeOK, LunaType
<1>4. register' \in RegisterType /\ register'.at = "loop" /\ register'.interrupted = register.interrupted
    BY <1>1 DEF Typed, TypeOK, RegisterType
<1>5. Working'
    BY <1>1, <1>4, SameWorking DEF Typed, SameWork, SameAsk
<1> QED
    BY <1>1, <1>2, <1>3, <1>4, <1>5, TypedNext DEF Typed, TypeOK, Place

\* A registration fails, which takes a fault.
LEMMA RegisterFailsTyped ==
    ASSUME Typed, NEW o \in Outcomes, RegisterFails(o), UNCHANGED <<opt, metrics, routing, router, main>>
    PROVE  /\ Typed'
           /\ luna'.queue = luna.queue /\ luna'.ids = luna.ids
           /\ register'.at = "dead" \/ (register'.at = "loop" /\ register'.interrupted)
           /\ SameWork(worker, worker')
           /\ server' = Created(o) /\ server'.faults # server.faults
<1>1. register.at = "ask" /\ server' = Created(o) /\ o.result # "ok"
    BY DEF RegisterFails
<1>2. server' \in ServerType /\ server'.faults # server.faults
    BY <1>1, CreatedTypes DEF Plain
<1>3. CASE lock
  <2>1. lock' = FALSE /\ luna' = [luna EXCEPT !.put = FALSE] /\ worker' = Interrupted(worker)
        /\ register' = [Interrupted(register) EXCEPT !.at = "loop"]
      BY <1>3 DEF RegisterFails
  <2>2. luna' \in LunaType /\ luna'.queue = luna.queue /\ luna'.ids = luna.ids
      BY <2>1 DEF Typed, TypeOK, LunaType
  <2>3. register' \in RegisterType /\ register'.at = "loop" /\ register'.interrupted
    <3>1. PICK r \in RegisterType : r = Interrupted(register) /\ r.interrupted
        BY RegisterFields DEF Typed, TypeOK
    <3> QED
        BY <2>1, <3>1 DEF RegisterType
  <2>4. worker' \in WorkerType(worker'.left) /\ SameWork(worker, worker')
      BY <2>1, WorkerFields DEF Typed, TypeOK, SameWork
  <2>5. Working'
      BY <2>3, <2>4, SameWorking DEF Typed, SameAsk
  <2> QED
      BY <1>1, <1>2, <2>1, <2>2, <2>3, <2>4, <2>5, TypedNext DEF Typed, TypeOK, Place
<1>4. CASE ~lock
  <2>1. UNCHANGED <<luna, lock, worker>> /\ register' = [register EXCEPT !.at = "dead"]
      BY <1>4 DEF RegisterFails
  <2>2. register' \in RegisterType /\ register'.at = "dead"
      BY <2>1 DEF Typed, TypeOK, RegisterType
  <2>3. Working'
      BY <2>1, <2>2, SameWorking DEF Typed, SameWork, SameAsk
  <2> QED
      BY <1>1, <1>2, <2>1, <2>2, <2>3, TypedNext DEF Typed, TypeOK, Place, SameWork
<1> QED
    BY <1>3, <1>4

\* The steps of the thread that registers in which the service is not told of a metric.
LEMMA RegisterAside ==
    ASSUME Typed, TakeMetric \/ RegisterMakesJob \/ RegisterEnds, UNCHANGED <<opt, metrics, routing, router, main>>
    PROVE  Typed' /\ DataSame
<1>1. CASE TakeMetric
  <2>1. register' \in RegisterType /\ UNCHANGED <<luna, lock, worker, server>>
        /\ (register'.at = "ask" => register'.metric \in Metrics)
      BY <1>1, TakeMetricTyped
  <2>2. Working'
      BY <2>1, TypesStay DEF Typed, Working
  <2> QED
      BY <2>1, <2>2, TypedNext DEF Typed, TypeOK, Place, DataSame
<1>2. CASE RegisterMakesJob
    BY <1>2, RegisterAsked, JobTyped, JobAskedSame DEF Typed, TypeOK, Place
<1>3. CASE RegisterEnds
  <2>1. UNCHANGED <<luna, lock, worker, server>> /\ register' = [register EXCEPT !.at = "finished", !.todo = << >>]
      BY <1>3 DEF RegisterEnds
  <2>2. register' \in RegisterType /\ register'.at = "finished"
    <3>1. << >> \in Seq(Metrics)
        OBVIOUS
    <3> QED
        BY <2>1, <3>1 DEF Typed, TypeOK, RegisterType
  <2>3. Working'
      BY <2>1, <2>2, SameWorking DEF Typed, SameWork, SameAsk
  <2> QED
      BY <2>1, <2>2, <2>3, TypedNext DEF Typed, TypeOK, Place, DataSame
<1> QED
    BY <1>1, <1>2, <1>3

\* The lines of a sequence of pieces or of tables.
Disjoint(ps) == \A i, j \in DOMAIN ps : i # j => LinesIn(ps[i]) \cap LinesIn(ps[j]) = {}

OfMetric(ps) == \A i \in DOMAIN ps : \A j \in DOMAIN ps[i].lines : ps[i].lines[j].metric = ps[i].metric

\* An empty sequence has no lines.
LEMMA NoLines == LinesOf(<< >>) = {} /\ Disjoint(<< >>) /\ OfMetric(<< >>)
BY DEF LinesOf, Disjoint, OfMetric

\* The lines of the first piece, and of the rest.
LEMMA LinesOfTail ==
    ASSUME NEW S, NEW q \in Seq(S), q # << >>
    PROVE  /\ q[1] \in S /\ Tail(q) \in Seq(S) /\ Len(Tail(q)) = Len(q) - 1 /\ Len(q) > 0
           /\ LinesOf(q) = LinesIn(q[1]) \cup LinesOf(Tail(q))
           /\ Disjoint(q) => Disjoint(Tail(q)) /\ LinesIn(q[1]) \cap LinesOf(Tail(q)) = {}
           /\ OfMetric(q) => OfMetric(Tail(q)) /\ \A j \in DOMAIN q[1].lines : q[1].lines[j].metric = q[1].metric
<1>1. PICK n \in Nat : n = Len(q) /\ n > 0 /\ DOMAIN q = 1..n
    BY LenProperties, EmptySeq
<1>2. PICK t : t = Tail(q)
    OBVIOUS
<1>3. t \in Seq(S) /\ Len(t) = n - 1 /\ DOMAIN t = 1..n - 1 /\ \A i \in 1..n - 1 : t[i] = q[i + 1]
    BY <1>1, <1>2
<1>4. q[1] \in S
    BY <1>1
<1>5. \A i \in 2..n : i - 1 \in 1..n - 1 /\ t[i - 1] = q[i]
  <2> TAKE i \in 2..n
  <2>1. i - 1 \in 1..n - 1 /\ (i - 1) + 1 = i
      BY <1>1
  <2> QED
      BY <1>3, <2>1
<1>6. LinesOf(q) = LinesIn(q[1]) \cup LinesOf(t)
  <2>1. ASSUME NEW l \in LinesOf(q) PROVE l \in LinesIn(q[1]) \cup LinesOf(t)
    <3>1. PICK i \in 1..n : l \in LinesIn(q[i])
        BY <1>1, <2>1 DEF LinesOf
    <3>2. CASE i = 1
        BY <3>1, <3>2
    <3>3. CASE i # 1
      <4>1. i - 1 \in DOMAIN t /\ t[i - 1] = q[i]
          BY <1>1, <1>3, <1>5, <3>3
      <4> QED
          BY <3>1, <4>1 DEF LinesOf
    <3> QED
        BY <3>2, <3>3
  <2>2. ASSUME NEW l \in LinesOf(t) PROVE l \in LinesOf(q)
    <3>1. PICK i \in 1..n - 1 : l \in LinesIn(t[i])
        BY <1>3, <2>2 DEF LinesOf
    <3>2. i + 1 \in DOMAIN q /\ q[i + 1] = t[i]
        BY <1>1, <1>3
    <3> QED
        BY <3>1, <3>2 DEF LinesOf
  <2>3. LinesIn(q[1]) \subseteq LinesOf(q)
    <3>1. 1 \in DOMAIN q
        BY <1>1
    <3> QED
        BY <3>1 DEF LinesOf
  <2> QED
      BY <2>1, <2>2, <2>3
<1>7. ASSUME Disjoint(q) PROVE Disjoint(t) /\ LinesIn(q[1]) \cap LinesOf(t) = {}
  <2>1. ASSUME NEW i \in DOMAIN t, NEW j \in DOMAIN t, i # j PROVE LinesIn(t[i]) \cap LinesIn(t[j]) = {}
    <3>1. i + 1 \in DOMAIN q /\ j + 1 \in DOMAIN q /\ i + 1 # j + 1 /\ q[i + 1] = t[i] /\ q[j + 1] = t[j]
        BY <1>1, <1>3, <2>1
    <3> QED
        BY <1>7, <3>1 DEF Disjoint
  <2>2. ASSUME NEW i \in DOMAIN t PROVE LinesIn(q[1]) \cap LinesIn(t[i]) = {}
    <3>1. i + 1 \in DOMAIN q /\ 1 \in DOMAIN q /\ i + 1 # 1 /\ q[i + 1] = t[i]
        BY <1>1, <1>3
    <3> QED
        BY <1>7, <3>1 DEF Disjoint
  <2> QED
      BY <2>1, <2>2 DEF Disjoint, LinesOf
<1>8. ASSUME OfMetric(q)
      PROVE  OfMetric(t) /\ \A j \in DOMAIN q[1].lines : q[1].lines[j].metric = q[1].metric
  <2>1. \A i \in DOMAIN t : i + 1 \in DOMAIN q /\ q[i + 1] = t[i]
      BY <1>1, <1>3
  <2>2. 1 \in DOMAIN q
      BY <1>1
  <2> QED
      BY <1>8, <2>1, <2>2 DEF OfMetric
<1> QED
    BY <1>1, <1>2, <1>3, <1>4, <1>6, <1>7, <1>8

\* The lines of two sequences in a row.
LEMMA LinesOfJoint ==
    ASSUME NEW S, NEW a \in Seq(S), NEW b \in Seq(S)
    PROVE  /\ LinesOf(a \o b) = LinesOf(a) \cup LinesOf(b)
           /\ Disjoint(a) /\ Disjoint(b) /\ LinesOf(a) \cap LinesOf(b) = {} => Disjoint(a \o b)
           /\ OfMetric(a) /\ OfMetric(b) => OfMetric(a \o b)
<1>1. PICK c : c = a \o b
    OBVIOUS
<1>2. /\ c \in Seq(S) /\ Len(c) = Len(a) + Len(b)
      /\ \A i \in 1..Len(a) : c[i] = a[i]
      /\ \A i \in 1..Len(b) : c[Len(a) + i] = b[i]
      /\ \A i \in 1..Len(c) : i \in 1..Len(a) \/ (i - Len(a) \in 1..Len(b) /\ c[i] = b[i - Len(a)])
    BY <1>1, Joint
<1>3. /\ DOMAIN a = 1..Len(a) /\ DOMAIN b = 1..Len(b) /\ DOMAIN c = 1..Len(c)
      /\ Len(a) \in Nat /\ Len(b) \in Nat /\ Len(c) \in Nat
    BY <1>2, LenProperties
<1>4. /\ \A i \in DOMAIN a : i \in DOMAIN c /\ c[i] = a[i]
      /\ \A i \in DOMAIN b : Len(a) + i \in DOMAIN c /\ c[Len(a) + i] = b[i]
      /\ \A i \in DOMAIN c : (i \in DOMAIN a /\ c[i] = a[i]) \/ (i \notin DOMAIN a /\ i - Len(a) \in DOMAIN b /\ c[i] = b[i - Len(a)])
    BY <1>2, <1>3
<1>5. LinesOf(c) = LinesOf(a) \cup LinesOf(b)
  <2>1. ASSUME NEW l \in LinesOf(c) PROVE l \in LinesOf(a) \cup LinesOf(b)
    <3>1. PICK i \in DOMAIN c : l \in LinesIn(c[i])
        BY <2>1 DEF LinesOf
    <3> QED
        BY <1>4, <3>1 DEF LinesOf
  <2>2. ASSUME NEW l \in LinesOf(a) PROVE l \in LinesOf(c)
      BY <1>4, <2>2 DEF LinesOf
  <2>3. ASSUME NEW l \in LinesOf(b) PROVE l \in LinesOf(c)
      BY <1>4, <2>3 DEF LinesOf
  <2> QED
      BY <2>1, <2>2, <2>3
<1>6. ASSUME Disjoint(a), Disjoint(b), LinesOf(a) \cap LinesOf(b) = {} PROVE Disjoint(c)
  <2> SUFFICES ASSUME NEW i \in DOMAIN c, NEW j \in DOMAIN c, i # j PROVE LinesIn(c[i]) \cap LinesIn(c[j]) = {}
      BY DEF Disjoint
  <2>1. CASE i \in DOMAIN a /\ j \in DOMAIN a
      BY <1>4, <1>6, <2>1 DEF Disjoint
  <2>2. CASE i \in DOMAIN a /\ j \notin DOMAIN a
    <3>1. LinesIn(c[i]) \subseteq LinesOf(a) /\ LinesIn(c[j]) \subseteq LinesOf(b)
        BY <1>4, <2>2 DEF LinesOf
    <3> QED
        BY <1>6, <3>1
  <2>3. CASE i \notin DOMAIN a /\ j \in DOMAIN a
    <3>1. LinesIn(c[j]) \subseteq LinesOf(a) /\ LinesIn(c[i]) \subseteq LinesOf(b)
        BY <1>4, <2>3 DEF LinesOf
    <3> QED
        BY <1>6, <3>1
  <2>4. CASE i \notin DOMAIN a /\ j \notin DOMAIN a
    <3>1. i - Len(a) \in DOMAIN b /\ j - Len(a) \in DOMAIN b /\ c[i] = b[i - Len(a)] /\ c[j] = b[j - Len(a)]
        BY <1>4, <2>4
    <3>2. i - Len(a) # j - Len(a)
        BY <1>3
    <3> QED
        BY <1>6, <3>1, <3>2 DEF Disjoint
  <2> QED
      BY <2>1, <2>2, <2>3, <2>4
<1>7. ASSUME OfMetric(a), OfMetric(b) PROVE OfMetric(c)
    BY <1>4, <1>7 DEF OfMetric
<1> QED
    BY <1>1, <1>5, <1>6, <1>7

\* The lines of a sequence and of one more piece.
LEMMA LinesOfAppended ==
    ASSUME NEW S, NEW a \in Seq(S), NEW x \in S
    PROVE  /\ Append(a, x) \in Seq(S) /\ Append(a, x) # << >>
           /\ LinesOf(Append(a, x)) = LinesOf(a) \cup LinesIn(x)
           /\ Disjoint(a) /\ LinesOf(a) \cap LinesIn(x) = {} => Disjoint(Append(a, x))
           /\ OfMetric(a) /\ (\A j \in DOMAIN x.lines : x.lines[j].metric = x.metric) => OfMetric(Append(a, x))
<1>1. PICK b : b = <<x>>
    OBVIOUS
<1>2. b \in Seq(S) /\ DOMAIN b = {1} /\ b[1] = x
    BY <1>1
<1>3. LinesOf(b) = LinesIn(x) /\ Disjoint(b) /\ ((\A j \in DOMAIN x.lines : x.lines[j].metric = x.metric) => OfMetric(b))
    BY <1>2 DEF LinesOf, Disjoint, OfMetric
<1>4. Append(a, x) = a \o b
    BY <1>1, AppendIsConcat
<1>5. Append(a, x) \in Seq(S) /\ Append(a, x) # << >>
    BY AppendProperties
<1>6. /\ LinesOf(a \o b) = LinesOf(a) \cup LinesOf(b)
      /\ Disjoint(a) /\ Disjoint(b) /\ LinesOf(a) \cap LinesOf(b) = {} => Disjoint(a \o b)
      /\ OfMetric(a) /\ OfMetric(b) => OfMetric(a \o b)
    BY <1>2, LinesOfJoint
<1> QED
    BY <1>3, <1>4, <1>5, <1>6

\* The lines of a piece and of a table.
LEMMA LinesInTypes ==
    /\ \A p \in Piece : LinesIn(p) \subseteq Tagging
    /\ \A p \in Table : LinesIn(p) \subseteq Tagging
BY DEF LinesIn, Piece, Table, Tagging

\* The lines of many.
LEMMA LinesOfTypes ==
    /\ \A ps \in Seq(Piece) : LinesOf(ps) \subseteq Tagging
    /\ \A ps \in Seq(Table) : LinesOf(ps) \subseteq Tagging
<1>1. ASSUME NEW S, \A p \in S : LinesIn(p) \subseteq Tagging, NEW ps \in Seq(S) PROVE LinesOf(ps) \subseteq Tagging
  <2>1. \A i \in DOMAIN ps : ps[i] \in S
      OBVIOUS
  <2> QED
      BY <1>1, <2>1 DEF LinesOf
<1> QED
    BY <1>1, LinesInTypes

\* The lines of two pieces of a table.
LEMMA LinesInJoint ==
    ASSUME NEW p, NEW S, p.lines \in Seq(S), NEW more \in Seq(S), NEW q, q.table = p.table, q.lines = p.lines \o more
    PROVE  LinesIn(q) = LinesIn(p) \cup {[table |-> p.table, line |-> more[j]] : j \in DOMAIN more}
<1>1. PICK a \in Seq(S) : a = p.lines
    OBVIOUS
<1>2. PICK c : c = a \o more
    OBVIOUS
<1>3. /\ c \in Seq(S) /\ Len(c) = Len(a) + Len(more)
      /\ \A i \in 1..Len(a) : c[i] = a[i]
      /\ \A i \in 1..Len(more) : c[Len(a) + i] = more[i]
      /\ \A i \in 1..Len(c) : i \in 1..Len(a) \/ (i - Len(a) \in 1..Len(more) /\ c[i] = more[i - Len(a)])
    BY <1>2, Joint
<1>4. /\ DOMAIN a = 1..Len(a) /\ DOMAIN more = 1..Len(more) /\ DOMAIN c = 1..Len(c)
      /\ Len(a) \in Nat /\ Len(more) \in Nat /\ Len(c) \in Nat
    BY <1>3, LenProperties
<1>5. /\ \A i \in DOMAIN a : i \in DOMAIN c /\ c[i] = a[i]
      /\ \A i \in DOMAIN more : Len(a) + i \in DOMAIN c /\ c[Len(a) + i] = more[i]
      /\ \A i \in DOMAIN c : (i \in DOMAIN a /\ c[i] = a[i]) \/ (i - Len(a) \in DOMAIN more /\ c[i] = more[i - Len(a)])
    BY <1>3, <1>4
<1>6. {[table |-> p.table, line |-> c[j]] : j \in DOMAIN c}
         = {[table |-> p.table, line |-> a[j]] : j \in DOMAIN a} \cup {[table |-> p.table, line |-> more[j]] : j \in DOMAIN more}
    BY <1>5
<1> QED
    BY <1>1, <1>2, <1>6 DEF LinesIn

OneTable(data) == \A i, j \in DOMAIN data : data[i].table = data[j].table => i = j

\* A piece that is merged into the data of the thread adds its lines.
LEMMA MergedGives ==
    ASSUME Typed, NEW item \in Piece
    PROVE  /\ Merged(item) \in Seq(Table) /\ Merged(item) # << >>
           /\ LinesOf(Merged(item)) = LinesOf(worker.data) \cup LinesIn(item)
           /\ OneTable(worker.data) => OneTable(Merged(item))
<1>1. PICK data \in Seq(Table) : data = worker.data
    BY DEF Typed, TypeOK, WorkerType
<1>2. DOMAIN data = 1..Len(data) /\ Len(data) \in Nat
    BY LenProperties
<1>3. item.table \in Tables /\ item.lines \in Seq(Line)
    BY DEF Piece
<1>4. CASE TableAt(item.table) = {}
  <2>1. PICK x : x = [table |-> item.table, lines |-> item.lines]
      OBVIOUS
  <2>2. x \in Table /\ LinesIn(x) = LinesIn(item) /\ x.table = item.table
      BY <1>3, <2>1 DEF Table, LinesIn
  <2>3. Merged(item) = Append(data, x)
      BY <1>1, <1>4, <2>1 DEF Merged
  <2>4. ASSUME OneTable(data) PROVE OneTable(Append(data, x))
    <3>1. \A i \in DOMAIN data : data[i].table # x.table
        BY <1>1, <1>4, <2>2 DEF TableAt
    <3>2. /\ DOMAIN Append(data, x) = 1..Len(data) + 1
          /\ \A i \in DOMAIN data : Append(data, x)[i] = data[i]
          /\ Append(data, x)[Len(data) + 1] = x
        BY <1>2, AppendProperties
    <3>3. PICK d : d = Append(data, x)
        OBVIOUS
    <3>4. \A i \in DOMAIN d : i \in DOMAIN data \/ i = Len(data) + 1
        BY <1>2, <3>2, <3>3
    <3>5. OneTable(d)
        BY <2>4, <3>1, <3>2, <3>3, <3>4 DEF OneTable
    <3> QED
        BY <3>3, <3>5
  <2> QED
      BY <1>1, <2>2, <2>3, <2>4, LinesOfAppended
<1>5. CASE TableAt(item.table) # {}
  <2>1. PICK d : d = [i \in DOMAIN data |-> IF i \in TableAt(item.table) THEN [data[i] EXCEPT !.lines = @ \o item.lines] ELSE data[i]]
      OBVIOUS
  <2>2. Merged(item) = d
      BY <1>1, <1>5, <2>1 DEF Merged
  <2>3. ASSUME NEW i \in DOMAIN data, i \in TableAt(item.table)
        PROVE  d[i] \in Table /\ d[i].table = item.table /\ LinesIn(d[i]) = LinesIn(data[i]) \cup LinesIn(item)
    <3>1. PICK t \in Table : t = data[i] /\ t.table = item.table
        BY <1>1, <2>3 DEF TableAt
    <3>2. PICK lines : lines = t.lines \o item.lines
        OBVIOUS
    <3>3. t.lines \in Seq(Line) /\ lines \in Seq(Line)
        BY <1>3, <3>2, ConcatProperties DEF Table
    <3>4. d[i] = [t EXCEPT !.lines = lines]
        BY <2>1, <2>3, <3>1, <3>2
    <3>5. d[i] \in Table /\ d[i].table = item.table /\ d[i].lines = t.lines \o item.lines
        BY <3>1, <3>2, <3>3, <3>4 DEF Table
    <3>6. LinesIn(d[i]) = LinesIn(t) \cup {[table |-> t.table, line |-> item.lines[j]] : j \in DOMAIN item.lines}
      <4>1. PICK q, more : q = d[i] /\ more = item.lines
          OBVIOUS
      <4>2. more \in Seq(Line) /\ t.lines \in Seq(Line) /\ q.table = t.table /\ q.lines = t.lines \o more
          BY <1>3, <3>1, <3>3, <3>5, <4>1
      <4>3. LinesIn(q) = LinesIn(t) \cup {[table |-> t.table, line |-> more[j]] : j \in DOMAIN more}
          BY <4>2, LinesInJoint
      <4> QED
          BY <4>1, <4>3
    <3> QED
        BY <3>1, <3>5, <3>6 DEF LinesIn
  <2>4. ASSUME NEW i \in DOMAIN data, i \notin TableAt(item.table)
        PROVE  d[i] = data[i] /\ d[i] \in Table
      BY <2>1, <2>4
  <2>5. DOMAIN d = DOMAIN data /\ d \in Seq(Table)
    <3>1. \A i \in DOMAIN data : d[i] \in Table
        BY <2>3, <2>4
    <3>2. d \in [1..Len(data) -> Table]
        BY <1>2, <2>1, <3>1
    <3> QED
        BY <1>2, <3>2
  <2>6. PICK k \in DOMAIN data : k \in TableAt(item.table)
      BY <1>1, <1>5 DEF TableAt
  <2>7. LinesOf(d) = LinesOf(data) \cup LinesIn(item)
    <3>1. LinesIn(item) \subseteq LinesOf(d)
        BY <2>3, <2>5, <2>6 DEF LinesOf
    <3>2. \A i \in DOMAIN data : LinesIn(data[i]) \subseteq LinesIn(d[i]) /\ LinesIn(d[i]) \subseteq LinesIn(data[i]) \cup LinesIn(item)
        BY <2>3, <2>4
    <3> QED
        BY <2>5, <3>1, <3>2 DEF LinesOf
  <2>8. \A i \in DOMAIN data : d[i].table = data[i].table
      BY <1>1, <2>3, <2>4 DEF TableAt
  <2>9. OneTable(data) => OneTable(d)
      BY <2>5, <2>8 DEF OneTable
  <2>10. d # << >>
      BY <2>5, <2>6
  <2> QED
      BY <1>1, <2>2, <2>5, <2>7, <2>9, <2>10
<1> QED
    BY <1>4, <1>5

UploadsIs(v, w, data, final) ==
    /\ v \in WorkerType(v.left) /\ v.at = "send" /\ v.data = data /\ v.left = data /\ v.part = "whole"
    /\ v.final = final /\ v.stopped = w.stopped /\ v.interrupted = w.interrupted

\* The thread goes over to upload its data.
LEMMA UploadsFields ==
    ASSUME NEW w, w \in WorkerType(w.left), NEW data \in Seq(Table), NEW final \in BOOLEAN
    PROVE  UploadsIs(Uploads(w, data, final), w, data, final)
BY DEF WorkerType, Uploads, UploadsIs

\* Everything but what the thread that uploads holds stays.
OnlyWorker == UNCHANGED <<opt, metrics, routing, router, main, lock, register>>

\* The types after a step of the threads of Luna's client.
LEMMA WorkTyped ==
    ASSUME Typed, UNCHANGED <<opt, metrics, routing, router, main>>, lock' \in BOOLEAN, register' \in RegisterType,
           SameAsk(register, register'),
           luna' \in LunaType, server' \in ServerType, worker' \in WorkerType(worker'.left),
           worker'.at = "lock" => worker'.left \in Seq(Metrics) /\ Len(worker'.left) = 1,
           worker'.at = "send" => worker'.left \in Seq(Table) /\ worker'.left # << >>,
           worker'.at \notin {"lock", "send"} => worker'.left = << >>
    PROVE  Typed'
<1>1. Working'
    BY TypesStay DEF Typed, Working, SameAsk
<1> QED
    BY <1>1, TypedNext DEF Typed, TypeOK, Place

\* A piece is taken from the queue.
Takes(item, queue) ==
    /\ luna.queue # << >> /\ luna.queue[1] = item /\ item \in Piece
    /\ queue = Tail(luna.queue) /\ queue \in Seq(Piece)
    /\ LinesOf(luna.queue) = LinesIn(item) \cup LinesOf(queue)
    /\ Disjoint(luna.queue) => Disjoint(queue) /\ LinesIn(item) \cap LinesOf(queue) = {}
    /\ OfMetric(luna.queue) => OfMetric(queue) /\ \A j \in DOMAIN item.lines : item.lines[j].metric = item.metric

\* The first piece of the queue.
LEMMA FirstTaken ==
    ASSUME Typed, luna.queue # << >>
    PROVE  Takes(luna.queue[1], Tail(luna.queue))
<1>1. luna.queue \in Seq(Piece)
    BY DEF Typed, TypeOK, LunaType
<1> QED
    BY <1>1, LinesOfTail DEF Takes

\* The thread takes a piece of a registered metric.
LEMMA TakeDataTyped ==
    ASSUME Typed, TakeData, UNCHANGED <<opt, metrics, routing, router, main>>
    PROVE  /\ Typed' /\ UNCHANGED <<register, lock, server>>
           /\ worker.at = "loop" /\ ~worker.interrupted /\ luna.queue # << >>
           /\ luna' = [luna EXCEPT !.queue = luna'.queue]
           /\ \E item, queue :
                 /\ Takes(item, queue) /\ item.metric \in luna.ids
                 /\ luna'.queue = queue
                 /\ worker'.data = Merged(item) /\ (worker'.at = "send" => worker'.left = Merged(item) /\ ~worker'.final)
                 /\ worker'.at \in {"loop", "send"}
                 /\ worker'.part \in {worker.part, "whole"}
                 /\ worker'.stopped = worker.stopped /\ worker'.interrupted = worker.interrupted
<1>1. PICK item, queue, data : item = luna.queue[1] /\ queue = Tail(luna.queue) /\ data = Merged(item)
    OBVIOUS
<1>2. /\ worker.at = "loop" /\ luna.queue # << >> /\ ~worker.interrupted /\ item.metric \in luna.ids
      /\ luna' = [luna EXCEPT !.queue = queue] /\ UNCHANGED <<register, lock, server>>
      /\ worker' = IF Full(data) THEN Uploads(worker, data, FALSE) ELSE [worker EXCEPT !.data = data]
    BY <1>1, Zenon DEF TakeData
<1>3. Takes(item, queue)
    BY <1>1, <1>2, FirstTaken
<1>4. data \in Seq(Table) /\ data # << >>
    BY <1>1, <1>3, MergedGives DEF Takes
<1>5. luna' \in LunaType /\ luna'.queue = queue
    BY <1>2, <1>3 DEF Typed, TypeOK, LunaType, Takes
<1>6. CASE Full(data)
  <2>1. worker' = Uploads(worker, data, FALSE)
      BY <1>2, <1>6
  <2>2. /\ worker' \in WorkerType(worker'.left) /\ worker'.at = "send" /\ worker'.data = data /\ worker'.left = data /\ worker'.part = "whole"
        /\ ~worker'.final /\ worker'.stopped = worker.stopped /\ worker'.interrupted = worker.interrupted
    <3>1. UploadsIs(worker', worker, data, FALSE)
        BY <1>4, <2>1, UploadsFields DEF Typed, TypeOK
    <3> QED
        BY <3>1, Zenon DEF UploadsIs
  <2>3. Typed'
      BY <1>2, <1>4, <1>5, <2>2, WorkTyped DEF Typed, TypeOK, SameAsk
  <2> QED
      BY <1>1, <1>2, <1>3, <1>5, <2>2, <2>3
<1>7. CASE ~Full(data)
  <2>1. worker' = [worker EXCEPT !.data = data]
      BY <1>2, <1>7
  <2>2. /\ worker' \in WorkerType(worker'.left) /\ worker'.at = "loop" /\ worker'.data = data /\ worker'.left = worker.left
        /\ worker'.part = worker.part /\ worker'.stopped = worker.stopped /\ worker'.interrupted = worker.interrupted
      BY <1>2, <1>4, <2>1 DEF Typed, TypeOK, WorkerType
  <2>3. worker.left = << >>
      BY <1>2 DEF Typed, Working
  <2>4. Typed'
      BY <1>2, <1>5, <2>2, <2>3, WorkTyped DEF Typed, TypeOK, SameAsk
  <2> QED
      BY <1>1, <1>2, <1>3, <1>5, <2>2, <2>4
<1> QED
    BY <1>6, <1>7

\* The thread gives back a piece of a metric that is not registered.
LEMMA GiveBackTyped ==
    ASSUME Typed, GiveBack, UNCHANGED <<opt, metrics, routing, router, main>>
    PROVE  /\ Typed' /\ UNCHANGED <<register, lock, server>>
           /\ worker.at = "loop" /\ worker'.at = "lock" /\ worker'.data = worker.data /\ worker'.part = worker.part
           /\ worker'.stopped = worker.stopped /\ worker'.interrupted = worker.interrupted
           /\ luna' = [luna EXCEPT !.queue = luna'.queue]
           /\ \E item, queue :
                 /\ Takes(item, queue)
                 /\ luna'.queue \in {queue, Append(queue, item)}
                 /\ luna.put /\ ~luna.failed => luna'.queue = Append(queue, item)
<1>1. PICK item, queue, m, more : item = luna.queue[1] /\ queue = Tail(luna.queue) /\ m = <<item.metric>> /\ more = PutBack(queue, item)
    OBVIOUS
<1>2. /\ worker.at = "loop" /\ luna.queue # << >> /\ UNCHANGED <<register, lock, server>>
      /\ luna' = [luna EXCEPT !.queue = more]
      /\ worker' = [worker EXCEPT !.at = "lock", !.left = m]
    BY <1>1 DEF GiveBack
<1>3. Takes(item, queue)
    BY <1>1, <1>2, FirstTaken
<1>4. more \in {queue, Append(queue, item)} /\ (luna.put /\ ~luna.failed => more = Append(queue, item)) /\ more \in Seq(Piece)
  <2>1. Append(queue, item) \in Seq(Piece) /\ queue \in Seq(Piece)
      BY <1>3, AppendProperties DEF Takes
  <2> QED
      BY <1>1, <2>1 DEF PutBack
<1>5. m \in Seq(Metrics) /\ Len(m) = 1
    BY <1>1, <1>3 DEF Takes, Piece
<1>6. luna' \in LunaType /\ luna'.queue = more
    BY <1>2, <1>4 DEF Typed, TypeOK, LunaType
<1>7. /\ worker' \in WorkerType(worker'.left) /\ worker'.at = "lock" /\ worker'.left = m /\ worker'.data = worker.data
      /\ worker'.part = worker.part /\ worker'.stopped = worker.stopped /\ worker'.interrupted = worker.interrupted
    BY <1>2 DEF Typed, TypeOK, WorkerType
<1>8. Typed'
    BY <1>2, <1>5, <1>6, <1>7, WorkTyped DEF Typed, TypeOK, SameAsk
<1> QED
    BY <1>1, <1>2, <1>3, <1>4, <1>6, <1>7, <1>8

\* The metric is added to those to register, under the lock.
LEMMA AddMetricTyped ==
    ASSUME Typed, AddMetric, UNCHANGED <<opt, metrics, routing, router, main>>
    PROVE  /\ Typed' /\ UNCHANGED <<luna, server>> /\ DataSame
           /\ worker.at = "lock" /\ worker'.at = "unlock" /\ lock'
           /\ worker'.stopped = worker.stopped /\ worker'.interrupted = worker.interrupted
           /\ register'.at = register.at /\ register'.metric = register.metric /\ register'.interrupted = register.interrupted
           /\ register'.stopped = register.stopped
<1>1. /\ worker.at = "lock" /\ lock' = TRUE /\ UNCHANGED <<luna, server>>
      /\ worker' = [worker EXCEPT !.at = "unlock", !.left = << >>]
    BY DEF AddMetric
<1>2. PICK todo : todo = Added(register.todo, worker.left[1])
    OBVIOUS
<1>3. register' = [register EXCEPT !.todo = todo]
    BY <1>2 DEF AddMetric
<1>4. todo \in Seq(Metrics)
  <2>1. worker.left[1] \in Metrics /\ register.todo \in Seq(Metrics)
      BY <1>1 DEF Typed, TypeOK, Working, RegisterType
  <2> QED
      BY <1>2, <2>1, AddedTyped
<1>5. /\ register' \in RegisterType /\ register'.at = register.at /\ register'.metric = register.metric
      /\ register'.interrupted = register.interrupted /\ register'.stopped = register.stopped
    BY <1>3, <1>4 DEF Typed, TypeOK, RegisterType
<1>6. /\ worker' \in WorkerType(worker'.left) /\ worker'.at = "unlock" /\ worker'.left = << >> /\ worker'.data = worker.data
      /\ worker'.part = worker.part /\ worker'.stopped = worker.stopped /\ worker'.interrupted = worker.interrupted
    BY <1>1 DEF Typed, TypeOK, WorkerType
<1>7. Typed'
    BY <1>1, <1>5, <1>6, WorkTyped DEF Typed, TypeOK, SameAsk
<1> QED
    BY <1>1, <1>5, <1>6, <1>7 DEF DataSame

\* The lock is given back.
LEMMA UnlockTyped ==
    ASSUME Typed, Unlock, UNCHANGED <<opt, metrics, routing, router, main>>
    PROVE  /\ Typed' /\ UNCHANGED <<luna, register, server>> /\ DataSame
           /\ worker.at = "unlock" /\ worker'.at \in {"loop", "dead"} /\ (lock => worker'.at = "loop")
           /\ worker'.stopped = worker.stopped /\ worker'.interrupted = worker.interrupted
<1>1. /\ worker.at = "unlock" /\ lock' = FALSE /\ UNCHANGED <<luna, register, server>>
      /\ worker' = [worker EXCEPT !.at = IF lock THEN "loop" ELSE "dead"]
    BY DEF Unlock
<1>2. PICK at \in {"loop", "dead"} : at = IF lock THEN "loop" ELSE "dead"
    OBVIOUS
<1>3. worker.left = << >>
    BY <1>1 DEF Typed, Working
<1>4. /\ worker' \in WorkerType(worker'.left) /\ worker'.at = at /\ worker'.left = << >> /\ worker'.data = worker.data
      /\ worker'.part = worker.part /\ worker'.stopped = worker.stopped /\ worker'.interrupted = worker.interrupted
    BY <1>1, <1>2, <1>3 DEF Typed, TypeOK, WorkerType
<1>5. Typed'
    BY <1>1, <1>4, WorkTyped DEF Typed, TypeOK, SameAsk
<1> QED
    BY <1>1, <1>2, <1>4, <1>5 DEF DataSame

\* The thread has been told to stop, and its queue is empty or interrupted.
LEMMA WorkerEndsTyped ==
    ASSUME Typed, WorkerEnds, UNCHANGED <<opt, metrics, routing, router, main>>
    PROVE  /\ Typed' /\ UNCHANGED <<register, lock, server>>
           /\ worker.at = "loop" /\ worker.stopped /\ (luna.queue = << >> \/ worker.interrupted)
           /\ luna' = [luna EXCEPT !.queue = << >>] /\ luna'.queue = << >> /\ luna'.ids = luna.ids
           /\ worker'.data = worker.data /\ worker'.part \in {worker.part, "whole"}
           /\ worker'.stopped = worker.stopped /\ worker'.interrupted = worker.interrupted
           /\ \/ worker.data = << >> /\ worker'.at = "finished"
              \/ worker.data # << >> /\ worker'.at = "send" /\ worker'.left = worker.data
<1>1. /\ worker.at = "loop" /\ worker.stopped /\ (luna.queue = << >> \/ worker.interrupted) /\ UNCHANGED <<register, lock, server>>
      /\ luna' = [luna EXCEPT !.queue = << >>]
      /\ worker' = IF worker.data = << >> THEN [worker EXCEPT !.at = "finished"] ELSE Uploads(worker, worker.data, TRUE)
    BY DEF WorkerEnds
<1>2. luna' \in LunaType /\ luna'.queue = << >> /\ luna'.ids = luna.ids
  <2>1. << >> \in Seq(Piece)
      OBVIOUS
  <2> QED
      BY <1>1, <2>1 DEF Typed, TypeOK, LunaType
<1>3. worker.left = << >> /\ worker.data \in Seq(Table)
    BY <1>1 DEF Typed, TypeOK, Working, WorkerType
<1>4. CASE worker.data = << >>
  <2>1. worker' = [worker EXCEPT !.at = "finished"]
      BY <1>1, <1>4
  <2>2. /\ worker' \in WorkerType(worker'.left) /\ worker'.at = "finished" /\ worker'.left = << >> /\ worker'.data = worker.data
        /\ worker'.part = worker.part /\ worker'.stopped = worker.stopped /\ worker'.interrupted = worker.interrupted
      BY <1>3, <2>1 DEF Typed, TypeOK, WorkerType
  <2>3. Typed'
      BY <1>1, <1>2, <2>2, WorkTyped DEF Typed, TypeOK, SameAsk
  <2> QED
      BY <1>1, <1>2, <1>4, <2>2, <2>3
<1>5. CASE worker.data # << >>
  <2>1. worker' = Uploads(worker, worker.data, TRUE)
      BY <1>1, <1>5
  <2>2. /\ worker' \in WorkerType(worker'.left) /\ worker'.at = "send" /\ worker'.left = worker.data /\ worker'.data = worker.data
        /\ worker'.part = "whole" /\ worker'.stopped = worker.stopped /\ worker'.interrupted = worker.interrupted
    <3>1. UploadsIs(worker', worker, worker.data, TRUE)
        BY <1>3, <2>1, UploadsFields DEF Typed, TypeOK
    <3> QED
        BY <3>1, Zenon DEF UploadsIs
  <2>3. Typed'
      BY <1>1, <1>2, <1>3, <1>5, <2>2, WorkTyped DEF Typed, TypeOK, SameAsk
  <2> QED
      BY <1>1, <1>2, <1>5, <2>2, <2>3
<1> QED
    BY <1>4, <1>5

SentLines == {[table |-> worker.left[1].table, line |-> l] : l \in ToSet(Part)}

\* A part of a sequence.
LEMMA CutOut ==
    ASSUME NEW S, NEW s \in Seq(S), NEW a \in 1..Len(s) + 1, NEW b \in a - 1..Len(s)
    PROVE  SubSeq(s, a, b) \in Seq(S) /\ ToSet(SubSeq(s, a, b)) \subseteq ToSet(s)
<1>1. PICK t : t = SubSeq(s, a, b)
    OBVIOUS
<1>2. t \in Seq(S) /\ Len(t) = b - a + 1 /\ \A i \in 1..b - a + 1 : t[i] = s[a + i - 1]
    BY <1>1, SubSeqProperties
<1>3. DOMAIN t = 1..b - a + 1 /\ DOMAIN s = 1..Len(s) /\ Len(s) \in Nat
    BY <1>2, LenProperties
<1>4. \A i \in 1..b - a + 1 : a + i - 1 \in 1..Len(s)
    BY <1>3
<1> QED
    BY <1>1, <1>2, <1>3, <1>4 DEF ToSet

\* What is sent at a time: the table, or a half of it.
LEMMA PartLines ==
    ASSUME Typed, worker.at = "send"
    PROVE  /\ SentLines \subseteq LinesIn(worker.left[1]) /\ SentLines \subseteq Tagging
           /\ worker.part = "whole" => SentLines = LinesIn(worker.left[1])
           /\ Tail(worker.left) \in Seq(Table) /\ Len(Tail(worker.left)) = Len(worker.left) - 1 /\ Len(worker.left) \in Nat \ {0}
           /\ worker.left[1] \in Table
           /\ LinesOf(worker.left) = LinesIn(worker.left[1]) \cup LinesOf(Tail(worker.left))
<1>1. worker.left \in Seq(Table) /\ worker.left # << >>
    BY DEF Typed, Working
<1>2. PICK left \in Seq(Table) : left = worker.left
    BY <1>1
<1>3. /\ left[1] \in Table /\ Tail(left) \in Seq(Table) /\ Len(Tail(left)) = Len(left) - 1 /\ Len(left) \in Nat \ {0}
      /\ LinesOf(left) = LinesIn(left[1]) \cup LinesOf(Tail(left))
    BY <1>1, <1>2, LinesOfTail
<1>4. PICK lines \in Seq(Line) : lines = left[1].lines
    BY <1>3 DEF Table
<1>5. PICK n, half : n \in Nat /\ n = Len(lines) /\ half \in 0..n /\ half = n \div 2
    BY LenProperties
<1>6. PICK first, second : first = SubSeq(lines, 1, half) /\ second = SubSeq(lines, half + 1, n)
    OBVIOUS
<1>7. first \in Seq(Line) /\ ToSet(first) \subseteq ToSet(lines)
    BY <1>5, <1>6, CutOut
<1>8. second \in Seq(Line) /\ ToSet(second) \subseteq ToSet(lines)
  <2>1. half + 1 \in 1..n + 1 /\ n \in (half + 1) - 1..n
      BY <1>5
  <2> QED
      BY <1>5, <1>6, <2>1, CutOut
<1>9. /\ worker.part = "whole" => Part = lines
      /\ worker.part = "first" => Part = first
      /\ worker.part = "second" => Part = second
  <2>1. CASE worker.part = "whole"
      BY <1>2, <1>4, <2>1 DEF Part
  <2>2. CASE worker.part = "first"
      BY <1>2, <1>4, <1>5, <1>6, <2>2 DEF Part
  <2>3. CASE worker.part = "second"
      BY <1>2, <1>4, <1>5, <1>6, <2>3 DEF Part
  <2> QED
      BY <2>1, <2>2, <2>3
<1>10. worker.part \in {"whole", "first", "second"}
    BY DEF Typed, TypeOK, WorkerType
<1>12. ToSet(Part) \subseteq ToSet(lines)
    BY <1>7, <1>8, <1>9, <1>10
<1>13. LinesIn(left[1]) = {[table |-> left[1].table, line |-> l] : l \in ToSet(lines)}
    BY <1>4 DEF LinesIn, ToSet
<1>14. SentLines \subseteq LinesIn(left[1]) /\ (worker.part = "whole" => SentLines = LinesIn(left[1]))
    BY <1>2, <1>9, <1>12, <1>13 DEF SentLines
<1>15. LinesIn(left[1]) \subseteq Tagging
    BY <1>3, LinesInTypes
<1> QED
    BY <1>2, <1>3, <1>14, <1>15

\* What the service has after a part was sent.
LEMMA StoredGives ==
    ASSUME Typed, worker.at = "send", NEW o \in Outcomes, server' = Stored(o)
    PROVE  /\ o \in Outcome /\ server' \in ServerType
           /\ server'.created = server.created /\ server'.closed = server.closed
           /\ server'.faults <= server.faults /\ (server.shaky => server'.shaky)
           /\ server'.stored \in {server.stored, server.stored \cup SentLines}
           /\ ~server'.shaky =>
                 /\ ~server.shaky /\ o.result # "connection"
                 /\ server'.again \in {server.again, server.again \cup (SentLines \cap server.stored)}
           /\ server'.faults = server.faults =>
                 /\ o = Plain /\ o.result = "ok" /\ server'.shaky = server.shaky
                 /\ server'.stored = server.stored \cup SentLines
<1>1. server \in ServerType
    BY DEF Typed, TypeOK
<1>2. o \in Outcome /\ o.times \in 0..2
    BY <1>1, OutcomeTypes DEF Outcome
<1>3. Plain.times = 1 /\ Plain.result = "ok"
    BY DEF Plain
<1>4. SentLines \subseteq Tagging
    BY PartLines
<1>5. CASE o.times = 0
  <2>1. server' = Used(o, server)
      BY <1>5 DEF Stored
  <2>2. Took(o, server, server')
      BY <1>1, <2>1, ServerAsked
  <2> QED
      BY <1>2, <1>3, <1>5, <2>2 DEF Took
<1>6. CASE o.times # 0
  <2>1. PICK stored, again :
           /\ stored = server.stored \cup SentLines
           /\ again = server.again \cup (IF o.times = 2 THEN SentLines ELSE SentLines \cap server.stored)
      OBVIOUS
  <2>2. PICK s : s = [server EXCEPT !.stored = stored, !.again = again]
      OBVIOUS
  <2>3. server' = Used(o, s)
      BY <1>6, <2>1, <2>2 DEF Stored, SentLines
  <2>4. /\ s \in ServerType /\ s.created = server.created /\ s.closed = server.closed /\ s.stored = stored /\ s.again = again
        /\ s.faults = server.faults /\ s.shaky = server.shaky
    <3>1. stored \subseteq Tagging /\ again \subseteq Tagging
        BY <1>1, <1>4, <2>1 DEF ServerType
    <3> QED
        BY <1>1, <2>2, <3>1 DEF ServerType
  <2>5. Took(o, s, server')
      BY <1>1, <2>3, <2>4, ServerAsked
  <2>6. o.times # 2 => again = server.again \cup (SentLines \cap server.stored)
      BY <2>1
  <2> QED
      BY <1>2, <1>3, <2>1, <2>4, <2>5, <2>6 DEF Took
<1> QED
    BY <1>5, <1>6

\* A table is done, or a part of it, or it is given up.
WorkAfter(w) ==
    /\ w \in WorkerType(w.left)
    /\ w.at \in {"send", "loop", "finished"} /\ (w.at = "finished" => worker.final)
    /\ w.final = worker.final
    /\ w.at = "send" => w.left \in {worker.left, Tail(worker.left)} /\ w.left # << >>
    /\ w.at # "send" => w.left = << >>
    /\ w.data \in {worker.data, << >>}

\* After a table: the next one, or the end.
LEMMA TableDoneGives ==
    ASSUME Typed, worker.at = "send"
    PROVE  LET w == TableDone(worker)
           IN  /\ WorkAfter(w) /\ w.data = << >> /\ w.part = "whole"
               /\ w.at = "send" => w.left = Tail(worker.left)
               /\ w.at # "send" => Len(worker.left) = 1 /\ Tail(worker.left) = << >>
               /\ w.stopped = worker.stopped /\ w.interrupted = worker.interrupted
<1>1. PICK n \in Nat \ {0}, tail \in Seq(Table) : n = Len(worker.left) /\ tail = Tail(worker.left) /\ Len(tail) = n - 1
    BY PartLines
<1>2. PICK at \in {"send", "loop", "finished"} : at = IF n > 1 THEN "send" ELSE IF worker.final THEN "finished" ELSE "loop"
    OBVIOUS
<1>3. PICK w : w = TableDone(worker)
    OBVIOUS
<1>4. w = [worker EXCEPT !.data = << >>, !.left = tail, !.part = "whole", !.at = at]
    BY <1>1, <1>2, <1>3 DEF TableDone
<1>5. << >> \in Seq(Table)
    OBVIOUS
<1>6. /\ w \in WorkerType(w.left) /\ w.at = at /\ w.left = tail /\ w.data = << >> /\ w.part = "whole" /\ w.final = worker.final
      /\ w.stopped = worker.stopped /\ w.interrupted = worker.interrupted
    BY <1>4, <1>5 DEF Typed, TypeOK, WorkerType
<1>7. (at = "send" <=> n > 1) /\ (at = "finished" => worker.final)
    BY <1>2
<1>8. (n > 1 => tail # << >>) /\ (~(n > 1) => tail = << >> /\ n = 1)
  <2>1. tail = << >> <=> n - 1 = 0
      BY <1>1, EmptySeq
  <2>2. n \in Nat \ {0} /\ (~(n > 1) <=> n = 1)
      OBVIOUS
  <2> QED
      BY <2>1, <2>2
<1> QED
    BY <1>1, <1>3, <1>6, <1>7, <1>8 DEF WorkAfter

\* After a half: the other half, or as after a table.
LEMMA PartDoneGives ==
    ASSUME Typed, worker.at = "send"
    PROVE  WorkAfter(PartDone(worker))
<1>1. CASE worker.part = "first"
  <2>1. PartDone(worker) = [worker EXCEPT !.part = "second"]
      BY <1>1 DEF PartDone
  <2>2. worker.left # << >>
      BY DEF Typed, Working
  <2> QED
      BY <2>1, <2>2 DEF Typed, TypeOK, WorkerType, WorkAfter
<1>2. CASE worker.part # "first"
    BY <1>2, TableDoneGives DEF PartDone
<1> QED
    BY <1>1, <1>2

\* Both ways have failed.
LEMMA GiveUpGives ==
    ASSUME Typed, worker.at = "send"
    PROVE  WorkAfter(GiveUp(worker))
<1>1. PICK at \in {"loop", "finished"} : at = IF worker.final THEN "finished" ELSE "loop"
    OBVIOUS
<1>2. GiveUp(worker) = [worker EXCEPT !.left = << >>, !.part = "whole", !.at = at]
    BY <1>1 DEF GiveUp
<1>3. PICK w : w = [worker EXCEPT !.left = << >>, !.part = "whole", !.at = at]
    OBVIOUS
<1>4. w \in WorkerType(w.left) /\ w.at = at /\ w.left = << >> /\ w.data = worker.data /\ w.final = worker.final
    BY <1>3 DEF Typed, TypeOK, WorkerType
<1>5. WorkAfter(w)
    BY <1>1, <1>4 DEF WorkAfter
<1> QED
    BY <1>2, <1>3, <1>5

SentAs(o) ==
    /\ worker.at = "send" /\ lock' = lock
    /\ luna'.queue = luna.queue /\ luna'.ids = luna.ids /\ luna'.failed = luna.failed /\ luna'.job = luna.job
    /\ register' \in {register, Interrupted(register)}
    /\ worker'.at \in {"send", "loop", "finished"} /\ (worker'.at = "finished" => worker.final)
    /\ worker'.at = "send" => worker'.left \in {worker.left, Tail(worker.left)}
    /\ worker'.data \in {worker.data, << >>} /\ worker'.final = worker.final
    /\ server'.created = server.created /\ server'.closed = server.closed
    /\ server'.faults <= server.faults /\ (server.shaky => server'.shaky)
    /\ server'.stored \in {server.stored, server.stored \cup SentLines}
    /\ ~server'.shaky =>
          /\ ~server.shaky
          /\ server'.again \in {server.again, server.again \cup (SentLines \cap server.stored)}
          /\ worker.part = "whole" =>
                /\ worker'.data = << >> /\ worker'.part = "whole"
                /\ worker'.at = "send" => worker'.left = Tail(worker.left)
                /\ worker'.at # "send" => Tail(worker.left) = << >>
    /\ server'.faults = server.faults =>
          /\ luna' = luna /\ register' = register /\ worker'.stopped = worker.stopped /\ worker'.interrupted = worker.interrupted
          /\ server'.shaky = server.shaky
          /\ server'.stored = server.stored \cup SentLines

\* A request of the upload, however it ends.
LEMMA SendTyped ==
    ASSUME Typed, NEW o \in Outcomes, Send(o), UNCHANGED <<opt, metrics, routing, router, main>>
    PROVE  Typed' /\ SentAs(o)
<1>1. worker.at = "send" /\ server' = Stored(o) /\ lock' = lock
    BY DEF Send
<1>2. /\ o \in Outcome /\ server' \in ServerType
      /\ server'.created = server.created /\ server'.closed = server.closed
      /\ server'.faults <= server.faults /\ (server.shaky => server'.shaky)
      /\ server'.stored \in {server.stored, server.stored \cup SentLines}
      /\ ~server'.shaky =>
            /\ ~server.shaky /\ o.result # "connection"
            /\ server'.again \in {server.again, server.again \cup (SentLines \cap server.stored)}
      /\ server'.faults = server.faults =>
            /\ o = Plain /\ o.result = "ok" /\ server'.shaky = server.shaky
            /\ server'.stored = server.stored \cup SentLines
    BY <1>1, StoredGives
<1>3. Tail(worker.left) \in Seq(Table) /\ worker.left \in Seq(Table) /\ worker.left # << >>
    BY <1>1, PartLines DEF Typed, Working
<1>4. ASSUME WorkAfter(worker'), luna' \in LunaType, register' \in RegisterType, SameAsk(register, register') PROVE Typed'
  <2>1. worker'.at = "send" => worker'.left \in Seq(Table) /\ worker'.left # << >>
      BY <1>3, <1>4 DEF WorkAfter
  <2>2. worker'.at # "lock" /\ (worker'.at \notin {"lock", "send"} => worker'.left = << >>) /\ worker' \in WorkerType(worker'.left)
      BY <1>4 DEF WorkAfter
  <2> QED
      BY <1>1, <1>2, <1>4, <2>1, <2>2, WorkTyped DEF Typed, TypeOK
<1>5. PICK done : done = TableDone(worker)
    OBVIOUS
<1>6. /\ WorkAfter(done) /\ done.data = << >> /\ done.part = "whole"
      /\ done.at = "send" => done.left = Tail(worker.left)
      /\ done.at # "send" => Tail(worker.left) = << >>
      /\ done.stopped = worker.stopped /\ done.interrupted = worker.interrupted
    BY <1>1, <1>5, TableDoneGives
<1>7. /\ worker.part = "whole" => PartDone(worker) = done
      /\ PartDone(worker) = done \/ PartDone(worker) = [worker EXCEPT !.part = "second"]
    BY <1>5 DEF PartDone
<1>8. PICK part : part = PartDone(worker) /\ WorkAfter(part)
    BY <1>1, PartDoneGives
<1>9. part.stopped = worker.stopped /\ part.interrupted = worker.interrupted
    BY <1>6, <1>7, <1>8 DEF Typed, TypeOK, WorkerType
<1>10. luna \in LunaType /\ register \in RegisterType
    BY DEF Typed, TypeOK
<1>11. CASE o.result = "ok"
  <2>1. worker' = part /\ UNCHANGED <<luna, register>>
      BY <1>8, <1>11 DEF Send
  <2>2. Typed'
      BY <1>4, <1>8, <1>10, <2>1 DEF SameAsk
  <2>3. SentAs(o)
    <3>1. WorkAfter(worker')
        BY <1>8, <2>1
    <3>2. worker.part = "whole" =>
                /\ worker'.data = << >> /\ worker'.part = "whole"
                /\ worker'.at = "send" => worker'.left = Tail(worker.left)
                /\ worker'.at # "send" => Tail(worker.left) = << >>
        BY <1>6, <1>7, <1>8, <2>1
    <3> QED
        BY <1>1, <1>2, <1>9, <2>1, <3>1, <3>2 DEF SentAs, WorkAfter
  <2> QED
      BY <2>2, <2>3
<1>12. CASE o.result = "connection"
  <2>1. UNCHANGED <<luna, register>> /\ worker' = IF worker.part = "whole" THEN [worker EXCEPT !.part = "first"] ELSE GiveUp(worker)
      BY <1>12 DEF Send
  <2>2. WorkAfter(worker')
    <3>1. CASE worker.part = "whole"
      <4>1. worker' = [worker EXCEPT !.part = "first"]
          BY <2>1, <3>1
      <4> QED
          BY <1>1, <1>3, <4>1 DEF Typed, TypeOK, WorkerType, WorkAfter
    <3>2. CASE worker.part # "whole"
        BY <1>1, <2>1, <3>2, GiveUpGives
    <3> QED
        BY <3>1, <3>2
  <2>3. Typed'
      BY <1>4, <1>10, <2>1, <2>2 DEF SameAsk
  <2>4. SentAs(o)
      BY <1>1, <1>2, <1>12, <2>1, <2>2 DEF SentAs, WorkAfter
  <2> QED
      BY <2>3, <2>4
<1>13. CASE o.result = "error"
  <2>1. luna' = [luna EXCEPT !.put = FALSE] /\ register' = Interrupted(register) /\ worker' = Interrupted(part)
      BY <1>8, <1>13 DEF Send
  <2>2. luna' \in LunaType /\ luna'.queue = luna.queue /\ luna'.ids = luna.ids /\ luna'.failed = luna.failed /\ luna'.job = luna.job
      BY <1>10, <2>1 DEF LunaType
  <2>3. register' \in RegisterType /\ SameAsk(register, register')
      BY <1>10, <2>1, RegisterFields DEF SameAsk
  <2>4. /\ worker' \in WorkerType(worker'.left) /\ worker'.at = part.at /\ worker'.left = part.left /\ worker'.data = part.data
        /\ worker'.part = part.part /\ worker'.final = part.final
      BY <1>8, <2>1, WorkerFields DEF WorkAfter
  <2>5. WorkAfter(worker')
      BY <1>8, <2>4 DEF WorkAfter
  <2>6. Typed'
      BY <1>4, <2>2, <2>3, <2>5
  <2>7. SentAs(o)
    <3>1. worker.part = "whole" =>
                /\ worker'.data = << >> /\ worker'.part = "whole"
                /\ worker'.at = "send" => worker'.left = Tail(worker.left)
                /\ worker'.at # "send" => Tail(worker.left) = << >>
        BY <1>6, <1>7, <1>8, <2>4
    <3> QED
        BY <1>1, <1>2, <1>13, <2>1, <2>2, <2>5, <3>1 DEF SentAs, WorkAfter
  <2> QED
      BY <2>6, <2>7
<1> QED
    BY <1>2, <1>11, <1>12, <1>13 DEF Outcome

Len0 == Len(opt.program)

\* The rows of a metric: finitely many, and each of a call of the program.
LEMMA RowsGiven ==
    ASSUME opt \in Options, NEW m
    PROVE  /\ RowsOf(m) \subseteq Row /\ IsFiniteSet(RowsOf(m))
           /\ \A r \in RowsOf(m) : /\ r.put \in 1..Len0 /\ r.second \in Int
                                   /\ opt.program[r.put].call = "put" /\ opt.program[r.put].metric = m
                                   /\ r \in Frame(r.put, opt.program[r.put].seconds)
<1>1. Len0 \in Nat /\ DOMAIN opt.program = 1..Len0
    BY OptionTypes DEF Len0
<1>2. \A i \in Puts(m) : i \in 1..Len0 /\ opt.program[i].call = "put" /\ opt.program[i].metric = m
    BY <1>1 DEF Puts
<1>3. ASSUME NEW i \in Puts(m)
      PROVE  /\ Frame(i, opt.program[i].seconds) \subseteq Row /\ IsFiniteSet(Frame(i, opt.program[i].seconds))
             /\ \A r \in Frame(i, opt.program[i].seconds) : r.put = i /\ r.second \in Int
    BY <1>2, FramesTyped DEF Len0
<1>4. PICK S : S = {Frame(i, opt.program[i].seconds) : i \in Puts(m)}
    OBVIOUS
<1>5. IsFiniteSet(S)
  <2>1. PICK f : f = [i \in Puts(m) |-> Frame(i, opt.program[i].seconds)]
      OBVIOUS
  <2>2. IsFiniteSet(Puts(m))
      BY <1>1, FS_Interval, FS_Subset DEF Puts
  <2>3. Range(f) = S /\ DOMAIN f = Puts(m) /\ f = [i \in DOMAIN f |-> f[i]]
      BY <1>4, <2>1 DEF Range
  <2> QED
      BY <2>2, <2>3, FiniteImage
<1>6. \A T \in S : IsFiniteSet(T)
    BY <1>3, <1>4
<1>7. RowsOf(m) = UNION S
    BY <1>4 DEF RowsOf
<1>8. IsFiniteSet(RowsOf(m))
    BY <1>5, <1>6, <1>7, FS_UNION
<1>9. \A r \in RowsOf(m) : \E i \in Puts(m) : r \in Frame(i, opt.program[i].seconds)
    BY DEF RowsOf
<1> QED
    BY <1>2, <1>3, <1>8, <1>9

\* The calls that are made go on, and what is added to them is no put.
MadeOn ==
    /\ Made' \in Nat /\ Made <= Made' /\ \A k \in Made + 1..Made' : opt.program[k].call # "put"
    /\ main.at \notin NotClosing => main'.at \notin NotClosing
    /\ main'.at = "user" => main'.i \in 1..Len(opt.program) + 1

InProgram == main.at = "user" => main.i \in 1..Len(opt.program) + 1

\* How far the program is.
LEMMA MadeTypes ==
    ASSUME Typed, InProgram
    PROVE  /\ Made \in 0..Len0 /\ Len0 \in Nat
           /\ main.at \in {"build", "raised", "locked"} => Made = 0
           /\ main.at = "user" => Made = main.i - 1
           /\ main.at \notin NotClosing => Made = Len0
<1>1. main.at \in Stages /\ main.i \in Nat
    BY DEF Typed, TypeOK
<1>2. Len0 \in Nat
    BY OptionTypes DEF Len0, Typed, TypeOK
<1>3. CASE main.at \in {"build", "raised", "locked"}
    BY <1>2, <1>3 DEF Made, NotClosing
<1>4. CASE main.at = "user"
    BY <1>1, <1>2, <1>4 DEF Made, NotClosing, InProgram, Len0
<1>5. CASE main.at \notin NotClosing
    BY <1>1, <1>2, <1>5 DEF Made, NotClosing, Len0
<1> QED
    BY <1>3, <1>4, <1>5 DEF NotClosing

\* A step of another thread makes no call.
LEMMA MainSame ==
    ASSUME Typed, InProgram, UNCHANGED <<main, opt>>
    PROVE  MadeOn
<1>1. Made' = Made /\ Made \in Nat
    BY MadeTypes DEF Made
<1> QED
    BY <1>1 DEF MadeOn, InProgram

\* The constructor makes none.
LEMMA BuildMakes ==
    ASSUME Typed, InProgram, Build
    PROVE  MadeOn
<1>1. main.at = "build" /\ main'.at \in {"build", "raised", "locked", "user"} /\ (main'.at = "user" => main'.i = 1) /\ opt' = opt
  <2>1. main \in Place /\ {"raised", "locked", "user"} \subseteq Stages
      BY DEF Typed, TypeOK, Place, Stages, NotClosing
  <2>2. main.at = "build" /\ (Next1 \/ Goes("raised") \/ Goes("locked") \/ Goes("user")) /\ opt' = opt
      BY DEF Build, BuildLuna, BuildLocal, BuildVolta, Built, Client, AllClients, Untouched
  <2> QED
      BY <2>1, <2>2, Moves
<1>2. Made = 0 /\ Len(opt.program) \in Nat
    BY <1>1, MadeTypes DEF Len0
<1>3. Made' = 0
  <2>1. CASE main'.at = "user"
      BY <1>1, <2>1 DEF Made
  <2>2. CASE main'.at # "user"
      BY <1>1, <2>2 DEF Made
  <2> QED
      BY <2>1, <2>2
<1> QED
    BY <1>1, <1>2, <1>3 DEF MadeOn, NotClosing

\* Calls other than put put nothing.
LEMMA UserMakes ==
    ASSUME Typed, InProgram, User, ~Put
    PROVE  MadeOn
<1>1. PICK name : Call(name) /\ name # "put" /\ (Next1 \/ UNCHANGED main) /\ opt' = opt
  <2>1. CASE NewTrueMetric
      BY <2>1 DEF NewTrueMetric
  <2>2. CASE UpdateAsksForJob
      BY <2>2, MainAsked DEF UpdateAsksForJob, Typed
  <2>3. CASE UpdateJob
      BY <2>3 DEF UpdateJob, Untouched
  <2>4. CASE UpdateMetric
      BY <2>4 DEF UpdateMetric
  <2> QED
      BY <2>1, <2>2, <2>3, <2>4 DEF User
<1>2. CASE UNCHANGED main
    BY <1>1, <1>2, MainSame
<1>3. CASE Next1
  <2>1. main.i \in 1..Len(opt.program) /\ opt.program[main.i].call = name /\ main.at = "user"
      BY <1>1, CallTypes DEF Call
  <2>2. main'.at = "user" /\ main'.i = main.i + 1
      BY <1>3, <2>1, Moves DEF Typed, TypeOK, Place
  <2>3. Made = main.i - 1 /\ Len(opt.program) \in Nat
      BY <2>1, MadeTypes DEF Len0
  <2>4. Made' = main.i
      BY <2>1, <2>2 DEF Made
  <2>5. Made + 1..Made' = {main.i}
      BY <2>1, <2>3, <2>4
  <2> QED
      BY <1>1, <2>1, <2>2, <2>3, <2>4, <2>5 DEF MadeOn, NotClosing
<1> QED
    BY <1>1, <1>2, <1>3

\* close() makes no call.
LEMMA CloseMakes ==
    ASSUME Typed, InProgram, CloseOfClients
    PROVE  MadeOn
<1>1. main \in Place /\ {"interrupted", "close", "job", "worker", "register", "close job", "closed"} \subseteq Stages
    BY DEF Typed, TypeOK, Place, Stages, InClose
<1>2. opt' = opt
    BY CloseTyped
<1>3. \/ RouterJoined /\ main.at = "join"
      \/ ~RouterJoined /\ main.at \in {"close", "job", "worker", "register", "close job"}
    BY DEF CloseOfClients, RouterJoined, StopWorker, CloseAsksForJob, CloseHasJob, WorkerJoined, RegisterJoined, CloseJob, StopLocal,
           LocalJoined, CloseVolta, Closed, Client, AllClients
<1>4. \/ Next1 \/ NextClient \/ UNCHANGED main \/ Goes("closed") \/ At("job") \/ At("worker") \/ At("register") \/ At("close job")
      \/ Goes("interrupted") \/ Goes("close")
  <2>1. CASE CloseAsksForJob
    <3>1. UNCHANGED main \/ NextClient
        BY <2>1, MainAsked DEF CloseAsksForJob, Typed
    <3> QED
        BY <3>1, Zenon
  <2>2. CASE ~CloseAsksForJob
    <3>1. CASE RouterJoined
      <4>1. PICK place \in {"interrupted", "close"} : place = IF opt.interrupt THEN "interrupted" ELSE "close"
          OBVIOUS
      <4>2. Goes(place)
          BY <3>1, <4>1 DEF RouterJoined
      <4> QED
          BY <4>1, <4>2
    <3>2. CASE ~RouterJoined
        BY <2>2, <3>2 DEF CloseOfClients, StopWorker, CloseHasJob, WorkerJoined, RegisterJoined, CloseJob, StopLocal,
               LocalJoined, CloseVolta, Closed
    <3> QED
        BY <3>1, <3>2
  <2> QED
      BY <2>1, <2>2
<1>5. main.at \notin NotClosing
    BY <1>3 DEF NotClosing
<1>6. main'.at \in {main.at, "close", "closed", "job", "worker", "register", "close job", "interrupted"}
    BY <1>1, <1>4, Moves
<1>7. main'.at \notin NotClosing
    BY <1>5, <1>6 DEF NotClosing
<1>8. Made = Len0 /\ Len0 \in Nat
    BY <1>5, MadeTypes
<1>9. Made' = Len0
    BY <1>2, <1>7 DEF Made, NotClosing, Len0
<1> QED
    BY <1>5, <1>7, <1>8, <1>9 DEF MadeOn, NotClosing

Core == Typed /\ Routing /\ Buffers

\* What the program says does not change.
LEMMA RowsStay ==
    ASSUME opt' = opt
    PROVE  /\ \A m : RowsOf(m)' = RowsOf(m) /\ InTime(m)' = InTime(m) /\ IsAggregated(m)' = IsAggregated(m)
           /\ \A m, s : RowsIn(m, s)' = RowsIn(m, s)
           /\ \A item, k : IsPut(item, k)' = IsPut(item, k)
           /\ Len0' = Len0
BY DEF RowsOf, Puts, Frame, InTime, IsAggregated, RowsIn, IsPut, Len0

\* The rows that the router has taken, when it has not gone on.
LEMMA PassedSame ==
    ASSUME Core, MadeOn, UNCHANGED <<opt, routing>>
    PROVE  \A m : Passed(m)' = Passed(m)
<1> SUFFICES ASSUME NEW m PROVE Passed(m)' = Passed(m)
    OBVIOUS
<1>1. InProgram /\ opt \in Options
    BY DEF Core, Routing, InProgram, Typed, TypeOK
<1>2. Made \in Nat
    BY <1>1, MadeTypes DEF Core
<1>3. \A k \in 1..Len0 : opt.program[k].call = "put" => (k <= Made' <=> k <= Made)
  <2> TAKE k \in 1..Len0
  <2> HAVE opt.program[k].call = "put"
  <2>1. k \in Nat /\ k \notin Made + 1..Made'
      BY DEF MadeOn
  <2> QED
      BY <1>2, <2>1 DEF MadeOn
<1>4. \A r \in RowsOf(m) : r.put <= Made' <=> r.put <= Made
    BY <1>1, <1>3, RowsGiven
<1>5. RowsOf(m)' = RowsOf(m)
    BY RowsStay
<1> QED
    BY <1>4, <1>5 DEF Passed

\* The buffers, when they are left alone.
LEMMA BuffersSame ==
    ASSUME Core, opt' = opt, router'.buffer = router.buffer, router.done => router'.done, \A m : Passed(m)' = Passed(m)
    PROVE  Buffers'
<1>1. \A m : Gone(m)' = Gone(m)
    BY DEF Gone
<1>2. Metrics' = Metrics
    BY TypesStay
<1> SUFFICES ASSUME NEW m \in Metrics
    PROVE  /\ router'.buffer[m] \subseteq Passed(m)'
           /\ router'.buffer[m] # {} => IsAggregated(m)'
           /\ ~router'.done /\ IsAggregated(m)' =>
                 /\ \A q \in Passed(m)' : \E b \in router'.buffer[m] : b.second >= q.second
                 /\ \A b \in router'.buffer[m] : \A q \in Passed(m)' : b.second >= q.second - BufferSize
                 /\ InTime(m)' => \A r \in Gone(m)', q \in RowsOf(m)' : q.second = r.second => q \in Gone(m)'
    BY <1>2, Zenon DEF Buffers
<1>3. /\ router.buffer[m] \subseteq Passed(m)
      /\ router.buffer[m] # {} => IsAggregated(m)
      /\ ~router.done /\ IsAggregated(m) =>
            /\ \A q \in Passed(m) : \E b \in router.buffer[m] : b.second >= q.second
            /\ \A b \in router.buffer[m] : \A q \in Passed(m) : b.second >= q.second - BufferSize
            /\ InTime(m) => \A r \in Gone(m), q \in RowsOf(m) : q.second = r.second => q \in Gone(m)
    BY DEF Core, Buffers
<1>4. Passed(m)' = Passed(m) /\ RowsOf(m)' = RowsOf(m) /\ InTime(m)' = InTime(m) /\ IsAggregated(m)' = IsAggregated(m)
    BY RowsStay
<1> QED
    BY <1>1, <1>3, <1>4

\* The steps that do not touch the queue and the router.
LEMMA RouterSame ==
    ASSUME Core, MadeOn, UNCHANGED <<opt, routing, router>>
    PROVE  Routing' /\ Buffers' /\ \A m : Passed(m)' = Passed(m)
<1>1. \A m : Passed(m)' = Passed(m)
    BY PassedSame
<1>2. Buffers'
    BY <1>1, BuffersSame
<1>3. Metrics' = Metrics
    BY TypesStay
<1>4. \A i \in DOMAIN routing : \E k \in 1..Made' : IsPut(routing[i], k)'
  <2>1. ASSUME NEW i \in DOMAIN routing PROVE \E k \in 1..Made' : IsPut(routing[i], k)'
    <3>1. PICK k \in 1..Made : IsPut(routing[i], k)
        BY DEF Core, Routing
    <3>2. InProgram
        BY DEF Core, Routing, InProgram
    <3>3. Made \in Nat
        BY <3>2, MadeTypes DEF Core
    <3>5. k \in 1..Made'
        BY <3>3 DEF MadeOn
    <3>6. IsPut(routing[i], k)'
        BY <3>1 DEF IsPut, Frame
    <3> QED
        BY <3>5, <3>6
  <2> QED
      BY <2>1
<1>5. \A m \in Metrics' : \A r \in Passed(m)' : \A i \in DOMAIN routing' : \A b \in routing'[i].rows : r.put < b.put
    BY <1>1, <1>3 DEF Core, Routing
<1>6. Routing'
  <2>1. /\ main'.at = "user" => main'.i \in 1..Len(opt'.program) + 1
        /\ router'.stopped => main'.at \notin NotClosing
      BY DEF MadeOn, Core, Routing
  <2> QED
      BY <1>4, <1>5, <2>1 DEF Core, Routing, NotClosing
<1> QED
    BY <1>1, <1>2, <1>6

\* A call of put: its rows are in the queue, and not yet taken.
LEMMA PutKeeps ==
    ASSUME Core, Put
    PROVE  Routing' /\ Buffers' /\ \A m : Passed(m)' = Passed(m)
<1>1. /\ Typed' /\ UNCHANGED <<opt, metrics, router, luna, register, lock, worker, server>>
      /\ main.at = "user" /\ main.i \in 1..Len(opt.program) /\ main' = [main EXCEPT !.i = main.i + 1]
      /\ opt.program[main.i].call = "put"
    BY PutTyped DEF Core
<1>2. PICK item \in Item : IsPut(item, main.i) /\ routing' = Append(routing, item)
    BY PutTyped DEF Core
<1>3. PICK k : k = main.i
    OBVIOUS
<1>4. main'.at = "user" /\ main'.i = k + 1 /\ k \in 1..Len(opt.program) /\ Len(opt.program) \in Nat
    BY <1>1, <1>3, OptionTypes DEF Core, Typed, TypeOK
<1>5. Made = k - 1 /\ Made' = k /\ k \in Nat
  <2>1. Made = k - 1
      BY <1>1, <1>3, MadeTypes DEF Core, Routing, InProgram
  <2>2. Made' = k
      BY <1>4 DEF Made
  <2> QED
      BY <1>4, <2>1, <2>2
<1>6. /\ routing \in Seq(Item) /\ DOMAIN routing = 1..Len(routing) /\ Len(routing) \in Nat
      /\ DOMAIN routing' = 1..Len(routing) + 1
      /\ \A i \in DOMAIN routing : routing'[i] = routing[i]
      /\ routing'[Len(routing) + 1] = item
    BY <1>2, AppendProperties, LenProperties DEF Core, Typed, TypeOK
<1>7. \A i \in DOMAIN routing' : (i \in DOMAIN routing /\ routing'[i] = routing[i]) \/ (i = Len(routing) + 1 /\ routing'[i] = item)
    BY <1>6
<1>8. /\ item.metric = opt.program[k].metric /\ item.rows = Frame(k, opt.program[k].seconds)
      /\ \A r \in item.rows : r.put = k /\ r.second \in Int
    BY <1>1, <1>2, <1>3, <1>4, FramesTyped DEF IsPut, Core, Typed, TypeOK
<1>9. \A i \in DOMAIN routing : \E j \in 1..k - 1 : IsPut(routing[i], j) /\ \A r \in routing[i].rows : r.put = j
  <2> TAKE i \in DOMAIN routing
  <2>1. PICK j \in 1..k - 1 : IsPut(routing[i], j)
      BY <1>5 DEF Core, Routing
  <2>2. routing[i].rows = Frame(j, opt.program[j].seconds)
      BY <2>1 DEF IsPut
  <2> QED
      BY <2>1, <2>2 DEF Frame
<1>10. \A m : Passed(m)' = Passed(m)
  <2> SUFFICES ASSUME NEW m PROVE Passed(m)' = Passed(m)
      OBVIOUS
  <2>1. RowsOf(m)' = RowsOf(m)
      BY <1>1, RowsStay
  <2>2. ASSUME NEW r \in RowsOf(m), r.put <= k, \A i \in DOMAIN routing' : r \notin routing'[i].rows
        PROVE  r.put <= k - 1 /\ \A i \in DOMAIN routing : r \notin routing[i].rows
    <3>1. r \notin item.rows
        BY <1>6, <2>2
    <3>2. r.put # k
        BY <1>8, <3>1, RowsGiven DEF Core, Typed, TypeOK
    <3>3. r.put \in Int
        BY RowsGiven DEF Core, Typed, TypeOK, Len0
    <3> QED
        BY <1>5, <1>6, <2>2, <3>2, <3>3
  <2>3. ASSUME NEW r \in RowsOf(m), r.put <= k - 1, \A i \in DOMAIN routing : r \notin routing[i].rows
        PROVE  r.put <= k /\ \A i \in DOMAIN routing' : r \notin routing'[i].rows
    <3>1. r.put \in Int
        BY RowsGiven DEF Core, Typed, TypeOK, Len0
    <3>2. r \notin item.rows
        BY <1>5, <1>8, <2>3, <3>1
    <3> QED
        BY <1>5, <1>7, <2>3, <3>1, <3>2
  <2> QED
      BY <1>5, <2>1, <2>2, <2>3 DEF Passed
<1>11. Buffers'
    BY <1>1, <1>10, BuffersSame
<1>12. \A m : \A r \in Passed(m) : r.put \in Int /\ r.put <= k - 1
    BY <1>5, RowsGiven DEF Passed, Core, Typed, TypeOK, Len0
<1>13. \A i \in DOMAIN routing' : \E j \in 1..Made' : IsPut(routing[i], j)'
  <2> TAKE i \in DOMAIN routing'
  <2>1. CASE i \in DOMAIN routing /\ routing'[i] = routing[i]
    <3>1. PICK j \in 1..k - 1 : IsPut(routing[i], j)
        BY <1>9, <2>1
    <3>2. IsPut(routing[i], j)'
        BY <1>1, <2>1, <3>1 DEF IsPut, Frame
    <3> QED
        BY <1>5, <3>1, <3>2
  <2>2. CASE routing'[i] = item
    <3>1. IsPut(routing[i], k)'
        BY <1>1, <1>2, <1>3, <2>2 DEF IsPut, Frame
    <3> QED
        BY <1>4, <1>5, <3>1
  <2> QED
      BY <1>7, <2>1, <2>2
<1>14. ASSUME NEW i \in DOMAIN routing', NEW j \in DOMAIN routing', i < j
       PROVE  \A a \in routing'[i].rows, b \in routing'[j].rows : a.put < b.put
  <2>1. i \in DOMAIN routing /\ routing'[i] = routing[i]
      BY <1>6, <1>7, <1>14
  <2>2. CASE j \in DOMAIN routing
      BY <1>6, <1>14, <2>1, <2>2 DEF Core, Routing
  <2>3. CASE j \notin DOMAIN routing
    <3>1. routing'[j] = item
        BY <1>7, <2>3
    <3>2. PICK n \in 1..k - 1 : \A r \in routing[i].rows : r.put = n
        BY <1>9, <2>1
    <3> QED
        BY <1>5, <1>8, <2>1, <3>1, <3>2
  <2> QED
      BY <2>2, <2>3
<1>15. \A m \in Metrics' : \A r \in Passed(m)' : \A i \in DOMAIN routing' : \A b \in routing'[i].rows : r.put < b.put
  <2> SUFFICES ASSUME NEW m \in Metrics, NEW r \in Passed(m), NEW i \in DOMAIN routing', NEW b \in routing'[i].rows
               PROVE  r.put < b.put
      BY <1>1, <1>10, TypesStay
  <2>1. CASE i \in DOMAIN routing
      BY <1>7, <1>6, <2>1 DEF Core, Routing
  <2>2. CASE i \notin DOMAIN routing
    <3>1. b.put = k
        BY <1>7, <1>8, <2>2
    <3> QED
        BY <1>5, <1>12, <3>1
  <2> QED
      BY <2>1, <2>2
<1>16. ~router.stopped /\ ~router.done
    BY <1>1 DEF Core, Routing, NotClosing
<1>17. Routing'
  <2>1. main'.at = "user" => main'.i \in 1..Len(opt'.program) + 1
      BY <1>1, <1>4
  <2>2. ~router'.stopped /\ ~router'.done /\ (router'.interrupted => opt'.interrupt)
      BY <1>1, <1>16 DEF Core, Routing
  <2> QED
      BY <1>13, <1>14, <1>15, <2>1, <2>2 DEF Routing
<1> QED
    BY <1>10, <1>11, <1>17

\* Telling the router to stop.
LEMMA CloseManagerKeeps ==
    ASSUME Core, CloseManager
    PROVE  Routing' /\ Buffers' /\ \A m : Passed(m)' = Passed(m)
<1>1. /\ Typed' /\ UNCHANGED <<opt, metrics, routing, luna, register, lock, worker, server>>
      /\ main.at = "user" /\ main.i > Len(opt.program) /\ main'.at = "join" /\ main'.i = 1
      /\ router' = [router EXCEPT !.stopped = TRUE, !.interrupted = opt.interrupt]
    BY CloseManagerTyped DEF Core
<1>2. /\ router'.buffer = router.buffer /\ router'.done = router.done /\ router'.interrupted = opt.interrupt
    BY <1>1 DEF Core, Typed, TypeOK, RouterType
<1>3. main.i = Len(opt.program) + 1 /\ Len(opt.program) \in Nat
    BY <1>1, OptionTypes DEF Core, Routing, Typed, TypeOK
<1>4. Made = Len(opt.program) /\ Made' = Len(opt.program)
  <2>1. Made = main.i - 1
      BY <1>1, MadeTypes DEF Core, Routing, InProgram
  <2>2. Made' = Len(opt.program)
      BY <1>1 DEF Made
  <2> QED
      BY <1>3, <2>1, <2>2
<1>5. MadeOn
    BY <1>1, <1>3, <1>4 DEF MadeOn, NotClosing
<1>6. \A m : Passed(m)' = Passed(m)
    BY <1>1, <1>5, PassedSame
<1>7. Buffers'
    BY <1>1, <1>2, <1>6, BuffersSame
<1>8. ~router.done
    BY <1>1 DEF Core, Routing, NotClosing
<1>9. \A i \in DOMAIN routing : \E k \in 1..Made' : IsPut(routing[i], k)'
    BY <1>1, <1>4 DEF Core, Routing, IsPut, Frame
<1>10. \A m \in Metrics' : \A r \in Passed(m)' : \A i \in DOMAIN routing' : \A b \in routing'[i].rows : r.put < b.put
    BY <1>1, <1>6, TypesStay DEF Core, Routing
<1>11. Routing'
    BY <1>1, <1>2, <1>8, <1>9, <1>10 DEF Core, Routing, NotClosing
<1> QED
    BY <1>6, <1>7, <1>11

\* Every buffer is of rows that were put, of which there are finitely many.
LEMMA BuffersFinite ==
    ASSUME Core
    PROVE  /\ \A m \in Metrics : /\ router.buffer[m] \in SUBSET Row /\ IsFiniteSet(router.buffer[m])
                                 /\ router.buffer[m] \subseteq Passed(m) /\ Passed(m) \subseteq RowsOf(m)
           /\ router.buffer \in [Metrics -> SUBSET Row] /\ opt \in Options
<1>1. router.buffer \in [Metrics -> SUBSET Row] /\ opt \in Options
    BY DEF Core, Typed, TypeOK, RouterType
<1>2. ASSUME NEW m \in Metrics
      PROVE  /\ router.buffer[m] \in SUBSET Row /\ IsFiniteSet(router.buffer[m])
             /\ router.buffer[m] \subseteq Passed(m) /\ Passed(m) \subseteq RowsOf(m)
  <2>1. router.buffer[m] \subseteq Passed(m) /\ Passed(m) \subseteq RowsOf(m)
      BY DEF Core, Buffers, Passed
  <2>2. IsFiniteSet(RowsOf(m))
      BY <1>1, RowsGiven
  <2>3. IsFiniteSet(router.buffer[m])
      BY <2>1, <2>2, FS_Subset
  <2> QED
      BY <1>1, <2>1, <2>3
<1> QED
    BY <1>1, <1>2

\* The first item of the queue, and what is left.
First(item, k, rest) ==
    /\ item \in Item /\ k \in 1..Made /\ IsPut(item, k) /\ Made \in Nat
    /\ routing # << >> /\ item = routing[1] /\ rest = Tail(routing) /\ rest \in Seq(Item)
    /\ IsFiniteSet(item.rows) /\ item.rows \in SUBSET Row /\ item.metric \in Metrics
    /\ \A r \in item.rows : r.put = k /\ r.second \in Int
    /\ \A q, r \in item.rows : q.second = r.second => q = r
    /\ \A i \in DOMAIN rest : i + 1 \in DOMAIN routing /\ rest[i] = routing[i + 1]
    /\ \A i \in DOMAIN routing : i = 1 \/ (i - 1 \in DOMAIN rest /\ rest[i - 1] = routing[i])
    /\ item.rows \subseteq RowsOf(item.metric)
    /\ \A m : item.rows \cap Passed(m) = {}
    /\ \A m : \A r \in RowsOf(m) : r \in item.rows => m = item.metric
    /\ \A i \in DOMAIN rest : \A b \in rest[i].rows : b.put \in Int /\ (item.rows # {} => k < b.put)

\* There is a first frame when the queue is not empty.
LEMMA FirstOfQueue ==
    ASSUME Core, routing # << >>
    PROVE  \E item, k, rest : First(item, k, rest)
<1>1. /\ routing \in Seq(Item) /\ opt \in Options /\ Made \in 0..Len0 /\ Len0 \in Nat
    BY MadeTypes DEF Core, Typed, TypeOK, Routing, InProgram
<1>2. PICK item, rest : item = routing[1] /\ rest = Tail(routing)
    OBVIOUS
<1>3. PICK n \in Nat : n = Len(routing) /\ n > 0 /\ DOMAIN routing = 1..n
    BY <1>1, LenProperties, EmptySeq
<1>4. item \in Item /\ rest \in Seq(Item) /\ Len(rest) = n - 1 /\ DOMAIN rest = 1..n - 1 /\ \A i \in 1..n - 1 : rest[i] = routing[i + 1]
    BY <1>1, <1>2, <1>3
<1>5. PICK k \in 1..Made : IsPut(item, k)
  <2>1. 1 \in DOMAIN routing
      BY <1>3
  <2> QED
      BY <1>2, <2>1 DEF Core, Routing
<1>6. k \in 1..Len0 /\ opt.program[k].call = "put" /\ item.metric = opt.program[k].metric /\ item.rows = Frame(k, opt.program[k].seconds)
    BY <1>1, <1>5 DEF IsPut
<1>7. /\ item.rows \in SUBSET Row /\ IsFiniteSet(item.rows)
      /\ \A r \in item.rows : r.put = k /\ r.second \in Int
      /\ \A q, r \in item.rows : q.second = r.second => q = r
    BY <1>1, <1>6, FramesTyped DEF Len0
<1>8. item.rows \subseteq RowsOf(item.metric)
  <2>1. k \in Puts(item.metric)
      BY <1>1, <1>6, OptionTypes DEF Puts, Len0
  <2> QED
      BY <1>6, <2>1 DEF RowsOf
<1>9. \A m : item.rows \cap Passed(m) = {}
  <2>1. 1 \in DOMAIN routing
      BY <1>3
  <2> QED
      BY <1>2, <2>1 DEF Passed
<1>10. \A m : \A r \in RowsOf(m) : r \in item.rows => m = item.metric
    BY <1>1, <1>6, <1>7, RowsGiven
<1>11. /\ \A i \in DOMAIN rest : i + 1 \in DOMAIN routing /\ rest[i] = routing[i + 1]
       /\ \A i \in DOMAIN routing : i = 1 \/ (i - 1 \in DOMAIN rest /\ rest[i - 1] = routing[i])
  <2>1. \A i \in 1..n - 1 : i + 1 \in 1..n
      BY <1>3
  <2>2. ASSUME NEW i \in 1..n, i # 1 PROVE i - 1 \in 1..n - 1 /\ rest[i - 1] = routing[i]
    <3>1. i - 1 \in 1..n - 1 /\ (i - 1) + 1 = i
        BY <1>3, <2>2
    <3> QED
        BY <1>4, <3>1
  <2> QED
      BY <1>3, <1>4, <2>1, <2>2
<1>12. ASSUME NEW i \in DOMAIN rest, NEW b \in rest[i].rows PROVE b.put \in Int /\ (item.rows # {} => k < b.put)
  <2>1. PICK j : j = i + 1 /\ j \in DOMAIN routing /\ rest[i] = routing[j] /\ 1 < j /\ 1 \in DOMAIN routing
      BY <1>3, <1>4
  <2>2. PICK l \in 1..Made : IsPut(routing[j], l)
      BY <2>1 DEF Core, Routing
  <2>3. routing[j].rows = Frame(l, opt.program[l].seconds)
      BY <2>2 DEF IsPut
  <2>4. b.put = l
      BY <2>1, <2>3 DEF Frame
  <2>5. \A a \in routing[1].rows, c \in routing[j].rows : a.put < c.put
      BY <2>1 DEF Core, Routing
  <2>6. ASSUME item.rows # {} PROVE k < b.put
    <3>1. PICK a \in item.rows : a.put = k
        BY <1>7, <2>6
    <3>2. b \in routing[j].rows /\ a \in routing[1].rows
        BY <1>2, <2>1, <3>1
    <3> QED
        BY <2>5, <3>1, <3>2
  <2> QED
      BY <1>1, <2>4, <2>6
<1>13. Made \in Nat /\ item.metric \in Metrics /\ routing # << >>
    BY <1>1, <1>4 DEF Item
<1>14. First(item, k, rest)
    BY <1>1, <1>2, <1>4, <1>5, <1>7, <1>8, <1>9, <1>10, <1>11, <1>12, <1>13 DEF First
<1> QED
    BY <1>14

\* When the first item is taken, its rows are passed.
LEMMA PassedMore ==
    ASSUME Core, NEW item, NEW k, NEW rest, First(item, k, rest), UNCHANGED <<opt, main>>, routing' = rest
    PROVE  /\ \A m : m # item.metric => Passed(m)' = Passed(m)
           /\ Passed(item.metric)' = Passed(item.metric) \cup item.rows
<1>1. Made' = Made /\ Made \in Nat /\ k \in 1..Made
    BY DEF Made, First
<1>2. ASSUME NEW m, NEW r \in RowsOf(m)
      PROVE  (\A i \in DOMAIN rest : r \notin rest[i].rows) <=>
                 r \in item.rows \/ (\A i \in DOMAIN routing : r \notin routing[i].rows)
  <2>1. ASSUME r \in item.rows, NEW i \in DOMAIN rest PROVE r \notin rest[i].rows
    <3>1. r.put = k /\ \A b \in rest[i].rows : b.put \in Int /\ k < b.put
        BY <2>1 DEF First
    <3> QED
        BY <1>1, <3>1
  <2>2. ASSUME r \notin item.rows, \A i \in DOMAIN rest : r \notin rest[i].rows, NEW i \in DOMAIN routing
        PROVE  r \notin routing[i].rows
      BY <2>2 DEF First
  <2>3. ASSUME \A i \in DOMAIN routing : r \notin routing[i].rows, NEW i \in DOMAIN rest
        PROVE  r \notin rest[i].rows
      BY <2>3 DEF First
  <2> QED
      BY <2>1, <2>2, <2>3
<1>3. \A m : RowsOf(m)' = RowsOf(m)
    BY RowsStay
<1>4. ASSUME NEW m, m # item.metric PROVE Passed(m)' = Passed(m)
  <2>1. \A r \in RowsOf(m) : r \notin item.rows
      BY <1>4 DEF First
  <2> QED
      BY <1>1, <1>2, <1>3, <2>1 DEF Passed
<1>5. Passed(item.metric)' = Passed(item.metric) \cup item.rows
  <2>1. item.rows \subseteq RowsOf(item.metric) /\ \A r \in item.rows : r.put = k
      BY DEF First
  <2>2. \A r \in item.rows : r.put <= Made
      BY <1>1, <2>1
  <2> QED
      BY <1>1, <1>2, <1>3, <2>1, <2>2 DEF Passed
<1> QED
    BY <1>4, <1>5

\* The queue without its first frame.
LEMMA QueueShorter ==
    ASSUME Core, NEW item, NEW k, NEW rest, First(item, k, rest), UNCHANGED <<opt, main>>, routing' = rest,
           router'.stopped = router.stopped, router'.interrupted = router.interrupted,
           router'.done => router.stopped /\ (opt.interrupt \/ rest = << >>)
    PROVE  Routing'
<1>1. Made' = Made /\ Made \in Nat /\ k \in 1..Made
    BY DEF Made, First
<1>2. Metrics' = Metrics
    BY TypesStay
<1>3. \A i \in DOMAIN rest : \E j \in 1..Made' : IsPut(rest[i], j)'
  <2> TAKE i \in DOMAIN rest
  <2>1. i + 1 \in DOMAIN routing /\ rest[i] = routing[i + 1]
      BY DEF First
  <2>2. PICK j \in 1..Made : IsPut(routing[i + 1], j)
      BY <2>1 DEF Core, Routing
  <2>3. IsPut(rest[i], j)
      BY <2>1, <2>2
  <2>4. IsPut(rest[i], j)'
      BY <2>1, <2>3 DEF IsPut, Frame
  <2> QED
      BY <1>1, <2>2, <2>4
<1>4. ASSUME NEW i \in DOMAIN rest, NEW j \in DOMAIN rest, i < j
      PROVE  \A a \in rest[i].rows, b \in rest[j].rows : a.put < b.put
  <2>1. PICK g, h : g = i + 1 /\ h = j + 1
      OBVIOUS
  <2>2. g \in DOMAIN routing /\ h \in DOMAIN routing /\ rest[i] = routing[g] /\ rest[j] = routing[h]
      BY <2>1 DEF First
  <2>3. g < h
    <3>1. DOMAIN rest \subseteq Nat
      <4>1. rest \in Seq(Item)
          BY DEF First
      <4> QED
          BY <4>1
    <3> QED
        BY <1>4, <2>1, <3>1
  <2> QED
      BY <2>2, <2>3 DEF Core, Routing
<1>5. ASSUME NEW m \in Metrics, NEW r \in Passed(m)', NEW i \in DOMAIN rest, NEW b \in rest[i].rows
      PROVE  r.put < b.put
  <2>1. r \in Passed(m) \/ (m = item.metric /\ r \in item.rows)
      BY <1>5, PassedMore
  <2>2. CASE r \in Passed(m)
    <3>1. i + 1 \in DOMAIN routing /\ rest[i] = routing[i + 1]
        BY DEF First
    <3> QED
        BY <2>2, <3>1 DEF Core, Routing
  <2>3. CASE r \in item.rows
      BY <2>3 DEF First
  <2> QED
      BY <2>1, <2>2, <2>3
<1>6. routing' = rest
    OBVIOUS
<1> QED
    BY <1>2, <1>3, <1>4, <1>5, <1>6 DEF Core, Routing

\* What a turn of the router takes and gives: the rows that pass, and for every
\* metric the rows of which the aggregated tables are.
Shape(new, share) ==
    /\ new \in [Metrics -> SUBSET Row] /\ share \in [Metrics -> SUBSET Row]
    /\ \A m \in Metrics :
          /\ Passed(m)' = Passed(m) \cup new[m] /\ new[m] \cap Passed(m) = {}
          /\ share[m] \subseteq Passed(m)' /\ share[m] \cap Gone(m) = {}
          /\ ~IsAggregated(m) => share[m] = {}
          /\ IsAggregated(m) /\ ~router'.done =>
                /\ share[m] \cap router'.buffer[m] = {}
                /\ \A r \in Gone(m) : r \notin router'.buffer[m]
                /\ \A r \in Passed(m)' : r \in router'.buffer[m] \/ r \in Gone(m) \/ r \in share[m]
          /\ IsAggregated(m) /\ router'.done =>
                \A r \in Passed(m)' : \/ r \in Gone(m) \/ r \in share[m]
                                      \/ \A q \in Passed(m)' : r.second >= q.second - BufferSize
          /\ IsAggregated(m) /\ InTime(m) /\ ~opt.interrupt =>
                \A r \in share[m], q \in RowsOf(m) : q.second = r.second => q \in share[m]

\* The newest row of a finite set.
LEMMA NewestSecond ==
    ASSUME NEW F, IsFiniteSet(F), F \in SUBSET Row, F # {}
    PROVE  \E top \in F : LastSecond(F) = top.second /\ \A r \in F : top.second >= r.second
<1>1. PICK f : f = [r \in F |-> r.second]
    OBVIOUS
<1>2. PICK S : S = {r.second : r \in F}
    OBVIOUS
<1>3. IsFiniteSet(S)
  <2>1. DOMAIN f = F /\ f = [x \in DOMAIN f |-> f[x]] /\ Range(f) = S
      BY <1>1, <1>2 DEF Range
  <2> QED
      BY <2>1, FiniteImage
<1>4. S \subseteq Int /\ S # {}
    BY <1>2 DEF Row
<1>5. Max(S) \in S /\ \A y \in S : Max(S) >= y
    BY <1>3, <1>4, Greatest
<1>6. PICK top \in F : top.second = Max(S)
    BY <1>2, <1>5
<1>7. \A r \in F : top.second >= r.second
    BY <1>2, <1>5, <1>6
<1>8. LastSecond(F) = top.second
    BY <1>2, <1>6 DEF LastSecond
<1> QED
    BY <1>7, <1>8

\* What is cut off is older than the newest row by more than the buffer.
LEMMA CutGives ==
    ASSUME NEW F, IsFiniteSet(F), F \in SUBSET Row
    PROVE  /\ Cut(F) \subseteq F
           /\ F # {} => \E top \in F : /\ \A r \in F : top.second >= r.second
                                       /\ \A r \in F : r \in Cut(F) <=> r.second < top.second - BufferSize
<1>1. Cut(F) \subseteq F
    BY DEF Cut
<1>2. ASSUME F # {}
      PROVE \E top \in F : /\ \A r \in F : top.second >= r.second
                           /\ \A r \in F : r \in Cut(F) <=> r.second < top.second - BufferSize
    BY <1>2, NewestSecond DEF Cut
<1> QED
    BY <1>1, <1>2

-----------------------------------------------------------------------------
\* A turn with more to come: seconds are cut off from the buffer of one metric.
MoreRows(item, F, C) ==
    /\ F = FromBuffer(item) /\ C = Cut(F)
    /\ IsFiniteSet(F) /\ F \in SUBSET Row /\ C \in SUBSET F
    /\ Passed(item.metric)' = Passed(item.metric) \cup item.rows
    /\ item.rows \cap Passed(item.metric) = {}
    /\ F \subseteq Passed(item.metric)'
    /\ \A r \in F : r \notin Gone(item.metric)
    /\ \A r \in Passed(item.metric)' : r \in F \/ r \in Gone(item.metric)

\* The buffer of the metric with the rows of its frame, and what is cut off
\* from it.
LEMMA MoreRowsGiven ==
    ASSUME Core, NEW item, NEW k, NEW rest, First(item, k, rest), UNCHANGED <<opt, main>>, routing' = rest
    PROVE  \E F, C : MoreRows(item, F, C)
<1>1. PICK m \in Metrics : m = item.metric
    BY DEF First
<1>2. PICK F, C : F = FromBuffer(item) /\ C = Cut(F)
    OBVIOUS
<1>3. F = router.buffer[m] \cup item.rows
    BY <1>1, <1>2 DEF FromBuffer
<1>4. /\ router.buffer[m] \in SUBSET Row /\ IsFiniteSet(router.buffer[m]) /\ router.buffer[m] \subseteq Passed(m)
      /\ item.rows \in SUBSET Row /\ IsFiniteSet(item.rows) /\ item.rows \cap Passed(m) = {}
    BY BuffersFinite DEF First
<1>5. IsFiniteSet(F) /\ F \in SUBSET Row
    BY <1>3, <1>4, FS_Union
<1>6. C \in SUBSET F
    BY <1>2, <1>5, CutGives
<1>7. Passed(m)' = Passed(m) \cup item.rows
    BY <1>1, PassedMore
<1>8. F \subseteq Passed(m)' /\ (\A r \in F : r \notin Gone(m)) /\ \A r \in Passed(m)' : r \in F \/ r \in Gone(m)
    BY <1>3, <1>4, <1>7 DEF Gone
<1> QED
    BY <1>1, <1>2, <1>4, <1>5, <1>6, <1>7, <1>8 DEF MoreRows

\* No row that is still to come is of a second that is cut off.
LEMMA NothingLate ==
    ASSUME Core, NEW item, NEW k, NEW rest, First(item, k, rest), UNCHANGED <<opt, main>>, routing' = rest,
           Routing', NEW F, NEW C, MoreRows(item, F, C), InTime(item.metric), IsAggregated(item.metric),
           NEW r \in C, NEW q \in RowsOf(item.metric), q.second = r.second
    PROVE  q \in C \/ q \in Gone(item.metric)
<1>1. PICK m \in Metrics : m = item.metric
    BY DEF First
<1>2. PICK top \in F : /\ \A x \in F : top.second >= x.second
                       /\ \A x \in F : x \in C <=> x.second < top.second - BufferSize
    BY CutGives DEF MoreRows
<1>3. r \in F /\ r.second < top.second - BufferSize
    BY <1>2 DEF MoreRows
<1>4. CASE q \in F
    BY <1>2, <1>3, <1>4
<1>5. CASE q \in Passed(m)' /\ q \notin F
    BY <1>1, <1>5 DEF MoreRows
<1>6. CASE q \notin Passed(m)'
  <2>1. top \in Passed(m)' /\ top \in RowsOf(m)
    <3>1. RowsOf(m)' = RowsOf(m)
        BY RowsStay
    <3> QED
        BY <1>1, <1>2, <3>1 DEF MoreRows, Passed
  <2>2. Made' = Made /\ Made \in Nat
      BY DEF Made, First
  <2>3. top.put <= Made /\ top.put \in Int /\ q.put \in Int
    <3>1. opt \in Options
        BY BuffersFinite
    <3> QED
        BY <1>1, <2>1, <2>2, <3>1, RowsGiven DEF Passed, Len0
  <2>4. q.put > Made \/ \E i \in DOMAIN rest : q \in rest[i].rows
    <3>1. RowsOf(m)' = RowsOf(m)
        BY RowsStay
    <3> QED
        BY <1>1, <1>6, <2>2, <2>3, <3>1 DEF Passed
  <2>5. top.put < q.put
    <3>1. ASSUME NEW i \in DOMAIN rest, q \in rest[i].rows PROVE top.put < q.put
      <4>1. Metrics' = Metrics /\ routing' = rest
          BY TypesStay
      <4> QED
          BY <2>1, <3>1, <4>1 DEF Routing
    <3> QED
        BY <2>2, <2>3, <2>4, <3>1
  <2>6. q.second >= top.second - BufferSize
      BY <1>1, <2>1, <2>5 DEF InTime
  <2>7. q.second \in Int /\ top.second \in Int /\ BufferSize \in Nat
    <3>1. opt \in Options
        BY BuffersFinite
    <3> QED
        BY <1>1, <2>1, <3>1, RowsGiven, RouterAssumption DEF RouterAssumption
  <2> QED
      BY <1>3, <2>6, <2>7
<1> QED
    BY <1>1, <1>4, <1>5, <1>6

\* The rows of one metric, and none of any other.
Only(m, rows) == [o \in Metrics |-> IF o = m THEN rows ELSE {}]

More(item, k, rest) ==
    /\ First(item, k, rest) /\ UNCHANGED <<opt, main>> /\ routing' = rest
    /\ ~router.done /\ router' = [router EXCEPT !.buffer = BufferAfter(item)]

\* The queue after such a turn.
LEMMA MoreRouting ==
    ASSUME Core, NEW item, NEW k, NEW rest, More(item, k, rest)
    PROVE  /\ Routing' /\ router' \in RouterType /\ ~router'.done /\ router'.buffer = BufferAfter(item)
           /\ router'.stopped = router.stopped
<1>1. router.buffer \in [Metrics -> SUBSET Row] /\ router \in RouterType /\ item.metric \in Metrics /\ First(item, k, rest)
    BY DEF Core, Typed, TypeOK, RouterType, More, First
<1>2. PICK F, C : MoreRows(item, F, C)
    BY MoreRowsGiven DEF More
<1>3. BufferAfter(item) \in [Metrics -> SUBSET Row]
  <2>1. PICK b : b = F \ C
      OBVIOUS
  <2>2. b \in SUBSET Row
      BY <1>2, <2>1 DEF MoreRows
  <2>3. CASE IsAggregated(item.metric)
    <3>1. BufferAfter(item) = [router.buffer EXCEPT ![item.metric] = b]
        BY <1>2, <2>1, <2>3 DEF BufferAfter, MoreRows
    <3> QED
        BY <1>1, <2>2, <3>1
  <2>4. CASE ~IsAggregated(item.metric)
      BY <1>1, <2>4 DEF BufferAfter
  <2> QED
      BY <2>3, <2>4
<1>4. PICK b \in [Metrics -> SUBSET Row] : b = BufferAfter(item)
    BY <1>3
<1>5. router' = [router EXCEPT !.buffer = b]
    BY <1>4 DEF More
<1>6. /\ router' \in RouterType /\ router'.buffer = b /\ router'.stopped = router.stopped
      /\ router'.interrupted = router.interrupted /\ router'.done = router.done
    BY <1>1, <1>5 DEF RouterType
<1>7. Routing'
    BY <1>6, QueueShorter DEF More
<1> QED
    BY <1>4, <1>6, <1>7 DEF More

\* The buffers after it.
LEMMA BufferAt ==
    ASSUME Core, NEW item, NEW k, NEW rest, More(item, k, rest), NEW F, NEW C, MoreRows(item, F, C), NEW m \in Metrics
    PROVE  /\ m # item.metric \/ ~IsAggregated(m) => router'.buffer[m] = router.buffer[m]
           /\ m = item.metric /\ IsAggregated(m) => router'.buffer[m] = F \ C
<1>1. router.buffer \in [Metrics -> SUBSET Row]
    BY BuffersFinite
<1>2. router'.buffer = BufferAfter(item)
    BY MoreRouting
<1>3. PICK b : b = F \ C
    OBVIOUS
<1>4. CASE IsAggregated(item.metric)
  <2>1. router'.buffer = [router.buffer EXCEPT ![item.metric] = b]
      BY <1>2, <1>3, <1>4 DEF BufferAfter, MoreRows
  <2> QED
      BY <1>1, <1>3, <1>4, <2>1
<1>5. CASE ~IsAggregated(item.metric)
    BY <1>2, <1>5 DEF BufferAfter
<1> QED
    BY <1>4, <1>5

\* What a metric's part of Buffers says.
BufferOf(b, passed, m, done) ==
    /\ b \subseteq passed
    /\ b # {} => IsAggregated(m)
    /\ ~done /\ IsAggregated(m) =>
          /\ \A q \in passed : \E x \in b : x.second >= q.second
          /\ \A x \in b : \A q \in passed : x.second >= q.second - BufferSize
          /\ InTime(m) => \A r \in passed \ b, q \in RowsOf(m) : q.second = r.second => q \in passed \ b

\* Buffers, metric by metric.
LEMMA BuffersAre ==
    /\ Buffers <=> \A m \in Metrics : BufferOf(router.buffer[m], Passed(m), m, router.done)
    /\ opt' = opt => (Buffers' <=> \A m \in Metrics : BufferOf(router'.buffer[m], Passed(m)', m, router'.done))
<1>1. Buffers <=> \A m \in Metrics : BufferOf(router.buffer[m], Passed(m), m, router.done)
    BY Zenon DEF Buffers, BufferOf, Gone
<1>2. ASSUME opt' = opt
      PROVE  Buffers' <=> \A m \in Metrics : BufferOf(router'.buffer[m], Passed(m)', m, router'.done)
  <2>1. Metrics' = Metrics /\ \A m : RowsOf(m)' = RowsOf(m) /\ InTime(m)' = InTime(m) /\ IsAggregated(m)' = IsAggregated(m)
      BY <1>2, TypesStay, RowsStay
  <2>2. Buffers' <=> \A m \in Metrics :
            /\ router'.buffer[m] \subseteq Passed(m)'
            /\ router'.buffer[m] # {} => IsAggregated(m)
            /\ ~router'.done /\ IsAggregated(m) =>
                  /\ \A q \in Passed(m)' : \E b \in router'.buffer[m] : b.second >= q.second
                  /\ \A b \in router'.buffer[m] : \A q \in Passed(m)' : b.second >= q.second - BufferSize
                  /\ InTime(m) => \A r \in Passed(m)' \ router'.buffer[m], q \in RowsOf(m) :
                        q.second = r.second => q \in Passed(m)' \ router'.buffer[m]
      BY <2>1 DEF Buffers, Gone
  <2> QED
      BY <2>2, Zenon DEF BufferOf
<1> QED
    BY <1>1, <1>2

\* The buffers are right after it.
LEMMA MoreBuffers ==
    ASSUME Core, NEW item, NEW k, NEW rest, More(item, k, rest)
    PROVE  Buffers'
<1>1. PICK F, C : MoreRows(item, F, C)
    BY MoreRowsGiven DEF More
<1>2. Routing' /\ ~router'.done
    BY MoreRouting
<1>3. \A m \in Metrics : BufferOf(router.buffer[m], Passed(m), m, router.done)
    BY BuffersAre DEF Core
<1>4. First(item, k, rest) /\ opt' = opt /\ item.metric \in Metrics
    BY DEF More, First
<1>5. ASSUME NEW m \in Metrics, m # item.metric
      PROVE  BufferOf(router'.buffer[m], Passed(m)', m, router'.done)
  <2>1. router'.buffer[m] = router.buffer[m]
      BY <1>1, <1>5, BufferAt
  <2>2. Passed(m)' = Passed(m)
      BY <1>4, <1>5, PassedMore DEF More
  <2>3. router'.done = router.done
      BY <1>2 DEF More
  <2> QED
      BY <1>3, <2>1, <2>2, <2>3
<1>6. PICK m \in Metrics : m = item.metric
    BY <1>4
<1>7. CASE ~IsAggregated(m)
  <2>1. router'.buffer[m] = router.buffer[m]
      BY <1>1, <1>6, <1>7, BufferAt
  <2>2. Passed(m) \subseteq Passed(m)'
      BY <1>1, <1>6 DEF MoreRows
  <2>3. BufferOf(router'.buffer[m], Passed(m)', m, router'.done)
      BY <1>3, <1>7, <2>1, <2>2 DEF BufferOf
  <2> QED
      BY <1>4, <1>5, <1>6, <2>3, BuffersAre
<1>8. CASE IsAggregated(m)
  <2>1. router'.buffer[m] = F \ C
      BY <1>1, <1>6, <1>8, BufferAt
  <2>2. PICK b, passed : b = F \ C /\ passed = Passed(m)'
      OBVIOUS
  <2>3. b \subseteq passed
      BY <1>1, <1>6, <2>2 DEF MoreRows
  <2>4. ASSUME F = {} PROVE BufferOf(b, passed, m, router'.done)
    <3>1. item.rows = {} /\ router.buffer[m] = {} /\ b = {} /\ C = {}
        BY <1>1, <1>6, <2>2, <2>4 DEF MoreRows, FromBuffer
    <3>2. passed = Passed(m)
        BY <1>1, <1>6, <2>2, <3>1 DEF MoreRows
    <3> QED
        BY <1>2, <1>3, <3>1, <3>2 DEF BufferOf, More
  <2>5. ASSUME F # {} PROVE BufferOf(b, passed, m, router'.done)
    <3>1. PICK top \in F : /\ \A x \in F : top.second >= x.second
                           /\ \A x \in F : x \in C <=> x.second < top.second - BufferSize
        BY <1>1, <2>5, CutGives DEF MoreRows
    <3>2. \A x \in F : x.second \in Int
        BY <1>1 DEF MoreRows, Row
    <3>3. top \in b
        BY <2>2, <3>1, <3>2, RouterAssumption DEF RouterAssumption
    <3>4. ASSUME NEW q \in passed PROVE top.second >= q.second /\ q.second \in Int
      <4>1. CASE q \in F
          BY <3>1, <3>2, <4>1
      <4>2. CASE q \notin F
        <5>1. q \in Passed(m)
            BY <1>1, <1>6, <2>2, <4>2 DEF MoreRows, Gone
        <5>2. PICK x \in router.buffer[m] : x.second >= q.second
            BY <1>3, <1>8, <5>1 DEF BufferOf, More
        <5>3. x \in F
            BY <1>1, <1>6, <5>2 DEF MoreRows, FromBuffer
        <5>4. q.second \in Int
            BY <5>1, BuffersFinite, RowsGiven
        <5> QED
            BY <3>1, <3>2, <5>2, <5>3, <5>4
      <4> QED
          BY <4>1, <4>2
    <3>5. ASSUME NEW x \in b, NEW q \in passed PROVE x.second >= q.second - BufferSize
      <4>1. x \in F /\ ~(x.second < top.second - BufferSize)
          BY <2>2, <3>1
      <4> QED
          BY <3>2, <3>4, <4>1, RouterAssumption DEF RouterAssumption
    <3>6. ASSUME InTime(m), NEW r \in passed \ b, NEW q \in RowsOf(m), q.second = r.second
          PROVE  q \in passed \ b
      <4>1. r \in C \/ r \in Gone(m)
          BY <1>1, <1>6, <2>2 DEF MoreRows
      <4>2. q \in C \/ q \in Gone(m)
        <5>1. CASE r \in C
            BY <1>1, <1>2, <1>4, <1>6, <1>8, <3>6, <5>1, NothingLate DEF More
        <5>2. CASE r \in Gone(m)
            BY <1>3, <1>8, <3>6, <5>2 DEF BufferOf, More, Gone
        <5> QED
            BY <4>1, <5>1, <5>2
      <4> QED
          BY <1>1, <1>6, <2>2, <4>2 DEF MoreRows, Gone
    <3> QED
        BY <1>8, <2>3, <3>3, <3>4, <3>5, <3>6 DEF BufferOf
  <2> QED
      BY <1>4, <1>5, <1>6, <2>1, <2>2, <2>4, <2>5, BuffersAre
<1> QED
    BY <1>7, <1>8

\* What it takes and gives.
LEMMA MoreShape ==
    ASSUME Core, NEW item, NEW k, NEW rest, More(item, k, rest)
    PROVE  Shape(Only(item.metric, item.rows),
                 Only(item.metric, IF IsAggregated(item.metric) THEN Cut(FromBuffer(item)) ELSE {}))
<1>1. PICK F, C : MoreRows(item, F, C)
    BY MoreRowsGiven DEF More
<1>2. PICK given : given = IF IsAggregated(item.metric) THEN C ELSE {}
    OBVIOUS
<1>3. given = IF IsAggregated(item.metric) THEN Cut(FromBuffer(item)) ELSE {}
    BY <1>1, <1>2 DEF MoreRows
<1>4. PICK new, share : new = Only(item.metric, item.rows) /\ share = Only(item.metric, given)
    OBVIOUS
<1>5. First(item, k, rest) /\ opt' = opt /\ item.metric \in Metrics /\ item.rows \in SUBSET Row
    BY DEF More, First
<1>6. new \in [Metrics -> SUBSET Row] /\ share \in [Metrics -> SUBSET Row]
    BY <1>1, <1>2, <1>4, <1>5 DEF Only, MoreRows
<1>7. Routing' /\ ~router'.done
    BY MoreRouting
<1>8. ASSUME NEW m \in Metrics, m # item.metric
      PROVE  /\ new[m] = {} /\ share[m] = {} /\ Passed(m)' = Passed(m)
             /\ \A r \in Passed(m)' : r \in router'.buffer[m] \/ r \in Gone(m)
             /\ \A r \in Gone(m) : r \notin router'.buffer[m]
  <2>1. Passed(m)' = Passed(m)
      BY <1>5, <1>8, PassedMore DEF More
  <2>2. router'.buffer[m] = router.buffer[m]
      BY <1>1, <1>8, BufferAt
  <2> QED
      BY <1>4, <1>8, <2>1, <2>2 DEF Only, Gone
<1>9. PICK m \in Metrics : m = item.metric
    BY <1>5
<1>10. /\ new[m] = item.rows /\ share[m] = given
       /\ Passed(m)' = Passed(m) \cup new[m] /\ new[m] \cap Passed(m) = {}
       /\ share[m] \subseteq Passed(m)' /\ share[m] \cap Gone(m) = {}
       /\ ~IsAggregated(m) => share[m] = {}
  <2>1. new[m] = item.rows /\ share[m] = given
      BY <1>4, <1>9 DEF Only
  <2>2. given \subseteq F
      BY <1>1, <1>2 DEF MoreRows
  <2> QED
      BY <1>1, <1>2, <1>9, <2>1, <2>2 DEF MoreRows
<1>11. ASSUME IsAggregated(m)
       PROVE  /\ share[m] \cap router'.buffer[m] = {}
              /\ \A r \in Gone(m) : r \notin router'.buffer[m]
              /\ \A r \in Passed(m)' : r \in router'.buffer[m] \/ r \in Gone(m) \/ r \in share[m]
  <2>1. given = C /\ router'.buffer[m] = F \ C
      BY <1>1, <1>2, <1>9, <1>11, BufferAt
  <2> QED
      BY <1>1, <1>9, <1>10, <2>1 DEF MoreRows
<1>12. ASSUME IsAggregated(m), InTime(m), NEW r \in share[m], NEW q \in RowsOf(m), q.second = r.second
       PROVE  q \in share[m]
  <2>1. r \in C /\ given = C
      BY <1>2, <1>9, <1>10, <1>12
  <2>2. q \in C \/ q \in Gone(m)
      BY <1>1, <1>7, <1>9, <1>12, <2>1, NothingLate DEF More
  <2>3. CASE q \in Gone(m)
    <3>1. BufferOf(router.buffer[m], Passed(m), m, router.done)
        BY BuffersAre DEF Core
    <3>2. r \in RowsOf(m) /\ r \notin Gone(m)
      <4>1. RowsOf(m)' = RowsOf(m)
          BY <1>5, RowsStay
      <4> QED
          BY <1>10, <4>1 DEF Passed
    <3>3. r \in Gone(m)
        BY <1>12, <2>3, <3>1, <3>2 DEF BufferOf, More, Gone
    <3> QED
        BY <3>2, <3>3
  <2> QED
      BY <1>10, <2>1, <2>2, <2>3
<1>13. Shape(new, share)
  <2>1. ASSUME NEW o \in Metrics
        PROVE  /\ Passed(o)' = Passed(o) \cup new[o] /\ new[o] \cap Passed(o) = {}
               /\ share[o] \subseteq Passed(o)' /\ share[o] \cap Gone(o) = {}
               /\ ~IsAggregated(o) => share[o] = {}
               /\ IsAggregated(o) =>
                     /\ share[o] \cap router'.buffer[o] = {}
                     /\ \A r \in Gone(o) : r \notin router'.buffer[o]
                     /\ \A r \in Passed(o)' : r \in router'.buffer[o] \/ r \in Gone(o) \/ r \in share[o]
               /\ IsAggregated(o) /\ InTime(o) =>
                     \A r \in share[o], q \in RowsOf(o) : q.second = r.second => q \in share[o]
    <3>1. CASE o = m
        BY <1>10, <1>11, <1>12, <3>1
    <3>2. CASE o # m
        BY <1>8, <1>9, <3>2
    <3> QED
        BY <3>1, <3>2
  <2> QED
      BY <1>6, <1>7, <2>1 DEF Shape
<1> QED
    BY <1>3, <1>4, <1>13

\* The other buffers that are not empty, in some order.
Rest(item) == {o \in DOMAIN router.buffer \ {item.metric} : router.buffer[o] # {}}

\* The other buffers that are not empty are finitely many.
LEMMA RestFinite ==
    ASSUME Core, NEW item
    PROVE  IsFiniteSet(Rest(item)) /\ Rest(item) \subseteq Metrics
<1>1. router.buffer \in [Metrics -> SUBSET Row] /\ opt \in Options
    BY BuffersFinite
<1>2. Len0 \in Nat /\ DOMAIN opt.program = 1..Len0
    BY <1>1, OptionTypes DEF Len0
<1>3. PICK f : f = [j \in 1..Len0 |-> opt.program[j].metric]
    OBVIOUS
<1>4. Rest(item) \subseteq Range(f)
  <2> SUFFICES ASSUME NEW o \in Rest(item) PROVE o \in Range(f)
      OBVIOUS
  <2>1. o \in Metrics /\ router.buffer[o] # {}
      BY <1>1 DEF Rest
  <2>2. PICK r \in RowsOf(o) : TRUE
      BY <2>1, BuffersFinite
  <2>3. r.put \in 1..Len0 /\ opt.program[r.put].metric = o
      BY <1>1, RowsGiven
  <2> QED
      BY <1>3, <2>3 DEF Range
<1>5. IsFiniteSet(DOMAIN f) /\ f = [x \in DOMAIN f |-> f[x]]
    BY <1>2, <1>3, FS_Interval
<1>6. IsFiniteSet(Range(f))
    BY <1>5, FiniteImage
<1> QED
    BY <1>1, <1>4, <1>6, FS_Subset DEF Rest

\* Every other metric that has rows is there once.
AllOthers(others, item) ==
    /\ others \in Seq(Metrics)
    /\ \A i, j \in DOMAIN others : others[i] = others[j] => i = j
    /\ \A i \in DOMAIN others : others[i] # item.metric
    /\ \A m \in Metrics : m # item.metric /\ router.buffer[m] # {} <=> m \in ToSet(others)

\* They are gone over in some order, each once.
LEMMA OthersGiven ==
    ASSUME Core, NEW item, NEW others \in Others(item)
    PROVE  AllOthers(others, item)
<1>1. router.buffer \in [Metrics -> SUBSET Row]
    BY BuffersFinite
<1>2. PICK S : S = Rest(item)
    OBVIOUS
<1>3. IsFiniteSet(S) /\ S \subseteq Metrics
    BY <1>2, RestFinite
<1>4. PICK n \in Nat : n = Cardinality(S)
    BY <1>3, FS_CardinalityType
<1>5. others \in SetToSeqs(S)
    BY <1>2 DEF Others, Rest
<1>6. others \in [1..n -> S] /\ \A i, j \in 1..n : i # j => others[i] # others[j]
    BY <1>4, <1>5 DEF SetToSeqs
<1>7. others \in Injection(1..n, S) /\ IsFiniteSet(1..n) /\ Cardinality(1..n) = n
  <2>1. others \in Injection(1..n, S)
      BY <1>6 DEF Injection, IsInjective
  <2>2. IsFiniteSet(1..n) /\ Cardinality(1..n) = IF 1 > n THEN 0 ELSE n - 1 + 1
      BY FS_Interval
  <2> QED
      BY <2>1, <2>2
<1>8. others \in Surjection(1..n, S)
    BY <1>3, <1>4, <1>7, FS_Injection
<1>9. \A m \in S : \E i \in 1..n : others[i] = m
    BY <1>8 DEF Surjection
<1>10. others \in Seq(Metrics) /\ DOMAIN others = 1..n
    BY <1>3, <1>6
<1>11. \A m : m \in ToSet(others) <=> m \in S
    BY <1>6, <1>9, <1>10 DEF ToSet
<1>12. \A m \in Metrics : m \in S <=> m # item.metric /\ router.buffer[m] # {}
    BY <1>1, <1>2 DEF Rest
<1> QED
    BY <1>6, <1>10, <1>11, <1>12 DEF AllOthers

-----------------------------------------------------------------------------
LastOf(item, k, rest) ==
    /\ First(item, k, rest) /\ UNCHANGED <<opt, main>> /\ routing' = rest
    /\ router.stopped /\ ~router.done /\ router' = [router EXCEPT !.done = TRUE]
    /\ opt.interrupt \/ rest = << >>

\* What the last turn gives of a metric: all that is left.
AllLeft(item) ==
    [m \in Metrics |-> IF ~IsAggregated(m) THEN {}
                       ELSE router.buffer[m] \cup (IF m = item.metric THEN item.rows ELSE {})]

\* The router after its last turn.
LEMMA DoneRouter ==
    ASSUME Core, router' = [router EXCEPT !.done = TRUE]
    PROVE  /\ router' \in RouterType /\ router'.done /\ router'.buffer = router.buffer
           /\ router'.stopped = router.stopped /\ router'.interrupted = router.interrupted
BY DEF Core, Typed, TypeOK, RouterType

\* The last turn keeps the queue and the buffers right.
LEMMA LastKeeps ==
    ASSUME Core, NEW item, NEW k, NEW rest, LastOf(item, k, rest)
    PROVE  Routing' /\ Buffers'
<1>1. /\ First(item, k, rest) /\ UNCHANGED <<opt, main>> /\ routing' = rest /\ router.stopped
      /\ opt.interrupt \/ rest = << >>
    BY DEF LastOf
<1>2. /\ router' \in RouterType /\ router'.done /\ router'.buffer = router.buffer
      /\ router'.stopped = router.stopped /\ router'.interrupted = router.interrupted
    BY DoneRouter DEF LastOf
<1>3. Routing'
    BY <1>1, <1>2, QueueShorter
<1>4. ASSUME NEW m \in Metrics PROVE BufferOf(router'.buffer[m], Passed(m)', m, router'.done)
  <2>1. BufferOf(router.buffer[m], Passed(m), m, router.done)
      BY BuffersAre DEF Core
  <2>2. Passed(m) \subseteq Passed(m)'
      BY <1>1, PassedMore
  <2> QED
      BY <1>2, <2>1, <2>2 DEF BufferOf
<1> QED
    BY <1>1, <1>3, <1>4, BuffersAre

\* What it takes and gives: all that is left.
LEMMA LastShape ==
    ASSUME Core, NEW item, NEW k, NEW rest, LastOf(item, k, rest)
    PROVE  Shape(Only(item.metric, item.rows), AllLeft(item))
<1>1. /\ First(item, k, rest) /\ UNCHANGED <<opt, main>> /\ routing' = rest /\ router.stopped
      /\ opt.interrupt \/ rest = << >>
    BY DEF LastOf
<1>2. router'.done /\ router'.buffer = router.buffer /\ ~router.done
    BY DoneRouter DEF LastOf
<1>3. PICK new, share : new = Only(item.metric, item.rows) /\ share = AllLeft(item)
    OBVIOUS
<1>4. /\ item.metric \in Metrics /\ item.rows \in SUBSET Row /\ router.buffer \in [Metrics -> SUBSET Row] /\ opt \in Options
    BY <1>1, BuffersFinite DEF First
<1>5. new \in [Metrics -> SUBSET Row] /\ share \in [Metrics -> SUBSET Row]
    BY <1>3, <1>4 DEF Only, AllLeft
<1>6. ASSUME NEW m \in Metrics
      PROVE  /\ Passed(m)' = Passed(m) \cup new[m] /\ new[m] \cap Passed(m) = {}
             /\ share[m] \subseteq Passed(m)' /\ share[m] \cap Gone(m) = {}
             /\ ~IsAggregated(m) => share[m] = {}
             /\ IsAggregated(m) => \A r \in Passed(m)' : r \in Gone(m) \/ r \in share[m]
             /\ IsAggregated(m) /\ InTime(m) /\ ~opt.interrupt =>
                   \A r \in share[m], q \in RowsOf(m) : q.second = r.second => q \in share[m]
  <2>1. /\ new[m] = (IF m = item.metric THEN item.rows ELSE {})
        /\ share[m] = IF ~IsAggregated(m) THEN {} ELSE router.buffer[m] \cup (IF m = item.metric THEN item.rows ELSE {})
      BY <1>3 DEF Only, AllLeft
  <2>2. Passed(m)' = Passed(m) \cup new[m] /\ new[m] \cap Passed(m) = {}
    <3>1. CASE m = item.metric
      <4>1. Passed(item.metric)' = Passed(item.metric) \cup item.rows /\ item.rows \cap Passed(item.metric) = {}
        <5>1. Passed(item.metric)' = Passed(item.metric) \cup item.rows
            BY <1>1, PassedMore
        <5>2. item.rows \cap Passed(item.metric) = {}
            BY <1>1 DEF First
        <5> QED
            BY <5>1, <5>2
      <4>2. new[m] = item.rows
          BY <2>1, <3>1
      <4> QED
          BY <3>1, <4>1, <4>2, Zenon
    <3>2. CASE m # item.metric
        BY <1>1, <2>1, <3>2, PassedMore
    <3> QED
        BY <3>1, <3>2
  <2>3. router.buffer[m] \subseteq Passed(m)
      BY BuffersFinite
  <2>4. share[m] \subseteq router.buffer[m] \cup new[m]
      BY <2>1
  <2>5. share[m] \subseteq Passed(m)' /\ share[m] \cap Gone(m) = {}
      BY <2>2, <2>3, <2>4 DEF Gone
  <2>6. IsAggregated(m) => share[m] = router.buffer[m] \cup new[m]
      BY <2>1
  <2>7. IsAggregated(m) => \A r \in Passed(m)' : r \in Gone(m) \/ r \in share[m]
      BY <2>2, <2>6 DEF Gone
  <2>8. ASSUME IsAggregated(m), InTime(m), ~opt.interrupt, NEW r \in share[m], NEW q \in RowsOf(m), q.second = r.second
        PROVE  q \in share[m]
    <3>1. rest = << >>
        BY <1>1, <2>8
    <3>2. Made' = Made /\ Made = Len0
      <4>1. main.at \notin NotClosing
          BY <1>1 DEF Core, Routing
      <4>2. Made = Len0
          BY <4>1, MadeTypes DEF Core, Routing, InProgram
      <4> QED
          BY <1>1, <4>2 DEF Made
    <3>3. q.put <= Len0
      <4>1. q.put \in 1..Len0 /\ Len0 \in Nat
          BY <1>4, RowsGiven, OptionTypes DEF Len0
      <4> QED
          BY <4>1
    <3>4. q \in Passed(m)'
      <4>1. RowsOf(m)' = RowsOf(m)
          BY <1>1, RowsStay
      <4>2. DOMAIN rest = {}
          BY <3>1
      <4> QED
          BY <1>1, <3>2, <3>3, <4>1, <4>2 DEF Passed
    <3>5. CASE q \in Gone(m)
      <4>1. BufferOf(router.buffer[m], Passed(m), m, router.done)
          BY BuffersAre DEF Core
      <4>2. r \in RowsOf(m)
        <5>1. RowsOf(m)' = RowsOf(m)
            BY <1>1, RowsStay
        <5> QED
            BY <2>5, <2>8, <5>1 DEF Passed
      <4>3. r \in Gone(m)
          BY <1>2, <2>8, <3>5, <4>1, <4>2 DEF BufferOf, Gone
      <4> QED
          BY <2>5, <2>8, <4>3
    <3> QED
        BY <2>7, <2>8, <3>4, <3>5
  <2> QED
      BY <2>1, <2>2, <2>5, <2>7, <2>8
<1>7. Shape(new, share)
    BY <1>2, <1>5, <1>6 DEF Shape
<1> QED
    BY <1>3, <1>7

-----------------------------------------------------------------------------
\* The last turn with an empty queue gives nothing.
EmptyTurn == /\ routing = << >> /\ UNCHANGED <<opt, main, routing>>
             /\ router.stopped /\ ~router.done /\ router' = [router EXCEPT !.done = TRUE]

NoRows == [m \in Metrics |-> {}]

\* With an empty queue nothing is given.
LEMMA EmptyKeeps ==
    ASSUME Core, EmptyTurn
    PROVE  Routing' /\ Buffers' /\ Shape(NoRows, NoRows)
<1>1. /\ router' \in RouterType /\ router'.done /\ router'.buffer = router.buffer /\ router.stopped
      /\ router'.stopped = router.stopped /\ router'.interrupted = router.interrupted
    BY DoneRouter DEF EmptyTurn
<1>2. Made' = Made /\ opt' = opt /\ main' = main /\ routing' = routing /\ DOMAIN routing = {}
    BY DEF Made, EmptyTurn
<1>3. Metrics' = Metrics /\ \A m : RowsOf(m)' = RowsOf(m)
    BY <1>2, TypesStay, RowsStay
<1>4. \A m : Passed(m)' = Passed(m)
    BY <1>2, <1>3 DEF Passed
<1>5. Buffers'
    BY <1>1, <1>2, <1>4, BuffersSame
<1>6. Routing'
    BY <1>1, <1>2 DEF Core, Routing, EmptyTurn
<1>7. ASSUME NEW m \in Metrics, IsAggregated(m), NEW r \in Passed(m), r \notin Gone(m), NEW q \in Passed(m)
      PROVE  r.second >= q.second - BufferSize
  <2>1. BufferOf(router.buffer[m], Passed(m), m, router.done)
      BY BuffersAre DEF Core
  <2> QED
      BY <1>7, <2>1 DEF BufferOf, Gone, EmptyTurn
<1>8. PICK none : none = NoRows
    OBVIOUS
<1>9. none \in [Metrics -> SUBSET Row] /\ \A m \in Metrics : none[m] = {}
    BY <1>8 DEF NoRows
<1>10. Shape(none, none)
    BY <1>1, <1>4, <1>7, <1>9 DEF Shape
<1> QED
    BY <1>5, <1>6, <1>8, <1>10

\* The lines of a turn, by the rows that pass and those of the aggregated tables.
LinesAre(ps, new, share) ==
    \A l : l \in LinesOf(ps) <=>
        \E m \in Metrics : \/ opt.metrics[m].raw /\ l \in Tagged("metrics", m, new[m])
                           \/ \E t \in ToSet(Aggregates) : l \in Tagged(t, m, share[m])

\* No rows, no lines.
LEMMA NoTagged == \A t, m : Tagged(t, m, {}) = {}
<1>1. \A t, m : LinesSet(t, m, {}) = {}
    BY DEF LinesSet, RawLines, SecondLines
<1> QED
    BY <1>1 DEF Tagged

\* The same lines, said with Wanted and Share, for one metric.
Same(item, from, others, new, share, m) ==
    /\ new[m] = IF m = item.metric THEN item.rows ELSE {}
    /\ share[m] = IF m = item.metric THEN (IF IsAggregated(m) THEN from ELSE {})
                  ELSE IF m \in ToSet(others) THEN router.buffer[m] ELSE {}

\* The lines of a turn by what it takes and what it gives of every metric.
LEMMA LinesSaid ==
    ASSUME NEW ps, NEW item, NEW from, NEW others, Gives(ps, item, from, others), Turn(item, from, others),
           NEW new, NEW share, \A m \in Metrics : Same(item, from, others, new, share, m)
    PROVE  LinesAre(ps, new, share)
<1>1. ASSUME NEW m \in Metrics, NEW l
      PROVE  (Wanted(item, from, others, "metrics", m) /\ l \in Tagged("metrics", m, Share(item, from, "metrics", m)))
                 <=> opt.metrics[m].raw /\ l \in Tagged("metrics", m, new[m])
  <2>1. Wanted(item, from, others, "metrics", m) <=> m = item.metric /\ opt.metrics[m].raw /\ item.rows # {}
      BY TablesTypes DEF Wanted
  <2>2. Share(item, from, "metrics", m) = item.rows
      BY DEF Share
  <2>3. new[m] = IF m = item.metric THEN item.rows ELSE {}
      BY DEF Same
  <2> QED
      BY <2>1, <2>2, <2>3, NoTagged
<1>2. ASSUME NEW m \in Metrics, NEW l, NEW t \in ToSet(Aggregates)
      PROVE  (Wanted(item, from, others, t, m) /\ l \in Tagged(t, m, Share(item, from, t, m)))
                 <=> l \in Tagged(t, m, share[m])
  <2>1. t # "metrics"
      BY TablesTypes
  <2>2. Wanted(item, from, others, t, m) <=> (m = item.metric /\ IsAggregated(m) /\ from # {}) \/ m \in ToSet(others)
      BY <2>1 DEF Wanted
  <2>3. Share(item, from, t, m) = IF m = item.metric THEN from ELSE router.buffer[m]
      BY <2>1 DEF Share
  <2>4. m \in ToSet(others) => m # item.metric
    <3>1. DOMAIN others = DOMAIN others /\ \A i \in DOMAIN others : others[i] # item.metric
        BY DEF Turn
    <3> QED
        BY <3>1 DEF ToSet
  <2>5. share[m] = IF m = item.metric THEN (IF IsAggregated(m) THEN from ELSE {})
                   ELSE IF m \in ToSet(others) THEN router.buffer[m] ELSE {}
      BY DEF Same
  <2>6. CASE m = item.metric
      BY <2>2, <2>3, <2>4, <2>5, <2>6, NoTagged
  <2>7. CASE m # item.metric
      BY <2>2, <2>3, <2>5, <2>7, NoTagged
  <2> QED
      BY <2>6, <2>7
<1>3. \A t, m : Wanted(item, from, others, t, m) => m \in Metrics /\ (t = "metrics" \/ t \in ToSet(Aggregates))
  <2>1. item.metric \in Metrics /\ \A m \in ToSet(others) : m \in Metrics
      BY DEF Turn, Item, ToSet
  <2> QED
      BY <2>1 DEF Wanted
<1>4. \A l : l \in LinesOf(ps) <=> \E t, m : Wanted(item, from, others, t, m) /\ l \in Tagged(t, m, Share(item, from, t, m))
    BY DEF Gives
<1>5. ASSUME NEW l, l \in LinesOf(ps)
      PROVE  \E m \in Metrics : \/ opt.metrics[m].raw /\ l \in Tagged("metrics", m, new[m])
                                \/ \E t \in ToSet(Aggregates) : l \in Tagged(t, m, share[m])
  <2>1. PICK t, m : Wanted(item, from, others, t, m) /\ l \in Tagged(t, m, Share(item, from, t, m))
      BY <1>4, <1>5
  <2>2. m \in Metrics /\ (t = "metrics" \/ t \in ToSet(Aggregates))
      BY <1>3, <2>1
  <2>3. CASE t = "metrics"
      BY <1>1, <2>1, <2>2, <2>3
  <2>4. CASE t \in ToSet(Aggregates)
      BY <1>2, <2>1, <2>2, <2>4
  <2> QED
      BY <2>2, <2>3, <2>4
<1>6. ASSUME NEW l, NEW m \in Metrics, opt.metrics[m].raw /\ l \in Tagged("metrics", m, new[m])
      PROVE  l \in LinesOf(ps)
    BY <1>1, <1>4, <1>6
<1>7. ASSUME NEW l, NEW m \in Metrics, NEW t \in ToSet(Aggregates), l \in Tagged(t, m, share[m])
      PROVE  l \in LinesOf(ps)
    BY <1>2, <1>4, <1>7
<1> QED
    BY <1>5, <1>6, <1>7, Zenon DEF LinesAre

\* All that is needed of a turn.
Turned(ps, new, share) ==
    /\ Shape(new, share) /\ LinesAre(ps, new, share)
    /\ ps \in Seq(Piece) /\ Disjoint(ps) /\ OfMetric(ps)
    /\ ~router.done /\ (router'.done => router.stopped) /\ router'.stopped = router.stopped
    /\ UNCHANGED <<opt, metrics, register, lock, worker, server, main>>
    /\ luna' = IF Has("luna") THEN [luna EXCEPT !.queue = Given(ps)] ELSE luna

Given3(ps) == ps \in Seq(Piece) /\ Disjoint(ps) /\ OfMetric(ps)

\* The pieces of a turn have no line in common.
LEMMA GivenApart ==
    ASSUME NEW ps, NEW item, NEW from, NEW others, Gives(ps, item, from, others)
    PROVE  Given3(ps)
<1>1. ps \in Seq(Piece) /\ DOMAIN ps = 1..Len(ps)
    BY DEF Gives
<1> QED
    BY <1>1 DEF Gives, Given3, Disjoint, OfMetric

\* A turn with more to come.
LEMMA MoreGives ==
    ASSUME Core, NEW item, NEW k, NEW rest, More(item, k, rest), NEW ps, ps = Pieces(item, Cut(FromBuffer(item)), << >>)
    PROVE  \E new, share : Shape(new, share) /\ LinesAre(ps, new, share) /\ Given3(ps)
<1>1. PICK F, C : MoreRows(item, F, C)
    BY MoreRowsGiven DEF More
<1>2. C = Cut(FromBuffer(item)) /\ C \in SUBSET Row /\ IsFiniteSet(C)
    BY <1>1, FS_Subset DEF MoreRows
<1>3. Turn(item, C, << >>)
  <2>1. /\ item \in Item /\ IsFiniteSet(item.rows) /\ \A q, r \in item.rows : q.second = r.second => q = r
      BY DEF More, First
  <2>2. << >> \in Seq(Metrics) /\ DOMAIN << >> = {}
      OBVIOUS
  <2> QED
      BY <1>2, <2>1, <2>2 DEF Turn
<1>4. opt \in Options /\ router.buffer \in [Metrics -> SUBSET Row]
    BY BuffersFinite
<1>5. Gives(ps, item, C, << >>)
    BY <1>2, <1>3, <1>4, TurnGives
<1>6. PICK new, share : new = Only(item.metric, item.rows) /\ share = Only(item.metric, IF IsAggregated(item.metric) THEN C ELSE {})
    OBVIOUS
<1>7. Shape(new, share)
    BY <1>2, <1>6, MoreShape
<1>8. ASSUME NEW m \in Metrics PROVE Same(item, C, << >>, new, share, m)
  <2>1. ToSet(<< >>) = {}
      BY DEF ToSet
  <2>2. PICK given : given = IF IsAggregated(item.metric) THEN C ELSE {}
      OBVIOUS
  <2>3. share[m] = (IF m = item.metric THEN given ELSE {}) /\ new[m] = (IF m = item.metric THEN item.rows ELSE {})
      BY <1>6, <2>2 DEF Only
  <2>4. CASE m = item.metric
      BY <2>2, <2>3, <2>4 DEF Same
  <2>5. CASE m # item.metric
      BY <2>1, <2>3, <2>5 DEF Same
  <2> QED
      BY <2>4, <2>5
<1>9. LinesAre(ps, new, share)
    BY <1>3, <1>5, <1>8, LinesSaid
<1> QED
    BY <1>5, <1>7, <1>9, GivenApart

\* The last turn.
LEMMA LastGives ==
    ASSUME Core, NEW item, NEW k, NEW rest, LastOf(item, k, rest), NEW others \in Others(item),
           NEW ps, ps = Pieces(item, FromBuffer(item), others)
    PROVE  \E new, share : Shape(new, share) /\ LinesAre(ps, new, share) /\ Given3(ps)
<1>1. First(item, k, rest) /\ opt' = opt
    BY DEF LastOf
<1>2. opt \in Options /\ router.buffer \in [Metrics -> SUBSET Row] /\ item.metric \in Metrics
    BY <1>1, BuffersFinite DEF First
<1>3. PICK F : F = FromBuffer(item)
    OBVIOUS
<1>4. F \in SUBSET Row /\ IsFiniteSet(F) /\ F = router.buffer[item.metric] \cup item.rows
  <2>1. F = router.buffer[item.metric] \cup item.rows
      BY <1>3 DEF FromBuffer
  <2>2. router.buffer[item.metric] \in SUBSET Row /\ IsFiniteSet(router.buffer[item.metric])
      BY <1>2, BuffersFinite
  <2>3. item.rows \in SUBSET Row /\ IsFiniteSet(item.rows)
      BY <1>1 DEF First
  <2> QED
      BY <2>1, <2>2, <2>3, FS_Union
<1>5. AllOthers(others, item)
    BY OthersGiven
<1>6. Turn(item, F, others)
  <2>1. /\ item \in Item /\ IsFiniteSet(item.rows) /\ \A q, r \in item.rows : q.second = r.second => q = r
      BY <1>1 DEF First
  <2>2. ASSUME NEW i \in DOMAIN others PROVE IsFiniteSet(router.buffer[others[i]])
    <3>1. others[i] \in Metrics
        BY <1>5 DEF AllOthers
    <3> QED
        BY <3>1, BuffersFinite
  <2> QED
      BY <1>4, <1>5, <2>1, <2>2 DEF Turn, AllOthers
<1>7. Gives(ps, item, F, others)
    BY <1>2, <1>3, <1>6, TurnGives
<1>8. PICK new, share : new = Only(item.metric, item.rows) /\ share = AllLeft(item)
    OBVIOUS
<1>9. Shape(new, share)
    BY <1>8, LastShape
<1>10. ASSUME NEW m \in Metrics PROVE Same(item, F, others, new, share, m)
  <2>1. /\ new[m] = (IF m = item.metric THEN item.rows ELSE {})
        /\ share[m] = IF ~IsAggregated(m) THEN {} ELSE router.buffer[m] \cup (IF m = item.metric THEN item.rows ELSE {})
      BY <1>8 DEF Only, AllLeft
  <2>2. CASE m = item.metric
      BY <1>4, <2>1, <2>2 DEF Same
  <2>3. CASE m # item.metric
    <3>1. share[m] = IF ~IsAggregated(m) THEN {} ELSE router.buffer[m]
        BY <2>1, <2>3
    <3>2. router.buffer[m] # {} => IsAggregated(m)
        BY DEF Core, Buffers
    <3>3. share[m] = router.buffer[m]
        BY <3>1, <3>2
    <3>4. m \in ToSet(others) <=> router.buffer[m] # {}
        BY <1>5, <2>3 DEF AllOthers
    <3> QED
        BY <2>1, <2>3, <3>3, <3>4 DEF Same
  <2> QED
      BY <2>2, <2>3
<1>11. LinesAre(ps, new, share)
    BY <1>6, <1>7, <1>10, LinesSaid
<1> QED
    BY <1>7, <1>9, <1>11, GivenApart

\* The subscribers get the pieces.
LEMMA GivenTyped ==
    ASSUME Typed, NEW ps \in Seq(Piece), luna' = IF Has("luna") THEN [luna EXCEPT !.queue = Given(ps)] ELSE luna
    PROVE  /\ luna' \in LunaType /\ luna'.ids = luna.ids /\ luna'.failed = luna.failed /\ luna'.put = luna.put /\ luna'.job = luna.job
           /\ luna'.queue \in {luna.queue, luna.queue \o ps}
           /\ Has("luna") /\ ~luna.failed => luna'.queue = luna.queue \o ps
<1>1. luna \in LunaType /\ luna.queue \in Seq(Piece)
    BY DEF Typed, TypeOK, LunaType
<1>2. PICK q \in Seq(Piece) : q = luna.queue \o ps
    BY <1>1, LinesOfJoint, ConcatProperties
<1>3. PICK g : g = Given(ps)
    OBVIOUS
<1>4. g \in {luna.queue, q} /\ g \in Seq(Piece) /\ (~luna.failed => g = q)
    BY <1>1, <1>2, <1>3 DEF Given
<1>5. CASE Has("luna")
  <2>1. luna' = [luna EXCEPT !.queue = g]
      BY <1>3, <1>5
  <2> QED
      BY <1>1, <1>2, <1>4, <2>1 DEF LunaType
<1>6. CASE ~Has("luna")
    BY <1>1, <1>2, <1>6
<1> QED
    BY <1>5, <1>6

\* A step of the router leaves the others alone.
LEMMA RouterFields ==
    ASSUME RouterStep
    PROVE  /\ UNCHANGED <<opt, metrics, register, lock, worker, server, main>>
           /\ \E ps \in Routed : luna' = IF Has("luna") THEN [luna EXCEPT !.queue = Given(ps)] ELSE luna
BY DEF RouterStep, Callbacks, Route, RouteLast

\* The three ways a turn goes.
LEMMA TurnsAre ==
    ASSUME Core, RouterStep
    PROVE  \E ps \in Routed :
              /\ luna' = IF Has("luna") THEN [luna EXCEPT !.queue = Given(ps)] ELSE luna
              /\ \/ EmptyTurn /\ ps = << >>
                 \/ \E item, k, rest : More(item, k, rest) /\ ps = Pieces(item, Cut(FromBuffer(item)), << >>)
                 \/ \E item, k, rest : LastOf(item, k, rest) /\ \E others \in Others(item) : ps = Pieces(item, FromBuffer(item), others)
<1>1. PICK ps \in Routed : (Route \/ RouteLast) /\ Callbacks(ps)
    BY DEF RouterStep
<1>2. luna' = (IF Has("luna") THEN [luna EXCEPT !.queue = Given(ps)] ELSE luna) /\ UNCHANGED <<opt, main>>
    BY <1>1 DEF Callbacks
<1>3. routing \in Seq(Item)
    BY DEF Core, Typed, TypeOK
<1>4. CASE routing = << >>
  <2>1. ~MoreThanOne /\ ps = << >>
    <3>1. ps = << >>
        BY <1>1, <1>4 DEF Routed
    <3>2. ~(Len(routing) > 1)
        BY <1>4
    <3> QED
        BY <1>4, <3>1, <3>2 DEF MoreThanOne
  <2>2. RouteLast
      BY <1>1, <2>1 DEF Route
  <2>3. EmptyTurn
      BY <1>2, <1>4, <2>2 DEF RouteLast, EmptyTurn
  <2> QED
      BY <1>2, <2>1, <2>3
<1>5. CASE routing # << >>
  <2>1. PICK item, k, rest : First(item, k, rest)
      BY <1>5, FirstOfQueue
  <2>2. item = routing[1] /\ rest = Tail(routing)
      BY <2>1 DEF First
  <2>3. CASE MoreThanOne
    <3>1. Route
        BY <1>1, <2>3 DEF RouteLast
    <3>2. More(item, k, rest)
        BY <1>2, <2>1, <2>2, <3>1 DEF More, Route
    <3>3. ps = Pieces(item, Cut(FromBuffer(item)), << >>)
        BY <1>1, <1>5, <2>2, <2>3 DEF Routed
    <3> QED
        BY <1>2, <3>2, <3>3
  <2>4. CASE ~MoreThanOne
    <3>1. RouteLast
        BY <1>1, <2>4 DEF Route
    <3>2. opt.interrupt \/ rest = << >>
      <4>1. CASE router.interrupted
          BY <4>1 DEF Core, Routing
      <4>2. CASE ~router.interrupted
        <5>1. ~(Len(routing) > 1)
            BY <2>4, <3>1, <4>2 DEF MoreThanOne, RouteLast
        <5>2. Len(rest) = Len(routing) - 1 /\ rest \in Seq(Item) /\ Len(routing) \in Nat
            BY <1>3, <1>5, <2>2
        <5>3. Len(rest) <= 0
            BY <5>1, <5>2
        <5> QED
            BY <5>2, <5>3, EmptySeq, LenProperties
      <4> QED
          BY <4>1, <4>2
    <3>3. LastOf(item, k, rest)
        BY <1>2, <1>5, <2>1, <2>2, <3>1, <3>2 DEF LastOf, RouteLast
    <3>4. PICK others \in Others(item) : ps = Pieces(item, FromBuffer(item), others)
        BY <1>1, <1>5, <2>2, <2>4 DEF Routed
    <3> QED
        BY <1>2, <3>3, <3>4
  <2> QED
      BY <2>3, <2>4
<1> QED
    BY <1>4, <1>5

\* A step of the router is a turn, and keeps the queue and the buffers right.
LEMMA RouterTurn ==
    ASSUME Core, RouterStep
    PROVE  Typed' /\ Routing' /\ Buffers' /\ \E ps, new, share : Turned(ps, new, share)
<1>1. PICK ps \in Routed :
         /\ luna' = IF Has("luna") THEN [luna EXCEPT !.queue = Given(ps)] ELSE luna
         /\ \/ EmptyTurn /\ ps = << >>
            \/ \E item, k, rest : More(item, k, rest) /\ ps = Pieces(item, Cut(FromBuffer(item)), << >>)
            \/ \E item, k, rest : LastOf(item, k, rest) /\ \E others \in Others(item) : ps = Pieces(item, FromBuffer(item), others)
    BY TurnsAre
<1>2. UNCHANGED <<opt, metrics, register, lock, worker, server, main>>
    BY RouterFields
<1>3. /\ Routing' /\ Buffers' /\ router' \in RouterType /\ routing' \in Seq(Item)
      /\ ~router.done /\ (router'.done => router.stopped) /\ router'.stopped = router.stopped
      /\ \E new, share : Shape(new, share) /\ LinesAre(ps, new, share) /\ Given3(ps)
  <2>1. CASE EmptyTurn /\ ps = << >>
    <3>1. router' \in RouterType /\ router'.stopped = router.stopped
        BY <2>1, DoneRouter DEF EmptyTurn
    <3>2. ps \in Seq(Piece) /\ LinesOf(ps) = {} /\ Given3(ps)
        BY <2>1, NoLines DEF Given3
    <3>3. PICK none : none = NoRows
        OBVIOUS
    <3>7. \A m \in Metrics : none[m] = {}
        BY <3>3 DEF NoRows
    <3>4. LinesAre(ps, none, none)
        BY <3>2, <3>7, NoTagged DEF LinesAre
    <3>5. Routing' /\ Buffers' /\ Shape(none, none)
        BY <2>1, <3>3, EmptyKeeps
    <3>6. routing' \in Seq(Item) /\ ~router.done /\ router.stopped
        BY <2>1 DEF EmptyTurn, Core, Typed, TypeOK
    <3> QED
        BY <3>1, <3>2, <3>4, <3>5, <3>6
  <2>2. ASSUME NEW item, NEW k, NEW rest, More(item, k, rest), ps = Pieces(item, Cut(FromBuffer(item)), << >>)
        PROVE  <1>3!:
    <3>1. Routing' /\ router' \in RouterType /\ ~router'.done /\ router'.stopped = router.stopped
        BY <2>2, MoreRouting
    <3>2. Buffers'
        BY <2>2, MoreBuffers
    <3>3. \E new, share : Shape(new, share) /\ LinesAre(ps, new, share) /\ Given3(ps)
        BY <2>2, MoreGives
    <3>4. routing' \in Seq(Item) /\ ~router.done
        BY <2>2 DEF More, First
    <3> QED
        BY <3>1, <3>2, <3>3, <3>4
  <2>3. ASSUME NEW item, NEW k, NEW rest, LastOf(item, k, rest), NEW others \in Others(item),
               ps = Pieces(item, FromBuffer(item), others)
        PROVE  <1>3!:
    <3>1. Routing' /\ Buffers'
        BY <2>3, LastKeeps
    <3>2. router' \in RouterType /\ router'.stopped = router.stopped
        BY <2>3, DoneRouter DEF LastOf
    <3>3. \E new, share : Shape(new, share) /\ LinesAre(ps, new, share) /\ Given3(ps)
        BY <2>3, LastGives
    <3>4. routing' \in Seq(Item) /\ ~router.done /\ router.stopped
        BY <2>3 DEF LastOf, First
    <3> QED
        BY <3>1, <3>2, <3>3, <3>4
  <2> QED
      BY <1>1, <2>1, <2>2, <2>3
<1>4. PICK new, share : Shape(new, share) /\ LinesAre(ps, new, share) /\ Given3(ps)
    BY <1>3
<1>5. ps \in Seq(Piece) /\ Disjoint(ps) /\ OfMetric(ps)
    BY <1>4 DEF Given3
<1>6. Typed /\ TypeOK /\ Working
    BY DEF Core, Typed
<1>7. luna' \in LunaType
    BY <1>1, <1>5, <1>6, GivenTyped
<1>8. Working'
    BY <1>2, <1>6, SameWorking DEF SameWork, SameAsk
<1>9. Typed'
  <2>1. /\ metrics' \in Seq(Metrics) /\ main' \in Place /\ register' \in RegisterType /\ lock' \in BOOLEAN
        /\ worker' \in WorkerType(worker'.left) /\ server' \in ServerType /\ opt' = opt
      BY <1>2, <1>6 DEF TypeOK, Place
  <2> QED
      BY <1>3, <1>6, <1>7, <1>8, <2>1, TypedNext
<1>10. Turned(ps, new, share)
    BY <1>1, <1>2, <1>3, <1>4, <1>5 DEF Turned
<1> QED
    BY <1>3, <1>9, <1>10

\* The router, its rows and its buffers stay as they are.
Still ==
    /\ opt' = opt /\ router'.buffer = router.buffer /\ router'.done = router.done
    /\ \A m : Passed(m)' = Passed(m)
    /\ Typed' /\ Routing' /\ Buffers'

\* The router stands still when nothing of it changes.
LEMMA StillSame ==
    ASSUME Core, Typed', UNCHANGED <<opt, routing, router>>, MadeOn
    PROVE  Still
BY RouterSame DEF Still

\* The constructor moves no rows.
LEMMA BuildSame ==
    ASSUME Typed, Build
    PROVE  DataSame
<1>1. UNCHANGED <<luna, worker>> /\ server \in ServerType
    BY BuildTyped DEF Typed, TypeOK
<1>2. server' = server \/ server' = [server EXCEPT !.faults = @ - 1]
    BY DEF Build, BuildLuna, BuildLocal, BuildVolta, Built, Untouched, threads
<1>3. /\ server'.created = server.created /\ server'.stored = server.stored /\ server'.again = server.again
      /\ server'.shaky = server.shaky
    BY <1>1, <1>2 DEF ServerType
<1> QED
    BY <1>1, <1>3 DEF DataSame

\* Nor does main ever.
LEMMA MainStill ==
    ASSUME Core, Main
    PROVE  Still /\ DataSame
<1>1. Typed /\ InProgram
    BY DEF Core, Routing, InProgram
<1>2. CASE Build
    BY <1>1, <1>2, BuildTyped, BuildMakes, BuildSame, StillSame
<1>3. CASE User /\ ~Put
    BY <1>1, <1>3, UserTyped, UserMakes, StillSame
<1>4. CASE Put
    BY <1>1, <1>4, PutTyped, PutKeeps DEF Still, DataSame
<1>5. CASE CloseManager
  <2>1. router'.buffer = router.buffer /\ router'.done = router.done
      BY <1>1, <1>5, CloseManagerTyped DEF Typed, TypeOK, RouterType
  <2> QED
      BY <1>1, <1>5, <2>1, CloseManagerTyped, CloseManagerKeeps DEF Still
<1>6. CASE CloseOfClients
    BY <1>1, <1>6, CloseTyped, CloseMakes, StillSame
<1> QED
    BY <1>2, <1>3, <1>4, <1>5, <1>6 DEF Main, Close, CloseOfClients

\* The threads of the clients leave the router alone.
LEMMA ThreadStill ==
    ASSUME Core, Typed', UNCHANGED <<opt, routing, router, main>>
    PROVE  Still
BY MainSame, StillSame DEF Core, Routing, InProgram

\* The client of the files leaves everything alone.
LEMMA LocalStill ==
    ASSUME Core, Local
    PROVE  Still /\ DataSame
BY LocalTyped, ThreadStill DEF Core

-----------------------------------------------------------------------------
\* What was given out, when no rows are moved.
LEMMA EmittedSame ==
    ASSUME DataSame
    PROVE  Held' = Held /\ Emitted' = Emitted /\ LinesOfMetric' = LinesOfMetric
<1>1. /\ LinesOf(luna.queue)' = LinesOf(luna.queue) /\ LinesOf(worker.data)' = LinesOf(worker.data)
      /\ server'.stored = server.stored
    BY DEF DataSame, LinesOf, LinesIn
<1>2. CASE worker.at = "send"
  <2>1. worker'.at = "send" /\ LinesOf(worker.left)' = LinesOf(worker.left)
      BY <1>2 DEF DataSame, LinesOf, LinesIn
  <2>2. Held' = Held
      BY <1>1, <1>2, <2>1 DEF Held
  <2> QED
      BY <1>1, <2>2 DEF Emitted, LinesOfMetric, DataSame
<1>3. CASE worker.at # "send"
  <2>1. worker'.at # "send"
      BY <1>3 DEF DataSame
  <2>2. Held' = Held
      BY <1>1, <1>3, <2>1 DEF Held
  <2> QED
      BY <1>1, <2>2 DEF Emitted, LinesOfMetric, DataSame
<1> QED
    BY <1>2, <1>3

\* It is right of what was given out when the router stands still.
LEMMA EmittingSame ==
    ASSUME Still, Emitting, Emitted' \subseteq Emitted
    PROVE  Emitting'
<1>1. \A m : InTime(m)' = InTime(m) /\ \A s : RowsIn(m, s)' = RowsIn(m, s)
    BY RowsStay DEF Still
<1>2. ASSUME NEW l \in Emitted PROVE Given1(l)'
    BY <1>1 DEF Emitting, Given1, Still
<1> QED
    BY <1>2 DEF Emitting

\* A line of a turn.
LEMMA LineOfTurn ==
    ASSUME Core, opt' = opt, NEW new, NEW share, Shape(new, share), Buffers', NEW m \in Metrics, NEW l,
           \/ l \in Tagged("metrics", m, new[m])
           \/ \E t \in ToSet(Aggregates) : l \in Tagged(t, m, share[m])
    PROVE  /\ Given1(l)' /\ l.line.metric = m
           /\ l.table = "metrics" => l.line.rows \cap Passed(m) = {}
           /\ l.table # "metrics" => l.line.rows \cap Gone(m) = {}
<1>1. /\ Passed(m)' = Passed(m) \cup new[m] /\ new[m] \cap Passed(m) = {}
      /\ share[m] \subseteq Passed(m)' /\ share[m] \cap Gone(m) = {}
      /\ ~IsAggregated(m) => share[m] = {}
      /\ IsAggregated(m) /\ ~router'.done => share[m] \cap router'.buffer[m] = {}
      /\ IsAggregated(m) /\ InTime(m) /\ ~opt.interrupt =>
            \A r \in share[m], q \in RowsOf(m) : q.second = r.second => q \in share[m]
    BY DEF Shape
<1>2. RowsOf(m)' = RowsOf(m) /\ InTime(m)' = InTime(m) /\ \A s : RowsIn(m, s)' = RowsIn(m, s)
    BY RowsStay
<1>3. CASE l \in Tagged("metrics", m, new[m])
  <2>1. PICK r \in new[m] : l = [table |-> "metrics", line |-> [metric |-> m, second |-> r.second, rows |-> {r}]]
      BY <1>3 DEF Tagged, LinesSet, RawLines
  <2>2. l.table = "metrics" /\ l.line.metric = m /\ l.line.rows = {r}
      BY <2>1
  <2>3. Given1(l)'
      BY <1>1, <2>2 DEF Given1
  <2> QED
      BY <1>1, <2>2, <2>3
<1>4. ASSUME NEW t \in ToSet(Aggregates), l \in Tagged(t, m, share[m])
      PROVE  /\ Given1(l)' /\ l.line.metric = m /\ l.table # "metrics"
             /\ l.line.rows \cap Gone(m) = {}
  <2>1. t # "metrics"
      BY TablesTypes
  <2>2. PICK r \in share[m] :
           l = [table |-> t, line |-> [metric |-> m, second |-> r.second, rows |-> {q \in share[m] : q.second = r.second}]]
      BY <1>4, <2>1 DEF Tagged, LinesSet, SecondLines
  <2>3. l.table # "metrics" /\ l.line.metric = m /\ l.line.second = r.second /\ l.line.rows = {q \in share[m] : q.second = r.second}
      BY <2>1, <2>2
  <2>4. IsAggregated(m) /\ l.line.rows # {} /\ l.line.rows \subseteq share[m]
      BY <1>1, <2>3
  <2>5. ASSUME InTime(m), ~opt.interrupt PROVE l.line.rows = RowsIn(m, l.line.second)
    <3>1. share[m] \subseteq RowsOf(m)
        BY <1>1, <1>2 DEF Passed
    <3> QED
        BY <1>1, <2>3, <2>4, <2>5, <3>1 DEF RowsIn
  <2>6. Given1(l)'
      BY <1>1, <1>2, <2>3, <2>4, <2>5 DEF Given1
  <2> QED
      BY <1>1, <2>3, <2>4, <2>6
<1> QED
    BY <1>3, <1>4

\* What was given before.
LEMMA LineBefore ==
    ASSUME Core, opt' = opt, ~router.done, NEW new, NEW share, Shape(new, share), Buffers', NEW l, Given1(l), l.line.metric \in Metrics
    PROVE  Given1(l)'
<1>1. PICK m \in Metrics : m = l.line.metric
    OBVIOUS
<1>2. /\ Passed(m)' = Passed(m) \cup new[m]
      /\ IsAggregated(m) /\ ~router'.done => \A r \in Gone(m) : r \notin router'.buffer[m]
    BY DEF Shape
<1>3. InTime(m)' = InTime(m) /\ \A s : RowsIn(m, s)' = RowsIn(m, s)
    BY RowsStay
<1>4. ASSUME l.table # "metrics", ~router'.done PROVE l.line.rows \cap router'.buffer[m] = {}
  <2>1. l.line.rows \subseteq Gone(m)
      BY <1>1, <1>4 DEF Given1, Gone
  <2>2. CASE IsAggregated(m)
      BY <1>2, <1>4, <2>1, <2>2
  <2>3. CASE ~IsAggregated(m)
    <3>1. BufferOf(router'.buffer[m], Passed(m)', m, router'.done)
        BY BuffersAre
    <3> QED
        BY <2>3, <3>1 DEF BufferOf
  <2> QED
      BY <2>2, <2>3
<1> QED
    BY <1>1, <1>2, <1>3, <1>4 DEF Given1

\* The lines that were given out.
LEMMA EmittedTypes ==
    ASSUME Typed
    PROVE  Held \subseteq Tagging /\ Emitted \subseteq Tagging /\ \A l \in Emitted : l.line.metric \in Metrics
<1>1. /\ luna.queue \in Seq(Piece) /\ worker.data \in Seq(Table) /\ server.stored \subseteq Tagging
      /\ worker.at = "send" => worker.left \in Seq(Table)
    BY DEF Typed, TypeOK, Working, LunaType, WorkerType, ServerType
<1>2. Held \subseteq Tagging
    BY <1>1, LinesOfTypes DEF Held
<1>3. Emitted \subseteq Tagging
    BY <1>1, <1>2, LinesOfTypes DEF Emitted
<1>4. \A l \in Tagging : l.line.metric \in Metrics
    BY DEF Tagging, Line
<1> QED
    BY <1>2, <1>3, <1>4

\* The pieces of the queue have lines of one metric each.
LEMMA QueueMetric == LinesOfMetric <=> OfMetric(luna.queue)
BY DEF LinesOfMetric, OfMetric

\* The same after a step.
LEMMA QueueMetricNext == LinesOfMetric' <=> OfMetric(luna'.queue)
BY DEF LinesOfMetric, OfMetric

\* A turn of the router adds its lines to those given out.
LEMMA RouterEmits ==
    ASSUME Core, LinesOfMetric, Emitting, Buffers', NEW ps, NEW new, NEW share, Turned(ps, new, share)
    PROVE  /\ LinesOfMetric' /\ Emitting' /\ Held' = Held
           /\ Emitted' \subseteq Emitted \cup LinesOf(ps)
           /\ Has("luna") /\ ~luna.failed => Emitted' = Emitted \cup LinesOf(ps)
<1>1. /\ Shape(new, share) /\ LinesAre(ps, new, share) /\ ps \in Seq(Piece) /\ OfMetric(ps) /\ ~router.done
      /\ UNCHANGED <<opt, worker, server>> /\ luna' = IF Has("luna") THEN [luna EXCEPT !.queue = Given(ps)] ELSE luna
    BY DEF Turned
<1>2. Typed /\ luna.queue \in Seq(Piece)
    BY DEF Core, Typed, TypeOK, LunaType
<1>3. /\ luna'.queue \in {luna.queue, luna.queue \o ps}
      /\ Has("luna") /\ ~luna.failed => luna'.queue = luna.queue \o ps
    BY <1>1, <1>2, GivenTyped
<1>4. LinesOf(luna.queue \o ps) = LinesOf(luna.queue) \cup LinesOf(ps) /\ (OfMetric(luna.queue) => OfMetric(luna.queue \o ps))
    BY <1>1, <1>2, LinesOfJoint
<1>5. LinesOfMetric'
    BY <1>3, <1>4, QueueMetric, QueueMetricNext
<1>6. Held' = Held
    BY <1>1 DEF Held, LinesOf, LinesIn
<1>7. LinesOf(luna.queue)' = LinesOf(luna'.queue)
    BY DEF LinesOf, LinesIn
<1>8. /\ Emitted' \subseteq Emitted \cup LinesOf(ps)
      /\ Has("luna") /\ ~luna.failed => Emitted' = Emitted \cup LinesOf(ps)
    BY <1>3, <1>4, <1>6, <1>7 DEF Emitted
<1>9. ASSUME NEW l \in Emitted PROVE Given1(l)'
    BY <1>1, <1>2, <1>9, EmittedTypes, LineBefore DEF Emitting
<1>10. ASSUME NEW l \in LinesOf(ps) PROVE Given1(l)'
  <2>1. PICK m \in Metrics : \/ opt.metrics[m].raw /\ l \in Tagged("metrics", m, new[m])
                             \/ \E t \in ToSet(Aggregates) : l \in Tagged(t, m, share[m])
      BY <1>1, <1>10 DEF LinesAre
  <2> QED
      BY <1>1, <2>1, LineOfTurn
<1>11. Emitting'
    BY <1>8, <1>9, <1>10 DEF Emitting
<1> QED
    BY <1>5, <1>6, <1>8, <1>11

-----------------------------------------------------------------------------
LunaAlone == UNCHANGED <<opt, metrics, routing, router, main>>

\* Taking a piece moves its lines.
LEMMA TakeDataEmits ==
    ASSUME Typed, TakeData, LunaAlone
    PROVE  /\ Emitted' = Emitted /\ (LinesOfMetric => LinesOfMetric')
           /\ \E item, queue :
                 /\ Takes(item, queue) /\ luna'.queue = queue /\ item.metric \in luna.ids /\ luna'.ids = luna.ids
                 /\ Held' = Held \cup LinesIn(item)
<1>1. /\ UNCHANGED <<register, lock, server>> /\ worker.at = "loop" /\ worker'.at \in {"loop", "send"}
      /\ luna' = [luna EXCEPT !.queue = luna'.queue]
    BY TakeDataTyped DEF LunaAlone
<1>2. PICK item, queue :
         /\ Takes(item, queue) /\ item.metric \in luna.ids
         /\ luna'.queue = queue
         /\ worker'.data = Merged(item) /\ (worker'.at = "send" => worker'.left = Merged(item))
    BY TakeDataTyped DEF LunaAlone
<1>3. item \in Piece /\ LinesOf(luna.queue) = LinesIn(item) \cup LinesOf(queue)
    BY <1>2 DEF Takes
<1>4. LinesOf(Merged(item)) = LinesOf(worker.data) \cup LinesIn(item)
    BY <1>3, MergedGives
<1>5. LinesOf(worker.data)' = LinesOf(worker'.data) /\ LinesOf(worker.left)' = LinesOf(worker'.left) /\ LinesOf(luna.queue)' = LinesOf(luna'.queue)
    BY DEF LinesOf, LinesIn
<1>6. Held = server.stored \cup LinesOf(worker.data)
    BY <1>1 DEF Held
<1>7. Held' = server.stored \cup LinesOf(Merged(item))
    BY <1>1, <1>2, <1>5 DEF Held
<1>8. Held' = Held \cup LinesIn(item)
    BY <1>4, <1>6, <1>7
<1>9. Emitted' = Emitted
    BY <1>2, <1>3, <1>5, <1>8 DEF Emitted
<1>10. luna'.ids = luna.ids
    BY <1>1 DEF Typed, TypeOK, LunaType
<1>11. LinesOfMetric => LinesOfMetric'
    BY <1>2, QueueMetric, QueueMetricNext DEF Takes
<1> QED
    BY <1>2, <1>8, <1>9, <1>10, <1>11

\* Giving it back moves nothing, if it is taken back.
LEMMA GiveBackEmits ==
    ASSUME Typed, GiveBack, LunaAlone
    PROVE  /\ Held' = Held /\ Emitted' \subseteq Emitted /\ luna'.ids = luna.ids
           /\ LinesOfMetric => LinesOfMetric'
           /\ luna.put /\ ~luna.failed => Emitted' = Emitted
<1>1. /\ UNCHANGED <<register, lock, server>> /\ worker.at = "loop" /\ worker'.at = "lock" /\ worker'.data = worker.data
      /\ luna' = [luna EXCEPT !.queue = luna'.queue]
    BY GiveBackTyped DEF LunaAlone
<1>2. PICK item, queue :
         /\ Takes(item, queue)
         /\ luna'.queue \in {queue, Append(queue, item)}
         /\ luna.put /\ ~luna.failed => luna'.queue = Append(queue, item)
    BY GiveBackTyped DEF LunaAlone
<1>3. /\ item \in Piece /\ queue \in Seq(Piece) /\ LinesOf(luna.queue) = LinesIn(item) \cup LinesOf(queue)
      /\ OfMetric(luna.queue) => OfMetric(queue) /\ \A j \in DOMAIN item.lines : item.lines[j].metric = item.metric
    BY <1>2 DEF Takes
<1>4. /\ LinesOf(Append(queue, item)) = LinesOf(queue) \cup LinesIn(item)
      /\ OfMetric(luna.queue) => OfMetric(Append(queue, item))
    BY <1>3, LinesOfAppended
<1>5. LinesOf(worker.data)' = LinesOf(worker.data) /\ LinesOf(luna.queue)' = LinesOf(luna'.queue)
    BY <1>1 DEF LinesOf, LinesIn
<1>6. Held' = Held
    BY <1>1, <1>5 DEF Held
<1>7. Emitted' \subseteq Emitted /\ (luna.put /\ ~luna.failed => Emitted' = Emitted)
    BY <1>2, <1>3, <1>4, <1>5, <1>6 DEF Emitted
<1>8. LinesOfMetric => LinesOfMetric'
    BY <1>2, <1>3, <1>4, QueueMetric, QueueMetricNext
<1>9. luna'.ids = luna.ids
    BY <1>1 DEF Typed, TypeOK, LunaType
<1> QED
    BY <1>6, <1>7, <1>8, <1>9

\* At the end the queue is thrown away, which has nothing to lose unless it is
\* interrupted.
LEMMA WorkerEndsEmits ==
    ASSUME Typed, WorkerEnds, LunaAlone
    PROVE  /\ Held' = Held /\ Emitted' \subseteq Emitted /\ LinesOfMetric' /\ luna'.ids = luna.ids
           /\ luna.queue = << >> => Emitted' = Emitted
<1>1. /\ UNCHANGED <<register, lock, server>> /\ worker.at = "loop" /\ luna'.queue = << >> /\ luna'.ids = luna.ids
      /\ worker'.data = worker.data
      /\ \/ worker.data = << >> /\ worker'.at = "finished"
         \/ worker.data # << >> /\ worker'.at = "send" /\ worker'.left = worker.data
    BY WorkerEndsTyped DEF LunaAlone
<1>2. /\ LinesOf(worker.data)' = LinesOf(worker.data) /\ LinesOf(worker.left)' = LinesOf(worker'.left)
      /\ LinesOf(luna.queue)' = LinesOf(luna'.queue)
    BY <1>1 DEF LinesOf, LinesIn
<1>3. Held = server.stored \cup LinesOf(worker.data)
    BY <1>1 DEF Held
<1>4. Held' = server.stored \cup LinesOf(worker.data)
    BY <1>1, <1>2 DEF Held
<1>5. LinesOf(<< >>) = {} /\ OfMetric(<< >>)
    BY NoLines
<1>6. Emitted' = Held
    BY <1>1, <1>2, <1>3, <1>4, <1>5 DEF Emitted
<1>7. Held \subseteq Emitted /\ (luna.queue = << >> => Emitted = Held)
    BY <1>5 DEF Emitted
<1> QED
    BY <1>1, <1>3, <1>4, <1>5, <1>6, <1>7, QueueMetricNext

\* What is uploaded was there before.
LEMMA SendEmits ==
    ASSUME Typed, NEW o, SentAs(o)
    PROVE  /\ Held' \subseteq Held /\ Emitted' \subseteq Emitted /\ luna'.ids = luna.ids
           /\ LinesOfMetric => LinesOfMetric'
<1>1. /\ worker.at = "send" /\ luna'.queue = luna.queue /\ luna'.ids = luna.ids
      /\ worker'.at = "send" => worker'.left \in {worker.left, Tail(worker.left)}
      /\ worker'.data \in {worker.data, << >>}
      /\ server'.stored \in {server.stored, server.stored \cup SentLines}
    BY DEF SentAs
<1>2. SentLines \subseteq LinesOf(worker.left) /\ LinesOf(Tail(worker.left)) \subseteq LinesOf(worker.left)
    BY <1>1, PartLines
<1>3. /\ LinesOf(worker.data)' = LinesOf(worker'.data) /\ LinesOf(worker.left)' = LinesOf(worker'.left)
      /\ LinesOf(luna.queue)' = LinesOf(luna.queue) /\ LinesOf(<< >>) = {}
    BY <1>1, NoLines DEF LinesOf, LinesIn
<1>4. Held = server.stored \cup LinesOf(worker.data) \cup LinesOf(worker.left)
    BY <1>1 DEF Held
<1>5. Held' = server'.stored \cup LinesOf(worker'.data) \cup (IF worker'.at = "send" THEN LinesOf(worker'.left) ELSE {})
    BY <1>3 DEF Held
<1>6. Held' \subseteq Held
  <2>1. LinesOf(worker'.data) \subseteq LinesOf(worker.data)
      BY <1>1, <1>3
  <2>2. server'.stored \subseteq Held
      BY <1>1, <1>2, <1>4
  <2>3. worker'.at = "send" => LinesOf(worker'.left) \subseteq LinesOf(worker.left)
      BY <1>1, <1>2
  <2> QED
      BY <1>4, <1>5, <2>1, <2>2, <2>3
<1>7. Emitted' \subseteq Emitted
    BY <1>3, <1>6 DEF Emitted
<1> QED
    BY <1>1, <1>6, <1>7, QueueMetric, QueueMetricNext

\* The metrics, when none is registered.
LEMMA RegisteredStays ==
    ASSUME Registered, opt' = opt, luna'.ids = luna.ids, server'.created = server.created, server.shaky => server'.shaky,
           SameAsk(register, register'), NoMore => NoMore', \A l \in Held' : l.line.metric \in luna.ids
    PROVE  Registered'
<1>1. Metrics' = Metrics /\ \A m : Parent(m)' = Parent(m)
    BY TypesStay DEF Parent
<1>2. ToSet(server.created)' = ToSet(server.created)
    BY DEF ToSet
<1>3. register'.at = "ask" => /\ register'.metric \in Metrics' \ luna'.ids
                              /\ Parent(register.metric)' # "none" => Parent(register.metric)' \in luna'.ids
  <2> SUFFICES ASSUME register'.at = "ask"
               PROVE  /\ register'.metric \in Metrics' \ luna'.ids
                      /\ Parent(register.metric)' # "none" => Parent(register.metric)' \in luna'.ids
      OBVIOUS
  <2>1. register.at = "ask" /\ register'.metric = register.metric
      BY DEF SameAsk
  <2>2. Parent(register.metric)' = Parent(register.metric)
      BY <2>1 DEF Parent
  <2> QED
      BY <1>1, <2>1, <2>2 DEF Registered
<1>4. \A i \in DOMAIN server'.created : Parent(server.created[i])' = Parent(server.created[i])
    BY DEF Parent
<1> QED
    BY <1>2, <1>3, <1>4 DEF Registered

\* How a thread may be told to stop.
Told(w, v) == v \in {w, Interrupted(w), Stopped(w)}

\* What the registering thread is at when it is told something.
LEMMA ToldRegister ==
    ASSUME Typed, Told(register, register')
    PROVE  SameAsk(register, register') /\ (NoMore => NoMore') /\ register'.at = register.at
<1>1. /\ register'.at = register.at /\ register'.metric = register.metric
      /\ register.interrupted => register'.interrupted
    BY RegisterFields DEF Typed, TypeOK, Told
<1> QED
    BY <1>1 DEF SameAsk, NoMore

\* What the uploading thread is at when it is told something.
LEMMA ToldWorker ==
    ASSUME Typed, Told(worker, worker')
    PROVE  SameWork(worker, worker')
BY WorkerFields DEF Typed, TypeOK, Told, SameWork

\* Asking for the number of the job tells the threads at most to stop.
LEMMA AskedTold ==
    ASSUME TypeOK, NEW ends, MainMakesJob(ends)
    PROVE  Told(register, register') /\ Told(worker, worker') /\ server'.closed = server.closed
<1>1. register' \in {register, Interrupted(register)} /\ server'.closed = server.closed
    BY MainAsked DEF JobAsked
<1>2. worker' = worker \/ worker' = Interrupted(worker)
    BY DEF MainMakesJob, JobMade, JobFails, NoJobAnyMore, NoJobId
<1> QED
    BY <1>1, <1>2 DEF Told

\* What the main thread does to the others.
LEMMA MainThreads ==
    ASSUME Typed, Main
    PROVE  /\ Told(register, register') /\ Told(worker, worker')
           /\ server'.closed => server.closed \/ main.at = "close job"
<1>1. ASSUME UNCHANGED threads PROVE Told(register, register') /\ Told(worker, worker') /\ server'.closed = server.closed
    BY <1>1 DEF threads, Told
<1>2. ASSUME UNCHANGED <<register, worker>>, NEW o, NEW s \in ServerType, server' = Used(o, s)
      PROVE  Told(register, register') /\ Told(worker, worker') /\ server'.closed = s.closed
    BY <1>2 DEF Told, Used, ServerType
<1>3. CASE Build
  <2>1. UNCHANGED <<register, worker>>
      BY <1>3, BuildTyped
  <2>2. server' = server \/ server' = [server EXCEPT !.faults = @ - 1]
      BY <1>3 DEF Build, BuildLuna, BuildLocal, BuildVolta, Built, Untouched, threads
  <2>3. server'.closed = server.closed
      BY <2>2 DEF Typed, TypeOK, ServerType
  <2> QED
      BY <2>1, <2>3 DEF Told
<1>4. CASE User
  <2>1. CASE UpdateAsksForJob
      BY <2>1, AskedTold DEF UpdateAsksForJob, Typed
  <2>2. CASE UpdateMetric
    <3>1. UNCHANGED <<register, worker>> /\ (server' = server \/ \E o \in Outcomes : server' = Used(o, server))
        BY <2>2 DEF UpdateMetric
    <3> QED
        BY <1>2, <3>1 DEF Told, Typed, TypeOK
  <2>3. CASE NewTrueMetric \/ Put \/ UpdateJob
      BY <1>1, <2>3 DEF NewTrueMetric, Put, UpdateJob, Untouched
  <2> QED
      BY <1>4, <2>1, <2>2, <2>3 DEF User
<1>5. CASE CloseAsksForJob
    BY <1>5, AskedTold DEF CloseAsksForJob, Typed
<1>6. CASE CloseJob
    BY <1>6 DEF CloseJob, Told
<1>7. CASE CloseManager \/ RouterJoined \/ RegisterJoined \/ StopLocal \/ LocalJoined \/ CloseVolta \/ Closed
    BY <1>1, <1>7 DEF CloseManager, RouterJoined, RegisterJoined, StopLocal, LocalJoined, CloseVolta, Closed, Untouched
<1>8. CASE StopWorker \/ CloseHasJob \/ WorkerJoined
    BY <1>8 DEF StopWorker, CloseHasJob, WorkerJoined, LunaUnlessWorker, Told
<1> QED
    BY <1>3, <1>4, <1>5, <1>6, <1>7, <1>8 DEF Main, Close

\* The metrics, when the registering thread is told something.
LEMMA RegisteredAside ==
    ASSUME Typed, Registered, opt' = opt, DataSame, Told(register, register')
    PROVE  Registered'
<1>1. Held' = Held
    BY EmittedSame
<1> QED
    BY <1>1, RegisteredStays, ToldRegister DEF DataSame, Registered
-----------------------------------------------------------------------------
\* The metrics, when the registering thread asks for the number or ends.
LEMMA RegisterAsksKeeps ==
    ASSUME Typed, Registered, RegisterMakesJob \/ RegisterEnds, LunaAlone
    PROVE  Registered'
<1>1. DataSame /\ opt' = opt
    BY RegisterAside DEF LunaAlone
<1>2. Held' = Held
    BY <1>1, EmittedSame
<1>3. SameAsk(register, register') /\ (NoMore => NoMore')
  <2>1. CASE RegisterMakesJob
    <3>1. register' \in {register, Interrupted(register), [register EXCEPT !.at = "dead"]} /\ SameAsk(register, register')
        BY <2>1, RegisterAsked DEF Typed
    <3>2. CASE register' \in {register, Interrupted(register)}
        BY <3>2, ToldRegister DEF Told
    <3>3. CASE register' = [register EXCEPT !.at = "dead"]
      <4>1. register'.at = "dead"
          BY <3>3 DEF Typed, TypeOK, RegisterType
      <4> QED
          BY <3>1, <4>1 DEF NoMore
    <3> QED
        BY <3>1, <3>2, <3>3
  <2>2. CASE RegisterEnds
    <3>1. register'.at = "finished" /\ register'.interrupted = register.interrupted /\ register.at = "loop"
        BY <2>2 DEF RegisterEnds, Typed, TypeOK, RegisterType
    <3> QED
        BY <3>1 DEF SameAsk, NoMore
  <2> QED
      BY <2>1, <2>2
<1> QED
    BY <1>1, <1>2, <1>3, RegisteredStays DEF DataSame, Registered

\* The thread takes a metric: it has no id yet, and its parent has one.
LEMMA TakeMetricKeeps ==
    ASSUME Typed, Registered, TakeMetric, LunaAlone
    PROVE  Registered'
<1>1. /\ UNCHANGED <<luna, worker, server>> /\ opt' = opt
      /\ register.at = "loop" /\ ~register.interrupted
      /\ register'.at = "ask" => register'.metric \in Metrics \ luna.ids /\ ~WaitsForParent(register'.metric)
    BY TakeMetricTyped DEF LunaAlone
<1>2. Metrics' = Metrics
    BY <1>1, TypesStay
<1>3. Held' = Held /\ ToSet(server.created)' = ToSet(server.created)
    BY <1>1 DEF Held, LinesOf, LinesIn, ToSet
<1>4. ToSet(server.created) \subseteq luna.ids \/ server.shaky
    BY <1>1 DEF Registered, NoMore
<1>5. \A i \in DOMAIN server'.created : Parent(server.created[i])' = Parent(server.created[i])
    BY <1>1 DEF Parent
<1>6. register'.at = "ask" => (Parent(register.metric)' # "none" => Parent(register.metric)' \in luna'.ids)
    BY <1>1 DEF Parent, WaitsForParent
<1> QED
    BY <1>1, <1>2, <1>3, <1>4, <1>5, <1>6 DEF Registered

\* The service has made a metric some times.
Grown(c, d, x, times) ==
    /\ c \in Seq(Metrics) /\ d \in Seq(Metrics) /\ Len(d) = Len(c) + times /\ times \in 0..2
    /\ DOMAIN c = 1..Len(c) /\ DOMAIN d = 1..Len(c) + times /\ Len(c) \in Nat
    /\ \A i \in DOMAIN c : d[i] = c[i]
    /\ \A i \in DOMAIN d : i \in DOMAIN c \/ (d[i] = x /\ i > Len(c))

\* The metrics that the service has, with one more, or the same one twice.
LEMMA CreatedGrown ==
    ASSUME Typed, register.at = "ask", NEW o \in Outcomes
    PROVE  Grown(server.created, Created(o).created, register.metric, o.times)
<1>1. PICK c, b, d : c = server.created /\ b = Copies(o) /\ d = c \o b
    OBVIOUS
<1>2. c \in Seq(Metrics) /\ b \in Seq(Metrics) /\ Len(b) = o.times /\ o.times \in 0..2 /\ Created(o).created = d
    BY <1>1, CreatedTypes DEF Typed, TypeOK, ServerType, Outcome
<1>3. \A i \in 1..Len(b) : b[i] = register.metric
    BY <1>1, <1>2 DEF Copies
<1>4. /\ d \in Seq(Metrics) /\ Len(d) = Len(c) + Len(b) /\ Len(c) \in Nat
      /\ \A i \in 1..Len(c) : d[i] = c[i]
      /\ \A i \in 1..Len(c) + Len(b) : i \in 1..Len(c) \/ (i - Len(c) \in 1..Len(b) /\ d[i] = b[i - Len(c)])
  <2>1. d = c \o b /\ c \in Seq(Metrics) /\ b \in Seq(Metrics)
      BY <1>1, <1>2
  <2>2. Len(c) \in Nat
      BY <2>1, LenProperties
  <2> QED
      BY <2>1, <2>2, Joint
<1>5. DOMAIN c = 1..Len(c) /\ DOMAIN d = 1..Len(d)
    BY <1>2, <1>4
<1>6. ASSUME NEW i \in DOMAIN d PROVE i \in DOMAIN c \/ (d[i] = register.metric /\ i > Len(c))
  <2>1. i \in 1..Len(c) \/ (i - Len(c) \in 1..Len(b) /\ d[i] = b[i - Len(c)])
      BY <1>4, <1>5
  <2>2. CASE i - Len(c) \in 1..Len(b) /\ d[i] = b[i - Len(c)]
    <3>1. d[i] = register.metric
        BY <1>3, <2>2
    <3>2. i > Len(c)
        BY <1>4, <1>5, <2>2
    <3> QED
        BY <3>1, <3>2
  <2> QED
      BY <1>5, <2>1, <2>2
<1>7. Grown(c, d, register.metric, o.times)
    BY <1>2, <1>4, <1>5, <1>6 DEF Grown
<1> QED
    BY <1>1, <1>2, <1>7

\* After their parents, and each once if there is at most one more that was not there.
LEMMA GrownOrder ==
    ASSUME NEW c, NEW d, NEW x, NEW times, Grown(c, d, x, times), x \in Metrics,
           \A i \in DOMAIN c : Parent(c[i]) # "none" => \E j \in 1..i - 1 : c[j] = Parent(c[i]),
           Parent(x) # "none" => Parent(x) \in ToSet(c)
    PROVE  /\ \A i \in DOMAIN d : Parent(d[i]) # "none" => \E j \in 1..i - 1 : d[j] = Parent(d[i])
           /\ ToSet(c) \subseteq ToSet(d) /\ ToSet(d) \subseteq ToSet(c) \cup {x}
           /\ times > 0 => x \in ToSet(d)
           /\ times < 2 /\ x \notin ToSet(c) /\ (\A i, j \in DOMAIN c : c[i] = c[j] => i = j)
                 => \A i, j \in DOMAIN d : d[i] = d[j] => i = j
<1>1. PICK n \in Nat : n = Len(c)
    BY DEF Grown
<1>2. /\ DOMAIN c = 1..n /\ DOMAIN d = 1..n + times /\ times \in 0..2
      /\ \A i \in DOMAIN c : d[i] = c[i]
      /\ \A i \in DOMAIN d : i \in DOMAIN c \/ (d[i] = x /\ i > n)
    BY <1>1 DEF Grown
<1>3. ToSet(c) \subseteq ToSet(d) /\ ToSet(d) \subseteq ToSet(c) \cup {x}
  <2>1. DOMAIN c \subseteq DOMAIN d
      BY <1>1, <1>2
  <2> QED
      BY <1>2, <2>1 DEF ToSet
<1>4. ASSUME NEW i \in DOMAIN d, Parent(d[i]) # "none" PROVE \E j \in 1..i - 1 : d[j] = Parent(d[i])
  <2>1. CASE i \in DOMAIN c
    <3>1. PICK j \in 1..i - 1 : c[j] = Parent(c[i])
        BY <1>2, <1>4, <2>1
    <3>2. j \in DOMAIN c
        BY <1>1, <1>2, <2>1
    <3> QED
        BY <1>2, <2>1, <3>1, <3>2
  <2>2. CASE i \notin DOMAIN c
    <3>1. d[i] = x /\ i > n
        BY <1>2, <2>2
    <3>2. PICK j \in DOMAIN c : c[j] = Parent(x)
        BY <1>4, <3>1 DEF ToSet
    <3>3. j \in 1..i - 1
        BY <1>1, <1>2, <3>1, <3>2
    <3> QED
        BY <1>2, <3>1, <3>2, <3>3
  <2> QED
      BY <2>1, <2>2
<1>5. ASSUME times > 0 PROVE x \in ToSet(d)
  <2>1. n + 1 \in DOMAIN d /\ n + 1 \notin DOMAIN c
      BY <1>1, <1>2, <1>5
  <2>2. d[n + 1] = x
      BY <1>2, <2>1
  <2> QED
      BY <2>1, <2>2 DEF ToSet
<1>6. ASSUME times < 2, x \notin ToSet(c), \A i, j \in DOMAIN c : c[i] = c[j] => i = j,
             NEW i \in DOMAIN d, NEW j \in DOMAIN d, d[i] = d[j]
      PROVE  i = j
  <2>1. \A k \in DOMAIN c : c[k] # x
      BY <1>6 DEF ToSet
  <2>2. CASE i \in DOMAIN c /\ j \in DOMAIN c
      BY <1>2, <1>6, <2>2
  <2>3. CASE i \notin DOMAIN c /\ j \notin DOMAIN c
    <3>1. \A k \in DOMAIN d : k \notin DOMAIN c => k = n + 1
        BY <1>1, <1>2, <1>6
    <3> QED
        BY <2>3, <3>1
  <2>4. CASE i \in DOMAIN c /\ j \notin DOMAIN c
      BY <1>2, <1>6, <2>1, <2>4
  <2>5. CASE i \notin DOMAIN c /\ j \in DOMAIN c
      BY <1>2, <1>6, <2>1, <2>5
  <2> QED
      BY <2>2, <2>3, <2>4, <2>5
<1> QED
    BY <1>3, <1>4, <1>5, <1>6

\* A registration keeps the metrics in order.
LEMMA RegisterKeeps ==
    ASSUME Typed, Registered, NEW o \in Outcomes, Register(o) \/ RegisterFails(o), LunaAlone
    PROVE  Registered' /\ Emitted' = Emitted /\ Held' = Held /\ (LinesOfMetric => LinesOfMetric') /\ server'.stored = server.stored
<1>1. register.at = "ask" /\ server' = Created(o) /\ opt' = opt
    BY DEF Register, RegisterFails, LunaAlone
<1>2. PICK c, d, x : c = server.created /\ d = server'.created /\ x = register.metric
    OBVIOUS
<1>3. Grown(c, d, x, o.times)
    BY <1>1, <1>2, CreatedGrown
<1>4. /\ server'.stored = server.stored
      /\ ~server'.shaky => ~server.shaky /\ o.times # 2 /\ o.result # "connection"
      /\ o \in Outcome
    BY <1>1, CreatedTypes
<1>5. /\ luna.ids \subseteq ToSet(c) /\ x \in Metrics \ luna.ids
      /\ Parent(x) # "none" => Parent(x) \in luna.ids
      /\ \A i \in DOMAIN c : Parent(c[i]) # "none" => \E j \in 1..i - 1 : c[j] = Parent(c[i])
      /\ ~server.shaky => /\ \A i, j \in DOMAIN c : c[i] = c[j] => i = j
                          /\ ToSet(c) \subseteq luna.ids
    BY <1>1, <1>2 DEF Registered, NoMore
<1>6. /\ \A i \in DOMAIN d : Parent(d[i]) # "none" => \E j \in 1..i - 1 : d[j] = Parent(d[i])
      /\ ToSet(c) \subseteq ToSet(d) /\ ToSet(d) \subseteq ToSet(c) \cup {x}
      /\ o.times > 0 => x \in ToSet(d)
      /\ o.times < 2 /\ x \notin ToSet(c) /\ (\A i, j \in DOMAIN c : c[i] = c[j] => i = j)
            => \A i, j \in DOMAIN d : d[i] = d[j] => i = j
  <2>1. x \in Metrics /\ (Parent(x) # "none" => Parent(x) \in ToSet(c))
      BY <1>5
  <2> QED
      BY <1>3, <1>5, <2>1, GrownOrder
<1>7. ~server'.shaky => \A i, j \in DOMAIN d : d[i] = d[j] => i = j
  <2>1. ~server'.shaky => o.times < 2
      BY <1>4 DEF Outcome
  <2>2. ~server'.shaky => x \notin ToSet(c) /\ \A i, j \in DOMAIN c : c[i] = c[j] => i = j
      BY <1>4, <1>5
  <2> QED
      BY <1>6, <2>1, <2>2
<1>8. \A m : Parent(m)' = Parent(m)
    BY <1>1 DEF Parent
<1>9. \A i \in DOMAIN server'.created : Parent(server.created[i])' = Parent(d[i])
    BY <1>1, <1>2 DEF Parent
<1>10. ToSet(server.created)' = ToSet(d) /\ Metrics' = Metrics
    BY <1>1, <1>2, TypesStay DEF ToSet
<1>11. CASE Register(o)
  <2>1. /\ luna'.queue = luna.queue /\ luna'.ids = luna.ids \cup {x} /\ register'.at = "loop" /\ worker' = worker
      BY <1>2, <1>11, RegisterTyped DEF LunaAlone
  <2>2. o.times > 0
      BY <1>4, <1>11, OutcomeTypes DEF Typed, TypeOK, Register
  <2>3. Held' = Held /\ Emitted' = Emitted /\ (LinesOfMetric => LinesOfMetric')
    <3>1. LinesOf(luna.queue)' = LinesOf(luna.queue) /\ LinesOf(worker.data)' = LinesOf(worker.data) /\ LinesOf(worker.left)' = LinesOf(worker.left)
        BY <2>1 DEF LinesOf, LinesIn
    <3>2. Held' = Held
        BY <1>4, <2>1, <3>1 DEF Held
    <3> QED
        BY <2>1, <3>1, <3>2 DEF Emitted, LinesOfMetric
  <2>4. \A l \in Held' : l.line.metric \in luna'.ids
      BY <2>1, <2>3 DEF Registered
  <2>5. luna'.ids \subseteq ToSet(d) /\ (~server'.shaky => ToSet(d) \subseteq luna'.ids)
      BY <1>4, <1>5, <1>6, <2>1, <2>2
  <2>6. Registered'
      BY <1>2, <1>6, <1>7, <1>9, <1>10, <2>1, <2>4, <2>5 DEF Registered
  <2> QED
      BY <1>4, <2>3, <2>6
<1>12. CASE RegisterFails(o)
  <2>1. /\ luna'.queue = luna.queue /\ luna'.ids = luna.ids
        /\ register'.at = "dead" \/ (register'.at = "loop" /\ register'.interrupted)
        /\ SameWork(worker, worker')
      BY <1>12, RegisterFailsTyped DEF LunaAlone
  <2>2. NoMore' /\ register'.at # "ask"
      BY <2>1 DEF NoMore
  <2>3. Held' = Held /\ Emitted' = Emitted /\ (LinesOfMetric => LinesOfMetric')
    <3>1. LinesOf(luna.queue)' = LinesOf(luna.queue) /\ LinesOf(worker.data)' = LinesOf(worker.data) /\ LinesOf(worker.left)' = LinesOf(worker.left)
        BY <2>1 DEF LinesOf, LinesIn, SameWork
    <3>2. Held' = Held
        BY <1>4, <2>1, <3>1 DEF Held, SameWork
    <3> QED
        BY <2>1, <3>1, <3>2 DEF Emitted, LinesOfMetric
  <2>4. \A l \in Held' : l.line.metric \in luna'.ids
      BY <2>1, <2>3 DEF Registered
  <2>5. luna'.ids \subseteq ToSet(d)
      BY <1>5, <1>6, <2>1
  <2>6. Registered'
      BY <1>2, <1>6, <1>7, <1>9, <1>10, <2>2, <2>4, <2>5 DEF Registered
  <2> QED
      BY <1>4, <2>3, <2>6
<1> QED
    BY <1>11, <1>12

\* The uploading thread, and what the service has.
LEMMA WorkerKeeps ==
    ASSUME Typed, LinesOfMetric, Registered, WorkerStep, LunaAlone
    PROVE  Typed' /\ LinesOfMetric' /\ Registered' /\ Emitted' \subseteq Emitted
<1>1. opt' = opt
    BY DEF LunaAlone
<1>2. CASE TakeData
  <2>1. UNCHANGED <<register, server>> /\ Typed'
      BY <1>2, TakeDataTyped DEF LunaAlone
  <2>2. PICK item, queue :
           /\ Takes(item, queue) /\ item.metric \in luna.ids /\ luna'.ids = luna.ids
           /\ Held' = Held \cup LinesIn(item)
      BY <1>2, TakeDataEmits
  <2>3. \A l \in LinesIn(item) : l.line.metric = item.metric
      BY <2>2, QueueMetric DEF Takes, LinesIn
  <2>4. \A l \in Held' : l.line.metric \in luna.ids
      BY <2>2, <2>3 DEF Registered
  <2>5. SameAsk(register, register') /\ (NoMore => NoMore')
      BY <2>1 DEF SameAsk, NoMore
  <2> QED
      BY <1>1, <1>2, <2>1, <2>2, <2>4, <2>5, TakeDataEmits, RegisteredStays
<1>3. CASE GiveBack
  <2>1. UNCHANGED <<register, server>> /\ Typed'
      BY <1>3, GiveBackTyped DEF LunaAlone
  <2>2. Held' = Held /\ Emitted' \subseteq Emitted /\ luna'.ids = luna.ids /\ LinesOfMetric'
      BY <1>3, GiveBackEmits
  <2>3. SameAsk(register, register') /\ (NoMore => NoMore')
      BY <2>1 DEF SameAsk, NoMore
  <2> QED
      BY <1>1, <2>1, <2>2, <2>3, RegisteredStays DEF Registered
<1>4. CASE WorkerEnds
  <2>1. UNCHANGED <<register, server>> /\ Typed'
      BY <1>4, WorkerEndsTyped DEF LunaAlone
  <2>2. Held' = Held /\ Emitted' \subseteq Emitted /\ luna'.ids = luna.ids /\ LinesOfMetric'
      BY <1>4, WorkerEndsEmits
  <2>3. SameAsk(register, register') /\ (NoMore => NoMore')
      BY <2>1 DEF SameAsk, NoMore
  <2> QED
      BY <1>1, <2>1, <2>2, <2>3, RegisteredStays DEF Registered
<1>5. ASSUME DataSame, Typed', SameAsk(register, register'), NoMore => NoMore'
      PROVE  Typed' /\ LinesOfMetric' /\ Registered' /\ Emitted' \subseteq Emitted
  <2>1. Held' = Held /\ Emitted' = Emitted /\ LinesOfMetric'
      BY <1>5, EmittedSame
  <2>2. Registered'
      BY <1>1, <1>5, <2>1, RegisteredStays DEF DataSame, Registered
  <2> QED
      BY <1>5, <2>1, <2>2
<1>6. CASE AddMetric
  <2>1. /\ Typed' /\ DataSame /\ register'.at = register.at /\ register'.metric = register.metric
        /\ register'.interrupted = register.interrupted
      BY <1>6, AddMetricTyped DEF LunaAlone
  <2> QED
      BY <1>5, <2>1 DEF SameAsk, NoMore
<1>7. CASE Unlock
  <2>1. Typed' /\ DataSame /\ register' = register
      BY <1>7, UnlockTyped DEF LunaAlone
  <2> QED
      BY <1>5, <2>1 DEF SameAsk, NoMore
<1>8. ASSUME NEW o \in Outcomes, Send(o) PROVE Typed' /\ LinesOfMetric' /\ Registered' /\ Emitted' \subseteq Emitted
  <2>1. Typed' /\ SentAs(o)
      BY <1>8, SendTyped DEF LunaAlone
  <2>2. Held' \subseteq Held /\ Emitted' \subseteq Emitted /\ luna'.ids = luna.ids /\ LinesOfMetric'
      BY <2>1, SendEmits
  <2>3. Told(register, register') /\ server'.created = server.created /\ (server.shaky => server'.shaky)
      BY <2>1 DEF SentAs, Told
  <2>4. SameAsk(register, register') /\ (NoMore => NoMore')
      BY <2>3, ToldRegister
  <2>5. Registered'
      BY <1>1, <2>2, <2>3, <2>4, RegisteredStays DEF Registered
  <2> QED
      BY <2>1, <2>2, <2>5
<1> QED
    BY <1>2, <1>3, <1>4, <1>6, <1>7, <1>8 DEF WorkerStep

\* The registering thread, and what the service has.
LEMMA RegistererKeeps ==
    ASSUME Typed, LinesOfMetric, Registered, RegisterStep, LunaAlone
    PROVE  Typed' /\ LinesOfMetric' /\ Registered' /\ Emitted' = Emitted
<1>1. ASSUME TakeMetric \/ RegisterMakesJob \/ RegisterEnds PROVE Typed' /\ LinesOfMetric' /\ Registered' /\ Emitted' = Emitted
  <2>1. Typed' /\ DataSame
      BY <1>1, RegisterAside DEF LunaAlone
  <2>2. Registered'
      BY <1>1, TakeMetricKeeps, RegisterAsksKeeps
  <2> QED
      BY <2>1, <2>2, EmittedSame
<1>2. ASSUME NEW o \in Outcomes, Register(o) \/ RegisterFails(o) PROVE Typed' /\ LinesOfMetric' /\ Registered' /\ Emitted' = Emitted
    BY <1>2, RegisterTyped, RegisterFailsTyped, RegisterKeeps DEF LunaAlone
<1> QED
    BY <1>1, <1>2 DEF RegisterStep

-----------------------------------------------------------------------------
\* What the rows and the lines are, apart from how far the session is.
Lines0 == Core /\ LinesOfMetric /\ Registered /\ Emitting

\* Every step keeps lines, metrics, queue and buffers right.
LEMMA LinesNext ==
    ASSUME Lines0, Next
    PROVE  Lines0' /\ (RouterStep \/ (Still /\ Emitted' \subseteq Emitted))
<1>1. Core /\ Typed /\ LinesOfMetric /\ Registered /\ Emitting
    BY DEF Lines0, Core
<1>2. ASSUME Still, Emitted' \subseteq Emitted, LinesOfMetric', Registered' PROVE Lines0'
    BY <1>1, <1>2, EmittingSame DEF Still, Lines0, Core
<1>3. CASE Main
  <2>1. Still /\ DataSame /\ opt' = opt
      BY <1>1, <1>3, MainStill DEF Still
  <2>2. Told(register, register')
      BY <1>1, <1>3, MainThreads
  <2> QED
      BY <1>1, <1>2, <2>1, <2>2, EmittedSame, RegisteredAside
<1>4. CASE Local
  <2>1. Still /\ DataSame /\ opt' = opt
      BY <1>1, <1>4, LocalStill DEF Still
  <2>2. Told(register, register')
      BY <1>1, <1>4, LocalTyped DEF Told
  <2> QED
      BY <1>1, <1>2, <2>1, <2>2, EmittedSame, RegisteredAside
<1>5. CASE LunaStep(RegisterStep)
  <2>1. RegisterStep /\ LunaAlone
      BY <1>5 DEF LunaStep, LunaAlone
  <2>2. Typed' /\ LinesOfMetric' /\ Registered' /\ Emitted' = Emitted
      BY <1>1, <2>1, RegistererKeeps
  <2>3. Still
      BY <1>1, <2>1, <2>2, ThreadStill DEF LunaAlone
  <2> QED
      BY <1>2, <2>2, <2>3
<1>6. CASE LunaStep(WorkerStep)
  <2>1. WorkerStep /\ LunaAlone
      BY <1>6 DEF LunaStep, LunaAlone
  <2>2. Typed' /\ LinesOfMetric' /\ Registered' /\ Emitted' \subseteq Emitted
      BY <1>1, <2>1, WorkerKeeps
  <2>3. Still
      BY <1>1, <2>1, <2>2, ThreadStill DEF LunaAlone
  <2> QED
      BY <1>2, <2>2, <2>3
<1>7. CASE RouterStep
  <2>1. Typed' /\ Routing' /\ Buffers'
      BY <1>1, <1>7, RouterTurn
  <2>2. PICK ps, new, share : Turned(ps, new, share)
      BY <1>1, <1>7, RouterTurn
  <2>3. LinesOfMetric' /\ Emitting' /\ Held' = Held
      BY <1>1, <2>1, <2>2, RouterEmits
  <2>4. UNCHANGED <<opt, register, server>> /\ luna'.ids = luna.ids
    <3>1. ps \in Seq(Piece) /\ luna' = IF Has("luna") THEN [luna EXCEPT !.queue = Given(ps)] ELSE luna
        BY <2>2 DEF Turned
    <3> QED
        BY <1>1, <2>2, <3>1, GivenTyped DEF Turned
  <2>5. Registered'
      BY <1>1, <2>3, <2>4, RegisteredStays DEF SameAsk, NoMore, Registered
  <2> QED
      BY <1>7, <2>1, <2>3, <2>5 DEF Lines0, Core
<1> QED
    BY <1>3, <1>4, <1>5, <1>6, <1>7 DEF Next

\* Where close() goes on.
LEMMA MainStages ==
    ASSUME Typed, Main
    PROVE  /\ main'.at = "register" => main.at = "register" \/ Ended(worker)
           /\ main'.at = "close job" => main.at = "close job" \/ (main.at = "register" /\ Ended(register))
<1>1. main \in Place
    BY DEF Typed, TypeOK, Place
<1>2. /\ Next1 \/ UNCHANGED main => main'.at = main.at
      /\ \A place \in Stages : Goes(place) \/ At(place) => main'.at = place
      /\ NextClient => main'.at = "close"
    BY <1>1, Moves
<1>3. {"raised", "locked", "user", "join", "interrupted", "close", "job", "worker", "register", "close job", "closed"} \subseteq Stages
    BY DEF Stages, NotClosing, InClose
<1>4. CASE Build
  <2>1. Next1 \/ Goes("raised") \/ Goes("locked") \/ Goes("user")
      BY <1>4 DEF Build, BuildLuna, BuildLocal, BuildVolta, Built
  <2> QED
      BY <1>2, <1>3, <2>1
<1>5. CASE User
  <2>1. Next1 \/ UNCHANGED main
      BY <1>5, MainAsked DEF User, NewTrueMetric, Put, UpdateAsksForJob, UpdateJob, UpdateMetric, Typed
  <2> QED
      BY <1>2, <2>1
<1>6. CASE CloseManager \/ RouterJoined \/ StopWorker \/ CloseHasJob \/ StopLocal \/ LocalJoined \/ CloseVolta \/ Closed \/ CloseJob
  <2>1. \/ Next1 \/ UNCHANGED main \/ NextClient
        \/ Goes("join") \/ Goes("interrupted") \/ Goes("close") \/ At("job") \/ At("worker") \/ Goes("closed")
      BY <1>6 DEF CloseManager, RouterJoined, StopWorker, CloseHasJob, StopLocal, LocalJoined, CloseVolta, Closed, CloseJob
  <2> QED
      BY <1>2, <1>3, <2>1
<1>7. CASE CloseAsksForJob
  <2>1. NextClient \/ UNCHANGED main
      BY <1>7, MainAsked DEF CloseAsksForJob, Typed
  <2> QED
      BY <1>2, <2>1
<1>8. CASE WorkerJoined
    BY <1>2, <1>3, <1>8 DEF WorkerJoined
<1>9. CASE RegisterJoined
    BY <1>2, <1>3, <1>9 DEF RegisterJoined
<1> QED
    BY <1>4, <1>5, <1>6, <1>7, <1>8, <1>9 DEF Main, Close

ServiceSame == UNCHANGED <<server.created, server.stored, server.again>>

\* Every step keeps the order of close(), and a closed job gets nothing more.
LEMMA ClosingNext ==
    ASSUME Typed, Closing, Next
    PROVE  Closing' /\ (server.closed => ServiceSame)
<1>1. CASE Main
  <2>1. /\ Told(register, register') /\ Told(worker, worker')
        /\ server'.closed => server.closed \/ main.at = "close job"
      BY <1>1, MainThreads
  <2>2. register'.at = register.at /\ worker'.at = worker.at
      BY <2>1, ToldRegister, ToldWorker DEF SameWork
  <2>3. DataSame
    <3>1. CASE Build
        BY <3>1, BuildSame
    <3>2. CASE User /\ ~Put
        BY <3>2, UserTyped
    <3>3. CASE Put
        BY <3>3, PutTyped DEF DataSame
    <3>4. CASE CloseManager
        BY <3>4, CloseManagerTyped
    <3>5. CASE CloseOfClients
        BY <3>5, CloseTyped
    <3> QED
        BY <1>1, <3>1, <3>2, <3>3, <3>4, <3>5 DEF Main, Close, CloseOfClients
  <2>4. /\ main'.at = "register" => main.at = "register" \/ Ended(worker)
        /\ main'.at = "close job" => main.at = "close job" \/ (main.at = "register" /\ Ended(register))
      BY <1>1, MainStages
  <2> QED
      BY <2>1, <2>2, <2>3, <2>4 DEF Closing, Ended, DataSame, ServiceSame
<1>2. CASE Local
    BY <1>2, LocalTyped DEF Closing, Ended, ServiceSame
<1>3. CASE RouterStep
    BY <1>3, RouterFields DEF Closing, Ended, ServiceSame
<1>4. CASE LunaStep(RegisterStep)
  <2>1. RegisterStep /\ LunaAlone /\ main' = main
      BY <1>4 DEF LunaStep, LunaAlone
  <2>2. register.at \in {"loop", "ask"}
      BY <2>1 DEF RegisterStep, TakeMetric, RegisterMakesJob, Register, RegisterFails, RegisterEnds
  <2>3. ~server.closed /\ main.at # "close job"
      BY <2>2 DEF Closing, Ended
  <2>4. server'.closed = server.closed /\ worker'.at = worker.at
    <3>1. CASE TakeMetric \/ RegisterEnds
        BY <3>1 DEF TakeMetric, RegisterEnds
    <3>2. CASE RegisterMakesJob
        BY <3>2, RegisterAsked DEF JobAsked, SameWork, Typed
    <3>3. ASSUME NEW o \in Outcomes, Register(o) PROVE server'.closed = server.closed /\ worker'.at = worker.at
        BY <3>3, CreatedTypes DEF Register
    <3>4. ASSUME NEW o \in Outcomes, RegisterFails(o) PROVE server'.closed = server.closed /\ worker'.at = worker.at
      <4>1. register.at = "ask" /\ server' = Created(o)
          BY <3>4 DEF RegisterFails
      <4>2. SameWork(worker, worker')
          BY <2>1, <3>4, RegisterFailsTyped DEF LunaAlone
      <4> QED
          BY <4>1, <4>2, CreatedTypes DEF SameWork
    <3> QED
        BY <2>1, <3>1, <3>2, <3>3, <3>4 DEF RegisterStep
  <2> QED
      BY <2>1, <2>3, <2>4 DEF Closing, Ended
<1>5. CASE LunaStep(WorkerStep)
  <2>1. WorkerStep /\ LunaAlone /\ main' = main
      BY <1>5 DEF LunaStep, LunaAlone
  <2>2. worker.at \in {"loop", "lock", "unlock", "send"}
      BY <2>1 DEF WorkerStep, TakeData, GiveBack, AddMetric, Unlock, WorkerEnds, Send
  <2>3. ~server.closed /\ main.at # "close job" /\ main.at # "register"
      BY <2>2 DEF Closing, Ended
  <2>4. server'.closed = server.closed
    <3>1. CASE TakeData \/ GiveBack \/ AddMetric \/ Unlock \/ WorkerEnds
        BY <3>1 DEF TakeData, GiveBack, AddMetric, Unlock, WorkerEnds
    <3>2. ASSUME NEW o \in Outcomes, Send(o) PROVE server'.closed = server.closed
        BY <2>1, <3>2, SendTyped DEF SentAs, LunaAlone
    <3> QED
        BY <2>1, <3>1, <3>2 DEF WorkerStep
  <2> QED
      BY <2>1, <2>3, <2>4 DEF Closing, Ended
<1> QED
    BY <1>1, <1>2, <1>3, <1>4, <1>5 DEF Next

ApartNow ==
    /\ server.again = {} /\ worker.part = "whole"
    /\ Disjoint(luna.queue) /\ LinesOf(luna.queue) \cap Held = {}
    /\ OneTable(worker.data)
    /\ worker.at # "send" => LinesOf(worker.data) \cap server.stored = {}
    /\ worker.at = "send" => /\ worker.data \in {worker.left, << >>}
                             /\ LinesOf(worker.left) \cap server.stored = {} /\ OneTable(worker.left)

\* Apart, without its condition.
LEMMA ApartIs == (Apart <=> (~server.shaky => ApartNow)) /\ (Apart' <=> (~server'.shaky => ApartNow'))
BY DEF Apart, ApartNow, Disjoint, OneTable

\* Nothing that the client has moves.
QueueSame ==
    /\ luna'.queue = luna.queue
    /\ worker'.data = worker.data /\ worker'.part = worker.part
    /\ worker'.at = "send" <=> worker.at = "send"
    /\ worker.at = "send" => worker'.left = worker.left
    /\ server'.stored = server.stored /\ server'.again = server.again
    /\ server.shaky => server'.shaky

\* Nothing is in two places when no rows are moved.
LEMMA ApartStays ==
    ASSUME Apart, QueueSame
    PROVE  Apart'
<1> SUFFICES ASSUME ~server'.shaky PROVE ApartNow'
    BY ApartIs
<1>1. ApartNow
    BY ApartIs DEF QueueSame
<1>2. /\ LinesOf(luna.queue)' = LinesOf(luna.queue) /\ LinesOf(worker.data)' = LinesOf(worker.data)
      /\ Disjoint(luna.queue)' = Disjoint(luna.queue) /\ OneTable(worker.data)' = OneTable(worker.data)
    BY DEF QueueSame, LinesOf, LinesIn, Disjoint, OneTable
<1>3. CASE worker.at = "send"
  <2>1. worker'.at = "send" /\ worker'.left = worker.left
      BY <1>3 DEF QueueSame
  <2>2. LinesOf(worker.left)' = LinesOf(worker.left) /\ OneTable(worker.left)' = OneTable(worker.left)
      BY <2>1 DEF LinesOf, LinesIn, OneTable
  <2>3. Held' = Held
      BY <1>2, <1>3, <2>1, <2>2 DEF Held, QueueSame
  <2> QED
      BY <1>1, <1>2, <1>3, <2>1, <2>2, <2>3 DEF ApartNow, QueueSame
<1>4. CASE worker.at # "send"
  <2>1. worker'.at # "send"
      BY <1>4 DEF QueueSame
  <2>2. Held' = Held
      BY <1>2, <1>4, <2>1 DEF Held, QueueSame
  <2> QED
      BY <1>1, <1>2, <1>4, <2>1, <2>2 DEF ApartNow, QueueSame
<1> QED
    BY <1>3, <1>4

\* The lines after a step are the lines of what is there after it.
LEMMA LinesNextIs ==
    /\ LinesOf(worker.data)' = LinesOf(worker'.data) /\ LinesOf(worker.left)' = LinesOf(worker'.left)
    /\ LinesOf(luna.queue)' = LinesOf(luna'.queue) /\ Disjoint(luna.queue)' = Disjoint(luna'.queue)
    /\ OneTable(worker.data)' = OneTable(worker'.data) /\ OneTable(worker.left)' = OneTable(worker'.left)
BY DEF LinesOf, LinesIn, Disjoint, OneTable

\* A turn gives lines that are not there yet: their rows are new, or left the
\* buffer now.
LEMMA RouterApart ==
    ASSUME Core, LinesOfMetric, Emitting, Buffers', Apart, NEW ps, NEW new, NEW share, Turned(ps, new, share)
    PROVE  Apart'
<1>1. /\ Shape(new, share) /\ LinesAre(ps, new, share) /\ ps \in Seq(Piece) /\ Disjoint(ps) /\ ~router.done
      /\ UNCHANGED <<opt, worker, server>> /\ luna' = IF Has("luna") THEN [luna EXCEPT !.queue = Given(ps)] ELSE luna
    BY DEF Turned
<1>2. luna'.queue \in {luna.queue, luna.queue \o ps} /\ luna.queue \in Seq(Piece)
    BY <1>1, GivenTyped DEF Core, Typed, TypeOK, LunaType
<1>3. LinesOf(ps) \cap Emitted = {}
  <2> SUFFICES ASSUME NEW l \in LinesOf(ps), l \in Emitted PROVE FALSE
      OBVIOUS
  <2>1. PICK m \in Metrics : \/ opt.metrics[m].raw /\ l \in Tagged("metrics", m, new[m])
                             \/ \E t \in ToSet(Aggregates) : l \in Tagged(t, m, share[m])
      BY <1>1 DEF LinesAre
  <2>2. /\ l.line.metric = m
        /\ l.table = "metrics" => l.line.rows \cap Passed(m) = {}
        /\ l.table # "metrics" => l.line.rows \cap Gone(m) = {}
      BY <1>1, <2>1, LineOfTurn
  <2>3. Given1(l)
      BY DEF Emitting
  <2>4. l.line.rows # {} /\ l.line.rows \subseteq Passed(m) /\ (l.table # "metrics" => l.line.rows \cap router.buffer[m] = {})
      BY <1>1, <2>2, <2>3 DEF Given1
  <2> QED
      BY <2>2, <2>4 DEF Gone
<1>4. Held' = Held
    BY <1>1, RouterEmits
<1> SUFFICES ASSUME ~server'.shaky PROVE ApartNow'
    BY ApartIs
<1>5. ApartNow
    BY <1>1, ApartIs
<1>6. /\ LinesOf(luna.queue \o ps) = LinesOf(luna.queue) \cup LinesOf(ps)
      /\ Disjoint(luna.queue) /\ Disjoint(ps) /\ LinesOf(luna.queue) \cap LinesOf(ps) = {} => Disjoint(luna.queue \o ps)
    BY <1>1, <1>2, LinesOfJoint
<1>7. LinesOf(luna.queue) \subseteq Emitted /\ Held \subseteq Emitted
    BY DEF Emitted
<1>8. Disjoint(luna'.queue) /\ LinesOf(luna'.queue) \cap Held = {}
    BY <1>1, <1>2, <1>3, <1>5, <1>6, <1>7 DEF ApartNow
<1>9. worker' = worker /\ server' = server
    BY <1>1
<1> QED
    BY <1>4, <1>5, <1>8, <1>9, LinesNextIs DEF ApartNow

\* A piece is moved from the queue to the data.
LEMMA TakeDataApart ==
    ASSUME Typed, Apart, TakeData, LunaAlone
    PROVE  Apart'
<1>1. UNCHANGED server /\ worker.at = "loop"
    BY TakeDataTyped DEF LunaAlone
<1>2. PICK item, queue :
         /\ Takes(item, queue) /\ luna'.queue = queue
         /\ worker'.data = Merged(item) /\ (worker'.at = "send" => worker'.left = Merged(item))
         /\ worker'.part \in {worker.part, "whole"}
    BY TakeDataTyped DEF LunaAlone
<1>3. PICK item2, queue2 : Takes(item2, queue2) /\ luna'.queue = queue2 /\ Held' = Held \cup LinesIn(item2)
    BY TakeDataEmits
<1>4. item2 = item /\ queue2 = queue
    BY <1>2, <1>3 DEF Takes
<1> SUFFICES ASSUME ~server'.shaky PROVE ApartNow'
    BY ApartIs
<1>5. ApartNow
    BY <1>1, ApartIs
<1>6. /\ item \in Piece /\ LinesOf(luna.queue) = LinesIn(item) \cup LinesOf(queue)
      /\ Disjoint(luna.queue) => Disjoint(queue) /\ LinesIn(item) \cap LinesOf(queue) = {}
    BY <1>2 DEF Takes
<1>7. /\ LinesOf(Merged(item)) = LinesOf(worker.data) \cup LinesIn(item)
      /\ OneTable(worker.data) => OneTable(Merged(item))
    BY <1>6, MergedGives
<1>8. PICK data : data = Merged(item)
    OBVIOUS
<1>9. Disjoint(queue) /\ LinesOf(queue) \cap Held' = {}
    BY <1>3, <1>4, <1>5, <1>6 DEF ApartNow
<1>10. OneTable(data) /\ LinesOf(data) \cap server.stored = {}
  <2>1. server.stored \subseteq Held
      BY DEF Held
  <2>2. LinesIn(item) \cap Held = {}
      BY <1>5, <1>6 DEF ApartNow
  <2> QED
      BY <1>1, <1>5, <1>7, <1>8, <2>1, <2>2 DEF ApartNow
<1>11. worker'.data = data /\ (worker'.at = "send" => worker'.left = data)
    BY <1>2, <1>8
<1>12. worker'.part = "whole" /\ server'.again = {} /\ server'.stored = server.stored
    BY <1>1, <1>2, <1>5 DEF ApartNow
<1> QED
    BY <1>2, <1>9, <1>10, <1>11, <1>12, LinesNextIs DEF ApartNow

\* A piece is moved to the end of the queue.
LEMMA GiveBackApart ==
    ASSUME Typed, Apart, GiveBack, LunaAlone
    PROVE  Apart'
<1>1. /\ UNCHANGED server /\ worker.at = "loop" /\ worker'.at = "lock" /\ worker'.data = worker.data /\ worker'.part = worker.part
    BY GiveBackTyped DEF LunaAlone
<1>2. PICK item, queue : Takes(item, queue) /\ luna'.queue \in {queue, Append(queue, item)}
    BY GiveBackTyped DEF LunaAlone
<1> SUFFICES ASSUME ~server'.shaky PROVE ApartNow'
    BY ApartIs
<1>3. ApartNow
    BY <1>1, ApartIs
<1>4. /\ item \in Piece /\ queue \in Seq(Piece) /\ LinesOf(luna.queue) = LinesIn(item) \cup LinesOf(queue)
      /\ Disjoint(luna.queue) => Disjoint(queue) /\ LinesIn(item) \cap LinesOf(queue) = {}
    BY <1>2 DEF Takes
<1>5. /\ LinesOf(Append(queue, item)) = LinesOf(queue) \cup LinesIn(item)
      /\ Disjoint(queue) /\ LinesOf(queue) \cap LinesIn(item) = {} => Disjoint(Append(queue, item))
    BY <1>4, LinesOfAppended
<1>6. Disjoint(luna'.queue) /\ LinesOf(luna'.queue) \cap Held = {}
    BY <1>2, <1>3, <1>4, <1>5 DEF ApartNow
<1>7. Held' = Held
    BY GiveBackEmits
<1>8. OneTable(worker.data) /\ LinesOf(worker.data) \cap server.stored = {} /\ server.again = {} /\ worker.part = "whole"
    BY <1>1, <1>3 DEF ApartNow
<1> QED
    BY <1>1, <1>6, <1>7, <1>8, LinesNextIs DEF ApartNow

\* The data are moved to what is sent.
LEMMA WorkerEndsApart ==
    ASSUME Typed, Apart, WorkerEnds, LunaAlone
    PROVE  Apart'
<1>1. /\ UNCHANGED server /\ worker.at = "loop" /\ luna'.queue = << >> /\ worker'.data = worker.data
      /\ worker'.part \in {worker.part, "whole"}
      /\ \/ worker.data = << >> /\ worker'.at = "finished"
         \/ worker.data # << >> /\ worker'.at = "send" /\ worker'.left = worker.data
    BY WorkerEndsTyped DEF LunaAlone
<1> SUFFICES ASSUME ~server'.shaky PROVE ApartNow'
    BY ApartIs
<1>2. ApartNow
    BY <1>1, ApartIs
<1>3. LinesOf(luna'.queue) = {} /\ Disjoint(luna'.queue)
    BY <1>1, NoLines
<1>4. /\ OneTable(worker.data) /\ LinesOf(worker.data) \cap server.stored = {} /\ server'.again = {}
      /\ worker'.part = "whole" /\ server'.stored = server.stored
    BY <1>1, <1>2 DEF ApartNow
<1> QED
    BY <1>1, <1>3, <1>4, LinesNextIs DEF ApartNow

\* The lines of one table are not those of another.
LEMMA TablesApart ==
    ASSUME NEW left \in Seq(Table), left # << >>, OneTable(left)
    PROVE  OneTable(Tail(left)) /\ LinesIn(left[1]) \cap LinesOf(Tail(left)) = {}
<1>1. PICK rest : rest = Tail(left)
    OBVIOUS
<1>2. /\ rest \in Seq(Table) /\ Len(rest) = Len(left) - 1 /\ Len(left) \in Nat /\ Len(left) > 0
      /\ DOMAIN left = 1..Len(left) /\ DOMAIN rest = 1..Len(left) - 1
      /\ \A i \in 1..Len(left) - 1 : rest[i] = left[i + 1]
    BY <1>1, LinesOfTail, LenProperties
<1>3. \A i \in DOMAIN rest : i + 1 \in DOMAIN left /\ rest[i] = left[i + 1] /\ i + 1 # 1 /\ i \in Nat
    BY <1>2
<1>4. OneTable(rest)
  <2> SUFFICES ASSUME NEW i \in DOMAIN rest, NEW j \in DOMAIN rest, rest[i].table = rest[j].table PROVE i = j
      BY DEF OneTable
  <2>1. PICK g, h : g = i + 1 /\ h = j + 1
      OBVIOUS
  <2>2. g \in DOMAIN left /\ h \in DOMAIN left /\ left[g].table = left[h].table
      BY <1>3, <2>1
  <2>3. g = h
      BY <2>2 DEF OneTable
  <2> QED
      BY <1>3, <2>1, <2>3
<1>5. ASSUME NEW l \in LinesIn(left[1]), NEW i \in DOMAIN rest, l \in LinesIn(rest[i]) PROVE FALSE
  <2>1. l.table = left[1].table /\ l.table = rest[i].table
      BY <1>5 DEF LinesIn
  <2>2. PICK g : g = i + 1 /\ g \in DOMAIN left /\ rest[i] = left[g] /\ g # 1
      BY <1>3
  <2>3. 1 \in DOMAIN left
      BY <1>2
  <2> QED
      BY <2>1, <2>2, <2>3 DEF OneTable
<1> QED
    BY <1>1, <1>4, <1>5 DEF LinesOf

\* A table is moved from what is sent to the service.
LEMMA SendApart ==
    ASSUME Typed, Apart, NEW o, SentAs(o)
    PROVE  Apart'
<1> SUFFICES ASSUME ~server'.shaky PROVE ApartNow'
    BY ApartIs
<1>1. /\ worker.at = "send" /\ luna'.queue = luna.queue /\ ~server.shaky
      /\ server'.stored \in {server.stored, server.stored \cup SentLines}
      /\ server'.again \in {server.again, server.again \cup (SentLines \cap server.stored)}
      /\ worker.part = "whole" =>
            /\ worker'.data = << >> /\ worker'.part = "whole"
            /\ worker'.at = "send" => worker'.left = Tail(worker.left)
    BY DEF SentAs
<1>2. ApartNow
    BY <1>1, ApartIs
<1>3. worker.part = "whole" /\ worker.left \in Seq(Table) /\ worker.left # << >>
    BY <1>1, <1>2 DEF ApartNow, Typed, Working
<1>4. /\ SentLines = LinesIn(worker.left[1])
      /\ LinesOf(worker.left) = LinesIn(worker.left[1]) \cup LinesOf(Tail(worker.left))
    BY <1>1, <1>3, PartLines
<1>5. OneTable(Tail(worker.left)) /\ LinesIn(worker.left[1]) \cap LinesOf(Tail(worker.left)) = {}
    BY <1>1, <1>2, <1>3, TablesApart DEF ApartNow
<1>6. PICK rest : rest = Tail(worker.left)
    OBVIOUS
<1>7. LinesOf(rest) \cap server'.stored = {} /\ server'.again = {}
    BY <1>1, <1>2, <1>4, <1>5, <1>6 DEF ApartNow
<1>8. LinesOf(<< >>) = {} /\ OneTable(<< >>)
    BY NoLines DEF OneTable
<1>9. Held' \subseteq Held
    BY SendEmits
<1>10. Disjoint(luna'.queue) /\ LinesOf(luna'.queue) \cap Held' = {}
    BY <1>1, <1>2, <1>9 DEF ApartNow
<1>11. worker'.data = << >> /\ worker'.part = "whole" /\ (worker'.at = "send" => worker'.left = rest) /\ OneTable(rest)
    BY <1>1, <1>3, <1>5, <1>6
<1> QED
    BY <1>7, <1>8, <1>10, <1>11, LinesNextIs DEF ApartNow

\* Every step leaves nothing in two places.
LEMMA ApartNext ==
    ASSUME Lines0, Apart, Next
    PROVE  Apart'
<1>1. Core /\ Typed /\ LinesOfMetric /\ Registered /\ Emitting
    BY DEF Lines0, Core
<1>2. ASSUME DataSame PROVE Apart'
    BY <1>2, ApartStays DEF DataSame, QueueSame
<1>3. CASE Main
    BY <1>1, <1>2, <1>3, MainStill
<1>4. CASE Local
    BY <1>1, <1>2, <1>4, LocalStill
<1>5. CASE RouterStep
    BY <1>1, <1>5, RouterTurn, RouterApart
<1>6. CASE LunaStep(RegisterStep)
  <2>1. RegisterStep /\ LunaAlone
      BY <1>6 DEF LunaStep, LunaAlone
  <2>2. CASE TakeMetric \/ RegisterMakesJob \/ RegisterEnds
      BY <1>1, <1>2, <2>1, <2>2, RegisterAside DEF LunaAlone
  <2>3. ASSUME NEW o \in Outcomes, Register(o) \/ RegisterFails(o) PROVE Apart'
    <3>1. luna'.queue = luna.queue /\ SameWork(worker, worker') /\ server' = Created(o) /\ register.at = "ask"
        BY <1>1, <2>1, <2>3, RegisterTyped, RegisterFailsTyped DEF LunaAlone, SameWork, Register, RegisterFails
    <3>2. server'.stored = server.stored /\ server'.again = server.again /\ (server.shaky => server'.shaky)
        BY <1>1, <3>1, CreatedTypes
    <3> QED
        BY <3>1, <3>2, ApartStays DEF QueueSame, SameWork
  <2> QED
      BY <2>1, <2>2, <2>3 DEF RegisterStep
<1>7. CASE LunaStep(WorkerStep)
  <2>1. WorkerStep /\ LunaAlone
      BY <1>7 DEF LunaStep, LunaAlone
  <2>2. CASE TakeData
      BY <1>1, <2>1, <2>2, TakeDataApart
  <2>3. CASE GiveBack
      BY <1>1, <2>1, <2>3, GiveBackApart
  <2>4. CASE WorkerEnds
      BY <1>1, <2>1, <2>4, WorkerEndsApart
  <2>5. CASE AddMetric
      BY <1>1, <1>2, <2>1, <2>5, AddMetricTyped DEF LunaAlone
  <2>6. CASE Unlock
      BY <1>1, <1>2, <2>1, <2>6, UnlockTyped DEF LunaAlone
  <2>7. ASSUME NEW o \in Outcomes, Send(o) PROVE Apart'
      BY <1>1, <2>1, <2>7, SendTyped, SendApart DEF LunaAlone
  <2> QED
      BY <2>1, <2>2, <2>3, <2>4, <2>5, <2>6, <2>7 DEF WorkerStep
<1> QED
    BY <1>3, <1>4, <1>5, <1>6, <1>7 DEF Next

-----------------------------------------------------------------------------
(***************************************************************************)
(* A run without a failure                                                 *)
(***************************************************************************)

\* The faults only get fewer; what is quiet after a step was so before it.
LEMMA FaultsFewer ==
    ASSUME Typed, Next
    PROVE  server'.faults <= server.faults
<1>1. server.faults \in Nat /\ server.faults <= server.faults
    BY DEF Typed, TypeOK, ServerType
<1>2. ASSUME NEW o \in Outcomes, NEW s \in ServerType, s.faults = server.faults, server' = Used(o, s)
      PROVE  server'.faults <= server.faults
    BY <1>2, ServerAsked DEF Took, Typed, TypeOK
<1>3. CASE Build
  <2>1. server' = server \/ server' = [server EXCEPT !.faults = @ - 1]
      BY <1>3 DEF Build, BuildLuna, BuildLocal, BuildVolta, Built, Untouched, threads
  <2>2. CASE server' = server
      BY <1>1, <2>2
  <2>3. CASE server' = [server EXCEPT !.faults = @ - 1]
    <3>1. server'.faults = server.faults - 1
        BY <2>3 DEF Typed, TypeOK, ServerType
    <3> QED
        BY <1>1, <3>1
  <2> QED
      BY <2>1, <2>2, <2>3
<1>4. CASE NewTrueMetric \/ Put \/ UpdateJob \/ CloseManager \/ RouterJoined \/ RegisterJoined \/ StopLocal \/ LocalJoined
           \/ CloseVolta \/ Closed \/ StopWorker \/ CloseHasJob \/ WorkerJoined \/ Local \/ RouterStep
  <2>1. server' = server
      BY <1>4, LocalTyped, RouterFields DEF NewTrueMetric, Put, UpdateJob, CloseManager, RouterJoined, RegisterJoined, StopLocal, LocalJoined,
           CloseVolta, Closed, StopWorker, CloseHasJob, WorkerJoined, Untouched, LunaUnlessWorker, threads
  <2> QED
      BY <1>1, <2>1
<1>5. CASE UpdateAsksForJob \/ CloseAsksForJob
    BY <1>5, MainAsked DEF UpdateAsksForJob, CloseAsksForJob, JobAsked, Typed
<1>6. CASE UpdateMetric
  <2>1. server' = server \/ \E o \in Outcomes : server' = Used(o, server)
      BY <1>6 DEF UpdateMetric
  <2> QED
      BY <1>1, <1>2, <2>1 DEF Typed, TypeOK
<1>7. CASE CloseJob
  <2>1. ASSUME NEW o \in Outcomes, server' = Used(o, [server EXCEPT !.closed = @ \/ o.times > 0])
        PROVE  server'.faults <= server.faults
    <3>1. PICK b : b = (server.closed \/ o.times > 0)
        OBVIOUS
    <3>2. PICK s : s = [server EXCEPT !.closed = b]
        OBVIOUS
    <3>3. b \in BOOLEAN
        BY <3>1
    <3>4. s \in ServerType /\ s.faults = server.faults
        BY <3>2, <3>3 DEF Typed, TypeOK, ServerType
    <3>5. server' = Used(o, s)
        BY <2>1, <3>1, <3>2, Zenon
    <3> QED
        BY <1>2, <3>4, <3>5
  <2> QED
      BY <1>1, <1>7, <2>1 DEF CloseJob
<1>8. CASE LunaStep(RegisterStep)
  <2>1. RegisterStep /\ LunaAlone
      BY <1>8 DEF LunaStep, LunaAlone
  <2>2. CASE TakeMetric \/ RegisterEnds
      BY <1>1, <2>2 DEF TakeMetric, RegisterEnds
  <2>3. CASE RegisterMakesJob
      BY <2>3, RegisterAsked DEF JobAsked, Typed
  <2>4. ASSUME NEW o \in Outcomes, Register(o) \/ RegisterFails(o) PROVE server'.faults <= server.faults
    <3>1. server' = Created(o) /\ register.at = "ask"
        BY <2>4 DEF Register, RegisterFails
    <3> QED
        BY <3>1, CreatedTypes
  <2> QED
      BY <2>1, <2>2, <2>3, <2>4 DEF RegisterStep
<1>9. CASE LunaStep(WorkerStep)
  <2>1. WorkerStep /\ LunaAlone
      BY <1>9 DEF LunaStep, LunaAlone
  <2>2. CASE TakeData \/ GiveBack \/ AddMetric \/ Unlock \/ WorkerEnds
      BY <1>1, <2>2 DEF TakeData, GiveBack, AddMetric, Unlock, WorkerEnds
  <2>3. ASSUME NEW o \in Outcomes, Send(o) PROVE server'.faults <= server.faults
      BY <2>1, <2>3, SendTyped DEF SentAs, LunaAlone
  <2> QED
      BY <2>1, <2>2, <2>3 DEF WorkerStep
<1> QED
    BY <1>3, <1>4, <1>5, <1>6, <1>7, <1>8, <1>9 DEF Next, Main, User, Close

Calm == server'.faults = server.faults

\* What a step may change without touching the health of the threads.
LEMMA HealthyStays ==
    ASSUME Healthy, luna'.failed = luna.failed, luna'.put = luna.put, luna'.job = luna.job \/ luna'.job = "made",
           luna'.queue = luna.queue, register'.interrupted = register.interrupted, server'.shaky = server.shaky,
           SameWork(worker, worker'), worker'.interrupted = worker.interrupted, router.done => router'.done,
           worker'.stopped = worker.stopped \/ (worker'.stopped /\ router.done), lock' = lock
    PROVE  Healthy'
<1>1. worker'.at = worker.at /\ worker'.data = worker.data /\ worker'.final = worker.final
    BY DEF SameWork
<1>2. ~luna'.failed /\ luna'.put /\ luna'.job # "none"
    BY DEF Healthy
<1>3. ~register'.interrupted /\ ~worker'.interrupted /\ ~server'.shaky
    BY DEF Healthy
<1>4. worker'.at # "dead" /\ (worker'.at = "unlock" => lock')
    BY <1>1 DEF Healthy
<1>5. worker'.stopped => router'.done
    BY DEF Healthy
<1>6. worker'.at = "finished" => luna'.queue = << >> /\ worker'.data = << >>
    BY <1>1 DEF Healthy
<1>7. worker'.at = "finished" \/ (worker'.at = "send" /\ worker'.final) => luna'.queue = << >> /\ worker'.stopped
    BY <1>1 DEF Healthy
<1> QED
    BY <1>2, <1>3, <1>4, <1>5, <1>6, <1>7 DEF Healthy

\* Main and the answers that it gets.
LEMMA AsksHealthy ==
    ASSUME Typed, Healthy, Calm, JobAsked, register'.interrupted = register.interrupted, router' = router
    PROVE  Healthy'
<1>1. server'.faults = server.faults /\ ~luna.failed
    BY DEF Calm, Healthy
<1>2. /\ luna'.job = "made" /\ luna'.failed = luna.failed /\ luna'.put = luna.put
      /\ worker' = worker /\ server'.shaky = server.shaky /\ luna'.queue = luna.queue /\ lock' = lock
    BY <1>1 DEF JobAsked
<1> QED
    BY <1>2, HealthyStays DEF SameWork

\* The constructor and the threads.
LEMMA BuildHealthy ==
    ASSUME Typed, Healthy, Calm, Build
    PROVE  Healthy'
<1>1. UNCHANGED <<router, luna, register, lock, worker>>
    BY BuildTyped
<1>2. server' = server \/ server' = [server EXCEPT !.faults = @ - 1]
    BY DEF Build, BuildLuna, BuildLocal, BuildVolta, Built, Untouched, threads
<1>3. server'.shaky = server.shaky
    BY <1>2 DEF Typed, TypeOK, ServerType
<1> QED
    BY <1>1, <1>3, HealthyStays DEF SameWork

\* The user and the threads.
LEMMA UserHealthy ==
    ASSUME Typed, Healthy, Calm, User
    PROVE  Healthy'
<1>1. CASE NewTrueMetric \/ UpdateJob
  <2>1. UNCHANGED <<router, luna, register, lock, worker, server>>
      BY <1>1 DEF NewTrueMetric, NewMetric, UpdateJob, Untouched, threads
  <2> QED
      BY <2>1, HealthyStays DEF SameWork
<1>2. CASE Put
  <2>1. UNCHANGED <<router, luna, register, lock, worker, server>>
      BY <1>2, PutTyped
  <2> QED
      BY <2>1, HealthyStays DEF SameWork
<1>3. CASE UpdateAsksForJob
  <2>1. MainMakesJob(Next1)
      BY <1>3 DEF UpdateAsksForJob
  <2>2. JobAsked /\ register' = register /\ router' = router
      BY <2>1, MainAsked DEF Calm, Healthy, Typed
  <2> QED
      BY <2>2, AsksHealthy
<1>4. CASE UpdateMetric
  <2>1. UNCHANGED <<router, luna, register, lock, worker>>
      BY <1>4 DEF UpdateMetric
  <2>2. server' = server \/ \E o \in Outcomes : server' = Used(o, server)
      BY <1>4 DEF UpdateMetric
  <2>3. server'.shaky = server.shaky
    <3>1. ASSUME NEW o \in Outcomes, server' = Used(o, server) PROVE server'.shaky = server.shaky
        BY <3>1, ServerAsked DEF Took, Typed, TypeOK, Calm
    <3> QED
        BY <2>2, <3>1
  <2> QED
      BY <2>1, <2>3, HealthyStays DEF SameWork
<1> QED
    BY <1>1, <1>2, <1>3, <1>4 DEF User

\* Only a worker whose router has ended is told to stop.
LEMMA CloseHealthy ==
    ASSUME Typed, Healthy, Joined, Calm, Close
    PROVE  Healthy'
<1>1. CASE CloseManager
  <2>1. UNCHANGED <<luna, register, lock, worker, server>> /\ router' = [router EXCEPT !.stopped = TRUE, !.interrupted = opt.interrupt]
      BY <1>1, CloseManagerTyped
  <2>2. router'.done = router.done
      BY <2>1 DEF Typed, TypeOK, RouterType
  <2> QED
      BY <2>1, <2>2, HealthyStays DEF SameWork
<1>2. CASE RouterJoined \/ RegisterJoined \/ StopLocal \/ LocalJoined \/ CloseVolta \/ Closed
  <2>1. UNCHANGED <<router, luna, register, lock, worker, server>>
      BY <1>2 DEF RouterJoined, RegisterJoined, StopLocal, LocalJoined, CloseVolta, Closed, Untouched, threads
  <2> QED
      BY <2>1, HealthyStays DEF SameWork
<1>3. CASE StopWorker
  <2>1. UNCHANGED <<router, luna, register, lock, server>> /\ worker' = Stopped(worker) /\ main.at = "close"
      BY <1>3 DEF StopWorker, LunaUnlessWorker, Client
  <2>2. router.done
      BY <2>1 DEF Joined, InClose
  <2>3. SameWork(worker, worker') /\ worker'.stopped /\ worker'.interrupted = worker.interrupted
      BY <2>1, WorkerFields DEF SameWork, Typed, TypeOK
  <2> QED
      BY <2>1, <2>2, <2>3, HealthyStays
<1>4. CASE CloseAsksForJob
  <2>1. MainMakesJob(NextClient)
      BY <1>4 DEF CloseAsksForJob
  <2>2. JobAsked /\ register' = register /\ router' = router
      BY <2>1, MainAsked DEF Calm, Healthy, Typed
  <2> QED
      BY <2>2, AsksHealthy
<1>5. CASE CloseHasJob
  <2>1. UNCHANGED <<router, luna, register, lock, server>> /\ worker' = worker
      BY <1>5 DEF CloseHasJob, LunaUnlessWorker, Healthy
  <2> QED
      BY <2>1, HealthyStays DEF SameWork
<1>6. CASE WorkerJoined
  <2>1. UNCHANGED <<router, luna, worker, lock, server>> /\ register' = Stopped(register)
      BY <1>6 DEF WorkerJoined
  <2>2. register'.interrupted = register.interrupted
      BY <2>1, RegisterFields DEF Typed, TypeOK
  <2> QED
      BY <2>1, <2>2, HealthyStays DEF SameWork
<1>7. CASE CloseJob
  <2>1. UNCHANGED <<router, luna, register, worker, lock>>
      BY <1>7 DEF CloseJob
  <2>2. PICK o \in Outcomes : server' = Used(o, [server EXCEPT !.closed = @ \/ o.times > 0])
      BY <1>7 DEF CloseJob, Healthy
  <2>3. PICK s : server' = Used(o, s) /\ s = [server EXCEPT !.closed = @ \/ o.times > 0]
      BY <2>2
  <2>4. s \in ServerType /\ s.faults = server.faults /\ s.shaky = server.shaky
      BY <2>3 DEF Typed, TypeOK, ServerType
  <2>5. Took(o, s, server')
      BY <2>3, <2>4, ServerAsked DEF Typed, TypeOK
  <2>6. server'.shaky = server.shaky
      BY <2>4, <2>5 DEF Took, Calm
  <2> QED
      BY <2>1, <2>6, HealthyStays DEF SameWork
<1> QED
    BY <1>1, <1>2, <1>3, <1>4, <1>5, <1>6, <1>7 DEF Close

\* The router is not at its end, so the uploading thread has not been told to
\* stop.
LEMMA RouterHealthy ==
    ASSUME Typed, Healthy, NEW ps, NEW new, NEW share, Turned(ps, new, share)
    PROVE  Healthy'
<1>1. ~router.done /\ UNCHANGED <<register, lock, worker, server>>
    BY DEF Turned
<1>2. ~worker.stopped
    BY <1>1 DEF Healthy
<1>3. worker.at # "finished" /\ ~(worker.at = "send" /\ worker.final)
    BY <1>2 DEF Healthy
<1>4. luna'.failed = luna.failed /\ luna'.put = luna.put /\ luna'.job = luna.job
    BY GivenTyped DEF Turned
<1> QED
    BY <1>1, <1>2, <1>3, <1>4 DEF Healthy

\* The registering thread.
LEMMA RegisterHealthy ==
    ASSUME Typed, Healthy, Calm, RegisterStep, LunaAlone
    PROVE  Healthy'
<1>1. router' = router
    BY DEF LunaAlone
<1>2. CASE TakeMetric
  <2>1. UNCHANGED <<luna, lock, worker, server>> /\ register'.interrupted = register.interrupted
      BY <1>2, TakeMetricTyped
  <2> QED
      BY <1>1, <2>1, HealthyStays DEF SameWork
<1>3. CASE RegisterMakesJob
  <2>1. JobAsked /\ register' = register
      BY <1>3, RegisterAsked DEF Calm, Healthy, Typed
  <2> QED
      BY <1>1, <2>1, AsksHealthy
<1>4. ASSUME NEW o \in Outcomes, Register(o) PROVE Healthy'
  <2>1. /\ luna' = [luna EXCEPT !.ids = luna.ids \cup {register.metric}]
        /\ register'.interrupted = register.interrupted /\ worker' = worker /\ lock' = lock
        /\ server' = Created(o) /\ register.at = "ask"
      BY <1>4, RegisterTyped DEF LunaAlone, Register
  <2>2. luna'.failed = luna.failed /\ luna'.put = luna.put /\ luna'.job = luna.job /\ luna'.queue = luna.queue
      BY <2>1 DEF Typed, TypeOK, LunaType
  <2>3. server'.shaky = server.shaky
      BY <2>1, CreatedTypes DEF Calm
  <2> QED
      BY <1>1, <2>1, <2>2, <2>3, HealthyStays DEF SameWork
<1>5. ASSUME NEW o \in Outcomes, RegisterFails(o) PROVE FALSE
    BY <1>5, RegisterFailsTyped DEF LunaAlone, Calm
<1>6. CASE RegisterEnds
  <2>1. UNCHANGED <<luna, lock, worker, server>> /\ register' = [register EXCEPT !.at = "finished", !.todo = << >>]
      BY <1>6 DEF RegisterEnds
  <2>2. register'.interrupted = register.interrupted
      BY <2>1 DEF Typed, TypeOK, RegisterType
  <2> QED
      BY <1>1, <2>1, <2>2, HealthyStays DEF SameWork
<1> QED
    BY <1>2, <1>3, <1>4, <1>5, <1>6 DEF RegisterStep

\* The uploading thread ends with an empty queue and has uploaded its data.
LEMMA WorkerHealthy ==
    ASSUME Typed, Healthy, Apart, Calm, WorkerStep, LunaAlone
    PROVE  Healthy'
<1>1. router' = router
    BY DEF LunaAlone
<1>2. ASSUME luna' = [luna EXCEPT !.queue = luna'.queue]
      PROVE  luna'.failed = luna.failed /\ luna'.put = luna.put /\ luna'.job = luna.job
    BY <1>2 DEF Typed, TypeOK, LunaType
<1>3. CASE TakeData
  <2>1. /\ UNCHANGED <<register, lock, server>> /\ luna' = [luna EXCEPT !.queue = luna'.queue]
        /\ worker'.at \in {"loop", "send"} /\ (worker'.at = "send" => ~worker'.final)
        /\ worker'.stopped = worker.stopped /\ worker'.interrupted = worker.interrupted
      BY <1>3, TakeDataTyped DEF LunaAlone
  <2>2. luna'.failed = luna.failed /\ luna'.put = luna.put /\ luna'.job = luna.job
      BY <1>2, <2>1
  <2>3. worker'.at \notin {"finished", "dead", "unlock"} /\ ~(worker'.at = "send" /\ worker'.final)
      BY <2>1
  <2> QED
      BY <1>1, <2>1, <2>2, <2>3 DEF Healthy
<1>4. CASE GiveBack
  <2>1. /\ UNCHANGED <<register, lock, server>> /\ luna' = [luna EXCEPT !.queue = luna'.queue]
        /\ worker'.at = "lock"
        /\ worker'.stopped = worker.stopped /\ worker'.interrupted = worker.interrupted
      BY <1>4, GiveBackTyped DEF LunaAlone
  <2>2. luna'.failed = luna.failed /\ luna'.put = luna.put /\ luna'.job = luna.job
      BY <1>2, <2>1
  <2> QED
      BY <1>1, <2>1, <2>2 DEF Healthy
<1>5. CASE AddMetric
  <2>1. /\ UNCHANGED <<luna, server>> /\ register'.interrupted = register.interrupted
        /\ worker'.at = "unlock" /\ lock'
        /\ worker'.stopped = worker.stopped /\ worker'.interrupted = worker.interrupted
      BY <1>5, AddMetricTyped DEF LunaAlone
  <2> QED
      BY <1>1, <2>1 DEF Healthy
<1>6. CASE Unlock
  <2>1. /\ UNCHANGED <<luna, server, register>> /\ worker.at = "unlock"
        /\ (lock => worker'.at = "loop")
        /\ worker'.stopped = worker.stopped /\ worker'.interrupted = worker.interrupted
      BY <1>6, UnlockTyped DEF LunaAlone
  <2>2. worker'.at = "loop"
      BY <2>1 DEF Healthy
  <2> QED
      BY <1>1, <2>1, <2>2 DEF Healthy
<1>7. CASE WorkerEnds
  <2>1. /\ UNCHANGED <<register, lock, server>> /\ luna' = [luna EXCEPT !.queue = << >>] /\ luna'.queue = << >>
        /\ worker.stopped /\ worker'.data = worker.data
        /\ worker'.stopped = worker.stopped /\ worker'.interrupted = worker.interrupted
        /\ \/ worker.data = << >> /\ worker'.at = "finished"
           \/ worker'.at = "send"
      BY <1>7, WorkerEndsTyped DEF LunaAlone
  <2>2. luna' = [luna EXCEPT !.queue = luna'.queue]
      BY <2>1
  <2>3. luna'.failed = luna.failed /\ luna'.put = luna.put /\ luna'.job = luna.job
      BY <1>2, <2>2
  <2> QED
      BY <1>1, <2>1, <2>3 DEF Healthy
<1>8. ASSUME NEW o \in Outcomes, Send(o) PROVE Healthy'
  <2>1. SentAs(o)
      BY <1>8, SendTyped DEF LunaAlone
  <2>2. /\ luna' = luna /\ register' = register /\ worker'.stopped = worker.stopped /\ worker'.interrupted = worker.interrupted
        /\ server'.shaky = server.shaky
      BY <2>1 DEF SentAs, Calm
  <2>3. worker.part = "whole" /\ ~server'.shaky
      BY <2>2 DEF Healthy, Apart
  <2>4. /\ worker.at = "send" /\ worker'.at \in {"send", "loop", "finished"} /\ (worker'.at = "finished" => worker.final)
        /\ worker'.final = worker.final /\ worker'.data = << >>
      BY <2>1, <2>3 DEF SentAs
  <2> QED
      BY <1>1, <2>2, <2>4 DEF Healthy
<1> QED
    BY <1>3, <1>4, <1>5, <1>6, <1>7, <1>8 DEF WorkerStep

\* No step without a failure harms the threads.
LEMMA HealthyNext ==
    ASSUME Core, Apart, Healthy, Joined, Calm, Next
    PROVE  Healthy'
<1>1. Typed
    BY DEF Core
<1>2. CASE Main
    BY <1>1, <1>2, BuildHealthy, UserHealthy, CloseHealthy DEF Main
<1>3. CASE RouterStep
    BY <1>1, <1>3, RouterTurn, RouterHealthy
<1>4. CASE Local
  <2>1. UNCHANGED <<router, luna, register, lock, worker, server>>
      BY <1>1, <1>4, LocalTyped
  <2> QED
      BY <2>1, HealthyStays DEF SameWork
<1>5. CASE LunaStep(RegisterStep)
    BY <1>1, <1>5, RegisterHealthy DEF LunaStep, LunaAlone
<1>6. CASE LunaStep(WorkerStep)
    BY <1>1, <1>6, WorkerHealthy DEF LunaStep, LunaAlone
<1> QED
    BY <1>2, <1>3, <1>4, <1>5, <1>6 DEF Next

\* A thread that has ended stays so.
LEMMA EndedStays ==
    ASSUME Core, Next, Ended(worker)
    PROVE  Ended(worker')
<1>1. Typed /\ worker.at \in {"finished", "dead"}
    BY DEF Core, Ended
<1>2. CASE Main
    BY <1>1, <1>2, MainThreads, ToldWorker DEF SameWork, Ended
<1>3. CASE RouterStep \/ Local
    BY <1>1, <1>3, RouterFields, LocalTyped DEF Ended
<1>4. CASE LunaStep(RegisterStep)
  <2>1. RegisterStep /\ LunaAlone
      BY <1>4 DEF LunaStep, LunaAlone
  <2>2. worker'.at = worker.at
    <3>1. CASE TakeMetric \/ RegisterEnds
        BY <3>1 DEF TakeMetric, RegisterEnds
    <3>2. CASE RegisterMakesJob
        BY <1>1, <3>2, RegisterAsked DEF JobAsked, SameWork, Typed
    <3>3. ASSUME NEW o \in Outcomes, Register(o) \/ RegisterFails(o) PROVE worker'.at = worker.at
        BY <1>1, <2>1, <3>3, RegisterTyped, RegisterFailsTyped DEF LunaAlone, SameWork
    <3> QED
        BY <2>1, <3>1, <3>2, <3>3 DEF RegisterStep
  <2> QED
      BY <2>2 DEF Ended
<1>5. CASE LunaStep(WorkerStep)
    BY <1>1, <1>5 DEF LunaStep, WorkerStep, TakeData, GiveBack, AddMetric, Unlock, WorkerEnds, Send
<1> QED
    BY <1>2, <1>3, <1>4, <1>5 DEF Next

Before(i) == \A j \in 1..(i - 1) : (j \in DOMAIN opt.clients /\ opt.clients[j] = "luna") => Ended(worker)

Kept3 == opt' = opt /\ (router.done => router'.done) /\ (Ended(worker) => Ended(worker'))

\* Joined, client by client.
LEMMA JoinedIs ==
    /\ Joined <=> /\ main.at \in InClose => router.done /\ ~opt.interrupt
                  /\ main.at \in InClose \ {"closed"} => Before(main.i)
                  /\ main.at = "closed" /\ Has("luna") => Ended(worker)
    /\ Joined' <=> /\ main'.at \in InClose => router'.done /\ ~opt'.interrupt
                   /\ main'.at \in InClose \ {"closed"} => Before(main.i)'
                   /\ main'.at = "closed" /\ Has("luna")' => Ended(worker')
BY DEF Joined, Before, InClose, Ended

\* What main has waited for stays ended.
LEMMA JoinedStays ==
    ASSUME Joined, Kept3, main' = main
    PROVE  Joined'
<1>1. Has("luna")' = Has("luna") /\ opt'.interrupt = opt.interrupt
    BY DEF Kept3, Has
<1>2. Before(main.i) => Before(main.i)'
    BY DEF Kept3, Before, Ended
<1> QED
    BY <1>1, <1>2, JoinedIs DEF Kept3

\* The next client: the one before it is not Luna, or its worker has ended.
LEMMA NextBefore ==
    ASSUME Kept3, main \in Place, main'.i = main.i + 1, Before(main.i),
           (main.i \in DOMAIN opt.clients /\ opt.clients[main.i] = "luna") => Ended(worker)
    PROVE  Before(main.i)'
<1>1. main.i \in Nat /\ main.i >= 1
    BY DEF Place
<1>2. \A j \in 1..(main.i + 1) - 1 : j \in 1..main.i - 1 \/ j = main.i
    BY <1>1
<1>3. \A j \in 1..(main.i + 1) - 1 : (j \in DOMAIN opt.clients /\ opt.clients[j] = "luna") => Ended(worker)
    BY <1>2 DEF Before
<1> QED
    BY <1>3 DEF Kept3, Before, Ended

\* main goes on to a client when it has waited for the one before.
LEMMA MainJoined ==
    ASSUME Core, Closing, Healthy, Joined, Calm, Kept3, Main
    PROVE  Joined'
<1>1. Typed /\ main \in Place
    BY DEF Core, Typed, TypeOK, Place
<1>2. /\ Next1 => main'.at = main.at /\ main'.i = main.i + 1
      /\ \A place \in Stages : /\ Goes(place) => main'.at = place /\ main'.i = 1
                               /\ At(place) => main'.at = place /\ main'.i = main.i
      /\ NextClient => main'.at = "close" /\ main'.i = main.i + 1
    BY <1>1, Moves
<1>3. {"raised", "locked", "user", "join", "interrupted", "close", "job", "worker", "register", "close job", "closed"} \subseteq Stages
    BY DEF Stages, NotClosing, InClose
<1>4. Has("luna")' = Has("luna") /\ opt'.interrupt = opt.interrupt
    BY DEF Kept3, Has
<1>5. ASSUME main'.at \notin InClose PROVE Joined'
    BY <1>5, JoinedIs DEF InClose
<1>6. ASSUME main.at \in InClose \ {"closed"}, main'.at \in InClose \ {"closed"}, main'.i = main.i PROVE Joined'
  <2>1. Before(main.i)'
      BY <1>6, JoinedIs DEF Kept3, Before, Ended
  <2> QED
      BY <1>4, <1>6, <2>1, JoinedIs DEF Kept3
<1>7. ASSUME main.at \in InClose \ {"closed"}, main'.at \in InClose \ {"closed"}, main'.i = main.i + 1,
             (main.i \in DOMAIN opt.clients /\ opt.clients[main.i] = "luna") => Ended(worker)
      PROVE  Joined'
  <2>1. Before(main.i)
      BY <1>7, JoinedIs
  <2>2. Before(main.i)'
      BY <1>1, <1>7, <2>1, NextBefore
  <2> QED
      BY <1>4, <1>7, <2>2, JoinedIs DEF Kept3
<1>8. CASE Build
  <2>1. main.at = "build" /\ (Next1 \/ Goes("raised") \/ Goes("locked") \/ Goes("user"))
      BY <1>8 DEF Build, BuildLuna, BuildLocal, BuildVolta, Built, Client, AllClients
  <2>2. main'.at \in {"build", "raised", "locked", "user"}
      BY <1>2, <1>3, <2>1
  <2> QED
      BY <1>5, <2>2 DEF InClose
<1>9. CASE User
  <2>1. main.at = "user"
      BY <1>1, <1>9, UserTyped, PutTyped
  <2>2. Next1 \/ UNCHANGED main
      BY <1>1, <1>9, MainAsked DEF User, NewTrueMetric, Put, UpdateAsksForJob, UpdateJob, UpdateMetric, Typed
  <2>3. main'.at = "user"
      BY <1>2, <2>1, <2>2
  <2> QED
      BY <1>5, <2>3 DEF InClose
<1>10. CASE CloseManager
  <2>1. main'.at = "join"
      BY <1>1, <1>10, CloseManagerTyped
  <2> QED
      BY <1>5, <2>1 DEF InClose
<1>11. CASE RouterJoined
  <2>1. CASE opt.interrupt
    <3>1. main'.at = "interrupted"
        BY <1>2, <1>3, <1>11, <2>1 DEF RouterJoined
    <3> QED
        BY <1>5, <3>1 DEF InClose
  <2>2. CASE ~opt.interrupt
    <3>1. main'.at = "close" /\ main'.i = 1 /\ router.done
        BY <1>2, <1>3, <1>11, <2>2 DEF RouterJoined
    <3>2. Before(main.i)'
        BY <3>1 DEF Before
    <3> QED
        BY <1>4, <2>2, <3>1, <3>2, JoinedIs DEF Kept3
  <2> QED
      BY <2>1, <2>2
<1>12. CASE StopWorker \/ CloseHasJob \/ WorkerJoined \/ RegisterJoined
  <2>1. main.at \in {"close", "job", "worker", "register"}
        /\ (At("job") \/ At("worker") \/ At("register") \/ At("close job"))
      BY <1>12 DEF StopWorker, CloseHasJob, WorkerJoined, RegisterJoined, Client
  <2>2. main'.at \in {"job", "worker", "register", "close job"} /\ main'.i = main.i
      BY <1>2, <1>3, <2>1
  <2> QED
      BY <1>6, <2>1, <2>2 DEF InClose
<1>13. CASE CloseAsksForJob
  <2>1. main' = main
      BY <1>1, <1>13, MainAsked DEF CloseAsksForJob, Typed, Calm, Healthy
  <2> QED
      BY <2>1, JoinedStays
<1>14. CASE StopLocal
    BY <1>14, JoinedStays DEF StopLocal
<1>15. CASE CloseJob
  <2>1. main.at = "close job" /\ NextClient
      BY <1>15 DEF CloseJob
  <2>2. main'.at = "close" /\ main'.i = main.i + 1 /\ Ended(worker)
      BY <1>2, <2>1 DEF Closing
  <2> QED
      BY <1>7, <2>1, <2>2 DEF InClose
<1>16. CASE LocalJoined \/ CloseVolta
  <2>1. main.at = "close" /\ Next1 /\ opt.clients[main.i] # "luna"
      BY <1>16 DEF LocalJoined, CloseVolta, Client
  <2>2. main'.at = "close" /\ main'.i = main.i + 1
      BY <1>2, <2>1
  <2> QED
      BY <1>7, <2>1, <2>2 DEF InClose
<1>17. CASE Closed
  <2>1. main.at = "close" /\ main.i > Len(opt.clients) /\ Goes("closed")
      BY <1>17 DEF Closed, AllClients
  <2>2. main'.at = "closed" /\ main.at \in InClose \ {"closed"}
      BY <1>2, <1>3, <2>1 DEF InClose
  <2>3. router.done /\ ~opt.interrupt /\ Before(main.i)
      BY <2>2, JoinedIs
  <2>4. Has("luna") => Ended(worker)
    <3>1. Len(opt.clients) \in Nat /\ DOMAIN opt.clients = 1..Len(opt.clients)
        BY <1>1, OptionTypes DEF Typed, TypeOK
    <3>2. ASSUME NEW j \in 1..Len(opt.clients), opt.clients[j] = "luna" PROVE Ended(worker)
      <4>1. main.i \in Nat
          BY <1>1 DEF Place
      <4>2. j \in 1..main.i - 1 /\ j \in DOMAIN opt.clients
          BY <2>1, <3>1, <4>1
      <4> QED
          BY <2>3, <3>2, <4>2 DEF Before
    <3> QED
        BY <3>1, <3>2 DEF Has, Contains
  <2> QED
      BY <1>4, <2>2, <2>3, <2>4, JoinedIs DEF Kept3
<1> QED
    BY <1>8, <1>9, <1>10, <1>11, <1>12, <1>13, <1>14, <1>15, <1>16, <1>17 DEF Main, Close

\* main has waited for the threads that it is past.
LEMMA JoinedNext ==
    ASSUME Core, Closing, Healthy, Joined, Calm, Next
    PROVE  Joined'
<1>1. Typed
    BY DEF Core
<1>2. Kept3
  <2>1. Ended(worker) => Ended(worker')
      BY EndedStays
  <2>2. opt' = opt /\ (router.done => router'.done)
    <3>1. CASE Main
        BY <3>1, MainStill DEF Still
    <3>2. CASE Local
        BY <3>2, LocalStill DEF Still
    <3>3. CASE RouterStep
        BY <3>3, RouterTurn DEF Turned
    <3>4. CASE LunaStep(RegisterStep) \/ LunaStep(WorkerStep)
        BY <3>4 DEF LunaStep
    <3> QED
        BY <3>1, <3>2, <3>3, <3>4 DEF Next
  <2> QED
      BY <2>1, <2>2 DEF Kept3
<1>3. CASE Main
    BY <1>2, <1>3, MainJoined
<1>4. CASE ~Main
  <2>1. main' = main
      BY <1>1, <1>4, RouterFields, LocalTyped DEF Next, LunaStep
  <2> QED
      BY <1>2, <2>1, JoinedStays
<1> QED
    BY <1>3, <1>4

\* A table that is sent whole is stored; the others are still there to be sent.
LEMMA SendKeepsAll ==
    ASSUME Typed, Healthy, Apart, Calm, NEW o, SentAs(o)
    PROVE  Emitted' = Emitted
<1>1. ~server.shaky /\ worker.at = "send" /\ server'.shaky = server.shaky /\ server'.stored = server.stored \cup SentLines
    BY DEF Healthy, SentAs, Calm
<1>2. worker.part = "whole" /\ worker.data \in {worker.left, << >>}
    BY <1>1 DEF Apart
<1>3. /\ luna'.queue = luna.queue /\ worker'.data = << >>
      /\ worker'.at = "send" => worker'.left = Tail(worker.left)
      /\ worker'.at # "send" => Tail(worker.left) = << >>
    BY <1>1, <1>2 DEF SentAs
<1>4. SentLines = LinesIn(worker.left[1]) /\ LinesOf(worker.left) = LinesIn(worker.left[1]) \cup LinesOf(Tail(worker.left))
    BY <1>1, <1>2, PartLines
<1>5. LinesOf(<< >>) = {}
    BY NoLines
<1>6. Emitted = LinesOf(luna.queue) \cup server.stored \cup LinesOf(worker.left)
    BY <1>1, <1>2, <1>5 DEF Emitted, Held
<1>7. /\ LinesOf(luna.queue)' = LinesOf(luna'.queue) /\ LinesOf(worker.data)' = LinesOf(worker'.data)
      /\ LinesOf(worker.left)' = LinesOf(worker'.left)
    BY LinesNextIs
<1>8. LinesOf(luna.queue)' = LinesOf(luna.queue) /\ LinesOf(worker.data)' = {}
    BY <1>3, <1>5, <1>7
<1>9. Emitted' = LinesOf(luna.queue) \cup server'.stored \cup (IF worker'.at = "send" THEN LinesOf(worker.left)' ELSE {})
    BY <1>8 DEF Emitted, Held
<1>10. (IF worker'.at = "send" THEN LinesOf(worker.left)' ELSE {}) = LinesOf(Tail(worker.left))
  <2>1. CASE worker'.at = "send"
      BY <1>3, <1>7, <2>1
  <2>2. CASE worker'.at # "send"
      BY <1>3, <1>5, <2>2
  <2> QED
      BY <2>1, <2>2
<1> QED
    BY <1>1, <1>4, <1>6, <1>9, <1>10

\* Without a failure nothing that was given to the client is lost.
LEMMA NothingLost ==
    ASSUME Lines0, Apart, Healthy, Calm, Next, ~RouterStep
    PROVE  Still /\ Emitted' = Emitted
<1>1. Core /\ Typed /\ LinesOfMetric /\ Registered /\ Emitting
    BY DEF Lines0, Core
<1>2. Still
    BY LinesNext
<1>3. CASE Main
    BY <1>1, <1>2, <1>3, MainStill, EmittedSame
<1>4. CASE Local
    BY <1>1, <1>2, <1>4, LocalStill, EmittedSame
<1>5. CASE LunaStep(RegisterStep)
    BY <1>1, <1>2, <1>5, RegistererKeeps DEF LunaStep, LunaAlone
<1>6. CASE LunaStep(WorkerStep)
  <2>1. WorkerStep /\ LunaAlone
      BY <1>6 DEF LunaStep, LunaAlone
  <2>2. CASE TakeData
      BY <1>1, <1>2, <2>1, <2>2, TakeDataEmits
  <2>3. CASE GiveBack
      BY <1>1, <1>2, <2>1, <2>3, GiveBackEmits DEF Healthy
  <2>4. CASE WorkerEnds
      BY <1>1, <1>2, <2>1, <2>4, WorkerEndsEmits DEF Healthy, WorkerEnds
  <2>5. CASE AddMetric
      BY <1>1, <1>2, <2>1, <2>5, AddMetricTyped, EmittedSame DEF LunaAlone
  <2>6. CASE Unlock
      BY <1>1, <1>2, <2>1, <2>6, UnlockTyped, EmittedSame DEF LunaAlone
  <2>7. ASSUME NEW o \in Outcomes, Send(o) PROVE Emitted' = Emitted
      BY <1>1, <2>1, <2>7, SendTyped, SendKeepsAll DEF LunaAlone
  <2> QED
      BY <1>2, <2>1, <2>2, <2>3, <2>4, <2>5, <2>6, <2>7 DEF WorkerStep
<1> QED
    BY <1>3, <1>4, <1>5, <1>6 DEF Next

\* There is a line with the row r.
Said(lines, t, m, r) == \E l \in lines : l.table = t /\ l.line.metric = m /\ r \in l.line.rows

\* A row has its raw line.
LEMMA TaggedRaw ==
    ASSUME NEW m, NEW rows, NEW r \in rows
    PROVE  RawLine(m, r) \in Tagged("metrics", m, rows)
BY DEF RawLine, Tagged, LinesSet, RawLines

\* A row is in the line of its second.
LEMMA TaggedSecond ==
    ASSUME NEW t, t # "metrics", NEW m, NEW rows, NEW r \in rows
    PROVE  Said(Tagged(t, m, rows), t, m, r)
<1>1. PICK line : line = [metric |-> m, second |-> r.second, rows |-> {q \in rows : q.second = r.second}]
    OBVIOUS
<1>2. line \in SecondLines(m, rows)
    BY <1>1 DEF SecondLines
<1>3. [table |-> t, line |-> line] \in Tagged(t, m, rows)
    BY <1>2 DEF Tagged, LinesSet
<1>4. line.metric = m /\ r \in line.rows
    BY <1>1
<1> QED
    BY <1>3, <1>4 DEF Said

Kept1(m) ==
    /\ opt.metrics[m].raw => \A r \in Passed(m) : RawLine(m, r) \in Emitted
    /\ IsAggregated(m) =>
          \A r \in Passed(m), t \in ToSet(Aggregates) :
             \/ ~router.done /\ r \notin router.buffer[m]
             \/ \E q \in Passed(m) : r.second < q.second - BufferSize
             => Said(Emitted, t, m, r)

\* Nothing is lost when the router stands still and what was given out is the
\* same.
LEMMA KeptStays ==
    ASSUME Still, Emitted' = Emitted, Kept
    PROVE  Kept'
<1>1. opt' = opt /\ router'.buffer = router.buffer /\ router'.done = router.done /\ \A m : Passed(m)' = Passed(m)
    BY DEF Still
<1> QED
    BY <1>1 DEF Kept, Has, IsAggregated, Metrics, RawLine

\* What the router gives of metric m: its new rows, and the seconds that it cuts.
LEMMA RouterKeepsMetric ==
    ASSUME Core, opt' = opt, ~router.done, Buffers', NEW new, NEW share, Shape(new, share),
           NEW ps, LinesAre(ps, new, share), Emitted' = Emitted \cup LinesOf(ps), NEW m \in Metrics, Kept1(m)
    PROVE  Kept1(m)'
<1>1. IsAggregated(m)' = IsAggregated(m) /\ opt'.metrics[m].raw = opt.metrics[m].raw
    BY DEF IsAggregated
<1>2. Passed(m)' = Passed(m) \cup new[m]
    BY DEF Shape
<1>3. ASSUME opt.metrics[m].raw, NEW r \in Passed(m)' PROVE RawLine(m, r) \in Emitted'
  <2>1. CASE r \in Passed(m)
      BY <1>3, <2>1 DEF Kept1
  <2>2. CASE r \in new[m]
    <3>1. RawLine(m, r) \in Tagged("metrics", m, new[m])
        BY <2>2, TaggedRaw
    <3>2. RawLine(m, r) \in LinesOf(ps)
        BY <1>3, <3>1 DEF LinesAre
    <3> QED
        BY <3>2
  <2> QED
      BY <1>2, <1>3, <2>1, <2>2
<1>4. ASSUME IsAggregated(m), NEW t \in ToSet(Aggregates), NEW r \in Passed(m)', r \in Gone(m) \/ r \in share[m]
      PROVE  Said(Emitted', t, m, r)
  <2>1. CASE r \in Gone(m)
    <3>1. r \in Passed(m) /\ r \notin router.buffer[m]
        BY <2>1 DEF Gone
    <3>2. Said(Emitted, t, m, r)
        BY <1>4, <3>1 DEF Kept1
    <3> QED
        BY <3>2 DEF Said
  <2>2. CASE r \in share[m]
    <3>1. t # "metrics"
        BY <1>4, TablesTypes
    <3>2. PICK rows : rows = share[m] /\ r \in rows
        BY <2>2
    <3>3. Said(Tagged(t, m, rows), t, m, r)
        BY <3>1, <3>2, TaggedSecond
    <3>4. Tagged(t, m, rows) \subseteq LinesOf(ps)
        BY <1>4, <3>2 DEF LinesAre
    <3> QED
        BY <3>3, <3>4 DEF Said
  <2> QED
      BY <1>4, <2>1, <2>2
<1>5. ASSUME IsAggregated(m), NEW r \in Passed(m)',
             \/ ~router'.done /\ r \notin router'.buffer[m]
             \/ \E q \in Passed(m)' : r.second < q.second - BufferSize
      PROVE  r \in Gone(m) \/ r \in share[m]
  <2>1. \A q \in Passed(m)' : q.second \in Int
    <3>1. Passed(m)' \subseteq RowsOf(m)'
        BY DEF Passed
    <3>2. RowsOf(m)' = RowsOf(m)
        BY RowsStay
    <3>3. opt \in Options
        BY DEF Core, Typed, TypeOK
    <3> QED
        BY <3>1, <3>2, <3>3, RowsGiven
  <2>2. BufferSize \in Nat
      BY RouterAssumption DEF RouterAssumption
  <2>3. CASE ~router'.done
    <3>1. r \notin router'.buffer[m]
      <4>1. ASSUME r \in router'.buffer[m], NEW q \in Passed(m)', r.second < q.second - BufferSize PROVE FALSE
        <5>1. r.second >= q.second - BufferSize
            BY <1>1, <1>5, <2>3, <4>1, BuffersAre DEF BufferOf
        <5> QED
            BY <2>1, <2>2, <4>1, <5>1
      <4> QED
          BY <1>5, <4>1
    <3> QED
        BY <1>5, <2>3, <3>1 DEF Shape
  <2>4. CASE router'.done
    <3>1. PICK q \in Passed(m)' : r.second < q.second - BufferSize
        BY <1>5, <2>4
    <3>2. ~(r.second >= q.second - BufferSize)
        BY <2>1, <2>2, <3>1
    <3> QED
        BY <1>5, <2>4, <3>2 DEF Shape
  <2> QED
      BY <2>3, <2>4
<1>6. Kept1(m)' <=>
        /\ opt'.metrics[m].raw => \A r \in Passed(m)' : RawLine(m, r) \in Emitted'
        /\ IsAggregated(m)' =>
              \A r \in Passed(m)', t \in ToSet(Aggregates) :
                 \/ ~router'.done /\ r \notin router'.buffer[m]
                 \/ \E q \in Passed(m)' : r.second < q.second - BufferSize
                 => Said(Emitted', t, m, r)
    BY DEF Kept1, Said, RawLine
<1> QED
    BY <1>1, <1>3, <1>4, <1>5, <1>6

\* Kept, metric by metric.
LEMMA KeptIs ==
    /\ Kept <=> (Has("luna") => \A m \in Metrics : Kept1(m))
    /\ opt' = opt => (Kept' <=> (Has("luna") => \A m \in Metrics : Kept1(m)'))
BY DEF Kept, Kept1, Has, Metrics, IsAggregated, RawLine, Said

\* Every row that the router has taken goes on, at once or with its second.
LEMMA KeptNext ==
    ASSUME Lines0, Apart, Healthy, Kept, Calm, Next
    PROVE  Kept'
<1>1. CASE ~RouterStep
    BY <1>1, NothingLost, KeptStays
<1>2. CASE RouterStep
  <2>1. Core /\ LinesOfMetric /\ Emitting
      BY DEF Lines0
  <2>2. PICK ps, new, share : Turned(ps, new, share)
      BY <1>2, <2>1, RouterTurn
  <2>3. Buffers'
      BY <1>2, <2>1, RouterTurn
  <2>4. opt' = opt /\ ~router.done /\ Shape(new, share) /\ LinesAre(ps, new, share)
      BY <2>2 DEF Turned
  <2>5. Has("luna") => Emitted' = Emitted \cup LinesOf(ps)
      BY <2>1, <2>2, <2>3, RouterEmits DEF Healthy
  <2>6. ASSUME Has("luna"), NEW m \in Metrics PROVE Kept1(m)'
    <3>1. Kept1(m)
        BY <2>6, KeptIs
    <3> QED
        BY <2>1, <2>3, <2>4, <2>5, <2>6, <3>1, RouterKeepsMetric
  <2> QED
      BY <2>4, <2>6, KeptIs
<1> QED
    BY <1>1, <1>2

\* A step after which there was no failure comes from a state in which there was none.
LEMMA QuietNext ==
    ASSUME Lines0, Closing, Apart, QuietInv, Next
    PROVE  QuietInv'
<1>1. Core /\ Typed /\ opt \in Options
    BY DEF Lines0, Core, Typed, TypeOK
<1>2. Lines0' /\ opt' = opt
    BY LinesNext, RouterFields DEF Still
<1>3. server'.faults <= server.faults
    BY <1>1, FaultsFewer
<1>4. opt.faults \in Nat /\ server.faults \in Nat /\ server'.faults \in Nat
    BY <1>1, <1>2, OptionTypes DEF Lines0, Core, Typed, TypeOK, ServerType
<1>5. 0 <= server'.faults /\ server'.faults <= opt'.faults
    BY <1>2, <1>3, <1>4 DEF QuietInv
<1>6. ASSUME Quiet' PROVE Healthy' /\ Joined' /\ Kept'
  <2>1. server'.faults = opt.faults
      BY <1>2, <1>6 DEF Quiet
  <2>2. Quiet /\ Calm
      BY <1>3, <1>4, <2>1 DEF QuietInv, Quiet, Calm
  <2>3. Healthy /\ Joined /\ Kept
      BY <2>2 DEF QuietInv
  <2> QED
      BY <1>1, <2>2, <2>3, HealthyNext, JoinedNext, KeptNext
<1> QED
    BY <1>5, <1>6 DEF QuietInv

SessionNow == Lines0 /\ Closing /\ Apart /\ QuietInv

\* The invariant in the parts that the lemmas are about.
LEMMA SessionIs == (SessionInv <=> SessionNow) /\ (SessionInv' <=> SessionNow')
BY DEF SessionInv, SessionNow, Lines0, Core, Typed

\* At the start nothing has been put, passed on or stored.
LEMMA InitCore ==
    ASSUME Init
    PROVE  Core /\ Emitted = {} /\ Held = {} /\ \A m : Passed(m) = {}
<1>1. Typed /\ opt \in Options
    BY InitTyped DEF Init
<1>2. main.at = "build" /\ routing = << >> /\ ~router.done /\ ~router.stopped /\ ~router.interrupted
    BY DEF Init, RouterInit
<1>3. Made = 0
    BY <1>2 DEF Made
<1>4. \A m : Passed(m) = {}
  <2>1. ASSUME NEW m, NEW r \in RowsOf(m) PROVE ~(r.put <= 0)
    <3>1. r.put \in 1..Len0 /\ Len0 \in Nat
        BY <1>1, <2>1, RowsGiven, OptionTypes DEF Len0
    <3> QED
        BY <3>1
  <2> QED
      BY <1>3, <2>1 DEF Passed
<1>5. Routing
    BY <1>2, <1>3, <1>4 DEF Routing, NotClosing
<1>6. \A m \in Metrics : router.buffer[m] = {}
    BY DEF Init, RouterInit, Metrics
<1>7. Buffers
    BY <1>4, <1>6 DEF Buffers, Gone
<1>8. Emitted = {} /\ Held = {}
  <2>1. luna.queue = << >> /\ worker.data = << >> /\ worker.at # "send" /\ server.stored = {}
      BY DEF Init, LunaInit
  <2> QED
      BY <2>1, NoLines DEF Emitted, Held
<1> QED
    BY <1>1, <1>4, <1>5, <1>7, <1>8 DEF Core

\* The invariant at the start.
LEMMA InitSession ==
    ASSUME Init
    PROVE  SessionInv
<1>1. Core /\ Emitted = {} /\ Held = {} /\ \A m : Passed(m) = {}
    BY InitCore
<1>2. /\ luna = [failed |-> FALSE, job |-> "unknown", put |-> TRUE, queue |-> << >>, ids |-> {}]
      /\ register.at = "loop" /\ ~register.interrupted
      /\ worker = [at |-> "loop", data |-> << >>, left |-> << >>, part |-> "whole", final |-> FALSE,
                   stopped |-> FALSE, interrupted |-> FALSE]
      /\ server.created = << >> /\ ~server.closed /\ ~server.shaky /\ server.stored = {} /\ server.again = {}
      /\ server.faults = opt.faults /\ main.at = "build" /\ opt \in Options /\ opt.faults \in Nat
    BY OptionTypes DEF Init, LunaInit
<1>3. LinesOfMetric
    BY <1>2 DEF LinesOfMetric
<1>4. Registered
  <2>1. DOMAIN << >> = {} /\ ToSet(<< >>) = {}
      BY DEF ToSet
  <2> QED
      BY <1>1, <1>2, <2>1 DEF Registered
<1>5. Emitting
    BY <1>1 DEF Emitting
<1>6. Closing
    BY <1>2 DEF Closing
<1>7. Apart
  <2>1. LinesOf(<< >>) = {} /\ DOMAIN << >> = {}
      BY NoLines
  <2> QED
      BY <1>2, <2>1 DEF Apart
<1>8. QuietInv
  <2>1. Healthy
      BY <1>2 DEF Healthy
  <2>2. Joined
      BY <1>2 DEF Joined, InClose
  <2>3. Kept
      BY <1>1 DEF Kept
  <2> QED
      BY <1>2, <2>1, <2>2, <2>3 DEF QuietInv
<1> QED
    BY <1>1, <1>3, <1>4, <1>5, <1>6, <1>7, <1>8, SessionIs DEF SessionNow, Lines0

\* The invariant when nothing happens.
LEMMA SessionStutters ==
    ASSUME SessionInv, UNCHANGED vars
    PROVE  SessionInv'
<1>1. UNCHANGED <<opt, metrics, routing, router, luna, register, lock, worker, server, main, local>>
    BY DEF vars
<1>2. Core /\ Typed /\ Lines0 /\ Closing /\ Apart /\ QuietInv
    BY SessionIs DEF SessionNow, Lines0, Core
<1>3. Typed'
  <2>1. Working'
      BY <1>1, <1>2, SameWorking DEF Typed, SameWork, SameAsk
  <2>2. /\ metrics' \in Seq(Metrics) /\ routing' \in Seq(Item) /\ router' \in RouterType /\ main' \in Place
        /\ luna' \in LunaType /\ register' \in RegisterType /\ lock' \in BOOLEAN /\ worker' \in WorkerType(worker'.left)
        /\ server' \in ServerType
      BY <1>1, <1>2 DEF Typed, TypeOK, Place
  <2> QED
      BY <1>1, <1>2, <2>1, <2>2, TypedNext DEF Typed
<1>4. Still /\ DataSame
    BY <1>1, <1>2, <1>3, ThreadStill DEF DataSame
<1>5. Held' = Held /\ Emitted' = Emitted /\ (LinesOfMetric => LinesOfMetric')
    BY <1>4, EmittedSame
<1>6. Emitting' /\ LinesOfMetric'
    BY <1>2, <1>4, <1>5, EmittingSame DEF Lines0
<1>7. Registered'
    BY <1>1, <1>2, <1>4, RegisteredAside DEF Lines0, Told
<1>8. Closing' /\ Apart'
    BY <1>1, <1>2, <1>4, ApartStays DEF Closing, Ended, DataSame, QueueSame
<1>9. QuietInv'
  <2>1. Quiet' => Quiet
      BY <1>1 DEF Quiet
  <2>2. Healthy => Healthy'
      BY <1>1, HealthyStays DEF SameWork
  <2>3. Joined => Joined'
      BY <1>1, JoinedStays DEF Kept3, Ended
  <2>4. Kept => Kept'
      BY <1>4, <1>5, KeptStays
  <2> QED
      BY <1>1, <1>2, <2>1, <2>2, <2>3, <2>4 DEF QuietInv
<1> QED
    BY <1>4, <1>6, <1>7, <1>8, <1>9, SessionIs DEF SessionNow, Lines0, Core, Still

\* Every step keeps the invariant.
LEMMA SessionNext ==
    ASSUME SessionInv, Next
    PROVE  SessionInv'
<1>1. Core /\ Typed /\ Lines0 /\ Closing /\ Apart /\ QuietInv
    BY SessionIs DEF SessionNow, Lines0, Core
<1> QED
    BY <1>1, LinesNext, ClosingNext, ApartNext, QuietNext, SessionIs DEF SessionNow

\* The invariant holds in every state of a session.
THEOREM SessionInductive == Spec => []SessionInv
<1>1. Init => SessionInv
    BY InitSession
<1>2. SessionInv /\ [Next]_vars => SessionInv'
    BY SessionNext, SessionStutters
<1> QED
    BY <1>1, <1>2, PTL DEF Spec

\* Nothing is in two places, and what the service has is of registered metrics.
LEMMA StoredFromInv ==
    ASSUME SessionInv
    PROVE  StoredAsGiven
<1>1. server.stored \subseteq Held
    BY DEF Held
<1>2. StoredOnce
    BY DEF SessionInv, Apart, StoredOnce
<1>3. ASSUME NEW s \in server.stored PROVE Contains(server.created, s.line.metric)
  <2>1. s.line.metric \in ToSet(server.created)
      BY <1>1, <1>3 DEF SessionInv, Registered
  <2>2. server.created \in Seq(Metrics)
      BY DEF SessionInv, TypeOK, ServerType
  <2> QED
      BY <2>1, <2>2 DEF ToSet, Contains
<1>4. MetricsInOrder
    BY <1>3 DEF SessionInv, Registered, MetricsInOrder
<1> QED
    BY <1>2, <1>4 DEF StoredAsGiven

\* luna.py:318-356, 398-470: what the service holds is what the program gave;
\* rows once, if no answer or connection was lost, under metrics that were
\* registered once and after their parents.
THEOREM WhatIsStored == Spec => []StoredAsGiven
BY SessionInductive, StoredFromInv, PTL

\* What is stored was given out.
LEMMA WholeFromInv ==
    ASSUME SessionInv
    PROVE  SecondsWhole
<1>1. server.stored \subseteq Emitted
    BY DEF Emitted, Held
<1> QED
    BY <1>1 DEF SessionInv, Emitting, Given1, SecondsWhole

\* router.py:52-67, 75-95: what is uploaded for a second is of all its rows, if
\* none came later than the buffer allows and the session was not interrupted.
THEOREM SecondsAreWhole == Spec => []SecondsWhole
BY SessionInductive, WholeFromInv, PTL

\* At the end of a quiet session everything was taken, given out and stored.
LEMMA AllStored ==
    ASSUME SessionInv, main.at = "closed", Quiet, Has("luna")
    PROVE  /\ Emitted = server.stored /\ router.done /\ Kept
           /\ \A m : Passed(m) = RowsOf(m)
<1>1. Typed /\ opt \in Options /\ Routing
    BY DEF SessionInv, Typed, TypeOK
<1>2. Healthy /\ Joined /\ Kept
    BY DEF SessionInv, QuietInv
<1>3. router.done /\ ~opt.interrupt /\ Ended(worker)
    BY <1>2 DEF Joined, InClose
<1>4. worker.at = "finished"
    BY <1>2, <1>3 DEF Ended, Healthy
<1>5. luna.queue = << >> /\ worker.data = << >>
    BY <1>2, <1>4 DEF Healthy
<1>6. Emitted = server.stored
    BY <1>4, <1>5, NoLines DEF Emitted, Held
<1>7. routing = << >> /\ Made = Len0 /\ Len0 \in Nat
    BY <1>1, <1>3, OptionTypes DEF Routing, Made, Len0
<1>8. ASSUME NEW m PROVE Passed(m) = RowsOf(m)
  <2>1. \A r \in RowsOf(m) : r.put \in 1..Len0
      BY <1>1, RowsGiven
  <2>2. \A r \in RowsOf(m) : r.put <= Made
      BY <1>7, <2>1
  <2> QED
      BY <1>7, <2>2 DEF Passed
<1> QED
    BY <1>2, <1>3, <1>6, <1>8

\* So every row is there that was not in a buffer at the end.
LEMMA QuietFromInv ==
    ASSUME SessionInv
    PROVE  QuietKeepsAll
<1> SUFFICES ASSUME main.at = "closed", Quiet, Has("luna"), NEW m \in ToSet(metrics)
             PROVE  /\ opt.metrics[m].raw => \A r \in RowsOf(m) : RawLine(m, r) \in server.stored
                    /\ IsAggregated(m) =>
                          \A r \in RowsOf(m), t \in ToSet(Aggregates) :
                             r.second < LastSecond(RowsOf(m)) - BufferSize =>
                                \E s \in server.stored : s.table = t /\ s.line.metric = m /\ r \in s.line.rows
    BY DEF QuietKeepsAll, RawLine
<1>1. Emitted = server.stored /\ router.done /\ Kept /\ Passed(m) = RowsOf(m)
    BY AllStored
<1>2. opt \in Options /\ m \in Metrics
  <2>1. opt \in Options /\ metrics \in Seq(Metrics)
      BY DEF SessionInv, TypeOK
  <2> QED
      BY <2>1 DEF ToSet
<1>3. Kept1(m)
    BY <1>1, <1>2, KeptIs
<1>4. opt.metrics[m].raw => \A r \in RowsOf(m) : RawLine(m, r) \in server.stored
    BY <1>1, <1>3 DEF Kept1
<1>5. ASSUME IsAggregated(m), NEW r \in RowsOf(m), NEW t \in ToSet(Aggregates),
             r.second < LastSecond(RowsOf(m)) - BufferSize
      PROVE  \E s \in server.stored : s.table = t /\ s.line.metric = m /\ r \in s.line.rows
  <2>1. IsFiniteSet(RowsOf(m)) /\ RowsOf(m) \in SUBSET Row /\ RowsOf(m) # {}
      BY <1>2, <1>5, RowsGiven
  <2>2. PICK top \in RowsOf(m) : LastSecond(RowsOf(m)) = top.second
      BY <2>1, NewestSecond
  <2>3. r.second < top.second - BufferSize
      BY <1>5, <2>2
  <2>4. Said(Emitted, t, m, r)
      BY <1>1, <1>3, <1>5, <2>3 DEF Kept1
  <2> QED
      BY <1>1, <2>4 DEF Said
<1> QED
    BY <1>4, <1>5

\* manager.py:145-153, luna.py:248-260: after close(), when no request failed,
\* the service has every raw row, and of aggregated metrics every second that
\* had left the buffer.
THEOREM QuietSessionKeepsAll == Spec => []QuietKeepsAll
BY SessionInductive, QuietFromInv, PTL

\* luna.py:248-260: once the job is closed nothing is registered or uploaded.
THEOREM ClosedJobIsLeft == Spec => NothingAfterClose
<1>1. SessionInv /\ [Next]_vars => [server.closed => UNCHANGED <<server.created, server.stored, server.again>>]_server
  <2>1. ASSUME SessionInv, Next, server.closed PROVE UNCHANGED <<server.created, server.stored, server.again>>
      BY <2>1, ClosingNext DEF SessionInv, Typed, ServiceSame
  <2>2. ASSUME UNCHANGED vars PROVE UNCHANGED server
      BY <2>2 DEF vars
  <2> QED
      BY <2>1, <2>2
<1> QED
    BY <1>1, SessionInductive, PTL DEF Spec, NothingAfterClose
=============================================================================
