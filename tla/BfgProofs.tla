------------------------------ MODULE BfgProofs ------------------------------
(***************************************************************************)
(* TLAPS proofs about Bfg: for any number of processes, green threads and  *)
(* tasks, any sizes of the queues, and whatever guns and interrupts do, a  *)
(* task that was put is shot once or was seen to be lost, and the result   *)
(* of a shot reaches the report once or was seen to be lost.               *)
(*                                                                         *)
(* A task moves from the queue to a process, or to the green_queue of one  *)
(* and from there to a thread, and is shot, missed or dropped in the end.  *)
(* Once adds up the places a task is in: one from its put on, none before. *)
(* A sum keeps its value when a task moves only if it leaves the place it  *)
(* was in altogether.  Alone and Ordered say so: no two processes, threads *)
(* or elements of a queue have the same task.  A thread that takes a task  *)
(* off its green_queue has none yet, and Room keeps a free thread for each *)
(* task there.  ResultOnce and Single do the same for the results, Passing *)
(* for the lists that the cacher and the listener exchange.                *)
(*                                                                         *)
(* Ended relates the answer of is_test_finished to the tasks.  A process   *)
(* that neither failed in its setup nor was interrupted exits for a killer *)
(* or for quit only, and the killers are behind the last task (Fed,        *)
(* Ordered).  So when the test is found finished with no interrupt and no  *)
(* stop before, the plan was put and the queue holds no task (Spent).      *)
(***************************************************************************)
EXTENDS Bfg, FiniteSetTheorems, TLAPS

Bit(b) == IF b THEN 1 ELSE 0

Has(s, t) == \E i \in DOMAIN s : s[i] = t

\* The places of a task.
Queued(t) == Has(taskQueue, t)
Held(t) == \E w \in Workers : task[w] = t
GreenHeld(t) == \E w \in Workers, g \in Threads : greenTask[w][g] = t
GreenQueued(t) == \E w \in Workers : Has(greenQueue[w], t)

\* A task is in one place from the moment it was put, and in none before.
Once ==
    \A t \in Plan :
        Bit(Queued(t)) + Bit(Held(t)) + Bit(GreenHeld(t)) + Bit(GreenQueued(t))
            + Bit(t \in shot) + Bit(t \in missed) + Bit(t \in dropped) = Bit(t < next)

\* The tasks are in the queue in the order of the plan, before the killers.
Ordered ==
    /\ \A i, j \in DOMAIN taskQueue :
          i < j /\ taskQueue[j] # Killer => taskQueue[i] # Killer /\ taskQueue[i] < taskQueue[j]
    /\ \A i \in DOMAIN taskQueue : taskQueue[i] < next
    /\ Has(taskQueue, Killer) => next = opt.tasks + 1

\* What the feeder is at.
Fed ==
    /\ feeder = "put" => next <= opt.tasks /\ posted = 0
    /\ feeder = "kill" => posted < Cardinality(Workers)
    /\ feeder \in {"kill", "join"} => next = opt.tasks + 1

\* Green threads have tasks while the main one of their process sleeps or joins.
Idle(w) == greenQueue[w] = << >> /\ \A g \in Threads : greenTask[w][g] = Killer
Kinds ==
    /\ opt.type = "green" => \A w \in Workers : worker[w] # "shoot"
    /\ \A w \in Workers : opt.type = "default" \/ worker[w] \notin {"get", "join"} => Idle(w)

\* There is a free thread for each task in a green_queue.
Shooting(w) == {g \in Threads : greenlet[w][g] = "shoot"}
Room == \A w \in Workers : free[w] + Len(greenQueue[w]) + Cardinality(Shooting(w)) <= Greenlets

\* A task is with one process, with one thread, and once in one green_queue.
Alone ==
    /\ \A w, v \in Workers : task[w] = task[v] /\ task[w] # Killer => w = v
    /\ \A w, v \in Workers, g, h \in Threads :
          greenTask[w][g] = greenTask[v][h] /\ greenTask[w][g] # Killer => w = v /\ g = h
    /\ \A w, v \in Workers : \A i \in DOMAIN greenQueue[w], j \in DOMAIN greenQueue[v] :
          greenQueue[w][i] = greenQueue[v][j] => w = v /\ i = j

\* Every task of the plan was put, and all were taken.
Spent == next = opt.tasks + 1 /\ \A i \in DOMAIN taskQueue : taskQueue[i] = Killer

\* Processes quit, exit and are found finished only after the last task, but for an
\* interrupt and the end of the test.
Ended ==
    /\ main = "poll" /\ quit => Spent /\ opt.type = "green"
    /\ main = "poll" /\ ready /\ sigints = 0 => Spent \/ \E w \in Workers : worker[w] \in {"get", "shoot"}
    /\ workersFinished => AllExited /\ next = opt.tasks + 1 /\ feeder = "over"

\* No result is twice in a place ...
Single ==
    /\ IsInjective(results) /\ IsInjective(records) /\ IsInjective(taken)
    /\ IsInjective(report) /\ IsInjective(orphaned)

\* ... and the result of each shot is in one of them.
ResultOnce ==
    \A t \in Plan :
        Bit(t \in overflowed) + Bit(Has(results, t)) + Bit(Has(item, t)) + Bit(Has(records, t))
            + Bit(Has(taken, t)) + Bit(Has(report, t)) + Bit(Has(orphaned, t)) = Bit(t \in shot)

\* The cacher holds an item only while it appends it, and the list it appends to is
\* the taken one only while the listener converts that.
Passing ==
    /\ cacher # "append" => item = << >> /\ target = "records"
    /\ listener # "convert" => taken = << >> /\ target # "taken"

IInv ==
    /\ TypeOK
    /\ Ordered /\ Fed /\ Kinds /\ Room /\ Alone /\ Once
    /\ Ended /\ Single /\ ResultOnce /\ Passing

-----------------------------------------------------------------------------
(***************************************************************************)
(* Sequences                                                               *)
(***************************************************************************)

LEMMA OfAppend ==
    ASSUME NEW S, NEW s \in Seq(S), NEW e \in S
    PROVE  /\ Append(s, e) \in Seq(S) /\ Len(Append(s, e)) = Len(s) + 1
           /\ \A t : Has(Append(s, e), t) <=> Has(s, t) \/ t = e
           /\ IsInjective(s) /\ ~Has(s, e) => IsInjective(Append(s, e))
<1>1. Append(s, e) \in Seq(S) /\ Len(Append(s, e)) = Len(s) + 1
    OBVIOUS
<1> DEFINE u == Append(s, e)
<1>2. /\ \A i \in DOMAIN u : i \in DOMAIN s \/ i = Len(s) + 1
      /\ \A i \in DOMAIN s : i \in DOMAIN u /\ u[i] = s[i]
      /\ Len(s) + 1 \in DOMAIN u /\ u[Len(s) + 1] = e
    OBVIOUS
<1> HIDE DEF u
<1>3. \A t : Has(u, t) <=> Has(s, t) \/ t = e
    BY <1>2 DEF Has
<1>4. ASSUME IsInjective(s), ~Has(s, e) PROVE IsInjective(u)
    BY <1>2, <1>4 DEF Has, IsInjective
<1> QED
    BY <1>1, <1>3, <1>4 DEF u

LEMMA OfTail ==
    ASSUME NEW S, NEW s \in Seq(S), s # << >>
    PROVE  /\ Tail(s) \in Seq(S) /\ Head(s) \in S /\ Len(Tail(s)) = Len(s) - 1
           /\ Head(s) = s[1] /\ 1 \in DOMAIN s
           /\ \A i \in DOMAIN Tail(s) : i \in Nat /\ i + 1 \in DOMAIN s /\ Tail(s)[i] = s[i + 1]
           /\ \A t : Has(s, t) <=> Has(Tail(s), t) \/ t = Head(s)
           /\ IsInjective(s) => IsInjective(Tail(s)) /\ ~Has(Tail(s), Head(s))
<1>1. /\ Tail(s) \in Seq(S) /\ Head(s) \in S /\ Len(Tail(s)) = Len(s) - 1
      /\ Head(s) = s[1] /\ 1 \in DOMAIN s
    OBVIOUS
<1> DEFINE u == Tail(s)
<1>2. \A i \in DOMAIN u : i \in Nat /\ i + 1 \in DOMAIN s /\ u[i] = s[i + 1] /\ i + 1 # 1
    OBVIOUS
<1>3. \A i \in DOMAIN s : i = 1 \/ (i - 1 \in DOMAIN u /\ u[i - 1] = s[i])
    OBVIOUS
<1> HIDE DEF u
<1>4. \A t : Has(s, t) <=> Has(u, t) \/ t = Head(s)
    BY <1>1, <1>2, <1>3 DEF Has
<1>5. ASSUME IsInjective(s) PROVE IsInjective(u) /\ ~Has(u, Head(s))
  <2>1. ASSUME NEW i \in DOMAIN u, NEW j \in DOMAIN u, u[i] = u[j] PROVE i = j
    <3>1. i + 1 = j + 1
        BY <1>2, <1>5, <2>1 DEF IsInjective
    <3> QED
        BY <1>2, <3>1
  <2>2. ~Has(u, Head(s))
      BY <1>1, <1>2, <1>5 DEF Has, IsInjective
  <2> QED
      BY <2>1, <2>2 DEF IsInjective
<1> QED
    BY <1>1, <1>2, <1>4, <1>5 DEF u

LEMMA OfConcat ==
    ASSUME NEW S, NEW s \in Seq(S), NEW u \in Seq(S)
    PROVE  /\ s \o u \in Seq(S) /\ Len(s \o u) = Len(s) + Len(u)
           /\ \A i \in DOMAIN (s \o u) :
                 \/ i \in DOMAIN s /\ (s \o u)[i] = s[i]
                 \/ i - Len(s) \in DOMAIN u /\ (s \o u)[i] = u[i - Len(s)] /\ i \in Nat
           /\ \A t : Has(s \o u, t) <=> Has(s, t) \/ Has(u, t)
           /\ IsInjective(s) /\ IsInjective(u) /\ (\A i \in DOMAIN s : ~Has(u, s[i])) => IsInjective(s \o u)
<1> DEFINE v == s \o u
<1>1. v \in Seq(S) /\ Len(v) = Len(s) + Len(u) /\ Len(s) \in Nat
    OBVIOUS
<1>2. \A i \in DOMAIN v :
         \/ i \in DOMAIN s /\ v[i] = s[i]
         \/ i - Len(s) \in DOMAIN u /\ v[i] = u[i - Len(s)] /\ i \in Nat
    OBVIOUS
<1>3. /\ \A i \in DOMAIN s : i \in DOMAIN v /\ v[i] = s[i]
      /\ \A i \in DOMAIN u : i + Len(s) \in DOMAIN v /\ v[i + Len(s)] = u[i]
    OBVIOUS
<1> HIDE DEF v
<1>4. \A t : Has(v, t) <=> Has(s, t) \/ Has(u, t)
    BY <1>2, <1>3 DEF Has
<1>5. ASSUME IsInjective(s), IsInjective(u), \A i \in DOMAIN s : ~Has(u, s[i]) PROVE IsInjective(v)
  <2>1. SUFFICES ASSUME NEW i \in DOMAIN v, NEW j \in DOMAIN v, v[i] = v[j] PROVE i = j
      BY DEF IsInjective
  <2>2. CASE i \in DOMAIN s /\ v[i] = s[i] /\ j \in DOMAIN s /\ v[j] = s[j]
      BY <1>5, <2>1, <2>2 DEF IsInjective
  <2>3. CASE /\ i - Len(s) \in DOMAIN u /\ v[i] = u[i - Len(s)] /\ i \in Nat
             /\ j - Len(s) \in DOMAIN u /\ v[j] = u[j - Len(s)] /\ j \in Nat
    <3>1. i - Len(s) = j - Len(s)
        BY <1>5, <2>1, <2>3 DEF IsInjective
    <3> QED
        BY <1>1, <2>3, <3>1
  <2> QED
      BY <1>2, <1>5, <2>1, <2>2, <2>3 DEF Has
<1> QED
    BY <1>1, <1>2, <1>4, <1>5 DEF v

LEMMA OfEmpty ==
    ASSUME NEW S
    PROVE  << >> \in Seq(S) /\ Len(<< >>) = 0 /\ IsInjective(<< >>) /\ \A t : ~Has(<< >>, t)
BY DEF Has, IsInjective

\* The first n elements of a sequence and the others.
LEMMA OfParts ==
    ASSUME NEW S, NEW s \in Seq(S), NEW n \in 1 .. Len(s)
    PROVE  /\ SubSeq(s, 1, n) \in Seq(S) /\ Len(SubSeq(s, 1, n)) = n
           /\ \A i \in 1 .. n : SubSeq(s, 1, n)[i] = s[i] /\ i \in DOMAIN s
           /\ SubSeq(s, n + 1, Len(s)) \in Seq(S) /\ Len(SubSeq(s, n + 1, Len(s))) = Len(s) - n
           /\ \A i \in DOMAIN SubSeq(s, n + 1, Len(s)) :
                 i \in Nat /\ i + n \in DOMAIN s /\ SubSeq(s, n + 1, Len(s))[i] = s[i + n]
           /\ \A t : Has(s, t) <=> Has(SubSeq(s, 1, n), t) \/ Has(SubSeq(s, n + 1, Len(s)), t)
<1> DEFINE a == SubSeq(s, 1, n)
           b == SubSeq(s, n + 1, Len(s))
<1>1. a \in Seq(S) /\ Len(a) = n /\ DOMAIN a = 1 .. n
    OBVIOUS
<1>2. \A i \in 1 .. n : a[i] = s[i] /\ i \in DOMAIN s
    OBVIOUS
<1>3. b \in Seq(S) /\ Len(b) = Len(s) - n
    OBVIOUS
<1>4. \A i \in DOMAIN b : i \in Nat /\ i + n \in DOMAIN s /\ b[i] = s[i + n]
    OBVIOUS
<1>5. \A i \in DOMAIN s : i \in 1 .. n \/ (i - n \in DOMAIN b /\ b[i - n] = s[i])
    OBVIOUS
<1> HIDE DEF a, b
<1>6. \A t : Has(s, t) <=> Has(a, t) \/ Has(b, t)
    BY <1>1, <1>2, <1>4, <1>5 DEF Has
<1> QED
    BY <1>1, <1>2, <1>3, <1>4, <1>6 DEF a, b

\* A set whose members are all the same has at most one.
LEMMA AtMostOne ==
    ASSUME NEW T, \A x, y \in T : x = y
    PROVE  Cardinality(T) = Bit(T # {})
<1>1. CASE T = {}
    BY <1>1, FS_EmptySet DEF Bit
<1>2. CASE T # {}
  <2>1. PICK x \in T : T = {x}
      BY <1>2
  <2> QED
      BY <1>2, <2>1, FS_Singleton DEF Bit
<1> QED
    BY <1>1, <1>2

-----------------------------------------------------------------------------
(***************************************************************************)
(* Types                                                                   *)
(***************************************************************************)

LEMMA InitTypes == Init => TypeOK
<1> SUFFICES ASSUME Init PROVE TypeOK
    OBVIOUS
<1> USE PoolAssumption, GreenAssumption DEF PoolAssumption
<1>1. opt \in Options /\ opt.tasks \in Nat /\ opt.sigints \in Nat
    BY DEF Init, PoolInit
<1>2. Cardinality(Workers) \in Nat
    BY FS_CardinalityType
<1>3. PoolTypes
  <2>1. taskQueue \in Seq(Plan \union {Killer}) /\ Len(taskQueue) <= QueueSize
      BY <1>1, OfEmpty DEF Init, PoolInit
  <2>2. next \in 1 .. opt.tasks + 1 /\ attempt \in 1 .. Attempts /\ posted \in 0 .. Cardinality(Workers)
      BY <1>1, <1>2 DEF Init, PoolInit
  <2>3. /\ worker \in [Workers -> {"setup", "get", "shoot", "join", "teardown", "exited"}]
        /\ task \in [Workers -> Plan \union {Killer}]
        /\ \A w \in Workers : worker[w] = "shoot" <=> task[w] \in Plan
      BY <1>1 DEF Init, PoolInit, Plan, Killer
  <2>4. /\ {quit, queueClosed, closeEvent, workersFinished, ready} \subseteq BOOLEAN
        /\ shot \subseteq Plan /\ missed \subseteq Plan
      BY DEF Init, PoolInit
  <2>5. sigints \in 0 .. opt.sigints
      BY <1>1 DEF Init, PoolInit
  <2>6. feeder \in {"put", "kill", "join", "over"} /\ main \in {"poll", "stop", "empty", "join", "ended"}
      BY DEF Init, PoolInit
  <2> QED
      BY <1>1, <2>1, <2>2, <2>3, <2>4, <2>5, <2>6 DEF PoolTypes
<1>4. GreenTypes
    BY <1>1, OfEmpty DEF GreenTypes, Init, GreenInit, Plan, Killer, Threads
<1>5. ReaderTypes
    BY <1>1 DEF ReaderTypes, Init, PoolInit, Reader!ReaderInit, Plan
<1> QED
    BY <1>3, <1>4, <1>5 DEF TypeOK

LEMMA OptStays ==
    ASSUME [Next]_vars
    PROVE  opt' = opt
BY DEF Next, vars, poolLeaves, readerLeaves

LEMMA Constants ==
    ASSUME TypeOK
    PROVE  /\ opt.tasks \in Nat /\ opt.sigints \in Nat /\ opt.type \in {"default", "green"}
           /\ Cardinality(Workers) \in Nat \ {0} /\ IsFiniteSet(Workers)
           /\ QueueSize \in Nat /\ ResultsSize \in Nat /\ Attempts \in Nat /\ Greenlets \in Nat
           /\ Killer = 0 /\ Plan \subseteq Nat /\ Killer \notin Plan
BY PoolAssumption, GreenAssumption, FS_CardinalityType, FS_EmptySet DEF PoolAssumption, TypeOK, PoolTypes, Killer, Plan

LEMMA FeederTypes ==
    ASSUME TypeOK, Fed, Feeder, opt' = opt
    PROVE  PoolTypes'
<1> USE DEF queue, feed, pool, plugin, outcome
<1>0. Plan' = Plan
    BY DEF Plan
<1>n. opt.tasks \in Nat /\ Attempts \in Nat /\ Cardinality(Workers) \in Nat /\ Plan = 1 .. opt.tasks
    BY Constants DEF Plan
<1>q. taskQueue \in Seq(Plan \union {Killer}) /\ Len(taskQueue) <= QueueSize /\ QueueSize \in Nat
    BY Constants DEF TypeOK, PoolTypes
<1>1. CASE Put
  <2>1. next \in Plan \union {Killer} /\ next' \in 1 .. opt.tasks + 1
    <3>1. next \in 1 .. opt.tasks + 1 /\ next <= opt.tasks /\ next' = next + 1
        BY <1>1 DEF Put, NextTask, Fed, TypeOK, PoolTypes
    <3> QED
        BY <1>n, <3>1
  <2>2. taskQueue' \in Seq(Plan \union {Killer}) /\ Len(taskQueue') <= QueueSize
      BY <1>1, <1>q, <2>1, OfAppend DEF Put, Full
  <2> QED
      BY <1>0, <1>1, <2>1, <2>2 DEF Put, NextTask, TypeOK, PoolTypes
<1>2. CASE PutKiller
  <2>1. taskQueue' \in Seq(Plan \union {Killer}) /\ Len(taskQueue') <= QueueSize
      BY <1>2, <1>q, OfAppend DEF PutKiller, Full
  <2>2. posted' \in 0 .. Cardinality(Workers)
      BY <1>2, <1>n DEF PutKiller, Fed, TypeOK, PoolTypes
  <2> QED
      BY <1>0, <1>2, <2>1, <2>2 DEF PutKiller, TypeOK, PoolTypes
<1>3. CASE KillersFull
  <2>1. attempt' \in 1 .. Attempts /\ posted' \in 0 .. Cardinality(Workers) /\ feeder' \in {"kill", "join"}
      BY <1>3, <1>n DEF KillersFull, TypeOK, PoolTypes
  <2> QED
      BY <1>0, <1>3, <2>1 DEF KillersFull, TypeOK, PoolTypes
<1>4. CASE PutFull \/ PutClosed
    BY <1>0, <1>4 DEF PutFull, PutClosed, TypeOK, PoolTypes
<1>5. CASE Joined
    BY <1>0, <1>5 DEF Joined, TypeOK, PoolTypes
<1> QED
    BY <1>1, <1>2, <1>3, <1>4, <1>5 DEF Feeder

LEMMA MainTypes ==
    ASSUME TypeOK, Main \/ Stop, opt' = opt
    PROVE  PoolTypes'
<1> USE Constants DEF TypeOK, PoolTypes, queue, feed, pool, plugin, outcome
<1>0. Plan' = Plan
    BY DEF Plan
<1>1. CASE Empty /\ taskQueue # << >>
  <2> DEFINE S == Plan \union {Killer}
  <2>1. taskQueue \in Seq(S) /\ taskQueue # << >> /\ taskQueue' = Tail(taskQueue) /\ missed' = missed \union ({Head(taskQueue)} \ {Killer})
      BY <1>1 DEF Empty
  <2>2. Tail(taskQueue) \in Seq(S) /\ Head(taskQueue) \in S /\ Len(Tail(taskQueue)) = Len(taskQueue) - 1
    <3> HIDE DEF S
    <3> QED
        BY <2>1, OfTail
  <2>3. taskQueue' \in Seq(S) /\ Len(taskQueue') <= QueueSize /\ missed' \subseteq Plan
      BY <2>1, <2>2
  <2> QED
      BY <1>0, <1>1, <2>3 DEF Empty
<1>2. CASE Empty /\ taskQueue = << >>
    BY <1>0, <1>2 DEF Empty
<1>3. CASE Finished \/ Stop \/ Stopped \/ FeederJoined
    BY <1>0, <1>3 DEF Finished, Stop, Stopped, FeederJoined
<1> QED
    BY <1>1, <1>2, <1>3 DEF Main

LEMMA WorkerTypes ==
    ASSUME TypeOK, NEW w \in Workers, Worker(w) \/ Sigint(w), opt' = opt
    PROVE  PoolTypes'
<1> USE DEF queue, feed, pool, plugin, outcome
<1>0. Plan' = Plan
    BY DEF Plan
<1>1. CASE Take(w)
  <2>1. taskQueue \in Seq(Plan \union {Killer}) /\ Len(taskQueue) <= QueueSize /\ taskQueue # << >>
      BY <1>1 DEF Take, TypeOK, PoolTypes
  <2>2. taskQueue' = Tail(taskQueue)
      BY <1>1 DEF Take
  <2>3. taskQueue' \in Seq(Plan \union {Killer}) /\ Len(taskQueue') <= QueueSize /\ Head(taskQueue) \in Plan \union {Killer}
      BY <2>1, <2>2, OfTail, Constants
  <2>4. task' \in [Workers -> Plan \union {Killer}]
        /\ worker' \in [Workers -> {"setup", "get", "shoot", "join", "teardown", "exited"}]
        /\ \A v \in Workers : worker'[v] = "shoot" <=> task'[v] \in Plan
      BY <1>1, <2>3, Constants DEF Take, Becomes, TypeOK, PoolTypes
  <2> QED
      BY <1>0, <1>1, <2>3, <2>4 DEF Take, TypeOK, PoolTypes
<1>2. CASE Shoot(w) \/ ShootFails(w)
  <2>1. worker[w] = "shoot" /\ task[w] \in Plan
      BY <1>2 DEF Shoot, ShootFails, TypeOK, PoolTypes
  <2>2. PICK state \in {"get", "teardown", "exited"} : worker' = [worker EXCEPT ![w] = state]
      BY <1>2 DEF Shoot, ShootFails, Loops, Becomes
  <2>3. task' = [task EXCEPT ![w] = Killer]
      BY <1>2 DEF Shoot, ShootFails
  <2>4. task' \in [Workers -> Plan \union {Killer}]
        /\ worker' \in [Workers -> {"setup", "get", "shoot", "join", "teardown", "exited"}]
        /\ \A v \in Workers : worker'[v] = "shoot" <=> task'[v] \in Plan
      BY <2>2, <2>3, Constants DEF TypeOK, PoolTypes
  <2>5. shot' \subseteq Plan /\ missed' \subseteq Plan
      BY <1>2, <2>1 DEF Shoot, ShootFails, TypeOK, PoolTypes
  <2> QED
      BY <1>0, <1>2, <2>4, <2>5 DEF Shoot, ShootFails, TypeOK, PoolTypes
<1>3. CASE Sigint(w)
  <2>1. task[w] \in Plan \union {Killer} /\ (task[w] \in Plan => worker[w] = "shoot")
      BY DEF TypeOK, PoolTypes
  <2>2. shot' \subseteq Plan /\ missed' \subseteq Plan
      BY <1>3, <2>1 DEF Sigint, TypeOK, PoolTypes
  <2>3. PICK state \in {"teardown", "exited"} : worker' = [worker EXCEPT ![w] = state]
      BY <1>3 DEF Sigint, Becomes
  <2>4. task' = [task EXCEPT ![w] = Killer] /\ sigints' = sigints + 1 /\ sigints < opt.sigints
      BY <1>3 DEF Sigint
  <2>5. UNCHANGED <<ready, queue, feed, plugin>>
      BY <1>3 DEF Sigint
  <2>6. task' \in [Workers -> Plan \union {Killer}] /\ sigints' \in 0 .. opt.sigints
    <3>1. task \in [Workers -> Plan \union {Killer}] /\ sigints \in 0 .. opt.sigints /\ opt.sigints \in Nat
        BY Constants DEF TypeOK, PoolTypes
    <3> QED
        BY <2>4, <3>1
  <2>7. worker' \in [Workers -> {"setup", "get", "shoot", "join", "teardown", "exited"}]
        /\ \A v \in Workers : worker'[v] = "shoot" <=> task'[v] \in Plan
      BY <2>3, <2>4, Constants DEF TypeOK, PoolTypes
  <2> QED
      BY <1>0, <2>2, <2>5, <2>6, <2>7 DEF TypeOK, PoolTypes
<1>4. CASE Setup(w) \/ SetupFails(w) \/ GetEmpty(w) \/ Teardown(w)
    BY <1>0, <1>4, Constants DEF Setup, SetupFails, GetEmpty, Teardown, Loops, Becomes, TypeOK, PoolTypes
<1> QED
    BY <1>1, <1>2, <1>3, <1>4 DEF Worker

\* The green threads of a process that shoot.
LEMMA ShootingIs ==
    ASSUME TypeOK, NEW w \in Workers
    PROVE  /\ IsFiniteSet(Shooting(w)) /\ Cardinality(Shooting(w)) \in Nat
           /\ Shooting(w) # {} => Cardinality(Shooting(w)) >= 1
<1>1. IsFiniteSet(Threads)
    BY GreenAssumption, FS_Interval DEF Threads
<1>2. Shooting(w) \subseteq Threads
    BY DEF Shooting
<1>3. IsFiniteSet(Shooting(w))
    BY <1>1, <1>2, FS_Subset
<1> QED
    BY <1>3, FS_CardinalityType, FS_EmptySet

\* What the main green thread moves in a pass.
Moves(w, n, moved) ==
    /\ n \in 1 .. Len(taskQueue) /\ n <= free[w]
    /\ taskQueue' = SubSeq(taskQueue, n + 1, Len(taskQueue))
    /\ free' = [free EXCEPT ![w] = free[w] - n]
    /\ moved \in Seq(Plan) /\ Len(moved) <= n
    /\ \A i \in DOMAIN moved : i \in 1 .. n /\ i \in DOMAIN taskQueue /\ moved[i] = taskQueue[i]
    /\ \A t \in Plan : Has(moved, t) <=> Has(SubSeq(taskQueue, 1, n), t)
    /\ greenQueue' = [greenQueue EXCEPT ![w] = greenQueue[w] \o moved]
    /\ \/ UNCHANGED <<worker, quit>>
       \/ /\ taskQueue[n] = Killer /\ n \in DOMAIN taskQueue
          /\ worker' = [worker EXCEPT ![w] = "join"] /\ quit' = TRUE

LEMMA PassMoves ==
    ASSUME TypeOK, NEW w \in Workers, Pass(w)
    PROVE  \E n \in 1 .. Len(taskQueue), moved \in Seq(Plan) : Moves(w, n, moved)
<1> DEFINE S == Plan \union {Killer}
<1>1. taskQueue \in Seq(S)
    BY DEF TypeOK, PoolTypes
<1>2. PICK n \in 1 .. Len(taskQueue) :
         /\ Passes(w, n)
         /\ LET tasks == SubSeq(taskQueue, 1, n)
            IN  \/ /\ Last(tasks) = Killer /\ Killed(w)
                   /\ greenQueue' = [greenQueue EXCEPT ![w] = greenQueue[w] \o Front(tasks)]
                \/ /\ Last(tasks) # Killer /\ UNCHANGED <<worker, quit>>
                   /\ greenQueue' = [greenQueue EXCEPT ![w] = greenQueue[w] \o tasks]
         /\ taskQueue' = SubSeq(taskQueue, n + 1, Len(taskQueue))
         /\ free' = [free EXCEPT ![w] = free[w] - n]
    BY DEF Pass
<1> DEFINE a == SubSeq(taskQueue, 1, n)
<1>2a. \/ /\ Last(a) = Killer /\ Killed(w)
         /\ greenQueue' = [greenQueue EXCEPT ![w] = greenQueue[w] \o Front(a)]
      \/ /\ Last(a) # Killer /\ UNCHANGED <<worker, quit>>
         /\ greenQueue' = [greenQueue EXCEPT ![w] = greenQueue[w] \o a]
    BY <1>2
<1>2b. /\ taskQueue' = SubSeq(taskQueue, n + 1, Len(taskQueue))
      /\ free' = [free EXCEPT ![w] = free[w] - n]
    BY <1>2
<1>3. a \in Seq(S) /\ Len(a) = n /\ \A i \in 1 .. n : a[i] = taskQueue[i] /\ i \in DOMAIN taskQueue
  <2> HIDE DEF S
  <2> QED
      BY <1>1, OfParts
<1>4. n <= free[w] /\ \A i \in 1 .. n - 1 : taskQueue[i] # Killer
    BY <1>2 DEF Passes
<1>5. n \in Nat \ {0} /\ Last(a) = taskQueue[n] /\ n \in DOMAIN taskQueue
    BY <1>1, <1>3 DEF Last
<1>6. CASE Last(a) # Killer
  <2>1. \A i \in 1 .. n : a[i] \in Plan
      BY <1>1, <1>3, <1>4, <1>5, <1>6
  <2>2. a \in Seq(Plan) /\ DOMAIN a = 1 .. n
    <3>1. a = [i \in 1 .. n |-> a[i]]
        BY <1>3
    <3> HIDE DEF a
    <3> QED
        BY <2>1, <3>1, <1>5
  <2>3. Moves(w, n, a)
    <3>1. /\ \A t \in Plan : Has(a, t) <=> Has(SubSeq(taskQueue, 1, n), t)
          /\ greenQueue' = [greenQueue EXCEPT ![w] = greenQueue[w] \o a] /\ UNCHANGED <<worker, quit>>
        BY <1>2a, <1>6
    <3> HIDE DEF a
    <3> QED
        BY <1>2b, <1>3, <1>4, <1>5, <2>2, <3>1 DEF Moves
  <2> QED
      BY <2>2, <2>3
<1>7. CASE Last(a) = Killer
  <2> DEFINE f == Front(a)
  <2>1. f = SubSeq(a, 1, n - 1)
      BY <1>3 DEF Front
  <2>2. DOMAIN f = 1 .. n - 1 /\ Len(f) = n - 1 /\ \A i \in 1 .. n - 1 : f[i] = a[i]
    <3> HIDE DEF a, f, S
    <3> QED
        BY <1>3, <1>5, <2>1
  <2>3. \A i \in 1 .. n - 1 : a[i] \in Plan
      BY <1>1, <1>3, <1>4, <1>5
  <2>4. f \in Seq(Plan)
    <3>1. f = [i \in 1 .. n - 1 |-> f[i]]
      <4> HIDE DEF a, f, S
      <4> QED
          BY <1>3, <1>5, <2>1
    <3> HIDE DEF a, f
    <3> QED
        BY <2>2, <2>3, <3>1, <1>5
  <2>5. \A t \in Plan : Has(f, t) <=> Has(a, t)
    <3>1. a[n] = Killer /\ Killer \notin Plan /\ DOMAIN a = 1 .. n
        BY <1>3, <1>5, <1>7, Constants
    <3>2. \A i \in 1 .. n : i = n \/ i \in 1 .. n - 1
        BY <1>5
    <3>3. \A i \in 1 .. n - 1 : i \in 1 .. n
        BY <1>5
    <3> HIDE DEF a, f
    <3> QED
        BY <2>2, <3>1, <3>2, <3>3 DEF Has
  <2>6. \A i \in DOMAIN f : i \in 1 .. n /\ i \in DOMAIN taskQueue /\ f[i] = taskQueue[i]
    <3> HIDE DEF f, a, S
    <3> QED
        BY <1>3, <1>5, <2>2
  <2>7. Moves(w, n, f)
    <3>1. /\ greenQueue' = [greenQueue EXCEPT ![w] = greenQueue[w] \o f]
          /\ worker' = [worker EXCEPT ![w] = "join"] /\ quit' = TRUE
        BY <1>2a, <1>7 DEF Killed, Becomes
    <3>2. \A t \in Plan : Has(f, t) <=> Has(SubSeq(taskQueue, 1, n), t)
        BY <2>5
    <3>3. taskQueue[n] = Killer
        BY <1>5, <1>7
    <3> HIDE DEF f, a
    <3>4. Len(f) <= n
        BY <1>5, <2>2
    <3> QED
        BY <1>2b, <1>4, <1>5, <2>4, <2>6, <3>1, <3>2, <3>3, <3>4 DEF Moves
  <2> QED
      BY <2>4, <2>7
<1> QED
    BY <1>6, <1>7

\* A green thread that is through with its task, or found none.
LEMMA ThreadTypes ==
    ASSUME TypeOK, NEW w \in Workers, NEW g \in Threads, NEW state \in {"new", "get", "shoot", "over"},
           NEW t \in Plan \union {Killer}, state = "shoot" <=> t \in Plan, Thread(w, g, state, t)
    PROVE  /\ greenlet' \in [Workers -> [Threads -> {"new", "get", "shoot", "over"}]]
           /\ greenTask' \in [Workers -> [Threads -> Plan \union {Killer}]]
           /\ \A v \in Workers, h \in Threads : greenlet'[v][h] = "shoot" <=> greenTask'[v][h] \in Plan
           /\ \A v \in Workers, h \in Threads : <<v, h>> # <<w, g>> =>
                 greenlet'[v][h] = greenlet[v][h] /\ greenTask'[v][h] = greenTask[v][h]
           /\ greenlet'[w][g] = state /\ greenTask'[w][g] = t
<1>1. /\ greenlet' = [greenlet EXCEPT ![w] = [greenlet[w] EXCEPT ![g] = state]]
      /\ greenTask' = [greenTask EXCEPT ![w] = [greenTask[w] EXCEPT ![g] = t]]
    BY DEF Thread
<1>2. /\ greenlet \in [Workers -> [Threads -> {"new", "get", "shoot", "over"}]]
      /\ greenTask \in [Workers -> [Threads -> Plan \union {Killer}]]
      /\ \A v \in Workers, h \in Threads : greenlet[v][h] = "shoot" <=> greenTask[v][h] \in Plan
    BY DEF TypeOK, GreenTypes
<1>3. /\ greenlet' \in [Workers -> [Threads -> {"new", "get", "shoot", "over"}]]
      /\ greenTask' \in [Workers -> [Threads -> Plan \union {Killer}]]
    BY <1>1, <1>2
<1>4. \A v \in Workers, h \in Threads : <<v, h>> # <<w, g>> =>
         greenlet'[v][h] = greenlet[v][h] /\ greenTask'[v][h] = greenTask[v][h]
    BY <1>1, <1>2
<1>5. greenlet'[w][g] = state /\ greenTask'[w][g] = t
    BY <1>1, <1>2
<1>6. ASSUME NEW v \in Workers, NEW h \in Threads PROVE greenlet'[v][h] = "shoot" <=> greenTask'[v][h] \in Plan
  <2>1. CASE v = w /\ h = g
      BY <1>5, <2>1
  <2>2. CASE <<v, h>> # <<w, g>>
      BY <1>2, <1>4, <2>2
  <2> QED
      BY <2>1, <2>2
<1> QED
    BY <1>3, <1>4, <1>5, <1>6

LEMMA GreenMainTypes ==
    ASSUME TypeOK, Room, NEW w \in Workers, GreenMain(w), opt' = opt
    PROVE  PoolTypes' /\ GreenTypes'
<1> USE Constants DEF TypeOK, queue, feed, pool, plugin, outcome, green
<1>0. Plan' = Plan
    BY DEF Plan
<1>1. CASE Pass(w)
  <2>1. PICK n \in 1 .. Len(taskQueue), moved \in Seq(Plan) : Moves(w, n, moved)
      BY <1>1, PassMoves
  <2>2. taskQueue' \in Seq(Plan \union {Killer}) /\ Len(taskQueue') <= QueueSize
    <3> DEFINE S == Plan \union {Killer}
    <3>1. taskQueue \in Seq(S) /\ Len(taskQueue) <= QueueSize
        BY DEF PoolTypes
    <3>c. Len(taskQueue) \in Nat /\ n \in Nat /\ QueueSize \in Nat
        BY <3>1
    <3> HIDE Constants DEF S
    <3>2. taskQueue' \in Seq(S) /\ Len(taskQueue') = Len(taskQueue) - n
        BY <2>1, <3>1, OfParts DEF Moves
    <3>3. Len(taskQueue') <= QueueSize
        BY <3>c, <3>1, <3>2
    <3> QED
        BY <3>2, <3>3 DEF S
  <2>3. worker' \in [Workers -> {"setup", "get", "shoot", "join", "teardown", "exited"}] /\ quit' \in BOOLEAN
        /\ \A v \in Workers : worker'[v] = "shoot" <=> task[v] \in Plan
      BY <1>1, <2>1 DEF PoolTypes, Moves, Pass
  <2>4. PoolTypes'
      BY <1>0, <1>1, <2>2, <2>3 DEF PoolTypes, Pass
  <2>5. /\ greenQueue[w] \o moved \in Seq(Plan)
        /\ Len(greenQueue[w] \o moved) = Len(greenQueue[w]) + Len(moved)
    <3>1. greenQueue[w] \in Seq(Plan)
        BY DEF GreenTypes
    <3> DEFINE mine == greenQueue[w]
    <3> HIDE Constants DEF TypeOK, mine
    <3>2. mine \in Seq(Plan) /\ moved \in Seq(Plan)
        BY <3>1 DEF mine
    <3>3. mine \o moved \in Seq(Plan) /\ Len(mine \o moved) = Len(mine) + Len(moved)
        BY <3>2
    <3> QED
        BY <3>3 DEF mine
  <2>6. free[w] + Len(greenQueue[w]) <= Greenlets /\ free[w] \in Nat /\ Len(greenQueue[w]) \in Nat
    <3>1. free[w] \in Nat /\ Len(greenQueue[w]) \in Nat /\ Greenlets \in Nat
        BY GreenAssumption DEF GreenTypes
    <3>2. free[w] + Len(greenQueue[w]) + Cardinality(Shooting(w)) <= Greenlets
        BY DEF Room
    <3>3. Cardinality(Shooting(w)) \in Nat
        BY ShootingIs
    <3> HIDE Constants DEF TypeOK
    <3> QED
        BY <3>1, <3>2, <3>3
  <2>7. /\ n \in Nat /\ n <= free[w] /\ Len(moved) \in Nat /\ Len(moved) <= n
        /\ free' = [free EXCEPT ![w] = free[w] - n]
        /\ greenQueue' = [greenQueue EXCEPT ![w] = greenQueue[w] \o moved]
      BY <2>1 DEF Moves
  <2>8. Len(greenQueue[w] \o moved) <= Greenlets /\ free[w] - n \in 0 .. Greenlets
    <3> DEFINE a == Len(greenQueue[w])
               b == Len(moved)
               c == Len(greenQueue[w] \o moved)
               f == free[w]
    <3>1. a \in Nat /\ b \in Nat /\ c = a + b /\ f \in Nat /\ n \in Nat /\ Greenlets \in Nat
        BY <2>5, <2>6, <2>7
    <3>2. f + a <= Greenlets /\ b <= n /\ n <= f
        BY <2>6, <2>7
    <3> HIDE DEF a, b, c, f
    <3>3. c <= Greenlets /\ f - n \in 0 .. Greenlets
        BY ONLY <3>1, <3>2
    <3> QED
        BY <3>3 DEF c, f
  <2> DEFINE longer == greenQueue[w] \o moved
             less == free[w] - n
  <2>9. UNCHANGED <<greenlet, greenTask, dropped>>
      BY <1>1 DEF Pass
  <2>10. greenQueue' \in [Workers -> Seq(Plan)] /\ \A v \in Workers : Len(greenQueue'[v]) <= Greenlets
    <3>1. longer \in Seq(Plan) /\ Len(longer) <= Greenlets /\ greenQueue' = [greenQueue EXCEPT ![w] = longer]
        BY <2>5, <2>7, <2>8
    <3> HIDE DEF longer
    <3> QED
        BY <3>1 DEF GreenTypes
  <2>11. free' \in [Workers -> 0 .. Greenlets]
      BY <2>7, <2>8 DEF GreenTypes
  <2>12. GreenTypes'
      BY <1>0, <2>9, <2>10, <2>11 DEF GreenTypes
  <2> QED
      BY <2>4, <2>12
<1>2. CASE GreenSetup(w) \/ Quits(w) \/ GreenJoined(w)
  <2>1. PoolTypes'
      BY <1>0, <1>2 DEF PoolTypes, GreenSetup, Quits, GreenJoined, Becomes
  <2>2. ToSet(greenQueue[w]) \subseteq Plan
      BY DEF GreenTypes, ToSet
  <2>3. << >> \in Seq(Plan) /\ Len(<< >>) = 0
      BY OfEmpty
  <2>4. CASE GreenJoined(w)
    <3>1. dropped' \subseteq Plan
        BY <2>2, <2>4 DEF GreenJoined, GreenTypes
    <3>2. greenQueue' = [greenQueue EXCEPT ![w] = << >>] /\ UNCHANGED <<greenlet, greenTask, free>>
        BY <2>4 DEF GreenJoined
    <3>3. greenQueue' \in [Workers -> Seq(Plan)] /\ \A v \in Workers : Len(greenQueue'[v]) <= Greenlets
        BY <2>3, <3>2 DEF GreenTypes
    <3> QED
        BY <1>0, <2>1, <3>1, <3>2, <3>3 DEF GreenTypes
  <2>5. CASE GreenSetup(w)
      BY <1>0, <2>1, <2>5 DEF GreenTypes, GreenSetup
  <2>6. CASE Quits(w)
      BY <1>0, <2>1, <2>6 DEF GreenTypes, Quits
  <2> QED
      BY <1>2, <2>1, <2>4, <2>5, <2>6
<1>3. CASE Framed(w)
  <2>1. PoolTypes'
      BY <1>3, WorkerTypes DEF Framed, Worker
  <2>2. GreenTypes'
      BY <1>0, <1>3 DEF GreenTypes, Framed
  <2> QED
      BY <2>1, <2>2
<1> QED
    BY <1>1, <1>2, <1>3 DEF GreenMain

LEMMA GreenThreadTypes ==
    ASSUME TypeOK, Room, NEW w \in Workers, NEW g \in Threads, GreenThread(w, g), opt' = opt
    PROVE  PoolTypes' /\ GreenTypes'
<1> USE Constants DEF TypeOK, queue, feed, pool, plugin, outcome
<1>0. Plan' = Plan /\ Killer \in Plan \union {Killer}
    BY DEF Plan
<1>1. CASE GreenLoops(w, g)
  <2>1. PoolTypes'
      BY <1>0, <1>1 DEF PoolTypes, GreenLoops, poolVars
  <2>2. PICK state \in {"get", "over"} : Thread(w, g, state, Killer)
      BY <1>1 DEF GreenLoops
  <2>3. GreenTypes'
      BY <1>0, <1>1, <2>2, ThreadTypes DEF GreenTypes, GreenLoops
  <2> QED
      BY <2>1, <2>3
<1>2. CASE GreenTake(w, g)
  <2>1. PoolTypes'
      BY <1>0, <1>2 DEF PoolTypes, GreenTake, poolVars
  <2>2. /\ greenQueue[w] \in Seq(Plan) /\ greenQueue[w] # << >>
        /\ greenQueue' = [greenQueue EXCEPT ![w] = Tail(greenQueue[w])]
      BY <1>2 DEF GreenTake, GreenTypes
  <2>3. Head(greenQueue[w]) \in Plan /\ Tail(greenQueue[w]) \in Seq(Plan) /\ Len(Tail(greenQueue[w])) = Len(greenQueue[w]) - 1
      BY <2>2, OfTail
  <2>4. /\ greenlet' \in [Workers -> [Threads -> {"new", "get", "shoot", "over"}]]
        /\ greenTask' \in [Workers -> [Threads -> Plan \union {Killer}]]
        /\ \A v \in Workers, h \in Threads : greenlet'[v][h] = "shoot" <=> greenTask'[v][h] \in Plan
    <3>1. Thread(w, g, "shoot", Head(greenQueue[w]))
        BY <1>2 DEF GreenTake
    <3> QED
        BY <2>3, <3>1, ThreadTypes
  <2>5. greenQueue' \in [Workers -> Seq(Plan)] /\ \A v \in Workers : Len(greenQueue'[v]) <= Greenlets
    <3> DEFINE shorter == Tail(greenQueue[w])
    <3>1. shorter \in Seq(Plan) /\ Len(shorter) <= Greenlets /\ greenQueue' = [greenQueue EXCEPT ![w] = shorter]
        BY <2>2, <2>3 DEF GreenTypes
    <3> HIDE DEF shorter
    <3> QED
        BY <3>1 DEF GreenTypes
  <2>6. UNCHANGED <<free, dropped>>
      BY <1>2 DEF GreenTake
  <2>7. GreenTypes'
      BY <1>0, <2>4, <2>5, <2>6 DEF GreenTypes
  <2> QED
      BY <2>1, <2>7
<1>3. CASE GreenShoot(w, g)
  <2>1. greenTask[w][g] \in Plan /\ g \in Shooting(w)
      BY <1>3 DEF GreenShoot, Running, GreenTypes, Shooting
  <2>2. PoolTypes'
      BY <1>0, <1>3, <2>1 DEF PoolTypes, GreenShoot
  <2>3. PICK state \in {"get", "over"} : Thread(w, g, state, Killer)
      BY <1>3 DEF GreenShoot
  <2>4. free[w] + 1 \in 0 .. Greenlets
    <3>1. Cardinality(Shooting(w)) \in Nat /\ Cardinality(Shooting(w)) >= 1
        BY <2>1, ShootingIs
    <3>2. free[w] \in Nat /\ Len(greenQueue[w]) \in Nat
        BY DEF GreenTypes
    <3>3. free[w] + Len(greenQueue[w]) + Cardinality(Shooting(w)) <= Greenlets
        BY DEF Room
    <3>4. Greenlets \in Nat
        BY GreenAssumption
    <3> HIDE Constants DEF TypeOK
    <3> QED
        BY <3>1, <3>2, <3>3, <3>4
  <2>5. GreenTypes'
      BY <1>0, <1>3, <2>3, <2>4, ThreadTypes DEF GreenTypes, GreenShoot
  <2> QED
      BY <2>2, <2>5
<1> QED
    BY <1>1, <1>2, <1>3 DEF GreenThread

LEMMA GreenSigintTypes ==
    ASSUME TypeOK, Room, Kinds, opt.type = "green", NEW w \in Workers, GreenSigint(w), opt' = opt
    PROVE  PoolTypes' /\ GreenTypes'
<1> USE Constants DEF TypeOK, queue, feed, pool, plugin, outcome
<1>0. Plan' = Plan /\ Killer \in Plan \union {Killer} /\ sigints' \in 0 .. opt.sigints
  <2>1. sigints \in 0 .. opt.sigints /\ opt.sigints \in Nat /\ sigints < opt.sigints /\ sigints' = sigints + 1
      BY DEF GreenSigint, PoolTypes
  <2>2. sigints' \in 0 .. opt.sigints
    <3> HIDE Constants DEF TypeOK
    <3> QED
        BY <2>1
  <2> QED
      BY <2>2 DEF Plan
<1>1. ASSUME NEW g \in Threads, ThreadInterrupted(w, g) PROVE PoolTypes' /\ GreenTypes'
  <2>1. missed' \subseteq Plan
      BY <1>1 DEF ThreadInterrupted, PoolTypes, GreenTypes
  <2>2. PoolTypes'
      BY <1>0, <1>1, <2>1 DEF PoolTypes, ThreadInterrupted
  <2>3. ASSUME greenlet[w][g] = "shoot" PROVE free[w] + 1 \in 0 .. Greenlets
    <3>1. Cardinality(Shooting(w)) \in Nat /\ Cardinality(Shooting(w)) >= 1
        BY <2>3, ShootingIs DEF Shooting
    <3>2. free[w] \in Nat /\ Len(greenQueue[w]) \in Nat
        BY DEF GreenTypes
    <3>3. free[w] + Len(greenQueue[w]) + Cardinality(Shooting(w)) <= Greenlets
        BY DEF Room
    <3>4. Greenlets \in Nat
        BY GreenAssumption
    <3> HIDE Constants DEF TypeOK
    <3> QED
        BY <3>1, <3>2, <3>3, <3>4
  <2>4. free' \in [Workers -> 0 .. Greenlets]
      BY <1>1, <2>3 DEF ThreadInterrupted, GreenTypes
  <2>5. Thread(w, g, "over", Killer)
      BY <1>1 DEF ThreadInterrupted
  <2>6. GreenTypes'
      BY <1>0, <1>1, <2>4, <2>5, ThreadTypes DEF GreenTypes, ThreadInterrupted
  <2> QED
      BY <2>2, <2>6
<1>2. CASE ProcessInterrupted(w)
  <2>1. missed' \subseteq Plan
      BY <1>2 DEF ProcessInterrupted, PoolTypes, GreenTypes
  <2>2. PoolTypes'
    <3>1. worker' = [worker EXCEPT ![w] = "exited"] /\ task' = task
        BY <1>2 DEF ProcessInterrupted, Becomes
    <3>2. task[w] \notin Plan
        BY DEF Kinds, PoolTypes
    <3>3. worker' \in [Workers -> {"setup", "get", "shoot", "join", "teardown", "exited"}]
          /\ \A v \in Workers : worker'[v] = "shoot" <=> task'[v] \in Plan
        BY <3>1, <3>2 DEF PoolTypes
    <3>4. UNCHANGED <<task, ready, queue, feed, plugin, shot>>
        BY <1>2 DEF ProcessInterrupted
    <3> QED
        BY <1>0, <2>1, <3>3, <3>4 DEF PoolTypes
  <2>3. ToSet(greenQueue[w]) \subseteq Plan
      BY DEF GreenTypes, ToSet
  <2>4. GreenTypes'
      BY <1>0, <1>2, <2>3, OfEmpty DEF GreenTypes, ProcessInterrupted
  <2> QED
      BY <2>2, <2>4
<1> QED
    BY <1>1, <1>2 DEF GreenSigint

\* The queue of results holds results, and its overflow is counted.
LEMMA ResultTypes ==
    ASSUME TypeOK, NEW t \in Plan, PutResult(t)
    PROVE  results' \in Seq(Plan) /\ Len(results') <= ResultsSize /\ overflowed' \subseteq Plan
<1>1. results \in Seq(Plan) /\ Len(results) <= ResultsSize /\ overflowed \subseteq Plan
    BY DEF TypeOK, ReaderTypes
<1>2. CASE Len(results) < ResultsSize
  <2>1. results' = Append(results, t) /\ overflowed' = overflowed
      BY <1>2 DEF PutResult
  <2>2. Len(Append(results, t)) = Len(results) + 1 /\ Append(results, t) \in Seq(Plan)
      BY <1>1, OfAppend
  <2>3. Len(results) \in Nat /\ ResultsSize \in Nat
      BY <1>1, Constants
  <2> QED
      BY <1>1, <1>2, <2>1, <2>2, <2>3
<1>3. CASE ~(Len(results) < ResultsSize)
    BY <1>1, <1>3 DEF PutResult
<1> QED
    BY <1>2, <1>3

\* What the steps of the pool leave to the reader.
PoolLeavesTypes ==
    /\ UNCHANGED <<cacher, target, item, records, listener, taken, report, orphaned>>
    /\ \/ UNCHANGED <<results, overflowed>>
       \/ \E t \in Plan : PutResult(t)

LEMMA ReaderTypesLeft ==
    ASSUME TypeOK, PoolLeavesTypes, opt' = opt
    PROVE  ReaderTypes'
<1>1. Plan' = Plan
    BY DEF Plan
<1>2. results' \in Seq(Plan) /\ Len(results') <= ResultsSize /\ overflowed' \subseteq Plan
  <2>1. CASE UNCHANGED <<results, overflowed>>
      BY <2>1 DEF TypeOK, ReaderTypes
  <2>2. CASE \E t \in Plan : PutResult(t)
      BY <2>2, ResultTypes
  <2> QED
      BY <2>1, <2>2 DEF PoolLeavesTypes
<1> QED
    BY <1>1, <1>2 DEF TypeOK, ReaderTypes, PoolLeavesTypes

LEMMA PoolLeaves ==
    ASSUME TypeOK,
           \/ TankNext /\ UNCHANGED <<green, poolLeaves>>
           \/ opt.type = "default" /\ DefaultNext /\ UNCHANGED <<green, poolLeaves>>
           \/ opt.type = "green" /\ GreenNext /\ UNCHANGED poolLeaves
    PROVE  PoolLeavesTypes
<1>0. UNCHANGED <<cacher, target, item, records, listener, taken, report, orphaned>>
    BY DEF poolLeaves
<1>1. CASE TankNext
    BY <1>0, <1>1 DEF PoolLeavesTypes, TankNext, Feeder, Put, PutFull, PutClosed, PutKiller, KillersFull, Joined,
                      Main, Finished, Stop, Stopped, Empty, FeederJoined, outcome
<1>2. CASE DefaultNext
  <2>1. PICK w \in Workers : Worker(w) \/ Sigint(w)
      BY <1>2 DEF DefaultNext
  <2>2. CASE worker[w] = "shoot" /\ (Shoot(w) \/ Sigint(w))
    <3>1. task[w] \in Plan
        BY <2>2 DEF TypeOK, PoolTypes
    <3>2. UNCHANGED <<results, overflowed>> \/ PutResult(task[w])
        BY <2>2 DEF Shoot, Sigint
    <3> QED
        BY <1>0, <3>1, <3>2 DEF PoolLeavesTypes
  <2>3. CASE worker[w] # "shoot" /\ Sigint(w)
      BY <1>0, <2>3 DEF PoolLeavesTypes, Sigint, outcome
  <2>4. CASE Setup(w) \/ SetupFails(w) \/ Take(w) \/ GetEmpty(w) \/ ShootFails(w) \/ Teardown(w)
      BY <1>0, <2>4 DEF PoolLeavesTypes, Setup, SetupFails, Take, GetEmpty, ShootFails, Teardown, outcome
  <2> QED
      BY <2>1, <2>2, <2>3, <2>4 DEF Worker, Shoot
<1>3. CASE GreenNext
  <2>1. PICK w \in Workers : GreenMain(w) \/ GreenSigint(w) \/ \E g \in Threads : GreenThread(w, g)
      BY <1>3 DEF GreenNext
  <2>2. CASE GreenMain(w)
      BY <1>0, <2>2 DEF PoolLeavesTypes, GreenMain, GreenSetup, Pass, Quits, GreenJoined, Framed, SetupFails, Teardown, outcome
  <2>3. CASE GreenSigint(w)
      BY <1>0, <2>3 DEF PoolLeavesTypes, GreenSigint, ProcessInterrupted, ThreadInterrupted
  <2>4. ASSUME NEW g \in Threads, GreenThread(w, g) PROVE PoolLeavesTypes
    <3>1. CASE GreenLoops(w, g) \/ GreenTake(w, g)
        BY <1>0, <3>1 DEF PoolLeavesTypes, GreenLoops, GreenTake, poolVars, outcome
    <3>2. CASE GreenShoot(w, g)
      <4>1. greenTask[w][g] \in Plan
          BY <3>2 DEF GreenShoot, Running, TypeOK, GreenTypes
      <4>2. UNCHANGED <<results, overflowed>> \/ PutResult(greenTask[w][g])
          BY <3>2 DEF GreenShoot
      <4> QED
          BY <1>0, <4>1, <4>2 DEF PoolLeavesTypes
    <3> QED
        BY <2>4, <3>1, <3>2 DEF GreenThread
  <2> QED
      BY <2>1, <2>2, <2>3, <2>4
<1> QED
    BY <1>1, <1>2, <1>3

LEMMA ReaderStepTypes ==
    ASSUME TypeOK, Reader!ReaderNext, UNCHANGED readerLeaves
    PROVE  PoolTypes' /\ GreenTypes' /\ ReaderTypes'
<1>1. Plan' = Plan /\ UNCHANGED closeEvent
    BY DEF Plan, readerLeaves, Reader!ReaderNext, Reader!Cacher, Reader!Listener, Reader!Get, Reader!AppendItem,
           Reader!LookClosed, Reader!Swap, Reader!Write, Reader!Closed, Reader!CacherJoined
<1>2. PoolTypes' /\ GreenTypes'
    BY <1>1 DEF TypeOK, PoolTypes, GreenTypes, readerLeaves, queue, feed, pool, green
<1>3. overflowed' \subseteq Plan
    BY DEF TypeOK, ReaderTypes, readerLeaves
<1> DEFINE P == Plan
<1>4. /\ results \in Seq(P) /\ item \in Seq(P) /\ records \in Seq(P) /\ taken \in Seq(P) /\ report \in Seq(P) /\ orphaned \in Seq(P)
      /\ << >> \in Seq(P)
      /\ Len(results) <= ResultsSize /\ Len(item) <= 1
      /\ cacher \in {"get", "append", "empty", "over"}
      /\ target \in {"records", "taken", "orphan"}
      /\ listener \in {"look", "convert", "join", "over"}
    BY DEF TypeOK, ReaderTypes
<1> HIDE DEF P
<1>5. /\ results' \in Seq(P) /\ item' \in Seq(P) /\ records' \in Seq(P) /\ taken' \in Seq(P) /\ report' \in Seq(P) /\ orphaned' \in Seq(P)
      /\ Len(results') <= ResultsSize /\ Len(item') <= 1
      /\ cacher' \in {"get", "append", "empty", "over"}
      /\ target' \in {"records", "taken", "orphan"}
      /\ listener' \in {"look", "convert", "join", "over"}
  <2>1. CASE Reader!Get
    <3>1. CASE results = << >>
        BY <1>4, <2>1, <3>1 DEF Reader!Get, Reader!listening
    <3>2. CASE results # << >>
      <4>1. Tail(results) \in Seq(P) /\ Head(results) \in P /\ Len(Tail(results)) = Len(results) - 1
          BY <1>4, <3>2, OfTail
      <4>2. <<Head(results)>> \in Seq(P) /\ Len(<<Head(results)>>) = 1
          BY <4>1
      <4>3. Len(results) \in Nat /\ ResultsSize \in Nat
          BY <1>4, Constants
      <4>4. item' = <<Head(results)>> /\ results' = Tail(results) /\ cacher' = "append"
          BY <2>1, <3>2 DEF Reader!Get
      <4>5. UNCHANGED <<target, records, orphaned, listener, taken, report>>
          BY <2>1 DEF Reader!Get, Reader!listening
      <4> HIDE DEF Reader!Get
      <4> QED
          BY <1>4, <4>1, <4>2, <4>3, <4>4, <4>5
    <3> QED
        BY <3>1, <3>2
  <2>2. CASE Reader!AppendItem
    <3>1. item' = << >> /\ Len(<< >>) = 0 /\ target' = "records" /\ cacher' = "get" /\ UNCHANGED <<listener, report, results>>
        BY <2>2, OfEmpty DEF Reader!AppendItem
    <3>2. records \o item \in Seq(P) /\ taken \o item \in Seq(P) /\ orphaned \o item \in Seq(P)
        BY <1>4
    <3>3. records' \in Seq(P) /\ taken' \in Seq(P) /\ orphaned' \in Seq(P)
        BY <1>4, <2>2, <3>2 DEF Reader!AppendItem
    <3> QED
        BY <1>4, <3>1, <3>3
  <2>3. CASE Reader!LookClosed
      BY <1>4, <2>3 DEF Reader!LookClosed, Reader!listening
  <2>4. CASE Reader!Swap
      BY <1>4, <2>4 DEF Reader!Swap
  <2>5. CASE Reader!Write
      BY <1>4, <2>5 DEF Reader!Write
  <2>6. CASE Reader!Closed \/ Reader!CacherJoined
      BY <1>4, <2>6 DEF Reader!Closed, Reader!CacherJoined, Reader!caching
  <2> QED
      BY <2>1, <2>2, <2>3, <2>4, <2>5, <2>6 DEF Reader!ReaderNext, Reader!Cacher, Reader!Listener
<1> QED
    BY <1>1, <1>2, <1>3, <1>5 DEF ReaderTypes, P

LEMMA NextTypes ==
    ASSUME TypeOK, Fed, Kinds, Room, [Next]_vars
    PROVE  TypeOK'
<1>0. opt' = opt
    BY OptStays
<1>1. CASE TankNext /\ UNCHANGED <<green, poolLeaves>>
  <2>1. PoolTypes'
      BY <1>0, <1>1, FeederTypes, MainTypes DEF TankNext
  <2>2. GreenTypes'
      BY <1>0, <1>1 DEF TypeOK, GreenTypes, green, Plan
  <2> QED
      BY <1>0, <1>1, <2>1, <2>2, PoolLeaves, ReaderTypesLeft DEF TypeOK
<1>2. CASE opt.type = "default" /\ DefaultNext /\ UNCHANGED <<green, poolLeaves>>
  <2>1. PoolTypes'
    <3>1. PICK w \in Workers : Worker(w) \/ Sigint(w)
        BY <1>2 DEF DefaultNext
    <3> QED
        BY <1>0, <3>1, WorkerTypes
  <2>2. GreenTypes'
      BY <1>0, <1>2 DEF TypeOK, GreenTypes, green, Plan
  <2> QED
      BY <1>0, <1>2, <2>1, <2>2, PoolLeaves, ReaderTypesLeft DEF TypeOK
<1>3. CASE opt.type = "green" /\ GreenNext /\ UNCHANGED poolLeaves
  <2>1. PoolTypes' /\ GreenTypes'
      BY <1>0, <1>3, GreenMainTypes, GreenThreadTypes, GreenSigintTypes DEF GreenNext
  <2> QED
      BY <1>0, <1>3, <2>1, PoolLeaves, ReaderTypesLeft DEF TypeOK
<1>4. CASE Reader!ReaderNext /\ UNCHANGED readerLeaves
  <2>1. PoolTypes' /\ GreenTypes' /\ ReaderTypes'
      BY <1>4, ReaderStepTypes
  <2> QED
      BY <2>1 DEF TypeOK
<1>5. CASE UNCHANGED vars
  <2>1. UNCHANGED <<poolVars, green, poolLeaves, closeEvent, opt>> /\ Plan' = Plan
      BY <1>5 DEF vars, poolVars, poolLeaves, plugin, Plan
  <2>2. PoolTypes'
      BY <2>1 DEF TypeOK, PoolTypes, poolVars, queue, feed, pool, plugin, outcome
  <2>3. GreenTypes'
      BY <2>1 DEF TypeOK, GreenTypes, green
  <2>4. ReaderTypes'
      BY <2>1 DEF TypeOK, ReaderTypes, poolVars, outcome, poolLeaves
  <2> QED
      BY <2>2, <2>3, <2>4 DEF TypeOK
<1> QED
    BY <1>1, <1>2, <1>3, <1>4, <1>5 DEF Next

-----------------------------------------------------------------------------
(***************************************************************************)
(* What any step does to the places of the tasks                           *)
(***************************************************************************)

green3 == <<greenTask, greenQueue, dropped>>
ends == <<shot, missed>>

\* The end of a shot.
Ends(t) ==
    \/ shot' = shot \union {t} /\ UNCHANGED missed
    \/ missed' = missed \union {t} /\ UNCHANGED shot

Still == UNCHANGED <<taskQueue, next, task, green3, ends>>

PutsTask ==
    /\ next \in Plan /\ taskQueue' = Append(taskQueue, next) /\ next' = next + 1
    /\ UNCHANGED <<task, green3, ends>>

PutsKiller ==
    /\ next = opt.tasks + 1 /\ taskQueue' = Append(taskQueue, Killer)
    /\ UNCHANGED <<next, task, green3, ends>>

Takes(w) ==
    /\ task[w] = Killer /\ taskQueue # << >> /\ taskQueue' = Tail(taskQueue)
    /\ task' = [task EXCEPT ![w] = Head(taskQueue)]
    /\ UNCHANGED <<next, green3, ends>>

Shoots(w) ==
    /\ task[w] \in Plan /\ Ends(task[w])
    /\ task' = [task EXCEPT ![w] = Killer]
    /\ UNCHANGED <<taskQueue, next, green3>>

Empties ==
    /\ taskQueue # << >> /\ taskQueue' = Tail(taskQueue)
    /\ missed' = missed \union ({Head(taskQueue)} \ {Killer})
    /\ UNCHANGED <<next, task, green3, shot>>

MovesTasks(w) ==
    /\ \E n \in 1 .. Len(taskQueue), moved \in Seq(Plan) : Moves(w, n, moved)
    /\ UNCHANGED <<next, task, greenTask, dropped, ends>>

GreenTakes(w, g) ==
    /\ greenTask[w][g] = Killer /\ greenQueue[w] # << >>
    /\ greenQueue' = [greenQueue EXCEPT ![w] = Tail(greenQueue[w])]
    /\ greenTask' = [greenTask EXCEPT ![w][g] = Head(greenQueue[w])]
    /\ UNCHANGED <<taskQueue, next, task, dropped, ends>>

GreenShoots(w, g) ==
    /\ greenTask[w][g] \in Plan /\ Ends(greenTask[w][g])
    /\ greenTask' = [greenTask EXCEPT ![w][g] = Killer]
    /\ UNCHANGED <<taskQueue, next, task, greenQueue, dropped>>

Loses(w) ==
    /\ missed' = missed \union ({greenTask[w][g] : g \in Threads} \ {Killer})
    /\ dropped' = dropped \union ToSet(greenQueue[w])
    /\ greenQueue' = [greenQueue EXCEPT ![w] = << >>]
    /\ greenTask' = [greenTask EXCEPT ![w] = [g \in Threads |-> Killer]]
    /\ UNCHANGED <<taskQueue, next, task, shot>>

TaskStep ==
    \/ Still \/ PutsTask \/ PutsKiller \/ Empties
    \/ \E w \in Workers : Takes(w) \/ Shoots(w) \/ MovesTasks(w) \/ Loses(w)
    \/ \E w \in Workers, g \in Threads : GreenTakes(w, g) \/ GreenShoots(w, g)

LEMMA TankTaskStep ==
    ASSUME TypeOK, Fed, TankNext, UNCHANGED green
    PROVE  TaskStep
<1> USE DEF green, green3, ends, queue, feed, pool, plugin, outcome, TaskStep
<1>1. CASE Put
  <2>1. next \in Plan
      BY <1>1 DEF Put, Fed, TypeOK, PoolTypes, Plan
  <2> QED
      BY <1>1, <2>1 DEF Put, NextTask, PutsTask
<1>2. CASE PutKiller
    BY <1>2 DEF PutKiller, Fed, PutsKiller
<1>3. CASE Empty
    BY <1>3 DEF Empty, Empties, Still
<1>4. CASE PutFull \/ PutClosed \/ KillersFull \/ Joined \/ Finished \/ Stop \/ Stopped \/ FeederJoined
    BY <1>4 DEF PutFull, PutClosed, KillersFull, Joined, Finished, Stop, Stopped, FeederJoined, Still
<1> QED
    BY <1>1, <1>2, <1>3, <1>4 DEF TankNext, Feeder, Main

LEMMA DefaultTaskStep ==
    ASSUME TypeOK, NEW w \in Workers, Worker(w) \/ Sigint(w), UNCHANGED green
    PROVE  TaskStep
<1> USE DEF green, green3, ends, queue, feed, pool, plugin, outcome, TaskStep
<1>1. task \in [Workers -> Plan \union {Killer}] /\ (worker[w] = "shoot" <=> task[w] \in Plan)
    BY DEF TypeOK, PoolTypes
<1>2. CASE Take(w)
    BY <1>1, <1>2 DEF Take, Takes
<1>3. CASE Shoot(w) \/ ShootFails(w)
    BY <1>1, <1>3 DEF Shoot, ShootFails, Shoots, Ends
<1>4. CASE Sigint(w) /\ worker[w] = "shoot"
  <2>1. Shoots(w)
      BY <1>1, <1>4 DEF Sigint, Shoots, Ends
  <2> QED
      BY <2>1
<1>5. CASE Sigint(w) /\ worker[w] # "shoot"
  <2>1. task' = task
      BY <1>1, <1>5 DEF Sigint
  <2>2. Still
      BY <1>5, <2>1 DEF Sigint, Still
  <2> QED
      BY <2>2
<1>6. CASE Setup(w) \/ SetupFails(w) \/ GetEmpty(w) \/ Teardown(w)
    BY <1>6 DEF Setup, SetupFails, GetEmpty, Teardown, Still
<1> QED
    BY <1>2, <1>3, <1>4, <1>5, <1>6 DEF Worker

LEMMA GreenTaskStep ==
    ASSUME TypeOK, NEW w \in Workers,
           GreenMain(w) \/ GreenSigint(w) \/ \E g \in Threads : GreenThread(w, g)
    PROVE  TaskStep
<1> USE DEF green, green3, ends, queue, feed, pool, plugin, outcome, TaskStep
<1>1. /\ greenTask \in [Workers -> [Threads -> Plan \union {Killer}]]
      /\ \A g \in Threads : greenlet[w][g] = "shoot" <=> greenTask[w][g] \in Plan
    BY DEF TypeOK, GreenTypes
<1>2. CASE GreenJoined(w)
  <2>1. \A g \in Threads : greenTask[w][g] = Killer
      BY <1>1, <1>2 DEF GreenJoined
  <2>2. greenTask[w] = [g \in Threads |-> Killer]
      BY <1>1, <2>1
  <2>3. greenTask = [greenTask EXCEPT ![w] = [g \in Threads |-> Killer]]
      BY <1>1, <2>2
  <2>4. {greenTask[w][g] : g \in Threads} \ {Killer} = {}
      BY <2>1
  <2>5. Loses(w)
      BY <1>2, <2>3, <2>4 DEF GreenJoined, Loses
  <2> QED
      BY <2>5
<1>3. CASE Pass(w)
  <2>1. MovesTasks(w)
      BY <1>3, PassMoves DEF Pass, MovesTasks
  <2> QED
      BY <2>1
<1>4. CASE GreenSetup(w) \/ Quits(w) \/ Framed(w)
    BY <1>4 DEF GreenSetup, Quits, Framed, SetupFails, Teardown, Still
<1>5. ASSUME NEW g \in Threads, greenTask' = [greenTask EXCEPT ![w][g] = Killer], greenTask[w][g] \notin Plan
      PROVE  greenTask' = greenTask
    BY <1>1, <1>5
<1>6. ASSUME NEW g \in Threads, GreenThread(w, g) PROVE TaskStep
  <2>1. CASE GreenLoops(w, g)
    <3>1. greenTask' = [greenTask EXCEPT ![w][g] = Killer] /\ greenTask[w][g] \notin Plan
        BY <1>1, <2>1 DEF GreenLoops, Thread, Running
    <3>2. Still
        BY <1>5, <2>1, <3>1 DEF GreenLoops, poolVars, Still
    <3> QED
        BY <3>2
  <2>2. CASE GreenTake(w, g)
    <3>1. GreenTakes(w, g)
        BY <1>1, <2>2 DEF GreenTake, GreenTakes, Thread, Running, poolVars
    <3> QED
        BY <3>1
  <2>3. CASE GreenShoot(w, g)
    <3>1. GreenShoots(w, g)
        BY <1>1, <2>3 DEF GreenShoot, GreenShoots, Thread, Running, Ends
    <3> QED
        BY <3>1
  <2> QED
      BY <1>6, <2>1, <2>2, <2>3 DEF GreenThread
<1>7. ASSUME NEW g \in Threads, ThreadInterrupted(w, g) PROVE TaskStep
  <2>1. greenTask' = [greenTask EXCEPT ![w][g] = Killer] /\ missed' = missed \union ({greenTask[w][g]} \ {Killer})
      BY <1>7 DEF ThreadInterrupted, Thread
  <2>2. CASE greenTask[w][g] \in Plan
    <3>1. GreenShoots(w, g)
        BY <1>7, <2>1, <2>2, Constants DEF ThreadInterrupted, GreenShoots, Ends
    <3> QED
        BY <3>1
  <2>3. CASE greenTask[w][g] \notin Plan
    <3>1. Still
        BY <1>1, <1>5, <1>7, <2>1, <2>3 DEF ThreadInterrupted, Still
    <3> QED
        BY <3>1
  <2> QED
      BY <2>2, <2>3
<1>8. CASE GreenSigint(w) /\ ProcessInterrupted(w)
  <2>1. Loses(w)
      BY <1>8 DEF ProcessInterrupted, Loses
  <2> QED
      BY <2>1
<1> QED
    BY <1>2, <1>3, <1>4, <1>6, <1>7, <1>8 DEF GreenMain, GreenSigint

LEMMA EveryTaskStep ==
    ASSUME TypeOK, Fed, [Next]_vars
    PROVE  TaskStep
<1>1. CASE TankNext /\ UNCHANGED <<green, poolLeaves>>
    BY <1>1, TankTaskStep
<1>2. CASE DefaultNext /\ UNCHANGED <<green, poolLeaves>>
    BY <1>2, DefaultTaskStep DEF DefaultNext
<1>3. CASE GreenNext
    BY <1>3, GreenTaskStep DEF GreenNext
<1>4. CASE UNCHANGED readerLeaves
    BY <1>4 DEF readerLeaves, queue, feed, pool, green, TaskStep, Still, green3, ends
<1>5. CASE UNCHANGED vars
    BY <1>5 DEF vars, poolVars, queue, feed, pool, outcome, green, TaskStep, Still, green3, ends
<1> QED
    BY <1>1, <1>2, <1>3, <1>4, <1>5 DEF Next

-----------------------------------------------------------------------------
(***************************************************************************)
(* The places of the tasks                                                 *)
(***************************************************************************)

Places == TypeOK /\ Ordered /\ Alone /\ Once

LEMMA PlaceTypes ==
    ASSUME TypeOK
    PROVE  /\ taskQueue \in Seq(Plan \union {Killer}) /\ next \in 1 .. opt.tasks + 1
           /\ task \in [Workers -> Plan \union {Killer}]
           /\ greenTask \in [Workers -> [Threads -> Plan \union {Killer}]]
           /\ greenQueue \in [Workers -> Seq(Plan)]
           /\ shot \subseteq Plan /\ missed \subseteq Plan /\ dropped \subseteq Plan
BY DEF TypeOK, PoolTypes, GreenTypes

\* A task is in one place at most.
LEMMA OnePlace ==
    ASSUME TypeOK, Once, NEW t \in Plan
    PROVE  /\ Queued(t) => ~Held(t) /\ ~GreenHeld(t) /\ ~GreenQueued(t) /\ t \notin shot /\ t \notin missed /\ t \notin dropped /\ t < next
           /\ Held(t) => ~GreenHeld(t) /\ ~GreenQueued(t) /\ t \notin shot /\ t \notin missed /\ t \notin dropped /\ t < next
           /\ GreenHeld(t) => ~GreenQueued(t) /\ t \notin shot /\ t \notin missed /\ t \notin dropped /\ t < next
           /\ GreenQueued(t) => t \notin shot /\ t \notin missed /\ t \notin dropped /\ t < next
<1>1. Bit(Queued(t)) + Bit(Held(t)) + Bit(GreenHeld(t)) + Bit(GreenQueued(t))
            + Bit(t \in shot) + Bit(t \in missed) + Bit(t \in dropped) = Bit(t < next)
    BY DEF Once
<1> HIDE DEF Queued, Held, GreenHeld, GreenQueued
<1> QED
    BY <1>1 DEF Bit

\* A process is given another task.
LEMMA HeldNow ==
    ASSUME TypeOK, Alone, NEW w \in Workers, NEW x, task' = [task EXCEPT ![w] = x], NEW t \in Plan
    PROVE  Held(t)' <=> (t = x \/ (Held(t) /\ t # task[w]))
<1>1. task \in [Workers -> Plan \union {Killer}] /\ Killer \notin Plan
    BY PlaceTypes, Constants
<1>2. \A u, v \in Workers : task[u] = task[v] /\ task[u] # Killer => u = v
    BY DEF Alone
<1> QED
    BY <1>1, <1>2 DEF Held

\* A green thread is given another task.
LEMMA GreenHeldNow ==
    ASSUME TypeOK, Alone, NEW w \in Workers, NEW g \in Threads, NEW x,
           greenTask' = [greenTask EXCEPT ![w][g] = x], NEW t \in Plan
    PROVE  GreenHeld(t)' <=> (t = x \/ (GreenHeld(t) /\ t # greenTask[w][g]))
<1>1. greenTask \in [Workers -> [Threads -> Plan \union {Killer}]] /\ Killer \notin Plan
    BY PlaceTypes, Constants
<1>2. \A u, v \in Workers, i, j \in Threads : greenTask[u][i] = greenTask[v][j] /\ greenTask[u][i] # Killer => u = v /\ i = j
    BY DEF Alone
<1>3. greenTask' = [greenTask EXCEPT ![w] = [greenTask[w] EXCEPT ![g] = x]]
    OBVIOUS
<1>4. greenTask'[w][g] = x /\ \A v \in Workers, h \in Threads : v # w \/ h # g => greenTask'[v][h] = greenTask[v][h]
    BY <1>1, <1>3
<1> QED
    BY <1>1, <1>2, <1>4 DEF GreenHeld

\* A process is given another green_queue.
LEMMA GreenQueuedNow ==
    ASSUME TypeOK, NEW w \in Workers, NEW q, greenQueue' = [greenQueue EXCEPT ![w] = q], NEW t
    PROVE  GreenQueued(t)' <=> (Has(q, t) \/ \E v \in Workers \ {w} : Has(greenQueue[v], t))
<1>1. greenQueue \in [Workers -> Seq(Plan)]
    BY PlaceTypes
<1>2. greenQueue'[w] = q /\ \A v \in Workers \ {w} : greenQueue'[v] = greenQueue[v]
    BY <1>1
<1>3. GreenQueued(t)' <=> \E v \in Workers : Has(greenQueue'[v], t)
    BY DEF GreenQueued, Has
<1> QED
    BY <1>2, <1>3

\* No two processes have a task in their green_queues.
LEMMA OneGreenQueue ==
    ASSUME TypeOK, Alone, NEW t \in Plan, NEW w \in Workers, NEW v \in Workers,
           Has(greenQueue[w], t), Has(greenQueue[v], t)
    PROVE  w = v
BY DEF Alone, Has

LEMMA GreenQueuesSingle ==
    ASSUME Alone, NEW w \in Workers
    PROVE  IsInjective(greenQueue[w])
BY DEF Alone, IsInjective

LEMMA OnceNow ==
    ASSUME opt' = opt,
           \A t \in Plan :
              Bit(Queued(t)') + Bit(Held(t)') + Bit(GreenHeld(t)') + Bit(GreenQueued(t)')
                + Bit(t \in shot') + Bit(t \in missed') + Bit(t \in dropped') = Bit(t < next')
    PROVE  Once'
<1>1. Plan' = Plan
    BY DEF Plan
<1> QED
    BY <1>1 DEF Once, Bit

LEMMA PlacesStill ==
    ASSUME Places, opt' = opt, Still
    PROVE  Ordered' /\ Alone' /\ Once'
<1>1. Plan' = Plan
    BY DEF Plan
<1>2. UNCHANGED <<taskQueue, next, task, greenTask, greenQueue, dropped, shot, missed>>
    BY DEF Still, green3, ends
<1>3. Ordered'
    BY <1>2 DEF Places, Ordered, Has
<1>4. Alone'
    BY <1>2 DEF Places, Alone
<1>5. Once'
  <2>1. ASSUME NEW t \in Plan
        PROVE  /\ Queued(t)' <=> Queued(t)
               /\ Held(t)' <=> Held(t)
               /\ GreenHeld(t)' <=> GreenHeld(t)
               /\ GreenQueued(t)' <=> GreenQueued(t)
      BY <1>2 DEF Queued, Held, GreenHeld, GreenQueued, Has
  <2> QED
      BY <1>2, <2>1, OnceNow DEF Places, Once, Bit
<1> QED
    BY <1>3, <1>4, <1>5

LEMMA PlacesPutsTask ==
    ASSUME Places, opt' = opt, PutsTask
    PROVE  Ordered' /\ Alone' /\ Once'
<1> USE DEF green3, ends
<1>1. Plan' = Plan /\ TypeOK /\ Ordered /\ Alone /\ Once
    BY DEF Plan, Places
<1>2. next \in Plan /\ next \in Nat /\ opt.tasks \in Nat /\ next <= opt.tasks /\ Killer = 0 /\ Plan \subseteq Nat /\ next # Killer
    BY <1>1, Constants DEF PutsTask, Plan
<1>3. taskQueue \in Seq(Plan \union {Killer}) /\ taskQueue' = Append(taskQueue, next) /\ next' = next + 1
    BY <1>1, PlaceTypes DEF PutsTask
<1>4. \A t : Has(taskQueue', t) <=> Has(taskQueue, t) \/ t = next
    BY <1>2, <1>3, OfAppend
<1>5. ~Has(taskQueue, Killer)
    BY <1>1, <1>2 DEF Ordered
<1>6. \A i \in DOMAIN taskQueue' :
          \/ i \in DOMAIN taskQueue /\ taskQueue'[i] = taskQueue[i]
          \/ i = Len(taskQueue) + 1 /\ taskQueue'[i] = next
    BY <1>3
<1> DEFINE S == Plan \union {Killer}
<1>6a. \A i \in DOMAIN taskQueue : taskQueue[i] \in Nat
  <2>1. taskQueue \in Seq(S) /\ S \subseteq Nat
      BY <1>2, <1>3
  <2> HIDE DEF S
  <2>2. \A i \in DOMAIN taskQueue : taskQueue[i] \in S
      BY <2>1
  <2> QED
      BY <2>1, <2>2
<1>7. \A i \in DOMAIN taskQueue : taskQueue[i] < next /\ taskQueue[i] # Killer
    BY <1>1, <1>5 DEF Ordered, Has
<1>8. Ordered'
  <2>1. ASSUME NEW i \in DOMAIN taskQueue', NEW j \in DOMAIN taskQueue', i < j
        PROVE  taskQueue'[i] # Killer /\ taskQueue'[i] < taskQueue'[j]
    <3>1. i \in DOMAIN taskQueue /\ Len(taskQueue) \in Nat
        BY <1>3, <2>1
    <3>2. CASE j \in DOMAIN taskQueue
        BY <1>1, <1>3, <1>6, <1>7, <2>1, <3>1, <3>2 DEF Ordered
    <3>3. CASE j = Len(taskQueue) + 1
        BY <1>3, <1>6, <1>7, <3>1, <3>3
    <3> QED
        BY <1>6, <2>1, <3>2, <3>3
  <2>2. \A i \in DOMAIN taskQueue' : taskQueue'[i] < next'
      BY <1>2, <1>3, <1>6, <1>6a, <1>7
  <2>3. ~Has(taskQueue', Killer)
      BY <1>2, <1>4, <1>5
  <2>4. Has(taskQueue', Killer) = Has(taskQueue, Killer)'
      BY DEF Has
  <2> QED
      BY <2>1, <2>2, <2>3, <2>4 DEF Ordered
<1>9. Alone'
    BY <1>1 DEF PutsTask, Alone
<1>10. Once'
  <2>1. ASSUME NEW t \in Plan
        PROVE  /\ Queued(t)' <=> Queued(t) \/ t = next
               /\ Held(t)' <=> Held(t)
               /\ GreenHeld(t)' <=> GreenHeld(t)
               /\ GreenQueued(t)' <=> GreenQueued(t)
               /\ (t \in shot') <=> (t \in shot)
               /\ (t \in missed') <=> (t \in missed)
               /\ (t \in dropped') <=> (t \in dropped)
               /\ (t < next') <=> (t < next \/ t = next)
    <3>1. Queued(t)' <=> Queued(t) \/ t = next
        BY <1>4 DEF Queued, Has
    <3>2. (t < next') <=> (t < next \/ t = next)
        BY <1>2, <1>3
    <3>3. (Held(t)' <=> Held(t)) /\ (GreenHeld(t)' <=> GreenHeld(t)) /\ (GreenQueued(t)' <=> GreenQueued(t))
        BY DEF PutsTask, Held, GreenHeld, GreenQueued, Has
    <3>4. shot' = shot /\ missed' = missed /\ dropped' = dropped
        BY DEF PutsTask
    <3> QED
        BY <3>1, <3>2, <3>3, <3>4
  <2>2. SUFFICES ASSUME NEW t \in Plan
        PROVE  Bit(Queued(t)') + Bit(Held(t)') + Bit(GreenHeld(t)') + Bit(GreenQueued(t)')
            + Bit(t \in shot') + Bit(t \in missed') + Bit(t \in dropped') = Bit(t < next')
      BY OnceNow
  <2>3. Bit(Queued(t)) + Bit(Held(t)) + Bit(GreenHeld(t)) + Bit(GreenQueued(t))
            + Bit(t \in shot) + Bit(t \in missed) + Bit(t \in dropped) = Bit(t < next)
      BY <1>1 DEF Once
  <2>4. ~(next < next)
      BY <1>2
  <2> QED
      BY <2>1, <2>3, <2>4 DEF Bit
<1> QED
    BY <1>8, <1>9, <1>10

LEMMA PlacesPutsKiller ==
    ASSUME Places, opt' = opt, PutsKiller
    PROVE  Ordered' /\ Alone' /\ Once'
<1> USE DEF green3, ends
<1>1. Plan' = Plan /\ TypeOK /\ Ordered /\ Alone /\ Once
    BY DEF Plan, Places
<1>2. next = opt.tasks + 1 /\ opt.tasks \in Nat /\ Killer = 0 /\ Plan \subseteq Nat /\ Killer \notin Plan
    BY <1>1, Constants DEF PutsKiller
<1>3. taskQueue \in Seq(Plan \union {Killer}) /\ taskQueue' = Append(taskQueue, Killer) /\ next' = next
    BY <1>1, PlaceTypes DEF PutsKiller
<1>4. \A t : Has(taskQueue', t) <=> Has(taskQueue, t) \/ t = Killer
    BY <1>3, OfAppend
<1>5. \A i \in DOMAIN taskQueue' :
          \/ i \in DOMAIN taskQueue /\ taskQueue'[i] = taskQueue[i]
          \/ i = Len(taskQueue) + 1 /\ taskQueue'[i] = Killer
    BY <1>3
<1>6. Ordered'
  <2>1. ASSUME NEW i \in DOMAIN taskQueue', NEW j \in DOMAIN taskQueue', i < j, taskQueue'[j] # Killer
        PROVE  taskQueue'[i] # Killer /\ taskQueue'[i] < taskQueue'[j]
    <3>1. i \in DOMAIN taskQueue /\ j \in DOMAIN taskQueue
        BY <1>3, <1>5, <2>1
    <3> QED
        BY <1>1, <1>3, <1>5, <2>1, <3>1 DEF Ordered
  <2>2. \A i \in DOMAIN taskQueue' : taskQueue'[i] < next'
      BY <1>1, <1>2, <1>3, <1>5 DEF Ordered
  <2> QED
      BY <1>2, <1>3, <2>1, <2>2 DEF Ordered
<1>7. Alone'
    BY <1>1 DEF PutsKiller, Alone
<1>8. Once'
  <2>1. ASSUME NEW t \in Plan
        PROVE  /\ Queued(t)' <=> Queued(t)
               /\ Held(t)' <=> Held(t)
               /\ GreenHeld(t)' <=> GreenHeld(t)
               /\ GreenQueued(t)' <=> GreenQueued(t)
               /\ (t \in shot') <=> (t \in shot)
               /\ (t \in missed') <=> (t \in missed)
               /\ (t \in dropped') <=> (t \in dropped)
               /\ (t < next') <=> (t < next)
      BY <1>2, <1>3, <1>4 DEF PutsKiller, Queued, Held, GreenHeld, GreenQueued, Has
  <2> QED
      BY <1>1, <2>1 DEF Once, Bit
<1> QED
    BY <1>6, <1>7, <1>8

\* The first task is taken from the queue.
LEMMA OrderedTail ==
    ASSUME TypeOK, Ordered, taskQueue # << >>, taskQueue' = Tail(taskQueue), next' = next, opt' = opt
    PROVE  /\ Ordered'
           /\ Head(taskQueue) \in Plan \union {Killer}
           /\ \A t \in Plan : Queued(t) <=> (Queued(t)' \/ t = Head(taskQueue))
           /\ Head(taskQueue) \in Plan => ~Has(taskQueue', Head(taskQueue))
<1> DEFINE S == Plan \union {Killer}
           u == Tail(taskQueue)
<1>1. taskQueue \in Seq(S) /\ Plan \subseteq Nat /\ Killer = 0 /\ Killer \notin Plan
    BY PlaceTypes, Constants
<1>2. /\ u \in Seq(S) /\ Head(taskQueue) \in S
      /\ Head(taskQueue) = taskQueue[1] /\ 1 \in DOMAIN taskQueue
      /\ \A i \in DOMAIN u : i \in Nat /\ i + 1 \in DOMAIN taskQueue /\ u[i] = taskQueue[i + 1]
      /\ \A t : Has(taskQueue, t) <=> Has(u, t) \/ t = Head(taskQueue)
  <2> HIDE DEF S
  <2> QED
      BY <1>1, OfTail
<1>3. taskQueue' = u
    OBVIOUS
<1> HIDE DEF u
<1>4. \A i, j \in DOMAIN u : i < j /\ u[j] # Killer => u[i] # Killer /\ u[i] < u[j]
  <2>1. SUFFICES ASSUME NEW i \in DOMAIN u, NEW j \in DOMAIN u, i < j, u[j] # Killer PROVE u[i] # Killer /\ u[i] < u[j]
      OBVIOUS
  <2>2. i + 1 < j + 1
      BY <1>2, <2>1
  <2> QED
      BY <1>2, <2>1, <2>2 DEF Ordered
<1>5. Ordered'
    BY <1>2, <1>3, <1>4 DEF Ordered, Has
<1>6. \A t : Has(taskQueue, t)' <=> Has(u, t)
    BY <1>3 DEF Has
<1>7. ASSUME Head(taskQueue) \in Plan PROVE ~Has(u, Head(taskQueue))
  <2>1. ASSUME NEW i \in DOMAIN u, u[i] = Head(taskQueue) PROVE FALSE
    <3>1. 1 < i + 1 /\ i + 1 \in DOMAIN taskQueue /\ taskQueue[i + 1] = taskQueue[1]
        BY <1>2, <2>1, <1>1
    <3>2. taskQueue[1] < taskQueue[i + 1]
        BY <1>1, <1>2, <1>7, <3>1 DEF Ordered
    <3>3. taskQueue[1] \in Nat
        BY <1>1, <1>2, <1>7
    <3> QED
        BY <3>1, <3>2, <3>3
  <2> QED
      BY <2>1 DEF Has
<1>8. \A t : Queued(t)' <=> Has(u, t)
    BY <1>6 DEF Queued
<1> QED
    BY <1>2, <1>3, <1>5, <1>7, <1>8 DEF Queued

LEMMA PlacesTakes ==
    ASSUME Places, opt' = opt, NEW w \in Workers, Takes(w)
    PROVE  Ordered' /\ Alone' /\ Once'
<1> USE DEF green3, ends
<1>1. TypeOK /\ Ordered /\ Alone /\ Once
    BY DEF Places
<1>0. taskQueue # << >> /\ taskQueue' = Tail(taskQueue) /\ next' = next
    BY DEF Takes
<1>h. PICK t0 : t0 = Head(taskQueue)
    OBVIOUS
<1>2. /\ Ordered'
      /\ t0 \in Plan \union {Killer}
      /\ \A t \in Plan : Queued(t) <=> (Queued(t)' \/ t = t0)
      /\ t0 \in Plan => ~Has(taskQueue', t0)
    BY <1>0, <1>1, <1>h, OrderedTail
<1>3. task[w] = Killer /\ task' = [task EXCEPT ![w] = t0] /\ Killer \notin Plan
    BY <1>1, <1>h, Constants DEF Takes
<1>4. \A t \in Plan : Held(t)' <=> (t = t0 \/ Held(t))
    BY <1>1, <1>3, HeldNow
<1>5. UNCHANGED <<next, greenTask, greenQueue, dropped, shot, missed>>
    BY DEF Takes
<1>6. t0 \in Plan => ~Held(t0) /\ ~Queued(t0)'
    BY <1>1, <1>2, OnePlace DEF Queued, Has
<1>7. Alone'
  <2>1. task \in [Workers -> Plan \union {Killer}]
      BY <1>1, PlaceTypes
  <2>2. ASSUME NEW u \in Workers, NEW v \in Workers, task'[u] = task'[v], task'[u] # Killer PROVE u = v
      BY <1>1, <1>2, <1>3, <1>6, <2>1, <2>2 DEF Alone, Held
  <2> QED
      BY <1>1, <1>5, <2>2 DEF Alone
<1>8. Once'
  <2>1. SUFFICES ASSUME NEW t \in Plan
        PROVE  Bit(Queued(t)') + Bit(Held(t)') + Bit(GreenHeld(t)') + Bit(GreenQueued(t)')
            + Bit(t \in shot') + Bit(t \in missed') + Bit(t \in dropped') = Bit(t < next')
      BY OnceNow
  <2>2. (GreenHeld(t)' <=> GreenHeld(t)) /\ (GreenQueued(t)' <=> GreenQueued(t))
      BY <1>5 DEF GreenHeld, GreenQueued, Has
  <2>3. Bit(Queued(t)) + Bit(Held(t)) + Bit(GreenHeld(t)) + Bit(GreenQueued(t))
            + Bit(t \in shot) + Bit(t \in missed) + Bit(t \in dropped) = Bit(t < next)
      BY <1>1 DEF Once
  <2>4. /\ Queued(t) <=> (Queued(t)' \/ t = t0)
        /\ Held(t)' <=> (t = t0 \/ Held(t))
        /\ t = t0 => ~Held(t) /\ ~Queued(t)'
      BY <1>2, <1>4, <1>6
  <2> QED
      BY <1>5, <2>2, <2>3, <2>4 DEF Bit
<1> QED
    BY <1>2, <1>7, <1>8

LEMMA PlacesShoots ==
    ASSUME Places, opt' = opt, NEW w \in Workers, Shoots(w)
    PROVE  Ordered' /\ Alone' /\ Once'
<1> USE DEF green3, ends
<1>1. TypeOK /\ Ordered /\ Alone /\ Once
    BY DEF Places
<1> DEFINE t0 == task[w]
<1>2. t0 \in Plan /\ Ends(t0) /\ task' = [task EXCEPT ![w] = Killer] /\ Killer \notin Plan
    BY <1>1, Constants DEF Shoots
<1>3. \A t \in Plan : Held(t)' <=> (Held(t) /\ t # t0)
    BY <1>1, <1>2, HeldNow
<1>4. UNCHANGED <<taskQueue, next, greenTask, greenQueue, dropped>>
    BY DEF Shoots
<1>5. Held(t0)
    BY DEF Held
<1>6. Ordered'
    BY <1>1, <1>4 DEF Ordered, Has
<1>7. Alone'
  <2>1. task \in [Workers -> Plan \union {Killer}]
      BY <1>1, PlaceTypes
  <2>2. ASSUME NEW u \in Workers, NEW v \in Workers, task'[u] = task'[v], task'[u] # Killer PROVE u = v
      BY <1>1, <1>2, <2>1, <2>2 DEF Alone
  <2> QED
      BY <1>1, <1>4, <2>2 DEF Alone
<1> HIDE DEF t0
<1>8. Once'
  <2>1. SUFFICES ASSUME NEW t \in Plan
        PROVE  Bit(Queued(t)') + Bit(Held(t)') + Bit(GreenHeld(t)') + Bit(GreenQueued(t)')
            + Bit(t \in shot') + Bit(t \in missed') + Bit(t \in dropped') = Bit(t < next')
      BY OnceNow
  <2>2. (Queued(t)' <=> Queued(t)) /\ (GreenHeld(t)' <=> GreenHeld(t)) /\ (GreenQueued(t)' <=> GreenQueued(t))
      BY <1>4 DEF Queued, GreenHeld, GreenQueued, Has
  <2>3. Bit(Queued(t)) + Bit(Held(t)) + Bit(GreenHeld(t)) + Bit(GreenQueued(t))
            + Bit(t \in shot) + Bit(t \in missed) + Bit(t \in dropped) = Bit(t < next)
      BY <1>1 DEF Once
  <2>4. Held(t)' <=> (Held(t) /\ t # t0)
      BY <1>3
  <2> QED
      BY <1>2, <1>4, <1>5, <2>2, <2>3, <2>4 DEF Bit, Ends
<1> QED
    BY <1>6, <1>7, <1>8

LEMMA PlacesEmpties ==
    ASSUME Places, opt' = opt, Empties
    PROVE  Ordered' /\ Alone' /\ Once'
<1> USE DEF green3, ends
<1>1. TypeOK /\ Ordered /\ Alone /\ Once
    BY DEF Places
<1>0. taskQueue # << >> /\ taskQueue' = Tail(taskQueue) /\ next' = next
    BY DEF Empties
<1>h. PICK t0 : t0 = Head(taskQueue)
    OBVIOUS
<1>2. /\ Ordered'
      /\ t0 \in Plan \union {Killer}
      /\ \A t \in Plan : Queued(t) <=> (Queued(t)' \/ t = t0)
      /\ t0 \in Plan => ~Has(taskQueue', t0)
    BY <1>0, <1>1, <1>h, OrderedTail
<1>3. missed' = missed \union ({t0} \ {Killer}) /\ Killer \notin Plan
    BY <1>1, <1>h, Constants DEF Empties
<1>4. UNCHANGED <<next, task, greenTask, greenQueue, dropped, shot>>
    BY DEF Empties
<1>5. Alone'
    BY <1>1, <1>4 DEF Alone
<1>6. t0 \in Plan => ~Queued(t0)'
    BY <1>2 DEF Queued, Has
<1>7. Once'
  <2>1. SUFFICES ASSUME NEW t \in Plan
        PROVE  Bit(Queued(t)') + Bit(Held(t)') + Bit(GreenHeld(t)') + Bit(GreenQueued(t)')
            + Bit(t \in shot') + Bit(t \in missed') + Bit(t \in dropped') = Bit(t < next')
      BY OnceNow
  <2>2. (Held(t)' <=> Held(t)) /\ (GreenHeld(t)' <=> GreenHeld(t)) /\ (GreenQueued(t)' <=> GreenQueued(t))
      BY <1>4 DEF Held, GreenHeld, GreenQueued, Has
  <2>3. Bit(Queued(t)) + Bit(Held(t)) + Bit(GreenHeld(t)) + Bit(GreenQueued(t))
            + Bit(t \in shot) + Bit(t \in missed) + Bit(t \in dropped) = Bit(t < next)
      BY <1>1 DEF Once
  <2>4. /\ Queued(t) <=> (Queued(t)' \/ t = t0)
        /\ t = t0 => ~Queued(t)'
        /\ t \in missed' <=> (t \in missed \/ t = t0)
      BY <1>2, <1>3, <1>6
  <2> QED
      BY <1>4, <2>2, <2>3, <2>4 DEF Bit
<1> QED
    BY <1>2, <1>5, <1>7

\* The part of Alone that is about green threads, and the one about their queues.
ThreadsAlone ==
    \A w, v \in Workers, g, h \in Threads :
        greenTask[w][g] = greenTask[v][h] /\ greenTask[w][g] # Killer => w = v /\ g = h

QueuesAlone ==
    \A w, v \in Workers : \A i \in DOMAIN greenQueue[w], j \in DOMAIN greenQueue[v] :
        greenQueue[w][i] = greenQueue[v][j] => w = v /\ i = j

LEMMA ThreadsAloneNow ==
    ASSUME TypeOK, Alone, NEW w \in Workers, NEW g \in Threads, NEW x,
           greenTask' = [greenTask EXCEPT ![w][g] = x], x = Killer \/ ~GreenHeld(x)
    PROVE  ThreadsAlone'
<1>1. greenTask \in [Workers -> [Threads -> Plan \union {Killer}]]
    BY PlaceTypes
<1>2. ThreadsAlone
    BY DEF Alone, ThreadsAlone
<1>3. greenTask' = [greenTask EXCEPT ![w] = [greenTask[w] EXCEPT ![g] = x]]
    OBVIOUS
<1>4. greenTask'[w][g] = x /\ \A v \in Workers, h \in Threads : v # w \/ h # g => greenTask'[v][h] = greenTask[v][h]
    BY <1>1, <1>3
<1>5. x # Killer => \A v \in Workers, h \in Threads : greenTask[v][h] # x
    BY DEF GreenHeld
<1> QED
    BY <1>2, <1>4, <1>5 DEF ThreadsAlone

LEMMA QueuesAloneNow ==
    ASSUME TypeOK, Alone, NEW w \in Workers, NEW q, greenQueue' = [greenQueue EXCEPT ![w] = q], IsInjective(q),
           \A v \in Workers \ {w} : \A j \in DOMAIN greenQueue[v] : ~Has(q, greenQueue[v][j])
    PROVE  QueuesAlone'
<1>1. greenQueue \in [Workers -> Seq(Plan)]
    BY PlaceTypes
<1>2. greenQueue'[w] = q /\ \A v \in Workers \ {w} : greenQueue'[v] = greenQueue[v]
    BY <1>1
<1>3. \A v \in Workers \ {w} : \A i \in DOMAIN q, j \in DOMAIN greenQueue[v] : q[i] # greenQueue[v][j]
    BY DEF Has
<1>4. QueuesAlone
    BY DEF Alone, QueuesAlone
<1>5. SUFFICES ASSUME NEW u \in Workers, NEW v \in Workers, NEW i \in DOMAIN greenQueue'[u], NEW j \in DOMAIN greenQueue'[v],
                      greenQueue'[u][i] = greenQueue'[v][j]
               PROVE  u = v /\ i = j
    BY DEF QueuesAlone
<1>6. CASE u = w /\ v = w
    BY <1>2, <1>5, <1>6 DEF IsInjective
<1>7. CASE u = w /\ v # w
    BY <1>2, <1>3, <1>5, <1>7
<1>8. CASE u # w /\ v = w
    BY <1>2, <1>3, <1>5, <1>8
<1>9. CASE u # w /\ v # w
    BY <1>2, <1>4, <1>5, <1>9 DEF QueuesAlone
<1> QED
    BY <1>6, <1>7, <1>8, <1>9

LEMMA PlacesGreenTakes ==
    ASSUME Places, opt' = opt, NEW w \in Workers, NEW g \in Threads, GreenTakes(w, g)
    PROVE  Ordered' /\ Alone' /\ Once'
<1> USE DEF green3, ends
<1>1. TypeOK /\ Ordered /\ Alone /\ Once
    BY DEF Places
<1>2. PICK t0 : t0 = Head(greenQueue[w])
    OBVIOUS
<1>3. PICK q : q = Tail(greenQueue[w])
    OBVIOUS
<1>4. /\ greenTask' = [greenTask EXCEPT ![w][g] = t0] /\ greenTask[w][g] = Killer
      /\ greenQueue' = [greenQueue EXCEPT ![w] = q] /\ greenQueue[w] # << >>
      /\ greenQueue[w] \in Seq(Plan) /\ Killer \notin Plan
    BY <1>1, <1>2, <1>3, PlaceTypes, Constants DEF GreenTakes
<1>5. /\ t0 \in Plan
      /\ \A t : Has(greenQueue[w], t) <=> Has(q, t) \/ t = t0
      /\ IsInjective(q) /\ ~Has(q, t0)
    BY <1>1, <1>2, <1>3, <1>4, OfTail, GreenQueuesSingle
<1>6. UNCHANGED <<taskQueue, next, task, dropped, shot, missed>>
    BY DEF GreenTakes
<1>7. GreenQueued(t0) /\ ~GreenHeld(t0)
  <2>1. GreenQueued(t0)
      BY <1>5 DEF GreenQueued
  <2> QED
      BY <1>1, <1>5, <2>1, OnePlace
<1>8. \A v \in Workers \ {w} : \A j \in DOMAIN greenQueue[v] : ~Has(q, greenQueue[v][j]) /\ greenQueue[v][j] # t0
  <2>1. SUFFICES ASSUME NEW v \in Workers \ {w}, NEW j \in DOMAIN greenQueue[v], Has(greenQueue[w], greenQueue[v][j])
        PROVE  FALSE
      BY <1>5
  <2>2. PICK i \in DOMAIN greenQueue[w] : greenQueue[w][i] = greenQueue[v][j]
      BY <2>1 DEF Has
  <2> QED
      BY <1>1, <2>2 DEF Alone
<1>9. Ordered'
    BY <1>1, <1>6 DEF Ordered, Has
<1>10. Alone'
  <2>1. ThreadsAlone'
      BY <1>1, <1>4, <1>7, ThreadsAloneNow
  <2>2. QueuesAlone'
      BY <1>1, <1>4, <1>5, <1>8, QueuesAloneNow
  <2> QED
      BY <1>1, <1>6, <2>1, <2>2 DEF Alone, ThreadsAlone, QueuesAlone
<1>11. Once'
  <2>1. SUFFICES ASSUME NEW t \in Plan
        PROVE  Bit(Queued(t)') + Bit(Held(t)') + Bit(GreenHeld(t)') + Bit(GreenQueued(t)')
            + Bit(t \in shot') + Bit(t \in missed') + Bit(t \in dropped') = Bit(t < next')
      BY OnceNow
  <2>2. (Queued(t)' <=> Queued(t)) /\ (Held(t)' <=> Held(t))
      BY <1>6 DEF Queued, Held, Has
  <2>3. Bit(Queued(t)) + Bit(Held(t)) + Bit(GreenHeld(t)) + Bit(GreenQueued(t))
            + Bit(t \in shot) + Bit(t \in missed) + Bit(t \in dropped) = Bit(t < next)
      BY <1>1 DEF Once
  <2>4. GreenHeld(t)' <=> (t = t0 \/ GreenHeld(t))
      BY <1>1, <1>4, GreenHeldNow
  <2>5. GreenQueued(t)' <=> (Has(q, t) \/ \E v \in Workers \ {w} : Has(greenQueue[v], t))
      BY <1>1, <1>4, GreenQueuedNow
  <2>6. GreenQueued(t) <=> (GreenQueued(t)' \/ t = t0)
      BY <1>5, <2>5 DEF GreenQueued
  <2>7. t = t0 => ~GreenQueued(t)'
      BY <1>5, <1>8, <2>5 DEF Has
  <2> QED
      BY <1>6, <1>7, <2>2, <2>3, <2>4, <2>6, <2>7 DEF Bit
<1> QED
    BY <1>9, <1>10, <1>11

LEMMA PlacesGreenShoots ==
    ASSUME Places, opt' = opt, NEW w \in Workers, NEW g \in Threads, GreenShoots(w, g)
    PROVE  Ordered' /\ Alone' /\ Once'
<1> USE DEF green3, ends
<1>1. TypeOK /\ Ordered /\ Alone /\ Once
    BY DEF Places
<1>2. PICK t0 : t0 = greenTask[w][g]
    OBVIOUS
<1>3. t0 \in Plan /\ Ends(t0) /\ greenTask' = [greenTask EXCEPT ![w][g] = Killer] /\ Killer \notin Plan
    BY <1>1, <1>2, Constants DEF GreenShoots
<1>4. UNCHANGED <<taskQueue, next, task, greenQueue, dropped>>
    BY DEF GreenShoots
<1>5. GreenHeld(t0)
    BY <1>2 DEF GreenHeld
<1>6. Ordered'
    BY <1>1, <1>4 DEF Ordered, Has
<1>7. Alone'
  <2>1. ThreadsAlone'
      BY <1>1, <1>3, ThreadsAloneNow
  <2> QED
      BY <1>1, <1>4, <2>1 DEF Alone, ThreadsAlone
<1>8. Once'
  <2>1. SUFFICES ASSUME NEW t \in Plan
        PROVE  Bit(Queued(t)') + Bit(Held(t)') + Bit(GreenHeld(t)') + Bit(GreenQueued(t)')
            + Bit(t \in shot') + Bit(t \in missed') + Bit(t \in dropped') = Bit(t < next')
      BY OnceNow
  <2>2. (Queued(t)' <=> Queued(t)) /\ (Held(t)' <=> Held(t)) /\ (GreenQueued(t)' <=> GreenQueued(t))
      BY <1>4 DEF Queued, Held, GreenQueued, Has
  <2>3. Bit(Queued(t)) + Bit(Held(t)) + Bit(GreenHeld(t)) + Bit(GreenQueued(t))
            + Bit(t \in shot) + Bit(t \in missed) + Bit(t \in dropped) = Bit(t < next)
      BY <1>1 DEF Once
  <2>4. GreenHeld(t)' <=> (t = Killer \/ (GreenHeld(t) /\ t # t0))
      BY <1>1, <1>2, <1>3, GreenHeldNow
  <2> QED
      BY <1>3, <1>4, <1>5, <2>2, <2>3, <2>4 DEF Bit, Ends
<1> QED
    BY <1>6, <1>7, <1>8

LEMMA PlacesLoses ==
    ASSUME Places, opt' = opt, NEW w \in Workers, Loses(w)
    PROVE  Ordered' /\ Alone' /\ Once'
<1> USE DEF green3, ends
<1>1. TypeOK /\ Ordered /\ Alone /\ Once
    BY DEF Places
<1>2. PICK q : q = << >>
    OBVIOUS
<1>3. /\ greenQueue' = [greenQueue EXCEPT ![w] = q] /\ dropped' = dropped \union ToSet(greenQueue[w])
      /\ greenTask' = [greenTask EXCEPT ![w] = [g \in Threads |-> Killer]]
      /\ missed' = missed \union ({greenTask[w][g] : g \in Threads} \ {Killer})
      /\ Killer \notin Plan
    BY <1>1, <1>2, Constants DEF Loses
<1>4. UNCHANGED <<taskQueue, next, task, shot>>
    BY DEF Loses
<1>5. greenTask \in [Workers -> [Threads -> Plan \union {Killer}]]
    BY <1>1, PlaceTypes
<1>6. /\ \A g \in Threads : greenTask'[w][g] = Killer
      /\ \A v \in Workers \ {w} : greenTask'[v] = greenTask[v]
    BY <1>3, <1>5
<1>7. \A t : ~Has(q, t)
    BY <1>2, OfEmpty
<1>8. Ordered'
    BY <1>1, <1>4 DEF Ordered, Has
<1>9. Alone'
  <2>1. ThreadsAlone'
      BY <1>1, <1>6 DEF Alone, ThreadsAlone
  <2>2. QueuesAlone'
      BY <1>1, <1>2, <1>3, <1>7, OfEmpty, QueuesAloneNow
  <2> QED
      BY <1>1, <1>4, <2>1, <2>2 DEF Alone, ThreadsAlone, QueuesAlone
<1>10. Once'
  <2>1. SUFFICES ASSUME NEW t \in Plan
        PROVE  Bit(Queued(t)') + Bit(Held(t)') + Bit(GreenHeld(t)') + Bit(GreenQueued(t)')
            + Bit(t \in shot') + Bit(t \in missed') + Bit(t \in dropped') = Bit(t < next')
      BY OnceNow
  <2>2. (Queued(t)' <=> Queued(t)) /\ (Held(t)' <=> Held(t))
      BY <1>4 DEF Queued, Held, Has
  <2>3. Bit(Queued(t)) + Bit(Held(t)) + Bit(GreenHeld(t)) + Bit(GreenQueued(t))
            + Bit(t \in shot) + Bit(t \in missed) + Bit(t \in dropped) = Bit(t < next)
      BY <1>1 DEF Once
  <2>4. PICK mine \in BOOLEAN : mine = (\E g \in Threads : greenTask[w][g] = t)
      OBVIOUS
  <2>5. GreenHeld(t) <=> (GreenHeld(t)' \/ mine)
      BY <1>3, <1>6, <2>4 DEF GreenHeld
  <2>6. ~(GreenHeld(t)' /\ mine)
    <3>1. SUFFICES ASSUME GreenHeld(t)', mine PROVE FALSE
        OBVIOUS
    <3>2. PICK v \in Workers, h \in Threads : greenTask'[v][h] = t
        BY <3>1 DEF GreenHeld
    <3>3. v # w /\ greenTask[v][h] = t
        BY <1>3, <1>6, <3>2
    <3>4. PICK g \in Threads : greenTask[w][g] = t
        BY <2>4, <3>1
    <3> QED
        BY <1>1, <1>3, <3>3, <3>4 DEF Alone
  <2>7. t \in missed' <=> (t \in missed \/ mine)
      BY <1>3, <2>4
  <2>8. GreenQueued(t)' <=> \E v \in Workers \ {w} : Has(greenQueue[v], t)
      BY <1>1, <1>3, <1>7, GreenQueuedNow
  <2>9. /\ GreenQueued(t) <=> (GreenQueued(t)' \/ Has(greenQueue[w], t))
        /\ ~(GreenQueued(t)' /\ Has(greenQueue[w], t))
      BY <1>1, <2>8, OneGreenQueue DEF GreenQueued
  <2>10. t \in dropped' <=> (t \in dropped \/ Has(greenQueue[w], t))
      BY <1>3 DEF ToSet, Has
  <2> HIDE DEF Has
  <2> QED
      BY <1>4, <2>2, <2>3, <2>5, <2>6, <2>7, <2>9, <2>10 DEF Bit
<1> QED
    BY <1>8, <1>9, <1>10

LEMMA PlacesMovesTasks ==
    ASSUME Places, opt' = opt, NEW w \in Workers, MovesTasks(w)
    PROVE  Ordered' /\ Alone' /\ Once'
<1> USE DEF green3, ends
<1>1. TypeOK /\ Ordered /\ Alone /\ Once
    BY DEF Places
<1>2. PICK n \in 1 .. Len(taskQueue), moved \in Seq(Plan) : Moves(w, n, moved)
    BY DEF MovesTasks
<1>3. PICK q : q = greenQueue[w] \o moved
    OBVIOUS
<1>4. PICK rest : rest = SubSeq(taskQueue, n + 1, Len(taskQueue))
    OBVIOUS
<1>5. /\ taskQueue' = rest /\ greenQueue' = [greenQueue EXCEPT ![w] = q]
      /\ \A i \in DOMAIN moved : i \in 1 .. n /\ i \in DOMAIN taskQueue /\ moved[i] = taskQueue[i]
      /\ \A t \in Plan : Has(moved, t) <=> Has(SubSeq(taskQueue, 1, n), t)
    BY <1>2, <1>3, <1>4 DEF Moves
<1>6. UNCHANGED <<next, task, greenTask, dropped, shot, missed>>
    BY DEF MovesTasks
<1> DEFINE S == Plan \union {Killer}
<1>7. taskQueue \in Seq(S) /\ S \subseteq Nat /\ Killer \notin Plan /\ n \in Nat /\ greenQueue[w] \in Seq(Plan)
    BY <1>1, PlaceTypes, Constants
<1>8. /\ rest \in Seq(S)
      /\ \A i \in DOMAIN rest : i \in Nat /\ i + n \in DOMAIN taskQueue /\ rest[i] = taskQueue[i + n]
      /\ \A t : Has(taskQueue, t) <=> Has(SubSeq(taskQueue, 1, n), t) \/ Has(rest, t)
  <2> HIDE DEF S
  <2> QED
      BY <1>4, <1>7, OfParts
<1>9. /\ \A t : Has(q, t) <=> Has(greenQueue[w], t) \/ Has(moved, t)
      /\ IsInjective(greenQueue[w]) /\ IsInjective(moved) /\ (\A i \in DOMAIN greenQueue[w] : ~Has(moved, greenQueue[w][i]))
            => IsInjective(q)
    BY <1>3, <1>7, OfConcat
<1>10. \A t \in Plan : Queued(t)' <=> Has(rest, t)
    BY <1>5 DEF Queued, Has
<1>11. \A t \in Plan : Queued(t) <=> (Queued(t)' \/ Has(moved, t))
    BY <1>5, <1>8, <1>10 DEF Queued
<1>12. \A i, j \in DOMAIN taskQueue : i < j /\ taskQueue[j] # Killer => taskQueue[i] # Killer /\ taskQueue[i] < taskQueue[j]
    BY <1>1 DEF Ordered
<1>13. ASSUME NEW t \in Plan, Has(moved, t) PROVE ~Queued(t)'
  <2>1. SUFFICES ASSUME Has(rest, t) PROVE FALSE
      BY <1>10
  <2>2. PICK i \in DOMAIN moved : moved[i] = t
      BY <1>13 DEF Has
  <2>3. PICK j \in DOMAIN rest : rest[j] = t
      BY <2>1 DEF Has
  <2>4. /\ i \in 1 .. n /\ i \in DOMAIN taskQueue /\ taskQueue[i] = t
        /\ j \in Nat /\ j + n \in DOMAIN taskQueue /\ taskQueue[j + n] = t /\ j # 0
      BY <1>5, <1>8, <2>2, <2>3
  <2>5. i < j + n
      BY <1>7, <2>4
  <2>6. t < t
      BY <1>7, <1>12, <2>4, <2>5
  <2> QED
      BY <1>7, <2>6
<1>14. IsInjective(moved)
  <2>1. SUFFICES ASSUME NEW i \in DOMAIN moved, NEW j \in DOMAIN moved, moved[i] = moved[j], i < j PROVE FALSE
    <3>1. \A i \in DOMAIN moved : i \in Int
        OBVIOUS
    <3> QED
        BY <3>1 DEF IsInjective
  <2>2. moved[i] \in Plan /\ moved[j] \in Plan /\ taskQueue[i] = moved[i] /\ taskQueue[j] = moved[j]
        /\ i \in DOMAIN taskQueue /\ j \in DOMAIN taskQueue
      BY <1>5
  <2>3. moved[i] < moved[j]
      BY <1>7, <1>12, <2>1, <2>2
  <2>4. moved[i] \in Nat
      BY <1>7, <2>2
  <2> QED
      BY <2>1, <2>3, <2>4
<1>15. ASSUME NEW t \in Plan, Has(moved, t) PROVE Queued(t) /\ ~GreenQueued(t)
    BY <1>1, <1>11, <1>15, OnePlace
<1>16. ASSUME NEW v \in Workers, NEW j \in DOMAIN greenQueue[v]
       PROVE  ~Has(moved, greenQueue[v][j]) /\ (v # w => ~Has(greenQueue[w], greenQueue[v][j]))
  <2>1. greenQueue[v][j] \in Plan
      BY <1>1, PlaceTypes
  <2>2. GreenQueued(greenQueue[v][j]) /\ Has(greenQueue[v], greenQueue[v][j])
      BY DEF GreenQueued, Has
  <2> QED
      BY <1>1, <1>15, <2>1, <2>2, OneGreenQueue
<1>17. IsInjective(q)
    BY <1>1, <1>9, <1>14, <1>16, GreenQueuesSingle
<1>18. Ordered'
  <2>1. ASSUME NEW i \in DOMAIN rest, NEW j \in DOMAIN rest, i < j, rest[j] # Killer PROVE rest[i] # Killer /\ rest[i] < rest[j]
    <3>1. i + n < j + n
        BY <1>7, <1>8, <2>1
    <3> QED
        BY <1>8, <1>12, <2>1, <3>1
  <2>2. \A i \in DOMAIN rest : rest[i] < next
      BY <1>1, <1>8 DEF Ordered
  <2>3. Has(rest, Killer) => next = opt.tasks + 1
      BY <1>1, <1>8 DEF Ordered
  <2> QED
      BY <1>5, <1>6, <2>1, <2>2, <2>3 DEF Ordered, Has
<1>19. Alone'
  <2>1. QueuesAlone'
      BY <1>1, <1>5, <1>9, <1>16, <1>17, QueuesAloneNow
  <2> QED
      BY <1>1, <1>6, <2>1 DEF Alone, QueuesAlone
<1>20. Once'
  <2>1. SUFFICES ASSUME NEW t \in Plan
        PROVE  Bit(Queued(t)') + Bit(Held(t)') + Bit(GreenHeld(t)') + Bit(GreenQueued(t)')
            + Bit(t \in shot') + Bit(t \in missed') + Bit(t \in dropped') = Bit(t < next')
      BY OnceNow
  <2>2. (Held(t)' <=> Held(t)) /\ (GreenHeld(t)' <=> GreenHeld(t))
      BY <1>6 DEF Held, GreenHeld
  <2>3. Bit(Queued(t)) + Bit(Held(t)) + Bit(GreenHeld(t)) + Bit(GreenQueued(t))
            + Bit(t \in shot) + Bit(t \in missed) + Bit(t \in dropped) = Bit(t < next)
      BY <1>1 DEF Once
  <2>4. GreenQueued(t)' <=> (Has(q, t) \/ \E v \in Workers \ {w} : Has(greenQueue[v], t))
      BY <1>1, <1>5, GreenQueuedNow
  <2>5. GreenQueued(t)' <=> (GreenQueued(t) \/ Has(moved, t))
      BY <1>9, <2>4 DEF GreenQueued
  <2>6. /\ Queued(t) <=> (Queued(t)' \/ Has(moved, t))
        /\ Has(moved, t) => ~Queued(t)' /\ ~GreenQueued(t)
      BY <1>11, <1>13, <1>15
  <2> QED
      BY <1>6, <2>2, <2>3, <2>5, <2>6 DEF Bit
<1> QED
    BY <1>18, <1>19, <1>20

\* Every task is in one place and once, after any step.
LEMMA NextPlaces ==
    ASSUME TypeOK, Fed, Ordered, Alone, Once, [Next]_vars
    PROVE  Ordered' /\ Alone' /\ Once'
<1>1. Places /\ opt' = opt /\ TaskStep
    BY EveryTaskStep, OptStays DEF Places
<1> QED
    BY <1>1, PlacesStill, PlacesPutsTask, PlacesPutsKiller, PlacesEmpties, PlacesTakes, PlacesShoots,
       PlacesMovesTasks, PlacesLoses, PlacesGreenTakes, PlacesGreenShoots DEF TaskStep

-----------------------------------------------------------------------------
(***************************************************************************)
(* The feeder, the kinds of processes, the room for tasks                  *)
(***************************************************************************)

LEMMA OnlyFeederFeeds ==
    ASSUME [Next]_vars, ~Feeder
    PROVE  UNCHANGED feed
<1>1. CASE TankNext
    BY <1>1 DEF TankNext, Main, Stop, Finished, Stopped, Empty, FeederJoined
<1>2. CASE DefaultNext
    BY <1>2 DEF DefaultNext, Worker, Sigint, Setup, SetupFails, Take, GetEmpty, Shoot, ShootFails, Teardown
<1>3. CASE GreenNext
  <2>1. PICK w \in Workers : GreenMain(w) \/ GreenSigint(w) \/ \E g \in Threads : GreenThread(w, g)
      BY <1>3 DEF GreenNext
  <2>2. CASE GreenMain(w)
      BY <2>2 DEF GreenMain, GreenSetup, Pass, Quits, GreenJoined, Framed, SetupFails, Teardown
  <2>3. CASE GreenSigint(w)
      BY <2>3 DEF GreenSigint, ProcessInterrupted, ThreadInterrupted
  <2>4. CASE \E g \in Threads : GreenThread(w, g)
      BY <2>4 DEF GreenThread, GreenLoops, GreenTake, GreenShoot, poolVars
  <2> QED
      BY <2>1, <2>2, <2>3, <2>4
<1>4. CASE UNCHANGED readerLeaves
    BY <1>4 DEF readerLeaves
<1>5. CASE UNCHANGED vars
    BY <1>5 DEF vars, poolVars
<1> QED
    BY <1>1, <1>2, <1>3, <1>4, <1>5 DEF Next

LEMMA NextFed ==
    ASSUME TypeOK, Fed, [Next]_vars
    PROVE  Fed'
<1>0. opt' = opt
    BY OptStays
<1>1. /\ Cardinality(Workers) \in Nat \ {0} /\ opt.tasks \in Nat
      /\ next \in 1 .. opt.tasks + 1 /\ posted \in 0 .. Cardinality(Workers)
    BY Constants DEF TypeOK, PoolTypes
<1>2. CASE ~Feeder
    BY <1>0, <1>2, OnlyFeederFeeds DEF Fed, feed
<1>3. CASE Put
    BY <1>0, <1>1, <1>3 DEF Fed, Put, NextTask
<1>4. CASE PutKiller
    BY <1>0, <1>1, <1>4 DEF Fed, PutKiller
<1>5. CASE KillersFull
    BY <1>0, <1>1, <1>5 DEF Fed, KillersFull
<1>6. CASE PutFull \/ PutClosed \/ Joined
    BY <1>0, <1>6 DEF Fed, PutFull, PutClosed, Joined
<1> QED
    BY <1>2, <1>3, <1>4, <1>5, <1>6 DEF Feeder

LEMMA NextKinds ==
    ASSUME TypeOK, Kinds, [Next]_vars
    PROVE  Kinds'
<1>0. opt' = opt /\ opt.type \in {"default", "green"}
    BY OptStays, Constants
<1>t. /\ worker \in [Workers -> {"setup", "get", "shoot", "join", "teardown", "exited"}]
      /\ greenQueue \in [Workers -> Seq(Plan)]
      /\ greenlet \in [Workers -> [Threads -> {"new", "get", "shoot", "over"}]]
      /\ greenTask \in [Workers -> [Threads -> Plan \union {Killer}]]
      /\ \A w \in Workers, g \in Threads : greenlet[w][g] = "shoot" <=> greenTask[w][g] \in Plan
    BY DEF TypeOK, PoolTypes, GreenTypes
<1>1. ASSUME worker' = worker, UNCHANGED green PROVE Kinds'
    BY <1>0, <1>1 DEF Kinds, Idle, green
<1>2. CASE TankNext /\ UNCHANGED green
  <2>1. worker' = worker
      BY <1>2 DEF TankNext, Feeder, Put, PutFull, PutClosed, PutKiller, KillersFull, Joined,
                  Main, Finished, Stop, Stopped, Empty, FeederJoined, pool
  <2> QED
      BY <1>1, <1>2, <2>1
<1>3. CASE opt.type = "default" /\ UNCHANGED green
    BY <1>0, <1>3 DEF Kinds, Idle, green
<1>4. CASE UNCHANGED readerLeaves
    BY <1>1, <1>4 DEF readerLeaves, pool
<1>5. CASE UNCHANGED vars
    BY <1>1, <1>5 DEF vars, poolVars, pool
<1>6. ASSUME opt.type = "green", NEW w \in Workers,
             \A v \in Workers \ {w} : /\ worker'[v] = worker[v]
                                      /\ greenQueue'[v] = greenQueue[v] /\ greenTask'[v] = greenTask[v],
             worker'[w] # "shoot",
             worker'[w] \notin {"get", "join"} => Idle(w)'
      PROVE  Kinds'
    BY <1>0, <1>6 DEF Kinds, Idle
<1>7. ASSUME opt.type = "green", NEW w \in Workers, GreenMain(w) \/ GreenSigint(w) \/ \E g \in Threads : GreenThread(w, g)
      PROVE  Kinds'
  <2>0. worker[w] # "shoot" /\ (worker[w] \notin {"get", "join"} => Idle(w))
      BY <1>7 DEF Kinds
  <2>1. CASE GreenSetup(w) \/ Quits(w)
    <3>1. UNCHANGED green /\ worker'[w] \in {"get", "join"} /\ \A v \in Workers \ {w} : worker'[v] = worker[v]
        BY <1>t, <2>1 DEF GreenSetup, Quits, Becomes
    <3> QED
        BY <1>6, <1>7, <3>1 DEF green
  <2>2. CASE Pass(w)
    <3>1. PICK n \in 1 .. Len(taskQueue), moved \in Seq(Plan) : Moves(w, n, moved)
        BY <2>2, PassMoves
    <3>2. /\ worker'[w] \in {"get", "join"} /\ \A v \in Workers \ {w} : worker'[v] = worker[v]
          /\ \A v \in Workers \ {w} : greenQueue'[v] = greenQueue[v]
        BY <1>t, <2>2, <3>1 DEF Pass, Moves
    <3>3. greenTask' = greenTask
        BY <2>2 DEF Pass
    <3> QED
        BY <1>6, <1>7, <3>2, <3>3
  <2>3. CASE GreenJoined(w)
    <3>1. /\ worker'[w] = "teardown" /\ \A v \in Workers \ {w} : worker'[v] = worker[v]
          /\ greenQueue'[w] = << >> /\ \A v \in Workers \ {w} : greenQueue'[v] = greenQueue[v]
          /\ greenTask' = greenTask
        BY <1>t, <2>3 DEF GreenJoined, Becomes
    <3>2. \A g \in Threads : greenTask[w][g] = Killer
        BY <1>t, <2>3 DEF GreenJoined
    <3> QED
        BY <1>6, <1>7, <3>1, <3>2 DEF Idle
  <2>4. CASE Framed(w)
    <3>1. /\ worker'[w] = "exited" /\ \A v \in Workers \ {w} : worker'[v] = worker[v] /\ UNCHANGED green
          /\ worker[w] \in {"setup", "teardown"}
        BY <1>t, <2>4 DEF Framed, SetupFails, Teardown, Becomes
    <3>2. UNCHANGED green
        BY <2>4 DEF Framed
    <3> QED
        BY <1>6, <1>7, <2>0, <3>1, <3>2 DEF Idle, green
  <2>5. ASSUME NEW g \in Threads, NEW state, NEW t, Thread(w, g, state, t) PROVE \A v \in Workers \ {w} : greenTask'[v] = greenTask[v]
      BY <1>t, <2>5 DEF Thread
  <2>6. ASSUME NEW g \in Threads, GreenThread(w, g) PROVE Kinds'
    <3>1. worker' = worker /\ worker[w] \in {"get", "join"}
        BY <2>6 DEF GreenThread, GreenLoops, GreenTake, GreenShoot, Running, poolVars, pool
    <3>2. \A v \in Workers \ {w} : greenTask'[v] = greenTask[v]
      <4>1. \E state, t : Thread(w, g, state, t)
          BY <2>6 DEF GreenThread, GreenLoops, GreenTake, GreenShoot
      <4> QED
          BY <2>5, <4>1
    <3>3. \A v \in Workers \ {w} : greenQueue'[v] = greenQueue[v]
        BY <1>t, <2>6 DEF GreenThread, GreenLoops, GreenTake, GreenShoot
    <3> QED
        BY <1>6, <1>7, <3>1, <3>2, <3>3
  <2>7. ASSUME NEW g \in Threads, ThreadInterrupted(w, g) PROVE Kinds'
    <3>1. worker' = worker /\ worker[w] \in {"get", "join"} /\ greenQueue' = greenQueue
        BY <2>7 DEF ThreadInterrupted, Running
    <3>2. \A v \in Workers \ {w} : greenTask'[v] = greenTask[v]
        BY <2>5, <2>7 DEF ThreadInterrupted
    <3> QED
        BY <1>6, <1>7, <3>1, <3>2
  <2>8. CASE ProcessInterrupted(w)
    <3>1. /\ worker'[w] = "exited" /\ \A v \in Workers \ {w} : worker'[v] = worker[v]
          /\ greenQueue'[w] = << >> /\ \A v \in Workers \ {w} : greenQueue'[v] = greenQueue[v]
        BY <1>t, <2>8 DEF ProcessInterrupted, Becomes
    <3>2. /\ \A g \in Threads : greenTask'[w][g] = Killer
          /\ \A v \in Workers \ {w} : greenTask'[v] = greenTask[v]
        BY <1>t, <2>8 DEF ProcessInterrupted
    <3> QED
        BY <1>6, <1>7, <3>1, <3>2 DEF Idle
  <2> QED
      BY <1>7, <2>1, <2>2, <2>3, <2>4, <2>6, <2>7, <2>8 DEF GreenMain, GreenSigint
<1> QED
    BY <1>2, <1>3, <1>4, <1>5, <1>7 DEF Next, GreenNext

\* A green thread that ends its shot leaves the others that shoot.
LEMMA ShootingNow ==
    ASSUME TypeOK, NEW w \in Workers, NEW g \in Threads, NEW state \in {"new", "get", "shoot", "over"},
           NEW t \in Plan \union {Killer}, state = "shoot" <=> t \in Plan, Thread(w, g, state, t)
    PROVE  /\ \A v \in Workers \ {w} : Shooting(v)' = Shooting(v)
           /\ state = "shoot" /\ greenlet[w][g] # "shoot" => Cardinality(Shooting(w)') = Cardinality(Shooting(w)) + 1
           /\ state # "shoot" /\ greenlet[w][g] = "shoot" => Cardinality(Shooting(w)') = Cardinality(Shooting(w)) - 1
           /\ state # "shoot" /\ greenlet[w][g] # "shoot" => Cardinality(Shooting(w)') = Cardinality(Shooting(w))
<1>1. /\ \A v \in Workers, h \in Threads : <<v, h>> # <<w, g>> => greenlet'[v][h] = greenlet[v][h]
      /\ greenlet'[w][g] = state
    BY ThreadTypes
<1>2. IsFiniteSet(Shooting(w))
    BY ShootingIs
<1>3. \A v \in Workers \ {w} : Shooting(v)' = Shooting(v)
    BY <1>1 DEF Shooting
<1>4. CASE state = "shoot"
  <2>1. Shooting(w)' = Shooting(w) \union {g}
      BY <1>1, <1>4 DEF Shooting
  <2>2. greenlet[w][g] # "shoot" => g \notin Shooting(w)
      BY DEF Shooting
  <2>3. g \notin Shooting(w) => Cardinality(Shooting(w) \union {g}) = Cardinality(Shooting(w)) + 1
      BY <1>2, FS_AddElement
  <2> HIDE DEF Shooting
  <2> QED
      BY <1>3, <1>4, <2>1, <2>2, <2>3
<1>5. CASE state # "shoot"
  <2>1. Shooting(w)' = Shooting(w) \ {g}
      BY <1>1, <1>5 DEF Shooting
  <2>2. greenlet[w][g] = "shoot" <=> g \in Shooting(w)
      BY DEF Shooting
  <2>3. /\ g \in Shooting(w) => Cardinality(Shooting(w) \ {g}) = Cardinality(Shooting(w)) - 1
        /\ g \notin Shooting(w) => Cardinality(Shooting(w) \ {g}) = Cardinality(Shooting(w))
      BY <1>2, FS_RemoveElement
  <2> HIDE DEF Shooting
  <2> QED
      BY <1>3, <1>5, <2>1, <2>2, <2>3
<1> QED
    BY <1>4, <1>5

LEMMA NextRoom ==
    ASSUME TypeOK, Room, [Next]_vars
    PROVE  Room'
<1>t. /\ free \in [Workers -> 0 .. Greenlets]
      /\ greenQueue \in [Workers -> Seq(Plan)]
      /\ greenlet \in [Workers -> [Threads -> {"new", "get", "shoot", "over"}]]
      /\ Greenlets \in Nat /\ Killer \in Plan \union {Killer} /\ Killer \notin Plan
    BY Constants DEF TypeOK, GreenTypes
<1>c. \A v \in Workers : Len(greenQueue[v]) \in Nat /\ free[v] \in Nat /\ Cardinality(Shooting(v)) \in Nat
    BY <1>t, ShootingIs
<1>r. \A v \in Workers : free[v] + Len(greenQueue[v]) + Cardinality(Shooting(v)) <= Greenlets
    BY DEF Room
<1>1. ASSUME UNCHANGED <<greenQueue, greenlet, free>> PROVE Room'
    BY <1>1, <1>r DEF Room, Shooting
<1>2. CASE UNCHANGED green
    BY <1>1, <1>2 DEF green
<1>3. CASE UNCHANGED readerLeaves
    BY <1>1, <1>3 DEF readerLeaves, green
<1>4. CASE UNCHANGED vars
    BY <1>1, <1>4 DEF vars, green
<1>5. ASSUME NEW w \in Workers,
             \A v \in Workers \ {w} : free'[v] = free[v] /\ greenQueue'[v] = greenQueue[v] /\ Shooting(v)' = Shooting(v),
             free'[w] + Len(greenQueue'[w]) + Cardinality(Shooting(w)') <= Greenlets
      PROVE  Room'
  <2>1. SUFFICES ASSUME NEW v \in Workers PROVE (free[v] + Len(greenQueue[v]) + Cardinality(Shooting(v)) <= Greenlets)'
      BY DEF Room
  <2>2. CASE v = w
      BY <1>5, <2>2
  <2>3. CASE v # w
      BY <1>5, <1>r, <2>3
  <2> QED
      BY <2>2, <2>3
<1>6. ASSUME NEW w \in Workers, GreenMain(w) \/ GreenSigint(w) \/ \E g \in Threads : GreenThread(w, g)
      PROVE  Room'
  <2>1. CASE GreenSetup(w) \/ Quits(w) \/ Framed(w)
      BY <1>1, <2>1 DEF GreenSetup, Quits, Framed, green
  <2>2. CASE Pass(w)
    <3>1. PICK n \in 1 .. Len(taskQueue), moved \in Seq(Plan) : Moves(w, n, moved)
        BY <2>2, PassMoves
    <3>2. /\ n \in Nat /\ n <= free[w] /\ Len(moved) \in Nat /\ Len(moved) <= n
          /\ free' = [free EXCEPT ![w] = free[w] - n]
          /\ greenQueue' = [greenQueue EXCEPT ![w] = greenQueue[w] \o moved]
        BY <3>1 DEF Moves
    <3>3. \A v \in Workers : Shooting(v)' = Shooting(v)
        BY <2>2 DEF Pass, Shooting
    <3>4. Len(greenQueue[w] \o moved) = Len(greenQueue[w]) + Len(moved)
        BY <1>t, OfConcat
    <3>5. free'[w] = free[w] - n /\ greenQueue'[w] = greenQueue[w] \o moved
        BY <1>t, <3>2
    <3>6. Len(greenQueue'[w]) = Len(greenQueue[w]) + Len(moved)
        BY <3>4, <3>5
    <3>7. free'[w] + Len(greenQueue'[w]) + Cardinality(Shooting(w)') <= Greenlets
      <4>1. Cardinality(Shooting(w)') = Cardinality(Shooting(w))
          BY <3>3
      <4> DEFINE c == Cardinality(Shooting(w))
                 a == Len(greenQueue[w])
                 b == Len(moved)
                 f == free[w]
      <4>2. f \in Nat /\ a \in Nat /\ c \in Nat /\ f + a + c <= Greenlets /\ b \in Nat /\ b <= n
          BY <1>c, <1>r, <3>2
      <4> HIDE DEF c, a, b, f
      <4>3. (f - n) + (a + b) + c <= Greenlets
          BY ONLY <4>2, n \in Nat, <3>2, <1>t
      <4> QED
          BY <3>5, <3>6, <4>1, <4>3 DEF c, a, b, f
    <3>8. \A v \in Workers \ {w} : free'[v] = free[v] /\ greenQueue'[v] = greenQueue[v]
        BY <1>t, <3>2
    <3> QED
        BY <1>5, <3>3, <3>7, <3>8
  <2>3. CASE GreenJoined(w)
    <3>1. /\ free' = free /\ greenQueue'[w] = << >> /\ \A v \in Workers \ {w} : greenQueue'[v] = greenQueue[v]
          /\ \A v \in Workers : Shooting(v)' = Shooting(v)
        BY <1>t, <2>3 DEF GreenJoined, Shooting
    <3>2. Len(greenQueue'[w]) = 0
        BY <3>1, OfEmpty
    <3>3. free'[w] + Len(greenQueue'[w]) + Cardinality(Shooting(w)') <= Greenlets
        BY <1>t, <1>c, <1>r, <3>1, <3>2
    <3> QED
        BY <1>5, <3>1, <3>3
  <2>4. ASSUME NEW g \in Threads, GreenThread(w, g) PROVE Room'
    <3>1. CASE GreenLoops(w, g)
      <4>1. PICK state \in {"get", "over"} : Thread(w, g, state, Killer)
          BY <3>1 DEF GreenLoops
      <4>2. greenlet[w][g] # "shoot" /\ free' = free /\ greenQueue' = greenQueue
          BY <3>1 DEF GreenLoops, Running
      <4>3. /\ \A v \in Workers \ {w} : Shooting(v)' = Shooting(v)
            /\ Cardinality(Shooting(w)') = Cardinality(Shooting(w))
          BY <1>t, <4>1, <4>2, ShootingNow
      <4> QED
          BY <1>5, <1>r, <4>2, <4>3
    <3>2. CASE GreenTake(w, g)
      <4>1. /\ Thread(w, g, "shoot", Head(greenQueue[w])) /\ greenlet[w][g] = "get" /\ free' = free
            /\ greenQueue' = [greenQueue EXCEPT ![w] = Tail(greenQueue[w])] /\ greenQueue[w] # << >>
          BY <3>2 DEF GreenTake, Running
      <4>2. Head(greenQueue[w]) \in Plan /\ Len(Tail(greenQueue[w])) = Len(greenQueue[w]) - 1
          BY <1>t, <4>1, OfTail
      <4>3. /\ \A v \in Workers \ {w} : Shooting(v)' = Shooting(v)
            /\ Cardinality(Shooting(w)') = Cardinality(Shooting(w)) + 1
          BY <4>1, <4>2, ShootingNow
      <4>4. Len(greenQueue'[w]) = Len(greenQueue[w]) - 1 /\ \A v \in Workers \ {w} : greenQueue'[v] = greenQueue[v]
          BY <1>t, <4>1, <4>2
      <4>5. free'[w] + Len(greenQueue'[w]) + Cardinality(Shooting(w)') <= Greenlets
          BY <1>t, <1>c, <1>r, <4>1, <4>3, <4>4
      <4> QED
          BY <1>5, <4>1, <4>3, <4>4, <4>5
    <3>3. CASE GreenShoot(w, g)
      <4>1. PICK state \in {"get", "over"} : Thread(w, g, state, Killer)
          BY <3>3 DEF GreenShoot
      <4>2. greenlet[w][g] = "shoot" /\ free' = [free EXCEPT ![w] = free[w] + 1] /\ greenQueue' = greenQueue
          BY <3>3 DEF GreenShoot, Running
      <4>3. /\ \A v \in Workers \ {w} : Shooting(v)' = Shooting(v)
            /\ Cardinality(Shooting(w)') = Cardinality(Shooting(w)) - 1
          BY <1>t, <4>1, <4>2, ShootingNow
      <4>4. free'[w] = free[w] + 1 /\ \A v \in Workers \ {w} : free'[v] = free[v]
          BY <1>t, <4>2
      <4>5. free'[w] + Len(greenQueue'[w]) + Cardinality(Shooting(w)') <= Greenlets
          BY <1>t, <1>c, <1>r, <4>2, <4>3, <4>4
      <4> QED
          BY <1>5, <4>2, <4>3, <4>4, <4>5
    <3> QED
        BY <2>4, <3>1, <3>2, <3>3 DEF GreenThread
  <2>5. ASSUME NEW g \in Threads, ThreadInterrupted(w, g) PROVE Room'
    <3>1. Thread(w, g, "over", Killer) /\ greenQueue' = greenQueue
        BY <2>5 DEF ThreadInterrupted
    <3>2. /\ \A v \in Workers \ {w} : Shooting(v)' = Shooting(v)
          /\ greenlet[w][g] = "shoot" => Cardinality(Shooting(w)') = Cardinality(Shooting(w)) - 1
          /\ greenlet[w][g] # "shoot" => Cardinality(Shooting(w)') = Cardinality(Shooting(w))
        BY <1>t, <3>1, ShootingNow
    <3>3. /\ free'[w] = free[w] \/ (greenlet[w][g] = "shoot" /\ free'[w] = free[w] + 1)
          /\ \A v \in Workers \ {w} : free'[v] = free[v]
        BY <1>t, <2>5 DEF ThreadInterrupted
    <3>4. free'[w] + Len(greenQueue'[w]) + Cardinality(Shooting(w)') <= Greenlets
        BY <1>t, <1>c, <1>r, <3>1, <3>2, <3>3
    <3> QED
        BY <1>5, <3>1, <3>2, <3>3, <3>4
  <2>6. CASE ProcessInterrupted(w)
    <3>1. /\ free' = free /\ greenQueue'[w] = << >> /\ \A v \in Workers \ {w} : greenQueue'[v] = greenQueue[v]
          /\ \A v \in Workers \ {w} : greenlet'[v] = greenlet[v]
          /\ \A g \in Threads : greenlet'[w][g] = "over"
        BY <1>t, <2>6 DEF ProcessInterrupted
    <3>2. Shooting(w)' = {} /\ \A v \in Workers \ {w} : Shooting(v)' = Shooting(v)
        BY <3>1 DEF Shooting
    <3>3. Len(greenQueue'[w]) = 0 /\ Cardinality(Shooting(w)') = 0
        BY <3>1, <3>2, OfEmpty, FS_EmptySet
    <3>4. free'[w] + Len(greenQueue'[w]) + Cardinality(Shooting(w)') <= Greenlets
        BY <1>t, <1>c, <3>1, <3>3
    <3> QED
        BY <1>5, <3>1, <3>2, <3>4
  <2> QED
      BY <1>6, <2>1, <2>2, <2>3, <2>4, <2>5, <2>6 DEF GreenMain, GreenSigint
<1> QED
    BY <1>2, <1>3, <1>4, <1>6 DEF Next, GreenNext

-----------------------------------------------------------------------------
(***************************************************************************)
(* The end of the pool                                                     *)
(***************************************************************************)

\* A killer leaves the queue, with all that was before it.
KillerTaken ==
    /\ next' = next
    /\ \/ taskQueue # << >> /\ Head(taskQueue) = Killer /\ taskQueue' = Tail(taskQueue)
       \/ \E n \in 1 .. Len(taskQueue) : /\ taskQueue[n] = Killer
                                         /\ taskQueue' = SubSeq(taskQueue, n + 1, Len(taskQueue))

\* What a step does to a process.
ProcessStep(w) ==
    /\ worker[w] # "exited" /\ \A v \in Workers \ {w} : worker'[v] = worker[v]
    /\ \/ sigints' = sigints + 1
       \/ sigints' = sigints /\ ready' = ready /\ worker[w] \notin {"get", "shoot"}
       \/ sigints' = sigints /\ (quit \/ worker'[w] = "get")
       \/ sigints' = sigints /\ ready' = ready /\ (quit \/ worker'[w] \in {"get", "shoot"} \/ KillerTaken)

LEMMA DefaultProcessStep ==
    ASSUME TypeOK, NEW w \in Workers, Worker(w) \/ Sigint(w)
    PROVE  ProcessStep(w) /\ UNCHANGED <<main, quit>>
<1> USE DEF ProcessStep, Becomes, Loops, plugin
<1>t. worker \in [Workers -> {"setup", "get", "shoot", "join", "teardown", "exited"}]
    BY DEF TypeOK, PoolTypes
<1>1. CASE Take(w)
  <2>1. CASE Head(taskQueue) = Killer
    <3>1. KillerTaken
        BY <1>1, <2>1 DEF Take, KillerTaken, feed
    <3> QED
        BY <1>t, <1>1, <3>1 DEF Take
  <2>2. CASE Head(taskQueue) # Killer
      BY <1>t, <1>1, <2>2 DEF Take
  <2> QED
      BY <2>1, <2>2
<1>2. CASE Setup(w) \/ SetupFails(w) \/ GetEmpty(w) \/ Shoot(w) \/ ShootFails(w) \/ Teardown(w)
    BY <1>t, <1>2 DEF Setup, SetupFails, GetEmpty, Shoot, ShootFails, Teardown
<1>3. CASE Sigint(w)
  <2>1. \A v \in Workers \ {w} : worker'[v] = worker[v]
      BY <1>t, <1>3 DEF Sigint
  <2>2. worker[w] # "exited" /\ sigints' = sigints + 1 /\ UNCHANGED <<main, quit>>
      BY <1>3 DEF Sigint
  <2> QED
      BY <2>1, <2>2
<1> QED
    BY <1>1, <1>2, <1>3 DEF Worker

LEMMA GreenProcessStep ==
    ASSUME TypeOK, NEW w \in Workers, GreenMain(w) \/ GreenSigint(w) \/ \E g \in Threads : GreenThread(w, g)
    PROVE  /\ main' = main
           /\ quit' = quit \/ (quit' = TRUE /\ KillerTaken)
           /\ \/ UNCHANGED <<worker, ready, sigints>>
              \/ ProcessStep(w)
<1>t. worker \in [Workers -> {"setup", "get", "shoot", "join", "teardown", "exited"}]
    BY DEF TypeOK, PoolTypes
<1>1. CASE Pass(w)
  <2>1. PICK n \in 1 .. Len(taskQueue), moved \in Seq(Plan) : Moves(w, n, moved)
      BY <1>1, PassMoves
  <2>2. main' = main /\ next' = next /\ UNCHANGED <<ready, sigints>> /\ worker[w] = "get"
      BY <1>1 DEF Pass, feed
  <2>3. CASE UNCHANGED <<worker, quit>>
      BY <2>2, <2>3
  <2>4. CASE taskQueue[n] = Killer /\ worker' = [worker EXCEPT ![w] = "join"] /\ quit' = TRUE
    <3>1. KillerTaken
        BY <2>1, <2>2, <2>4 DEF KillerTaken, Moves
    <3> QED
        BY <1>t, <2>2, <2>4, <3>1 DEF ProcessStep
  <2> QED
      BY <2>1, <2>3, <2>4 DEF Moves
<1>2. CASE GreenSetup(w) \/ Quits(w) \/ GreenJoined(w) \/ Framed(w)
    BY <1>t, <1>2 DEF GreenSetup, Quits, GreenJoined, Framed, SetupFails, Teardown, ProcessStep, Becomes, plugin
<1>3. CASE \E g \in Threads : GreenThread(w, g)
    BY <1>3 DEF GreenThread, GreenLoops, GreenTake, GreenShoot, poolVars, pool, plugin
<1>4. CASE GreenSigint(w)
  <2>1. UNCHANGED <<main, quit>> /\ sigints' = sigints + 1 /\ worker[w] # "exited"
      BY <1>4 DEF GreenSigint, ProcessInterrupted, ThreadInterrupted, plugin
  <2>2. \A v \in Workers \ {w} : worker'[v] = worker[v]
      BY <1>t, <1>4 DEF GreenSigint, ProcessInterrupted, ThreadInterrupted, Becomes
  <2> QED
      BY <2>1, <2>2 DEF ProcessStep
<1> QED
    BY <1>1, <1>2, <1>3, <1>4 DEF GreenMain

\* What any step does to the processes and to the plugin.
LEMMA ControlStep ==
    ASSUME TypeOK, [Next]_vars
    PROVE  /\ main' = "poll" => main = "poll"
           /\ main' = "poll" /\ quit' => quit \/ (opt.type = "green" /\ KillerTaken)
           /\ \/ UNCHANGED <<worker, ready, sigints>>
              \/ \E w \in Workers : ProcessStep(w)
<1>1. CASE TankNext
    BY <1>1 DEF TankNext, Feeder, Put, PutFull, PutClosed, PutKiller, KillersFull, Joined,
                Main, Finished, Stop, Stopped, Empty, FeederJoined, pool, plugin
<1>2. CASE DefaultNext
    BY <1>2, DefaultProcessStep DEF DefaultNext
<1>3. CASE opt.type = "green" /\ GreenNext
  <2>1. PICK w \in Workers : GreenMain(w) \/ GreenSigint(w) \/ \E g \in Threads : GreenThread(w, g)
      BY <1>3 DEF GreenNext
  <2> QED
      BY <1>3, <2>1, GreenProcessStep
<1>4. CASE UNCHANGED readerLeaves
    BY <1>4 DEF readerLeaves, pool
<1>5. CASE UNCHANGED vars
    BY <1>5 DEF vars, poolVars, pool, plugin
<1> QED
    BY <1>1, <1>2, <1>3, <1>4, <1>5 DEF Next

LEMMA KillerSpends ==
    ASSUME TypeOK, Ordered, KillerTaken, opt' = opt
    PROVE  Spent'
<1> DEFINE S == Plan \union {Killer}
<1>1. taskQueue \in Seq(S)
    BY PlaceTypes
<1>2. ASSUME NEW k \in DOMAIN taskQueue, taskQueue[k] = Killer
      PROVE  /\ next = opt.tasks + 1
             /\ \A j \in DOMAIN taskQueue : k < j => taskQueue[j] = Killer
    BY <1>2 DEF Ordered, Has
<1>3. CASE taskQueue # << >> /\ Head(taskQueue) = Killer /\ taskQueue' = Tail(taskQueue)
  <2>1. /\ Head(taskQueue) = taskQueue[1] /\ 1 \in DOMAIN taskQueue
        /\ \A i \in DOMAIN Tail(taskQueue) : i \in Nat /\ i + 1 \in DOMAIN taskQueue /\ Tail(taskQueue)[i] = taskQueue[i + 1]
    <3> HIDE DEF S
    <3> QED
        BY <1>1, <1>3, OfTail
  <2>2. \A i \in DOMAIN Tail(taskQueue) : 1 < i + 1
    <3> HIDE DEF S
    <3> QED
        BY <1>1, <1>3
  <2>3. next = opt.tasks + 1 /\ \A i \in DOMAIN Tail(taskQueue) : Tail(taskQueue)[i] = Killer
      BY <1>2, <1>3, <2>1, <2>2
  <2> QED
      BY <1>3, <2>3 DEF Spent, KillerTaken
<1>4. ASSUME NEW n \in 1 .. Len(taskQueue), taskQueue[n] = Killer, taskQueue' = SubSeq(taskQueue, n + 1, Len(taskQueue))
      PROVE  Spent'
  <2>1. PICK rest : rest = SubSeq(taskQueue, n + 1, Len(taskQueue))
      OBVIOUS
  <2>2. /\ \A i \in DOMAIN rest : i \in Nat /\ i + n \in DOMAIN taskQueue /\ rest[i] = taskQueue[i + n]
        /\ rest \in Seq(S) /\ n \in Nat /\ n \in DOMAIN taskQueue
    <3> HIDE DEF S
    <3> QED
        BY <1>1, <2>1, OfParts
  <2>3. \A i \in DOMAIN rest : n < i + n
    <3> HIDE DEF S
    <3> QED
        BY <2>2
  <2>4. next = opt.tasks + 1 /\ \A i \in DOMAIN rest : rest[i] = Killer
      BY <1>2, <1>4, <2>2, <2>3
  <2> QED
      BY <1>4, <2>1, <2>4 DEF Spent, KillerTaken
<1> QED
    BY <1>3, <1>4 DEF KillerTaken

LEMMA SpentStays ==
    ASSUME TypeOK, Spent, TaskStep, opt' = opt
    PROVE  Spent'
<1> USE DEF green3, ends
<1> DEFINE S == Plan \union {Killer}
<1>1. taskQueue \in Seq(S) /\ opt.tasks \in Nat
    BY PlaceTypes, Constants
<1>2. CASE UNCHANGED <<taskQueue, next>>
    BY <1>2 DEF Spent
<1>3. CASE PutsTask
    BY <1>1, <1>3 DEF Spent, PutsTask, Plan
<1>4. CASE PutsKiller
  <2>1. \A i \in DOMAIN taskQueue' : taskQueue'[i] = Killer
    <3>1. taskQueue' = Append(taskQueue, Killer)
        BY <1>4 DEF PutsKiller
    <3>2. \A i \in DOMAIN taskQueue' : (i \in DOMAIN taskQueue /\ taskQueue'[i] = taskQueue[i]) \/ taskQueue'[i] = Killer
      <4> HIDE DEF S
      <4> QED
          BY <1>1, <3>1
    <3> QED
        BY <3>2 DEF Spent
  <2> QED
      BY <1>4, <2>1 DEF Spent, PutsKiller
<1>5. ASSUME taskQueue # << >>, taskQueue' = Tail(taskQueue), next' = next PROVE Spent'
  <2>1. \A i \in DOMAIN Tail(taskQueue) : i \in Nat /\ i + 1 \in DOMAIN taskQueue /\ Tail(taskQueue)[i] = taskQueue[i + 1]
    <3> HIDE DEF S
    <3> QED
        BY <1>1, <1>5, OfTail
  <2> QED
      BY <1>5, <2>1 DEF Spent
<1>6. ASSUME NEW w \in Workers, MovesTasks(w) PROVE Spent'
  <2>1. PICK n \in 1 .. Len(taskQueue), moved \in Seq(Plan) : Moves(w, n, moved)
      BY <1>6 DEF MovesTasks
  <2>2. PICK rest : rest = SubSeq(taskQueue, n + 1, Len(taskQueue))
      OBVIOUS
  <2>3. \A i \in DOMAIN rest : i \in Nat /\ i + n \in DOMAIN taskQueue /\ rest[i] = taskQueue[i + n]
    <3> HIDE DEF S
    <3> QED
        BY <1>1, <2>2, OfParts
  <2>4. taskQueue' = rest /\ next' = next
      BY <1>6, <2>1, <2>2 DEF Moves, MovesTasks
  <2> QED
      BY <2>3, <2>4 DEF Spent
<1> QED
    BY <1>2, <1>3, <1>4, <1>5, <1>6 DEF TaskStep, Still, Empties, Takes, Shoots, Loses, GreenTakes, GreenShoots

LEMMA NextEnded ==
    ASSUME TypeOK, Fed, Ordered, Ended, [Next]_vars
    PROVE  Ended'
<1>0. opt' = opt
    BY OptStays
<1>1. Spent => Spent'
    BY <1>0, EveryTaskStep, SpentStays
<1>2. KillerTaken => Spent'
    BY <1>0, KillerSpends
<1>3. ASSUME main' = "poll", quit' PROVE Spent' /\ opt'.type = "green"
    BY <1>0, <1>1, <1>2, <1>3, ControlStep DEF Ended
<1>4. ASSUME main' = "poll", ready', sigints' = 0
      PROVE  Spent' \/ \E w \in Workers : worker'[w] \in {"get", "shoot"}
  <2>0. main = "poll" /\ sigints \in Nat
    <3>1. sigints \in 0 .. opt.sigints /\ opt.sigints \in Nat
        BY Constants DEF TypeOK, PoolTypes
    <3>2. main = "poll"
        BY <1>4, ControlStep
    <3> QED
        BY <3>1, <3>2
  <2>1. CASE quit
      BY <1>1, <2>0, <2>1 DEF Ended
  <2>2. CASE UNCHANGED <<worker, ready, sigints>>
      BY <1>1, <1>4, <2>0, <2>2 DEF Ended
  <2>3. ASSUME ~quit, NEW w \in Workers, ProcessStep(w)
        PROVE  Spent' \/ \E v \in Workers : worker'[v] \in {"get", "shoot"}
    <3>1. sigints' # sigints + 1
        BY <1>4, <2>0
    <3>2. CASE worker'[w] = "get"
        BY <3>2
    <3>3. CASE sigints' = sigints /\ ready' = ready
      <4>1. Spent \/ \E v \in Workers : worker[v] \in {"get", "shoot"}
          BY <1>4, <2>0, <3>3 DEF Ended
      <4> QED
          BY <1>1, <1>2, <2>3, <3>1, <4>1 DEF ProcessStep
    <3> QED
        BY <2>3, <3>1, <3>2, <3>3 DEF ProcessStep
  <2> QED
      BY <2>1, <2>2, <2>3, ControlStep
<1>5. ASSUME workersFinished' PROVE AllExited' /\ next' = opt'.tasks + 1 /\ feeder' = "over"
  <2>1. AllExited => AllExited'
    <3>1. SUFFICES ASSUME NEW v \in Workers, worker[v] = "exited" PROVE worker'[v] = "exited"
        BY DEF AllExited
    <3> QED
        BY <3>1, ControlStep DEF ProcessStep
  <2>2. CASE workersFinished
    <3>1. ~Feeder
        BY <2>2 DEF Ended, Feeder, Put, PutFull, PutClosed, PutKiller, KillersFull, Joined
    <3> QED
        BY <1>0, <2>1, <2>2, <3>1, OnlyFeederFeeds DEF Ended, feed
  <2>3. CASE ~workersFinished
    <3>1. Joined
        BY <1>5, <2>3, OnlyFeederFeeds DEF feed, Feeder, Put, PutFull, PutClosed, PutKiller, KillersFull
    <3> QED
        BY <1>0, <2>1, <3>1 DEF Joined, Fed
  <2> QED
      BY <2>2, <2>3
<1> QED
    BY <1>3, <1>4, <1>5 DEF Ended

-----------------------------------------------------------------------------
(***************************************************************************)
(* The results                                                             *)
(***************************************************************************)

ResultPlaces == TypeOK /\ Single /\ ResultOnce /\ Passing

results6 == <<item, records, taken, report, orphaned>>

LEMMA NextPassing ==
    ASSUME TypeOK, Passing, [Next]_vars
    PROVE  Passing'
<1>1. CASE UNCHANGED <<cacher, target, item, listener, taken>>
    BY <1>1 DEF Passing
<1>2. CASE Reader!ReaderNext
  <2>1. CASE Reader!Get \/ Reader!AppendItem \/ Reader!LookClosed
      BY <2>1 DEF Passing, Reader!Get, Reader!AppendItem, Reader!LookClosed, Reader!listening
  <2>2. CASE Reader!Swap
      BY <2>2 DEF Passing, Reader!Swap
  <2>3. CASE Reader!Write \/ Reader!Closed \/ Reader!CacherJoined
      BY <2>3 DEF Passing, Reader!Write, Reader!Closed, Reader!CacherJoined, Reader!caching
  <2> QED
      BY <1>2, <2>1, <2>2, <2>3 DEF Reader!ReaderNext, Reader!Cacher, Reader!Listener
<1> QED
    BY <1>1, <1>2 DEF Next, vars, poolLeaves

\* What a step of the pool does to the results.
ShotStep ==
    /\ UNCHANGED results6
    /\ \/ UNCHANGED <<shot, results, overflowed>>
       \/ \E t \in Plan : t \notin shot /\ shot' = shot \union {t} /\ PutResult(t)

LEMMA PoolShotStep ==
    ASSUME TypeOK, Once,
           \/ TankNext /\ UNCHANGED <<green, poolLeaves>>
           \/ opt.type = "default" /\ DefaultNext /\ UNCHANGED <<green, poolLeaves>>
           \/ opt.type = "green" /\ GreenNext /\ UNCHANGED poolLeaves
    PROVE  ShotStep
<1> USE DEF ShotStep, outcome
<1>0. UNCHANGED results6
    BY DEF poolLeaves, results6
<1>1. CASE TankNext
    BY <1>0, <1>1 DEF TankNext, Feeder, Put, PutFull, PutClosed, PutKiller, KillersFull, Joined,
                      Main, Finished, Stop, Stopped, Empty, FeederJoined
<1>2. CASE DefaultNext
  <2>1. PICK w \in Workers : Worker(w) \/ Sigint(w)
      BY <1>2 DEF DefaultNext
  <2>2. CASE worker[w] = "shoot" /\ (Shoot(w) \/ Sigint(w))
    <3>1. task[w] \in Plan /\ Held(task[w])
        BY <2>2 DEF TypeOK, PoolTypes, Held
    <3>2. task[w] \notin shot
        BY <3>1, OnePlace
    <3>3. UNCHANGED <<shot, results, overflowed>> \/ (shot' = shot \union {task[w]} /\ PutResult(task[w]))
        BY <2>2 DEF Shoot, Sigint
    <3> QED
        BY <1>0, <3>1, <3>2, <3>3
  <2>3. CASE worker[w] # "shoot" /\ Sigint(w)
      BY <1>0, <2>3 DEF Sigint
  <2>4. CASE Setup(w) \/ SetupFails(w) \/ Take(w) \/ GetEmpty(w) \/ ShootFails(w) \/ Teardown(w)
      BY <1>0, <2>4 DEF Setup, SetupFails, Take, GetEmpty, ShootFails, Teardown
  <2> QED
      BY <2>1, <2>2, <2>3, <2>4 DEF Worker, Shoot
<1>3. CASE GreenNext
  <2>1. PICK w \in Workers : GreenMain(w) \/ GreenSigint(w) \/ \E g \in Threads : GreenThread(w, g)
      BY <1>3 DEF GreenNext
  <2>2. CASE GreenMain(w)
      BY <1>0, <2>2 DEF GreenMain, GreenSetup, Pass, Quits, GreenJoined, Framed, SetupFails, Teardown
  <2>3. CASE GreenSigint(w)
      BY <1>0, <2>3 DEF GreenSigint, ProcessInterrupted, ThreadInterrupted
  <2>4. ASSUME NEW g \in Threads, GreenThread(w, g) PROVE ShotStep
    <3>1. CASE GreenLoops(w, g) \/ GreenTake(w, g)
        BY <1>0, <3>1 DEF GreenLoops, GreenTake, poolVars
    <3>2. CASE GreenShoot(w, g)
      <4>1. greenTask[w][g] \in Plan /\ GreenHeld(greenTask[w][g])
          BY <3>2 DEF GreenShoot, Running, TypeOK, GreenTypes, GreenHeld
      <4>2. greenTask[w][g] \notin shot
          BY <4>1, OnePlace
      <4>3. UNCHANGED <<shot, results, overflowed>> \/ (shot' = shot \union {greenTask[w][g]} /\ PutResult(greenTask[w][g]))
          BY <3>2 DEF GreenShoot
      <4> QED
          BY <1>0, <4>1, <4>2, <4>3
    <3> QED
        BY <2>4, <3>1, <3>2 DEF GreenThread
  <2> QED
      BY <2>1, <2>2, <2>3, <2>4
<1> QED
    BY <1>1, <1>2, <1>3

LEMMA ResultTypesNow ==
    ASSUME TypeOK
    PROVE  /\ results \in Seq(Plan) /\ item \in Seq(Plan) /\ records \in Seq(Plan)
           /\ taken \in Seq(Plan) /\ report \in Seq(Plan) /\ orphaned \in Seq(Plan)
           /\ Len(item) <= 1
BY DEF TypeOK, ReaderTypes

\* A result is in one place at most.
LEMMA OneResultPlace ==
    ASSUME ResultPlaces, NEW t \in Plan
    PROVE  /\ Has(item, t) => ~Has(records, t) /\ ~Has(taken, t) /\ ~Has(report, t) /\ ~Has(orphaned, t)
           /\ Has(results, t) => ~Has(item, t)
           /\ Has(taken, t) => ~Has(report, t)
           /\ t \notin shot => ~Has(results, t)
<1>1. Bit(t \in overflowed) + Bit(Has(results, t)) + Bit(Has(item, t)) + Bit(Has(records, t))
            + Bit(Has(taken, t)) + Bit(Has(report, t)) + Bit(Has(orphaned, t)) = Bit(t \in shot)
    BY DEF ResultPlaces, ResultOnce
<1> HIDE DEF Has
<1> QED
    BY <1>1 DEF Bit

LEMMA ResultOnceNow ==
    ASSUME opt' = opt,
           \A t \in Plan :
              Bit(t \in overflowed') + Bit(Has(results', t)) + Bit(Has(item', t)) + Bit(Has(records', t))
                + Bit(Has(taken', t)) + Bit(Has(report', t)) + Bit(Has(orphaned', t)) = Bit(t \in shot')
    PROVE  ResultOnce'
<1>1. Plan' = Plan
    BY DEF Plan
<1> QED
    BY <1>1 DEF ResultOnce, Bit, Has

LEMMA ResultsOfPool ==
    ASSUME ResultPlaces, ShotStep, opt' = opt
    PROVE  Single' /\ ResultOnce'
<1>0. TypeOK /\ Single /\ ResultOnce
    BY DEF ResultPlaces
<1>1. UNCHANGED <<item, records, taken, report, orphaned>>
    BY DEF ShotStep, results6
<1>2. CASE UNCHANGED <<shot, results, overflowed>>
    BY <1>0, <1>1, <1>2, ResultOnceNow DEF Single, ResultOnce
<1>3. ASSUME NEW x \in Plan, x \notin shot, shot' = shot \union {x}, PutResult(x)
      PROVE  Single' /\ ResultOnce'
  <2>1. results \in Seq(Plan) /\ ~Has(results, x)
      BY <1>0, <1>3, ResultTypesNow, OneResultPlace
  <2>2. \/ /\ \A t : Has(results', t) <=> Has(results, t) \/ t = x
           /\ IsInjective(results) => IsInjective(results')
           /\ overflowed' = overflowed
        \/ overflowed' = overflowed \union {x} /\ results' = results
    <3>1. CASE results' = Append(results, x) /\ overflowed' = overflowed
        BY <2>1, <3>1, OfAppend
    <3> QED
        BY <1>3, <3>1 DEF PutResult
  <2>3. Single'
      BY <1>0, <1>1, <2>2 DEF Single
  <2>4. ResultOnce'
    <3>1. SUFFICES ASSUME NEW t \in Plan
          PROVE  Bit(t \in overflowed') + Bit(Has(results', t)) + Bit(Has(item', t)) + Bit(Has(records', t))
                   + Bit(Has(taken', t)) + Bit(Has(report', t)) + Bit(Has(orphaned', t)) = Bit(t \in shot')
        BY ResultOnceNow
    <3>2. Bit(t \in overflowed) + Bit(Has(results, t)) + Bit(Has(item, t)) + Bit(Has(records, t))
            + Bit(Has(taken, t)) + Bit(Has(report, t)) + Bit(Has(orphaned, t)) = Bit(t \in shot)
        BY <1>0 DEF ResultOnce
    <3>3. /\ (t \in shot') <=> (t \in shot \/ t = x)
          /\ t = x => t \notin shot
          /\ \/ (Has(results', t) <=> Has(results, t) \/ t = x) /\ (t \in overflowed' <=> t \in overflowed)
             \/ (t \in overflowed' <=> t \in overflowed \/ t = x) /\ (Has(results', t) <=> Has(results, t))
        BY <1>3, <2>2
    <3>4. /\ (Has(item', t) <=> Has(item, t)) /\ (Has(records', t) <=> Has(records, t)) /\ (Has(taken', t) <=> Has(taken, t))
          /\ (Has(report', t) <=> Has(report, t)) /\ (Has(orphaned', t) <=> Has(orphaned, t))
        BY <1>1
    <3> QED
        BY <3>2, <3>3, <3>4 DEF Bit
  <2> QED
      BY <2>3, <2>4
<1> QED
    BY <1>2, <1>3 DEF ShotStep

\* The item of the cacher goes to the end of a list, or what was taken to that of
\* the report: a list gets results that it does not have.
LEMMA ListNow ==
    ASSUME NEW S, NEW s \in Seq(S), NEW u \in Seq(S), IsInjective(s), IsInjective(u),
           \A t \in S : ~(Has(s, t) /\ Has(u, t))
    PROVE  IsInjective(s \o u) /\ \A t : Has(s \o u, t) <=> Has(s, t) \/ Has(u, t)
<1>1. \A i \in DOMAIN s : s[i] \in S /\ Has(s, s[i])
    BY DEF Has
<1>2. \A i \in DOMAIN s : ~Has(u, s[i])
    BY <1>1
<1> QED
    BY <1>2, OfConcat

LEMMA ResultsOfReader ==
    ASSUME ResultPlaces, Reader!ReaderNext, UNCHANGED readerLeaves
    PROVE  Single' /\ ResultOnce'
<1>0. TypeOK /\ Single /\ ResultOnce /\ Passing
    BY DEF ResultPlaces
<1>1. opt' = opt /\ shot' = shot /\ overflowed' = overflowed
    BY DEF readerLeaves
<1>2. /\ results \in Seq(Plan) /\ item \in Seq(Plan) /\ records \in Seq(Plan)
      /\ taken \in Seq(Plan) /\ report \in Seq(Plan) /\ orphaned \in Seq(Plan) /\ Len(item) <= 1
      /\ IsInjective(results) /\ IsInjective(records) /\ IsInjective(taken)
      /\ IsInjective(report) /\ IsInjective(orphaned)
    BY <1>0, ResultTypesNow DEF Single
<1>3. IsInjective(item)
    BY <1>2 DEF IsInjective
<1>4. IsInjective(<< >>) /\ \A t : ~Has(<< >>, t)
    BY OfEmpty
<1>5. ASSUME NEW t \in Plan
      PROVE  Bit(t \in overflowed) + Bit(Has(results, t)) + Bit(Has(item, t)) + Bit(Has(records, t))
               + Bit(Has(taken, t)) + Bit(Has(report, t)) + Bit(Has(orphaned, t)) = Bit(t \in shot)
    BY <1>0 DEF ResultOnce
<1>6. CASE UNCHANGED <<results, item, records, taken, report, orphaned>>
    BY <1>0, <1>1, <1>6, ResultOnceNow DEF Single, ResultOnce
<1>7. CASE Reader!Get /\ results # << >>
  <2>1. PICK x : x = Head(results)
      OBVIOUS
  <2>2. PICK tail : tail = Tail(results)
      OBVIOUS
  <2>3. item' = <<x>> /\ results' = tail /\ UNCHANGED <<records, taken, report, orphaned>> /\ item = << >>
      BY <1>0, <1>7, <2>1, <2>2 DEF Reader!Get, Reader!listening, Passing
  <2>4. /\ \A t : Has(results, t) <=> Has(tail, t) \/ t = x
        /\ IsInjective(tail) /\ ~Has(tail, x)
      BY <1>2, <1>7, <2>1, <2>2, OfTail
  <2>5. \A t : Has(<<x>>, t) <=> t = x
      BY DEF Has
  <2>6. Single'
      BY <1>2, <2>3, <2>4 DEF Single
  <2>7. SUFFICES ASSUME NEW t \in Plan
        PROVE  Bit(t \in overflowed') + Bit(Has(results', t)) + Bit(Has(item', t)) + Bit(Has(records', t))
                 + Bit(Has(taken', t)) + Bit(Has(report', t)) + Bit(Has(orphaned', t)) = Bit(t \in shot')
      BY <1>1, <2>6, ResultOnceNow
  <2>8. /\ (Has(results, t) <=> Has(results', t) \/ t = x) /\ (t = x => ~Has(results', t))
        /\ (Has(item', t) <=> t = x) /\ ~Has(item, t)
      BY <1>4, <2>3, <2>4, <2>5
  <2>9. /\ (Has(records', t) <=> Has(records, t)) /\ (Has(taken', t) <=> Has(taken, t))
        /\ (Has(report', t) <=> Has(report, t)) /\ (Has(orphaned', t) <=> Has(orphaned, t))
      BY <2>3
  <2> QED
      BY <1>1, <1>5, <2>8, <2>9 DEF Bit
<1>8. CASE Reader!AppendItem
  <2>1. ASSUME NEW s \in Seq(Plan), IsInjective(s), \A t \in Plan : ~(Has(s, t) /\ Has(item, t))
        PROVE  IsInjective(s \o item) /\ \A t : Has(s \o item, t) <=> Has(s, t) \/ Has(item, t)
      BY <1>2, <1>3, <2>1, ListNow
  <2>2. \A t \in Plan : Has(item, t) => ~Has(records, t) /\ ~Has(taken, t) /\ ~Has(orphaned, t)
      BY OneResultPlace
  <2>3. item' = << >> /\ UNCHANGED <<results, report>>
      BY <1>8 DEF Reader!AppendItem
  <2>4. CASE records' = records \o item /\ UNCHANGED <<taken, orphaned>>
    <3>1. IsInjective(records') /\ \A t : Has(records', t) <=> Has(records, t) \/ Has(item, t)
        BY <1>2, <2>1, <2>2, <2>4
    <3>2. Single'
        BY <1>2, <2>3, <2>4, <3>1 DEF Single
    <3>3. SUFFICES ASSUME NEW t \in Plan
          PROVE  Bit(t \in overflowed') + Bit(Has(results', t)) + Bit(Has(item', t)) + Bit(Has(records', t))
                   + Bit(Has(taken', t)) + Bit(Has(report', t)) + Bit(Has(orphaned', t)) = Bit(t \in shot')
        BY <1>1, <3>2, ResultOnceNow
    <3>4. /\ Has(records', t) <=> Has(records, t) \/ Has(item, t)
          /\ Has(item, t) => ~Has(records, t)
          /\ ~Has(item', t) /\ (Has(results', t) <=> Has(results, t)) /\ (Has(taken', t) <=> Has(taken, t))
          /\ (Has(report', t) <=> Has(report, t)) /\ (Has(orphaned', t) <=> Has(orphaned, t))
        BY <1>4, <2>2, <2>3, <2>4, <3>1
    <3> QED
        BY <1>1, <1>5, <3>4 DEF Bit
  <2>5. CASE taken' = taken \o item /\ UNCHANGED <<records, orphaned>>
    <3>1. IsInjective(taken') /\ \A t : Has(taken', t) <=> Has(taken, t) \/ Has(item, t)
        BY <1>2, <2>1, <2>2, <2>5
    <3>2. Single'
        BY <1>2, <2>3, <2>5, <3>1 DEF Single
    <3>3. SUFFICES ASSUME NEW t \in Plan
          PROVE  Bit(t \in overflowed') + Bit(Has(results', t)) + Bit(Has(item', t)) + Bit(Has(records', t))
                   + Bit(Has(taken', t)) + Bit(Has(report', t)) + Bit(Has(orphaned', t)) = Bit(t \in shot')
        BY <1>1, <3>2, ResultOnceNow
    <3>4. /\ Has(taken', t) <=> Has(taken, t) \/ Has(item, t)
          /\ Has(item, t) => ~Has(taken, t)
          /\ ~Has(item', t) /\ (Has(results', t) <=> Has(results, t)) /\ (Has(records', t) <=> Has(records, t))
          /\ (Has(report', t) <=> Has(report, t)) /\ (Has(orphaned', t) <=> Has(orphaned, t))
        BY <1>4, <2>2, <2>3, <2>5, <3>1
    <3> QED
        BY <1>1, <1>5, <3>4 DEF Bit
  <2>6. CASE orphaned' = orphaned \o item /\ UNCHANGED <<records, taken>>
    <3>1. IsInjective(orphaned') /\ \A t : Has(orphaned', t) <=> Has(orphaned, t) \/ Has(item, t)
        BY <1>2, <2>1, <2>2, <2>6
    <3>2. Single'
        BY <1>2, <2>3, <2>6, <3>1 DEF Single
    <3>3. SUFFICES ASSUME NEW t \in Plan
          PROVE  Bit(t \in overflowed') + Bit(Has(results', t)) + Bit(Has(item', t)) + Bit(Has(records', t))
                   + Bit(Has(taken', t)) + Bit(Has(report', t)) + Bit(Has(orphaned', t)) = Bit(t \in shot')
        BY <1>1, <3>2, ResultOnceNow
    <3>4. /\ Has(orphaned', t) <=> Has(orphaned, t) \/ Has(item, t)
          /\ Has(item, t) => ~Has(orphaned, t)
          /\ ~Has(item', t) /\ (Has(results', t) <=> Has(results, t)) /\ (Has(records', t) <=> Has(records, t))
          /\ (Has(report', t) <=> Has(report, t)) /\ (Has(taken', t) <=> Has(taken, t))
        BY <1>4, <2>2, <2>3, <2>6, <3>1
    <3> QED
        BY <1>1, <1>5, <3>4 DEF Bit
  <2> QED
      BY <1>8, <2>4, <2>5, <2>6 DEF Reader!AppendItem
<1>9. CASE Reader!Swap
  <2>1. taken' = records /\ records' = << >> /\ taken = << >> /\ UNCHANGED <<results, item, report, orphaned>>
      BY <1>0, <1>9 DEF Reader!Swap, Passing
  <2>2. Single'
      BY <1>2, <1>4, <2>1 DEF Single
  <2>3. SUFFICES ASSUME NEW t \in Plan
        PROVE  Bit(t \in overflowed') + Bit(Has(results', t)) + Bit(Has(item', t)) + Bit(Has(records', t))
                 + Bit(Has(taken', t)) + Bit(Has(report', t)) + Bit(Has(orphaned', t)) = Bit(t \in shot')
      BY <1>1, <2>2, ResultOnceNow
  <2>4. /\ (Has(taken', t) <=> Has(records, t)) /\ ~Has(records', t) /\ ~Has(taken, t)
        /\ (Has(results', t) <=> Has(results, t)) /\ (Has(item', t) <=> Has(item, t))
        /\ (Has(report', t) <=> Has(report, t)) /\ (Has(orphaned', t) <=> Has(orphaned, t))
      BY <1>4, <2>1
  <2> QED
      BY <1>1, <1>5, <2>4 DEF Bit
<1>10. CASE Reader!Write
  <2>1. report' = report \o taken /\ taken' = << >> /\ UNCHANGED <<results, item, records, orphaned>>
      BY <1>10 DEF Reader!Write
  <2>2. \A t \in Plan : ~(Has(report, t) /\ Has(taken, t))
      BY OneResultPlace
  <2>3. IsInjective(report') /\ \A t : Has(report', t) <=> Has(report, t) \/ Has(taken, t)
      BY <1>2, <2>1, <2>2, ListNow
  <2>4. Single'
      BY <1>2, <1>4, <2>1, <2>3 DEF Single
  <2>5. SUFFICES ASSUME NEW t \in Plan
        PROVE  Bit(t \in overflowed') + Bit(Has(results', t)) + Bit(Has(item', t)) + Bit(Has(records', t))
                 + Bit(Has(taken', t)) + Bit(Has(report', t)) + Bit(Has(orphaned', t)) = Bit(t \in shot')
      BY <1>1, <2>4, ResultOnceNow
  <2>6. /\ (Has(report', t) <=> Has(report, t) \/ Has(taken, t)) /\ ~(Has(report, t) /\ Has(taken, t)) /\ ~Has(taken', t)
        /\ (Has(results', t) <=> Has(results, t)) /\ (Has(item', t) <=> Has(item, t))
        /\ (Has(records', t) <=> Has(records, t)) /\ (Has(orphaned', t) <=> Has(orphaned, t))
      BY <1>4, <2>1, <2>2, <2>3
  <2> QED
      BY <1>1, <1>5, <2>6 DEF Bit
<1>11. CASE (Reader!Get /\ results = << >>) \/ Reader!LookClosed \/ Reader!Closed \/ Reader!CacherJoined
    BY <1>6, <1>11 DEF Reader!Get, Reader!LookClosed, Reader!Closed, Reader!CacherJoined, Reader!listening, Reader!caching
<1> QED
    BY <1>7, <1>8, <1>9, <1>10, <1>11 DEF Reader!ReaderNext, Reader!Cacher, Reader!Listener

LEMMA NextResults ==
    ASSUME TypeOK, Once, Single, ResultOnce, Passing, [Next]_vars
    PROVE  Single' /\ ResultOnce'
<1>1. ResultPlaces /\ opt' = opt
    BY OptStays DEF ResultPlaces
<1>2. CASE UNCHANGED vars
  <2>1. ShotStep
      BY <1>2 DEF ShotStep, vars, poolVars, poolLeaves, outcome, results6
  <2> QED
      BY <1>1, <2>1, ResultsOfPool
<1> QED
    BY <1>1, <1>2, PoolShotStep, ResultsOfPool, ResultsOfReader DEF Next

-----------------------------------------------------------------------------
(***************************************************************************)
(* The invariant                                                           *)
(***************************************************************************)

LEMMA InitInv == Init => IInv
<1> SUFFICES ASSUME Init PROVE IInv
    OBVIOUS
<1> USE DEF Init, PoolInit, GreenInit, Reader!ReaderInit
<1>0. TypeOK
    BY InitTypes
<1>1. /\ opt.tasks \in Nat /\ Cardinality(Workers) \in Nat \ {0} /\ Killer = 0 /\ Killer \notin Plan
      /\ Greenlets \in Nat /\ Plan \subseteq Nat
    BY <1>0, Constants
<1>2. \A t : ~Has(<< >>, t)
    BY OfEmpty
<1>3. Ordered
    BY <1>2 DEF Ordered
<1>4. Fed
    BY <1>1 DEF Fed
<1>5. Kinds
    BY DEF Kinds, Idle
<1>6. Room
  <2>1. SUFFICES ASSUME NEW w \in Workers PROVE free[w] + Len(greenQueue[w]) + Cardinality(Shooting(w)) <= Greenlets
      BY DEF Room
  <2>2. Shooting(w) = {}
      BY DEF Shooting
  <2>3. Cardinality(Shooting(w)) = 0
      BY <2>2, FS_EmptySet
  <2>4. Len(greenQueue[w]) = 0 /\ free[w] = Greenlets
      BY OfEmpty
  <2> QED
      BY <1>1, <2>3, <2>4
<1>7. Alone
    BY DEF Alone
<1>8. Once
  <2>1. SUFFICES ASSUME NEW t \in Plan
        PROVE  Bit(Queued(t)) + Bit(Held(t)) + Bit(GreenHeld(t)) + Bit(GreenQueued(t))
                 + Bit(t \in shot) + Bit(t \in missed) + Bit(t \in dropped) = Bit(t < next)
      BY DEF Once
  <2>2. t # Killer /\ ~(t < next)
      BY <1>1 DEF Plan
  <2>3. ~Queued(t) /\ ~Held(t) /\ ~GreenHeld(t) /\ ~GreenQueued(t)
      BY <1>2, <2>2 DEF Queued, Held, GreenHeld, GreenQueued
  <2>4. t \notin shot /\ t \notin missed /\ t \notin dropped
      OBVIOUS
  <2> QED
      BY <2>2, <2>3, <2>4 DEF Bit
<1>9. Ended
    BY DEF Ended
<1>10. Single
    BY OfEmpty DEF Single
<1>11. ResultOnce
  <2>1. results = << >> /\ item = << >> /\ records = << >> /\ taken = << >> /\ report = << >> /\ orphaned = << >>
        /\ overflowed = {} /\ shot = {}
      OBVIOUS
  <2> QED
      BY <1>2, <2>1 DEF ResultOnce, Bit
<1>12. Passing
    BY DEF Passing
<1> QED
    BY <1>0, <1>3, <1>4, <1>5, <1>6, <1>7, <1>8, <1>9, <1>10, <1>11, <1>12 DEF IInv

LEMMA NextInv == IInv /\ [Next]_vars => IInv'
BY NextTypes, NextPlaces, NextFed, NextKinds, NextRoom, NextEnded, NextResults, NextPassing DEF IInv

LEMMA Invariant == Spec => []IInv
BY InitInv, NextInv, PTL DEF Spec

-----------------------------------------------------------------------------
(***************************************************************************)
(* What follows from it                                                    *)
(***************************************************************************)

\* Something that is in a sequence once is counted once.
LEMMA TimesIs ==
    ASSUME NEW s, NEW t, \A i, j \in DOMAIN s : s[i] = t /\ s[j] = t => i = j
    PROVE  Times(t, s) = Bit(Has(s, t))
<1> DEFINE T == {i \in DOMAIN s : s[i] = t}
<1>1. \A x, y \in T : x = y
    OBVIOUS
<1>2. T # {} <=> Has(s, t)
    BY DEF Has
<1>3. Times(t, s) = Cardinality(T)
    BY DEF Times
<1> HIDE DEF T
<1> QED
    BY <1>1, <1>2, <1>3, AtMostOne DEF Bit

LEMMA InvTasksOnce == IInv => EachTaskOnce
<1> SUFFICES ASSUME IInv, NEW t \in Plan
             PROVE  Times(t, taskQueue) + InProcesses(t) + InThreads(t) + InGreenQueues(t)
                      + In(t, shot) + In(t, missed) + In(t, dropped) = In(t, 1 .. next - 1)
    BY DEF EachTaskOnce
<1>0. TypeOK /\ Ordered /\ Alone /\ Once
    BY DEF IInv
<1>t. /\ taskQueue \in Seq(Plan \union {Killer}) /\ greenQueue \in [Workers -> Seq(Plan)]
      /\ t # Killer /\ t \in Nat /\ t >= 1 /\ next \in Nat /\ Greenlets \in Nat
    BY <1>0, PlaceTypes, Constants DEF Plan
<1>1. Times(t, taskQueue) = Bit(Queued(t))
  <2>1. ASSUME NEW i \in DOMAIN taskQueue, NEW j \in DOMAIN taskQueue, taskQueue[i] = t, taskQueue[j] = t PROVE i = j
    <3>1. i \in Int /\ j \in Int
        BY <1>t
    <3>2. ~(i < j) /\ ~(j < i)
        BY <1>0, <1>t, <2>1 DEF Ordered
    <3> QED
        BY <3>1, <3>2
  <2> QED
      BY <2>1, TimesIs DEF Queued
<1>2. InProcesses(t) = Bit(Held(t))
  <2> DEFINE T == {w \in Workers : task[w] = t}
  <2>1. \A x, y \in T : x = y
      BY <1>0, <1>t DEF Alone
  <2>2. T # {} <=> Held(t)
      BY DEF Held
  <2>3. InProcesses(t) = Cardinality(T)
      BY DEF InProcesses
  <2> HIDE DEF T
  <2> QED
      BY <2>1, <2>2, <2>3, AtMostOne DEF Bit
<1>3. InThreads(t) = Bit(GreenHeld(t))
  <2> DEFINE T == {p \in Workers \X Threads : greenTask[p[1]][p[2]] = t}
  <2>1. \A x, y \in T : x = y
      BY <1>0, <1>t DEF Alone
  <2>2. T # {} <=> GreenHeld(t)
    <3>1. ASSUME NEW w \in Workers, NEW g \in Threads, greenTask[w][g] = t PROVE <<w, g>> \in T
        BY <3>1
    <3>2. ASSUME NEW p \in T PROVE p[1] \in Workers /\ p[2] \in Threads /\ greenTask[p[1]][p[2]] = t
        OBVIOUS
    <3> HIDE DEF T
    <3> QED
        BY <3>1, <3>2 DEF GreenHeld
  <2>3. InThreads(t) = Cardinality(T)
      BY DEF InThreads
  <2> HIDE DEF T
  <2> QED
      BY <2>1, <2>2, <2>3, AtMostOne DEF Bit
<1>4. InGreenQueues(t) = Bit(GreenQueued(t))
  <2> DEFINE T == {p \in Workers \X Threads : p[2] \in DOMAIN greenQueue[p[1]] /\ greenQueue[p[1]][p[2]] = t}
  <2>1. \A x, y \in T : x = y
      BY <1>0 DEF Alone
  <2>2. \A w \in Workers : DOMAIN greenQueue[w] \subseteq Threads
    <3>1. SUFFICES ASSUME NEW w \in Workers PROVE DOMAIN greenQueue[w] \subseteq Threads
        OBVIOUS
    <3>2. Len(greenQueue[w]) \in Nat /\ Len(greenQueue[w]) <= Greenlets /\ DOMAIN greenQueue[w] = 1 .. Len(greenQueue[w])
        BY <1>0, <1>t DEF TypeOK, GreenTypes
    <3> QED
        BY <1>t, <3>2 DEF Threads
  <2>3. T # {} <=> GreenQueued(t)
    <3>1. ASSUME NEW w \in Workers, NEW i \in DOMAIN greenQueue[w], greenQueue[w][i] = t PROVE <<w, i>> \in T
        BY <2>2, <3>1
    <3>2. ASSUME NEW p \in T PROVE p[1] \in Workers /\ p[2] \in DOMAIN greenQueue[p[1]] /\ greenQueue[p[1]][p[2]] = t
        OBVIOUS
    <3> HIDE DEF T
    <3> QED
        BY <3>1, <3>2 DEF GreenQueued, Has
  <2>4. InGreenQueues(t) = Cardinality(T)
      BY DEF InGreenQueues
  <2> HIDE DEF T
  <2> QED
      BY <2>1, <2>3, <2>4, AtMostOne DEF Bit
<1>5. In(t, 1 .. next - 1) = Bit(t < next)
    BY <1>t DEF In, Bit
<1>6. In(t, shot) = Bit(t \in shot) /\ In(t, missed) = Bit(t \in missed) /\ In(t, dropped) = Bit(t \in dropped)
    BY DEF In, Bit
<1> QED
    BY <1>0, <1>1, <1>2, <1>3, <1>4, <1>5, <1>6 DEF Once

LEMMA InvResultsOnce == IInv => EachResultOnce
<1> SUFFICES ASSUME IInv, NEW t \in Plan
             PROVE  In(t, overflowed) + Times(t, results) + Times(t, item) + Times(t, records)
                      + Times(t, taken) + Times(t, report) + Times(t, orphaned) = In(t, shot)
    BY DEF EachResultOnce
<1>0. TypeOK /\ Single /\ ResultOnce
    BY DEF IInv
<1>1. \A i, j \in DOMAIN item : item[i] = t /\ item[j] = t => i = j
    BY <1>0, ResultTypesNow
<1>2. Times(t, item) = Bit(Has(item, t))
    BY <1>1, TimesIs
<1>3. ASSUME NEW s, IsInjective(s) PROVE Times(t, s) = Bit(Has(s, t))
  <2>1. \A i, j \in DOMAIN s : s[i] = t /\ s[j] = t => i = j
      BY <1>3 DEF IsInjective
  <2> QED
      BY <2>1, TimesIs
<1>4. /\ Times(t, results) = Bit(Has(results, t)) /\ Times(t, records) = Bit(Has(records, t))
      /\ Times(t, taken) = Bit(Has(taken, t)) /\ Times(t, report) = Bit(Has(report, t))
      /\ Times(t, orphaned) = Bit(Has(orphaned, t))
    BY <1>0, <1>3 DEF Single
<1>5. In(t, overflowed) = Bit(t \in overflowed) /\ In(t, shot) = Bit(t \in shot)
    BY DEF In, Bit
<1> QED
    BY <1>0, <1>2, <1>4, <1>5 DEF ResultOnce

LEMMA InvFinishedShot == IInv => FinishedMeansShot
<1> SUFFICES ASSUME IInv, workersFinished, main = "poll", sigints = 0, ready
             PROVE  shot \union missed \union dropped = Plan
    BY DEF FinishedMeansShot
<1>0. TypeOK /\ Kinds /\ Once /\ Ended
    BY DEF IInv
<1>1. AllExited /\ next = opt.tasks + 1
    BY <1>0 DEF Ended
<1>2. Spent
    BY <1>0, <1>1 DEF Ended, AllExited
<1>3. ASSUME NEW t \in Plan PROVE t \in shot \union missed \union dropped
  <2>1. t # Killer /\ t < next
      BY <1>0, <1>1, Constants DEF Plan
  <2>2. ~Queued(t)
      BY <1>2, <2>1 DEF Spent, Queued, Has
  <2>3. ~Held(t)
      BY <1>0, <1>1 DEF AllExited, Held, TypeOK, PoolTypes
  <2>4. \A w \in Workers : Idle(w)
      BY <1>0, <1>1 DEF AllExited, Kinds
  <2>5. ~GreenHeld(t) /\ ~GreenQueued(t)
      BY <2>1, <2>4, OfEmpty DEF Idle, GreenHeld, GreenQueued
  <2>6. Bit(Queued(t)) + Bit(Held(t)) + Bit(GreenHeld(t)) + Bit(GreenQueued(t))
            + Bit(t \in shot) + Bit(t \in missed) + Bit(t \in dropped) = Bit(t < next)
      BY <1>0 DEF Once
  <2> QED
      BY <2>1, <2>2, <2>3, <2>5, <2>6 DEF Bit
<1> QED
    BY <1>0, <1>3, PlaceTypes

-----------------------------------------------------------------------------
\* The variables keep their types: the bounds of the queues hold, there is never
\* a free green thread too many, and what a process or a green thread holds while
\* it shoots is a task of the plan (BFGBase, BFGMultiprocessing and BFGGreen of
\* worker.py, BfgReader of reader.py).
THEOREM TypeCorrect == Spec => []TypeOK
BY Invariant, PTL DEF IInv

\* A task that was put into the queue by the feeder is in one place and once,
\* whatever processes fail, are interrupted or stopped (worker.py).
THEOREM TasksOnce == Spec => []EachTaskOnce
BY Invariant, InvTasksOnce, PTL

\* The result of a shot is in one place and once on its way to the report file,
\* or dropped where the code drops it (guns.py:54, reader.py).
THEOREM ResultsOnce == Spec => []EachResultOnce
BY Invariant, InvResultsOnce, PTL

\* A pool that finished by itself took every task of the plan, also when one
\* killer task made all green processes quit (worker.py:221).
THEOREM FinishedShot == Spec => []FinishedMeansShot
BY Invariant, InvFinishedShot, PTL

\* All of it: every task and every result is accounted for, in every test, for any
\* number of processes and of green threads, and any sizes of the queues.
THEOREM AddsUp == Spec => []AccountsAddUp
BY TypeCorrect, TasksOnce, ResultsOnce, FinishedShot, PTL DEF AccountsAddUp
=============================================================================
