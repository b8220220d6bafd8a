---------------------------- MODULE SecondStream ----------------------------
(***************************************************************************)
(* What the consumer of a reader relies on: a stream gives seconds in      *)
(* ascending order, each at most once, until it is over.  TimeChopper      *)
(* implements it; TankAggregator is built on two of them, the samples and  *)
(* the statistics of the load generator.                                   *)
(***************************************************************************)
EXTENDS Naturals, Sequences

CONSTANT Seconds

VARIABLES
    stream,    \* the seconds given so far
    over       \* the stream gives nothing any more

vars == <<stream, over>>

Init == stream = << >> /\ over = FALSE

Emit(ts) ==
    /\ ~over
    /\ \A i \in DOMAIN stream : stream[i] < ts
    /\ stream' = Append(stream, ts)
    /\ UNCHANGED over

End ==
    /\ ~over
    /\ over' = TRUE
    /\ UNCHANGED stream

Next == (\E ts \in Seconds : Emit(ts)) \/ End

Spec == Init /\ [][Next]_vars
=============================================================================
