---------------------------- MODULE StreamQueues ----------------------------
(***************************************************************************)
(* What mlx/scheduler.h promises to those who enqueue tasks on streams,    *)
(* and what EvalStreams builds on: a stream runs its tasks one at a time,  *)
(* in the order in which they were enqueued, and none is lost.             *)
(***************************************************************************)
EXTENDS Sequences, Integers

CONSTANTS Streams, Tasks

VARIABLES enqueued, \* the tasks enqueued on each stream so far
          ran       \* those that have run

Init ==
    /\ enqueued = [s \in Streams |-> <<>>]
    /\ ran = [s \in Streams |-> <<>>]

Enqueue(s, t) ==
    /\ enqueued' = [enqueued EXCEPT ![s] = Append(@, t)]
    /\ UNCHANGED ran

RunNext(s) ==
    /\ Len(ran[s]) < Len(enqueued[s])
    /\ ran' = [ran EXCEPT ![s] = Append(@, enqueued[s][Len(@) + 1])]
    /\ UNCHANGED enqueued

Next == \E s \in Streams : RunNext(s) \/ \E t \in Tasks : Enqueue(s, t)

Spec == Init /\ [][Next]_<<enqueued, ran>>
             /\ \A s \in Streams : WF_<<enqueued, ran>>(RunNext(s))
=============================================================================
