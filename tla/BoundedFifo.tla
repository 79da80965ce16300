---------------------------- MODULE BoundedFifo ----------------------------
(***************************************************************************)
(* What python/mlx/quant/shm_ring.py promises: a bounded queue between two *)
(* processes.  Putting a record in and being told so are two steps, and so *)
(* are taking a batch out and having it.  A producer that dies leaves its  *)
(* record in the queue; a consumer that dies takes its batch with it, and  *)
(* that is all that is ever lost.  Creating the queue again empties it.    *)
(***************************************************************************)
EXTENDS Sequences, Integers

CONSTANTS Records,   \* what may be pushed
          Capacities \* how many of them the queue may hold

VARIABLES capacity,
          waiting,   \* what is in the queue
          reporting, \* the record of which the producer has still to be told
          accepted,  \* the records for which push has returned True
          hand,      \* the batch that the consumer has still to be given
          received,  \* the records that pop_batch has returned
          deaths

vars == <<capacity, waiting, reporting, accepted, hand, received, deaths>>

Insert(r) ==
    /\ reporting = {} /\ Len(waiting) < capacity
    /\ waiting' = Append(waiting, r) /\ reporting' = {r}
    /\ UNCHANGED <<capacity, accepted, hand, received, deaths>>

Accept ==
    /\ accepted' = accepted \cup reporting /\ reporting' = {}
    /\ UNCHANGED <<capacity, waiting, hand, received, deaths>>

Take(n) ==
    /\ hand = <<>> /\ n <= Len(waiting)
    /\ hand' = SubSeq(waiting, 1, n)
    /\ waiting' = SubSeq(waiting, n + 1, Len(waiting))
    /\ UNCHANGED <<capacity, reporting, accepted, received, deaths>>

Return ==
    /\ received' = received \o hand /\ hand' = <<>>
    /\ UNCHANGED <<capacity, waiting, reporting, accepted, deaths>>

Die ==
    /\ deaths' = deaths + 1
    /\ \/ reporting' = {} /\ UNCHANGED hand
       \/ hand' = <<>> /\ UNCHANGED reporting
    /\ UNCHANGED <<capacity, waiting, accepted, received>>

Create(c) ==
    /\ capacity' = c /\ waiting' = <<>> /\ accepted' = {} /\ received' = <<>>
    /\ reporting = {} /\ hand = <<>>
    /\ UNCHANGED <<reporting, hand, deaths>>

Init ==
    /\ capacity \in Capacities /\ deaths = 0
    /\ waiting = <<>> /\ reporting = {} /\ accepted = {}
    /\ hand = <<>> /\ received = <<>>

Next ==
    \/ \E r \in Records : Insert(r)
    \/ \E n \in 1..capacity : Take(n)
    \/ Accept \/ Return \/ Die
    \/ \E c \in Capacities : Create(c)

Spec == Init /\ [][Next]_vars
=============================================================================
