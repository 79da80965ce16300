------------------------------ MODULE MCGroup ------------------------------
(***************************************************************************)
(* Three ranks: an all_reduce with uneven segments, one of them empty,     *)
(* then a gather; a padded one after a round of sends.  Two ranks: a       *)
(* pipelined all_reduce that reuses its buffers; one in two lanes; a       *)
(* gather in two lanes; an exchange over two wires.                        *)
(***************************************************************************)
EXTENDS RingGroup

Collective(kind, size) == [kind |-> kind, size |-> size, peer |-> 0]
To(r, size) == [kind |-> "send", size |-> size, peer |-> r]
From(r, size) == [kind |-> "recv", size |-> size, peer |-> r]

Base == [ranks |-> 3, wires |-> 1, minSend |-> 4, minPacket |-> 1, maxPacket |-> 4,
         minPiece |-> 1]
Job(base, calls) == base @@ [calls |-> calls]
All(n, calls) == [r \in 0..n - 1 |-> calls]

Uneven == Job([Base EXCEPT !.minPacket = 2],
              All(3, <<Collective("all_reduce", 4), Collective("all_gather", 1)>>))
Padded == LET sum == Collective("all_reduce", 2)
          IN  Job(Base, 0 :> <<To(1, 2), From(2, 1), sum>> @@ 1 :> <<From(0, 2), To(2, 1), sum>>
                     @@ 2 :> <<From(1, 1), To(0, 1), sum>>)
Two == [Base EXCEPT !.ranks = 2, !.minSend = 1]
Pipelined == Job([Two EXCEPT !.minSend = 4, !.maxPacket = 1],
                 All(2, <<Collective("all_reduce", 7)>>))
TwoLanes == Job([Two EXCEPT !.minPacket = 2],
                All(2, <<Collective("all_reduce", 4)>>))
Gather == Job(Two, All(2, <<Collective("all_gather", 3)>>))
TwoWires == Job([Two EXCEPT !.wires = 2, !.minSend = 3],
                0 :> <<To(1, 3), From(1, 1)>> @@ 1 :> <<From(0, 3), To(0, 1)>>)

MCJobs == {Uneven, Pipelined, Padded, TwoLanes, Gather, TwoWires}

(* The calls of every job fit, as LaneProofs!AllMatched demands. *)
MCRounds == {<<1>>, <<1, 2>>, <<1, 3, 4>>, <<1, 2, 4>>, <<2, 3, 4>>}
ASSUME CallsFit ==
    \A j \in Jobs : \E round \in [RanksOf(j) -> MCRounds] : Matched(j, round)
=============================================================================
