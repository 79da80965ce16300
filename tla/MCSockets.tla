------------------------------ MODULE MCSockets ------------------------------
(***************************************************************************)
(* One way: two requests, cut up differently at the two ends, an empty one *)
(* between them, calls that fail and a destructor.  Both ways: requests in *)
(* both directions at each end, larger than the system's buffers.          *)
(***************************************************************************)
EXTENDS RingSockets, TLC

CONSTANTS x, y

MCEnds == {x, y}
OneWay == [send |-> x :> <<2, 0, 1>> @@ y :> <<>>, recv |-> x :> <<>> @@ y :> <<1, 2>>,
           closers |-> {}, faults |-> 1]
Closing == [send |-> x :> <<1, 1>> @@ y :> <<>>, recv |-> x :> <<>> @@ y :> <<2>>,
            closers |-> {y}, faults |-> 0]
BothWays == [send |-> x :> <<2>> @@ y :> <<1>>, recv |-> x :> <<1>> @@ y :> <<1, 1>>,
             closers |-> {}, faults |-> 0]
Aborting == [send |-> x :> <<1>> @@ y :> <<>>, recv |-> x :> <<>> @@ y :> <<1>>,
             closers |-> {x}, faults |-> 2]
MCPlans == {OneWay, Closing, BothWays, Aborting}
=============================================================================
