------------------------------- MODULE MCEval -------------------------------
(***************************************************************************)
(* A graph with every shape eval_impl treats apart: an array used on two   *)
(* other streams (a), a split of it into two views (c1, c2) of which one    *)
(* crosses streams, and an array used twice by one primitive (b).           *)
(***************************************************************************)
EXTENDS EvalStreams, TLC

CONSTANTS l, a, b, c1, c2, d, s1, s2

MCArrays == {l, a, b, c1, c2, d}
MCLeaves == {l}
MCStreams == {s1, s2}
MCInputs == l :> <<>> @@ a :> <<l>> @@ b :> <<a, a>>
            @@ c1 :> <<a>> @@ c2 :> <<a>> @@ d :> <<b, c2>>
MCOutputs == [x \in MCArrays |-> IF x \in {c1, c2} THEN {c1, c2} ELSE {x}]
MCViews == {c1, c2}
MCStreamOf == [x \in MCArrays |-> IF x \in {b, d} THEN s2 ELSE s1]

AllRequests == {<<d>>, <<c1, b>>, <<b>>, <<a, d>>}
TwoRequests == {<<b>>, <<c1, d>>}
(* After an async eval of <<a>>, that of <<c1, b>> makes s2 wait for an      *)
(* event of s1 and s1 for a fence of s2; after one of <<b>>, s1 waits for   *)
(* an event of s2.                                                          *)
LiveRequests == {<<a>>, <<b>>, <<c1, b>>}
None == {}
Throwing == {b, c1, d}
=============================================================================
