------------------------------ MODULE MCMemory ------------------------------
(***************************************************************************)
(* A leaf, an array used on two streams (fork), a kernel with two outputs  *)
(* of which nobody uses the second (used, spare), one that may work in     *)
(* place on what the other stream reads (place), a view of it, and a       *)
(* kernel that may take the buffer of the view or that of used (join).     *)
(***************************************************************************)
EXTENDS EvalMemory, TLC

CONSTANTS leaf, fork, used, spare, place, view, join, s1, s2

MCArrays == {leaf, fork, used, spare, place, view, join}
MCLeaves == {leaf}
MCStreams == {s1, s2}
MCInputs == leaf :> <<>> @@ fork :> <<leaf>> @@ used :> <<fork>> @@ spare :> <<fork>>
            @@ place :> <<fork>> @@ view :> <<place>> @@ join :> <<view, used>>
MCOutputs == [x \in MCArrays |-> IF x \in {used, spare} THEN {used, spare} ELSE {x}]
MCViews == {view}
MCStreamOf == [x \in MCArrays |-> IF x \in {used, spare} THEN s2 ELSE s1]
MCInPlace == {fork, place, join}
MCRequests == {<<join>>, <<view>>}
MCKept == {{view, join}}
None == {}
=============================================================================
