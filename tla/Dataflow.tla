------------------------------ MODULE Dataflow ------------------------------
(***************************************************************************)
(* What evaluating a graph of lazy arrays promises, whatever the streams,  *)
(* queues, fences and events that carry it out:                            *)
(*   - the outputs of a primitive come into being together, once, and only *)
(*     after every input of the primitive;                                 *)
(*   - an array is reported as available ("safe to read", mlx/array.h)     *)
(*     only when it has been computed, and stays so.                       *)
(* EvalStreams is shown to implement this module.                          *)
(***************************************************************************)
CONSTANTS Arrays,   \* the arrays of the graph
          Leaves,   \* the arrays that are data from the start
          InputSet, \* InputSet[a]: the set of inputs of a's primitive
          Outputs   \* Outputs[a]: a and its siblings

VARIABLES computed, visible

dataVars == <<computed, visible>>

Init == computed = Leaves /\ visible = Leaves

(* One primitive completes: all of its outputs appear at once. *)
Compute(a) ==
    /\ a \notin computed
    /\ InputSet[a] \subseteq computed
    /\ computed' = computed \cup Outputs[a]
    /\ UNCHANGED visible

(* The user learns that an array can be read. *)
Expose(a) ==
    /\ a \in computed \ visible
    /\ visible' = visible \cup {a}
    /\ UNCHANGED computed

Next == \E a \in Arrays : Compute(a) \/ Expose(a)

Spec == Init /\ [][Next]_dataVars
=============================================================================
