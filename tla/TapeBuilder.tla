----------------------------- MODULE TapeBuilder -----------------------------
(***************************************************************************)
(* mlx/transforms.cpp eval_impl, before it runs anything: a depth-first    *)
(* pass counts how often the outputs of each primitive are used (the       *)
(* degree), a breadth-first pass with a limit on its width then puts one   *)
(* output of each unscheduled primitive on the tape, consumers first.      *)
(*                                                                         *)
(* EvalStreams takes the result for granted: its TakeArray takes arrays    *)
(* whose inputs are done, its Needed and CrossStream are the set on the    *)
(* tape and the set that needs a fence.                                    *)
(***************************************************************************)
EXTENDS Integers, Sequences, FiniteSets

CONSTANTS Nodes,    \* the arrays
          Sync,     \* the synchronizer array, the root of the graph
          Graphs,   \* the graphs to build tapes of (see GraphAssumption)
          MaxWidths \* the values of MLX_BFS_MAX_WIDTH

(* inputs[a]: the inputs of a, for Sync the arrays to evaluate; outputs[a]: *)
(* a and its siblings; unscheduled: the arrays without a result yet, closed *)
(* under siblings and consumers; stream[a]: the stream of a's primitive.    *)
(* An array is made from arrays that exist: among any arrays there is one   *)
(* that no other of them was made from.                                     *)
IsGraph(g) ==
    /\ g.inputs \in [Nodes \cup {Sync} -> Seq(Nodes)]
    /\ g.outputs \in [Nodes \cup {Sync} -> SUBSET (Nodes \cup {Sync})]
    /\ g.outputs[Sync] = {Sync}
    /\ \A S \in (SUBSET Nodes) \ {{}} : \E b \in S : \A c \in S :
          \A k \in DOMAIN g.inputs[c] : g.inputs[c][k] \notin g.outputs[b]
    /\ g.unscheduled \in SUBSET Nodes
    /\ DOMAIN g.stream = Nodes \cup {Sync}
    /\ \A a \in Nodes :
         /\ a \in g.outputs[a]
         /\ \A b \in g.outputs[a] : /\ g.outputs[b] = g.outputs[a]
                                    /\ g.inputs[b] = g.inputs[a]
                                    /\ g.stream[b] = g.stream[a]
                                    /\ b \in g.unscheduled <=> a \in g.unscheduled
         /\ \A k \in DOMAIN g.inputs[a] :
               g.inputs[a][k] \in g.unscheduled => a \in g.unscheduled

ASSUME GraphAssumption ==
    Sync \notin Nodes /\ IsFiniteSet(Nodes) /\ \A g \in Graphs : IsGraph(g)
ASSUME WidthAssumption == MaxWidths \subseteq Nat \ {0}

VARIABLES graph,      \* the graph below the synchronizer
          maxWidth,   \* env::bfs_max_width()
          pc,
          dfs,        \* the stack: pairs of an array and its next input
          cache,      \* array -> degree left
          needsFence, \* arrays used by another stream than their own
          detached,   \* evaluated arrays whose links the first pass cut
          tape,
          i,          \* how many arrays of the tape have been expanded
          a, j        \* the array being expanded and its next input

vars == <<graph, maxWidth, pc, dfs, cache, needsFence, detached, tape, i, a, j>>
fixed == <<graph, maxWidth>>

Inputs(x) == graph.inputs[x]
Outputs(x) == graph.outputs[x]
Siblings(x) == Outputs(x) \ {x}
Unscheduled(x) == x \in graph.unscheduled

Top == dfs[Len(dfs)]
Pop == SubSeq(dfs, 1, Len(dfs) - 1)

Init ==
    /\ graph \in Graphs /\ maxWidth \in MaxWidths
    /\ pc = "dfs" /\ dfs = <<<<Sync, 1>>>> /\ cache = <<>> /\ needsFence = {}
    /\ detached = {} /\ tape = <<>> /\ i = 0 /\ a = Sync /\ j = 1

-----------------------------------------------------------------------------
(* First pass *)

(* One more use of in counts for all its siblings. *)
Count(in) ==
    [x \in DOMAIN cache \cup Outputs(in) |->
        IF x \notin Outputs(in) THEN cache[x]
        ELSE IF in \in DOMAIN cache THEN cache[x] + 1 ELSE 1]

CrossesInGraph(in, x) == x # Sync /\ Unscheduled(in) /\ graph.stream[in] # graph.stream[x]

(* Does the consumer x of in run on another stream? *)
Crosses(in, x) == Unscheduled(in) /\ graph.stream[in] # graph.stream[x]

(* Look at the next input of the array on top of the stack; descend into it *)
(* unless it, or a sibling, has been met before.                            *)
VisitInput ==
    /\ pc = "dfs" /\ dfs # <<>> /\ Top[2] \in DOMAIN Inputs(Top[1])
    /\ LET in   == Inputs(Top[1])[Top[2]]
           next == Append(Pop, <<Top[1], Top[2] + 1>>)
       IN  /\ needsFence' = IF Crosses(in, Top[1]) THEN needsFence \cup {in} ELSE needsFence
           /\ cache' = Count(in)
           /\ dfs' = IF in \in DOMAIN cache THEN next ELSE Append(next, <<in, 1>>)
    /\ UNCHANGED <<fixed, pc, detached, tape, i, a, j>>

(* All inputs seen: leave the array, cutting the links of one that has a    *)
(* result (an array kept whole for a transformation excepted).              *)
Leave(isTracer) ==
    /\ pc = "dfs" /\ dfs # <<>> /\ Top[2] \notin DOMAIN Inputs(Top[1])
    /\ detached' = IF Top[1] \in Nodes /\ ~Unscheduled(Top[1]) /\ ~isTracer
                   THEN detached \cup Outputs(Top[1]) ELSE detached
    /\ dfs' = Pop
    /\ UNCHANGED <<fixed, pc, cache, needsFence, tape, i, a, j>>

StartTape ==
    /\ pc = "dfs" /\ dfs = <<>>
    /\ tape' = <<Sync>> /\ pc' = "next"
    /\ UNCHANGED <<fixed, dfs, cache, needsFence, detached, i, a, j>>

-----------------------------------------------------------------------------
(* Second pass *)

MoreToExpand == cache # <<>> /\ (i < Len(tape) \/ dfs # <<>>)

(* Expand the next array of the tape; when there is none, go back to the    *)
(* last one that the width limit cut short.                                 *)
Expand ==
    /\ pc = "next" /\ MoreToExpand
    /\ IF i < Len(tape)
       THEN a' = tape[i + 1] /\ j' = 1 /\ i' = i + 1 /\ UNCHANGED dfs
       ELSE a' = Top[1] /\ j' = Top[2] /\ dfs' = Pop /\ UNCHANGED i
    /\ pc' = "walk"
    /\ UNCHANGED <<fixed, cache, needsFence, detached, tape>>

Finish ==
    /\ pc = "next" /\ ~MoreToExpand
    /\ pc' = "done"
    /\ UNCHANGED <<fixed, dfs, cache, needsFence, detached, tape, i, a, j>>

InputsDone ==
    /\ pc = "walk" /\ j \notin DOMAIN Inputs(a)
    /\ pc' = "next"
    /\ UNCHANGED <<fixed, dfs, cache, needsFence, detached, tape, i, a, j>>

SkipEvaluated ==
    /\ pc = "walk" /\ j \in DOMAIN Inputs(a) /\ ~Unscheduled(Inputs(a)[j])
    /\ j' = j + 1
    /\ UNCHANGED <<fixed, pc, dfs, cache, needsFence, detached, tape, i, a>>

TooWideEarly == Len(tape) - i >= maxWidth - 1

TooWide == Len(tape) - i >= maxWidth

(* As many arrays as allowed wait to be expanded: set a aside. *)
SetAside ==
    /\ pc = "walk" /\ j \in DOMAIN Inputs(a) /\ Unscheduled(Inputs(a)[j])
    /\ TooWide
    /\ dfs' = Append(dfs, <<a, j>>)
    /\ pc' = "next"
    /\ UNCHANGED <<fixed, cache, needsFence, detached, tape, i, a, j>>

DiscountAlone(in) ==
    IF cache[in] = 1 THEN [x \in DOMAIN cache \ {in} |-> cache[x]]
                     ELSE [cache EXCEPT ![in] = @ - 1]

DiscountAtOnce(in) == [x \in DOMAIN cache \ Outputs(in) |-> cache[x]]

(* One use less of in and its siblings; the last one drops them. *)
Discount(in) ==
    IF cache[in] = 1
    THEN [x \in DOMAIN cache \ Outputs(in) |-> cache[x]]
    ELSE [x \in DOMAIN cache |-> IF x \in Outputs(in) THEN cache[x] - 1 ELSE cache[x]]

FirstUse(in) == TRUE

(* Was that the last use of in: all its consumers are on the tape? *)
LastUse(in) == cache[in] = 1

TakeInput ==
    /\ pc = "walk" /\ j \in DOMAIN Inputs(a) /\ Unscheduled(Inputs(a)[j])
    /\ ~TooWide
    /\ LET in == Inputs(a)[j]
       IN  /\ in \in DOMAIN cache
           /\ cache' = Discount(in)
           /\ tape' = IF LastUse(in) THEN Append(tape, in) ELSE tape
    /\ j' = j + 1
    /\ UNCHANGED <<fixed, pc, dfs, needsFence, detached, i, a>>

Done == pc = "done" /\ UNCHANGED vars

Next == \/ VisitInput \/ StartTape \/ (\E isTracer \in BOOLEAN : Leave(isTracer))
        \/ Expand \/ Finish \/ InputsDone \/ SkipEvaluated \/ SetAside \/ TakeInput
        \/ Done

Spec == Init /\ [][Next]_vars /\ WF_vars(Next)

-----------------------------------------------------------------------------
(* Properties *)

OnTape == {tape[k] : k \in DOMAIN tape}

(* The second pass only looks up arrays it has not dropped: cache.find      *)
(* never gives end(), which the code would dereference.                     *)
LookupFound ==
    (pc = "walk" /\ j \in DOMAIN Inputs(a) /\ Unscheduled(Inputs(a)[j]))
        => Inputs(a)[j] \in DOMAIN cache

(* No array comes on the tape before all its consumers, so that taking the  *)
(* tape from the back runs every primitive after its inputs.                *)
ConsumersFirst ==
    \A m, n \in DOMAIN tape :
        (\E k \in DOMAIN Inputs(tape[m]) : Inputs(tape[m])[k] \in Outputs(tape[n]))
            => m < n

(* What EvalStreams!Needed says: the least set with the unscheduled outputs *)
(* and inputs of its members, closed under siblings.                        *)
Needed ==
    LET closed(T) == \A x \in T \cup {Sync} :
            /\ Outputs(x) \ {Sync} \subseteq T
            /\ \A k \in DOMAIN Inputs(x) :
                  Unscheduled(Inputs(x)[k]) => Inputs(x)[k] \in T
    IN  {x \in Nodes : \A T \in SUBSET Nodes : closed(T) => x \in T}

(* When the tape is built, each unscheduled primitive that the outputs need *)
(* is on it, exactly once, and nothing else.                                *)
TapeComplete ==
    pc = "done" =>
        /\ UNION {Outputs(x) : x \in OnTape} = Needed \cup {Sync}
        /\ \A m, n \in DOMAIN tape : tape[m] \in Outputs(tape[n]) => m = n

(* Exactly the needed arrays with a consumer on another stream get a fence. *)
FencesMarked ==
    pc = "done" =>
        needsFence = {x \in Needed : \E y \in Needed \cup {Sync} :
                         /\ \E k \in DOMAIN Inputs(y) : Inputs(y)[k] = x
                         /\ graph.stream[x] # graph.stream[y]}

(* Building the tape ends. *)
Terminates == <>(pc = "done")
=============================================================================
