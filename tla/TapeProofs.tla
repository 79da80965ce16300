----------------------------- MODULE TapeProofs -----------------------------
(***************************************************************************)
(* The tape of eval_impl, for every graph and every width: the first pass  *)
(* counts each use of an array once, the second takes each back once.      *)
(*                                                                         *)
(* A use is an edge: a primitive, for which its outputs have one speaker,  *)
(* and the place of one of its inputs.  What the passes have done is a set *)
(* of edges that the stack, the tape and its index determine, and the      *)
(* degree of an array is the number of edges to it in that set.  These     *)
(* sets are defined for any values of the variables, so that the lemmas    *)
(* on the steps are about constants.                                       *)
(***************************************************************************)
EXTENDS TapeBuilder, FiniteSetTheorems, TLAPS

All == Nodes \cup {Sync}
Entries == Seq(All \X (Nat \ {0}))

Speaker(g, x) == CHOOSE y \in g.outputs[x] : TRUE

Edges(g) == {e \in All \X (Nat \ {0}) :
                Speaker(g, e[1]) = e[1] /\ e[2] \in DOMAIN g.inputs[e[1]]}

Target(g, e) == g.inputs[e[1]][e[2]]

Uses(g, E, x) == {e \in E : Target(g, e) \in g.outputs[x]}

(* The arrays below the synchronizer: those the first pass meets. *)
Below(g) ==
    {x \in Nodes : \A T \in SUBSET Nodes :
        (\A y \in T \cup {Sync} : /\ g.outputs[y] \ {Sync} \subseteq T
                                  /\ \A k \in DOMAIN g.inputs[y] : g.inputs[y][k] \in T)
            => x \in T}

EdgesBelow(g) == {e \in Edges(g) : e[1] \in Below(g) \cup {Sync}}

-----------------------------------------------------------------------------
(* Graphs *)

LEMMA GraphFacts ==
    ASSUME NEW g \in Graphs
    PROVE  /\ Sync \notin Nodes /\ g.unscheduled \subseteq Nodes
           /\ g.outputs[Sync] = {Sync}
           /\ \A x \in All : /\ x \in g.outputs[x] /\ g.outputs[x] \subseteq All
                             /\ g.inputs[x] \in Seq(Nodes)
                             /\ Len(g.inputs[x]) \in Nat
                             /\ DOMAIN g.inputs[x] = 1..Len(g.inputs[x])
                             /\ \A k \in DOMAIN g.inputs[x] : g.inputs[x][k] \in Nodes
           /\ \A x \in Nodes : g.outputs[x] \subseteq Nodes
           /\ \A x \in All : \A y \in g.outputs[x] :
                 /\ g.outputs[y] = g.outputs[x] /\ g.inputs[y] = g.inputs[x]
                 /\ g.stream[y] = g.stream[x]
                 /\ y \in g.unscheduled <=> x \in g.unscheduled
           /\ \A x \in Nodes : \A k \in DOMAIN g.inputs[x] :
                 g.inputs[x][k] \in g.unscheduled => x \in g.unscheduled
<1>1. IsGraph(g) /\ Sync \notin Nodes
  BY GraphAssumption
<1>2. /\ g.unscheduled \subseteq Nodes /\ g.outputs[Sync] = {Sync}
      /\ \A x \in All : g.outputs[x] \subseteq All /\ g.inputs[x] \in Seq(Nodes)
      /\ \A x \in Nodes : x \in g.outputs[x]
  BY <1>1 DEF IsGraph, All
<1>3. \A x \in Nodes : \A y \in g.outputs[x] :
         /\ g.outputs[y] = g.outputs[x] /\ g.inputs[y] = g.inputs[x]
         /\ g.stream[y] = g.stream[x]
         /\ y \in g.unscheduled <=> x \in g.unscheduled
  BY <1>1 DEF IsGraph
<1>4. \A x \in Nodes : g.outputs[x] \subseteq Nodes
  BY <1>1, <1>2, <1>3 DEF All
<1>5. \A x \in Nodes : \A k \in DOMAIN g.inputs[x] :
         g.inputs[x][k] \in g.unscheduled => x \in g.unscheduled
  BY <1>1 DEF IsGraph
<1>6. \A x \in All : /\ Len(g.inputs[x]) \in Nat
                     /\ DOMAIN g.inputs[x] = 1..Len(g.inputs[x])
                     /\ \A k \in DOMAIN g.inputs[x] : g.inputs[x][k] \in Nodes
  BY <1>2
<1>7. \A x \in All : \A y \in g.outputs[x] :
         /\ g.outputs[y] = g.outputs[x] /\ g.inputs[y] = g.inputs[x]
         /\ g.stream[y] = g.stream[x]
         /\ y \in g.unscheduled <=> x \in g.unscheduled
  BY <1>2, <1>3 DEF All
<1>8. \A x \in All : x \in g.outputs[x]
  BY <1>2 DEF All
<1> QED
  BY <1>1, <1>2, <1>4, <1>5, <1>6, <1>7, <1>8

(* One output speaks for all. *)
LEMMA SpeakerFacts ==
    ASSUME NEW g \in Graphs, NEW x \in All
    PROVE  /\ Speaker(g, x) \in All /\ Speaker(g, x) \in g.outputs[x]
           /\ x \in g.outputs[Speaker(g, x)]
           /\ g.outputs[Speaker(g, x)] = g.outputs[x] /\ g.inputs[Speaker(g, x)] = g.inputs[x]
           /\ g.stream[Speaker(g, x)] = g.stream[x]
           /\ Speaker(g, Speaker(g, x)) = Speaker(g, x)
           /\ \A y \in All : y \in g.outputs[x] => Speaker(g, y) = Speaker(g, x)
<1>1. Speaker(g, x) \in g.outputs[x] /\ Speaker(g, x) \in All
  BY GraphFacts DEF Speaker
<1>2. /\ g.outputs[Speaker(g, x)] = g.outputs[x] /\ g.inputs[Speaker(g, x)] = g.inputs[x]
      /\ g.stream[Speaker(g, x)] = g.stream[x]
  BY <1>1, GraphFacts
<1>3. \A y \in All : g.outputs[y] = g.outputs[x] => Speaker(g, y) = Speaker(g, x)
  BY DEF Speaker
<1> QED
  BY <1>1, <1>2, <1>3, GraphFacts

LEMMA EdgeFacts ==
    ASSUME NEW g \in Graphs, NEW e \in Edges(g)
    PROVE  /\ e[1] \in All /\ e[2] \in Nat \ {0} /\ e[2] \in DOMAIN g.inputs[e[1]]
           /\ e = <<e[1], e[2]>> /\ Speaker(g, e[1]) = e[1]
           /\ Target(g, e) \in Nodes
           /\ Target(g, e) \in g.outputs[Target(g, e)]
<1>1. /\ e[1] \in All /\ e[2] \in Nat \ {0} /\ e[2] \in DOMAIN g.inputs[e[1]]
      /\ e = <<e[1], e[2]>> /\ Speaker(g, e[1]) = e[1]
  BY DEF Edges
<1>2. Target(g, e) \in Nodes
  BY <1>1, GraphFacts DEF Target
<1> QED
  BY <1>1, <1>2, GraphFacts DEF All

(* The edge from an array to one of its inputs. *)
LEMMA EdgeOf ==
    ASSUME NEW g \in Graphs, NEW x \in All, NEW k \in DOMAIN g.inputs[x]
    PROVE  /\ <<Speaker(g, x), k>> \in Edges(g)
           /\ Target(g, <<Speaker(g, x), k>>) = g.inputs[x][k]
           /\ k \in Nat \ {0}
<1>1. k \in Nat \ {0}
  BY GraphFacts
<1> QED
  BY <1>1, SpeakerFacts DEF Edges, Target

LEMMA EdgesFinite == ASSUME NEW g \in Graphs PROVE IsFiniteSet(Edges(g))
<1> DEFINE fan(x) == {x} \X (1..Len(g.inputs[x]))
           f == [x \in All |-> fan(x)]
           T == {fan(x) : x \in All}
<1>1. IsFiniteSet(All)
  <2>1. IsFiniteSet({Sync}) /\ IsFiniteSet(Nodes)
    BY FS_Singleton, GraphAssumption
  <2> QED
    BY <2>1, FS_Union DEF All
<1>2. f \in Surjection(All, T)
  BY DEF Surjection
<1>3. IsFiniteSet(T)
  BY <1>1, <1>2, FS_Surjection
<1>4. ASSUME NEW U \in T PROVE IsFiniteSet(U)
  <2>1. PICK x \in All : U = fan(x)
    OBVIOUS
  <2>2. IsFiniteSet({x}) /\ IsFiniteSet(1..Len(g.inputs[x]))
    <3>1. Len(g.inputs[x]) \in Int /\ 1 \in Int
      BY GraphFacts
    <3>2. IsFiniteSet({x})
      BY FS_Singleton, Zenon
    <3>3. IsFiniteSet(1..Len(g.inputs[x]))
      BY <3>1, FS_Interval, Zenon
    <3> QED
      BY <3>2, <3>3
  <2> QED
    BY <2>1, <2>2, FS_Product
<1>5. IsFiniteSet(UNION T)
  BY <1>3, <1>4, FS_UNION
<1>6. Edges(g) \subseteq UNION T
  <2>1. ASSUME NEW e \in Edges(g) PROVE e \in fan(e[1]) /\ e[1] \in All
    BY EdgeFacts, GraphFacts
  <2> QED
    BY <2>1
<1> QED
  BY <1>5, <1>6, FS_Subset

-----------------------------------------------------------------------------
(* Counting uses *)

LEMMA UsesFinite ==
    ASSUME NEW g \in Graphs, NEW E \in SUBSET Edges(g), NEW x
    PROVE  /\ IsFiniteSet(Uses(g, E, x)) /\ Cardinality(Uses(g, E, x)) \in Nat
           /\ Cardinality(Uses(g, E, x)) = 0 <=> Uses(g, E, x) = {}
<1>1. Uses(g, E, x) \subseteq Edges(g)
  BY DEF Uses
<1>2. IsFiniteSet(Uses(g, E, x))
  BY <1>1, EdgesFinite, FS_Subset
<1> QED
  BY <1>2, FS_CardinalityType, FS_EmptySet

(* One edge more is one more use of all outputs of its target. *)
LEMMA UsesAdd ==
    ASSUME NEW g \in Graphs, NEW E \in SUBSET Edges(g), NEW e \in Edges(g) \ E, NEW x
    PROVE  /\ Target(g, e) \in g.outputs[x] =>
                /\ Cardinality(Uses(g, E \cup {e}, x)) = Cardinality(Uses(g, E, x)) + 1
                /\ Uses(g, E \cup {e}, x) # {}
           /\ Target(g, e) \notin g.outputs[x] => Uses(g, E \cup {e}, x) = Uses(g, E, x)
<1>1. CASE Target(g, e) \in g.outputs[x]
  <2>1. Uses(g, E \cup {e}, x) = Uses(g, E, x) \cup {e} /\ e \notin Uses(g, E, x)
    BY <1>1 DEF Uses
  <2> QED
    BY <1>1, <2>1, UsesFinite, FS_AddElement
<1>2. CASE Target(g, e) \notin g.outputs[x]
  BY <1>2 DEF Uses
<1> QED
  BY <1>1, <1>2

LEMMA UsesRemove ==
    ASSUME NEW g \in Graphs, NEW E \in SUBSET Edges(g), NEW e \in E, NEW x
    PROVE  /\ Target(g, e) \in g.outputs[x] =>
                Cardinality(Uses(g, E \ {e}, x)) = Cardinality(Uses(g, E, x)) - 1
           /\ Target(g, e) \notin g.outputs[x] => Uses(g, E \ {e}, x) = Uses(g, E, x)
<1>1. /\ (E \ {e}) \cup {e} = E /\ E \ {e} \in SUBSET Edges(g)
      /\ e \in Edges(g) \ (E \ {e})
  OBVIOUS
<1>2. /\ Target(g, e) \in g.outputs[x] =>
            Cardinality(Uses(g, E, x)) = Cardinality(Uses(g, E \ {e}, x)) + 1
      /\ Target(g, e) \notin g.outputs[x] => Uses(g, E, x) = Uses(g, E \ {e}, x)
  BY <1>1, UsesAdd
<1>3. Cardinality(Uses(g, E \ {e}, x)) \in Nat
  BY <1>1, UsesFinite
<1> QED
  BY <1>2, <1>3

LEMMA UsesSame ==
    ASSUME NEW g \in Graphs, NEW E, NEW x \in All, NEW y \in g.outputs[x]
    PROVE  Uses(g, E, y) = Uses(g, E, x)
<1>1. g.outputs[y] = g.outputs[x]
  BY GraphFacts
<1> QED
  BY <1>1 DEF Uses

-----------------------------------------------------------------------------
(* What is below the synchronizer *)

LEMMA BelowClosed ==
    ASSUME NEW g \in Graphs, NEW x \in Below(g) \cup {Sync}
    PROVE  /\ x \in All /\ g.outputs[x] \ {Sync} \subseteq Below(g)
           /\ g.outputs[x] \subseteq Below(g) \cup {Sync}
           /\ \A k \in DOMAIN g.inputs[x] : g.inputs[x][k] \in Below(g)
<1>1. x \in All
  BY DEF All, Below
<1>2. ASSUME NEW y \in g.outputs[x] \ {Sync} PROVE y \in Below(g)
  <2>1. y \in Nodes
    BY <1>1, GraphFacts DEF All
  <2>2. ASSUME NEW T \in SUBSET Nodes,
               \A z \in T \cup {Sync} : /\ g.outputs[z] \ {Sync} \subseteq T
                                        /\ \A k \in DOMAIN g.inputs[z] : g.inputs[z][k] \in T
        PROVE  y \in T
    <3>1. x \in T \cup {Sync}
      BY <2>2 DEF Below
    <3> QED
      BY <2>2, <3>1
  <2> QED
    BY <2>1, <2>2 DEF Below
<1>3. ASSUME NEW k \in DOMAIN g.inputs[x] PROVE g.inputs[x][k] \in Below(g)
  <2>1. g.inputs[x][k] \in Nodes
    BY <1>1, GraphFacts
  <2>2. ASSUME NEW T \in SUBSET Nodes,
               \A z \in T \cup {Sync} : /\ g.outputs[z] \ {Sync} \subseteq T
                                        /\ \A l \in DOMAIN g.inputs[z] : g.inputs[z][l] \in T
        PROVE  g.inputs[x][k] \in T
    <3>1. x \in T \cup {Sync}
      BY <2>2 DEF Below
    <3> QED
      BY <2>2, <3>1
  <2> QED
    BY <2>1, <2>2 DEF Below
<1> QED
  BY <1>1, <1>2, <1>3

LEMMA BelowLeast ==
    ASSUME NEW g \in Graphs, NEW T \in SUBSET Nodes,
           \A z \in T \cup {Sync} : /\ g.outputs[z] \ {Sync} \subseteq T
                                    /\ \A l \in DOMAIN g.inputs[z] : g.inputs[z][l] \in T
    PROVE  Below(g) \subseteq T
  BY DEF Below

(* Everything below the synchronizer is used below it. *)
LEMMA BelowUsed ==
    ASSUME NEW g \in Graphs, NEW x \in Below(g)
    PROVE  \E y \in Below(g) \cup {Sync} :
              \E k \in DOMAIN g.inputs[y] : g.inputs[y][k] \in g.outputs[x]
<1> SUFFICES ASSUME \A y \in Below(g) \cup {Sync} :
                       \A k \in DOMAIN g.inputs[y] : g.inputs[y][k] \notin g.outputs[x]
             PROVE  FALSE
  OBVIOUS
<1> DEFINE T == Below(g) \ g.outputs[x]
<1>1. x \in Nodes /\ x \in g.outputs[x] /\ T \in SUBSET Nodes
  BY GraphFacts DEF Below, All
<1>2. ASSUME NEW z \in T \cup {Sync}
      PROVE  /\ g.outputs[z] \ {Sync} \subseteq T
             /\ \A l \in DOMAIN g.inputs[z] : g.inputs[z][l] \in T
  <2>1. z \in Below(g) \cup {Sync} /\ z \in All /\ z \notin g.outputs[x]
    BY <1>1, GraphFacts DEF Below, All
  <2>2. ASSUME NEW y \in g.outputs[z], y \in g.outputs[x] PROVE FALSE
    <3>1. g.outputs[y] = g.outputs[z] /\ g.outputs[y] = g.outputs[x] /\ z \in g.outputs[z]
      BY <1>1, <2>1, <2>2, GraphFacts DEF All
    <3> QED
      BY <2>1, <3>1
  <2> QED
    BY <2>1, <2>2, BelowClosed
<1> HIDE DEF T
<1>3. Below(g) \subseteq T
  BY <1>1, <1>2, BelowLeast
<1> USE DEF T
<1> QED
  BY <1>1, <1>3

(* Among any arrays there is one that none of them uses. *)
LEMMA LastOfAll ==
    ASSUME NEW g \in Graphs, NEW B \in (SUBSET Nodes) \ {{}}
    PROVE  \E x \in B : \A y \in B :
              \A k \in DOMAIN g.inputs[y] : g.inputs[y][k] \notin g.outputs[x]
  BY GraphAssumption DEF IsGraph

-----------------------------------------------------------------------------
(* What has to be computed *)

NeededOf(g) == Below(g) \cap g.unscheduled

(* Whoever uses an array without a result has none either. *)
LEMMA NeededUsers ==
    ASSUME NEW g \in Graphs, NEW x \in NeededOf(g)
    PROVE  /\ x \in Nodes /\ x \in g.unscheduled /\ g.outputs[x] \subseteq NeededOf(g)
           /\ \A y \in Below(g) \cup {Sync} : \A k \in DOMAIN g.inputs[y] :
                 g.inputs[y][k] \in g.outputs[x] => y \in NeededOf(g) \cup {Sync}
<1>1. x \in Below(g) /\ x \in Nodes /\ x \in g.unscheduled
  BY DEF NeededOf, Below
<1>2. g.outputs[x] \subseteq NeededOf(g)
  <2>1. g.outputs[x] \subseteq Nodes /\ g.outputs[x] \ {Sync} \subseteq Below(g)
    BY <1>1, BelowClosed, GraphFacts
  <2>2. \A y \in g.outputs[x] : y \in g.unscheduled
    BY <1>1, GraphFacts DEF All
  <2> QED
    BY <2>1, <2>2, GraphFacts DEF NeededOf
<1>3. ASSUME NEW y \in Below(g) \cup {Sync}, NEW k \in DOMAIN g.inputs[y],
             g.inputs[y][k] \in g.outputs[x], y # Sync
      PROVE  y \in NeededOf(g)
  <2>1. g.inputs[y][k] \in g.unscheduled
    BY <1>2, <1>3 DEF NeededOf
  <2>2. y \in Nodes /\ y \in Below(g)
    BY <1>3 DEF Below
  <2> QED
    BY <2>1, <2>2, GraphFacts DEF NeededOf
<1> QED
  BY <1>1, <1>2, <1>3

(* A set that has the arrays without a result that are used by its members  *)
(* or the synchronizer, and all outputs of its members, has all of them.    *)
LEMMA NeededReached ==
    ASSUME NEW g \in Graphs, NEW T \in SUBSET Nodes,
           \A x \in T : g.outputs[x] \subseteq T,
           \A y \in (T \cap NeededOf(g)) \cup {Sync} : \A k \in DOMAIN g.inputs[y] :
              g.inputs[y][k] \in g.unscheduled => g.inputs[y][k] \in T
    PROVE  NeededOf(g) \subseteq T
<1> DEFINE B == NeededOf(g) \ T
<1> SUFFICES ASSUME B # {} PROVE FALSE
  OBVIOUS
<1>1. B \in (SUBSET Nodes) \ {{}}
  BY NeededUsers
<1>2. PICK x \in B : \A y \in B : \A k \in DOMAIN g.inputs[y] : g.inputs[y][k] \notin g.outputs[x]
  <2> HIDE DEF B
  <2> QED
    BY <1>1, LastOfAll
<1>3. x \in NeededOf(g) /\ x \in Below(g) /\ x \notin T
  BY <1>2 DEF NeededOf
<1>4. PICK y \in Below(g) \cup {Sync} :
         \E k \in DOMAIN g.inputs[y] : g.inputs[y][k] \in g.outputs[x]
  BY <1>3, BelowUsed
<1>5. PICK k \in DOMAIN g.inputs[y] : g.inputs[y][k] \in g.outputs[x]
  BY <1>4
<1>6. y \in NeededOf(g) \cup {Sync} /\ y \notin B
  BY <1>2, <1>3, <1>5, NeededUsers
<1>7. g.inputs[y][k] \in g.unscheduled /\ x \in Nodes
  BY <1>3, <1>5, NeededUsers DEF NeededOf
<1>8. g.inputs[y][k] \in T
  BY <1>6, <1>7
<1>9. g.outputs[g.inputs[y][k]] = g.outputs[x] /\ x \in g.outputs[x]
  BY <1>5, <1>7, GraphFacts DEF All
<1> QED
  BY <1>3, <1>8, <1>9

LEMMA NeededIs ==
    ASSUME graph \in Graphs
    PROVE  Needed = NeededOf(graph)
<1> DEFINE closed(T) == \A x \in T \cup {Sync} :
               /\ Outputs(x) \ {Sync} \subseteq T
               /\ \A k \in DOMAIN Inputs(x) : Unscheduled(Inputs(x)[k]) => Inputs(x)[k] \in T
<1>1. Needed = {x \in Nodes : \A T \in SUBSET Nodes : closed(T) => x \in T}
  BY DEF Needed
<1>2. NeededOf(graph) \in SUBSET Nodes
  BY DEF NeededOf, Below
<1>3. closed(NeededOf(graph))
  <2>1. ASSUME NEW x \in NeededOf(graph) \cup {Sync}
        PROVE  /\ Outputs(x) \ {Sync} \subseteq NeededOf(graph)
               /\ \A k \in DOMAIN Inputs(x) :
                     Unscheduled(Inputs(x)[k]) => Inputs(x)[k] \in NeededOf(graph)
    <3>1. x \in Below(graph) \cup {Sync}
      BY DEF NeededOf
    <3>2. Outputs(x) \ {Sync} \subseteq NeededOf(graph)
      BY NeededUsers, GraphFacts DEF Outputs
    <3>3. \A k \in DOMAIN Inputs(x) :
             Unscheduled(Inputs(x)[k]) => Inputs(x)[k] \in NeededOf(graph)
      BY <3>1, BelowClosed DEF Inputs, Unscheduled, NeededOf
    <3> QED
      BY <3>2, <3>3
  <2> QED
    BY <2>1
<1>4. ASSUME NEW T \in SUBSET Nodes, closed(T) PROVE NeededOf(graph) \subseteq T
  <2>1. \A x \in T : graph.outputs[x] \subseteq T
    BY <1>4, GraphFacts DEF Outputs
  <2>2. \A y \in T \cup {Sync} : \A k \in DOMAIN graph.inputs[y] :
           graph.inputs[y][k] \in graph.unscheduled => graph.inputs[y][k] \in T
    BY <1>4 DEF Inputs, Unscheduled
  <2> HIDE DEF closed
  <2> QED
    BY <2>1, <2>2, NeededReached
<1> HIDE DEF closed
<1> QED
  BY <1>1, <1>2, <1>3, <1>4

-----------------------------------------------------------------------------
(* A stack of arrays, each with its next input *)

Stacked(g, d) ==
    /\ d \in Entries
    /\ \A m \in DOMAIN d : d[m][2] <= Len(g.inputs[d[m][1]]) + 1
    /\ \A m, n \in DOMAIN d : d[m][1] \in g.outputs[d[n][1]] => m = n

(* The edge is not one that an array on the stack has still to look at. *)
Behind(g, d, e) == \A m \in DOMAIN d : d[m][1] \in g.outputs[e[1]] => e[2] < d[m][2]

LEMMA EntryFacts ==
    ASSUME NEW d \in Entries
    PROVE  /\ Len(d) \in Nat /\ DOMAIN d = 1..Len(d)
           /\ \A m \in 1..Len(d) : /\ d[m][1] \in All /\ d[m][2] \in Nat \ {0}
                                   /\ d[m] = <<d[m][1], d[m][2]>>
<1>1. Len(d) \in Nat /\ DOMAIN d = 1..Len(d) /\ \A m \in 1..Len(d) : d[m] \in All \X (Nat \ {0})
  BY DEF Entries
<1> QED
  BY <1>1

LEMMA PushFacts ==
    ASSUME NEW d \in Entries, NEW x \in All, NEW k \in Nat \ {0}
    PROVE  /\ Append(d, <<x, k>>) \in Entries
           /\ Len(Append(d, <<x, k>>)) = Len(d) + 1
           /\ DOMAIN Append(d, <<x, k>>) = 1..(Len(d) + 1)
           /\ \A m \in 1..Len(d) : Append(d, <<x, k>>)[m] = d[m]
           /\ Append(d, <<x, k>>)[Len(d) + 1] = <<x, k>>
<1>1. Len(d) \in Nat /\ DOMAIN d = 1..Len(d)
  BY EntryFacts
<1> QED
  BY <1>1 DEF Entries

LEMMA PopFacts ==
    ASSUME NEW d \in Entries, d # <<>>
    PROVE  /\ SubSeq(d, 1, Len(d) - 1) \in Entries
           /\ d[Len(d)][1] \in All /\ d[Len(d)][2] \in Nat \ {0}
           /\ d = Append(SubSeq(d, 1, Len(d) - 1), <<d[Len(d)][1], d[Len(d)][2]>>)
<1>1. Len(d) \in Nat \ {0} /\ \A m \in 1..Len(d) : d[m] \in All \X (Nat \ {0})
  BY DEF Entries
<1>2. SubSeq(d, 1, Len(d) - 1) \in Entries
  BY <1>1 DEF Entries
<1>3. d[Len(d)] \in All \X (Nat \ {0})
  BY <1>1
<1>4. d[Len(d)][1] \in All /\ d[Len(d)][2] \in Nat \ {0} /\ d[Len(d)] = <<d[Len(d)][1], d[Len(d)][2]>>
  BY <1>3
<1>5. d = Append(SubSeq(d, 1, Len(d) - 1), d[Len(d)])
  BY <1>1 DEF Entries
<1> QED
  BY <1>2, <1>4, <1>5

(* The array on top has looked at one input more. *)
LEMMA TopAdvances ==
    ASSUME NEW g \in Graphs, NEW d \in Entries, NEW x \in All, NEW k \in DOMAIN g.inputs[x],
           Stacked(g, Append(d, <<x, k>>))
    PROVE  /\ Stacked(g, Append(d, <<x, k + 1>>))
           /\ ~Behind(g, Append(d, <<x, k>>), <<Speaker(g, x), k>>)
           /\ \A e \in Edges(g) :
                 Behind(g, Append(d, <<x, k + 1>>), e)
                     <=> Behind(g, Append(d, <<x, k>>), e) \/ e = <<Speaker(g, x), k>>
<1> DEFINE u == Append(d, <<x, k>>)  v == Append(d, <<x, k + 1>>)  n == Len(d)
<1>1. k \in Nat \ {0} /\ k + 1 \in Nat \ {0} /\ k + 1 <= Len(g.inputs[x]) + 1 /\ n \in Nat
  BY GraphFacts, EntryFacts
<1>2. /\ v \in Entries /\ DOMAIN u = 1..(n + 1) /\ DOMAIN v = 1..(n + 1)
      /\ \A m \in 1..n : u[m] = d[m] /\ v[m] = d[m]
      /\ u[n + 1] = <<x, k>> /\ v[n + 1] = <<x, k + 1>>
  BY <1>1, PushFacts
<1> HIDE DEF u, v, n
<1>3. /\ \A m \in 1..(n + 1) : m \in 1..n \/ m = n + 1
      /\ \A m \in 1..n : m \in 1..(n + 1) /\ n + 1 \in 1..(n + 1) /\ m # n + 1
      /\ n + 1 \in 1..(n + 1)
  BY <1>1
<1>4. /\ \A m \in 1..(n + 1) : v[m][1] = u[m][1]
      /\ \A m \in 1..n : v[m] = u[m]
  BY <1>2, <1>3
<1>5. Stacked(g, u)
  BY DEF u
<1>6. Stacked(g, v)
  <2>1. \A m \in DOMAIN v : v[m][2] <= Len(g.inputs[v[m][1]]) + 1
    BY <1>1, <1>2, <1>3, <1>4, <1>5, SMTT(30) DEF Stacked
  <2>2. \A l, m \in DOMAIN v : v[l][1] \in g.outputs[v[m][1]] => l = m
    BY <1>2, <1>4, <1>5 DEF Stacked
  <2> QED
    BY <1>2, <2>1, <2>2 DEF Stacked
<1>7. /\ Speaker(g, x) \in All /\ x \in g.outputs[Speaker(g, x)]
  BY SpeakerFacts
<1>8. ~Behind(g, u, <<Speaker(g, x), k>>)
  BY <1>1, <1>2, <1>3, <1>7 DEF Behind
<1>9. ASSUME NEW e \in Edges(g)
      PROVE  Behind(g, v, e) <=> Behind(g, u, e) \/ e = <<Speaker(g, x), k>>
  <2>0. e[1] \in All /\ e[2] \in Nat \ {0} /\ Speaker(g, e[1]) = e[1] /\ e = <<e[1], e[2]>>
    BY EdgeFacts
  <2>1. CASE x \notin g.outputs[e[1]]
    <3>1. e # <<Speaker(g, x), k>>
      BY <1>7, <2>1
    <3> QED
      BY <1>2, <1>3, <1>4, <2>1, <3>1 DEF Behind
  <2>2. CASE x \in g.outputs[e[1]]
    <3>1. e[1] = Speaker(g, x)
      BY <2>0, <2>2, SpeakerFacts
    <3>2. \A m \in 1..n : u[m][1] \notin g.outputs[e[1]]
      <4>1. g.outputs[e[1]] = g.outputs[x]
        BY <2>0, <2>2, GraphFacts
      <4> QED
        BY <1>2, <1>3, <1>5, <4>1 DEF Stacked
    <3>3. Behind(g, v, e) <=> e[2] < k + 1
      BY <1>2, <1>3, <1>4, <2>2, <3>2 DEF Behind
    <3>4. Behind(g, u, e) <=> e[2] < k
      BY <1>2, <1>3, <2>2, <3>2 DEF Behind
    <3> QED
      BY <1>1, <2>0, <3>1, <3>3, <3>4
  <2> QED
    BY <2>1, <2>2
<1> QED
  BY <1>6, <1>8, <1>9 DEF u, v

(* The array on top has looked at all its inputs and leaves. *)
LEMMA TopLeaves ==
    ASSUME NEW g \in Graphs, NEW d \in Entries, NEW x \in All, NEW k \in Nat \ {0},
           k \notin DOMAIN g.inputs[x], Stacked(g, Append(d, <<x, k>>))
    PROVE  /\ Stacked(g, d)
           /\ \A e \in Edges(g) : Behind(g, d, e) <=> Behind(g, Append(d, <<x, k>>), e)
<1> DEFINE u == Append(d, <<x, k>>)  n == Len(d)
<1>1. /\ n \in Nat /\ DOMAIN d = 1..n /\ DOMAIN u = 1..(n + 1)
      /\ \A m \in 1..n : u[m] = d[m]
      /\ u[n + 1] = <<x, k>>
  BY EntryFacts, PushFacts
<1>2. Stacked(g, u)
  OBVIOUS
<1> HIDE DEF u, n
<1>3. /\ \A m \in 1..(n + 1) : m \in 1..n \/ m = n + 1
      /\ \A m \in 1..n : m \in 1..(n + 1)
  BY <1>1
<1>4. Stacked(g, d)
  BY <1>1, <1>2, <1>3 DEF Stacked
<1>5. ASSUME NEW e \in Edges(g) PROVE Behind(g, d, e) <=> Behind(g, u, e)
  <2>1. x \in g.outputs[e[1]] => e[2] < k
    <3>1. e[2] \in DOMAIN g.inputs[e[1]] /\ e[1] \in All
      BY EdgeFacts
    <3>2. x \in g.outputs[e[1]] => g.inputs[x] = g.inputs[e[1]]
      BY <3>1, GraphFacts
    <3>3. Len(g.inputs[x]) \in Nat /\ DOMAIN g.inputs[x] = 1..Len(g.inputs[x])
      BY GraphFacts
    <3> QED
      BY <3>1, <3>2, <3>3
  <2> QED
    BY <1>1, <1>3, <2>1 DEF Behind
<1> QED
  BY <1>4, <1>5 DEF u

(* An array comes on the stack, with all its inputs to look at. *)
LEMMA PushedNew ==
    ASSUME NEW g \in Graphs, NEW d, Stacked(g, d), NEW x \in All,
           \A m \in DOMAIN d : d[m][1] \notin g.outputs[x]
    PROVE  /\ Stacked(g, Append(d, <<x, 1>>))
           /\ \A e \in Edges(g) :
                 Behind(g, Append(d, <<x, 1>>), e) <=> Behind(g, d, e) /\ x \notin g.outputs[e[1]]
<1> DEFINE u == Append(d, <<x, 1>>)  n == Len(d)
<1>1. d \in Entries
  BY DEF Stacked
<1>2. /\ n \in Nat /\ DOMAIN d = 1..n /\ DOMAIN u = 1..(n + 1) /\ u \in Entries
      /\ \A m \in 1..n : u[m] = d[m] /\ d[m][1] \in All
      /\ u[n + 1] = <<x, 1>>
  BY <1>1, EntryFacts, PushFacts
<1> HIDE DEF u, n
<1>3. /\ \A m \in 1..(n + 1) : m \in 1..n \/ m = n + 1
      /\ \A m \in 1..n : m \in 1..(n + 1)
      /\ n + 1 \in 1..(n + 1)
  BY <1>2
<1>4. Stacked(g, u)
  <2>1. Len(g.inputs[x]) \in Nat
    BY GraphFacts
  <2>2. \A m \in DOMAIN u : u[m][2] <= Len(g.inputs[u[m][1]]) + 1
    BY <1>2, <1>3, <2>1, SMTT(30) DEF Stacked
  <2>3. \A m \in 1..n : d[m][1] \notin g.outputs[x] /\ x \notin g.outputs[d[m][1]]
    BY <1>2, GraphFacts
  <2>4. \A l, m \in DOMAIN u : u[l][1] \in g.outputs[u[m][1]] => l = m
    BY <1>2, <1>3, <2>3 DEF Stacked
  <2> QED
    BY <1>2, <2>2, <2>4 DEF Stacked
<1>5. ASSUME NEW e \in Edges(g)
      PROVE  Behind(g, u, e) <=> Behind(g, d, e) /\ x \notin g.outputs[e[1]]
  <2>1. ~(e[2] < 1)
    BY EdgeFacts
  <2> QED
    BY <1>2, <1>3, <2>1 DEF Behind
<1> QED
  BY <1>4, <1>5 DEF u

-----------------------------------------------------------------------------
(* The first pass *)

Passed(g, c, d) == {e \in Edges(g) : e[1] \in DOMAIN c \cup {Sync} /\ Behind(g, d, e)}

FencesOf(g, E) ==
    {x \in g.unscheduled : \E e \in E : Target(g, e) = x /\ g.stream[x] # g.stream[e[1]]}

FirstPass(g, c, d, f) ==
    /\ Stacked(g, d)
    /\ \A m \in DOMAIN d : d[m][1] \in DOMAIN c \cup {Sync}
    /\ DOMAIN c \subseteq Below(g)
    /\ \A x \in DOMAIN c : g.outputs[x] \subseteq DOMAIN c
    /\ \A e \in Passed(g, c, d) : Target(g, e) \in DOMAIN c
    /\ \A x \in DOMAIN c : c[x] = Cardinality(Uses(g, Passed(g, c, d), x)) /\ c[x] > 0
    /\ f = FencesOf(g, Passed(g, c, d))

LEMMA FirstPassStarts ==
    ASSUME NEW g \in Graphs
    PROVE  FirstPass(g, <<>>, << <<Sync, 1>> >>, {})
<1> DEFINE d == << <<Sync, 1>> >>
<1>1. /\ d \in Entries /\ DOMAIN d = {1} /\ d[1] = <<Sync, 1>>
      /\ DOMAIN <<>> = {}
  BY DEF Entries, All
<1>2. g.outputs[Sync] = {Sync} /\ Len(g.inputs[Sync]) \in Nat
  BY GraphFacts DEF All
<1> HIDE DEF d
<1>3. Stacked(g, d)
  BY <1>1, <1>2 DEF Stacked
<1>4. Passed(g, <<>>, d) = {}
  <2>1. ASSUME NEW e \in Passed(g, <<>>, d) PROVE FALSE
    <3>1. e \in Edges(g) /\ e[1] = Sync /\ Behind(g, d, e)
      BY <1>1 DEF Passed
    <3>2. e[2] < 1
      BY <1>1, <1>2, <3>1 DEF Behind
    <3> QED
      BY <3>1, <3>2, EdgeFacts
  <2> QED
    BY <2>1
<1> QED
  BY <1>1, <1>3, <1>4 DEF FirstPass, FencesOf, d

(* Whoever is on the stack uses one input more: its edge is counted for all *)
(* siblings of the input, and the input comes on the stack if it is new.    *)
UseMet(g, c, d, f, x, k, y, c2, d2, f2) ==
    /\ DOMAIN c2 = DOMAIN c \cup g.outputs[y]
    /\ \A z \in DOMAIN c2 : /\ z \notin g.outputs[y] => c2[z] = c[z]
                            /\ z \in g.outputs[y] /\ y \in DOMAIN c => c2[z] = c[z] + 1
                            /\ z \in g.outputs[y] /\ y \notin DOMAIN c => c2[z] = 1
    /\ d2 = IF y \in DOMAIN c THEN Append(d, <<x, k + 1>>)
            ELSE Append(Append(d, <<x, k + 1>>), <<y, 1>>)
    /\ f2 = IF y \in g.unscheduled /\ g.stream[y] # g.stream[x] THEN f \cup {y} ELSE f

LEMMA FirstPassVisits ==
    ASSUME NEW g \in Graphs, NEW c, NEW d \in Entries, NEW f, NEW x \in All,
           NEW k \in DOMAIN g.inputs[x], NEW y, y = g.inputs[x][k],
           FirstPass(g, c, Append(d, <<x, k>>), f),
           NEW c2, NEW d2, NEW f2, UseMet(g, c, d, f, x, k, y, c2, d2, f2)
    PROVE  FirstPass(g, c2, d2, f2)
<1> DEFINE u == Append(d, <<x, k>>)  v == Append(d, <<x, k + 1>>)  new == <<Speaker(g, x), k>>
           E == Passed(g, c, u)  E2 == Passed(g, c2, d2)
<1>0. FirstPass(g, c, u, f)
  OBVIOUS
<1>1. /\ y \in Nodes /\ y \in g.outputs[y] /\ g.outputs[y] \subseteq Nodes
      /\ new \in Edges(g) /\ Target(g, new) = y /\ new[1] = Speaker(g, x)
      /\ k \in Nat \ {0} /\ k + 1 \in Nat \ {0}
  BY GraphFacts, EdgeOf DEF All
<1>2. /\ Len(d) \in Nat /\ DOMAIN u = 1..(Len(d) + 1) /\ DOMAIN v = 1..(Len(d) + 1)
      /\ \A m \in 1..Len(d) : u[m] = d[m] /\ v[m] = d[m]
      /\ u[Len(d) + 1] = <<x, k>> /\ v[Len(d) + 1] = <<x, k + 1>>
      /\ v \in Entries
  <2>1. Len(d) \in Nat
    BY EntryFacts
  <2>2. /\ DOMAIN u = 1..(Len(d) + 1) /\ \A m \in 1..Len(d) : u[m] = d[m]
        /\ u[Len(d) + 1] = <<x, k>>
    BY <1>1, PushFacts
  <2>3. /\ DOMAIN v = 1..(Len(d) + 1) /\ \A m \in 1..Len(d) : v[m] = d[m]
        /\ v[Len(d) + 1] = <<x, k + 1>> /\ v \in Entries
    BY <1>1, PushFacts
  <2> QED
    BY <2>1, <2>2, <2>3
<1>3. /\ Stacked(g, v) /\ ~Behind(g, u, new)
      /\ \A e \in Edges(g) : Behind(g, v, e) <=> Behind(g, u, e) \/ e = new
  BY TopAdvances DEF FirstPass
<1>4. d2 = IF y \in DOMAIN c THEN v ELSE Append(v, <<y, 1>>)
  BY DEF UseMet
<1>4a. DOMAIN c2 = DOMAIN c \cup g.outputs[y]
  BY DEF UseMet
<1>4b. \A z \in DOMAIN c2 : /\ z \notin g.outputs[y] => c2[z] = c[z]
                            /\ z \in g.outputs[y] /\ y \in DOMAIN c => c2[z] = c[z] + 1
                            /\ z \in g.outputs[y] /\ y \notin DOMAIN c => c2[z] = 1
  BY DEF UseMet
<1>4c. f2 = IF y \in g.unscheduled /\ g.stream[y] # g.stream[x] THEN f \cup {y} ELSE f
  BY DEF UseMet
<1> HIDE DEF u, v, new
<1>5. \A m \in DOMAIN v : m \in DOMAIN u /\ v[m][1] = u[m][1] /\ v[m][1] \in DOMAIN c \cup {Sync}
  <2>1. \A m \in 1..(Len(d) + 1) : m \in 1..Len(d) \/ m = Len(d) + 1
    BY <1>2
  <2> QED
    BY <1>0, <1>2, <2>1 DEF FirstPass
<1>6. x \in DOMAIN c \cup {Sync} /\ x \in Below(g) \cup {Sync}
  <2>1. v[Len(d) + 1][1] \in DOMAIN c \cup {Sync}
    BY <1>2, <1>5
  <2> QED
    BY <1>0, <1>2, <2>1 DEF FirstPass
<1>7. Speaker(g, x) \in DOMAIN c \cup {Sync}
  BY <1>0, <1>6, SpeakerFacts, GraphFacts DEF FirstPass
<1>8. y \notin DOMAIN c => g.outputs[y] \cap (DOMAIN c \cup {Sync}) = {}
  <2>1. ASSUME NEW z \in g.outputs[y], z \in DOMAIN c PROVE y \in DOMAIN c
    <3>1. g.outputs[z] = g.outputs[y]
      BY <1>1, GraphFacts DEF All
    <3> QED
      BY <1>0, <1>1, <2>1, <3>1 DEF FirstPass
  <2> QED
    BY <1>1, <2>1, GraphFacts
<1>9. y \in DOMAIN c => DOMAIN c2 = DOMAIN c
  BY <1>0, <1>4a DEF FirstPass
<1>10. E2 = E \cup {new} /\ new \notin E
  <2>1. CASE y \in DOMAIN c
    <3>1. E2 = {e \in Edges(g) : e[1] \in DOMAIN c \cup {Sync} /\ Behind(g, v, e)}
      BY <1>4, <1>9, <2>1 DEF Passed
    <3> QED
      BY <1>1, <1>3, <1>7, <3>1 DEF Passed
  <2>2. CASE y \notin DOMAIN c
    <3>1. \A m \in DOMAIN v : v[m][1] \notin g.outputs[y]
      BY <1>5, <1>8, <2>2
    <3>2. \A e \in Edges(g) : Behind(g, d2, e) <=> Behind(g, v, e) /\ y \notin g.outputs[e[1]]
      <4>1. y \in All
        BY <1>1 DEF All
      <4> QED
        BY <1>3, <1>4, <2>2, <3>1, <4>1, PushedNew
    <3>3. \A e \in Edges(g) : y \in g.outputs[e[1]] <=> e[1] \in g.outputs[y]
      BY <1>1, EdgeFacts, GraphFacts DEF All
    <3>4. \A e \in Edges(g) : e \in E2 <=> e[1] \in DOMAIN c \cup {Sync} /\ Behind(g, v, e)
      BY <1>4a, <1>8, <2>2, <3>2, <3>3 DEF Passed
    <3>5. E2 \subseteq Edges(g) /\ E \subseteq Edges(g)
      BY DEF Passed
    <3>6. \A e \in Edges(g) : e \in E <=> e[1] \in DOMAIN c \cup {Sync} /\ Behind(g, u, e)
      BY DEF Passed
    <3> HIDE DEF E, E2
    <3> QED
      BY <1>1, <1>3, <1>7, <3>4, <3>5, <3>6
  <2> QED
    BY <2>1, <2>2
<1>11. E \in SUBSET Edges(g) /\ \A e \in E : Target(g, e) \in DOMAIN c
  BY <1>0 DEF Passed, FirstPass
<1>12. Stacked(g, d2) /\ \A m \in DOMAIN d2 : d2[m][1] \in DOMAIN c2 \cup {Sync}
  <2>1. CASE y \in DOMAIN c
    BY <1>3, <1>4, <1>4a, <1>5, <1>9, <2>1
  <2>2. CASE y \notin DOMAIN c
    <3>1. (\A m \in DOMAIN v : v[m][1] \notin g.outputs[y]) /\ y \in All
      BY <1>1, <1>5, <1>8, <2>2 DEF All
    <3>2. Stacked(g, d2)
      BY <1>3, <1>4, <2>2, <3>1, PushedNew
    <3>3. /\ DOMAIN d2 = 1..(Len(v) + 1) /\ DOMAIN v = 1..Len(v) /\ Len(v) \in Nat
          /\ \A m \in 1..Len(v) : d2[m] = v[m]
          /\ d2[Len(v) + 1] = <<y, 1>>
      <4>1. DOMAIN v = 1..Len(v) /\ Len(v) \in Nat
        BY <1>2, EntryFacts
      <4>2. d2 = Append(v, <<y, 1>>) /\ 1 \in Nat \ {0}
        BY <1>4, <2>2
      <4> QED
        BY <1>2, <3>1, <4>1, <4>2, PushFacts
    <3> QED
      BY <1>1, <1>4a, <1>5, <3>2, <3>3
  <2> QED
    BY <2>1, <2>2
<1>13. DOMAIN c2 \subseteq Below(g) /\ \A z \in DOMAIN c2 : g.outputs[z] \subseteq DOMAIN c2
  <2>1. g.outputs[y] \subseteq Below(g)
    <3>1. y \in Below(g)
      BY <1>6, BelowClosed
    <3> QED
      BY <1>1, <3>1, BelowClosed, GraphFacts
  <2>2. \A z \in g.outputs[y] : g.outputs[z] = g.outputs[y]
    BY <1>1, GraphFacts DEF All
  <2> QED
    BY <1>0, <1>4a, <2>1, <2>2 DEF FirstPass
<1> HIDE DEF E, E2
<1>14. \A e \in E2 : Target(g, e) \in DOMAIN c2
  BY <1>1, <1>4a, <1>10, <1>11
<1>15. ASSUME NEW z \in DOMAIN c2
       PROVE  c2[z] = Cardinality(Uses(g, E2, z)) /\ c2[z] > 0
  <2>0. /\ new \in Edges(g) \ E /\ z \in All
        /\ y \in g.outputs[z] <=> z \in g.outputs[y]
    BY <1>1, <1>10, <1>13, GraphFacts DEF All, Below
  <2>1. CASE z \notin g.outputs[y]
    <3>1. Uses(g, E2, z) = Uses(g, E, z)
      BY <1>1, <1>10, <1>11, <2>0, <2>1, UsesAdd
    <3>2. z \in DOMAIN c /\ c2[z] = c[z]
      BY <1>4a, <1>4b, <2>1
    <3>3. c[z] = Cardinality(Uses(g, E, z)) /\ c[z] > 0
      BY <1>0, <3>2 DEF FirstPass, E
    <3> QED
      BY <3>1, <3>2, <3>3
  <2>2. CASE z \in g.outputs[y]
    <3>1. Cardinality(Uses(g, E2, z)) = Cardinality(Uses(g, E, z)) + 1
      BY <1>1, <1>10, <1>11, <2>0, <2>2, UsesAdd
    <3>2. CASE y \in DOMAIN c
      <4>1. z \in DOMAIN c /\ c2[z] = c[z] + 1
        BY <1>4b, <1>9, <2>2, <3>2
      <4>2. c[z] = Cardinality(Uses(g, E, z)) /\ c[z] > 0
        BY <1>0, <4>1 DEF FirstPass, E
      <4>3. c[z] \in Nat
        BY <1>11, <4>2, UsesFinite
      <4> QED
        BY <3>1, <4>1, <4>2, <4>3
    <3>3. CASE y \notin DOMAIN c
      <4>1. Uses(g, E, z) = {}
        <5>1. ASSUME NEW e \in E, Target(g, e) \in g.outputs[z] PROVE FALSE
          <6>1. Target(g, e) \in DOMAIN c /\ g.outputs[z] = g.outputs[y]
            BY <1>1, <1>11, <2>2, GraphFacts DEF All
          <6> QED
            BY <1>8, <3>3, <5>1, <6>1
        <5> QED
          BY <5>1 DEF Uses
      <4>2. Cardinality(Uses(g, E, z)) = 0
        BY <1>11, <4>1, UsesFinite
      <4> QED
        BY <1>4b, <2>2, <3>1, <3>3, <4>2
    <3> QED
      BY <3>2, <3>3
  <2> QED
    BY <2>1, <2>2
<1>16. f2 = FencesOf(g, E2)
  <2>1. f = FencesOf(g, E)
    BY <1>0 DEF FirstPass, E
  <2>2. g.stream[new[1]] = g.stream[x]
    BY <1>1, SpeakerFacts
  <2>3. FencesOf(g, E2) = FencesOf(g, E) \cup
           {z \in g.unscheduled : Target(g, new) = z /\ g.stream[z] # g.stream[new[1]]}
    BY <1>10 DEF FencesOf
  <2> QED
    BY <1>1, <1>4c, <2>1, <2>2, <2>3
<1> QED
  BY <1>12, <1>13, <1>14, <1>15, <1>16 DEF FirstPass, E2

LEMMA FirstPassLeaves ==
    ASSUME NEW g \in Graphs, NEW c, NEW d \in Entries, NEW f, NEW x \in All, NEW k \in Nat \ {0},
           k \notin DOMAIN g.inputs[x], FirstPass(g, c, Append(d, <<x, k>>), f)
    PROVE  FirstPass(g, c, d, f)
<1> DEFINE u == Append(d, <<x, k>>)
<1>0. FirstPass(g, c, u, f)
  OBVIOUS
<1>1. /\ Stacked(g, d)
      /\ \A e \in Edges(g) : Behind(g, d, e) <=> Behind(g, u, e)
  BY TopLeaves DEF FirstPass
<1>2. \A m \in DOMAIN d : m \in DOMAIN u /\ u[m] = d[m]
  BY EntryFacts, PushFacts
<1> HIDE DEF u
<1>3. Passed(g, c, d) = Passed(g, c, u)
  BY <1>1 DEF Passed
<1> QED
  BY <1>0, <1>1, <1>2, <1>3 DEF FirstPass

(* At its end every edge below the synchronizer has been counted. *)
LEMMA FirstPassEnds ==
    ASSUME NEW g \in Graphs, NEW c, NEW f, FirstPass(g, c, <<>>, f)
    PROVE  DOMAIN c = Below(g) /\ Passed(g, c, <<>>) = EdgesBelow(g)
<1>1. \A e : Behind(g, <<>>, e)
  BY DEF Behind
<1>2. Passed(g, c, <<>>) = {e \in Edges(g) : e[1] \in DOMAIN c \cup {Sync}}
  BY <1>1 DEF Passed
<1>3. DOMAIN c \subseteq Below(g) /\ DOMAIN c \in SUBSET Nodes
  BY DEF FirstPass, Below
<1>4. ASSUME NEW z \in DOMAIN c \cup {Sync}
      PROVE  /\ g.outputs[z] \ {Sync} \subseteq DOMAIN c
             /\ \A l \in DOMAIN g.inputs[z] : g.inputs[z][l] \in DOMAIN c
  <2>1. z \in All /\ g.outputs[z] \ {Sync} \subseteq DOMAIN c
    BY <1>3, GraphFacts DEF FirstPass, All
  <2>2. ASSUME NEW l \in DOMAIN g.inputs[z] PROVE g.inputs[z][l] \in DOMAIN c
    <3>1. Speaker(g, z) \in DOMAIN c \cup {Sync}
      BY <2>1, SpeakerFacts
    <3>2. <<Speaker(g, z), l>> \in Passed(g, c, <<>>)
      BY <1>2, <2>1, <3>1, EdgeOf
    <3> QED
      BY <2>1, <3>2, EdgeOf DEF FirstPass
  <2> QED
    BY <2>1, <2>2
<1>5. Below(g) \subseteq DOMAIN c
  BY <1>3, <1>4, BelowLeast
<1> QED
  BY <1>2, <1>3, <1>5 DEF EdgesBelow

-----------------------------------------------------------------------------
(* The second pass.  S is the stack of arrays that were set aside, with the *)
(* one that is being expanded on top; n arrays of the tape tp have been     *)
(* taken up.                                                                *)

Taken(g, tp, n, S) ==
    {e \in Edges(g) : (\E m \in 1..n : tp[m] \in g.outputs[e[1]]) /\ Behind(g, S, e)}

Left(g, tp, n, S) == EdgesBelow(g) \ Taken(g, tp, n, S)

(* The tape: the synchronizer, then one output of each of some primitives   *)
(* that have to be run, each after all who use it.                          *)
IsTape(g, tp) ==
    /\ tp \in Seq(All) /\ Len(tp) > 0 /\ tp[1] = Sync
    /\ \A m \in 2..Len(tp) : tp[m] \in NeededOf(g)
    /\ \A l, m \in 1..Len(tp) : tp[l] \in g.outputs[tp[m]] => l = m
    /\ \A k \in 1..Len(tp) : \A e \in EdgesBelow(g) :
          Target(g, e) \in g.outputs[tp[k]] => \E m \in 1..(k - 1) : tp[m] \in g.outputs[e[1]]

(* An array is in the cache until its last use has been taken, with the     *)
(* number of those left; then its primitive is on the tape.                 *)
Counted(g, c, tp, L) ==
    \A x \in NeededOf(g) :
        /\ x \in DOMAIN c <=> \A m \in 1..Len(tp) : tp[m] \notin g.outputs[x]
        /\ x \in DOMAIN c <=> Uses(g, L, x) # {}
        /\ x \in DOMAIN c => c[x] = Cardinality(Uses(g, L, x))

TakenUp(tp, n, S) == \A m \in DOMAIN S : \E k \in 1..n : tp[k] = S[m][1]

SecondPass(g, c, tp, n, S) ==
    /\ IsTape(g, tp) /\ n \in 0..Len(tp)
    /\ Stacked(g, S) /\ TakenUp(tp, n, S)
    /\ Counted(g, c, tp, Left(g, tp, n, S))

LEMMA TapeFacts ==
    ASSUME NEW g \in Graphs, NEW tp, IsTape(g, tp)
    PROVE  /\ Len(tp) \in Nat \ {0} /\ DOMAIN tp = 1..Len(tp)
           /\ \A m \in 1..Len(tp) : /\ tp[m] \in All /\ tp[m] \in NeededOf(g) \cup {Sync}
                                    /\ tp[m] \in Below(g) \cup {Sync}
                                    /\ tp[m] \in g.outputs[tp[m]]
           /\ \A m \in 1..Len(tp) : tp[m] # Sync => tp[m] \in NeededOf(g)
<1>1. Len(tp) \in Nat \ {0} /\ DOMAIN tp = 1..Len(tp) /\ \A m \in 1..Len(tp) : tp[m] \in All
  BY DEF IsTape
<1>2. ASSUME NEW m \in 1..Len(tp) PROVE tp[m] \in NeededOf(g) \cup {Sync}
  BY <1>1 DEF IsTape
<1> QED
  BY <1>1, <1>2, GraphFacts DEF NeededOf

LEMMA SecondPassStarts ==
    ASSUME NEW g \in Graphs, NEW c, NEW f, FirstPass(g, c, <<>>, f)
    PROVE  SecondPass(g, c, <<Sync>>, 0, <<>>) /\ f = FencesOf(g, EdgesBelow(g))
<1>1. DOMAIN c = Below(g) /\ Passed(g, c, <<>>) = EdgesBelow(g)
  BY FirstPassEnds
<1>2. PICK tp : tp = <<Sync>>
  OBVIOUS
<1>3. tp \in Seq(All) /\ Len(tp) = 1 /\ tp[1] = Sync
  BY <1>2 DEF All
<1>4. g.outputs[Sync] = {Sync} /\ \A x \in Nodes : Sync \notin g.outputs[x]
  BY GraphFacts
<1>5. IsTape(g, tp)
  <2>1. \A e \in EdgesBelow(g) : Target(g, e) \notin g.outputs[Sync]
    BY <1>4, EdgeFacts, GraphFacts DEF EdgesBelow
  <2> QED
    BY <1>3, <2>1 DEF IsTape
<1>6. Left(g, tp, 0, <<>>) = EdgesBelow(g)
  BY DEF Left, Taken
<1>7. Counted(g, c, tp, EdgesBelow(g))
  <2>1. ASSUME NEW x \in NeededOf(g)
        PROVE  /\ x \in DOMAIN c /\ \A m \in 1..Len(tp) : tp[m] \notin g.outputs[x]
               /\ c[x] = Cardinality(Uses(g, EdgesBelow(g), x))
               /\ Uses(g, EdgesBelow(g), x) # {}
    <3>1. x \in DOMAIN c /\ x \in Nodes
      BY <1>1 DEF NeededOf, Below
    <3>2. c[x] = Cardinality(Uses(g, EdgesBelow(g), x)) /\ c[x] > 0
      BY <1>1, <3>1 DEF FirstPass
    <3>3. EdgesBelow(g) \in SUBSET Edges(g)
      BY DEF EdgesBelow
    <3>4. Uses(g, EdgesBelow(g), x) # {}
      BY <3>2, <3>3, UsesFinite
    <3> QED
      BY <1>3, <1>4, <3>1, <3>2, <3>4
  <2> QED
    BY <2>1 DEF Counted
<1>8. Stacked(g, <<>>) /\ TakenUp(tp, 0, <<>>)
  BY DEF FirstPass, TakenUp
<1>9. f = FencesOf(g, EdgesBelow(g))
  BY <1>1 DEF FirstPass
<1> QED
  BY <1>2, <1>3, <1>5, <1>6, <1>7, <1>8, <1>9 DEF SecondPass

(* The next array of the tape is taken up: none of its edges is taken yet. *)
LEMMA SecondPassTakesUp ==
    ASSUME NEW g \in Graphs, NEW c, NEW tp, NEW n, NEW S,
           SecondPass(g, c, tp, n, S), n < Len(tp)
    PROVE  SecondPass(g, c, tp, n + 1, Append(S, <<tp[n + 1], 1>>))
<1> DEFINE x == tp[n + 1]  u == Append(S, <<x, 1>>)
<1>1. /\ IsTape(g, tp) /\ n \in 0..Len(tp) /\ Stacked(g, S) /\ TakenUp(tp, n, S)
      /\ Counted(g, c, tp, Left(g, tp, n, S))
  BY DEF SecondPass
<1>2. /\ Len(tp) \in Nat /\ n \in Nat /\ n + 1 \in 1..Len(tp) /\ x \in All
      /\ \A m \in 1..n : m \in 1..Len(tp) /\ m \in 1..(n + 1) /\ m # n + 1
      /\ \A m \in 1..(n + 1) : m \in 1..n \/ m = n + 1
  BY <1>1, TapeFacts
<1>3. \A m \in 1..n : tp[m] \notin g.outputs[x]
  BY <1>1, <1>2 DEF IsTape
<1>4. \A m \in DOMAIN S : S[m][1] \notin g.outputs[x]
  BY <1>1, <1>3 DEF TakenUp
<1>5. /\ S \in Entries /\ Len(S) \in Nat /\ DOMAIN S = 1..Len(S) /\ DOMAIN u = 1..(Len(S) + 1)
      /\ \A m \in 1..Len(S) : u[m] = S[m]
      /\ u[Len(S) + 1] = <<x, 1>>
  <2>1. S \in Entries
    BY <1>1 DEF Stacked
  <2> QED
    BY <1>2, <2>1, EntryFacts, PushFacts
<1> HIDE DEF x, u
<1>6. /\ Stacked(g, u)
      /\ \A e \in Edges(g) : Behind(g, u, e) <=> Behind(g, S, e) /\ x \notin g.outputs[e[1]]
  BY <1>1, <1>2, <1>4, PushedNew DEF u
<1>7. TakenUp(tp, n + 1, u)
  <2>1. \A m \in 1..(Len(S) + 1) : m \in 1..Len(S) \/ m = Len(S) + 1
    BY <1>5
  <2>2. \A m \in 1..Len(S) : \E k \in 1..(n + 1) : tp[k] = u[m][1]
    BY <1>1, <1>2, <1>5 DEF TakenUp
  <2>3. n + 1 \in 1..(n + 1) /\ tp[n + 1] = u[Len(S) + 1][1]
    BY <1>2, <1>5 DEF x
  <2> QED
    BY <1>5, <2>1, <2>2, <2>3 DEF TakenUp
<1>8. Taken(g, tp, n + 1, u) = Taken(g, tp, n, S)
  <2>1. ASSUME NEW e \in Edges(g)
        PROVE  /\ (\E m \in 1..(n + 1) : tp[m] \in g.outputs[e[1]]) /\ Behind(g, u, e)
                   => (\E m \in 1..n : tp[m] \in g.outputs[e[1]]) /\ Behind(g, S, e)
               /\ (\E m \in 1..n : tp[m] \in g.outputs[e[1]]) /\ Behind(g, S, e)
                   => (\E m \in 1..(n + 1) : tp[m] \in g.outputs[e[1]]) /\ Behind(g, u, e)
    <3>1. \A m \in 1..n : tp[m] \in g.outputs[e[1]] => x \notin g.outputs[e[1]]
      <4>1. ASSUME NEW m \in 1..n, tp[m] \in g.outputs[e[1]], x \in g.outputs[e[1]] PROVE FALSE
        <5>1. g.outputs[x] = g.outputs[e[1]]
          BY <4>1, EdgeFacts, GraphFacts
        <5> QED
          BY <1>3, <4>1, <5>1
      <4> QED
        BY <4>1
    <3>2. Behind(g, u, e) => x \notin g.outputs[e[1]]
      BY <1>6
    <3> QED
      BY <1>2, <1>6, <3>1, <3>2 DEF x
  <2> QED
    BY <2>1 DEF Taken
<1>9. n + 1 \in 0..Len(tp)
  BY <1>2
<1> QED
  BY <1>1, <1>6, <1>7, <1>8, <1>9 DEF SecondPass, Left, x, u

(* All inputs of the array on top are done. *)
LEMMA SecondPassLeaves ==
    ASSUME NEW g \in Graphs, NEW c, NEW tp, NEW n, NEW S \in Entries, NEW x \in All,
           NEW k \in Nat \ {0}, k \notin DOMAIN g.inputs[x],
           SecondPass(g, c, tp, n, Append(S, <<x, k>>))
    PROVE  SecondPass(g, c, tp, n, S)
<1> DEFINE u == Append(S, <<x, k>>)
<1>0. SecondPass(g, c, tp, n, u)
  OBVIOUS
<1>1. /\ Stacked(g, S)
      /\ \A e \in Edges(g) : Behind(g, S, e) <=> Behind(g, u, e)
  BY TopLeaves DEF SecondPass
<1>2. \A m \in DOMAIN S : m \in DOMAIN u /\ u[m] = S[m]
  BY EntryFacts, PushFacts
<1> HIDE DEF u
<1>3. Taken(g, tp, n, S) = Taken(g, tp, n, u)
  BY <1>1 DEF Taken
<1> QED
  BY <1>0, <1>1, <1>2, <1>3 DEF SecondPass, Left, TakenUp

(* The array on top looks at one input more: that edge, of those left, is   *)
(* taken.                                                                   *)
LEMMA SecondPassEdge ==
    ASSUME NEW g \in Graphs, NEW c, NEW tp, NEW n, NEW S \in Entries, NEW x \in All,
           NEW k \in DOMAIN g.inputs[x], SecondPass(g, c, tp, n, Append(S, <<x, k>>))
    PROVE  /\ x \in NeededOf(g) \cup {Sync} /\ x \in Below(g) \cup {Sync}
           /\ Stacked(g, Append(S, <<x, k + 1>>)) /\ TakenUp(tp, n, Append(S, <<x, k + 1>>))
           /\ <<Speaker(g, x), k>> \in Left(g, tp, n, Append(S, <<x, k>>))
           /\ \A e : e \in Left(g, tp, n, Append(S, <<x, k + 1>>))
                       <=> e \in Left(g, tp, n, Append(S, <<x, k>>)) /\ e # <<Speaker(g, x), k>>
<1> DEFINE u == Append(S, <<x, k>>)  v == Append(S, <<x, k + 1>>)  new == <<Speaker(g, x), k>>
<1>0. /\ IsTape(g, tp) /\ n \in 0..Len(tp) /\ Stacked(g, u) /\ TakenUp(tp, n, u)
  BY DEF SecondPass
<1>1. /\ new \in Edges(g) /\ new[1] = Speaker(g, x) /\ k \in Nat \ {0} /\ k + 1 \in Nat \ {0}
  BY EdgeOf
<1>2. /\ Len(S) \in Nat
      /\ DOMAIN u = 1..(Len(S) + 1) /\ \A m \in 1..Len(S) : u[m] = S[m]
      /\ u[Len(S) + 1] = <<x, k>>
  BY <1>1, EntryFacts, PushFacts
<1>3. /\ DOMAIN v = 1..(Len(S) + 1) /\ \A m \in 1..Len(S) : v[m] = S[m]
      /\ v[Len(S) + 1] = <<x, k + 1>>
  BY <1>1, PushFacts
<1>4. /\ Stacked(g, v) /\ ~Behind(g, u, new)
      /\ \A e \in Edges(g) : Behind(g, v, e) <=> Behind(g, u, e) \/ e = new
  BY <1>0, TopAdvances
<1> HIDE DEF u, v, new
<1>5. \A m \in DOMAIN v : m \in DOMAIN u /\ v[m][1] = u[m][1]
  <2>1. \A m \in 1..(Len(S) + 1) : m \in 1..Len(S) \/ m = Len(S) + 1
    BY <1>2
  <2> QED
    BY <1>2, <1>3, <2>1
<1>6. TakenUp(tp, n, v)
  BY <1>0, <1>5 DEF TakenUp
<1>7. PICK q \in 1..n : tp[q] = x
  <2>1. Len(S) + 1 \in DOMAIN u
    BY <1>2
  <2> QED
    BY <1>0, <1>2, <2>1 DEF TakenUp
<1>8. x \in NeededOf(g) \cup {Sync} /\ x \in Below(g) \cup {Sync}
  <2>1. q \in 1..Len(tp)
    BY <1>0, <1>7, TapeFacts
  <2> QED
    BY <1>0, <1>7, <2>1, TapeFacts
<1>9. new \in EdgesBelow(g)
  <2>1. Speaker(g, x) \in Below(g) \cup {Sync}
    BY <1>8, SpeakerFacts, BelowClosed
  <2> QED
    BY <1>1, <2>1 DEF EdgesBelow
<1>10. new \notin Taken(g, tp, n, u)
  BY <1>4 DEF Taken
<1>11. Taken(g, tp, n, v) = Taken(g, tp, n, u) \cup {new}
  <2>1. x \in g.outputs[new[1]]
    BY <1>1, SpeakerFacts
  <2> QED
    BY <1>1, <1>4, <1>7, <2>1 DEF Taken
<1> QED
  BY <1>4, <1>6, <1>8, <1>9, <1>10, <1>11 DEF Left, u, v, new

(* An input that has a result is passed over: no count that matters.        *)
LEMMA SecondPassSkips ==
    ASSUME NEW g \in Graphs, NEW c, NEW tp, NEW n, NEW S \in Entries, NEW x \in All,
           NEW k \in DOMAIN g.inputs[x], SecondPass(g, c, tp, n, Append(S, <<x, k>>)),
           g.inputs[x][k] \notin g.unscheduled
    PROVE  SecondPass(g, c, tp, n, Append(S, <<x, k + 1>>))
<1> DEFINE u == Append(S, <<x, k>>)  v == Append(S, <<x, k + 1>>)  new == <<Speaker(g, x), k>>
           L == Left(g, tp, n, u)
<1>1. /\ Stacked(g, v) /\ TakenUp(tp, n, v)
      /\ new \in L /\ Left(g, tp, n, v) = L \ {new}
  <2>1. Stacked(g, v) /\ TakenUp(tp, n, v) /\ new \in L
    BY SecondPassEdge
  <2>2. \A e : e \in Left(g, tp, n, v) <=> e \in L /\ e # new
    BY SecondPassEdge
  <2> HIDE DEF u, v, new, L
  <2> QED
    BY <2>1, <2>2
<1>2. Target(g, new) = g.inputs[x][k]
  BY EdgeOf
<1>3. L \in SUBSET Edges(g)
  BY DEF Left, EdgesBelow
<1>4. IsTape(g, tp) /\ n \in 0..Len(tp) /\ Counted(g, c, tp, L)
  BY DEF SecondPass
<1> HIDE DEF u, v, new, L
<1>5. \A y \in NeededOf(g) : Uses(g, L \ {new}, y) = Uses(g, L, y)
  <2>1. ASSUME NEW y \in NeededOf(g) PROVE Target(g, new) \notin g.outputs[y]
    BY <1>2, NeededUsers DEF NeededOf
  <2> QED
    BY <1>1, <1>3, <2>1, UsesRemove
<1>6. Counted(g, c, tp, L \ {new})
  BY <1>4, <1>5 DEF Counted
<1> QED
  BY <1>1, <1>4, <1>6 DEF SecondPass, v

(* One use of y is counted off; the last one drops y and its siblings from  *)
(* the cache and puts y on the tape.                                        *)
UseCounted(g, c, tp, y, c2, tp2) ==
    /\ c[y] = 1 => /\ DOMAIN c2 = DOMAIN c \ g.outputs[y]
                   /\ \A z \in DOMAIN c2 : c2[z] = c[z]
                   /\ tp2 = Append(tp, y)
    /\ c[y] # 1 => /\ DOMAIN c2 = DOMAIN c
                   /\ \A z \in DOMAIN c2 : /\ z \in g.outputs[y] => c2[z] = c[z] - 1
                                           /\ z \notin g.outputs[y] => c2[z] = c[z]
                   /\ tp2 = tp

LEMMA SecondPassTakes ==
    ASSUME NEW g \in Graphs, NEW c, NEW tp, NEW n, NEW S \in Entries, NEW x \in All,
           NEW k \in DOMAIN g.inputs[x], SecondPass(g, c, tp, n, Append(S, <<x, k>>)),
           NEW y, y = g.inputs[x][k], y \in g.unscheduled,
           NEW c2, NEW tp2,
           UseCounted(g, c, tp, y, c2, tp2)
    PROVE  y \in DOMAIN c /\ SecondPass(g, c2, tp2, n, Append(S, <<x, k + 1>>))
<1> DEFINE u == Append(S, <<x, k>>)  v == Append(S, <<x, k + 1>>)  new == <<Speaker(g, x), k>>
           L == Left(g, tp, n, u)
<1>0. SecondPass(g, c, tp, n, u)
  OBVIOUS
<1>1. /\ x \in NeededOf(g) \cup {Sync} /\ x \in Below(g) \cup {Sync}
      /\ Stacked(g, v) /\ TakenUp(tp, n, v)
      /\ new \in L /\ Left(g, tp, n, v) = L \ {new}
  <2>1. x \in NeededOf(g) \cup {Sync} /\ x \in Below(g) \cup {Sync}
    BY <1>0, SecondPassEdge
  <2>2. Stacked(g, v) /\ TakenUp(tp, n, v)
    BY <1>0, SecondPassEdge
  <2>3. new \in L
    BY <1>0, SecondPassEdge
  <2>4. \A e : e \in Left(g, tp, n, v) <=> e \in L /\ e # new
    BY <1>0, SecondPassEdge
  <2> HIDE DEF u, v, new, L
  <2> QED
    BY <2>1, <2>2, <2>3, <2>4
<1>2. Target(g, new) = y
  BY EdgeOf
<1>3. L \in SUBSET Edges(g)
  BY DEF Left, EdgesBelow
<1>4. IsTape(g, tp) /\ n \in 0..Len(tp) /\ Counted(g, c, tp, L)
  BY DEF SecondPass
<1> HIDE DEF u, new, L
<1>5. /\ y \in NeededOf(g) /\ y \in Nodes /\ y \in All /\ y \in g.outputs[y]
      /\ g.outputs[y] \subseteq NeededOf(g)
  <2>1. y \in NeededOf(g)
    BY <1>1, BelowClosed DEF NeededOf
  <2> QED
    BY <2>1, NeededUsers, GraphFacts DEF All
<1>6. /\ y \in DOMAIN c /\ c[y] = Cardinality(Uses(g, L, y))
      /\ c[y] \in Nat /\ c[y] # 0
      /\ \A m \in 1..Len(tp) : tp[m] \notin g.outputs[y]
  <2>1. new \in Uses(g, L, y)
    BY <1>1, <1>2, <1>5 DEF Uses
  <2>2. y \in DOMAIN c
    BY <1>4, <1>5, <2>1 DEF Counted
  <2> QED
    BY <1>3, <1>4, <1>5, <2>1, <2>2, UsesFinite DEF Counted
<1>7. ASSUME NEW z \in g.outputs[y]
      PROVE  /\ z \in DOMAIN c /\ c[z] = c[y] /\ z \in NeededOf(g)
             /\ Cardinality(Uses(g, L \ {new}, z)) = c[y] - 1
             /\ Uses(g, L \ {new}, z) = {} <=> c[y] = 1
  <2>1. z \in NeededOf(g) /\ g.outputs[z] = g.outputs[y] /\ Uses(g, L, z) = Uses(g, L, y)
    BY <1>5, GraphFacts, UsesSame
  <2>2. Cardinality(Uses(g, L \ {new}, z)) = c[y] - 1
    BY <1>1, <1>2, <1>3, <1>5, <1>6, <2>1, UsesRemove
  <2>3. /\ Cardinality(Uses(g, L \ {new}, z)) = 0 <=> Uses(g, L \ {new}, z) = {}
        /\ Uses(g, L, z) # {}
    <3>1. L \ {new} \in SUBSET Edges(g)
      BY <1>3
    <3>2. new \in Uses(g, L, z)
      BY <1>1, <1>2, <1>5, <2>1 DEF Uses
    <3> QED
      BY <3>1, <3>2, UsesFinite
  <2>4. z \in DOMAIN c /\ c[z] = c[y]
    BY <1>4, <1>6, <2>1, <2>3 DEF Counted
  <2>5. c[y] - 1 = 0 <=> c[y] = 1
    BY <1>6
  <2>6. Uses(g, L \ {new}, z) = {} <=> c[y] = 1
    BY <2>2, <2>3, <2>5, Zenon
  <2> QED
    BY <2>1, <2>2, <2>4, <2>6
<1>8. ASSUME NEW z \in NeededOf(g), z \notin g.outputs[y]
      PROVE  Uses(g, L \ {new}, z) = Uses(g, L, z) /\ y \notin g.outputs[z]
  <2>1. y \notin g.outputs[z]
    BY <1>8, NeededUsers, GraphFacts DEF All
  <2>2. Target(g, new) \notin g.outputs[z] /\ new \in L /\ L \in SUBSET Edges(g)
    BY <1>1, <1>2, <1>3, <2>1
  <2>3. Uses(g, L \ {new}, z) = Uses(g, L, z)
    BY <2>2, UsesRemove
  <2> QED
    BY <2>1, <2>3
<1> USE DEF UseCounted
<1>9. CASE c[y] = 1
  <2>1. /\ Len(tp) \in Nat \ {0} /\ Len(tp2) = Len(tp) + 1 /\ tp2 \in Seq(All)
        /\ \A m \in 1..Len(tp) : tp2[m] = tp[m]
        /\ tp2[Len(tp) + 1] = y
    <3>1. tp \in Seq(All) /\ Len(tp) \in Nat \ {0} /\ tp2 = Append(tp, y)
      BY <1>4, <1>9 DEF IsTape
    <3> QED
      BY <1>5, <3>1
  <2>2. /\ \A m \in 1..Len(tp2) : m \in 1..Len(tp) \/ m = Len(tp) + 1
        /\ \A m \in 1..Len(tp) : m \in 1..Len(tp2)
        /\ \A m \in 1..n : m \in 1..Len(tp)
        /\ Len(tp) + 1 \in 1..Len(tp2)
    BY <1>4, <2>1
  <2>3. Left(g, tp2, n, v) = L \ {new}
    <3>1. \A m \in 1..n : tp2[m] = tp[m]
      BY <2>1, <2>2
    <3> QED
      BY <1>1, <3>1 DEF Left, Taken
  <2>4. Counted(g, c2, tp2, L \ {new})
    <3>1. ASSUME NEW z \in NeededOf(g), z \in g.outputs[y]
          PROVE  /\ z \notin DOMAIN c2 /\ Uses(g, L \ {new}, z) = {}
                 /\ tp2[Len(tp) + 1] \in g.outputs[z]
      <4>1. g.outputs[z] = g.outputs[y]
        BY <1>5, <3>1, GraphFacts
      <4> QED
        BY <1>5, <1>7, <1>9, <2>1, <3>1, <4>1
    <3>2. ASSUME NEW z \in NeededOf(g), z \notin g.outputs[y]
          PROVE  /\ z \in DOMAIN c2 <=> z \in DOMAIN c
                 /\ z \in DOMAIN c2 => c2[z] = c[z]
                 /\ Uses(g, L \ {new}, z) = Uses(g, L, z)
                 /\ (\A m \in 1..Len(tp2) : tp2[m] \notin g.outputs[z])
                        <=> \A m \in 1..Len(tp) : tp[m] \notin g.outputs[z]
      BY <1>8, <1>9, <2>1, <2>2, <3>2
    <3>3. ASSUME NEW z \in NeededOf(g)
          PROVE  /\ z \in DOMAIN c2 <=> \A m \in 1..Len(tp2) : tp2[m] \notin g.outputs[z]
                 /\ z \in DOMAIN c2 <=> Uses(g, L \ {new}, z) # {}
                 /\ z \in DOMAIN c2 => c2[z] = Cardinality(Uses(g, L \ {new}, z))
      <4>1. CASE z \in g.outputs[y]
        BY <2>2, <3>1, <4>1
      <4>2. CASE z \notin g.outputs[y]
        BY <1>4, <3>2, <4>2 DEF Counted
      <4> QED
        BY <4>1, <4>2
    <3> QED
      BY <3>3 DEF Counted
  <2>5. IsTape(g, tp2)
    <3>1. tp2[1] = Sync
      BY <1>4, <2>1 DEF IsTape
    <3>2. ASSUME NEW m \in 2..Len(tp2) PROVE tp2[m] \in NeededOf(g)
      <4>1. m \in 2..Len(tp) \/ m = Len(tp) + 1
        BY <2>1
      <4> QED
        BY <1>4, <1>5, <2>1, <4>1 DEF IsTape
    <3>3. \A m \in 1..Len(tp) : tp[m] \notin g.outputs[y] /\ y \notin g.outputs[tp[m]]
      BY <1>4, <1>5, <1>6, TapeFacts, GraphFacts
    <3>4. \A l, m \in 1..Len(tp2) : tp2[l] \in g.outputs[tp2[m]] => l = m
      BY <1>4, <2>1, <2>2, <3>3 DEF IsTape
    <3>5. ASSUME NEW m \in 1..Len(tp2), NEW e \in EdgesBelow(g),
                 Target(g, e) \in g.outputs[tp2[m]]
          PROVE  \E l \in 1..(m - 1) : tp2[l] \in g.outputs[e[1]]
      <4>1. CASE m \in 1..Len(tp)
        <5>1. PICK l \in 1..(m - 1) : tp[l] \in g.outputs[e[1]]
          BY <1>4, <2>1, <3>5, <4>1 DEF IsTape
        <5>2. l \in 1..Len(tp)
          BY <2>1, <4>1
        <5> QED
          BY <2>1, <5>1, <5>2
      <4>2. CASE m = Len(tp) + 1
        <5>1. Target(g, e) \in g.outputs[y]
          BY <2>1, <3>5, <4>2
        <5>2. e \notin L \ {new}
          BY <1>5, <1>7, <1>9, <5>1 DEF Uses
        <5>3. e \in Taken(g, tp2, n, v)
          BY <2>3, <5>2 DEF Left
        <5>4. PICK l \in 1..n : tp2[l] \in g.outputs[e[1]]
          BY <5>3 DEF Taken
        <5>5. l \in 1..(m - 1)
          BY <2>1, <2>2, <4>2, <5>4
        <5> QED
          BY <5>4, <5>5
      <4> QED
        BY <2>2, <4>1, <4>2
    <3> QED
      BY <2>1, <3>1, <3>2, <3>4, <3>5 DEF IsTape
  <2>6. n \in 0..Len(tp2) /\ TakenUp(tp2, n, v)
    BY <1>1, <1>4, <2>1, <2>2 DEF TakenUp
  <2> QED
    BY <1>1, <1>6, <2>3, <2>4, <2>5, <2>6 DEF SecondPass
<1>10. CASE c[y] # 1
  <2>1. tp2 = tp /\ DOMAIN c2 = DOMAIN c
    BY <1>10
  <2>2. Counted(g, c2, tp, L \ {new})
    <3>1. ASSUME NEW z \in NeededOf(g)
          PROVE  /\ z \in DOMAIN c2 <=> z \in DOMAIN c
                 /\ Uses(g, L \ {new}, z) # {} <=> Uses(g, L, z) # {}
                 /\ z \in DOMAIN c2 => c2[z] = Cardinality(Uses(g, L \ {new}, z))
      <4>1. CASE z \in g.outputs[y]
        <5>1. z \in DOMAIN c /\ c2[z] = c[z] - 1
          BY <1>7, <1>10, <2>1, <4>1
        <5>2. Uses(g, L, z) # {}
          BY <1>4, <5>1 DEF Counted
        <5> QED
          BY <1>7, <1>10, <2>1, <4>1, <5>1, <5>2
      <4>2. CASE z \notin g.outputs[y]
        BY <1>4, <1>8, <1>10, <2>1, <4>2 DEF Counted
      <4> QED
        BY <4>1, <4>2
    <3> QED
      BY <1>4, <3>1 DEF Counted
  <2> QED
    BY <1>1, <1>4, <1>6, <2>1, <2>2 DEF SecondPass
<1> QED
  BY <1>9, <1>10

(* When nothing is left to expand, or nothing is left in the cache, all     *)
(* that has to be computed is on the tape.                                  *)
LEMMA SecondPassEnds ==
    ASSUME NEW g \in Graphs, NEW c, NEW tp, NEW n, NEW S, SecondPass(g, c, tp, n, S),
           DOMAIN c = {} \/ (n = Len(tp) /\ S = <<>>)
    PROVE  UNION {g.outputs[tp[m]] : m \in 1..Len(tp)} = NeededOf(g) \cup {Sync}
<1> DEFINE T == {z \in Nodes : \E m \in 1..Len(tp) : tp[m] \in g.outputs[z]}
<1>1. /\ IsTape(g, tp) /\ n \in 0..Len(tp) /\ Counted(g, c, tp, Left(g, tp, n, S))
  BY DEF SecondPass
<1>2. NeededOf(g) \subseteq T
  <2>1. CASE DOMAIN c = {}
    BY <1>1, <2>1, NeededUsers DEF Counted
  <2>2. CASE n = Len(tp) /\ S = <<>>
    <3> DEFINE B == NeededOf(g) \ T
    <3> SUFFICES ASSUME B # {} PROVE FALSE
      OBVIOUS
    <3>1. B \in (SUBSET Nodes) \ {{}}
      BY NeededUsers
    <3>2. PICK x \in B : \A y \in B :
             \A k \in DOMAIN g.inputs[y] : g.inputs[y][k] \notin g.outputs[x]
      <4> HIDE DEF B
      <4> QED
        BY <3>1, LastOfAll
    <3>3. /\ x \in NeededOf(g) /\ x \in Nodes
          /\ \A m \in 1..Len(tp) : tp[m] \notin g.outputs[x]
      BY <3>2, NeededUsers
    <3>4. PICK e \in Uses(g, Left(g, tp, n, S), x) : TRUE
      BY <1>1, <3>3 DEF Counted
    <3>5. /\ e \in Edges(g) /\ e[1] \in Below(g) \cup {Sync} /\ Target(g, e) \in g.outputs[x]
          /\ e \notin Taken(g, tp, n, S)
      BY <3>4 DEF Uses, Left, EdgesBelow
    <3>6. e[2] \in DOMAIN g.inputs[e[1]] /\ g.inputs[e[1]][e[2]] \in g.outputs[x]
      BY <3>5, EdgeFacts DEF Target
    <3>7. e[1] \in NeededOf(g) \cup {Sync}
      BY <3>3, <3>5, <3>6, NeededUsers
    <3>8. \A m \in 1..Len(tp) : tp[m] \notin g.outputs[e[1]]
      BY <2>2, <3>5 DEF Taken, Behind
    <3>9. e[1] # Sync
      <4>1. 1 \in 1..Len(tp) /\ tp[1] = Sync
        BY <1>1, TapeFacts DEF IsTape
      <4> QED
        BY <3>8, <4>1, GraphFacts
    <3>10. e[1] \in B
      BY <3>7, <3>8, <3>9
    <3> QED
      BY <3>2, <3>6, <3>10
  <2> QED
    BY <2>1, <2>2
<1>3. ASSUME NEW m \in 1..Len(tp) PROVE g.outputs[tp[m]] \subseteq NeededOf(g) \cup {Sync}
  <2>1. tp[m] \in NeededOf(g) \cup {Sync}
    BY <1>1, TapeFacts
  <2> QED
    BY <2>1, NeededUsers, GraphFacts
<1>4. ASSUME NEW x \in NeededOf(g) PROVE \E m \in 1..Len(tp) : x \in g.outputs[tp[m]]
  <2>1. PICK m \in 1..Len(tp) : tp[m] \in g.outputs[x]
    BY <1>2
  <2>2. x \in Nodes
    BY NeededUsers
  <2> QED
    BY <2>1, <2>2, GraphFacts DEF All
<1>5. \E m \in 1..Len(tp) : Sync \in g.outputs[tp[m]]
  <2>1. 1 \in 1..Len(tp) /\ tp[1] = Sync
    BY <1>1, TapeFacts DEF IsTape
  <2> QED
    BY <2>1, GraphFacts
<1> HIDE DEF T
<1> QED
  BY <1>3, <1>4, <1>5

(* An array that is looked up has a use left: it is in the cache. *)
LEMMA SecondPassFinds ==
    ASSUME NEW g \in Graphs, NEW c, NEW tp, NEW n, NEW S \in Entries, NEW x \in All,
           NEW k \in DOMAIN g.inputs[x], SecondPass(g, c, tp, n, Append(S, <<x, k>>)),
           g.inputs[x][k] \in g.unscheduled
    PROVE  g.inputs[x][k] \in DOMAIN c
<1>1. PICK c2, tp2 : UseCounted(g, c, tp, g.inputs[x][k], c2, tp2)
  <2> DEFINE y == g.inputs[x][k]
             less == [z \in DOMAIN c \ g.outputs[y] |-> c[z]]
             down == [z \in DOMAIN c |-> IF z \in g.outputs[y] THEN c[z] - 1 ELSE c[z]]
  <2>1. CASE c[y] = 1
    <3>1. UseCounted(g, c, tp, y, less, Append(tp, y))
      BY <2>1 DEF UseCounted
    <3> QED
      BY <3>1
  <2>2. CASE c[y] # 1
    <3>1. UseCounted(g, c, tp, y, down, tp)
      BY <2>2 DEF UseCounted
    <3> QED
      BY <3>1
  <2> QED
    BY <2>1, <2>2
<1> QED
  BY <1>1, SecondPassTakes

(* The arrays that need a fence, by the arrays that use them. *)
LEMMA FencesAre ==
    ASSUME NEW g \in Graphs
    PROVE  FencesOf(g, EdgesBelow(g)) =
              {x \in NeededOf(g) : \E y \in NeededOf(g) \cup {Sync} :
                  /\ \E k \in DOMAIN g.inputs[y] : g.inputs[y][k] = x
                  /\ g.stream[x] # g.stream[y]}
<1>1. ASSUME NEW x \in g.unscheduled, NEW e \in EdgesBelow(g), Target(g, e) = x,
             g.stream[x] # g.stream[e[1]]
      PROVE  /\ x \in NeededOf(g) /\ e[1] \in NeededOf(g) \cup {Sync}
             /\ e[2] \in DOMAIN g.inputs[e[1]] /\ g.inputs[e[1]][e[2]] = x
  <2>1. e[1] \in Below(g) \cup {Sync} /\ e \in Edges(g)
    BY DEF EdgesBelow
  <2>2. e[2] \in DOMAIN g.inputs[e[1]] /\ g.inputs[e[1]][e[2]] = x
    BY <1>1, <2>1, EdgeFacts DEF Target
  <2>3. x \in NeededOf(g)
    BY <2>1, <2>2, BelowClosed DEF NeededOf
  <2>4. x \in g.outputs[x]
    BY <2>3, NeededUsers, GraphFacts DEF All
  <2> QED
    BY <2>1, <2>2, <2>3, <2>4, NeededUsers
<1>2. ASSUME NEW x \in NeededOf(g), NEW y \in NeededOf(g) \cup {Sync}, NEW k \in DOMAIN g.inputs[y],
             g.inputs[y][k] = x, g.stream[x] # g.stream[y]
      PROVE  x \in FencesOf(g, EdgesBelow(g))
  <2>1. y \in All /\ y \in Below(g) \cup {Sync}
    BY DEF NeededOf, Below, All
  <2> DEFINE e == <<Speaker(g, y), k>>
  <2>2. e \in Edges(g) /\ Target(g, e) = x /\ e[1] = Speaker(g, y)
    BY <1>2, <2>1, EdgeOf
  <2>3. e \in EdgesBelow(g)
    BY <2>1, <2>2, SpeakerFacts, BelowClosed DEF EdgesBelow
  <2>4. g.stream[x] # g.stream[e[1]]
    BY <1>2, <2>1, <2>2, SpeakerFacts
  <2> HIDE DEF e
  <2> QED
    BY <2>2, <2>3, <2>4 DEF FencesOf, NeededOf
<1>3. FencesOf(g, EdgesBelow(g)) \subseteq
              {x \in NeededOf(g) : \E y \in NeededOf(g) \cup {Sync} :
                  /\ \E k \in DOMAIN g.inputs[y] : g.inputs[y][k] = x
                  /\ g.stream[x] # g.stream[y]}
  BY <1>1 DEF FencesOf
<1> QED
  BY <1>2, <1>3

-----------------------------------------------------------------------------
(* The invariant *)

(* The arrays that were set aside, and the one that is being expanded. *)
Work == IF pc = "walk" THEN Append(dfs, <<a, j>>) ELSE dfs

TapeInv ==
    /\ graph \in Graphs /\ pc \in {"dfs", "next", "walk", "done"}
    /\ dfs \in Entries /\ a \in All /\ j \in Nat \ {0}
    /\ pc = "dfs" => FirstPass(graph, cache, dfs, needsFence) /\ i = 0 /\ tape = <<>>
    /\ pc # "dfs" => /\ SecondPass(graph, cache, tape, i, Work)
                     /\ needsFence = FencesOf(graph, EdgesBelow(graph))
    /\ pc = "done" => DOMAIN cache = {} \/ (i = Len(tape) /\ dfs = <<>>)

LEMMA InitTape == Init => TapeInv
<1> SUFFICES ASSUME Init PROVE TapeInv
  OBVIOUS
<1>1. << <<Sync, 1>> >> \in Entries /\ Sync \in All
  BY DEF Entries, All
<1> QED
  BY <1>1, FirstPassStarts DEF Init, TapeInv

LEMMA TopIs ==
    ASSUME TapeInv, dfs # <<>>
    PROVE  /\ Pop \in Entries /\ Top[1] \in All /\ Top[2] \in Nat \ {0}
           /\ dfs = Append(Pop, <<Top[1], Top[2]>>)
  BY PopFacts DEF TapeInv, Top, Pop

LEMMA VisitKeeps ==
    ASSUME TapeInv, VisitInput
    PROVE  TapeInv'
<1> DEFINE x == Top[1]  k == Top[2]  in == Inputs(x)[k]
<1>1. /\ pc = "dfs" /\ dfs # <<>> /\ k \in DOMAIN Inputs(x)
      /\ needsFence' = IF Crosses(in, x) THEN needsFence \cup {in} ELSE needsFence
      /\ cache' = Count(in)
      /\ dfs' = IF in \in DOMAIN cache THEN Append(Pop, <<x, k + 1>>)
                ELSE Append(Append(Pop, <<x, k + 1>>), <<in, 1>>)
      /\ UNCHANGED <<graph, pc, tape, i, a, j>>
  BY DEF VisitInput, fixed
<1>2. /\ Pop \in Entries /\ x \in All /\ k \in Nat \ {0} /\ dfs = Append(Pop, <<x, k>>)
      /\ graph \in Graphs
  BY <1>1, TopIs DEF TapeInv
<1>3. FirstPass(graph, cache, Append(Pop, <<x, k>>), needsFence)
  BY <1>1, <1>2 DEF TapeInv
<1>4. PICK y : y = in
  OBVIOUS
<1> HIDE DEF x, k, in
<1>5. k \in DOMAIN graph.inputs[x] /\ y = graph.inputs[x][k] /\ y \in All
  BY <1>1, <1>2, <1>4, GraphFacts DEF Inputs, in, All
<1>6. /\ DOMAIN cache' = DOMAIN cache \cup graph.outputs[y]
      /\ \A z \in DOMAIN cache' :
            /\ z \notin graph.outputs[y] => cache'[z] = cache[z]
            /\ z \in graph.outputs[y] /\ y \in DOMAIN cache => cache'[z] = cache[z] + 1
            /\ z \in graph.outputs[y] /\ y \notin DOMAIN cache => cache'[z] = 1
  BY <1>1, <1>4 DEF Count, Outputs
<1>7. needsFence' = IF y \in graph.unscheduled /\ graph.stream[y] # graph.stream[x]
                    THEN needsFence \cup {y} ELSE needsFence
  BY <1>1, <1>4 DEF Crosses, Unscheduled
<1>8. FirstPass(graph, cache', dfs', needsFence')
  <2>1. PICK c2, d2, f2 : c2 = cache' /\ d2 = dfs' /\ f2 = needsFence'
    OBVIOUS
  <2>2. /\ DOMAIN c2 = DOMAIN cache \cup graph.outputs[y]
        /\ \A z \in DOMAIN c2 :
              /\ z \notin graph.outputs[y] => c2[z] = cache[z]
              /\ z \in graph.outputs[y] /\ y \in DOMAIN cache => c2[z] = cache[z] + 1
              /\ z \in graph.outputs[y] /\ y \notin DOMAIN cache => c2[z] = 1
    BY <1>6, <2>1
  <2>3. d2 = IF y \in DOMAIN cache THEN Append(Pop, <<x, k + 1>>)
             ELSE Append(Append(Pop, <<x, k + 1>>), <<y, 1>>)
    BY <1>1, <1>4, <2>1
  <2>4. f2 = IF y \in graph.unscheduled /\ graph.stream[y] # graph.stream[x]
             THEN needsFence \cup {y} ELSE needsFence
    BY <1>7, <2>1
  <2>5. UseMet(graph, cache, Pop, needsFence, x, k, y, c2, d2, f2)
    BY <2>2, <2>3, <2>4 DEF UseMet
  <2>6. FirstPass(graph, c2, d2, f2)
    BY <1>2, <1>3, <1>5, <2>5, FirstPassVisits
  <2> QED
    BY <2>1, <2>6
<1>9. dfs' \in Entries
  BY <1>8 DEF FirstPass, Stacked
<1> QED
  BY <1>1, <1>8, <1>9 DEF TapeInv

LEMMA LeaveKeeps ==
    ASSUME TapeInv, NEW isTracer, Leave(isTracer)
    PROVE  TapeInv'
<1>1. /\ pc = "dfs" /\ dfs # <<>> /\ Top[2] \notin DOMAIN Inputs(Top[1]) /\ dfs' = Pop
      /\ UNCHANGED <<graph, pc, cache, needsFence, tape, i, a, j>>
  BY DEF Leave, fixed
<1>2. /\ Pop \in Entries /\ Top[1] \in All /\ Top[2] \in Nat \ {0}
      /\ dfs = Append(Pop, <<Top[1], Top[2]>>) /\ graph \in Graphs
  BY <1>1, TopIs DEF TapeInv
<1>3. FirstPass(graph, cache, Pop, needsFence)
  BY <1>1, <1>2, FirstPassLeaves DEF TapeInv, Inputs
<1> QED
  BY <1>1, <1>2, <1>3 DEF TapeInv

LEMMA StartKeeps ==
    ASSUME TapeInv, StartTape
    PROVE  TapeInv'
<1>1. /\ pc = "dfs" /\ dfs = <<>> /\ tape' = <<Sync>> /\ pc' = "next" /\ i = 0
      /\ UNCHANGED <<graph, cache, needsFence, dfs, i, a, j>>
  BY DEF StartTape, fixed, TapeInv
<1>2. SecondPass(graph, cache, <<Sync>>, 0, <<>>) /\ needsFence = FencesOf(graph, EdgesBelow(graph))
  BY <1>1, SecondPassStarts DEF TapeInv
<1>3. Work' = <<>>
  BY <1>1 DEF Work
<1> QED
  BY <1>1, <1>2, <1>3 DEF TapeInv

LEMMA ExpandKeeps ==
    ASSUME TapeInv, Expand
    PROVE  TapeInv'
<1>1. /\ pc = "next" /\ pc' = "walk" /\ MoreToExpand
      /\ UNCHANGED <<graph, cache, needsFence, tape>>
      /\ Work = dfs /\ Work' = Append(dfs', <<a', j'>>)
  BY DEF Expand, fixed, Work
<1>2. SecondPass(graph, cache, tape, i, dfs)
  BY <1>1 DEF TapeInv
<1>3. CASE i < Len(tape)
  <2>1. a' = tape[i + 1] /\ j' = 1 /\ i' = i + 1 /\ dfs' = dfs
    BY <1>3 DEF Expand
  <2>2. SecondPass(graph, cache, tape, i + 1, Append(dfs, <<tape[i + 1], 1>>))
    BY <1>2, <1>3, SecondPassTakesUp DEF TapeInv
  <2>3. tape[i + 1] \in All
    <3>1. IsTape(graph, tape) /\ i \in 0..Len(tape)
      BY <1>2 DEF SecondPass
    <3>2. Len(tape) \in Nat /\ i + 1 \in 1..Len(tape)
      BY <1>3, <3>1 DEF IsTape
    <3> QED
      BY <3>1, <3>2, TapeFacts DEF TapeInv
  <2> QED
    BY <1>1, <2>1, <2>2, <2>3 DEF TapeInv
<1>4. CASE ~(i < Len(tape))
  <2>1. a' = Top[1] /\ j' = Top[2] /\ i' = i /\ dfs' = Pop
    BY <1>4 DEF Expand
  <2>2. dfs # <<>>
    BY <1>1, <1>4 DEF MoreToExpand
  <2>3. Work' = dfs /\ dfs' \in Entries /\ a' \in All /\ j' \in Nat \ {0}
    BY <1>1, <2>1, <2>2, TopIs
  <2> QED
    BY <1>1, <1>2, <2>1, <2>3 DEF TapeInv
<1> QED
  BY <1>3, <1>4

(* The array being expanded is the top of the stack of work. *)
LEMMA WalkIs ==
    ASSUME TapeInv, pc = "walk"
    PROVE  /\ graph \in Graphs /\ dfs \in Entries /\ a \in All /\ j \in Nat \ {0}
           /\ SecondPass(graph, cache, tape, i, Append(dfs, <<a, j>>))
           /\ needsFence = FencesOf(graph, EdgesBelow(graph))
  BY DEF TapeInv, Work

LEMMA WalkKeeps ==
    ASSUME TapeInv, InputsDone \/ SkipEvaluated \/ SetAside \/ TakeInput
    PROVE  TapeInv'
<1>1. pc = "walk" /\ UNCHANGED <<graph, needsFence, a, i>>
  BY DEF InputsDone, SkipEvaluated, SetAside, TakeInput, fixed
<1>2. /\ graph \in Graphs /\ dfs \in Entries /\ a \in All /\ j \in Nat \ {0}
      /\ SecondPass(graph, cache, tape, i, Append(dfs, <<a, j>>))
      /\ needsFence = FencesOf(graph, EdgesBelow(graph))
  BY <1>1, WalkIs
<1>3. CASE InputsDone
  <2>1. j \notin DOMAIN graph.inputs[a] /\ pc' = "next" /\ UNCHANGED <<cache, tape, dfs, j>>
    BY <1>3 DEF InputsDone, Inputs
  <2>2. SecondPass(graph, cache, tape, i, dfs)
    BY <1>2, <2>1, SecondPassLeaves
  <2> QED
    BY <1>1, <1>2, <2>1, <2>2 DEF TapeInv, Work
<1>4. CASE SkipEvaluated
  <2>1. /\ j \in DOMAIN graph.inputs[a] /\ graph.inputs[a][j] \notin graph.unscheduled
        /\ pc' = pc /\ j' = j + 1 /\ UNCHANGED <<cache, tape, dfs>>
    BY <1>4 DEF SkipEvaluated, Inputs, Unscheduled
  <2>2. SecondPass(graph, cache, tape, i, Append(dfs, <<a, j + 1>>))
    BY <1>2, <2>1, SecondPassSkips
  <2> QED
    BY <1>1, <1>2, <2>1, <2>2 DEF TapeInv, Work
<1>5. CASE SetAside
  <2>1. dfs' = Append(dfs, <<a, j>>) /\ pc' = "next" /\ UNCHANGED <<cache, tape, j>>
    BY <1>5 DEF SetAside
  <2>2. dfs' \in Entries
    BY <1>2, <2>1, PushFacts
  <2> QED
    BY <1>1, <1>2, <2>1, <2>2 DEF TapeInv, Work
<1>6. CASE TakeInput
  <2>1. PICK y : y = graph.inputs[a][j]
    OBVIOUS
  <2>2. /\ j \in DOMAIN graph.inputs[a] /\ y \in graph.unscheduled
        /\ cache' = Discount(y) /\ tape' = IF LastUse(y) THEN Append(tape, y) ELSE tape
        /\ pc' = pc /\ j' = j + 1 /\ dfs' = dfs
    BY <1>6, <2>1 DEF TakeInput, Inputs, Unscheduled
  <2>3. UseCounted(graph, cache, tape, y, cache', tape')
    <3>1. CASE cache[y] = 1
      BY <2>2, <3>1 DEF Discount, LastUse, Outputs, UseCounted
    <3>2. CASE cache[y] # 1
      BY <2>2, <3>2 DEF Discount, LastUse, Outputs, UseCounted
    <3> QED
      BY <3>1, <3>2
  <2>4. SecondPass(graph, cache', tape', i, Append(dfs, <<a, j + 1>>))
    BY <1>2, <2>1, <2>2, <2>3, SecondPassTakes
  <2> QED
    BY <1>1, <1>2, <2>2, <2>4 DEF TapeInv, Work
<1> QED
  BY <1>3, <1>4, <1>5, <1>6

LEMMA NextTape ==
    ASSUME TapeInv, [Next]_vars
    PROVE  TapeInv'
<1>1. CASE UNCHANGED vars
  BY <1>1 DEF vars, TapeInv, Work
<1>2. CASE VisitInput
  BY <1>2, VisitKeeps
<1>3. CASE StartTape
  BY <1>3, StartKeeps
<1>4. ASSUME NEW isTracer \in BOOLEAN, Leave(isTracer) PROVE TapeInv'
  BY <1>4, LeaveKeeps
<1>5. CASE Expand
  BY <1>5, ExpandKeeps
<1>6. CASE Finish
  <2>1. /\ pc = "next" /\ pc' = "done" /\ ~MoreToExpand
        /\ UNCHANGED <<graph, dfs, cache, needsFence, tape, i, a, j>>
    BY <1>6 DEF Finish, fixed
  <2>2. cache = <<>> => DOMAIN cache = {}
    OBVIOUS
  <2>3. i <= Len(tape) /\ i \in Nat /\ Len(tape) \in Nat
    BY <2>1 DEF TapeInv, SecondPass, IsTape
  <2> QED
    BY <2>1, <2>2, <2>3 DEF TapeInv, MoreToExpand, Work
<1>7. CASE InputsDone \/ SkipEvaluated \/ SetAside \/ TakeInput
  BY <1>7, WalkKeeps
<1>8. CASE Done
  BY <1>1, <1>8 DEF Done
<1> QED
  BY <1>1, <1>2, <1>3, <1>4, <1>5, <1>6, <1>7, <1>8 DEF Next

LEMMA TapeInvariant == Spec => []TapeInv
<1>1. Init => TapeInv
  BY InitTape
<1>2. TapeInv /\ [Next]_vars => TapeInv'
  BY NextTape
<1> QED
  BY <1>1, <1>2, PTL DEF Spec

-----------------------------------------------------------------------------
(* What the two passes promise *)

(* cache.find never fails in the second pass: an array is dropped only when *)
(* its last use, counted by the first pass, has been taken back.            *)
THEOREM LookupsSucceed == Spec => []LookupFound
<1>1. TapeInv => LookupFound
  BY WalkIs, SecondPassFinds DEF LookupFound, Inputs, Unscheduled
<1> QED
  BY <1>1, TapeInvariant, PTL

(* Every primitive comes on the tape after all who use one of its outputs,  *)
(* whatever the width at which the second pass sets arrays aside.           *)
THEOREM TapeInOrder == Spec => []ConsumersFirst
<1>1. TapeInv => ConsumersFirst
  <2> SUFFICES ASSUME TapeInv, NEW m \in DOMAIN tape, NEW n \in DOMAIN tape,
                      NEW k \in DOMAIN Inputs(tape[m]), Inputs(tape[m])[k] \in Outputs(tape[n])
               PROVE  m < n
    BY DEF ConsumersFirst
  <2>1. pc # "dfs" /\ graph \in Graphs
    BY DEF TapeInv
  <2>2. IsTape(graph, tape)
    BY <2>1 DEF TapeInv, SecondPass
  <2>3. /\ Len(tape) \in Nat /\ m \in 1..Len(tape) /\ n \in 1..Len(tape)
        /\ tape[m] \in All /\ tape[m] \in Below(graph) \cup {Sync}
    BY <2>1, <2>2, TapeFacts
  <2> DEFINE e == <<Speaker(graph, tape[m]), k>>
  <2>4. /\ e \in Edges(graph) /\ Target(graph, e) \in graph.outputs[tape[n]]
        /\ e[1] = Speaker(graph, tape[m])
    BY <2>1, <2>3, EdgeOf DEF Inputs, Outputs
  <2>5. graph.outputs[e[1]] = graph.outputs[tape[m]] /\ e[1] \in graph.outputs[tape[m]]
    BY <2>1, <2>3, <2>4, SpeakerFacts
  <2>6. e \in EdgesBelow(graph)
    BY <2>1, <2>3, <2>4, <2>5, BelowClosed DEF EdgesBelow
  <2> HIDE DEF e
  <2>7. PICK l \in 1..(n - 1) : tape[l] \in graph.outputs[tape[m]]
    BY <2>2, <2>3, <2>4, <2>5, <2>6 DEF IsTape
  <2>8. l \in 1..Len(tape)
    BY <2>3
  <2>9. l = m
    BY <2>2, <2>3, <2>7, <2>8 DEF IsTape
  <2> QED
    BY <2>3, <2>7, <2>9
<1> QED
  BY <1>1, TapeInvariant, PTL

(* The tape that eval_impl runs has one output of each primitive that the   *)
(* arrays to evaluate depend on and that has not been run, and no other.    *)
THEOREM TapeHasAll == Spec => []TapeComplete
<1>1. TapeInv => TapeComplete
  <2> SUFFICES ASSUME TapeInv, pc = "done"
               PROVE  /\ UNION {Outputs(x) : x \in OnTape} = Needed \cup {Sync}
                      /\ \A m, n \in DOMAIN tape : tape[m] \in Outputs(tape[n]) => m = n
    BY DEF TapeComplete
  <2>1. /\ graph \in Graphs /\ SecondPass(graph, cache, tape, i, dfs)
        /\ DOMAIN cache = {} \/ (i = Len(tape) /\ dfs = <<>>)
    BY DEF TapeInv, Work
  <2>2. IsTape(graph, tape) /\ DOMAIN tape = 1..Len(tape)
    BY <2>1, TapeFacts DEF SecondPass
  <2>3. UNION {graph.outputs[tape[m]] : m \in 1..Len(tape)} = NeededOf(graph) \cup {Sync}
    BY <2>1, SecondPassEnds
  <2>4. UNION {Outputs(x) : x \in OnTape} = UNION {graph.outputs[tape[m]] : m \in 1..Len(tape)}
    BY <2>2 DEF Outputs, OnTape
  <2>5. \A m, n \in DOMAIN tape : tape[m] \in Outputs(tape[n]) => m = n
    BY <2>2 DEF IsTape, Outputs
  <2> QED
    BY <2>1, <2>3, <2>4, <2>5, NeededIs
<1> QED
  BY <1>1, TapeInvariant, PTL

(* The first pass marks for a fence exactly the arrays to be computed that  *)
(* an array on another stream uses: none is read unfenced, and no array     *)
(* that has a result is fenced.                                             *)
THEOREM FencesWhereCrossed == Spec => []FencesMarked
<1>1. TapeInv => FencesMarked
  <2> SUFFICES ASSUME TapeInv, pc = "done"
               PROVE  needsFence = {x \in Needed : \E y \in Needed \cup {Sync} :
                         /\ \E k \in DOMAIN Inputs(y) : Inputs(y)[k] = x
                         /\ graph.stream[x] # graph.stream[y]}
    BY DEF FencesMarked
  <2>1. graph \in Graphs /\ needsFence = FencesOf(graph, EdgesBelow(graph))
    BY DEF TapeInv
  <2> QED
    BY <2>1, FencesAre, NeededIs DEF Inputs
<1> QED
  BY <1>1, TapeInvariant, PTL
=============================================================================
