------------------------------ MODULE KahnSort ------------------------------
(***************************************************************************)
(* _topo_sort of the plugin manager, one iteration of its while loop a     *)
(* step: in-degrees are counted down and plugins join a queue that is      *)
(* sorted after every iteration, so only its membership and its first      *)
(* element matter.                                                         *)
(***************************************************************************)
EXTENDS PluginOrder

CONSTANT Nodes    \* the plugins' places in the order of their ids

ASSUME NodesAssumption == Nodes \subseteq Nat /\ IsFiniteSet(Nodes)

\* No plugin depends on itself: _build_dependency_graph leaves that edge out.
Graphs == {g \in [Nodes -> SUBSET Nodes] : \A p \in Nodes : p \notin g[p]}

VARIABLES
    graph,      \* plugin -> the plugins it depends on
    indeg,      \* in_degree: the dependencies not yet placed
    ready,      \* queue: the plugins with none left
    sorted      \* result: the order so far

sortVars == <<graph, indeg, ready, sorted>>

SortTypeOK ==
    /\ graph \in Graphs
    /\ indeg \in [Nodes -> 0 .. Cardinality(Nodes)]
    /\ ready \subseteq Nodes
    /\ sorted \in Seq(Nodes)

SortInit ==
    /\ graph \in Graphs
    /\ indeg = [p \in Nodes |-> Cardinality(graph[p])]
    /\ ready = {p \in Nodes : Cardinality(graph[p]) = 0}
    /\ sorted = <<>>

\* Mutants: the reverse adjacency taken the wrong way round; the last queued
\* plugin taken first; a plugin that joins the queue one dependency early.
DependenciesOf(p) == graph[p]
Greatest(S) == CHOOSE p \in S : \A q \in S : q <= p
AtMostOneLeft(p) == indeg[p] <= 2

Dependents(p) == {q \in Nodes : p \in graph[q]}

\* The front of the sorted queue.
First(S) == Least(S)

\* Its last dependency is being placed.
LastDependency(p) == indeg[p] = 1

Place ==
    /\ ready # {}
    /\ LET current == First(ready)
           dependents == Dependents(current)
       IN  /\ sorted' = Append(sorted, current)
           /\ indeg' = [p \in Nodes |->
                          IF p \in dependents THEN indeg[p] - 1 ELSE indeg[p]]
           /\ ready' = (ready \ {current})
                         \cup {p \in dependents : LastDependency(p)}
    /\ UNCHANGED graph

SortSpec == SortInit /\ [][Place]_sortVars

-----------------------------------------------------------------------------
Placed == Elements(sorted)

(* A plugin is placed after every plugin it depends on, and once: setup     *)
(* finds the services a plugin requires already registered.                 *)
DependenciesFirst ==
    \A i \in DOMAIN sorted :
        /\ graph[sorted[i]] \subseteq {sorted[j] : j \in 1 .. i - 1}
        /\ \A j \in DOMAIN sorted : sorted[i] = sorted[j] => i = j

\* A set of plugins each of which waits for another of the set.
Deadlocked(S) == S # {} /\ \A p \in S : graph[p] \cap S # {}

(* When the queue runs empty, plugins are missing from the order exactly    *)
(* when the graph has a cycle: no acyclic composition is refused, and none  *)
(* with a cycle is accepted.                                                *)
RefusesOnlyCycles ==
    ready = {} =>
        (Placed = Nodes <=> ~\E S \in SUBSET Nodes : Deadlocked(S))

(* The order depends on the ids and the graph alone: each place goes to the *)
(* first ready plugin, whatever the order of registration, and a complete   *)
(* order is the only one.                                                   *)
Deterministic ==
    /\ InOrder(graph, sorted)
    /\ ready = {} /\ Placed = Nodes => Orders(graph) = {sorted}

(* What setup_all relies on: a plugin is placed after every plugin it       *)
(* depends on, plugins are missing exactly when the graph has a cycle, and  *)
(* the order depends on the ids and the graph alone.                        *)
SortCorrect == DependenciesFirst /\ RefusesOnlyCycles /\ Deterministic
=============================================================================
