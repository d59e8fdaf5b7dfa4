-------------------------- MODULE PluginManagerProofs --------------------------
(***************************************************************************)
(* The plugin manager, for any plugins, any dependencies between them and  *)
(* any hooks that fail: the order of a set-up (PluginOrder), the sort that  *)
(* builds it (KahnSort), and the starts and stops that go through it        *)
(* (PluginLifecycle).                                                      *)
(***************************************************************************)
EXTENDS PluginLifecycle, KahnSort, FiniteSetTheorems, WellFoundedInduction, TLAPS

-----------------------------------------------------------------------------
(* The order of a set-up                                                    *)
(* Every set of natural numbers but the empty one has a first element.      *)
LEMMA LeastExists ==
    ASSUME NEW S \in SUBSET Nat, S # {}
    PROVE  Least(S) \in S /\ \A q \in S : Least(S) <= q
<1>1. PICK x \in S : \A y \in S : ~ (<<y, x>> \in OpToRel(<, Nat))
  BY WFMin, NatLessThanWellFounded
<1>2. \A y \in S : ~(y < x)
  BY <1>1 DEF OpToRel
<1>3. \A y \in S : x <= y
  BY <1>2
<1> QED BY <1>3 DEF Least

(* A plugin in order comes after the plugins it depends on, and once.       *)
LEMMA InOrderAfter ==
    ASSUME NEW g, DOMAIN g \subseteq Nat,
           NEW s, InOrder(g, s),
           NEW i \in DOMAIN s
    PROVE  /\ s[i] \in DOMAIN g
           /\ g[s[i]] \subseteq {s[j] : j \in 1 .. i - 1}
           /\ s[i] \notin {s[j] : j \in 1 .. i - 1}
<1> DEFINE before == {s[j] : j \in 1 .. i - 1}
<1>1. Ready(g, before) # {} /\ s[i] = Least(Ready(g, before))
  BY DEF InOrder
<1>2. Ready(g, before) \subseteq Nat
  BY DEF Ready
<1>3. s[i] \in Ready(g, before)
  BY <1>1, <1>2, LeastExists
<1> QED BY <1>3 DEF Ready

(* An order that Filled is asked for, as long as it goes, is what it fills. *)
LEMMA FilledInOrder ==
    ASSUME NEW g, NEW n \in Nat, NEW s \in Seq(DOMAIN g), Len(s) = n, InOrder(g, s)
    PROVE  Filled(g, n) = s
<1> DEFINE upTo == [k \in 0 .. n |-> SubSeq(s, 1, k)]
           Fills(f) == f = [k \in 0 .. n |-> IF k = 0 THEN <<>> ELSE WithNext(g, f[k - 1])]
<1>1. ASSUME NEW k \in 1 .. n PROVE WithNext(g, SubSeq(s, 1, k - 1)) = SubSeq(s, 1, k)
  <2>1. DOMAIN SubSeq(s, 1, k - 1) = 1 .. k - 1 /\ k \in DOMAIN s
    OBVIOUS
  <2>2. \A j \in 1 .. k - 1 : SubSeq(s, 1, k - 1)[j] = s[j]
    OBVIOUS
  <2>3. Elements(SubSeq(s, 1, k - 1)) = {s[j] : j \in 1 .. k - 1}
    BY <2>1, <2>2 DEF Elements
  <2>4. WithNext(g, SubSeq(s, 1, k - 1)) = Append(SubSeq(s, 1, k - 1), s[k])
    BY <2>1, <2>3 DEF InOrder, WithNext
  <2>5. Append(SubSeq(s, 1, k - 1), s[k]) = SubSeq(s, 1, k)
    OBVIOUS
  <2> QED BY <2>4, <2>5
<1>2. SubSeq(s, 1, 0) = <<>> /\ SubSeq(s, 1, n) = s
  OBVIOUS
<1>3. Fills(upTo)
  <2> SUFFICES ASSUME NEW k \in 0 .. n
               PROVE  upTo[k] = IF k = 0 THEN <<>> ELSE WithNext(g, upTo[k - 1])
    OBVIOUS
  <2>1. CASE k = 0
    BY <1>2, <2>1
  <2>2. CASE k # 0
    <3>1. k \in 1 .. n /\ k - 1 \in 0 .. n
      BY <2>2
    <3>2. upTo[k - 1] = SubSeq(s, 1, k - 1) /\ upTo[k] = SubSeq(s, 1, k)
      BY <3>1
    <3> QED BY <1>1, <2>2, <3>1, <3>2
  <2> QED BY <2>1, <2>2
<1>4. ASSUME NEW f, Fills(f) PROVE f[n] = s
  <2> DEFINE apart == {k \in 0 .. n : f[k] # SubSeq(s, 1, k)}
  <2>1. \A k \in 0 .. n : f[k] = IF k = 0 THEN <<>> ELSE WithNext(g, f[k - 1])
    BY <1>4
  <2>2. apart = {}
    <3> SUFFICES ASSUME apart # {} PROVE FALSE
      OBVIOUS
    <3>1. PICK k \in apart : \A q \in apart : k <= q
      <4>1. apart \in SUBSET Nat
        OBVIOUS
      <4> HIDE DEF apart
      <4> QED BY <4>1, LeastExists
    <3>2. k \in 0 .. n /\ f[k] # SubSeq(s, 1, k)
      BY <3>1
    <3>3. k # 0
      BY <1>2, <2>1, <3>2
    <3>4. k \in 1 .. n /\ k - 1 \in 0 .. n /\ ~(k <= k - 1)
      BY <3>2, <3>3
    <3>5. f[k - 1] = SubSeq(s, 1, k - 1)
      BY <3>1, <3>4
    <3> QED BY <1>1, <2>1, <3>2, <3>3, <3>4, <3>5
  <2> QED BY <1>2, <2>2
<1>5. Filled(g, n) = (CHOOSE f : Fills(f))[n]
  BY DEF Filled
<1>6. Fills(CHOOSE f : Fills(f))
  <2> HIDE DEF Fills, upTo
  <2> QED BY <1>3
<1> HIDE DEF Fills
<1> QED BY <1>4, <1>5, <1>6

-----------------------------------------------------------------------------
(* The topological sort                                                     *)
\* The in-degrees count the dependencies not placed yet, and the queue holds
\* the plugins that have none.
SortInv ==
    /\ graph \in Graphs
    /\ sorted \in Seq(Nodes)
    /\ indeg = [p \in Nodes |-> Cardinality(graph[p] \ Placed)]
    /\ ready = Ready(graph, Placed)
    /\ InOrder(graph, sorted)

(* A plugin's dependencies are finitely many plugins, not itself.           *)
LEMMA NodeDependencies ==
    ASSUME graph \in Graphs, NEW p \in Nodes
    PROVE  /\ graph[p] \subseteq Nodes /\ p \notin graph[p]
           /\ \A S : IsFiniteSet(graph[p] \ S)
<1>1. graph[p] \subseteq Nodes /\ p \notin graph[p]
  BY DEF Graphs
<1>2. IsFiniteSet(graph[p])
  BY <1>1, FS_Subset, NodesAssumption
<1>3. ASSUME NEW S PROVE IsFiniteSet(graph[p] \ S)
  BY <1>2, FS_Subset
<1> QED BY <1>1, <1>3

(* What is in order comes after its dependencies, and once.                 *)
LEMMA OrderedDependencies ==
    ASSUME graph \in Graphs, sorted \in Seq(Nodes),
           InOrder(graph, sorted)
    PROVE  DependenciesFirst
<1>1. DOMAIN graph = Nodes
  BY DEF Graphs
<1>2. ASSUME NEW i \in DOMAIN sorted
      PROVE  /\ graph[sorted[i]] \subseteq {sorted[j] : j \in 1 .. i - 1}
             /\ sorted[i] \notin {sorted[j] : j \in 1 .. i - 1}
  BY <1>1, InOrderAfter, NodesAssumption
<1>3. ASSUME NEW i \in DOMAIN sorted, NEW j \in DOMAIN sorted, sorted[i] = sorted[j]
      PROVE  i = j
  <2>1. i \in Nat /\ j \in Nat /\ i >= 1 /\ j >= 1
    OBVIOUS
  <2>2. CASE i < j
    BY <1>2, <1>3, <2>1, <2>2
  <2>3. CASE j < i
    BY <1>2, <1>3, <2>1, <2>3
  <2> QED BY <2>1, <2>2, <2>3
<1> QED BY <1>2, <1>3 DEF DependenciesFirst

(* The empty order, with the plugins that depend on nothing in the queue.   *)
LEMMA SortInvInit == SortInit => SortInv
<1> SUFFICES ASSUME SortInit PROVE SortInv
  OBVIOUS
<1>1. graph \in Graphs /\ sorted = <<>> /\ Placed = {}
  BY DEF SortInit, Placed, Elements
<1>2. \A p \in Nodes : graph[p] \ Placed = graph[p]
  BY <1>1
<1>3. \A p \in Nodes : IsFiniteSet(graph[p])
  BY <1>1, <1>2, NodeDependencies
<1>4. \A p \in Nodes : Cardinality(graph[p]) = 0 <=> graph[p] = {}
  BY <1>3, FS_EmptySet
<1>5. DOMAIN graph = Nodes
  BY <1>1 DEF Graphs
<1>6. ready = Ready(graph, Placed)
  BY <1>1, <1>4, <1>5 DEF SortInit, Ready
<1>7. InOrder(graph, sorted)
  BY <1>1 DEF InOrder
<1>8. indeg = [p \in Nodes |-> Cardinality(graph[p] \ Placed)]
  BY <1>2 DEF SortInit
<1> QED BY <1>1, <1>6, <1>7, <1>8 DEF SortInv

(* Placing the first plugin of the queue.                                   *)
LEMMA PlaceKeeps ==
    ASSUME SortInv, Place
    PROVE  SortInv'
<1> DEFINE current == Least(ready)
<1>1. /\ sorted' = Append(sorted, current)
      /\ indeg' = [p \in Nodes |-> IF current \in graph[p] THEN indeg[p] - 1 ELSE indeg[p]]
      /\ ready' = (ready \ {current}) \cup {p \in Nodes : current \in graph[p] /\ indeg[p] = 1}
      /\ graph' = graph
  BY DEF Place, First, Dependents, LastDependency
<1>2. DOMAIN graph = Nodes /\ graph \in Graphs /\ sorted \in Seq(Nodes)
  BY DEF SortInv, Graphs
<1>3. /\ current \in Nodes /\ current \notin Placed
      /\ graph[current] \subseteq Placed
  <2>1. ready \subseteq Nat /\ ready # {}
    BY <1>2, NodesAssumption DEF SortInv, Ready, Place
  <2>2. current \in ready
    BY <2>1, LeastExists
  <2> QED BY <1>2, <2>2 DEF SortInv, Ready
<1>4. sorted' \in Seq(Nodes) /\ Placed' = Placed \cup {current}
  BY <1>1, <1>2, <1>3 DEF Placed, Elements
<1>5. \A p \in Placed : graph[p] \subseteq Placed
  <2>1. DependenciesFirst
    BY <1>2, OrderedDependencies DEF SortInv
  <2> SUFFICES ASSUME NEW i \in DOMAIN sorted PROVE graph[sorted[i]] \subseteq Placed
    BY DEF Placed, Elements
  <2>2. {sorted[j] : j \in 1 .. i - 1} \subseteq Placed
    BY <1>2 DEF Placed, Elements
  <2> QED BY <2>1, <2>2 DEF DependenciesFirst
<1>6. ASSUME NEW p \in Nodes
      PROVE  /\ current \in graph[p] =>
                  /\ Cardinality(graph[p] \ Placed') = Cardinality(graph[p] \ Placed) - 1
                  /\ Cardinality(graph[p] \ Placed) = 1 <=> graph[p] \subseteq Placed'
             /\ current \notin graph[p] => graph[p] \ Placed' = graph[p] \ Placed
  <2>1. IsFiniteSet(graph[p] \ Placed)
    BY <1>2, NodeDependencies
  <2>2. graph[p] \ Placed' = (graph[p] \ Placed) \ {current}
    BY <1>4
  <2>3. ASSUME current \in graph[p]
        PROVE  /\ Cardinality(graph[p] \ Placed') = Cardinality(graph[p] \ Placed) - 1
               /\ Cardinality(graph[p] \ Placed) = 1 <=> graph[p] \subseteq Placed'
    <3>1. current \in graph[p] \ Placed
      BY <1>3, <2>3
    <3>2. Cardinality(graph[p] \ Placed') = Cardinality(graph[p] \ Placed) - 1
      BY <2>1, <2>2, <3>1, FS_RemoveElement
    <3>3. Cardinality(graph[p] \ Placed) = 1 <=> \E x : graph[p] \ Placed = {x}
      BY <2>1, FS_Singleton
    <3>4. Cardinality(graph[p] \ Placed) = 1 <=> graph[p] \ Placed = {current}
      BY <3>1, <3>3
    <3> QED BY <1>4, <3>1, <3>2, <3>4
  <2>4. current \notin graph[p] => graph[p] \ Placed' = graph[p] \ Placed
    BY <2>2
  <2> QED BY <2>3, <2>4
<1>7. indeg' = [p \in Nodes |-> Cardinality(graph'[p] \ Placed')]
  BY <1>1, <1>6 DEF SortInv
<1>8. ready' = Ready(graph', Placed')
  <2>1. ready = {p \in Nodes \ Placed : graph[p] \subseteq Placed}
    BY <1>2 DEF SortInv, Ready
  <2>2. \A p \in Nodes : indeg[p] = Cardinality(graph[p] \ Placed)
    BY DEF SortInv
  <2>3. \A p \in Nodes : current \in graph[p] => p \notin Placed /\ p # current
    BY <1>2, <1>3, <1>5, NodeDependencies
  <2>4. \A p \in Nodes : current \notin graph[p] =>
           (graph[p] \subseteq Placed' <=> graph[p] \subseteq Placed)
    BY <1>4
  <2>5. \A p \in Nodes : current \in graph[p] => ~(graph[p] \subseteq Placed)
    BY <1>3
  <2>6. ready' = {p \in Nodes \ Placed' : graph[p] \subseteq Placed'}
    BY <1>1, <1>4, <1>6, <2>1, <2>2, <2>3, <2>4, <2>5
  <2> QED BY <1>1, <1>2, <2>6 DEF Ready
<1>9. InOrder(graph', sorted')
  <2> SUFFICES ASSUME NEW i \in DOMAIN sorted'
               PROVE  LET free == Ready(graph, {sorted'[j] : j \in 1 .. i - 1})
                      IN  free # {} /\ sorted'[i] = Least(free)
    BY <1>1 DEF InOrder
  <2>1. CASE i \in DOMAIN sorted
    <3>1. sorted'[i] = sorted[i] /\ \A j \in 1 .. i - 1 : sorted'[j] = sorted[j]
      BY <1>1, <1>2, <1>3, <2>1
    <3>2. {sorted'[j] : j \in 1 .. i - 1} = {sorted[j] : j \in 1 .. i - 1}
      BY <3>1
    <3> QED BY <2>1, <3>1, <3>2 DEF SortInv, InOrder
  <2>2. CASE i \notin DOMAIN sorted
    <3>1. i = Len(sorted) + 1 /\ sorted'[i] = current
      BY <1>1, <1>2, <1>3, <2>2
    <3>2. {sorted'[j] : j \in 1 .. i - 1} = Placed
      BY <1>1, <1>2, <1>3, <3>1 DEF Placed, Elements
    <3> QED BY <3>1, <3>2 DEF SortInv, Place
  <2> QED BY <2>1, <2>2
<1> QED BY <1>1, <1>2, <1>4, <1>7, <1>8, <1>9 DEF SortInv

(* SortInv is an invariant of the sort.                                     *)
LEMMA SortInvAlways == SortSpec => []SortInv
<1>1. SortInit => SortInv
  BY SortInvInit
<1>2. SortInv /\ [Place]_sortVars => SortInv'
  <2> SUFFICES ASSUME SortInv, [Place]_sortVars PROVE SortInv'
    OBVIOUS
  <2>1. CASE Place
    BY <2>1, PlaceKeeps
  <2>2. CASE UNCHANGED sortVars
    BY <2>2 DEF sortVars, SortInv, Placed
  <2> QED BY <2>1, <2>2
<1> QED BY <1>1, <1>2, PTL DEF SortSpec

(* When the queue runs empty, plugins are missing exactly when some of them *)
(* wait for each other.                                                     *)
LEMMA EmptyQueue ==
    ASSUME SortInv
    PROVE  RefusesOnlyCycles
<1> SUFFICES ASSUME SortInv, ready = {}
             PROVE  Placed = Nodes <=> ~\E S \in SUBSET Nodes : Deadlocked(S)
  BY DEF RefusesOnlyCycles
<1>1. /\ graph \in Graphs /\ DOMAIN graph = Nodes /\ sorted \in Seq(Nodes)
      /\ Placed \subseteq Nodes
  BY DEF SortInv, Graphs, Placed, Elements
<1>2. ASSUME Placed # Nodes PROVE Deadlocked(Nodes \ Placed)
  <2>1. \A p \in Nodes \ Placed : ~(graph[p] \subseteq Placed)
    BY <1>1 DEF SortInv, Ready
  <2>2. \A p \in Nodes \ Placed : graph[p] \subseteq Nodes
    BY <1>1, NodeDependencies
  <2> QED BY <1>1, <1>2, <2>1, <2>2 DEF Deadlocked
<1>3. ASSUME Placed = Nodes, NEW S \in SUBSET Nodes, Deadlocked(S) PROVE FALSE
  <2> DEFINE places == {i \in DOMAIN sorted : sorted[i] \in S}
  <2>1. places \in SUBSET Nat /\ places # {}
    BY <1>1, <1>3 DEF Placed, Elements, Deadlocked
  <2>2. PICK i \in places : \A k \in places : i <= k
    BY <2>1, LeastExists
  <2>3. graph[sorted[i]] \subseteq {sorted[j] : j \in 1 .. i - 1}
    BY <1>1, <2>2, OrderedDependencies DEF SortInv, DependenciesFirst
  <2>4. \A j \in 1 .. i - 1 : sorted[j] \notin S
    BY <1>1, <2>1, <2>2
  <2>5. graph[sorted[i]] \cap S = {}
    BY <2>3, <2>4
  <2> QED BY <1>3, <2>2, <2>5 DEF Deadlocked
<1> QED BY <1>2, <1>3

(* A complete order is the one that the graph and the ids determine.        *)
LEMMA CompleteOrder ==
    ASSUME SortInv, Placed = Nodes
    PROVE  Orders(graph) = {sorted}
<1>1. DOMAIN graph = Nodes /\ sorted \in Seq(Nodes) /\ InOrder(graph, sorted)
  BY DEF SortInv, Graphs
<1>2. DependenciesFirst
  BY <1>1, OrderedDependencies DEF SortInv
<1>3. Len(sorted) = Cardinality(Nodes)
  <2>1. Len(sorted) \in Nat /\ sorted \in [1 .. Len(sorted) -> Nodes]
    BY <1>1
  <2>2. sorted \in Injection(1 .. Len(sorted), Nodes)
    BY <1>2, <2>1 DEF Injection, IsInjective, DependenciesFirst
  <2>3. sorted \in Surjection(1 .. Len(sorted), Nodes)
    BY <2>1 DEF Surjection, Placed, Elements
  <2>4. Cardinality(1 .. Len(sorted)) = Len(sorted)
    BY <2>1, FS_Interval
  <2> QED BY <2>2, <2>3, <2>4, NodesAssumption, FS_Injection
<1>4. Filled(graph, Cardinality(Nodes)) = sorted
  <2>1. Cardinality(Nodes) \in Nat
    BY <1>1, <1>3
  <2> QED BY <1>1, <1>3, <2>1, FilledInOrder
<1> QED BY <1>1, <1>3, <1>4 DEF Orders

(* The loop of _topo_sort, for any finite set of plugins and any            *)
(* dependencies between them: a plugin is placed after all its dependencies *)
(* and once, resolve_order refuses a composition only for a cycle, and the  *)
(* order is the one that PluginOrder defines from the ids and the graph.    *)
THEOREM SortBuildsOrder == SortSpec => []SortCorrect
<1>1. SortInv => SortCorrect
  <2>1. SortInv => DependenciesFirst
    BY OrderedDependencies DEF SortInv
  <2>2. SortInv => RefusesOnlyCycles
    BY EmptyQueue
  <2>3. SortInv => Deterministic
    BY CompleteOrder DEF SortInv, Deterministic
  <2> QED BY <2>1, <2>2, <2>3 DEF SortCorrect
<1> QED BY <1>1, SortInvAlways, PTL

-----------------------------------------------------------------------------
(* Starts and stops.  The manager is always at some place of a list of      *)
(* plugins.  Those the loop has reached, from the front, are up; every other *)
(* plugin is clean; and a plugin that is up holds services of plugins before *)
(* it only.  A call that was cancelled breaks this, but not that whoever is  *)
(* up or owns a service is in the list a stop goes through.                  *)

\* A plugin neither requires nor names as optional what it provides itself.
NoSelfService ==
    \A p \in Plugins : (Requires[p] \cup Optional[p]) \cap Provides[p] = {}

-----------------------------------------------------------------------------
(* Types                                                                    *)
\* Whose unsubscriber the manager keeps has a handler on the bus.
Kept == \A p \in cleanups : handlers[p] >= 1

\* Where the loop is in its list.
Where ==
    /\ op = "idle" => order = <<>> /\ at = 0
    /\ op \in {"setup", "start"} => at \in 1 .. Len(order) + 1
    /\ op \in {"undoSetup", "undoStart", "stop"} => at \in 0 .. Len(order)
    /\ op \in {"setup", "undoSetup"} => ordered = <<>>
    /\ op \in {"start", "undoStart", "stop"} => ordered = order
    /\ op # "idle" => order # <<>>

TypeInv == TypeOK /\ Kept /\ Where

-----------------------------------------------------------------------------
(* Whatever is cancelled                                                    *)
\* The list that the loop, or the next one, goes through.
List == IF op = "idle" THEN ordered ELSE order

\* A plugin stands once in it, and is registered.
Listed ==
    /\ \A i \in DOMAIN List : List[i] \in Registered
    /\ \A i, j \in DOMAIN List : List[i] = List[j] => i = j

\* Who has something to take down.
Holds(p) == life[p] # "down" \/ \E s \in Services : registry[s] = p

\* Whoever has is in the list that a stop goes through.
Reachable ==
    /\ op \in {"setup", "undoSetup"} => Registered \subseteq Elements(order)
    /\ \A p \in Plugins : Holds(p) =>
          /\ p \in Registered
          /\ ordered # <<>> => p \in Elements(ordered)
          /\ op = "stop" => \E i \in 1 .. at : order[i] = p

-----------------------------------------------------------------------------
(* When nothing is cancelled                                                *)
\* How many plugins of the list are up, from the front.
Reach ==
    IF op = "setup" THEN at - 1
    ELSE IF op \in {"undoSetup", "stop"} THEN at ELSE Len(List)

\* All others are clean.
Beyond ==
    \A p \in Plugins :
        (\A i \in 1 .. Reach : List[i] # p) => Clean(p) /\ bound[p] = {}

\* A plugin holds services of the plugins before it.
BoundBefore ==
    \A i \in 1 .. Reach : \A s \in bound[List[i]] :
        \E j \in 1 .. i - 1 : registry[s] = List[j]

\* A handler on the bus has its unsubscriber.
Subscribed ==
    \A p \in Plugins : handlers[p] = IF p \in cleanups THEN 1 ELSE 0

\* Who owns a name provides it.
Owned ==
    \A s \in Services : registry[s] # NoPlugin => s \in Provides[registry[s]]

\* A plugin that was set up is up with all its services and its handler.
IsWhole(p) ==
    /\ life[p] = "up"
    /\ \A s \in Provides[p] : registry[s] = p
    /\ handlers[p] = IF p \in Subscribers THEN 1 ELSE 0

Whole ==
    op \in {"idle", "setup", "start"} => \A i \in 1 .. Reach : IsWhole(List[i])

\* During setup: what a plugin requires has a provider, which stands before it,
\* and so do the providers of its optional services if the sort took them.
Planned ==
    op = "setup" =>
        /\ providers = ProvidersNow
        /\ \A i \in DOMAIN order :
              /\ \A s \in Requires[order[i]] : providers[s] # NoPlugin
              /\ DependencyGraph(providers)[order[i]] \subseteq {order[j] : j \in 1 .. i - 1}
              /\ Orders(OrderingGraph(providers)) # {} =>
                    OrderingGraph(providers)[order[i]] \subseteq {order[j] : j \in 1 .. i - 1}

\* Who was set up has found its optional services, unless it provides them
\* itself or a plugin was registered since.
OptionalsFound ==
    /\ NoSelfService
    /\ op \in {"idle", "setup", "start"}
    /\ Registered \subseteq Elements(List)
    /\ Orders(OrderingGraph(ProvidersNow)) # {}
    => \A i \in 1 .. Reach : \A s \in Optional[List[i]] \cap TryGets[List[i]] :
          ProvidersNow[s] # NoPlugin => s \in bound[List[i]]

Quiet ==
    /\ Beyond /\ BoundBefore /\ Subscribed /\ Owned /\ Whole /\ Planned
    /\ OptionalsFound

IInv == TypeInv /\ Listed /\ Reachable /\ (Undisturbed => Quiet)

-----------------------------------------------------------------------------
(* The providers that setup_all rebuilds are registered plugins that        *)
(* provide the service.                                                     *)
LEMMA ProvidersFound ==
    ASSUME TypeOK, NEW s \in Services
    PROVE  /\ ProvidersNow[s] \in Registered \cup {NoPlugin}
           /\ ProvidersNow[s] # NoPlugin => s \in Provides[ProvidersNow[s]]
PROOF
<1> DEFINE who == {i \in DOMAIN plugins : s \in Provides[plugins[i]]}
           last == CHOOSE i \in who : \A j \in who : j <= i
<1>1. CASE who = {}
  BY <1>1 DEF ProvidersNow
<1>2. CASE who # {}
  <2>1. ProvidersNow[s] = plugins[last]
    BY <1>2 DEF ProvidersNow
  <2>2. last \in who
    <3> DEFINE rest == {Len(plugins) - i : i \in who}
    <3>1. who \subseteq 1 .. Len(plugins) /\ Len(plugins) \in Nat
      BY DEF TypeOK
    <3>2. rest \subseteq Nat /\ rest # {}
      BY <1>2, <3>1
    <3>3. PICK k \in rest : \A l \in rest : k <= l
      BY <3>2, LeastExists
    <3>4. PICK i \in who : k = Len(plugins) - i
      BY <3>3
    <3>5. ASSUME NEW j \in who PROVE j <= i
      <4>1. Len(plugins) - j \in rest
        BY <3>5
      <4>2. Len(plugins) - i <= Len(plugins) - j
        BY <3>3, <3>4, <4>1
      <4>3. i \in Nat /\ j \in Nat
        BY <3>1, <3>4, <3>5
      <4> HIDE DEF who, rest
      <4> QED
        BY <3>1, <4>2, <4>3
    <3> HIDE DEF who
    <3> QED
      BY <3>4, <3>5
  <2> QED
    BY <2>1, <2>2 DEF Registered, Elements
<1> QED
  BY <1>1, <1>2

(* The order that a set-up goes through: every registered plugin once,      *)
(* behind what it depends on.                                               *)
LEMMA ResolvedOrder ==
    ASSUME TypeOK, NEW s \in ResolvedOrders(ProvidersNow)
    PROVE  /\ s \in Seq(Plugins)
           /\ \A i \in DOMAIN s : s[i] \in Registered
           /\ \A i, j \in DOMAIN s : s[i] = s[j] => i = j
           /\ Registered \subseteq Elements(s)
           /\ \A i \in DOMAIN s :
                 /\ \A r \in Requires[s[i]] : ProvidersNow[r] # NoPlugin
                 /\ DependencyGraph(ProvidersNow)[s[i]] \subseteq {s[j] : j \in 1 .. i - 1}
                 /\ Orders(OrderingGraph(ProvidersNow)) # {} =>
                       OrderingGraph(ProvidersNow)[s[i]] \subseteq {s[j] : j \in 1 .. i - 1}
PROOF
<1> DEFINE prov == ProvidersNow
<1>1. Registered \subseteq Plugins /\ Registered \subseteq Nat /\ IsFiniteSet(Registered)
  <2>1. Registered \subseteq Plugins
    BY DEF TypeOK, Registered, Elements
  <2> QED
    BY <2>1, PluginsAssumption, FS_Subset
<1>2. /\ DOMAIN OrderingGraph(prov) = Registered
      /\ DOMAIN DependencyGraph(prov) = Registered
      /\ \A p \in Registered : DependencyGraph(prov)[p] \subseteq OrderingGraph(prov)[p]
  BY DEF OrderingGraph, DependencyGraph, OptionalGraph, DependsOn
<1>3. \A p \in Registered : \A r \in Requires[p] : prov[r] # NoPlugin
  BY DEF ResolvedOrders
<1> HIDE DEF prov
<1>4. PICK g : /\ s \in Orders(g)
               /\ DOMAIN g = Registered
               /\ \A p \in Registered : DependencyGraph(prov)[p] \subseteq g[p]
               /\ Orders(OrderingGraph(prov)) # {} => g = OrderingGraph(prov)
  <2>1. CASE Orders(OrderingGraph(prov)) # {}
    <3>1. s \in Orders(OrderingGraph(prov))
      BY <2>1 DEF ResolvedOrders, prov
    <3> QED
      BY <1>2, <2>1, <3>1
  <2>2. CASE Orders(OrderingGraph(prov)) = {}
    <3>1. s \in Orders(DependencyGraph(prov))
      BY <2>2 DEF ResolvedOrders, prov
    <3> QED
      BY <1>2, <2>2, <3>1
  <2> QED
    BY <2>1, <2>2
<1>5. /\ s \in Seq(Registered) /\ Len(s) = Cardinality(Registered)
      /\ InOrder(g, s)
  BY <1>4 DEF Orders
<1>6. ASSUME NEW i \in DOMAIN s
      PROVE  /\ s[i] \in Registered
             /\ g[s[i]] \subseteq {s[j] : j \in 1 .. i - 1}
             /\ s[i] \notin {s[j] : j \in 1 .. i - 1}
  <2>1. DOMAIN g \subseteq Nat
    BY <1>1, <1>4
  <2>2. InOrder(g, s)
    BY <1>5
  <2> QED
    BY ONLY <1>4, <1>6, <2>1, <2>2, InOrderAfter
<1>7. ASSUME NEW i \in DOMAIN s, NEW j \in DOMAIN s, s[i] = s[j]
      PROVE  i = j
  <2>1. i \in Nat /\ j \in Nat /\ i >= 1 /\ j >= 1
    BY <1>5
  <2>2. CASE i < j
    BY <1>6, <1>7, <2>1, <2>2
  <2>3. CASE j < i
    BY <1>6, <1>7, <2>1, <2>3
  <2> QED
    BY <2>1, <2>2, <2>3
<1>8. Registered \subseteq Elements(s)
  <2>1. DOMAIN s = 1 .. Len(s) /\ Len(s) \in Nat /\ s \in [1 .. Len(s) -> Registered]
    BY <1>5
  <2>2. s \in Injection(1 .. Len(s), Registered)
    BY <1>7, <2>1 DEF Injection, IsInjective
  <2>3. Cardinality(1 .. Len(s)) = Len(s)
    BY <2>1, FS_Interval
  <2>4. s \in Surjection(1 .. Len(s), Registered)
    BY <1>1, <1>5, <2>2, <2>3, FS_Injection
  <2> QED
    BY <2>1, <2>4 DEF Surjection, Elements
<1>9. s \in Seq(Plugins)
  <2>1. Len(s) \in Nat /\ s \in [1 .. Len(s) -> Registered]
    BY <1>5
  <2>2. Registered \subseteq Plugins
    BY <1>1
  <2>3. s \in [1 .. Len(s) -> Plugins]
    BY <2>1, <2>2
  <2> QED
    BY <2>1, <2>3
<1>10. ASSUME NEW i \in DOMAIN s
      PROVE  /\ DependencyGraph(prov)[s[i]] \subseteq {s[j] : j \in 1 .. i - 1}
             /\ Orders(OrderingGraph(prov)) # {} =>
                   OrderingGraph(prov)[s[i]] \subseteq {s[j] : j \in 1 .. i - 1}
  BY <1>4, <1>6, <1>10
<1> QED
  BY <1>3, <1>6, <1>7, <1>8, <1>9, <1>10 DEF prov

(* The lists are indexed from 1.                                            *)
LEMMA Places ==
    ASSUME TypeOK
    PROVE  /\ Registered \subseteq Plugins
           /\ at \in Nat
           /\ Len(order) \in Nat /\ DOMAIN order = 1 .. Len(order)
           /\ Len(ordered) \in Nat /\ DOMAIN ordered = 1 .. Len(ordered)
           /\ Len(plugins) \in Nat /\ DOMAIN plugins = 1 .. Len(plugins)
BY DEF TypeOK, Registered, Elements

LEMMA TypeInit == Init => TypeInv
PROOF
<1> SUFFICES ASSUME Init PROVE TypeInv
  OBVIOUS
<1>1. plugins \in Seq(Plugins) /\ ordered \in Seq(Plugins) /\ order \in Seq(Plugins)
  BY DEF Init
<1>2. /\ providers \in [Services -> Plugins \cup {NoPlugin}]
      /\ registry \in [Services -> Plugins \cup {NoPlugin}]
      /\ handlers \in [Plugins -> Nat]
      /\ life \in [Plugins -> {"down", "up", "stopped"}]
      /\ bound \in [Plugins -> SUBSET Services]
  BY DEF Init
<1>3. started \in BOOLEAN /\ op \in Ops /\ at \in Nat /\ cleanups \subseteq Plugins
  BY DEF Init, Ops
<1>4. cancels \in 0 .. MaxCancels
  BY MaxCancelsAssumption DEF Init
<1>5. Kept /\ Where
  BY DEF Init, Kept, Where
<1> QED
  BY <1>1, <1>2, <1>3, <1>4, <1>5 DEF TypeInv, TypeOK

(* Handlers and unsubscribers stay in step when a plugin subscribes ...      *)
LEMMA SubscribeTypes ==
    ASSUME TypeInv, NEW p \in Plugins, Subscribe(p, TRUE) \/ Subscribe(p, FALSE)
    PROVE  handlers' \in [Plugins -> Nat] /\ cleanups' \subseteq Plugins /\ Kept'
PROOF
<1>1. handlers \in [Plugins -> Nat] /\ cleanups \subseteq Plugins /\ Kept
  BY DEF TypeInv, TypeOK
<1>2. CASE Subscribe(p, TRUE)
  <2>1. /\ handlers' = [handlers EXCEPT ![p] = @ + 1]
        /\ cleanups' = cleanups \cup {p}
    BY <1>2 DEF Subscribe
  <2> QED
    BY <1>1, <2>1 DEF Kept
<1>3. CASE Subscribe(p, FALSE)
  <2>1. handlers' = handlers /\ cleanups' = cleanups \ {p}
    BY <1>1, <1>3 DEF Subscribe
  <2> QED
    BY <1>1, <2>1 DEF Kept
<1> QED
  BY <1>2, <1>3

(* A setup subscribes the plugin or does not.                                *)
LEMMA Subscribes ==
    ASSUME NEW p \in Plugins, SetUp(p) \/ SetUpFails(p)
    PROVE  Subscribe(p, TRUE) \/ Subscribe(p, FALSE)
PROOF
<1>1. Subscribe(p, p \in Subscribers) \/ Subscribe(p, FALSE)
  BY DEF SetUp, SetUpFails
<1>2. CASE p \in Subscribers
  <2>1. (p \in Subscribers) = TRUE
    BY <1>2
  <2> QED
    BY <1>1, <2>1, Zenon
<1>3. CASE p \notin Subscribers
  <2>1. (p \in Subscribers) = FALSE
    BY <1>3
  <2> QED
    BY <1>1, <2>1, Zenon
<1> QED
  BY <1>2, <1>3

(* ... and when it is taken down, which types what TakeDown changes.         *)
LEMMA TakeDownTypes ==
    ASSUME TypeInv, NEW p \in Plugins, TakeDown(p)
    PROVE  /\ handlers' \in [Plugins -> Nat] /\ cleanups' \subseteq Plugins /\ Kept'
           /\ registry' \in [Services -> Plugins \cup {NoPlugin}]
           /\ life' \in [Plugins -> {"down", "up", "stopped"}]
           /\ bound' \in [Plugins -> SUBSET Services]
BY DEF TypeInv, TypeOK, Kept, TakeDown, Unsubscribe, ClearOwner

LEMMA TypeStep == TypeInv /\ [Next]_vars => TypeInv'
PROOF
<1> SUFFICES ASSUME TypeInv, [Next]_vars PROVE TypeInv'
  OBVIOUS
<1> USE DEF Ops
<1> TypeOK /\ Kept /\ Where
  BY DEF TypeInv
<1>1. ASSUME NEW p \in Plugins, Register(p) PROVE TypeOK' /\ Kept' /\ Where'
  <2>1. plugins' \in Seq(Plugins)
    BY <1>1 DEF Register, TypeOK
  <2>2. providers' \in [Services -> Plugins \cup {NoPlugin}]
    BY <1>1 DEF Register, TypeOK
  <2> QED
    BY <1>1, <2>1, <2>2 DEF Register, TypeOK, Kept, Where, callVars
<1>2. ASSUME CallStart PROVE TypeOK' /\ Kept' /\ Where'
  <2>1. ProvidersNow \in [Services -> Plugins \cup {NoPlugin}]
    <3>1. \A s \in Services : ProvidersNow[s] \in Plugins \cup {NoPlugin}
      BY Places, ProvidersFound
    <3> QED
      BY <3>1 DEF ProvidersNow
  <2>2. providers' \in [Services -> Plugins \cup {NoPlugin}]
    BY <1>2, <2>1 DEF CallStart, TypeOK
  <2>3. ASSUME ordered = <<>>, providers' = ProvidersNow,
               NEW s \in ResolvedOrders(providers'), Enter("setup", s, 1)
        PROVE  TypeOK' /\ Kept' /\ Where'
    <3>1. /\ s \in Seq(Plugins) /\ Registered \subseteq Elements(s)
      BY <2>3, ResolvedOrder
    <3>2. Registered # {}
      BY <1>2 DEF CallStart
    <3>3. s # <<>>
      BY <3>1, <3>2 DEF Elements
    <3> QED
      BY <1>2, <2>2, <2>3, <3>1, <3>3 DEF CallStart, Enter, TypeOK, Kept, Where
  <2>4. CASE UNCHANGED callVars
    BY <1>2, <2>2, <2>4 DEF CallStart, TypeOK, Kept, Where, callVars
  <2>5. CASE ordered # <<>> /\ Enter("start", ordered, 1)
    BY <1>2, <2>2, <2>5 DEF CallStart, Enter, TypeOK, Kept, Where
  <2> QED
    BY <1>2, <2>3, <2>4, <2>5 DEF CallStart
<1>3. ASSUME CallStop PROVE TypeOK' /\ Kept' /\ Where'
  BY <1>3 DEF CallStop, Enter, TypeOK, Kept, Where, managerVars
<1>4. ASSUME Cancel PROVE TypeOK' /\ Kept' /\ Where'
  <2>1. op' = "idle" /\ order' = <<>> /\ at' = 0 /\ cancels' \in 0 .. MaxCancels
    BY <1>4, MaxCancelsAssumption DEF Cancel, Return, TypeOK
  <2>2. Where'
    BY <2>1 DEF Where
  <2> QED
    BY <1>4, <2>1, <2>2 DEF Cancel, TypeOK, Kept, managerVars
<1>5. ASSUME NEW p \in Plugins, SetUp(p) PROVE TypeOK' /\ Kept' /\ Where'
  <2>1. handlers' \in [Plugins -> Nat] /\ cleanups' \subseteq Plugins /\ Kept'
    BY <1>5, Subscribes, SubscribeTypes
  <2>2. /\ registry' \in [Services -> Plugins \cup {NoPlugin}]
        /\ life' \in [Plugins -> {"down", "up", "stopped"}]
    BY <1>5 DEF SetUp, TypeOK
  <2>3. bound' \in [Plugins -> SUBSET Services]
    BY <1>5, MetadataAssumption DEF SetUp, TypeOK, Metadata
  <2>4. at' \in Nat /\ Where'
    BY <1>5 DEF SetUp, TypeOK, Where, managerVars
  <2> QED
    BY <1>5, <2>1, <2>2, <2>3, <2>4 DEF SetUp, TypeOK, managerVars
<1>6. ASSUME NEW p \in Plugins, SetUpFails(p) PROVE TypeOK' /\ Kept' /\ Where'
  <2>1. handlers' \in [Plugins -> Nat] /\ cleanups' \subseteq Plugins /\ Kept'
    BY <1>6, Subscribes, SubscribeTypes
  <2>2. /\ registry' \in [Services -> Plugins \cup {NoPlugin}]
        /\ life' \in [Plugins -> {"down", "up", "stopped"}]
    BY <1>6 DEF SetUpFails, TypeOK
  <2>3. at \in 1 .. Len(order) /\ Len(order) \in Nat /\ order # <<>> /\ ordered = <<>>
    BY <1>6, Places DEF SetUpFails, Where
  <2>4. op' = "undoSetup" /\ at' = at /\ order' = order /\ ordered' = ordered
    BY <1>6 DEF SetUpFails, LastInitialized, managerVars
  <2>5. op' \in Ops /\ at' \in Nat /\ Where'
    BY <2>3, <2>4 DEF Where
  <2> QED
    BY <1>6, <2>1, <2>2, <2>5 DEF SetUpFails, TypeOK, managerVars
<1>7. ASSUME NEW p \in Plugins, UndoSetUp(p) PROVE TypeOK' /\ Kept' /\ Where'
  <2>1. at \in 1 .. Len(order) /\ Len(order) \in Nat
    BY <1>7, Places DEF UndoSetUp
  <2>2. /\ op = "undoSetup" /\ at' = at - 1
        /\ UNCHANGED <<op, order, ordered>>
    BY <1>7 DEF UndoSetUp, managerVars
  <2>3. at' \in Nat /\ Where'
    BY <2>1, <2>2 DEF Where
  <2> QED
    BY <1>7, <2>3, TakeDownTypes DEF UndoSetUp, TypeOK, managerVars
<1>8. ASSUME NEW p \in Plugins, Stop(p) PROVE TypeOK' /\ Kept' /\ Where'
  <2>1. at \in 1 .. Len(order) /\ Len(order) \in Nat
    BY <1>8, Places DEF Stop
  <2>2. /\ op = "stop" /\ at' = at - 1
        /\ UNCHANGED <<op, order, ordered>>
    BY <1>8 DEF Stop, managerVars
  <2>3. at' \in Nat /\ Where'
    BY <2>1, <2>2 DEF Where
  <2> QED
    BY <1>8, <2>3, TakeDownTypes DEF Stop, TypeOK, managerVars
<1>9. ASSUME NEW p \in Plugins, UndoStart(p) PROVE TypeOK' /\ Kept' /\ Where'
  <2>1. life' \in [Plugins -> {"down", "up", "stopped"}]
    BY <1>9 DEF UndoStart, TypeOK
  <2>2. at \in 1 .. Len(order) /\ Len(order) \in Nat
    BY <1>9, Places DEF UndoStart
  <2>3. /\ op = "undoStart" /\ at' = at - 1
        /\ UNCHANGED <<op, order, ordered>>
    BY <1>9 DEF UndoStart, managerVars
  <2>4. at' \in Nat /\ Where'
    BY <2>2, <2>3 DEF Where
  <2> QED
    BY <1>9, <2>1, <2>4 DEF UndoStart, TypeOK, Kept, managerVars
<1>10. ASSUME SetUpUndone PROVE TypeOK' /\ Kept' /\ Where'
  BY <1>10 DEF SetUpUndone, Return, TypeOK, Kept, Where
<1>11. ASSUME SetUpDone PROVE TypeOK' /\ Kept' /\ Where'
  BY <1>11 DEF SetUpDone, Enter, TypeOK, Kept, Where
<1>12. ASSUME Start PROVE TypeOK' /\ Kept' /\ Where'
  BY <1>12 DEF Start, TypeOK, Kept, Where, managerVars
<1>13. ASSUME StartDone PROVE TypeOK' /\ Kept' /\ Where'
  BY <1>13 DEF StartDone, Return, TypeOK, Kept, Where
<1>14. ASSUME StartFails PROVE TypeOK' /\ Kept' /\ Where'
  <2>1. at \in 1 .. Len(order) /\ Len(order) \in Nat
    BY <1>14, Places DEF StartFails
  <2>2. /\ op = "start" /\ op' = "undoStart" /\ at' = at - 1
        /\ UNCHANGED <<order, ordered>>
    BY <1>14 DEF StartFails, managerVars
  <2>3. at' \in Nat /\ Where'
    BY <2>1, <2>2 DEF Where
  <2> QED
    BY <1>14, <2>2, <2>3 DEF StartFails, TypeOK, Kept, managerVars
<1>15. ASSUME StartUndone PROVE TypeOK' /\ Kept' /\ Where'
  <2>1. Len(order) \in Nat /\ ordered = order /\ order # <<>>
    BY <1>15, Places DEF StartUndone, Where
  <2>2. op' = "stop" /\ at' = Len(order) /\ UNCHANGED <<order, ordered>>
    BY <1>15 DEF StartUndone, Enter, managerVars
  <2>3. at' \in Nat /\ Where'
    BY <2>1, <2>2 DEF Where
  <2> QED
    BY <1>15, <2>2, <2>3 DEF StartUndone, TypeOK, Kept, managerVars
<1>16. ASSUME StopDone PROVE TypeOK' /\ Kept' /\ Where'
  <2>1. providers' \in [Services -> Plugins \cup {NoPlugin}]
    BY <1>16 DEF StopDone
  <2>2. op' = "idle" /\ order' = <<>> /\ at' = 0 /\ ordered' = <<>> /\ started' = FALSE
    BY <1>16 DEF StopDone, Return
  <2>3. Where'
    BY <2>2 DEF Where
  <2>4. UNCHANGED <<cancels, plugins, registry, cleanups, handlers, life, bound>>
    BY <1>16 DEF StopDone
  <2>5. /\ ordered' \in Seq(Plugins) /\ order' \in Seq(Plugins)
        /\ op' \in Ops /\ at' \in Nat
    BY <2>2
  <2>6. started' \in BOOLEAN
    BY <2>2
  <2>7. TypeOK'
    BY <2>1, <2>4, <2>5, <2>6 DEF TypeOK
  <2>8. Kept'
    BY <2>4 DEF Kept
  <2> QED
    BY <2>3, <2>7, <2>8
<1>17. ASSUME UNCHANGED vars PROVE TypeOK' /\ Kept' /\ Where'
  BY <1>17 DEF vars, TypeOK, Kept, Where, callVars
<1> QED
  BY <1>1, <1>2, <1>3, <1>4, <1>5, <1>6, <1>7, <1>8, <1>9, <1>10, <1>11, <1>12,
     <1>13, <1>14, <1>15, <1>16, <1>17 DEF TypeInv, Next, Step

-----------------------------------------------------------------------------
(* The list stays as long as a loop goes through it.                        *)
LEMMA ListSame ==
    ASSUME TypeInv, [Next]_vars,
           \A s \in ResolvedOrders(ProvidersNow) : ~Enter("setup", s, 1)
    PROVE  List' = List \/ List' = <<>>
PROOF
<1> Where
  BY DEF TypeInv
<1>1. ASSUME NEW p \in Plugins, Register(p) PROVE List' = List
  BY <1>1 DEF Register, callVars, List
<1>2. ASSUME CallStart PROVE List' = List
  <2>1. CASE ordered = <<>>
    <3>1. UNCHANGED <<op, order, ordered>>
      BY <1>2, <2>1 DEF CallStart, callVars
    <3> QED
      BY <3>1 DEF List
  <2>2. CASE ordered # <<>>
    <3>1. op = "idle" /\ op' = "start" /\ order' = ordered
      BY <1>2, <2>2 DEF CallStart, Enter
    <3> QED
      BY <3>1 DEF List
  <2> QED
    BY <2>1, <2>2
<1>3. ASSUME CallStop PROVE List' = List
  BY <1>3 DEF CallStop, Enter, List
<1>4. ASSUME Cancel PROVE List' = List \/ List' = <<>>
  <2>1. op \in {"setup", "undoSetup", "start", "undoStart", "stop"} => ordered \in {order, <<>>}
    BY DEF Where
  <2>2. op # "idle" /\ op' = "idle" /\ ordered' = ordered
    BY <1>4 DEF Cancel, Return, managerVars
  <2>3. op \in Ops
    BY DEF TypeInv, TypeOK
  <2> QED
    BY <2>1, <2>2, <2>3 DEF List, Ops
<1>5. ASSUME NEW p \in Plugins, SetUp(p) \/ UndoSetUp(p) \/ UndoStart(p) \/ Stop(p)
      PROVE  List' = List
  BY <1>5 DEF SetUp, UndoSetUp, UndoStart, Stop, managerVars, List
<1>6. ASSUME NEW p \in Plugins, SetUpFails(p) PROVE List' = List
  BY <1>6 DEF SetUpFails, managerVars, List
<1>7. ASSUME SetUpUndone \/ StopDone PROVE List' = <<>>
  BY <1>7 DEF SetUpUndone, StopDone, Return, List
<1>8. ASSUME SetUpDone \/ StartUndone PROVE List' = List
  BY <1>8 DEF SetUpDone, StartUndone, Enter, managerVars, List
<1>9. ASSUME Start \/ StartFails PROVE List' = List
  BY <1>9 DEF Start, StartFails, managerVars, List
<1>10. ASSUME StartDone PROVE List' = List
  BY <1>10 DEF StartDone, Return, List, Where
<1>11. ASSUME UNCHANGED vars PROVE List' = List
  BY <1>11 DEF vars, callVars, List
<1> QED
  BY <1>1, <1>2, <1>3, <1>4, <1>5, <1>6, <1>7, <1>8, <1>9, <1>10, <1>11 DEF Next, Step

(* No plugin is ever unregistered.                                          *)
LEMMA RegisteredStay ==
    ASSUME TypeInv, [Next]_vars
    PROVE  /\ Registered \subseteq Registered'
           /\ op # "idle" => Registered' = Registered
PROOF
<1>1. ASSUME NEW p \in Plugins, Register(p)
      PROVE  Registered' = Registered \cup {p}
  <2>1. plugins \in Seq(Plugins) /\ plugins' = Append(plugins, p)
    BY <1>1 DEF Register, TypeInv, TypeOK
  <2>2. /\ Len(plugins) \in Nat /\ DOMAIN plugins = 1 .. Len(plugins)
        /\ DOMAIN plugins' = 1 .. Len(plugins) + 1
        /\ \A i \in DOMAIN plugins : plugins'[i] = plugins[i]
        /\ plugins'[Len(plugins) + 1] = p
    BY <2>1
  <2> QED
    BY <2>2 DEF Registered, Elements
<1>2. CASE UNCHANGED plugins
  BY <1>2 DEF Registered
<1>3. \/ \E p \in Plugins : op = "idle" /\ Register(p)
      \/ UNCHANGED plugins
  BY DEF Next, Step, Register, CallStart, CallStop, Cancel, SetUp, SetUpFails, UndoSetUp,
     UndoStart, Stop, SetUpUndone, SetUpDone, Start, StartDone, StartFails, StartUndone,
     StopDone, vars, managerVars
<1> QED
  BY <1>1, <1>2, <1>3

LEMMA ListedStep == TypeInv /\ Listed /\ [Next]_vars => Listed'
PROOF
<1> SUFFICES ASSUME TypeInv, Listed, [Next]_vars PROVE Listed'
  OBVIOUS
<1>1. CASE \E s \in ResolvedOrders(ProvidersNow) : Enter("setup", s, 1)
  <2>1. PICK s \in ResolvedOrders(ProvidersNow) : Enter("setup", s, 1)
    BY <1>1
  <2>2. List' = s
    BY <2>1 DEF Enter, List
  <2>3. /\ \A i \in DOMAIN s : s[i] \in Registered
        /\ \A i, j \in DOMAIN s : s[i] = s[j] => i = j
    BY ResolvedOrder DEF TypeInv
  <2> QED
    BY <2>2, <2>3, RegisteredStay DEF Listed
<1>2. CASE List' = List
  BY <1>2, RegisteredStay DEF Listed
<1>3. CASE List' = <<>>
  BY <1>3 DEF Listed
<1> QED
  BY <1>1, <1>2, <1>3, ListSame

(* A plugin that was taken down has nothing left to take down, ...           *)
LEMMA TakenDown ==
    ASSUME TypeInv, NEW q \in Plugins, TakeDown(q), NEW p \in Plugins, Holds(p)'
    PROVE  Holds(p) /\ p # q
PROOF
<1> life \in [Plugins -> {"down", "up", "stopped"}]
  BY DEF TypeInv, TypeOK
<1> QED
  BY NoPluginAssumption DEF TakeDown, ClearOwner, Holds

(* ... and only the plugin at the loop's place gets something.               *)
LEMMA HoldsStep ==
    ASSUME TypeInv, [Next]_vars, NEW p \in Plugins, Holds(p)'
    PROVE  \/ Holds(p)
           \/ /\ at \in DOMAIN order /\ p = order[at]
              /\ \/ op = "setup" /\ op' \in {"setup", "undoSetup"}
                 \/ op = "undoStart" /\ op' = "undoStart"
              /\ ordered' = ordered
PROOF
<1> life \in [Plugins -> {"down", "up", "stopped"}]
  BY DEF TypeInv, TypeOK
<1>1. ASSUME UNCHANGED <<life, registry>> PROVE Holds(p)
  BY <1>1 DEF Holds
<1>2. ASSUME NEW q \in Plugins, TakeDown(q) PROVE Holds(p)
  BY <1>2, TakenDown
<1>3. ASSUME NEW q \in Plugins, UndoStart(q)
      PROVE  \/ Holds(p)
             \/ /\ at \in DOMAIN order /\ p = order[at]
                /\ op = "undoStart" /\ op' = "undoStart" /\ ordered' = ordered
  <2>1. /\ at \in DOMAIN order /\ q = order[at]
        /\ op = "undoStart" /\ op' = "undoStart" /\ ordered' = ordered
    BY <1>3 DEF UndoStart, managerVars
  <2>2. CASE p = q
    BY <2>1, <2>2
  <2>3. CASE p # q
    BY <1>3, <2>3 DEF UndoStart, Holds
  <2> QED
    BY <2>2, <2>3
<1>4. ASSUME NEW q \in Plugins, SetUp(q) \/ SetUpFails(q)
      PROVE  \/ Holds(p)
             \/ /\ at \in DOMAIN order /\ p = order[at]
                /\ op = "setup" /\ op' \in {"setup", "undoSetup"}
                /\ ordered' = ordered
  <2>1. /\ op = "setup" /\ at \in DOMAIN order /\ q = order[at]
        /\ op' \in {"setup", "undoSetup"} /\ ordered' = ordered
    BY <1>4 DEF SetUp, SetUpFails, managerVars
  <2>2. CASE p = q
    BY <2>1, <2>2
  <2>3. CASE p # q
    <3>1. life'[p] = life[p]
      BY <1>4, <2>3 DEF SetUp, SetUpFails
    <3>2. \A s \in Services : registry'[s] = p => registry[s] = p
      BY <1>4, <2>3 DEF SetUp, SetUpFails
    <3> QED
      BY <3>1, <3>2 DEF Holds
  <2> QED
    BY <2>2, <2>3
<1>5. \/ UNCHANGED <<life, registry>>
      \/ \E q \in Plugins : TakeDown(q) \/ UndoStart(q) \/ SetUp(q) \/ SetUpFails(q)
  BY DEF Next, Step, Register, CallStart, CallStop, Cancel, UndoSetUp, Stop, SetUpUndone,
     SetUpDone, Start, StartDone, StartFails, StartUndone, StopDone, vars
<1> QED
  BY <1>1, <1>2, <1>3, <1>4, <1>5

LEMMA ReachableStep == TypeInv /\ Listed /\ Reachable /\ [Next]_vars => Reachable'
PROOF
<1> SUFFICES ASSUME TypeInv, Listed, Reachable, [Next]_vars PROVE Reachable'
  OBVIOUS
<1> Where
  BY DEF TypeInv
<1>1. op' \in {"setup", "undoSetup"} => Registered' \subseteq Elements(order')
  <2>1. CASE /\ op \in {"setup", "undoSetup"}
             /\ order' = order /\ Registered' = Registered
    BY <2>1 DEF Reachable
  <2>2. CASE \E s \in ResolvedOrders(ProvidersNow) : Enter("setup", s, 1) /\ CallStart
    <3>1. Registered' = Registered
      BY <2>2 DEF CallStart, Registered
    <3>2. \A s \in ResolvedOrders(ProvidersNow) : Registered \subseteq Elements(s)
      BY ResolvedOrder DEF TypeInv
    <3> QED
      BY <2>2, <3>1, <3>2 DEF Enter
  <2>3. ASSUME op' \in {"setup", "undoSetup"}
        PROVE  \/ /\ op \in {"setup", "undoSetup"}
                  /\ order' = order /\ plugins' = plugins
               \/ \E s \in ResolvedOrders(ProvidersNow) : Enter("setup", s, 1) /\ CallStart
    BY <2>3 DEF Next, Step, Register, CallStart, CallStop, Cancel, SetUp, SetUpFails,
       UndoSetUp, UndoStart, Stop, SetUpUndone, SetUpDone, Start, StartDone, StartFails,
       StartUndone, StopDone, vars, managerVars, callVars, Return, Enter
  <2> QED
    BY <2>1, <2>2, <2>3 DEF Registered
<1>2. ASSUME NEW p \in Plugins, Holds(p)'
      PROVE  p \in Registered'
  <2>1. CASE Holds(p)
    BY <2>1, RegisteredStay DEF Reachable
  <2>2. CASE at \in DOMAIN order /\ p = order[at] /\ op \in {"setup", "undoStart"}
    BY <2>2, RegisteredStay DEF Listed, List
  <2> QED
    BY <1>2, <2>1, <2>2, HoldsStep
<1>3. ASSUME NEW p \in Plugins, Holds(p)', ordered' # <<>>
      PROVE  p \in Elements(ordered')
  <2>1. CASE SetUpDone
    <3>1. op = "setup" /\ ordered' = order
      BY <2>1 DEF SetUpDone
    <3>2. p \in Registered
      BY <1>2, <1>3, <3>1, RegisteredStay
    <3> QED
      BY <3>1, <3>2 DEF Reachable
  <2>2. CASE ordered' = ordered /\ Holds(p)
    BY <1>3, <2>2 DEF Reachable
  <2>3. CASE at \in DOMAIN order /\ p = order[at] /\ op = "undoStart" /\ ordered' = ordered
    BY <2>3 DEF Where, Elements
  <2>4. CASE op = "setup" /\ ordered' = ordered
    BY <1>3, <2>4 DEF Where
  <2>5. SetUpDone \/ ordered' = ordered
    BY <1>3 DEF Next, Step, Register, CallStart, CallStop, Cancel, SetUp, SetUpFails,
       UndoSetUp, UndoStart, Stop, SetUpUndone, Start, StartDone, StartFails,
       StartUndone, StopDone, vars, managerVars
  <2> QED
    BY <1>3, <2>1, <2>2, <2>3, <2>4, <2>5, HoldsStep
<1>4. ASSUME NEW p \in Plugins, Holds(p)', op' = "stop"
      PROVE  \E i \in 1 .. at' : order'[i] = p
  <2>1. Holds(p)
    BY <1>4, HoldsStep
  <2>2. CASE CallStop \/ StartUndone
    <3>1. order' = ordered /\ at' = Len(ordered) /\ ordered # <<>>
      BY <2>2 DEF CallStop, StartUndone, Enter, Where
    <3>2. p \in Elements(ordered)
      BY <2>1, <3>1 DEF Reachable
    <3> QED
      BY <3>1, <3>2, Places DEF Elements, TypeInv
  <2>3. ASSUME NEW q \in Plugins, Stop(q) PROVE \E i \in 1 .. at' : order'[i] = p
    <3>1. /\ op = "stop" /\ at \in DOMAIN order /\ q = order[at]
          /\ at' = at - 1 /\ order' = order /\ TakeDown(q)
      BY <2>3 DEF Stop, Backwards
    <3>2. Holds(p) /\ p # q
      BY <1>4, <3>1, TakenDown
    <3>3. PICK i \in 1 .. at : order[i] = p
      BY <3>1, <3>2 DEF Reachable
    <3>4. at \in Nat /\ i # at
      BY <3>1, <3>2, <3>3, Places DEF TypeInv
    <3> QED
      BY <3>1, <3>3, <3>4
  <2>4. CASE op = "stop" /\ UNCHANGED <<order, at>>
    BY <2>1, <2>4 DEF Reachable
  <2>5. \/ CallStop \/ StartUndone \/ \E q \in Plugins : Stop(q)
        \/ op = "stop" /\ UNCHANGED <<order, at>>
    BY <1>4 DEF Next, Step, Register, CallStart, Cancel, SetUp, SetUpFails,
       UndoSetUp, UndoStart, SetUpUndone, SetUpDone, Start, StartDone, StartFails,
       StopDone, vars, callVars, managerVars, Return, Enter
  <2> QED
    BY <2>2, <2>3, <2>4, <2>5
<1> QED
  BY <1>1, <1>2, <1>3, <1>4 DEF Reachable

-----------------------------------------------------------------------------
(* A plugin that owns a service is not beyond the loop's reach.             *)
LEMMA OwnerReached ==
    ASSUME TypeInv, Beyond, NEW s \in Services, registry[s] # NoPlugin
    PROVE  \E j \in 1 .. Reach : List[j] = registry[s]
PROOF
<1>1. registry[s] \in Plugins
  BY DEF TypeInv, TypeOK
<1>2. ~Clean(registry[s])
  BY DEF Clean
<1> QED
  BY <1>1, <1>2 DEF Beyond

(* What SetUp does to the plugin at the loop's place, which was clean.       *)
LEMMA SetUpSteps ==
    ASSUME TypeInv, Listed, Beyond, Subscribed, NEW p \in Plugins, SetUp(p)
    PROVE  /\ op = "setup" /\ op' = "setup" /\ UNCHANGED <<order, plugins, providers>>
           /\ List = order /\ List' = order
           /\ at \in 1 .. Len(order) /\ Len(order) \in Nat
           /\ Reach = at - 1 /\ Reach' = at
           /\ p = order[at] /\ \A i \in 1 .. at - 1 : order[i] # p
           /\ Clean(p) /\ bound[p] = {}
           /\ \A s \in Provides[p] : s \in Services /\ registry[s] = NoPlugin
           /\ \A s \in Services :
                 registry'[s] = IF s \in Provides[p] THEN p ELSE registry[s]
           /\ life' = [life EXCEPT ![p] = "up"]
           /\ bound' = [bound EXCEPT ![p] = {s \in Requires[p] \cup TryGets[p] :
                                                registry[s] # NoPlugin}]
           /\ \A q \in Plugins : q # p =>
                 /\ handlers'[q] = handlers[q]
                 /\ q \in cleanups' <=> q \in cleanups
           /\ handlers'[p] = IF p \in Subscribers THEN 1 ELSE 0
           /\ p \in cleanups' <=> p \in Subscribers
PROOF
<1>1. /\ op = "setup" /\ op' = "setup" /\ UNCHANGED <<order, plugins, providers>>
      /\ at \in DOMAIN order /\ p = order[at] /\ at' = at + 1
  BY DEF SetUp, managerVars
<1>2. at \in 1 .. Len(order) /\ Len(order) \in Nat /\ at \in Nat
  BY <1>1, Places DEF TypeInv
<1>3. List = order /\ List' = order
  BY <1>1 DEF List
<1>4. Reach = at - 1 /\ Reach' = at
  BY <1>1, <1>2 DEF Reach
<1>5. \A i \in 1 .. at - 1 : order[i] # p
  BY <1>1, <1>2, <1>3, Places DEF Listed, TypeInv
<1>6. Clean(p) /\ bound[p] = {}
  BY <1>3, <1>4, <1>5 DEF Beyond
<1>7. \A s \in Provides[p] : s \in Services /\ registry[s] = NoPlugin
  BY MetadataAssumption DEF SetUp, CannotSetUp, Metadata
<1>8. /\ \A s \in Services :
            registry'[s] = IF s \in Provides[p] THEN p ELSE registry[s]
      /\ life' = [life EXCEPT ![p] = "up"]
      /\ bound' = [bound EXCEPT ![p] = {s \in Requires[p] \cup TryGets[p] :
                                           registry[s] # NoPlugin}]
  BY DEF SetUp
<1>9. /\ handlers \in [Plugins -> Nat] /\ handlers[p] = 0
      /\ Subscribe(p, p \in Subscribers)
  BY <1>6 DEF SetUp, Clean, TypeInv, TypeOK
<1>10. /\ \A q \in Plugins : q # p =>
             /\ handlers'[q] = handlers[q]
             /\ q \in cleanups' <=> q \in cleanups
       /\ handlers'[p] = IF p \in Subscribers THEN 1 ELSE 0
       /\ p \in cleanups' <=> p \in Subscribers
  <2>1. CASE p \in Subscribers
    BY <1>9, <2>1 DEF Subscribe
  <2>2. CASE p \notin Subscribers
    BY <1>9, <2>2 DEF Subscribe
  <2> QED
    BY <2>1, <2>2
<1> QED
  BY <1>1, <1>2, <1>3, <1>4, <1>5, <1>6, <1>7, <1>8, <1>10

(* A setup that returns.                                                    *)
LEMMA QuietSetUp ==
    ASSUME TypeInv, Listed, Quiet, NEW p \in Plugins, SetUp(p)
    PROVE  Quiet'
PROOF
<1> Beyond /\ BoundBefore /\ Subscribed /\ Owned /\ Whole /\ Planned /\ OptionalsFound
  BY DEF Quiet
<1> /\ op = "setup" /\ op' = "setup" /\ UNCHANGED <<order, plugins, providers>>
    /\ List = order /\ List' = order
    /\ at \in 1 .. Len(order) /\ Len(order) \in Nat
    /\ Reach = at - 1 /\ Reach' = at
    /\ p = order[at] /\ \A i \in 1 .. at - 1 : order[i] # p
  BY SetUpSteps
<1> DOMAIN order = 1 .. Len(order) /\ \A i \in 1 .. Len(order) : order[i] \in Plugins
  BY Places DEF TypeInv, TypeOK
<1>1. \A s \in Services : registry[s] # NoPlugin => registry'[s] = registry[s]
  BY SetUpSteps
<1>2. \A q \in Plugins : q # p =>
         /\ life'[q] = life[q] /\ bound'[q] = bound[q] /\ handlers'[q] = handlers[q]
         /\ q \in cleanups' <=> q \in cleanups
         /\ \A s \in Services : registry'[s] = q <=> registry[s] = q
  <2>1. ASSUME NEW q \in Plugins, q # p, NEW s \in Services
        PROVE  registry'[s] = q <=> registry[s] = q
    BY <2>1, SetUpSteps, NoPluginAssumption
  <2>2. ASSUME NEW q \in Plugins, q # p
        PROVE  /\ life'[q] = life[q] /\ bound'[q] = bound[q] /\ handlers'[q] = handlers[q]
               /\ q \in cleanups' <=> q \in cleanups
    <3>1. life \in [Plugins -> {"down", "up", "stopped"}] /\ bound \in [Plugins -> SUBSET Services]
      BY DEF TypeInv, TypeOK
    <3> QED
      BY <2>2, <3>1, SetUpSteps
  <2> QED
    BY <2>1, <2>2
<1>3. /\ life'[p] = "up"
      /\ bound'[p] = {s \in Requires[p] \cup TryGets[p] : registry[s] # NoPlugin}
      /\ handlers'[p] = IF p \in Subscribers THEN 1 ELSE 0
      /\ p \in cleanups' <=> p \in Subscribers
      /\ \A s \in Provides[p] : s \in Services /\ registry'[s] = p
  <2>1. life \in [Plugins -> {"down", "up", "stopped"}] /\ bound \in [Plugins -> SUBSET Services]
    BY DEF TypeInv, TypeOK
  <2> QED
    BY <2>1, SetUpSteps
<1>4. Beyond'
  BY <1>2 DEF Beyond, Clean
<1>5. \A s \in bound'[p] : s \in Services /\ \E j \in 1 .. at - 1 : registry[s] = order[j]
  <2>1. Requires[p] \subseteq Services /\ TryGets[p] \subseteq Services
    BY MetadataAssumption DEF Metadata
  <2> QED
    BY <1>3, <2>1, OwnerReached
<1>6. BoundBefore'
  <2>1. ASSUME NEW i \in 1 .. at, NEW s \in bound'[order[i]]
        PROVE  \E j \in 1 .. i - 1 : registry'[s] = order[j]
    <3>1. s \in Services /\ \E j \in 1 .. i - 1 : registry[s] = order[j]
      <4>1. CASE i = at
        BY <1>5, <2>1, <4>1
      <4>2. CASE i # at
        <5>1. i \in 1 .. at - 1 /\ order[i] # p /\ order[i] \in Plugins
          BY <2>1, <4>2
        <5>2. s \in bound[order[i]]
          BY <1>2, <2>1, <5>1
        <5>3. s \in Services
          BY <5>1, <5>2 DEF TypeInv, TypeOK
        <5> QED
          BY <5>1, <5>2, <5>3 DEF BoundBefore
      <4> QED
        BY <4>1, <4>2
    <3>2. PICK j \in 1 .. i - 1 : registry[s] = order[j]
      BY <3>1
    <3>3. order[j] \in Plugins
      BY <2>1, <3>2
    <3> QED
      BY <1>1, <3>1, <3>2, <3>3, NoPluginAssumption
  <2> QED
    BY <2>1 DEF BoundBefore
<1>7. Subscribed'
  BY <1>2, <1>3 DEF Subscribed
<1>8. Owned'
  BY SetUpSteps DEF Owned
<1>9. Whole'
  <2>1. ASSUME NEW i \in 1 .. at PROVE IsWhole(order[i])'
    <3>1. CASE i = at
      BY <1>3, <3>1 DEF IsWhole
    <3>2. CASE i # at
      <4>1. i \in 1 .. at - 1 /\ order[i] # p /\ order[i] \in Plugins
        BY <2>1, <3>2
      <4>2. IsWhole(order[i])
        BY <4>1 DEF Whole
      <4>3. Provides[order[i]] \subseteq Services
        BY <4>1, MetadataAssumption DEF Metadata
      <4> QED
        BY <1>2, <4>1, <4>2, <4>3 DEF IsWhole
    <3> QED
      BY <3>1, <3>2
  <2> QED
    BY <2>1 DEF Whole
<1>10. ProvidersNow' = ProvidersNow /\ Registered' = Registered
  BY DEF ProvidersNow, Registered
<1>11. Planned'
  <2>1. /\ DependencyGraph(providers)' = DependencyGraph(providers)
        /\ OrderingGraph(providers)' = OrderingGraph(providers)
    BY <1>10 DEF DependencyGraph, OptionalGraph, OrderingGraph, DependsOn
  <2> QED
    BY <1>10, <2>1 DEF Planned
<1>12. OptionalsFound'
  <2>1. OrderingGraph(ProvidersNow)' = OrderingGraph(ProvidersNow)
    BY <1>10 DEF OrderingGraph, DependencyGraph, OptionalGraph, DependsOn
  <2>2. SUFFICES ASSUME NoSelfService, Registered \subseteq Elements(order),
                        Orders(OrderingGraph(ProvidersNow)) # {},
                        NEW i \in 1 .. at, NEW s \in Optional[order[i]] \cap TryGets[order[i]],
                        ProvidersNow[s] # NoPlugin
                 PROVE  s \in bound'[order[i]]
    BY <1>10, <2>1 DEF OptionalsFound
  <2>3. CASE i # at
    <3>1. i \in 1 .. at - 1 /\ order[i] # p /\ order[i] \in Plugins
      BY <2>2, <2>3
    <3>2. s \in bound[order[i]]
      BY <2>2, <3>1 DEF OptionalsFound
    <3> QED
      BY <1>2, <3>1, <3>2
  <2>4. CASE i = at
    <3> DEFINE q == ProvidersNow[s]
    <3>1. s \in Services /\ p \in Registered
      <4>1. Optional[p] \subseteq Services
        BY MetadataAssumption DEF Metadata
      <4> QED
        BY <2>2, <2>4, <4>1 DEF Listed
    <3>2. s \in Provides[q]
      BY <2>2, <3>1, ProvidersFound DEF TypeInv
    <3>3. q # p
      BY <2>2, <2>4, <3>2 DEF NoSelfService
    <3>4. q \in OrderingGraph(ProvidersNow)[p]
      BY <2>2, <2>4, <3>1, <3>3 DEF OrderingGraph, OptionalGraph, DependsOn
    <3>5. OrderingGraph(ProvidersNow)[p] \subseteq {order[j] : j \in 1 .. at - 1}
      BY <2>2 DEF Planned
    <3>6. PICK j \in 1 .. at - 1 : q = order[j]
      BY <3>4, <3>5
    <3>7. registry[s] = q
      BY <3>2, <3>6 DEF Whole, IsWhole
    <3> QED
      BY <1>3, <2>2, <2>4, <3>7
  <2> QED
    BY <2>3, <2>4
<1> QED
  BY <1>4, <1>6, <1>7, <1>8, <1>9, <1>11, <1>12 DEF Quiet

(* A setup that raises: the failing plugin may own services and a handler,  *)
(* and is the first that the rollback takes down.                           *)
LEMMA QuietSetUpFails ==
    ASSUME TypeInv, Listed, Quiet, NEW p \in Plugins, SetUpFails(p)
    PROVE  Quiet'
PROOF
<1> Beyond /\ BoundBefore /\ Subscribed /\ Owned /\ Whole
  BY DEF Quiet
<1>1. /\ op = "setup" /\ op' = "undoSetup" /\ at' = at /\ UNCHANGED <<order, bound>>
      /\ at \in DOMAIN order /\ p = order[at]
  BY DEF SetUpFails, LastInitialized, managerVars
<1> /\ at \in 1 .. Len(order) /\ Len(order) \in Nat /\ at \in Nat
    /\ DOMAIN order = 1 .. Len(order) /\ \A i \in 1 .. Len(order) : order[i] \in Plugins
  BY <1>1, Places DEF TypeInv, TypeOK
<1>2. List = order /\ List' = order /\ Reach = at - 1 /\ Reach' = at
  BY <1>1 DEF List, Reach
<1>3. \A i \in 1 .. at - 1 : order[i] # p
  BY <1>1, <1>2 DEF Listed
<1>4. Clean(p) /\ bound[p] = {}
  BY <1>2, <1>3 DEF Beyond
<1>5. PICK done \in SUBSET {s \in Provides[p] : registry[s] = NoPlugin} :
          registry' = [s \in Services |-> IF s \in done THEN p ELSE registry[s]]
  BY DEF SetUpFails
<1>6. \A s \in Services : registry[s] # NoPlugin => registry'[s] = registry[s]
  BY <1>5
<1>7. /\ handlers \in [Plugins -> Nat] /\ handlers[p] = 0
      /\ life \in [Plugins -> {"down", "up", "stopped"}]
  BY <1>4 DEF Clean, TypeInv, TypeOK
<1>8. \A q \in Plugins : q # p =>
         /\ life'[q] = life[q] /\ handlers'[q] = handlers[q]
         /\ q \in cleanups' <=> q \in cleanups
         /\ \A s \in Services : registry'[s] = q <=> registry[s] = q
  <2>1. Subscribe(p, TRUE) \/ Subscribe(p, FALSE)
    BY Subscribes
  <2>2. life' = [life EXCEPT ![p] = "up"]
    BY DEF SetUpFails
  <2> QED
    BY <1>5, <1>7, <2>1, <2>2, NoPluginAssumption DEF Subscribe
<1>9. handlers'[p] = IF p \in cleanups' THEN 1 ELSE 0
  <2>1. CASE Subscribe(p, TRUE)
    BY <1>7, <2>1 DEF Subscribe
  <2>2. CASE Subscribe(p, FALSE)
    BY <1>7, <2>2 DEF Subscribe
  <2> QED
    BY <2>1, <2>2, Subscribes
<1>10. Beyond'
  BY <1>1, <1>2, <1>8 DEF Beyond, Clean
<1>11. BoundBefore'
  <2>1. ASSUME NEW i \in 1 .. at, NEW s \in bound[order[i]]
        PROVE  \E j \in 1 .. i - 1 : registry'[s] = order[j]
    <3>1. i \in 1 .. at - 1 /\ order[i] \in Plugins
      BY <1>1, <1>4, <2>1
    <3>2. s \in Services
      BY <2>1, <3>1 DEF TypeInv, TypeOK
    <3>3. PICK j \in 1 .. i - 1 : registry[s] = order[j]
      BY <1>2, <2>1, <3>1 DEF BoundBefore
    <3>4. order[j] \in Plugins
      BY <3>1, <3>3
    <3> QED
      BY <1>6, <3>2, <3>3, <3>4, NoPluginAssumption
  <2> QED
    BY <1>1, <1>2, <2>1 DEF BoundBefore
<1>12. Subscribed'
  BY <1>8, <1>9 DEF Subscribed
<1>13. Owned'
  BY <1>5 DEF Owned
<1>14. Whole' /\ Planned' /\ OptionalsFound'
  BY <1>1 DEF Whole, Planned, OptionalsFound
<1> QED
  BY <1>10, <1>11, <1>12, <1>13, <1>14 DEF Quiet

(* What the rollback of a setup and stop_all do to the plugin they are at.   *)
LEMMA TakeDownSteps ==
    ASSUME TypeInv, Listed, NEW p \in Plugins, UndoSetUp(p) \/ Stop(p)
    PROVE  /\ op \in {"undoSetup", "stop"} /\ op' = op /\ order' = order
           /\ List = order /\ List' = order
           /\ at \in 1 .. Len(order) /\ Len(order) \in Nat
           /\ Reach = at /\ Reach' = at - 1
           /\ p = order[at] /\ \A i \in 1 .. at - 1 : order[i] # p
           /\ TakeDown(p)
PROOF
<1>1. /\ op \in {"undoSetup", "stop"} /\ op' = op /\ order' = order
      /\ at \in DOMAIN order /\ p = order[at] /\ at' = at - 1
      /\ TakeDown(p)
  BY DEF UndoSetUp, Stop, Backwards
<1>2. at \in 1 .. Len(order) /\ Len(order) \in Nat /\ at \in Nat
  BY <1>1, Places DEF TypeInv
<1>3. List = order /\ List' = order
  BY <1>1 DEF List
<1>4. Reach = at /\ Reach' = at - 1
  BY <1>1, <1>2 DEF Reach
<1>5. \A i \in 1 .. at - 1 : order[i] # p
  BY <1>1, <1>2, <1>3, Places DEF Listed, TypeInv
<1> QED
  BY <1>1, <1>2, <1>3, <1>4, <1>5

(* A plugin is taken down: those before it hold nothing of its own.          *)
LEMMA QuietTakeDown ==
    ASSUME TypeInv, Listed, Quiet, NEW p \in Plugins, UndoSetUp(p) \/ Stop(p)
    PROVE  Quiet'
PROOF
<1> Beyond /\ BoundBefore /\ Subscribed /\ Owned
  BY DEF Quiet
<1> /\ op \in {"undoSetup", "stop"} /\ op' = op /\ order' = order
    /\ List = order /\ List' = order
    /\ at \in 1 .. Len(order) /\ Len(order) \in Nat
    /\ Reach = at /\ Reach' = at - 1
    /\ p = order[at] /\ \A i \in 1 .. at - 1 : order[i] # p
  BY TakeDownSteps
<1> DOMAIN order = 1 .. Len(order) /\ \A i \in 1 .. Len(order) : order[i] \in Plugins
  BY Places DEF TypeInv, TypeOK
<1>1. TakeDown(p)
  BY TakeDownSteps
<1>2. /\ handlers \in [Plugins -> Nat]
      /\ life \in [Plugins -> {"down", "up", "stopped"}]
      /\ bound \in [Plugins -> SUBSET Services]
  BY DEF TypeInv, TypeOK
<1>3. \A q \in Plugins : q # p =>
         /\ life'[q] = life[q] /\ bound'[q] = bound[q] /\ handlers'[q] = handlers[q]
         /\ q \in cleanups' <=> q \in cleanups
         /\ \A s \in Services : registry'[s] = q <=> registry[s] = q
  BY <1>1, <1>2, NoPluginAssumption DEF TakeDown, ClearOwner, Unsubscribe
<1>4. Clean(p)' /\ bound'[p] = {}
  <2>1. handlers[p] = IF p \in cleanups THEN 1 ELSE 0
    BY DEF Subscribed
  <2> QED
    BY <1>1, <1>2, <2>1, NoPluginAssumption DEF TakeDown, ClearOwner, Unsubscribe, Clean
<1>5. Beyond'
  <2>1. ASSUME NEW q \in Plugins, \A i \in 1 .. at - 1 : order[i] # q
        PROVE  Clean(q)' /\ bound'[q] = {}
    <3>1. CASE q = p
      BY <1>4, <3>1
    <3>2. CASE q # p
      <4>1. Clean(q) /\ bound[q] = {}
        BY <2>1, <3>2 DEF Beyond
      <4> QED
        BY <1>3, <3>2, <4>1 DEF Clean
    <3> QED
      BY <3>1, <3>2
  <2> QED
    BY <2>1 DEF Beyond
<1>6. BoundBefore'
  <2>1. ASSUME NEW i \in 1 .. at - 1, NEW s \in bound'[order[i]]
        PROVE  \E j \in 1 .. i - 1 : registry'[s] = order[j]
    <3>1. order[i] # p /\ order[i] \in Plugins
      BY <2>1
    <3>2. s \in bound[order[i]] /\ s \in Services
      BY <1>2, <1>3, <2>1, <3>1
    <3>3. PICK j \in 1 .. i - 1 : registry[s] = order[j]
      BY <2>1, <3>2 DEF BoundBefore
    <3>4. order[j] \in Plugins /\ order[j] # p
      BY <2>1, <3>3
    <3> QED
      BY <1>3, <3>2, <3>3, <3>4
  <2> QED
    BY <2>1 DEF BoundBefore
<1>7. Subscribed'
  BY <1>3, <1>4 DEF Subscribed, Clean
<1>8. Owned'
  BY <1>1 DEF Owned, TakeDown, ClearOwner
<1>9. Whole' /\ Planned' /\ OptionalsFound'
  BY DEF Whole, Planned, OptionalsFound
<1> QED
  BY <1>5, <1>6, <1>7, <1>8, <1>9 DEF Quiet

-----------------------------------------------------------------------------
(* The steps that call no hook of a plugin, or its start.                   *)
Passing ==
    \/ \E p \in Plugins : Register(p)
    \/ CallStart \/ CallStop \/ SetUpUndone \/ SetUpDone \/ Start \/ StartDone
    \/ StartFails \/ StartUndone \/ StopDone \/ UNCHANGED vars

(* They leave who is up as it is, whatever loop they leave or enter.        *)
LEMMA PassingSteps ==
    ASSUME TypeInv, Passing
    PROVE  /\ UNCHANGED <<registry, cleanups, handlers, life, bound>>
           /\ \/ List' = List /\ Reach' = Reach
              \/ Reach = 0 /\ Reach' = 0
           /\ op' \in {"idle", "setup", "start"} /\ Reach' # 0
                 => op \in {"idle", "setup", "start"}
PROOF
<1> DEFINE Goal == /\ \/ List' = List /\ Reach' = Reach
                      \/ Reach = 0 /\ Reach' = 0
                   /\ op' \in {"idle", "setup", "start"} /\ Reach' # 0
                         => op \in {"idle", "setup", "start"}
<1> Where
  BY DEF TypeInv
<1> /\ at \in Nat /\ Len(order) \in Nat /\ Len(ordered) \in Nat
  BY Places DEF TypeInv
<1>1. UNCHANGED <<registry, cleanups, handlers, life, bound>>
  BY DEF Passing, Register, CallStart, CallStop, SetUpUndone, SetUpDone, Start, StartDone,
     StartFails, StartUndone, StopDone, vars
<1>2. ASSUME NEW p \in Plugins, Register(p) PROVE Goal
  BY <1>2 DEF Register, callVars, List, Reach
<1>3. ASSUME CallStart PROVE Goal
  <2>1. op = "idle" /\ ordered' = ordered
    BY <1>3 DEF CallStart
  <2>2. CASE UNCHANGED callVars
    BY <2>1, <2>2 DEF callVars, List, Reach
  <2>3. ASSUME NEW s, ordered = <<>>, Enter("setup", s, 1) PROVE Goal
    BY <2>1, <2>3 DEF Enter, List, Reach
  <2>4. CASE Enter("start", ordered, 1)
    BY <2>1, <2>4 DEF Enter, List, Reach
  <2> QED
    BY <1>3, <2>2, <2>3, <2>4 DEF CallStart
<1>4. ASSUME CallStop PROVE Goal
  BY <1>4 DEF CallStop, Enter, List, Reach
<1>5. ASSUME SetUpUndone \/ StopDone PROVE Goal
  BY <1>5 DEF SetUpUndone, StopDone, Return, List, Reach
<1>6. ASSUME SetUpDone PROVE Goal
  BY <1>6 DEF SetUpDone, Enter, List, Reach
<1>7. ASSUME Start PROVE Goal
  BY <1>7 DEF Start, managerVars, List, Reach
<1>8. ASSUME StartFails PROVE Goal
  BY <1>8 DEF StartFails, managerVars, List, Reach
<1>9. ASSUME StartDone PROVE Goal
  BY <1>9 DEF StartDone, Return, List, Reach, Where
<1>10. ASSUME StartUndone PROVE Goal
  BY <1>10 DEF StartUndone, Enter, managerVars, List, Reach
<1>11. ASSUME UNCHANGED vars PROVE Goal
  BY <1>11 DEF vars, callVars, List, Reach
<1>12. Goal
  BY <1>2, <1>3, <1>4, <1>5, <1>6, <1>7, <1>8, <1>9, <1>10, <1>11 DEF Passing
<1> QED
  BY <1>1, <1>12

LEMMA QuietPassing ==
    ASSUME TypeInv, Listed, Quiet, Passing
    PROVE  Quiet'
PROOF
<1> Beyond /\ BoundBefore /\ Subscribed /\ Owned /\ Whole /\ Planned /\ OptionalsFound
  BY DEF Quiet
<1> UNCHANGED <<registry, cleanups, handlers, life, bound>>
  BY PassingSteps
<1> (List' = List /\ Reach' = Reach) \/ (Reach = 0 /\ Reach' = 0)
  BY PassingSteps
<1>1. Beyond' /\ BoundBefore' /\ Subscribed' /\ Owned'
  BY DEF Beyond, BoundBefore, Subscribed, Owned, Clean
<1>2. Whole'
  BY PassingSteps DEF Whole, IsWhole
<1>3. Planned'
  <2>1. ASSUME NEW s \in ResolvedOrders(ProvidersNow), CallStart,
               providers' = ProvidersNow, Enter("setup", s, 1)
        PROVE  Planned'
    <3>1. ProvidersNow' = ProvidersNow /\ Registered' = Registered
      BY <2>1 DEF CallStart, ProvidersNow, Registered
    <3>2. /\ DependencyGraph(providers)' = DependencyGraph(ProvidersNow)
          /\ OrderingGraph(providers)' = OrderingGraph(ProvidersNow)
      BY <2>1, <3>1 DEF DependencyGraph, OptionalGraph, OrderingGraph, DependsOn
    <3>3. order' = s /\ providers' = ProvidersNow
      BY <2>1 DEF Enter
    <3> QED
      BY <3>1, <3>2, <3>3, ResolvedOrder DEF Planned, TypeInv
  <2>2. ASSUME op' = "setup"
        PROVE  \/ UNCHANGED vars
               \/ /\ CallStart /\ providers' = ProvidersNow
                  /\ \E s \in ResolvedOrders(ProvidersNow) : Enter("setup", s, 1)
    BY <2>2 DEF Passing, Register, CallStart, CallStop, SetUpUndone, SetUpDone, Start,
       StartDone, StartFails, StartUndone, StopDone, vars, callVars, managerVars, Return, Enter
  <2>3. CASE UNCHANGED vars
    <3>1. ProvidersNow' = ProvidersNow /\ Registered' = Registered
      BY <2>3 DEF vars, ProvidersNow, Registered
    <3>2. /\ DependencyGraph(providers)' = DependencyGraph(providers)
          /\ OrderingGraph(providers)' = OrderingGraph(providers)
      BY <2>3, <3>1 DEF vars, DependencyGraph, OptionalGraph, OrderingGraph, DependsOn
    <3> QED
      BY <2>3, <3>1, <3>2 DEF Planned, vars, callVars
  <2> QED
    BY <2>1, <2>2, <2>3 DEF Planned
<1>4. OptionalsFound'
  <2>1. CASE UNCHANGED plugins
    <3>1. ProvidersNow' = ProvidersNow /\ Registered' = Registered
      BY <2>1 DEF ProvidersNow, Registered
    <3>2. OrderingGraph(ProvidersNow)' = OrderingGraph(ProvidersNow)
      BY <3>1 DEF OrderingGraph, DependencyGraph, OptionalGraph, DependsOn
    <3> QED
      BY <3>1, <3>2, PassingSteps DEF OptionalsFound
  <2>2. ASSUME NEW p \in Plugins, Register(p) PROVE OptionalsFound'
    <3>1. List' = List /\ p \notin Registered
      BY <2>2 DEF Register, callVars, List
    <3>2. p \in Registered'
      <4>1. plugins \in Seq(Plugins) /\ plugins' = Append(plugins, p)
        BY <2>2 DEF Register, TypeInv, TypeOK
      <4>2. Len(plugins) + 1 \in DOMAIN plugins' /\ plugins'[Len(plugins) + 1] = p
        BY <4>1
      <4> QED
        BY <4>2 DEF Registered, Elements
    <3>3. p \notin Elements(List)'
      BY <3>1 DEF Listed, Elements
    <3> QED
      BY <3>2, <3>3 DEF OptionalsFound
  <2>3. UNCHANGED plugins \/ \E p \in Plugins : Register(p)
    BY DEF Passing, CallStart, CallStop, SetUpUndone, SetUpDone, Start,
       StartDone, StartFails, StartUndone, StopDone, vars, managerVars
  <2> QED
    BY <2>1, <2>2, <2>3
<1> QED
  BY <1>1, <1>2, <1>3, <1>4 DEF Quiet

(* A plugin that is stopped stays in the loop's reach until it is taken down. *)
LEMMA QuietUndoStart ==
    ASSUME TypeInv, Listed, Quiet, NEW p \in Plugins, UndoStart(p)
    PROVE  Quiet'
PROOF
<1> Beyond /\ BoundBefore /\ Subscribed /\ Owned
  BY DEF Quiet
<1>1. /\ op = "undoStart" /\ UNCHANGED <<op, order, registry, cleanups, handlers, bound>>
      /\ at \in DOMAIN order /\ p = order[at]
      /\ life' = [life EXCEPT ![p] = "stopped"]
  BY DEF UndoStart
<1>2. List = order /\ List' = order /\ Reach = Len(order) /\ Reach' = Len(order)
  BY <1>1 DEF List, Reach
<1>3. at \in 1 .. Len(order)
  BY <1>1, Places DEF TypeInv
<1>4. \A q \in Plugins : q # p => life'[q] = life[q]
  BY <1>1 DEF TypeInv, TypeOK
<1>5. Beyond'
  BY <1>1, <1>2, <1>3, <1>4 DEF Beyond, Clean
<1>6. BoundBefore' /\ Subscribed' /\ Owned'
  BY <1>1, <1>2 DEF BoundBefore, Subscribed, Owned
<1>7. Whole' /\ Planned' /\ OptionalsFound'
  BY <1>1 DEF Whole, Planned, OptionalsFound
<1> QED
  BY <1>5, <1>6, <1>7 DEF Quiet

-----------------------------------------------------------------------------
LEMMA InvInit == Init => IInv
PROOF
<1> SUFFICES ASSUME Init PROVE IInv
  OBVIOUS
<1>1. TypeInv
  BY TypeInit
<1>2. List = <<>> /\ Reach = 0
  BY DEF Init, List, Reach
<1>3. Listed
  BY <1>2 DEF Listed
<1>4. \A p \in Plugins : ~Holds(p) /\ Clean(p) /\ bound[p] = {}
  BY NoPluginAssumption DEF Init, Holds, Clean
<1>5. Reachable
  BY <1>4 DEF Init, Reachable
<1>6. Quiet
  BY <1>2, <1>4 DEF Init, Quiet, Beyond, BoundBefore, Subscribed, Owned, Whole, Planned,
     OptionalsFound
<1> QED
  BY <1>1, <1>3, <1>5, <1>6 DEF IInv

LEMMA InvStep == IInv /\ [Next]_vars => IInv'
PROOF
<1> SUFFICES ASSUME IInv, [Next]_vars PROVE IInv'
  OBVIOUS
<1> TypeInv /\ Listed /\ Reachable
  BY DEF IInv
<1>1. TypeInv' /\ Listed' /\ Reachable'
  BY TypeStep, ListedStep, ReachableStep
<1>2. ASSUME Undisturbed' PROVE Quiet'
  <2>1. cancels \in Nat /\ cancels' = 0
    BY <1>2 DEF Undisturbed, TypeInv, TypeOK
  <2>2. ~Cancel
    BY <2>1 DEF Cancel
  <2>3. cancels' = cancels
    BY <2>2 DEF Next, Step, Register, CallStart, CallStop, SetUp, SetUpFails, UndoSetUp,
       UndoStart, Stop, SetUpUndone, SetUpDone, Start, StartDone, StartFails, StartUndone,
       StopDone, vars
  <2>4. Quiet
    BY <2>1, <2>3 DEF IInv, Undisturbed
  <2>5. \/ Passing
        \/ \E p \in Plugins : \/ SetUp(p) \/ SetUpFails(p)
                              \/ UndoSetUp(p) \/ Stop(p) \/ UndoStart(p)
    BY <2>2 DEF Next, Step, Passing
  <2> QED
    BY <2>4, <2>5, QuietPassing, QuietSetUp, QuietSetUpFails, QuietTakeDown, QuietUndoStart
<1> QED
  BY <1>1, <1>2 DEF IInv

LEMMA InvAlways == Spec => []IInv
BY InvInit, InvStep, PTL DEF Spec

-----------------------------------------------------------------------------
(* In a setup that nothing has cancelled the next plugin finds what it      *)
(* requires, and the names it provides are free.                            *)
LEMMA NeverBlocked ==
    ASSUME IInv, NoSelfService
    PROVE  SetUpNeverBlocked
PROOF
<1> SUFFICES ASSUME Undisturbed, NoRivals, op = "setup", at \in DOMAIN order
             PROVE  ~CannotSetUp(order[at])
  BY DEF SetUpNeverBlocked
<1> DEFINE p == order[at]
<1>1. TypeInv /\ Listed /\ Beyond /\ Owned /\ Whole /\ Planned
  BY DEF IInv, Quiet
<1>2. /\ List = order /\ Reach = at - 1
      /\ at \in 1 .. Len(order) /\ Len(order) \in Nat /\ at \in Nat
  BY <1>1, Places DEF List, Reach, TypeInv
<1>3. p \in Registered /\ p \in Plugins
  BY <1>1, <1>2, Places DEF Listed, TypeInv
<1>4. Requires[p] \subseteq Services /\ Provides[p] \subseteq Services
  BY <1>3, MetadataAssumption DEF Metadata
<1>5. ASSUME NEW s \in Requires[p] PROVE registry[s] # NoPlugin
  <2> DEFINE q == ProvidersNow[s]
  <2>1. s \in Services /\ q # NoPlugin
    BY <1>1, <1>4, <1>5 DEF Planned
  <2>2. q \in Registered /\ s \in Provides[q]
    BY <1>1, <2>1, ProvidersFound DEF TypeInv
  <2>3. q # p
    BY <1>3, <1>5, <2>2 DEF NoSelfService
  <2>4. q \in DependencyGraph(ProvidersNow)[p]
    BY <1>3, <1>5, <2>1, <2>3 DEF DependencyGraph, DependsOn
  <2>5. DependencyGraph(ProvidersNow)[p] \subseteq {order[j] : j \in 1 .. at - 1}
    BY <1>1 DEF Planned
  <2>6. PICK j \in 1 .. at - 1 : q = order[j]
    BY <2>4, <2>5
  <2> QED
    BY <1>1, <1>2, <2>1, <2>2, <2>6 DEF Whole, IsWhole
<1>6. ASSUME NEW s \in Provides[p], registry[s] # NoPlugin PROVE FALSE
  <2>1. s \in Services
    BY <1>4, <1>6
  <2>2. PICK j \in 1 .. at - 1 : order[j] = registry[s]
    BY <1>1, <1>2, <1>6, <2>1, OwnerReached
  <2>3. order[j] \in Registered /\ order[j] # p
    BY <1>1, <1>2, <2>2, Places DEF Listed, TypeInv
  <2>4. s \in Provides[order[j]]
    BY <1>1, <1>6, <2>1, <2>2 DEF Owned
  <2> QED
    BY <1>3, <1>6, <2>3, <2>4 DEF NoRivals
<1> QED
  BY <1>5, <1>6 DEF CannotSetUp

(* Whatever hooks fail, a runtime at rest is clean, no plugin that is up    *)
(* holds a service that was taken down, and the registry is in the way of   *)
(* no later setup: setup_all with its rollback, start_all and stop_all.     *)
THEOREM NothingIsLeft == ASSUME NoSelfService PROVE Spec => []NothingLeftBehind
PROOF
<1>1. IInv => RestIsClean
  <2> SUFFICES ASSUME IInv, Undisturbed, op = "idle", ordered = <<>>, NEW p \in Plugins
               PROVE  Clean(p)
    BY DEF RestIsClean
  <2>1. Beyond /\ Reach = 0
    BY DEF IInv, Quiet, Reach, List
  <2> QED
    BY <2>1 DEF Beyond
<1>2. IInv => NoStaleBinding
  <2> SUFFICES ASSUME IInv, NEW p \in Plugins, Undisturbed, life[p] = "up",
                      NEW s \in bound[p]
               PROVE  registry[s] # NoPlugin
    BY DEF NoStaleBinding
  <2>1. TypeInv /\ Listed /\ Beyond /\ BoundBefore
    BY DEF IInv, Quiet
  <2>2. PICK i \in 1 .. Reach : List[i] = p
    BY <2>1 DEF Beyond, Clean
  <2>3. PICK j \in 1 .. i - 1 : registry[s] = List[j]
    BY <2>1, <2>2 DEF BoundBefore
  <2>4. Reach <= Len(List) /\ Reach \in Int /\ Len(List) \in Nat /\ DOMAIN List = 1 .. Len(List)
    BY <2>1, Places DEF TypeInv, Where, Reach, List, TypeOK, Ops
  <2>5. j \in DOMAIN List
    BY <2>2, <2>3, <2>4
  <2>6. List[j] \in Plugins
    BY <2>1, <2>5, Places DEF Listed, TypeInv
  <2> QED
    BY <2>3, <2>6, NoPluginAssumption
<1>3. IInv => SetUpNeverBlocked
  BY NeverBlocked
<1> QED
  BY <1>1, <1>2, <1>3, InvAlways, PTL DEF NothingLeftBehind

(* A started runtime is whole, and a plugin that declares an optional       *)
(* service has found it: the order of setup_all and the hooks of start_all. *)
THEOREM StartBringsAll == ASSUME NoSelfService PROVE Spec => []StartedWithAll
PROOF
<1>1. IInv => StartedIsWhole
  <2> SUFFICES ASSUME IInv, Undisturbed, op = "idle", NEW p \in Elements(ordered)
               PROVE  /\ life[p] = "up"
                      /\ \A s \in Provides[p] : registry[s] = p
                      /\ handlers[p] = IF p \in Subscribers THEN 1 ELSE 0
    BY DEF StartedIsWhole
  <2>1. Whole /\ List = ordered /\ Reach = Len(ordered)
    BY DEF IInv, Quiet, Reach, List
  <2>2. PICK i \in 1 .. Len(ordered) : p = ordered[i]
    BY Places DEF Elements, IInv, TypeInv
  <2> QED
    BY <2>1, <2>2 DEF Whole, IsWhole
<1>2. IInv => DeclaredOptionalsBound
  <2> SUFFICES ASSUME IInv, NEW p \in Elements(ordered), Undisturbed, op = "idle",
                      Registered = Elements(ordered),
                      Orders(OrderingGraph(ProvidersNow)) # {},
                      NEW s \in Optional[p] \cap TryGets[p], ProvidersNow[s] # NoPlugin
               PROVE  s \in bound[p]
    BY DEF DeclaredOptionalsBound
  <2>1. OptionalsFound /\ List = ordered /\ Reach = Len(ordered)
    BY DEF IInv, Quiet, Reach, List
  <2>2. PICK i \in 1 .. Len(ordered) : p = ordered[i]
    BY Places DEF Elements, IInv, TypeInv
  <2> QED
    BY <2>1, <2>2 DEF OptionalsFound
<1> QED
  BY <1>1, <1>2, InvAlways, PTL DEF StartedWithAll

(* Dependents come down first in every stop and rollback of a setup, and a  *)
(* stop that ends has taken down all, also after calls that were cancelled. *)
THEOREM StopsInOrder == Spec => StoppedInOrder
PROOF
<1>1. ASSUME IInv, [Next]_vars, Undisturbed, op # "undoStart", NEW p \in Plugins
      PROVE  ~PulledAway(p)
  <2> SUFFICES ASSUME PulledAway(p) PROVE FALSE
    OBVIOUS
  <2>1. life[p] = "up" /\ life'[p] # "up"
    BY DEF PulledAway
  <2>2. PICK q \in Plugins : life[q] = "up" /\ Needs(q, p)
    BY DEF PulledAway
  <2>3. PICK s \in bound[q] : registry[s] = p
    BY <2>2 DEF Needs
  <2>4. TypeInv /\ Listed /\ Beyond /\ BoundBefore
    BY <1>1 DEF IInv, Quiet
  <2>5. life \in [Plugins -> {"down", "up", "stopped"}]
    BY <2>4 DEF TypeInv, TypeOK
  <2>6. PICK r \in Plugins : UndoSetUp(r) \/ Stop(r)
    <3>1. \/ \E r \in Plugins : UndoSetUp(r) \/ Stop(r) \/ SetUp(r) \/ SetUpFails(r)
          \/ UNCHANGED life
      BY <1>1 DEF Next, Step, Register, CallStart, CallStop, Cancel, UndoStart,
         SetUpUndone, SetUpDone, Start, StartDone, StartFails, StartUndone, StopDone, vars
    <3>2. ASSUME NEW r \in Plugins, SetUp(r) \/ SetUpFails(r) PROVE FALSE
      <4>1. life' = [life EXCEPT ![r] = "up"]
        BY <3>2 DEF SetUp, SetUpFails
      <4> QED
        BY <2>1, <2>5, <4>1
    <3> QED
      BY <2>1, <3>1, <3>2
  <2>7. p = r
    <3>1. life' = [life EXCEPT ![r] = "down"]
      BY <2>4, <2>6, TakeDownSteps DEF TakeDown
    <3> QED
      BY <2>1, <2>5, <3>1
  <2>8. /\ List = order /\ Reach = at /\ at \in 1 .. Len(order) /\ Len(order) \in Nat
        /\ p = order[at] /\ \A i \in 1 .. at - 1 : order[i] # p
    BY <2>4, <2>6, <2>7, TakeDownSteps
  <2>9. PICK i \in 1 .. at : order[i] = q
    BY <2>2, <2>4, <2>8 DEF Beyond, Clean
  <2>10. PICK j \in 1 .. i - 1 : registry[s] = order[j]
    BY <2>3, <2>4, <2>8, <2>9 DEF BoundBefore
  <2> QED
    BY <2>3, <2>8, <2>9, <2>10
<1>2. ASSUME IInv, [Next]_vars, op = "stop", ordered' = <<>>, NEW p \in Plugins
      PROVE  life'[p] = "down" /\ \A s \in Services : registry'[s] # p
  <2>1. TypeInv /\ Reachable /\ Where
    BY <1>2 DEF IInv, TypeInv
  <2>2. ordered # <<>>
    BY <1>2, <2>1 DEF Where
  <2>3. StopDone
    BY <1>2, <2>2 DEF Next, Step, Register, CallStart, CallStop, Cancel, SetUp, SetUpFails,
       UndoSetUp, UndoStart, Stop, SetUpUndone, SetUpDone, Start, StartDone, StartFails,
       StartUndone, vars, managerVars
  <2>4. at = 0 /\ UNCHANGED <<registry, life>>
    BY <2>3 DEF StopDone
  <2>5. ~Holds(p)
    BY <1>2, <2>1, <2>4 DEF Reachable
  <2> QED
    BY <2>4, <2>5 DEF Holds
<1>3. IInv /\ [Next]_vars =>
         [Undisturbed /\ op # "undoStart" => \A p \in Plugins : ~PulledAway(p)]_vars
  BY <1>1
<1>4. IInv /\ [Next]_vars =>
         [op = "stop" /\ ordered' = <<>> =>
             \A p \in Plugins : /\ life'[p] = "down"
                                /\ \A s \in Services : registry'[s] # p]_vars
  BY <1>2
<1>5. Spec => DependentsStopFirst
  BY <1>3, InvAlways, PTL DEF Spec, DependentsStopFirst
<1>6. Spec => StopClears
  BY <1>4, InvAlways, PTL DEF Spec, StopClears
<1> QED
  BY <1>5, <1>6 DEF StoppedInOrder
=============================================================================
