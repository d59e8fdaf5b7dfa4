---------------------------- MODULE PluginOrder ----------------------------
(***************************************************************************)
(* The setup order of the plugin manager (kernel/manager.py), as a         *)
(* function of a dependency graph: g[p] is the set of plugins p depends on. *)
(* A plugin is named by a natural number, its place in the sorted list of  *)
(* all plugin ids, so that < is the order of the ids as strings.           *)
(***************************************************************************)
EXTENDS Integers, Sequences, FiniteSets

\* The first of a set of plugins.
Least(S) == CHOOSE p \in S : \A q \in S : p <= q

Elements(s) == {s[i] : i \in DOMAIN s}

\* The plugins whose dependencies are all in the order already.
Ready(g, placed) == {p \in DOMAIN g \ placed : g[p] \subseteq placed}

\* Every place holds the first plugin, by id, that was ready for it: what
\* Kahn's algorithm with sorted queues builds.
InOrder(g, s) ==
    \A i \in DOMAIN s :
        LET ready == Ready(g, {s[j] : j \in 1 .. i - 1})
        IN  ready # {} /\ s[i] = Least(ready)

\* One place more, if a plugin is ready for it.
WithNext(g, s) ==
    LET ready == Ready(g, Elements(s))
    IN  IF ready = {} THEN s ELSE Append(s, Least(ready))

\* As many places as can be filled like that, of n.
Filled(g, n) ==
    LET fill[k \in 0 .. n] == IF k = 0 THEN <<>> ELSE WithNext(g, fill[k - 1])
    IN  fill[n]

\* The setup order of all plugins: one, or none when the graph has a cycle
\* (the code raises PluginDependencyError).
Orders(g) ==
    LET n == Cardinality(DOMAIN g)
    IN  {s \in {Filled(g, n)} : s \in Seq(DOMAIN g) /\ Len(s) = n /\ InOrder(g, s)}
=============================================================================
