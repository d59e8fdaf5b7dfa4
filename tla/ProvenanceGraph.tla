-------------------------- MODULE ProvenanceGraph --------------------------
(***************************************************************************)
(* The facts an artifact store keeps, and the directed graph of its links: *)
(* an edge <<s, t>> says that artifact t was derived from artifact s.      *)
(* Nothing here is recursive, so the modules that use it can be reasoned   *)
(* about with TLAPS: acyclicity and reachability are stated with sets      *)
(* closed under the edges.                                                 *)
(*                                                                         *)
(* A fact is a row of the artifacts table, [op : "put", id, payload], or of *)
(* the provenance table, [op : "link", src, tgt, rel].                      *)
(***************************************************************************)

RowsOf(D)  == {f \in D : f.op = "put"}
EdgesOf(D) == {<<f.src, f.tgt>> : f \in {g \in D : g.op = "link"}}
HasRow(D, i) == \E f \in RowsOf(D) : f.id = i

\* The primary key of each table.
Key(f) == IF f.op = "put" THEN <<"put", f.id>> ELSE <<"link", f>>

\* The children of x: the targets of the links whose source is x.
Children(E, x) == {e[2] : e \in {f \in E : f[1] = x}}

\* R contains every child of its members.
ClosedUnder(E, R) == \A e \in E : e[1] \in R => e[2] \in R

\* y can be reached from x: it is in every set closed under E that has x.
Reaches(N, E, x, y) ==
    \A R \in SUBSET N : x \in R /\ ClosedUnder(E, R) => y \in R

\* No nonempty set of nodes in which every node has a child in the set.
\* On a finite graph this is the absence of directed cycles.
Acyclic(N, E) ==
    \A S \in SUBSET N :
        (\A x \in S : \E y \in S : <<x, y>> \in E) => S = {}
=============================================================================
