----------------------------- MODULE LineageWalk -----------------------------
(***************************************************************************)
(* get_lineage of the artifact store: a breadth-first walk along the links, *)
(* one row of provenance a step.  The walk holds the store's lock, so the  *)
(* links stay as they are.                                                 *)
(*                                                                         *)
(* A link [src, tgt, rel] is a row; rows of two relations may join the same *)
(* artifacts, and the rows of a SELECT come in any order.  Both ends of a  *)
(* link are stored (NoDanglingLinks of ArtifactStore), so _get_sync always *)
(* finds the envelope.                                                     *)
(***************************************************************************)
EXTENDS ProvenanceGraph, Integers, Sequences, FiniteSets

CONSTANT Ids    \* artifact ids

ASSUME IdsAssumption == IsFiniteSet(Ids)

Relations == {"derived_from", "extracted_from", "generated_from", "supersedes"}
Link == [src : Ids, tgt : Ids, rel : Relations]
Directions == {"ancestors", "descendants"}

VARIABLES
    links,      \* the provenance table
    direction,  \* the walk's direction
    start,      \* the artifact asked about
    visited,    \* artifacts seen
    queue,      \* artifacts whose links are to be followed
    rows,       \* the rows of the current artifact still to be looked at
    result      \* the lineage, in the order of the walk

vars == <<links, direction, start, visited, queue, rows, result>>

TypeOK ==
    /\ links \subseteq Link
    /\ direction \in Directions
    /\ start \in Ids
    /\ visited \subseteq Ids
    /\ queue \in Seq(Ids)
    /\ rows \subseteq links
    /\ result \in Seq(Ids)

Init ==
    /\ links \subseteq Link
    /\ direction \in Directions
    /\ start \in Ids
    /\ visited = {start}
    /\ queue = <<start>>
    /\ rows = {}
    /\ result = <<>>

-----------------------------------------------------------------------------
From(l) == IF direction = "ancestors" THEN l.tgt ELSE l.src
To(l) == IF direction = "ancestors" THEN l.src ELSE l.tgt

\* Mutants: rows of the wrong column; a walk in depth; an artifact that stays in
\* the queue.
OtherColumn(id) == {l \in links : To(l) = id}
InFront(id) == <<id>> \o queue
NotPopped == queue

\* SELECT * FROM provenance WHERE <column> = id.
LinksOf(id) == {l \in links : From(l) = id}

\* visited.add(id).
Marked(id) == visited \cup {id}

\* queue.append(id).
Enqueued(id) == Append(queue, id)

\* What popleft leaves.
Rest == Tail(queue)

Pop ==
    /\ rows = {} /\ queue # <<>>
    /\ rows' = LinksOf(Head(queue))
    /\ queue' = Rest
    /\ UNCHANGED <<links, direction, start, visited, result>>

Follow(l) ==
    /\ l \in rows
    /\ rows' = rows \ {l}
    /\ \/ /\ To(l) \in visited
          /\ UNCHANGED <<visited, queue, result>>
       \/ /\ To(l) \notin visited
          /\ visited' = Marked(To(l))
          /\ result' = Append(result, To(l))
          /\ queue' = Enqueued(To(l))
    /\ UNCHANGED <<links, direction, start>>

Next == Pop \/ \E l \in rows : Follow(l)

Fairness == WF_vars(Next)

Spec == Init /\ [][Next]_vars /\ Fairness

-----------------------------------------------------------------------------
Over == queue = <<>> /\ rows = {}

\* The edges in the walk's direction.
Edges == {<<From(l), To(l)>> : l \in links}

(* The lineage is all of it: when the walk is over, it holds every artifact *)
(* that can be reached from the start and no other, once each, and not the  *)
(* start itself, even where the links form a cycle.                         *)
LineageExact ==
    /\ \A i, j \in DOMAIN result : result[i] = result[j] => i = j
    /\ \A i \in DOMAIN result : result[i] # start /\ Reaches(Ids, Edges, start, result[i])
    /\ Over => \A x \in Ids :
                  x # start /\ Reaches(Ids, Edges, start, x) =>
                      \E i \in DOMAIN result : result[i] = x

\* The artifacts at most k edges from x.
Around(E, x) ==
    LET ball[k \in 0 .. Cardinality(Ids)] ==
          IF k = 0 THEN {x}
          ELSE ball[k - 1] \cup UNION {Children(E, y) : y \in ball[k - 1]}
    IN  ball

Within == Around(Edges, start)

(* The closest come first: an artifact never stands before one that is      *)
(* fewer links away.                                                        *)
ClosestFirst ==
    LET within == Within
    IN  \A i, j \in DOMAIN result : i < j =>
            \A k \in DOMAIN within : result[j] \in within[k] => result[i] \in within[k]

(* Why it is all: what has left the queue has its links followed, or still  *)
(* in the rows at hand, and what is visited is the start and the result.    *)
WalkInv ==
    /\ TypeOK
    /\ visited = {start} \cup {result[i] : i \in DOMAIN result}
    /\ \A i \in DOMAIN result : result[i] # start
    /\ \A i, j \in DOMAIN result : result[i] = result[j] => i = j
    /\ \A i \in DOMAIN queue : queue[i] \in visited
    /\ \A l \in rows : From(l) \in visited
    /\ \A l \in links : \/ From(l) \notin visited
                        \/ \E i \in DOMAIN queue : queue[i] = From(l)
                        \/ To(l) \in visited
                        \/ l \in rows
    /\ \A x \in visited : Reaches(Ids, Edges, start, x)

(* Why the closest come first: nothing found stands farther than anything   *)
(* not found yet, and the artifact whose links are followed stands no        *)
(* farther than the queue, which is sorted.                                  *)
ClosestInv ==
    /\ ClosestFirst
    /\ \A k \in DOMAIN Within :
          /\ Within[k] \subseteq visited \/ visited \subseteq Within[k]
          /\ \A i, j \in DOMAIN queue :
                i < j /\ queue[j] \in Within[k] => queue[i] \in Within[k]
          /\ \A l \in rows : \A i \in DOMAIN queue :
                queue[i] \in Within[k] => From(l) \in Within[k]
    /\ \A l, m \in rows : From(l) = From(m)

(* The walk ends, cycles or not.                                            *)
WalkTerminates == <>Over
=============================================================================
