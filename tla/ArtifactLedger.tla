--------------------------- MODULE ArtifactLedger ---------------------------
(***************************************************************************)
(* What an artifact store promises (contracts/artifact.py): a ledger of    *)
(* facts that only grows.  A row is recorded once under its id, a link only *)
(* between recorded artifacts and only where it closes no cycle, and what  *)
(* the trajectory announces, it announces after the fact is recorded, once. *)
(***************************************************************************)
EXTENDS ProvenanceGraph

CONSTANTS
    Ids,        \* artifact ids
    Call,       \* every call of put and add_provenance
    Stored      \* the facts in the file at the start

VARIABLES
    facts,      \* what is recorded
    announced   \* the recorded facts the trajectory has announced

Init == facts = Stored /\ announced = {}

\* The contract's conditions on a new fact.
Admissible(c) ==
    /\ \A f \in facts : Key(f) # Key(c)
    /\ c.op = "link" => /\ c.src # c.tgt
                        /\ HasRow(facts, c.src) /\ HasRow(facts, c.tgt)
    /\ Acyclic(Ids, EdgesOf(facts \cup {c}))

Record ==
    /\ \E c \in Call : facts' = facts \cup {c} /\ Admissible(c)
    /\ UNCHANGED announced

Announce ==
    /\ \E c \in facts \ announced : announced' = announced \cup {c}
    /\ UNCHANGED facts

Next == Record \/ Announce

Spec == Init /\ [][Next]_<<facts, announced>>
=============================================================================
