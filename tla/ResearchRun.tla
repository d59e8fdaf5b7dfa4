----------------------------- MODULE ResearchRun -----------------------------
(***************************************************************************)
(* What the research services share.  A service answers one call at a time *)
(* and works on the artifact store, whose put and add_provenance are each  *)
(* atomic and durable (ArtifactStore), one artifact and one link after the *)
(* other.  The process may die between any two of these steps; a later     *)
(* call of a new process finds what was stored, and nothing else.          *)
(*                                                                         *)
(* Services differ in the fields of their artifacts and in the local       *)
(* variables of their calls, both of which are records.                    *)
(***************************************************************************)
EXTENDS Integers, Sequences, FiniteSets

CONSTANTS
    MaxCalls,    \* bound: calls made in a behaviour
    MaxDeaths    \* bound: deaths of the process

ASSUME BoundsAssumption == MaxCalls \in Nat /\ MaxDeaths \in Nat

VARIABLES
    stored,      \* the artifacts, in the order they were put
    prov,        \* the provenance links, <<source, target, relation>>
    at,          \* the step the running call is at, or "idle"
    call,        \* its local variables
    calls,       \* how many calls there were
    deaths       \* how often the process died

researchVars == <<stored, prov, at, call, calls, deaths>>

NoCall == [none |-> TRUE]

NothingStored ==
    /\ stored = <<>> /\ prov = {}
    /\ at = "idle" /\ call = NoCall
    /\ calls = 0 /\ deaths = 0

Stored == DOMAIN stored

OfKind(kind) == {i \in Stored : stored[i].kind = kind}

Put(artifact) == stored' = Append(stored, artifact)

\* Those of a list that are in a set.
Among(list, set) ==
    LET among[n \in 0 .. Len(list)] ==
          IF n = 0 THEN <<>>
          ELSE IF list[n] \in set THEN Append(among[n - 1], list[n]) ELSE among[n - 1]
    IN  among[Len(list)]

\* The artifact put last.
Latest == Len(stored)

\* A call begins at a step with its local variables.
Call(step, locals) ==
    /\ at = "idle" /\ calls < MaxCalls
    /\ at' = step /\ call' = locals
    /\ calls' = calls + 1
    /\ UNCHANGED deaths

Goto(step) == at' = step /\ UNCHANGED <<calls, deaths>>

\* An artifact is put and the call goes on with a step.
PutThen(artifact, step, locals) ==
    Put(artifact) /\ call' = locals /\ Goto(step) /\ UNCHANGED prov

\* An artifact is put at once, while no call of the service runs.
PutAtOnce(artifact) == at = "idle" /\ Put(artifact) /\ UNCHANGED <<prov, at, call, calls, deaths>>

\* An artifact and, one after the other, the links from its sources; then the
\* call goes on with a step.
PutLinked(artifact, sources, step, locals) ==
    /\ Put(artifact)
    /\ call' = [locals EXCEPT !.links = sources, !.step = step]
    /\ Goto("link") /\ UNCHANGED prov

Link ==
    /\ at = "link"
    /\ prov' = prov \cup {<<Head(call.links), Latest>>}
    /\ call' = [call EXCEPT !.links = Tail(@)]
    /\ Goto(IF Len(call.links) = 1 THEN call.step ELSE "link")
    /\ UNCHANGED stored

\* The call returns, or raises.
Return == at' = "idle" /\ call' = NoCall /\ UNCHANGED <<calls, deaths>>

\* The process dies with the call.
Die ==
    /\ at # "idle" /\ deaths < MaxDeaths
    /\ deaths' = deaths + 1
    /\ at' = "idle" /\ call' = NoCall
    /\ UNCHANGED <<stored, prov, calls>>
=============================================================================
