-------------------------- MODULE MCArtifactStore --------------------------
(* Instances of ArtifactStore for TLC: one process with three threads, and  *)
(* two processes that share the database file.                              *)
EXTENDS ArtifactStore, TLC

CONSTANTS p1, p2, t1, t2, t3

Put(i, x) == [op |-> "put", id |-> i, payload |-> x]
Link(s, t) == [op |-> "link", src |-> s, tgt |-> t, rel |-> "derived_from"]

MCIds == {"a", "b", "c", "d"}

\* Three artifacts an earlier run stored.
MCStored == {Put("a", "p1"), Put("b", "p1"), Put("c", "p1")}

\* Links that close a cycle together, one stored payload put again, two
\* payloads for the same new id, and a link to the new id.
MCCalls == {Link("a", "b"), Link("b", "c"), Link("c", "a"),
            Link("b", "d"), Put("a", "p2"), Put("d", "p1"), Put("d", "p2")}

CycleCalls == {Link("a", "b"), Link("b", "a")}

OneProcess == t1 :> p1 @@ t2 :> p1 @@ t3 :> p1
TwoProcesses == t1 :> p1 @@ t2 :> p1 @@ t3 :> p2
ThreadEach == t1 :> p1 @@ t2 :> p2
=============================================================================
