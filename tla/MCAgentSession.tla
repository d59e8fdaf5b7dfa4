--------------------------- MODULE MCAgentSession ---------------------------
(* Two runs in one session that an earlier run created; a run in a session  *)
(* of its own; and one that is given an id that nobody created.             *)
EXTENDS AgentSession, TLC

CONSTANTS r1, r2, r3, r4, shared, unknown, new1, new2, new3, new4

MCGiven == r1 :> shared @@ r2 :> shared @@ r3 :> NoSession @@ r4 :> unknown
MCFresh == r1 :> new1 @@ r2 :> new2 @@ r3 :> new3 @@ r4 :> new4

\* A run alone, with answers of no, one and two tool calls, and twice the same;
\* two that share a log; two that share it and all that may fail; two whose
\* logs fail, or one of them for longer.
MCSettings == {
    [runs |-> {r3}, maxSteps |-> 3, faults |-> {},
     answers |-> {<<>>, <<"c1">>, <<"c1", "c2">>, <<"c1", "c1">>}],
    [runs |-> {r1, r2}, maxSteps |-> 1, faults |-> {},
     answers |-> {<<>>, <<"c1">>}],
    [runs |-> {r1, r2}, maxSteps |-> 1, faults |-> {"cancel", "crash", "write"},
     answers |-> {<<>>}],
    [runs |-> {r3, r4}, maxSteps |-> 1, faults |-> {"create", "write"},
     answers |-> {<<>>, <<"c1">>}],
    [runs |-> {r3}, maxSteps |-> 2, faults |-> {"create", "write"},
     answers |-> {<<>>, <<"c1">>}]}
=============================================================================
