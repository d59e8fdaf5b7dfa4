---------------------------- MODULE MCSweepRange ----------------------------
(* A model with a symbolic solution that exists at one point of the three   *)
(* of a parameter's sweep.                                                  *)
EXTENDS EquilibriumAnalysis

MCModels == {[id |-> -1, solvable |-> TRUE, symbolic |-> <<{}>>]}

MCSigns == <<"positive">>

Point(x, feasible) == [x |-> x, feasible |-> feasible, signs |-> MCSigns]

MCPoints == <<Point(0, TRUE), Point(1, TRUE), Point(1, FALSE), Point(1, FALSE)>>

MCProposals ==
    {<<[claim |-> "monotonicity", parameter |-> 1, expected |-> "positive",
        conditions |-> "none", supports |-> {1}]>>}

MCSpec == NothingStored /\ [][EquilibriumNext]_researchVars
=============================================================================
