-------------------------- MODULE EquilibriumAnalysis --------------------------
(***************************************************************************)
(* From a formal model to what is claimed of it:                           *)
(* research.equilibrium_deriver finds candidates, which                    *)
(* research.equilibrium_verifier checks, and has the failed ones revised;  *)
(* research.comparative_statics differentiates the selected candidate;     *)
(* research.proposition_generator states propositions, has                 *)
(* research.proposition_verifier check each and research.proposition_critic*)
(* criticise and interpret those that pass; research.numerical_analysis    *)
(* evaluates the candidate at points and judges parameters and             *)
(* propositions by them, at all of which the conditions hold.              *)
(*                                                                         *)
(* Algebra is data: a candidate is the set of checks it would fail, the    *)
(* sign of a derivative is given.  Problems, first-order conditions, best  *)
(* responses, sweeps and welfare, which no service here reads again, are   *)
(* left out, and so are links.  One model role.  A put that raises leaves  *)
(* what a death leaves.                                                    *)
(***************************************************************************)
EXTENDS ResearchRun, FiniteSetsExt, SequencesExt

CONSTANTS
    Models,          \* set of [id, solvable, symbolic]; symbolic: candidates, at most one
    Revisions,       \* what the language model may propose: sequences as symbolic
    MaxRevisions, MaxModelCalls,
    Signs,           \* of the derivative by each parameter, a sequence
    Proposals,       \* sequences of propositions, see Verdict
    Points,          \* points: [x, feasible, signs]; x the parameter swept, 0 at the baseline
    MinShare         \* of a sweep, in percent, for a parameter to be supported

Better == [pending |-> 0, failed |-> 1, partially |-> 2, verified |-> 3]
Passing == {"verified", "partially"}

Of(kind, field, id) == {a \in OfKind(kind) : stored[a][field] = id}
First(set) == CHOOSE a \in set : \A b \in set : a <= b

\* A call that finds what it was to make, or that raises at once.
NothingNew ==
    /\ at = "idle" /\ calls < MaxCalls /\ calls' = calls + 1
    /\ UNCHANGED <<stored, prov, at, call, deaths>>

\* One artifact, and on to a step.
Continue(step, locals) == call' = locals /\ Goto(step) /\ UNCHANGED <<stored, prov>>

-----------------------------------------------------------------------------
(* Verification of a candidate: the first kinds of check that fail end it,  *)
(* and the order of moves is checked of backward induction only.            *)
HardFailed(failed) == failed \cap {"symbols", "foc", "response", "timing"} # {}

FailedChecks(candidate) ==
    IF "symbols" \in candidate.flaws THEN {"symbols"}
    ELSE IF "foc" \in candidate.flaws THEN {"foc"}
    ELSE candidate.flaws \ (IF candidate.by = "symbolic" THEN {} ELSE {"timing"})

Status(candidate) ==
    IF HardFailed(FailedChecks(candidate)) THEN "failed"
    ELSE IF FailedChecks(candidate) # {} THEN "partially"
    ELSE "verified"

-----------------------------------------------------------------------------
(* Derivation                                                               *)
Derivations(model) == {x \in Of("derivation", "model", model) : stored[x].status \in Passing}

Derive(model) ==
    /\ model.solvable /\ Derivations(model.id) = {}
    /\ Call("propose", [model |-> model, next |-> <<>>, by |-> "symbolic", asked |-> 0,
                        rounds |-> 0, candidates |-> <<>>, verdicts |-> <<>>])
    /\ UNCHANGED <<stored, prov>>

DeriveAgain(model) == Derivations(model.id) # {} /\ NothingNew

\* A model that cannot be solved: an execution that says so.
NotSolvable(model) ==
    /\ ~model.solvable
    /\ at = "idle" /\ calls < MaxCalls /\ calls' = calls + 1
    /\ Put([kind |-> "derivation", model |-> model.id, status |-> "not solvable"])
    /\ UNCHANGED <<prov, at, call, deaths>>

\* The algebra finds a candidate, or the language model is asked.
Propose ==
    /\ at = "propose" /\ call.model.symbolic # <<>>
    /\ Continue("analysis", [call EXCEPT !.next = call.model.symbolic])

ProposeByModel(proposal) ==
    /\ at = "propose" /\ call.model.symbolic = <<>>
    /\ IF call.asked < MaxModelCalls /\ proposal # <<>>
       THEN Continue("analysis", [call EXCEPT !.next = proposal, !.by = "model", !.asked = @ + 1])
       ELSE Continue("analysis", call)

\* The analysis in progress: failed until it is updated.
PutAnalysis ==
    /\ at = "analysis"
    /\ PutThen([kind |-> "analysis", model |-> call.model.id, status |-> "failed",
                candidates |-> <<>>, verdicts |-> <<>>, selected |-> 0],
               IF call.next = <<>> THEN "derived" ELSE "candidate", call)

PutCandidate ==
    /\ at = "candidate"
    /\ PutThen([kind |-> "candidate", model |-> call.model.id, by |-> call.by, flaws |-> Head(call.next)],
               "verify", [call EXCEPT !.candidates = Append(@, Len(stored) + 1), !.next = <<>>])

VerifyCandidate ==
    /\ at = "verify"
    /\ LET candidate == Last(call.candidates)
       IN  PutThen([kind |-> "verification", candidate |-> candidate, status |-> Status(stored[candidate])],
                   "verified", [call EXCEPT !.verdicts = Append(@, Len(stored) + 1)])

\* A failed one is revised as long as there are rounds and calls.
Revise(revision) ==
    /\ at = "verified" /\ stored[Last(call.verdicts)].status = "failed"
    /\ call.rounds < MaxRevisions
    /\ IF call.asked < MaxModelCalls /\ revision # <<>>
       THEN Continue("candidate", [call EXCEPT !.next = revision, !.by = "model",
                                               !.rounds = @ + 1, !.asked = @ + 1])
       ELSE Continue("derived", [call EXCEPT !.rounds = @ + 1])

NothingToRevise ==
    /\ at = "verified"
    /\ stored[Last(call.verdicts)].status # "failed" \/ call.rounds = MaxRevisions
    /\ Continue("derived", call)

Statuses == {stored[v].status : v \in ToSet(call.verdicts)} \cup {"pending"}
BestStatus == CHOOSE s \in Statuses : \A t \in Statuses : Better[t] <= Better[s]

\* The first of those verified best.
BestCandidate(candidates, verdicts) ==
    candidates[Min({k \in DOMAIN candidates : \A l \in DOMAIN candidates :
                      Better[stored[verdicts[l]].status] <= Better[stored[verdicts[k]].status]})]

PutDerivation ==
    /\ at = "derived"
    /\ PutThen([kind |-> "derivation", model |-> call.model.id,
                status |-> IF BestStatus = "pending" THEN "failed" ELSE BestStatus],
               "update", call)

UpdateAnalysis ==
    /\ at = "update"
    /\ LET selected == IF call.candidates = <<>> THEN 0
                       ELSE BestCandidate(call.candidates, call.verdicts)
       IN  Put([kind |-> "analysis", model |-> call.model.id,
                status |-> IF selected = 0 THEN "failed" ELSE Status(stored[selected]),
                candidates |-> call.candidates, verdicts |-> call.verdicts, selected |-> selected])
    /\ Return /\ UNCHANGED prov

-----------------------------------------------------------------------------
(* What statics and numbers both ask for: a selected candidate that the     *)
(* verifications of its analysis do not fail                                *)
\* Mutant: any selected candidate.
AnySelected(analysis) == stored[analysis].selected # 0

Sound(analysis) ==
    /\ stored[analysis].selected # 0
    /\ \E v \in ToSet(stored[analysis].verdicts) :
          stored[v].candidate = stored[analysis].selected /\ stored[v].status \in Passing

Executions(kind, analysis) ==
    {x \in OfKind(kind) : stored[x].candidate = stored[analysis].selected /\ stored[x].made > 0}

BeginAnalysis(kind, step, analysis) ==
    /\ Executions(kind, analysis) = {} /\ Sound(analysis)
    /\ Call(step, [analysis |-> analysis, candidate |-> stored[analysis].selected,
                   model |-> stored[analysis].model, made |-> <<>>, todo |-> <<>>, run |-> 0])
    /\ UNCHANGED <<stored, prov>>

RunAgainOrRefused(kind, analysis) ==
    /\ Executions(kind, analysis) # {} \/ ~Sound(analysis)
    /\ NothingNew

(* Comparative statics                                                      *)
PutStatic ==
    /\ at = "static" /\ Len(call.made) < Len(Signs)
    /\ LET parameter == Len(call.made) + 1
       IN  PutThen([kind |-> "static", candidate |-> call.candidate, parameter |-> parameter,
                    sign |-> Signs[parameter]],
                   "static", [call EXCEPT !.made = Append(@, Len(stored) + 1)])

PutStaticsExecution ==
    /\ at = "static" /\ Len(call.made) = Len(Signs)
    /\ PutThen([kind |-> "statics execution", candidate |-> call.candidate, made |-> Len(call.made)],
               "statics", call)

PutStatics ==
    /\ at = "statics"
    /\ Put([kind |-> "statics", candidate |-> call.candidate, model |-> call.model,
            statics |-> call.made])
    /\ Return /\ UNCHANGED prov

-----------------------------------------------------------------------------
(* Propositions                                                             *)
PropositionsOf(statics) == Of("proposition", "statics", statics)

Generate(statics, proposal) ==
    /\ PropositionsOf(statics) = {}
    /\ Call("proposition", [statics |-> statics, todo |-> proposal, made |-> <<>>])
    /\ UNCHANGED <<stored, prov>>

GenerateAgain(statics) == PropositionsOf(statics) # {} /\ NothingNew

PutProposition ==
    /\ at = "proposition" /\ call.todo # <<>>
    /\ LET p == Head(call.todo)
           statics == stored[call.statics]
       IN  PutThen([kind |-> "proposition", statics |-> call.statics, candidate |-> statics.candidate,
                    model |-> statics.model, claim |-> p.claim, parameter |-> p.parameter,
                    expected |-> p.expected, conditions |-> p.conditions,
                    supports |-> {IF k = 0 THEN 0 ELSE statics.statics[k] : k \in p.supports}],
                   "proposition",
                   [call EXCEPT !.todo = Tail(@), !.made = Append(@, Len(stored) + 1)])

\* All are stored before the first is verified.
PropositionsPut ==
    /\ at = "proposition" /\ call.todo = <<>>
    /\ Continue("judge", call)

\* An open sign takes conditions that do not contradict the claim.
SignVerdict(p, sign) ==
    IF sign = "ambiguous"
    THEN IF p.conditions \in {"none", "contradicting"} THEN "failed" ELSE "conditionally"
    ELSE IF sign = p.expected THEN "verified" ELSE "failed"

\* What it says supports it are statics of its candidate, a support 0 is none; a
\* monotonicity has one about its parameter, an equality holds or does not.
Verdict(p) ==
    LET matching == {s \in p.supports : stored[s].parameter = p.parameter}
    IN  IF 0 \in p.supports THEN "failed"
        ELSE IF p.claim = "equality" THEN (IF p.expected = "holds" THEN "verified" ELSE "failed")
        ELSE IF matching = {} THEN "failed"
        ELSE SignVerdict(p, stored[First(matching)].sign)

VerificationsOf(p) == Of("proposition verification", "proposition", p)

PutVerdict(p) ==
    Put([kind |-> "proposition verification", proposition |-> p, status |-> Verdict(stored[p])])

VerifyProposition ==
    /\ at = "judge" /\ call.made # <<>> /\ VerificationsOf(Head(call.made)) = {}
    /\ PutVerdict(Head(call.made)) /\ Goto("judge") /\ UNCHANGED <<prov, call>>

\* What failed is neither criticised nor interpreted.
PropositionFailed ==
    /\ at = "judge" /\ call.made # <<>>
    /\ \E v \in VerificationsOf(Head(call.made)) : stored[v].status = "failed"
    /\ Continue("judge", [call EXCEPT !.made = Tail(@)])

PropositionPassed ==
    /\ at = "judge" /\ call.made # <<>>
    /\ \E v \in VerificationsOf(Head(call.made)) : stored[v].status # "failed"
    /\ Continue("critique", call)

PutCritique ==
    /\ at = "critique"
    /\ PutThen([kind |-> "critique", proposition |-> Head(call.made)], "interpret", call)

PutInterpretation ==
    /\ at = "interpret"
    /\ PutThen([kind |-> "interpretation", proposition |-> Head(call.made)],
               "judge", [call EXCEPT !.made = Tail(@)])

PropositionsDone ==
    /\ at = "judge" /\ call.made = <<>> /\ Return /\ UNCHANGED <<stored, prov>>

\* The critic raises if its model does, and the generation with it.
CriticRaises ==
    /\ at \in {"critique", "interpret"}
    /\ Return /\ UNCHANGED <<stored, prov>>

\* A proposition is verified on its own, unless it has been.
VerifyAlone(p) ==
    /\ at = "idle" /\ calls < MaxCalls /\ calls' = calls + 1
    /\ IF VerificationsOf(p) = {} THEN PutVerdict(p) ELSE UNCHANGED stored
    /\ UNCHANGED <<prov, at, call, deaths>>

-----------------------------------------------------------------------------
(* Numbers                                                                  *)
\* The parameter a result was swept by is lost at an infeasible point.
Swept(point) == IF point.feasible THEN point.x ELSE 0

RangeOutcome(parameter) ==
    LET counted == {k \in DOMAIN Points : Swept(Points[k]) = parameter}
        feasible == {k \in counted : Points[k].feasible}
    IN  IF counted = {} THEN "not testable"
        ELSE IF 100 * Cardinality(feasible) >= MinShare * Cardinality(counted) THEN "supported"
        ELSE "violated"

\* The newest verdict on it.
EffectiveStatus(p) ==
    IF VerificationsOf(p) = {} THEN "candidate" ELSE stored[Max(VerificationsOf(p))].status

\* The signs at the feasible points; a monotonicity that is not refuted is
\* supported if all of them are as claimed.
SupportOutcome(p) ==
    LET signs == {Points[k].signs[stored[p].parameter] : k \in {l \in DOMAIN Points : Points[l].feasible}}
    IN  IF EffectiveStatus(p) = "failed" \/ stored[p].claim # "monotonicity" \/ signs = {}
        THEN "not testable"
        ELSE IF signs = {stored[p].expected} THEN "supported" ELSE "violated"

PutResult ==
    /\ at = "number" /\ Len(call.made) < Len(Points)
    /\ LET point == Points[Len(call.made) + 1]
       IN  PutThen([kind |-> "result", candidate |-> call.candidate, x |-> Swept(point),
                    feasible |-> point.feasible],
                   "number", [call EXCEPT !.made = Append(@, Len(stored) + 1)])

\* The checks: one for each parameter, then for each proposition of the model.
Evaluated ==
    /\ at = "number" /\ Len(call.made) = Len(Points)
    /\ Continue("range", [call EXCEPT !.todo = [k \in DOMAIN Signs |-> k]])

PutRange ==
    /\ at = "range" /\ call.todo # <<>>
    /\ PutThen([kind |-> "range", candidate |-> call.candidate, parameter |-> Head(call.todo),
                outcome |-> RangeOutcome(Head(call.todo))],
               "range", [call EXCEPT !.todo = Tail(@)])

RangesDone ==
    /\ at = "range" /\ call.todo = <<>>
    /\ Continue("support", [call EXCEPT !.todo = SetToSortSeq(Of("proposition", "model", call.model), <)])

PutSupport ==
    /\ at = "support" /\ call.todo # <<>>
    /\ PutThen([kind |-> "support", candidate |-> call.candidate, proposition |-> Head(call.todo),
                outcome |-> SupportOutcome(Head(call.todo))],
               "support", [call EXCEPT !.todo = Tail(@)])

PutNumbersExecution ==
    /\ at = "support" /\ call.todo = <<>>
    /\ PutThen([kind |-> "numbers execution", candidate |-> call.candidate, made |-> Len(call.made)],
               "experiment", call)

PutExperiment ==
    /\ at = "experiment"
    /\ Put([kind |-> "experiment", candidate |-> call.candidate, results |-> call.made])
    /\ Return /\ UNCHANGED prov

EquilibriumNext ==
    \/ \E m \in Models : Derive(m) \/ DeriveAgain(m) \/ NotSolvable(m)
    \/ Propose \/ \E r \in Revisions : ProposeByModel(r) \/ Revise(r)
    \/ PutAnalysis \/ PutCandidate \/ VerifyCandidate \/ NothingToRevise
    \/ PutDerivation \/ UpdateAnalysis
    \/ \E a \in OfKind("analysis") :
          \/ BeginAnalysis("statics execution", "static", a)
          \/ BeginAnalysis("numbers execution", "number", a)
          \/ \E kind \in {"statics execution", "numbers execution"} : RunAgainOrRefused(kind, a)
    \/ \E s \in OfKind("statics") :
          GenerateAgain(s) \/ \E proposal \in Proposals : Generate(s, proposal)
    \/ \E p \in OfKind("proposition") : VerifyAlone(p)
    \/ PutStatic \/ PutStaticsExecution \/ PutStatics
    \/ PutProposition \/ PropositionsPut \/ VerifyProposition \/ PropositionFailed
    \/ PropositionPassed \/ PutCritique \/ PutInterpretation \/ PropositionsDone
    \/ PutResult \/ Evaluated \/ PutRange \/ RangesDone \/ PutSupport
    \/ PutNumbersExecution \/ PutExperiment
    \/ CriticRaises \/ Die

-----------------------------------------------------------------------------
(* Whatever was derived, revised, repeated or cut short, everything said of *)
(* an equilibrium is said of a candidate that passed its verification, the  *)
(* best of its analysis; a proposition counts as verified only on a static  *)
(* of that candidate with the claimed sign, or conditionally on one whose   *)
(* sign is open; only propositions that passed are criticised and           *)
(* interpreted; and none that a verification had refuted is supported by    *)
(* numbers.                                                                 *)
ClaimsRestOnVerified ==
    LET verdicts(c) == {stored[v].status : v \in Of("verification", "candidate", c)}
        passed(p, before) == \E v \in VerificationsOf(p) : v < before /\ stored[v].status # "failed"
        refuted(p, before) == \E v \in VerificationsOf(p) : v < before /\ stored[v].status = "failed"
        \* an analysis whose selected candidate passed, and is the best of its candidates
        grounds == {b \in OfKind("analysis") :
                       /\ stored[b].status \in Passing
                       /\ verdicts(stored[b].selected) = {stored[b].status}
                       /\ \A c \in ToSet(stored[b].candidates) : \A s \in verdicts(c) :
                             Better[s] <= Better[stored[b].status]}
    IN  /\ \A a \in Stored :
              stored[a].kind \in {"static", "statics", "proposition", "result", "range", "support",
                                 "experiment"} =>
                 \E b \in grounds : b < a /\ stored[b].selected = stored[a].candidate
        /\ \A c \in OfKind("candidate") : "verified" \in verdicts(c) =>
              stored[c].flaws \subseteq (IF stored[c].by = "symbolic" THEN {} ELSE {"timing"})
        /\ \A c \in OfKind("candidate") : verdicts(c) \cap Passing # {} =>
              stored[c].flaws \cap {"symbols", "foc", "response"} = {}
                 /\ (stored[c].by = "symbolic" => "timing" \notin stored[c].flaws)
        /\ \A v \in OfKind("proposition verification") :
              LET p == stored[stored[v].proposition]
              IN  stored[v].status # "failed" /\ p.claim = "monotonicity" =>
                     \E s \in OfKind("static") :
                        /\ s < v /\ stored[s].candidate = p.candidate /\ stored[s].parameter = p.parameter
                        /\ stored[s].sign =
                              IF stored[v].status = "verified" THEN p.expected ELSE "ambiguous"
        /\ \A a \in OfKind("critique") \cup OfKind("interpretation") : passed(stored[a].proposition, a)
        /\ \A a \in OfKind("support") :
              stored[a].outcome = "supported" => ~refuted(stored[a].proposition, a)
        /\ \A v, w \in OfKind("verification") \cup OfKind("proposition verification") :
              v # w /\ stored[v].kind = stored[w].kind =>
                 IF stored[v].kind = "verification" THEN stored[v].candidate # stored[w].candidate
                 ELSE stored[v].proposition # stored[w].proposition
        /\ \A x, y \in {d \in OfKind("derivation") : stored[d].status \in Passing} :
              stored[x].model = stored[y].model => x = y

(* A parameter is supported only if the equilibrium exists in the configured*)
(* share of its own sweep.                                                  *)
RangesEarned ==
    \A a \in OfKind("range") : stored[a].outcome = "supported" =>
       LET sweep == {k \in DOMAIN Points : Points[k].x = stored[a].parameter}
       IN  100 * Cardinality({k \in sweep : Points[k].feasible}) >= MinShare * Cardinality(sweep)
=============================================================================
