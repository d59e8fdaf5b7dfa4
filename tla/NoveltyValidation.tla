--------------------------- MODULE NoveltyValidation ---------------------------
(***************************************************************************)
(* novelty_validator: the claims of a manuscript are searched for prior    *)
(* art; what is found about each becomes its assessment, the assessments   *)
(* become a report, and the report a gate that says whether the package is *)
(* ready.  A revised manuscript is revalidated, which takes over what is   *)
(* known of unchanged claims; a candidate paper of which too little was    *)
(* known is enriched and judged again.                                     *)
(*                                                                         *)
(* A manuscript and its package are one artifact.  The authors add a new   *)
(* version at any time; the versions are one lineage, the last is current. *)
(* What offline mode and the critic change of a judgement is among the     *)
(* relationships a candidate may be given anyway.                          *)
(***************************************************************************)
EXTENDS ResearchRun, SequencesExt, FiniteSetsExt

CONSTANTS
    Versions,        \* what is claimed by successive versions: sequences of [wording, risk],
                     \* those of high risk, which rules find, before those the model adds
    Similar,         \* pairs of wordings that are similar
    PriorArt,        \* what a search can find
    Policies,        \* search policies: as-of date, providers, limits, window
    ClaimLimits,     \* values of max_claims; 0 is None
    Relationships,   \* judgements: of "strong", "partial", "distinct", "insufficient"
    Ready            \* versions whose package is ready

Risks == {"critical", "other"}
Judgements == {"strong", "partial", "distinct", "insufficient"}

ASSUME VersionsAssumption == Versions \in Seq(Seq([wording : Int, risk : Risks]))

ASSUME SearchAssumption ==
    IsFiniteSet(PriorArt) /\ Policies \subseteq Nat /\ Relationships \subseteq Judgements

Manuscripts == OfKind("manuscript")
Reports == OfKind("novelty report")
Gates == OfKind("gate")

Critical(claim) == stored[claim].risk = "critical"
HasEvidence(paper) == \E e \in OfKind("evidence") : stored[e].paper = paper

\* Mutants: any policy will do; a report is never stale.
AnyPolicy(a, policy) == stored[a].status # "unverified"
NeverStale(report) == FALSE

\* _latest_manuscript_in_lineage, staleness.
Stale(report) == Max(Manuscripts) # stored[report].manuscript

\* _derive_claim_status.
ClaimStatus(covered, candidates) ==
    LET found == {stored[k].relationship : k \in candidates}
    IN  IF ~covered THEN "unverified"
        ELSE IF "strong" \in found THEN "threatened"
        ELSE IF "partial" \in found THEN "weakened"
        ELSE IF "insufficient" \in found THEN "unverified"
        ELSE "not_threatened"

\* All searches succeeded; of a critical claim's candidates one has evidence.
Covered(claim, searched, candidates) ==
    /\ searched
    /\ Critical(claim) /\ candidates # {} => \E k \in candidates : ~stored[k].sparse

\* _aggregate_report_status; verdicts are pairs of a claim and a status.
Overall(claims, verdicts) ==
    IF \E c \in claims : Critical(c) /\ <<c, "threatened">> \in verdicts THEN "blocked"
    ELSE IF claims # {} /\ \E v \in verdicts : v[2] \in {"threatened", "weakened"} THEN "revise"
    ELSE IF claims = {} \/ \E c \in claims : \A v \in verdicts : v[1] = c => v[2] = "unverified"
         THEN "unverified"
    ELSE "clear"

\* The verdicts of assessments, each on its own claim.
OwnVerdicts(assessments) == {<<stored[a].claim, stored[a].status>> : a \in assessments}

\* create_gate.
GateStatus(manuscript, report) ==
    LET r == stored[report]
        incomplete == r.failed > 0 \/ Cardinality(r.assessments) < Cardinality(r.claims)
    IN  IF ~stored[manuscript].ready THEN "blocked"
        ELSE CASE r.overall = "clear" -> IF incomplete THEN "unverified" ELSE "ready"
               [] r.overall = "revise" -> "needs_revision"
               [] OTHER -> r.overall

\* latest_report: the newest report that no report of this package supersedes.
LatestReport(manuscript) ==
    LET mine == {r \in Reports : stored[r].manuscript = manuscript}
    IN  Max({0} \cup (mine \ {stored[r].supersedes : r \in mine}))

-----------------------------------------------------------------------------
\* The claims found in a manuscript, as new artifacts.
NewClaims(manuscript) ==
    LET found == stored[manuscript].claims
    IN  [k \in DOMAIN found |-> [kind |-> "claim", wording |-> found[k].wording, risk |-> found[k].risk]]

\* What is kept when the manuscript is validated, cut off at max_claims.
Cut(claims, limit) ==
    IF limit = 0 THEN claims ELSE {c \in claims : \A d \in claims : c - d < limit}

\* The old claims a new one repeats: those with its text or, where there are
\* none, similar ones that the model takes to mean the same; never one with
\* another risk.
Repeated(new, olds, same) ==
    LET exact == {c \in olds : stored[c].wording = new.wording}
        alike == {c \in olds : <<stored[c].wording, new.wording>> \in same}
    IN  {c \in IF exact # {} THEN exact ELSE alike : stored[c].risk = new.risk}

\* A verdict that can be taken over: it is one, and was reached by this policy.
Reusable(a, policy) == stored[a].status # "unverified" /\ stored[a].policy = policy

NoveltyLocals(mode, manuscript, previous, policy) ==
    [mode |-> mode, manuscript |-> manuscript, previous |-> previous, policy |-> policy,
     claims |-> {}, todo |-> {}, reused |-> {}, assessed |-> {}, failed |-> 0,
     claim |-> 0, candidates |-> {}, old |-> 0, new |-> 0, report |-> 0, checked |-> 0]

\* The claims of this call are put one after the other; a death in between
\* leaves claims that nothing names.
Validate(manuscript, policy, limit) ==
    LET new == NewClaims(manuscript)
        claims == Cut(Len(stored) + 1 .. Len(stored) + Len(new), limit)
    IN  /\ Call("claim", [NoveltyLocals("validate", manuscript, 0, policy)
                             EXCEPT !.claims = claims, !.todo = claims])
        /\ stored' = stored \o new
        /\ UNCHANGED prov

Revalidate(previous, manuscript, policy, force, same) ==
    LET new == NewClaims(manuscript)
        id(n) == Len(stored) + n
        usable(n) == {a \in stored[previous].assessments :
                         /\ ~force /\ Reusable(a, policy)
                         /\ stored[a].claim \in Repeated(new[n], stored[previous].claims, same)}
        again == {n \in DOMAIN new : usable(n) # {}}
        \* a verdict is taken over for one claim, the last that repeats it
        reused == {<<Min(usable(n)), id(n)>> : n \in
                      {k \in again : \A l \in again : Min(usable(l)) = Min(usable(k)) => l <= k}}
    IN  /\ Call("claim", [NoveltyLocals("revalidate", manuscript, previous, policy)
                             EXCEPT !.claims = {id(n) : n \in DOMAIN new},
                                    !.todo = {id(n) : n \in DOMAIN new \ again},
                                    !.reused = reused])
        /\ stored' = stored \o new
        /\ UNCHANGED prov

\* A paper's abstract or text is acquired on the way (_enrich).
Acquire(paper) ==
    /\ at = "claim" /\ call.todo # {} /\ ~HasEvidence(paper)
    /\ Put([kind |-> "evidence", paper |-> paper])
    /\ Goto("claim") /\ UNCHANGED <<prov, call>>

\* What the searches for a claim can find: each paper once, in any order.
CandidateSets ==
    UNION {{papers \in [1 .. n -> PriorArt] : IsInjective(papers)} : n \in 0 .. Cardinality(PriorArt)}

\* A paper found, judged.  Without evidence there is no judgement.
CandidateOf(paper, relationship) ==
    [kind |-> "candidate", paper |-> paper, sparse |-> ~HasEvidence(paper), of |-> 0,
     relationship |-> IF HasEvidence(paper) THEN relationship ELSE "insufficient"]

\* The candidates of a claim.
AssessCandidates(papers, judged) ==
    /\ at = "claim" /\ call.todo # {}
    /\ stored' = stored \o [n \in DOMAIN papers |-> CandidateOf(papers[n], judged[n])]
    /\ call' = [call EXCEPT !.claim = Min(call.todo), !.todo = @ \ {Min(@)},
                            !.candidates = Len(stored) + 1 .. Len(stored) + Len(papers)]
    /\ Goto("assess") /\ UNCHANGED prov

AssessClaim(searched) ==
    /\ at = "assess"
    /\ LET covered == Covered(call.claim, searched, call.candidates)
       IN  Put([kind |-> "assessment", claim |-> call.claim, candidates |-> call.candidates,
                searched |-> searched, policy |-> call.policy,
                status |-> ClaimStatus(covered, call.candidates)])
    /\ call' = [call EXCEPT !.assessed = @ \cup {Len(stored) + 1}]
    /\ Goto("recommend") /\ UNCHANGED prov

Recommended == at = "recommend" /\ Goto("claim") /\ UNCHANGED <<stored, prov, call>>

\* A step for a claim raises: the others go on.
ClaimFails ==
    /\ \/ at = "claim" /\ call.todo # {}
       \/ at \in {"assess", "recommend"}
    /\ call' = [call EXCEPT !.failed = @ + 1,
                            !.todo = IF at = "claim" THEN @ \ {Min(@)} ELSE @,
                            !.assessed = IF at = "recommend" THEN @ \ {Max(@)} ELSE @]
    /\ Goto("claim") /\ UNCHANGED <<stored, prov>>

\* A failed pre-acquisition counts too, and its claim goes on.
PreacquisitionFails ==
    /\ at = "claim" /\ call.todo # {} /\ Critical(Min(call.todo)) /\ call.failed = 0
    /\ call' = [call EXCEPT !.failed = 1]
    /\ Goto("claim") /\ UNCHANGED <<stored, prov>>

PutNoveltyReport ==
    /\ at = "claim" /\ call.todo = {}
    /\ LET verdicts == {<<r[2], stored[r[1]].status>> : r \in call.reused}
                           \cup OwnVerdicts(call.assessed)
       IN  Put([kind |-> "novelty report", manuscript |-> call.manuscript, claims |-> call.claims,
                assessments |-> {r[1] : r \in call.reused} \cup call.assessed,
                failed |-> call.failed, policy |-> call.policy,
                overall |-> Overall(call.claims, verdicts),
                supersedes |-> IF call.mode = "revalidate" THEN call.previous
                               ELSE LatestReport(call.manuscript)])
    /\ IF call.mode = "revalidate"
       THEN call' = [call EXCEPT !.report = Len(stored) + 1] /\ Goto("gate")
       ELSE Return
    /\ UNCHANGED prov

\* create_gate, of a given report or the latest.
Gate(manuscript, report) ==
    /\ report # 0
    /\ Call("gate", [NoveltyLocals("gate", manuscript, 0, 0) EXCEPT !.report = report])
    /\ UNCHANGED <<stored, prov>>

\* The report covers this package, and its manuscript is the current one.
CheckReport ==
    /\ at = "gate"
    /\ IF stored[call.report].manuscript = call.manuscript /\ ~Stale(call.report)
       THEN call' = [call EXCEPT !.checked = Len(stored)] /\ Goto("put_gate")
       ELSE Return
    /\ UNCHANGED <<stored, prov>>

\* The field checked is an observer's: what was stored at the time of the check.
PutGate ==
    /\ at = "put_gate"
    /\ Put([kind |-> "gate", manuscript |-> call.manuscript, report |-> call.report,
            checked |-> call.checked, status |-> GateStatus(call.manuscript, call.report)])
    /\ Return /\ UNCHANGED prov

\* enrich_candidate; a paper of which enough is known is left alone.
Enrich(candidate) ==
    /\ ~HasEvidence(stored[candidate].paper)
    /\ Call("enrich", [NoveltyLocals("enrich", 0, 0, 0) EXCEPT !.old = candidate])
    /\ UNCHANGED <<stored, prov>>

Enriched ==
    /\ at = "enrich"
    /\ Put([kind |-> "evidence", paper |-> stored[call.old].paper])
    /\ Goto("judge") /\ UNCHANGED <<prov, call>>

\* The candidate is judged again, and the claims' first assessment that names
\* the old judgement is recomputed with the new one.
JudgeAgain(relationship) ==
    /\ at = "judge"
    /\ Put([stored[call.old] EXCEPT !.sparse = FALSE, !.relationship = relationship,
                                    !.of = call.old])
    /\ call' = [call EXCEPT !.new = Len(stored) + 1]
    /\ Goto("refresh") /\ UNCHANGED prov

RefreshAssessment ==
    /\ at = "refresh"
    /\ LET naming == {a \in OfKind("assessment") : call.old \in stored[a].candidates}
           a == Min(naming)
           candidates == (stored[a].candidates \ {call.old}) \cup {call.new}
           covered == Covered(stored[a].claim, stored[a].searched, candidates)
       IN  IF naming = {} THEN Return /\ UNCHANGED stored
           ELSE /\ Put([stored[a] EXCEPT !.candidates = candidates,
                                         !.status = ClaimStatus(covered, candidates)])
                /\ call' = [call EXCEPT !.old = a, !.new = Len(stored) + 1]
                /\ Goto("rereport")
    /\ UNCHANGED prov

\* The newest report that names the old assessment and that none of these
\* supersedes is made anew, and gated.
RefreshReport ==
    /\ at = "rereport"
    /\ LET naming == {r \in Reports : call.old \in stored[r].assessments}
           r == Max(naming \ {stored[n].supersedes : n \in naming})
           assessments == (stored[r].assessments \ {call.old}) \cup {call.new}
       IN  IF naming = {} THEN Return /\ UNCHANGED stored
           ELSE /\ Put([stored[r] EXCEPT
                           !.assessments = assessments, !.supersedes = r,
                           !.overall = Overall(stored[r].claims, OwnVerdicts(assessments))])
                /\ call' = [call EXCEPT !.report = Len(stored) + 1,
                                        !.manuscript = stored[r].manuscript]
                /\ Goto("gate")
    /\ UNCHANGED prov

\* A put or a link raises.
CallRaises ==
    /\ at \in {"enrich", "judge", "refresh", "rereport", "gate", "put_gate"}
    /\ Return /\ UNCHANGED <<stored, prov>>

\* The authors format a version and package it.  Of the steps of a call only
\* the gate's check depends on it: it is taken between calls and after the check.
Revise ==
    /\ at \in {"idle", "put_gate"}
    /\ Cardinality(Manuscripts) < Len(Versions)
    /\ LET n == Cardinality(Manuscripts) + 1
       IN  Put([kind |-> "manuscript", claims |-> Versions[n], ready |-> n \in Ready])
    /\ UNCHANGED <<prov, at, call, calls, deaths>>

NoveltyNext ==
    \/ Revise
    \/ \E m \in Manuscripts, policy \in Policies :
          \/ \E limit \in ClaimLimits : Validate(m, policy, limit)
          \/ \E r \in Reports, force \in BOOLEAN, same \in SUBSET Similar :
                Revalidate(r, m, policy, force, same)
    \/ \E paper \in PriorArt : Acquire(paper)
    \/ \E papers \in CandidateSets : \E judged \in [DOMAIN papers -> Relationships] :
          AssessCandidates(papers, judged)
    \/ \E searched \in BOOLEAN : AssessClaim(searched)
    \/ Recommended \/ ClaimFails \/ PreacquisitionFails \/ PutNoveltyReport
    \/ \E m \in Manuscripts : \E r \in Reports \cup {LatestReport(m)} : Gate(m, r)
    \/ CheckReport \/ PutGate
    \/ \E candidate \in OfKind("candidate") : Enrich(candidate)
    \/ Enriched \/ RefreshAssessment \/ RefreshReport \/ CallRaises
    \/ \E relationship \in Relationships : JudgeAgain(relationship)
    \/ Die

NoveltySpec == NothingStored /\ [][NoveltyNext]_researchVars

-----------------------------------------------------------------------------
\* What an assessment says holds of a claim of this report.
Vouches(a, claim, report) ==
    /\ stored[a].status = "not_threatened" /\ stored[a].searched
    /\ stored[a].policy = stored[report].policy
    /\ Repeated(stored[claim], {stored[a].claim}, Similar) # {}
    /\ \A k \in stored[a].candidates :
          /\ stored[k].relationship = "distinct" /\ HasEvidence(stored[k].paper)
          /\ \A l \in OfKind("candidate") : stored[l].of # k

(* A package is certified for what was found out: it is ready, its          *)
(* manuscript was the current one, and every claim of the report has its    *)
(* own assessment, of a claim that means the same, by the report's policy,  *)
(* with all searches made and every candidate judged from evidence and      *)
(* found distinct, a judgement that is never revised.                       *)
ReadyIsEarned ==
    \A g \in Gates : stored[g].status = "ready" =>
        LET report == stored[g].report
            r == stored[report]
        IN  /\ r.manuscript = stored[g].manuscript /\ stored[r.manuscript].ready
            /\ \A m \in Manuscripts : m <= stored[g].checked => m <= r.manuscript
            /\ r.failed = 0 /\ r.claims # {}
            /\ \A c \in r.claims : \E a \in r.assessments : Vouches(a, c, report)
            /\ Cardinality(r.assessments) = Cardinality(r.claims)
=============================================================================
