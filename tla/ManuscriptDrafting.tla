--------------------------- MODULE ManuscriptDrafting ---------------------------
(***************************************************************************)
(* From an experiment to a manuscript: research.results_assembler has a    *)
(* model state findings, and contributions and implications that rest on   *)
(* them; research.results_critic criticises the package;                   *)
(* research.manuscript_drafter outlines the manuscript, has it drafted     *)
(* section by section, and the sections revised that                       *)
(* research.manuscript_critic finds fault with.                            *)
(*                                                                         *)
(* One experiment, one model role for each service.  Texts are left out,   *)
(* of a text's conditions is kept which they state and whether negated.    *)
(* Links, which no service here reads, are left out, and so are items past *)
(* the maximum, other than findings.                                       *)
(***************************************************************************)
EXTENDS ResearchRun, FiniteSetsExt, SequencesExt

CONSTANTS
    Conditions,     \* of each proposition; its domain are the propositions' ids
    Verdicts,       \* what their verification may come to, of each
    Results,        \* statics and results of the experiment: ids
    Contradicted,   \* propositions the numbers of the experiment contradict
    Literature,     \* other artifacts that exist: evidence, the gap
    AssemblerAnswers, \* of the assembler's model: [findings, claims]
    MaxFindings, MaxAttempts,
    Specs,          \* the outlined sections, a sequence of [id, allowed]
    Wanted,         \* the sections a draft may be asked for; {} stands for all
    SectionAnswers, \* of the drafter's model: [well, claims]
    Faults,         \* the sections a critic may find fault with
    MaxRetries, MaxSectionCalls

\* Static and numerical results are no propositions.
ASSUME AssemblyAssumption ==
    /\ Results \cap DOMAIN Conditions = {}
    /\ MaxFindings \in Nat
    /\ \A a \in AssemblerAnswers :
          /\ a.findings \in Seq(ToSet(a.findings)) /\ a.claims \in Seq(ToSet(a.claims))
          /\ \A c \in ToSet(a.claims) : c.kind \in {"contribution", "implication"}

ASSUME SpecsAssumption == Specs \in Seq(ToSet(Specs))

\* The calls a process made of the drafter's model; a service lives as long.
Asked == IF "asked" \in DOMAIN call THEN call.asked ELSE 0

DraftingLocals ==
    [asked |-> Asked, attempts |-> 0, verified |-> {}, answer |-> <<>>, made |-> <<>>, claims |-> <<>>,
     outline |-> 0, wanted |-> {}, todo |-> <<>>, flagged |-> {}, revises |-> 0, new |-> 0]

\* The call is over, the process goes on; or another one follows it.
Leave == at' = "idle" /\ call' = [asked |-> call.asked] /\ UNCHANGED <<calls, deaths>>

NewProcess ==
    /\ at = "idle" /\ call # NoCall
    /\ call' = NoCall /\ UNCHANGED <<stored, prov, at, calls, deaths>>

\* What is there already.
Again == at = "idle" /\ UNCHANGED researchVars

Continue(step, locals) == call' = locals /\ Goto(step) /\ UNCHANGED <<stored, prov>>

-----------------------------------------------------------------------------
(* Verification of the propositions, by another service, at any time        *)
Verification(p) == {v \in OfKind("verification") : stored[v].proposition = p}

VerifyProposition(p, status) ==
    /\ Verification(p) = {}
    /\ PutAtOnce([kind |-> "verification", proposition |-> p, status |-> status])

\* Mutant: a verification, whatever its status.
Checked == {p \in DOMAIN Conditions : Verification(p) # {}}

Verified == {p \in DOMAIN Conditions : \E v \in Verification(p) : stored[v].status = "verified"}

-----------------------------------------------------------------------------
(* Assembly                                                                 *)
\* Every condition verbatim.
Verbatim(conditions, stated) == \A c \in conditions : [of |-> c, negated |-> FALSE] \in stated

SoundFinding(finding, verified) ==
    /\ finding.supports # {} /\ finding.supports \subseteq verified \cup Results
    /\ Verbatim(UNION {Conditions[p] : p \in finding.supports \cap verified}, finding.conditions)

Findings(answer) == SubSeq(answer.findings, 1, Min({MaxFindings, Len(answer.findings)}))

\* Claims name findings by their position.
SoundAnswer(answer, verified) ==
    /\ \A k \in DOMAIN Findings(answer) : SoundFinding(Findings(answer)[k], verified)
    /\ \A k \in DOMAIN answer.claims :
          /\ answer.claims[k].refs \subseteq DOMAIN Findings(answer)
          /\ answer.claims[k].kind = "contribution" => answer.claims[k].refs # {}

Assemblies == {x \in OfKind("assembly") : stored[x].findings # <<>>}

Assemble ==
    /\ Assemblies = {}
    /\ Call("assemble", [DraftingLocals EXCEPT !.verified = Verified])
    /\ UNCHANGED <<stored, prov>>

AssembleAgain == Assemblies # {} /\ Again

\* The call failed, or the answer is rejected as a whole, before anything is put.
AnswerRejected ==
    /\ at = "assemble"
    /\ UNCHANGED <<stored, prov>>
    /\ IF call.attempts + 1 = MaxAttempts THEN Leave
       ELSE call' = [call EXCEPT !.attempts = @ + 1] /\ Goto("assemble")

AnswerAccepted(answer) ==
    /\ at = "assemble" /\ SoundAnswer(answer, call.verified)
    /\ Continue("finding", [call EXCEPT !.answer = answer])

PutFinding ==
    /\ at = "finding" /\ Len(call.made) < Len(Findings(call.answer))
    /\ LET finding == Findings(call.answer)[Len(call.made) + 1]
       IN  PutThen([kind |-> "finding", supports |-> finding.supports,
                    conditions |-> finding.conditions],
                   "finding", [call EXCEPT !.made = Append(@, Len(stored) + 1)])

\* Mutant: a position counts all the findings stored.
OfAll(k) == SetToSortSeq(OfKind("finding"), <)[k]

\* The finding at a position of this answer.
FindingAt(k) == call.made[k]

PutClaim ==
    /\ at = "finding" /\ Len(call.made) = Len(Findings(call.answer))
    /\ Len(call.claims) < Len(call.answer.claims)
    /\ LET claim == call.answer.claims[Len(call.claims) + 1]
       IN  PutThen([kind |-> claim.kind, findings |-> {FindingAt(k) : k \in claim.refs}],
                   "finding", [call EXCEPT !.claims = Append(@, Len(stored) + 1)])

PutResults ==
    /\ at = "finding" /\ Len(call.made) = Len(Findings(call.answer))
    /\ Len(call.claims) = Len(call.answer.claims)
    /\ PutThen([kind |-> "package", findings |-> call.made, claims |-> call.claims],
               "assembled", [call EXCEPT !.new = Len(stored) + 1])

PutAssembly ==
    /\ at = "assembled"
    /\ Put([kind |-> "assembly", findings |-> call.made, package |-> call.new])
    /\ Leave /\ UNCHANGED prov

\* Findings on what the numbers contradict; nobody acts on it.
CritiquePackage(package) ==
    IF \E c \in OfKind("package critique") : stored[c].package = package THEN Again
    ELSE PutAtOnce([kind |-> "package critique", package |-> package,
                   issues |-> {f \in ToSet(stored[package].findings) :
                                 stored[f].supports \cap Contradicted # {}}])

Outline(package) ==
    IF \E o \in OfKind("outline") : stored[o].package = package THEN Again
    ELSE PutAtOnce([kind |-> "outline", package |-> package])

-----------------------------------------------------------------------------
(* Drafting                                                                 *)
\* Every condition in some form, be it within its negation.
Mentioned(conditions, stated) == \A c \in conditions : \E s \in stated : s.of = c

\* A ground is judged by the type that is declared for it.
SoundClaim(claim, spec, verified) ==
    /\ claim.ground # 0 \/ claim.cited
    /\ claim.ground # 0 =>
          /\ claim.type \in spec.allowed
          /\ claim.ground \in DOMAIN Conditions \cup Results \cup Literature \cup Stored
          /\ claim.type = "proposition" =>
                claim.ground \in verified /\ Mentioned(Conditions[claim.ground], claim.conditions)
          /\ claim.type = "result" => claim.ground \in Results
          /\ claim.type = "evidence" => claim.cited

SoundSection(answer, spec, verified) ==
    /\ answer.well /\ answer.claims # {}
    /\ \A claim \in answer.claims : SoundClaim(claim, spec, verified)

SpecsOf(wanted) == Among(Specs, {s \in ToSet(Specs) : wanted = {} \/ s.id \in wanted})

DraftExecutions(outline, wanted) ==
    {x \in OfKind("draft execution") : stored[x].outline = outline /\ stored[x].wanted = wanted}

Draft(outline, wanted) ==
    /\ DraftExecutions(outline, wanted) = {}
    /\ Call("section",
            [DraftingLocals EXCEPT !.outline = outline, !.wanted = wanted, !.verified = Verified,
                                   !.todo = [k \in DOMAIN SpecsOf(wanted) |->
                                               [spec |-> SpecsOf(wanted)[k], old |-> 0]]])
    /\ UNCHANGED <<stored, prov>>

DraftAgain(outline, wanted) == DraftExecutions(outline, wanted) # {} /\ Again

\* The calls are counted from the beginning of the process; revisions do not look.
SectionsSpent ==
    /\ at = "section" /\ call.todo # <<>>
    /\ call.revises = 0 /\ call.attempts = 0 /\ call.asked >= MaxSectionCalls
    /\ Leave /\ UNCHANGED <<stored, prov>>

Drafting ==
    /\ at = "section" /\ call.todo # <<>>
    /\ Head(call.todo).old # 0 => Head(call.todo).spec.id \in call.flagged
    /\ call.revises = 0 /\ call.attempts = 0 => call.asked < MaxSectionCalls

\* A call that fails is not counted, an answer that is rejected is.
SectionRejected(counted) ==
    /\ Drafting
    /\ UNCHANGED <<stored, prov>>
    /\ LET after == [call EXCEPT !.asked = @ + counted, !.attempts = @ + 1]
       IN  IF call.attempts = MaxRetries
           THEN at' = "idle" /\ call' = [asked |-> after.asked] /\ UNCHANGED <<calls, deaths>>
           ELSE call' = after /\ Goto("section")

PutSection(answer) ==
    /\ Drafting /\ SoundSection(answer, Head(call.todo).spec, call.verified)
    /\ PutThen([kind |-> "section", id |-> Head(call.todo).spec.id, claims |-> answer.claims],
               "section", [call EXCEPT !.asked = @ + 1, !.attempts = 0, !.todo = Tail(@),
                                       !.made = Append(@, Len(stored) + 1)])

\* A section without a fault is the one it was.
KeepSection ==
    /\ at = "section" /\ call.todo # <<>>
    /\ Head(call.todo).old # 0 /\ Head(call.todo).spec.id \notin call.flagged
    /\ Continue("section", [call EXCEPT !.todo = Tail(@), !.made = Append(@, Head(call.todo).old)])

NothingDrafted ==
    /\ at = "section" /\ call.todo = <<>> /\ call.made = <<>>
    /\ Leave /\ UNCHANGED <<stored, prov>>

PutDraft ==
    /\ at = "section" /\ call.todo = <<>> /\ call.made # <<>>
    /\ PutThen([kind |-> "draft", outline |-> call.outline, wanted |-> call.wanted,
                sections |-> call.made, supersedes |-> call.revises],
               "drafted", [call EXCEPT !.new = Len(stored) + 1])

PutDraftExecution ==
    /\ at = "drafted"
    /\ Put([kind |-> "draft execution", draft |-> call.new, outline |-> call.outline,
            wanted |-> IF call.revises = 0 THEN call.wanted ELSE {"revision"}])
    /\ Leave /\ UNCHANGED prov

-----------------------------------------------------------------------------
(* Critique and revision                                                    *)
DraftCritiques(draft) == {c \in OfKind("draft critique") : stored[c].draft = draft}

SectionIds(draft) == {stored[s].id : s \in ToSet(stored[draft].sections)}

\* The faults the model finds, and limitations that are missing.
CritiqueDraft(draft, faults) ==
    /\ DraftCritiques(draft) = {}
    /\ PutAtOnce([kind |-> "draft critique", draft |-> draft,
                 faults |-> faults \cup ({"limitations"} \ SectionIds(draft))])

CritiqueDraftAgain(draft) == DraftCritiques(draft) # {} /\ Again

\* Mutant: the faults of the draft before it.
FaultsBefore(draft) == UNION {stored[c].faults : c \in DraftCritiques(stored[draft].supersedes)}

FaultsOf(draft) == UNION {stored[c].faults : c \in DraftCritiques(draft)}

\* Only a revision that has its execution is over.
DraftRevisions(draft) ==
    {d \in OfKind("draft") : /\ stored[d].supersedes = draft
                             /\ \E x \in OfKind("draft execution") : stored[x].draft = d}

SpecOf(id) == CHOOSE spec \in ToSet(Specs) : spec.id = id

ReviseDraft(draft) ==
    /\ DraftRevisions(draft) = {}
    /\ Call("section",
            [DraftingLocals EXCEPT !.outline = stored[draft].outline, !.wanted = stored[draft].wanted,
                                   !.verified = Verified, !.flagged = FaultsOf(draft), !.revises = draft,
                                   !.todo = [k \in DOMAIN stored[draft].sections |->
                                               [spec |-> SpecOf(stored[stored[draft].sections[k]].id),
                                                old |-> stored[draft].sections[k]]]])
    /\ UNCHANGED <<stored, prov>>

ReviseDraftAgain(draft) == DraftRevisions(draft) # {} /\ Again

DraftingNext ==
    \/ \E p \in DOMAIN Conditions : \E status \in Verdicts[p] : VerifyProposition(p, status)
    \/ Assemble \/ AssembleAgain \/ AnswerRejected
    \/ \E answer \in AssemblerAnswers : AnswerAccepted(answer)
    \/ PutFinding \/ PutClaim \/ PutResults \/ PutAssembly
    \/ \E p \in OfKind("package") : CritiquePackage(p) \/ Outline(p)
    \/ \E o \in OfKind("outline"), wanted \in Wanted : Draft(o, wanted) \/ DraftAgain(o, wanted)
    \/ SectionsSpent \/ \E counted \in {0, 1} : SectionRejected(counted)
    \/ \E answer \in SectionAnswers : PutSection(answer)
    \/ KeepSection \/ NothingDrafted \/ PutDraft \/ PutDraftExecution
    \/ \E d \in OfKind("draft") :
          \/ CritiqueDraftAgain(d) \/ ReviseDraft(d) \/ ReviseDraftAgain(d)
          \/ \E faults \in Faults : CritiqueDraft(d, faults)
    \/ NewProcess \/ Die

DraftingSpec == NothingStored /\ [][DraftingNext]_researchVars

-----------------------------------------------------------------------------
(* What a package claims rests on findings of that package, and these on    *)
(* propositions that were verified, with all their conditions, or on        *)
(* results; an answer that is rejected leaves nothing, so without a death   *)
(* every finding is in the one package of an assembly; a draft has the      *)
(* sections it was asked for, in the outline's order, and a revision those  *)
(* of the draft it supersedes, the faultless ones unchanged and the others  *)
(* written after the critique; and a draft or a revision that was completed *)
(* is not made a second time.                                               *)
DraftsFollow ==
    /\ \A p \in OfKind("package") :
          /\ \A c \in ToSet(stored[p].claims) : stored[c].findings \subseteq ToSet(stored[p].findings)
          /\ \A f \in ToSet(stored[p].findings) : \A s \in stored[f].supports \cap DOMAIN Conditions :
                /\ \E v \in Verification(s) : v < f /\ stored[v].status = "verified"
                /\ \A c \in Conditions[s] : [of |-> c, negated |-> FALSE] \in stored[f].conditions
    /\ deaths = 0 /\ at = "idle" =>
          \A f \in OfKind("finding") :
             Cardinality({p \in OfKind("package") : f \in ToSet(stored[p].findings)}) = 1
    /\ \A x, y \in Assemblies : x = y
    /\ \A d \in OfKind("draft") :
          LET draft == stored[d]
              ids == [k \in DOMAIN draft.sections |-> stored[draft.sections[k]].id]
              old == stored[draft.supersedes].sections
          IN  /\ ids = [k \in DOMAIN SpecsOf(draft.wanted) |-> SpecsOf(draft.wanted)[k].id]
              /\ draft.supersedes # 0 =>
                    \A k \in DOMAIN old :
                       LET faulty == {c \in DraftCritiques(draft.supersedes) :
                                        c < d /\ ids[k] \in stored[c].faults}
                       IN  IF faulty = {} THEN draft.sections[k] = old[k]
                           ELSE \A c \in faulty : draft.sections[k] > c
    /\ \A x, y \in OfKind("draft execution") :
          LET d == stored[stored[x].draft]
              e == stored[stored[y].draft]
          IN  d.outline = e.outline /\ d.wanted = e.wanted /\ d.supersedes = e.supersedes => x = y
=============================================================================
