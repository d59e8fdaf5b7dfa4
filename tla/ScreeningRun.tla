----------------------------- MODULE ScreeningRun -----------------------------
(***************************************************************************)
(* literature.screening_orchestrator with the title/abstract screener it   *)
(* calls, and the reviews a person adds with `screening review` at any     *)
(* time.  One protocol, approved; a view is built for every candidate that *)
(* is screened, or cannot be.                                              *)
(*                                                                         *)
(* Artifacts: decisions of the model, reviews of decisions, and the set of *)
(* screened literature with which a run ends.                              *)
(***************************************************************************)
EXTENDS ResearchRun, FiniteSetsExt, SequencesExt

CONSTANTS
    CandidateLists,    \* the current identities of a search execution
    Answers,           \* answers of the model: [disposition, matched, low]
    MaxModelCalls,     \* max_model_calls
    ReviewUncertain,   \* review_uncertain
    ReviewLow,         \* review_low_confidence_below is set
    MaxReviews         \* bound: reviews by a person

Dispositions == {"include", "exclude", "uncertain"}

\* A search execution lists the identities of papers that its own search stored,
\* each once: the resolver makes one identity of each group.
ASSUME CandidatesAssumption ==
    \A candidates \in CandidateLists :
       candidates \in Seq(ToSet(candidates)) /\ IsInjective(candidates)

ASSUME AnswersAssumption ==
    Answers \subseteq [disposition : Dispositions, matched : BOOLEAN, low : BOOLEAN]

Decisions == OfKind("decision")
ReviewsOf(d) == {r \in OfKind("review") : stored[r].decision = d}

\* Mutants: the rule of M41 as it was, that of M38 as it was, no reuse.
NotForced(disposition, matched) == disposition
ApprovedAnyway(d, approved) == stored[d].disposition
Never(c) == {}

\* _find_existing_decision.
DecisionsOn(c) == {d \in Decisions : stored[d].candidate = c}

\* The review that counts when a decision is reused: the first one listed.
Final(d) ==
    IF ReviewsOf(d) = {} THEN stored[d].disposition ELSE stored[Min(ReviewsOf(d))].final

\* Matched exclusion criteria force the exclusion (M41).
Forced(disposition, matched) == IF matched THEN "exclude" ELSE disposition

NeedsReview(d) ==
    \/ stored[d].disposition = "uncertain" /\ ReviewUncertain
    \/ stored[d].low /\ ReviewLow

\* What counts after a review: the model's disposition, if it was approved (M38).
AfterReview(d, approved) == IF approved THEN stored[d].disposition ELSE "uncertain"

-----------------------------------------------------------------------------
Candidate == Head(call.todo)

\* Candidates are counted as lists in the code, and each is in the list once.
Counted(final) ==
    call' = [call EXCEPT !.todo = Tail(@), !.counted[final] = @ \cup {Candidate}]

Failed == call' = [call EXCEPT !.todo = Tail(@), !.failed = @ \cup {Candidate}]

Screen(candidates) ==
    /\ Call("next", [todo |-> candidates, counted |-> [d \in Dispositions |-> {}],
                     failed |-> {}, decisions |-> {}, asked |-> 0, decision |-> 0,
                     execution |-> 0])
    /\ UNCHANGED <<stored, prov>>

BudgetStop ==
    /\ at = "next" /\ call.todo # <<>> /\ call.asked >= MaxModelCalls
    /\ Goto("record") /\ UNCHANGED <<stored, prov, call>>

\* A decision of an earlier run is taken over; when it cannot be read after
\* all, the candidate counts as failed (M39), its decision stays listed.
ReuseDecision ==
    /\ at = "next" /\ call.todo # <<>> /\ call.asked < MaxModelCalls
    /\ DecisionsOn(Candidate) # {}
    /\ LET d == Min(DecisionsOn(Candidate))
       IN  \/ call' = [call EXCEPT !.todo = Tail(@), !.decisions = @ \cup {d},
                                   !.counted[Final(d)] = @ \cup {Candidate}]
           \/ call' = [call EXCEPT !.todo = Tail(@), !.decisions = @ \cup {d},
                                   !.failed = @ \cup {Candidate}]
    /\ Goto("next") /\ UNCHANGED <<stored, prov>>

\* The view fails, or the model call, or its answer is refused: not JSON, a
\* criterion that is not in the protocol.  None of these calls is counted.
ScreenFails ==
    /\ at = "next" /\ call.todo # <<>> /\ call.asked < MaxModelCalls
    /\ DecisionsOn(Candidate) = {}
    /\ Failed /\ Goto("next") /\ UNCHANGED <<stored, prov>>

Decide(answer) ==
    /\ at = "next" /\ call.todo # <<>> /\ call.asked < MaxModelCalls
    /\ DecisionsOn(Candidate) = {}
    /\ Put([kind |-> "decision", candidate |-> Candidate, matched |-> answer.matched,
            low |-> answer.low, disposition |-> Forced(answer.disposition, answer.matched)])
    /\ call' = [call EXCEPT !.decision = Len(stored) + 1]
    /\ Goto("decided") /\ UNCHANGED prov

\* The links to view, protocol and identity; if one cannot be stored, the
\* candidate fails in this run, while its decision stays.  It also fails when
\* the decision, listed by now, cannot be read back.
LinkDecision ==
    /\ at = "decided"
    /\ \/ /\ prov' = prov \cup {<<Candidate, call.decision, "generated_from">>}
          /\ call' = [call EXCEPT !.asked = @ + 1, !.decisions = @ \cup {call.decision}]
          /\ Goto("review")
       \/ Failed /\ Goto("next") /\ UNCHANGED prov
    /\ UNCHANGED stored

DecisionUnread ==
    /\ at = "decided"
    /\ call' = [call EXCEPT !.todo = Tail(@), !.failed = @ \cup {Candidate}, !.asked = @ + 1,
                            !.decisions = @ \cup {call.decision}]
    /\ prov' = prov \cup {<<Candidate, call.decision, "generated_from">>}
    /\ Goto("next") /\ UNCHANGED stored

\* No review, or one whose policy raises: the model's disposition counts.
NotReviewed ==
    /\ at = "review"
    /\ Counted(stored[call.decision].disposition)
    /\ Goto("next") /\ UNCHANGED <<stored, prov>>

\* The policy's answer counts as soon as it is there; what raises later, the
\* put of the review or its link, is logged and no more.
Review(approved) ==
    /\ at = "review" /\ NeedsReview(call.decision)
    /\ LET final == AfterReview(call.decision, approved)
       IN  /\ Put([kind |-> "review", decision |-> call.decision, final |-> final,
                    by |-> IF approved THEN "policy" ELSE "disapproval"])
           /\ Counted(final)
    /\ \/ prov' = prov \cup {<<call.decision, Len(stored) + 1, "derived_from">>}
       \/ UNCHANGED prov
    /\ Goto("next")

ReviewLost(approved) ==
    /\ at = "review" /\ NeedsReview(call.decision)
    /\ Counted(AfterReview(call.decision, approved))
    /\ Goto("next") /\ UNCHANGED <<stored, prov>>

\* The execution and, after it, the set.
Record ==
    /\ (at = "next" /\ call.todo = <<>>) \/ at = "record"
    /\ Put([kind |-> "execution", decisions |-> call.decisions])
    /\ call' = [call EXCEPT !.execution = Len(stored) + 1]
    /\ Goto("set") /\ UNCHANGED prov

PutSet ==
    /\ at = "set"
    /\ Put([kind |-> "set", counted |-> call.counted, failed |-> call.failed,
            decisions |-> call.decisions])
    /\ prov' = prov \cup {<<call.execution, Len(stored) + 1, "derived_from">>}
    /\ Return

\* `screening review`, in a process of its own.
Override(d, final) ==
    /\ Cardinality({r \in OfKind("review") : stored[r].by = "human"}) < MaxReviews
    /\ Put([kind |-> "review", decision |-> d, final |-> final, by |-> "human"])
    /\ prov' = prov \cup {<<d, Len(stored) + 1, "derived_from">>}
    /\ UNCHANGED <<at, call, calls, deaths>>

ScreeningNext ==
    \/ \E candidates \in CandidateLists : Screen(candidates)
    \/ BudgetStop \/ ReuseDecision \/ ScreenFails \/ LinkDecision \/ DecisionUnread
    \/ NotReviewed \/ Record \/ PutSet
    \/ \E answer \in Answers : Decide(answer)
    \/ \E approved \in BOOLEAN : Review(approved) \/ ReviewLost(approved)
    \/ \E d \in Decisions, final \in Dispositions : Override(d, final)
    \/ Die

ScreeningSpec == NothingStored /\ [][ScreeningNext]_researchVars

-----------------------------------------------------------------------------
Sets == OfKind("set")
ByPerson(d, final) == \E r \in ReviewsOf(d) : stored[r].by = "human" /\ stored[r].final = final

(* The screened literature follows from the decisions and their reviews,    *)
(* over runs that were cut short, taken up again, ran into failures or were *)
(* overridden meanwhile: a candidate is asked about once, counted once and  *)
(* with a disposition that its decision or a review gave it; a paper that   *)
(* matches an exclusion criterion (which the code excludes, whatever the    *)
(* model says of it) is included only by a person, and what the policy did  *)
(* not approve counts as uncertain unless a person decided.  One count has  *)
(* nothing stored behind it: a decision up for review counts as uncertain   *)
(* when the policy did not approve and its review could not be put.         *)
ScreenedAsDecided ==
    /\ \A c, d \in Decisions : stored[c].candidate = stored[d].candidate => c = d
    /\ \A s \in Sets, f \in Dispositions : \A c \in stored[s].counted[f] :
          /\ c \notin stored[s].failed
          /\ \A g \in Dispositions \ {f} : c \notin stored[s].counted[g]
          /\ \E d \in stored[s].decisions :
                /\ stored[d].candidate = c
                /\ \/ f = stored[d].disposition
                   \/ \E r \in ReviewsOf(d) : stored[r].final = f
                   \/ f = "uncertain" /\ NeedsReview(d)
                /\ f = "include" /\ stored[d].matched => ByPerson(d, f)
                /\ \A r \in ReviewsOf(d) :
                      r < s /\ stored[r].by = "disapproval" => f = "uncertain" \/ ByPerson(d, f)
=============================================================================
