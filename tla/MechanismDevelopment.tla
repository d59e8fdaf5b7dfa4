-------------------------- MODULE MechanismDevelopment --------------------------
(***************************************************************************)
(* From a gap analysis to a mechanism: research.gap_selection chooses a    *)
(* gap and has the choice approved, research.mechanism_generator proposes  *)
(* mechanisms for it, research.mechanism_critic criticises them and        *)
(* selects one, revised.  What is known of a selection's mechanisms is     *)
(* their analysis, each version of which supersedes the one before.        *)
(*                                                                         *)
(* One gap analysis, one autonomy mode, one model for each role.  A link   *)
(* is <<source, target, relation>>; one that raises leaves what a death    *)
(* leaves, except where the code passes over it.                           *)
(***************************************************************************)
EXTENDS ResearchRun, FiniteSetsExt, SequencesExt

CONSTANTS
    Gaps,        \* the gaps of the analysis, ranked: ids of artifacts stored before
    Proposals    \* what the model proposes: sequences of BOOLEAN, is it grounded?

\* There is a gap to choose, and none has the id of an artifact that is stored here.
ASSUME GapsAssumption ==
    Gaps \in Seq(Int) /\ Gaps # <<>> /\ \A k \in DOMAIN Gaps : Gaps[k] < 0

Analysed == -100    \* the artifact of the gap analysis

Statuses == <<"generated", "critiqued", "selected">>
Rank(status) == CHOOSE k \in DOMAIN Statuses : Statuses[k] = status

\* The artifact put last, and the links to it one after the other.
PutWithLinks(artifact, links, step, locals) ==
    /\ Put(artifact)
    /\ call' = [locals EXCEPT !.links = links, !.step = step]
    /\ Goto("link") /\ UNCHANGED prov

LinkNext ==
    /\ at = "link"
    /\ LET link == Head(call.links)
       IN  prov' = prov \cup {<<link[1], Latest, link[2]>>}
    /\ call' = [call EXCEPT !.links = Tail(@)]
    /\ Goto(IF Len(call.links) = 1 THEN call.step ELSE "link")
    /\ UNCHANGED stored

From(ids) == [k \in DOMAIN ids |-> <<ids[k], "derived_from">>]

\* A call that finds what it was to make, or that raises at once.
NothingNew == at = "idle" /\ calls < MaxCalls /\ calls' = calls + 1 /\ UNCHANGED <<stored, prov, at, call, deaths>>

Locals == [links |-> <<>>, step |-> "idle", gap |-> 0, selection |-> 0, todo |-> <<>>,
           made |-> <<>>, rejected |-> 0, candidate |-> 0, critiques |-> {}, new |-> 0,
           then |-> "done"]

-----------------------------------------------------------------------------
(* Gap selection                                                            *)
Standing == {s \in OfKind("selection") : stored[s].status # "rejected"}

\* The gap that is wanted, or the top-ranked where the model names none.
Chosen(named) == IF named \in ToSet(Gaps) THEN named ELSE Gaps[1]

\* Approval is asked for every choice.
SelectGap(named, approved) ==
    /\ Standing = {}
    /\ at = "idle" /\ calls < MaxCalls /\ calls' = calls + 1 /\ UNCHANGED deaths
    /\ Put([kind |-> "selection", gap |-> Chosen(named),
            status |-> IF approved THEN "approved" ELSE "rejected"])
    /\ call' = [Locals EXCEPT !.gap = Chosen(named), !.selection = Len(stored) + 1,
                              !.links = From(<<Analysed, Chosen(named)>>), !.step = "gap"]
    /\ at' = "link" /\ UNCHANGED prov

SelectGapAgain == Standing # {} /\ NothingNew

\* The chosen gap again, as selected: whatever was decided.
PutSelectedGap ==
    /\ at = "gap"
    /\ PutWithLinks([kind |-> "gap", of |-> call.gap, selection |-> call.selection],
                    <<<<call.gap, "supersedes">>, <<call.selection, "derived_from">>>>, "done", call)

-----------------------------------------------------------------------------
(* Generation                                                               *)
MayGenerate(selection) == stored[selection].status = "approved"

Generations(selection) ==
    {x \in OfKind("generation") : stored[x].selection = selection /\ stored[x].created # <<>>}

Generate(selection, proposals) ==
    /\ Generations(selection) = {} /\ MayGenerate(selection)
    /\ Call("generate", [Locals EXCEPT !.selection = selection, !.todo = proposals])
    /\ UNCHANGED <<stored, prov>>

GenerateAgainOrRefused(selection) ==
    /\ Generations(selection) # {} \/ ~MayGenerate(selection)
    /\ NothingNew

\* The model fails: an execution without candidates, and no analysis.
GenerationFails(selection) ==
    /\ Generations(selection) = {} /\ MayGenerate(selection)
    /\ at = "idle" /\ calls < MaxCalls /\ calls' = calls + 1
    /\ Put([kind |-> "generation", selection |-> selection, created |-> <<>>, rejected |-> 0])
    /\ UNCHANGED <<prov, at, call, deaths>>

PutCandidate ==
    /\ at = "generate" /\ call.todo # <<>>
    /\ IF Head(call.todo)
       THEN PutWithLinks([kind |-> "candidate", selection |-> call.selection],
                         From(<<stored[call.selection].gap>>), "generate",
                         [call EXCEPT !.todo = Tail(@), !.made = Append(@, Len(stored) + 1)])
       ELSE /\ call' = [call EXCEPT !.todo = Tail(@), !.rejected = @ + 1]
            /\ Goto("generate") /\ UNCHANGED <<stored, prov>>

PutExecution ==
    /\ at = "generate" /\ call.todo = <<>>
    /\ Put([kind |-> "generation", selection |-> call.selection, created |-> call.made,
            rejected |-> call.rejected])
    /\ call' = [call EXCEPT !.new = Len(stored) + 1]
    /\ Goto("analysis") /\ UNCHANGED prov

PutAnalysis ==
    /\ at = "analysis"
    /\ PutWithLinks([kind |-> "analysis", selection |-> call.selection, candidates |-> ToSet(call.made),
                     critiques |-> {}, mechanism |-> 0, status |-> "generated"],
                    From(<<call.selection, call.new>> \o call.made), "done", call)

-----------------------------------------------------------------------------
(* The analysis in force: the newest of those that nothing supersedes       *)
Analyses(selection) == {a \in OfKind("analysis") : stored[a].selection = selection}

CurrentAnalysis(selection) ==
    LET leaves == {a \in Analyses(selection) : \A l \in prov : l[1] = a => l[3] # "supersedes"}
    IN  IF Analyses(selection) = {} THEN 0
        ELSE Max(IF leaves = {} THEN Analyses(selection) ELSE leaves)

\* A critique or a selection evolves it; there may be none.
UpdateAnalysis(critique, mechanism, then) ==
    LET selection == stored[call.candidate].selection
        current == CurrentAnalysis(selection)
        old == stored[current]
    IN  IF current = 0
        THEN Goto(then) /\ UNCHANGED <<stored, prov, call>>
        ELSE PutWithLinks(
                [old EXCEPT !.critiques = @ \cup critique,
                            !.mechanism = IF mechanism = 0 THEN @ ELSE mechanism,
                            !.status = CASE mechanism # 0 -> "selected"
                                         [] mechanism = 0 /\ @ = "generated" -> "critiqued"
                                         [] OTHER -> @],
                <<<<current, "supersedes">>>>, then, call)

-----------------------------------------------------------------------------
(* Critique and selection                                                   *)
CritiquesOf(candidate) == {k \in OfKind("mechanism_critique") : stored[k].candidate = candidate}

MechanismsOf(candidate) == {m \in OfKind("mechanism") : stored[m].candidate = candidate}

Critique(candidate) ==
    /\ CritiquesOf(candidate) = {}
    /\ Call("critique", [Locals EXCEPT !.candidate = candidate])
    /\ UNCHANGED <<stored, prov>>

CritiqueAgain(candidate) == CritiquesOf(candidate) # {} /\ NothingNew

\* The critic raises if its model does.
CritiqueFails == at = "critique" /\ Return /\ UNCHANGED <<stored, prov>>

PutCritique ==
    /\ at = "critique"
    /\ PutWithLinks([kind |-> "mechanism_critique", candidate |-> call.candidate],
                    From(<<call.candidate>>), "critiqued", [call EXCEPT !.new = Len(stored) + 1])

AnalysisCritiqued == at = "critiqued" /\ UpdateAnalysis({call.new}, 0, call.then)

\* Mutant: a candidate is selected without a critique.
Uncriticised(candidate) == "select"

\* A candidate without a critique is criticised first.
FirstStep(candidate) == IF CritiquesOf(candidate) = {} THEN "critique" ELSE "select"

SelectMechanism(candidate) ==
    /\ MechanismsOf(candidate) = {}
    /\ Call(FirstStep(candidate),
            [Locals EXCEPT !.candidate = candidate, !.then = "select"])
    /\ UNCHANGED <<stored, prov>>

SelectMechanismAgain(candidate) == MechanismsOf(candidate) # {} /\ NothingNew

\* Revised by the model, or as it was where the revision fails.
PutMechanism ==
    /\ at = "select"
    /\ LET critiques == CritiquesOf(call.candidate)
       IN  PutWithLinks([kind |-> "mechanism", candidate |-> call.candidate, critiques |-> critiques],
                        From(<<call.candidate>> \o SetToSeq(critiques)), "selected",
                        [call EXCEPT !.new = Len(stored) + 1])

AnalysisSelected == at = "selected" /\ UpdateAnalysis({}, call.new, "done")

Done == at = "done" /\ Return /\ UNCHANGED <<stored, prov>>

MechanismNext ==
    \/ \E named \in ToSet(Gaps) \cup {0}, approved \in BOOLEAN : SelectGap(named, approved)
    \/ SelectGapAgain \/ PutSelectedGap
    \/ \E s \in OfKind("selection") :
          \/ \E proposals \in Proposals : Generate(s, proposals)
          \/ GenerateAgainOrRefused(s) \/ GenerationFails(s)
    \/ PutCandidate \/ PutExecution \/ PutAnalysis
    \/ \E c \in OfKind("candidate") :
          Critique(c) \/ CritiqueAgain(c) \/ SelectMechanism(c) \/ SelectMechanismAgain(c)
    \/ CritiqueFails \/ PutCritique \/ AnalysisCritiqued \/ PutMechanism \/ AnalysisSelected
    \/ LinkNext \/ Done
    \/ Die

MechanismSpec == NothingStored /\ [][MechanismNext]_researchVars

-----------------------------------------------------------------------------
(* Every mechanism was developed for a gap whose selection was approved,    *)
(* and was criticised, itself, before it was selected; whatever the calls   *)
(* that were repeated or cut short, one selection stands, a candidate is    *)
(* criticised and selected once, and a selection is not generated for       *)
(* again once an execution tells of its candidates.                         *)
MechanismsEarned ==
    /\ \A m \in OfKind("mechanism") :
          LET candidate == stored[m].candidate
          IN  /\ stored[stored[candidate].selection].status = "approved"
              /\ stored[m].critiques # {}
              /\ \A k \in stored[m].critiques : k < m /\ stored[k].candidate = candidate
    /\ \A s, t \in Standing : s = t
    /\ \A kind \in {"mechanism_critique", "mechanism"} : \A k, l \in OfKind(kind) :
          stored[k].candidate = stored[l].candidate => k = l
    /\ \A x, y \in OfKind("generation") :
          /\ stored[x].selection = stored[y].selection
          /\ stored[x].created # <<>> /\ stored[y].created # <<>>
          => x = y

(* The analysis in force of a selection forgets no critique and goes from   *)
(* generated to critiqued to selected and never back, though versions of it *)
(* that were never linked stand beside those that supersede each other; and *)
(* where no call was cut short, it knows every critique of its candidates   *)
(* and the mechanism selected last.                                         *)
AnalysisKeeps ==
    \A s \in OfKind("selection") : CurrentAnalysis(s) # 0 =>
       LET old == stored[CurrentAnalysis(s)]
           new == stored'[CurrentAnalysis(s)']
       IN  /\ old.candidates # {} =>
                 /\ old.critiques \subseteq new.critiques
                 /\ Rank(old.status) <= Rank(new.status)
                 /\ old.mechanism # 0 => new.mechanism >= old.mechanism
           /\ deaths = 0 /\ at = "idle" =>
                 /\ old.critiques = {k \in OfKind("mechanism_critique") :
                                       stored[k].candidate \in old.candidates}
                 /\ old.mechanism = Max({0} \cup {m \in OfKind("mechanism") :
                                                    stored[m].candidate \in old.candidates})
=============================================================================
