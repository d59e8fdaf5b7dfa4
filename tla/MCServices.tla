----------------------------- MODULE MCServices -----------------------------
(* The research services, one per behaviour, each on a store of its own and *)
(* with calls that are repeated, that fail and that the process dies in.    *)
EXTENDS ScreeningRun, BenchmarkRun, IdentityResolution, MechanismDevelopment, EvidenceRun,
        LiteratureSearch, NoveltyValidation, ManuscriptDrafting, PublicationRun, BlobStore, TLC

CONSTANTS w1, w2, w3, r1, x1, d1, d2    \* the users of the blob store and the digests

VARIABLE service        \* the service that runs

\* Writers of the same or of other bytes in the same directory.
SameDir == d1 :> "ab/cd" @@ d2 :> "ab/cd"

\* Four paper records, joined by three identifiers in a chain.
MCPapers == 1 .. 4
MCIdentifiers == <<{1}, {1, 2}, {2}, {3, 1}>>
MCUnreadable == {{}, {1}}

\* Bound: of the MaxCalls calls, those of services whose calls are long.
MCCalls == 2

\* Two candidates; the model asks for any disposition, also for a paper it excludes.
MCCandidateLists == {<<1, 2>>}
MCAnswers == {[disposition |-> "include", matched |-> FALSE, low |-> FALSE],
              [disposition |-> "include", matched |-> TRUE, low |-> FALSE],
              [disposition |-> "include", matched |-> FALSE, low |-> TRUE],
              [disposition |-> "uncertain", matched |-> FALSE, low |-> FALSE]}

\* Two sources; one has a second page.
MCStrategies == {<<<<"crossref", "s2">>, <<"s2", "crossref">>>>}
MCPages == [s2 |-> <<2, 1>>, crossref |-> <<1>>]

\* Two identities of one DOI; offers of three URLs, one known already.
Locators == INSTANCE DocumentLocators WITH
    Identities <- {-1, -2},
    Doi <- [i \in {-1, -2} |-> "doi"],
    Known <- [i \in {-1, -2} |-> IF i = -1 THEN {2, 3} ELSE {}],
    Offers <- [doi |-> {[url |-> 1, direct |-> FALSE], [url |-> 2, direct |-> TRUE],
                        [url |-> 4, direct |-> TRUE]}],
    MaxLocations <- 3,
    MaxCalls <- 2, MaxDeaths <- 1

\* A paper with two locations and one with one; files with text and without.
Acquisition == INSTANCE DocumentAcquisition WITH
    Corpora <- {<<"p">>, <<"p", "q">>},
    Found <- [p |-> [metadata |-> <<"l1">>, unpaywall |-> <<"l2">>],
              q |-> [metadata |-> <<>>, unpaywall |-> <<"l3">>]],
    TextOf <- [A |-> "extracted", B |-> "encrypted"],
    Failures <- {"failed", "not_available"}, MaxRedirects <- 1,
    MaxCalls <- 1, MaxDeaths <- 0

\* One of them alone, acquired again after a run that was cut short.
AcquisitionAgain == INSTANCE DocumentAcquisition WITH
    Corpora <- {<<"p">>},
    Found <- [p |-> [metadata |-> <<"l1">>, unpaywall |-> <<>>]],
    TextOf <- [A |-> "extracted", B |-> "encrypted"],
    Failures <- {"failed", "not_available"}, MaxRedirects <- 1,
    MaxCalls <- 2, MaxDeaths <- 1

\* A document of two chunks, one without text, one of a single chunk.
MCDocuments == <<[id |-> "d", text |-> TRUE, pages |-> 3],
                 [id |-> "e", text |-> FALSE, pages |-> 1],
                 [id |-> "f", text |-> TRUE, pages |-> 1]>>
MCExtractions == {<<>>, <<[statement |-> "s", page |-> 1]>>, <<[statement |-> "s", page |-> 3]>>,
                  <<[statement |-> "s", page |-> 2], [statement |-> "t", page |-> 1]>>}

\* A manuscript and its revision, whose claim is worded a little differently.
MCClaims == <<<<[wording |-> 1, risk |-> "critical"]>>, <<[wording |-> 2, risk |-> "critical"]>>>>
MCSimilar == {<<1, 2>>}
MCPriorArt == {-1}

\* Two gaps; the proposals are grounded or not.
MCGaps == <<-1, -2>>
MCProposals == {<<TRUE, FALSE, TRUE>>, <<FALSE>>}

\* Models that are solvable, whose symbolic solution fails, that are not; a sign that
\* is open; a sweep of two points of which one is infeasible.
Claim(claim, parameter, expected, conditions, supports) ==
    [claim |-> claim, parameter |-> parameter, expected |-> expected,
     conditions |-> conditions, supports |-> supports]

Equilibrium == INSTANCE EquilibriumAnalysis WITH
    Models <- {[id |-> -1, solvable |-> TRUE, symbolic |-> <<>>],
               [id |-> -2, solvable |-> FALSE, symbolic |-> <<>>],
               [id |-> -3, solvable |-> TRUE, symbolic |-> <<{"timing"}>>]},
    Revisions <- {<<>>, <<{"timing"}>>, <<{"foc", "domain"}>>},
    MaxRevisions <- 1, MaxModelCalls <- 1,
    Signs <- <<"positive", "ambiguous">>,
    Proposals <- {<<Claim("monotonicity", 1, "negative", "none", {1}),
                    Claim("monotonicity", 2, "positive", "open", {1, 2})>>,
                  <<Claim("monotonicity", 2, "positive", "none", {2}),
                    Claim("monotonicity", 1, "positive", "none", {0, 1})>>,
                  <<Claim("equality", 1, "holds", "none", {}),
                    Claim("monotonicity", 1, "positive", "none", {1})>>},
    Points <- <<[x |-> 0, feasible |-> TRUE, signs |-> <<"positive", "positive">>],
                [x |-> 1, feasible |-> TRUE, signs |-> <<"positive", "positive">>],
                [x |-> 1, feasible |-> FALSE, signs |-> <<"positive", "positive">>]>>,
    MinShare <- 50,
    MaxCalls <- 3, MaxDeaths <- 1

\* One solved model, followed through to the numbers, past a proposition verified alone
\* because the generation died and generations asked for again; the points are as all
\* the propositions but one claim.
EquilibriumFollowed == INSTANCE EquilibriumAnalysis WITH
    Models <- {[id |-> -1, solvable |-> TRUE, symbolic |-> <<{}>>]},
    Revisions <- {<<>>},
    MaxRevisions <- 0, MaxModelCalls <- 0,
    Signs <- <<"positive", "ambiguous">>,
    Proposals <- {<<Claim("monotonicity", 2, "positive", "none", {2}),
                    Claim("monotonicity", 1, "positive", "none", {1})>>,
                  <<Claim("monotonicity", 1, "negative", "none", {1}),
                    Claim("monotonicity", 2, "positive", "open", {2})>>},
    Points <- <<[x |-> 1, feasible |-> TRUE, signs |-> <<"positive", "positive">>]>>,
    MinShare <- 50,
    MaxCalls <- 5, MaxDeaths <- 1

\* Definitions of one benchmark that differ in the contents of every case or in its cases.
Definition(contents) ==
    [id |-> "b", cases |-> [k \in DOMAIN contents |-> [id |-> k, content |-> contents[k]]]]

MCDefinitions == {Definition(contents) : contents \in {<<1, 1>>, <<2, 2>>, <<1>>}}
MCEvaluators == <<[id |-> "d", deterministic |-> TRUE], [id |-> "a", deterministic |-> FALSE]>>

\* Outcomes of a repetition.
Outcome(crashed, passed, failed, error, answered, malformed, lost) ==
    [crashed |-> crashed, passed |-> passed, failed |-> failed, error |-> error,
     answered |-> answered, malformed |-> malformed, lost |-> lost, critical |-> 0, excused |-> 0]

\* Three cases of four passed, the other with a grounding failure, excused or not.
OneUnsupported(excused) ==
    [Outcome(FALSE, 3, 1, 0, 4, 0, 0) EXCEPT !.critical = 1, !.excused = excused]

\* Two candidates in one campaign or tournament.
Qualification == INSTANCE ModelQualification WITH
    Fields <- {<<1, 2>>},
    Outcomes <- {Outcome(FALSE, 2, 0, 0, 2, 0, 0), Outcome(FALSE, 1, 0, 1, 1, 0, 1),
                 Outcome(FALSE, 1, 0, 1, 2, 0, 0), Outcome(TRUE, 0, 0, 0, 1, 0, 0),
                 OneUnsupported(0), OneUnsupported(1)},
    Repetitions <- 1, Unit <- 12, MinPass <- 9, MinStructured <- 9, MaxLost <- 3,
    MinRepetitions <- 1, MaxModelError <- 6, MaxCaseError <- 2,
    Latency <- <<5, 3>>, Price <- <<2, -1>>, Configured <- 1,
    Policies <- {<<"pass", "cases", "latency", "cost">>, <<"cost", "pass", "cases", "latency">>},
    MaxCalls <- 2, MaxDeaths <- 0

\* One candidate at a time, again and again.
QualificationAgain == INSTANCE ModelQualification WITH
    Fields <- {<<1>>, <<2>>},
    Outcomes <- {Outcome(FALSE, 2, 0, 0, 2, 0, 0), Outcome(TRUE, 0, 0, 0, 1, 0, 0)},
    Repetitions <- 2, Unit <- 12, MinPass <- 9, MinStructured <- 9, MaxLost <- 3,
    MinRepetitions <- 2, MaxModelError <- 6, MaxCaseError <- 2,
    Latency <- <<5, 3>>, Price <- <<2, -1>>, Configured <- 1,
    Policies <- {<<"pass", "cases", "latency", "cost">>},
    MaxCalls <- 3, MaxDeaths <- 0

\* Two candidates in a campaign, which qualify with a repetition below the threshold.
QualificationUnstable == INSTANCE ModelQualification WITH
    Fields <- {<<1, 2>>},
    Outcomes <- {Outcome(FALSE, 2, 0, 0, 2, 0, 0), Outcome(FALSE, 1, 1, 0, 2, 0, 0)},
    Repetitions <- 2, Unit <- 12, MinPass <- 9, MinStructured <- 9, MaxLost <- 3,
    MinRepetitions <- 2, MaxModelError <- 6, MaxCaseError <- 2,
    Latency <- <<5, 5>>, Price <- <<2, 1>>, Configured <- 1,
    Policies <- {<<"pass", "cases", "latency", "cost">>},
    MaxCalls <- 2, MaxDeaths <- 0

\* Findings on propositions of which one can fail.
Finding(supports, conditions) == [supports |-> supports, conditions |-> conditions]
Stated(negated) == {[of |-> "c", negated |-> negated]}

MCConditions == (-1 :> {"c"}) @@ (-2 :> {})
MCVerdicts == (-1 :> {"verified"}) @@ (-2 :> {"failed"})
MCResults == {-5}
MCContradicted == {-1}
MCLiterature == {-3}
OnResults == [findings |-> <<Finding({-5}, {})>>, claims |-> <<>>]
MCAssemblerAnswers ==
    {[findings |-> <<Finding({-1}, Stated(FALSE)), Finding({-5}, {}), Finding({-2}, {})>>,
      claims |-> <<[kind |-> "contribution", refs |-> {2}], [kind |-> "implication", refs |-> {1}]>>],
     [findings |-> <<Finding({-1}, Stated(TRUE))>>, claims |-> <<>>],
     [findings |-> <<Finding({-5}, {})>>, claims |-> <<[kind |-> "contribution", refs |-> {1}]>>],
     [findings |-> <<Finding({-2}, {})>>, claims |-> <<>>],
     [findings |-> <<>>, claims |-> <<>>],
     OnResults}

\* A manuscript of two sections, and its revision.
Claiming(type, ground, conditions) ==
    [well |-> TRUE, claims |-> {[type |-> type, ground |-> ground, cited |-> FALSE,
                                 conditions |-> conditions]}]

MCSpecs == <<[id |-> "propositions", allowed |-> {"proposition", "result"}],
             [id |-> "discussion", allowed |-> {"finding"}]>>
MCWanted == {{}, {"discussion"}}
MCSectionAnswers ==
    {Claiming("proposition", -1, Stated(TRUE)), Claiming("finding", -3, {}), Claiming("result", -5, {})}
MCFaults == {{}, {"discussion"}}

\* Nothing is drafted; what is drafted follows one answer, and no verification failed.
OnlyAssembled == OfKind("outline") = {}
OnlyDrafted ==
    /\ at = "finding" => call.answer = OnResults
    /\ \A v \in OfKind("verification") : stored[v].status = "verified"

\* A profile the draft fits and one whose required section it lacks.
MCDrafts ==
    -1 :> <<[id |-> "model", cites |-> <<>>, used |-> {}, grounds |-> {-9}, keeps |-> TRUE],
            [id |-> "review", cites |-> <<"p", "q">>, used |-> {1, 2}, grounds |-> {}, keeps |-> TRUE]>>
MCProfiles == (-11 :> [required |-> {"review"}, order |-> <<"review", "model">>])
                @@ (-12 :> [required |-> {"limitations"}, order |-> <<>>])
MCFormats == <<"markdown", "latex">>

\* An answer whose payoff names a variable that is cut off, and one it is not.
Specification(decisions, uses) ==
    [actors |-> <<"seller", "buyer">>, parameters |-> <<"cost">>,
     variables |-> <<[symbol |-> "price", kind |-> "decision", owner |-> "seller"],
                     [symbol |-> "taste", kind |-> "random", owner |-> "none"],
                     [symbol |-> "effort", kind |-> "decision", owner |-> "seller"]>>,
     timing |-> <<[number |-> 0, actors |-> {"seller"}], [number |-> 1, actors |-> {"buyer"}]>>,
     information |-> {[actor |-> "buyer", symbols |-> {"taste"}, stage |-> 1]},
     uncertain |-> {"taste"},
     assumptions |-> <<[literature |-> TRUE, sources |-> {-5}, uses |-> {"cost"}]>>,
     payoffs |-> <<[actor |-> "seller", decisions |-> decisions, uses |-> uses]>>]

Specifying == INSTANCE ModelSpecification WITH
    Sources <- (-1 :> {-5}) @@ (-2 :> {-6}),
    Answers <- {Specification({"price"}, {"price", "cost"}),
                Specification({"price"}, {"price", "effort"}),
                [Specification({"price"}, {"price"}) EXCEPT !.assumptions = <<>>]},
    Caps <- [actors |-> 2, variables |-> 2, parameters |-> 2, timing |-> 2, assumptions |-> 1,
             payoffs |-> 1],
    MaxCalls <- 4, MaxDeaths <- 1

\* Two corpora; three profiles of two papers, and evidence without one.
Theme(title, statements) == [title |-> title, statements |-> statements]
Supported(text, supports, conflicts, contradiction) ==
    [text |-> text, supports |-> supports, conflicts |-> conflicts, contradiction |-> contradiction]

Synthesis == INSTANCE SynthesisRun WITH
    Profiles <- (-1 :> <<[paper |-> "p", evidence |-> {"e", "f"}], [paper |-> "q", evidence |-> {"g"}]>>)
                  @@ (-2 :> <<[paper |-> "r", evidence |-> {"h"}]>>),
    Loose <- (-1 :> [i |-> "p"]) @@ (-2 :> [j |-> "unknown"]),
    PerBatch <- 1, MaxBatches <- 2, MaxModelCalls <- 2,
    ThemeAnswers <- {<<Theme(1, <<Supported(1, {"e", "f"}, {}, FALSE), Supported(2, {"h"}, {}, FALSE)>>)>>,
                     <<Theme(1, <<Supported(1, {"e", "g"}, {}, FALSE)>>),
                       Theme(2, <<Supported(3, {"e"}, {}, TRUE), Supported(4, {"j"}, {}, FALSE)>>)>>},
    MaxStatements <- 2, MaxGaps <- 1,
    MaxCalls <- 3, MaxDeaths <- 1

Services ==
    {"identity", "screening", "search", "locators", "acquisition", "acquisition again",
     "evidence", "novelty", "novelty again", "mechanisms", "equilibrium",
     "equilibrium followed", "benchmarks", "qualification", "qualification again",
     "qualification unstable", "assembly", "drafting", "publication", "specifying", "synthesis", "blobs"}

\* A revised manuscript is validated under one search policy, one version under two.
OnePolicy == at # "idle" => call.policy \in {0, 1}
OneVersion == Cardinality(Manuscripts) <= 1

\* Two writers of three have the same bytes, and it is no matter which or what bytes.
MCInit ==
    /\ service \in Services /\ NothingStored
    /\ BlobInit
    /\ digest[w1] = d1 /\ digest[w2] = d1
    /\ service # "blobs" => digest = [p \in Users |-> d1]

ServiceNext ==
    \/ service = "identity" /\ IdentityNext /\ calls' <= MCCalls
    \/ service = "screening" /\ ScreeningNext /\ calls' <= MCCalls
    \/ service = "search" /\ SearchNext /\ calls' <= 1
    \/ service = "locators" /\ Locators!LocatorsNext
    \/ service = "acquisition" /\ Acquisition!AcquisitionNext
    \/ service = "acquisition again" /\ AcquisitionAgain!AcquisitionNext
    \/ service = "evidence" /\ EvidenceNext /\ calls' <= MCCalls
    \/ service = "novelty" /\ NoveltyNext /\ OnePolicy' /\ calls' <= MCCalls /\ deaths' = 0
    \/ service = "novelty again" /\ NoveltyNext /\ OneVersion' /\ calls' <= MCCalls /\ deaths' = 0
    \/ service = "mechanisms" /\ MechanismNext
    \/ service = "equilibrium" /\ Equilibrium!EquilibriumNext
    \/ service = "equilibrium followed" /\ EquilibriumFollowed!EquilibriumNext
    \/ service = "benchmarks" /\ BenchmarkNext /\ calls' <= MCCalls
    \/ service = "qualification" /\ Qualification!QualificationNext
    \/ service = "qualification again" /\ QualificationAgain!QualificationNext
    \/ service = "qualification unstable" /\ QualificationUnstable!QualificationNext
    \/ service = "assembly" /\ DraftingNext /\ OnlyAssembled' /\ calls' <= MCCalls
    \/ service = "drafting" /\ DraftingNext /\ OnlyDrafted' /\ calls' <= 3
    \/ service = "publication" /\ PublicationNext /\ calls' <= 3
    \/ service = "specifying" /\ Specifying!SpecificationNext
    \/ service = "synthesis" /\ Synthesis!SynthesisNext

MCNext ==
    /\ UNCHANGED service
    /\ \/ ServiceNext /\ UNCHANGED blobVars
       \/ service = "blobs" /\ BlobNext /\ UNCHANGED researchVars

MCSpec == MCInit /\ [][MCNext]_<<service, researchVars, blobVars>>

(* A paper's locations are stored and listed once and all of them found or a *)
(* failure flagged; a corpus accounts for its papers; bytes are acquired     *)
(* once and have one document.                                               *)
DocumentsAccounted ==
    /\ service = "locators" => Locators!LocatedOnce /\ Locators!FoundOrFlagged
    /\ service = "acquisition" => Acquisition!CorpusAccounted /\ Acquisition!AcquiredOnce
    /\ service = "acquisition again" =>
          AcquisitionAgain!CorpusAccounted /\ AcquisitionAgain!AcquiredOnce

(* A formal model refers to nothing that was cut off it, and what is said of *)
(* an equilibrium is said of a verified one.                                 *)
ClaimsRestOnVerified ==
    /\ service = "specifying" => Specifying!SpecifiedWhole
    /\ service = "equilibrium" => Equilibrium!ClaimsRestOnVerified
    /\ service = "equilibrium followed" => EquilibriumFollowed!ClaimsRestOnVerified

(* A model the router selects has earned it, and qualifies by its newest run. *)
QualifiedOnMerit ==
    /\ service = "qualification" => Qualification!RoutedOnMerit /\ Qualification!QualifiedByEvidence
    /\ service = "qualification again" =>
          QualificationAgain!RoutedOnMerit /\ QualificationAgain!QualifiedByEvidence
    /\ service = "qualification unstable" =>
          QualificationUnstable!RoutedOnMerit /\ QualificationUnstable!QualifiedByEvidence

(* A synthesis and its gaps rest on their own evidence.                     *)
SynthesisGrounded == service = "synthesis" => Synthesis!SynthesisGrounded

(* Later calls keep what earlier ones settled: resolving identities keeps    *)
(* the settled and loses no paper, and the analysis in force forgets nothing. *)
ArtifactsStand ==
    [][/\ service = "identity" => KeepsIdentities
       /\ service = "mechanisms" => AnalysisKeeps]_<<service, researchVars>>
=============================================================================
