---------------------------- MODULE SynthesisRun ----------------------------
(***************************************************************************)
(* From evidence to gaps: literature.synthesis has a model compare the     *)
(* profiles of an evidence corpus, some at a time, and stores the themes   *)
(* and statements it can ground; literature.gap_analyzer has a model name  *)
(* gaps between them.  How well each is supported the services count       *)
(* themselves.                                                             *)
(*                                                                         *)
(* One configuration and one model role for each service.  Titles and      *)
(* texts are numbers, equal when their normalised forms are; wordings, and *)
(* the links, which no service here reads, are left out.                   *)
(***************************************************************************)
EXTENDS ResearchRun, FiniteSetsExt, SequencesExt

CONSTANTS
    Profiles,     \* of each corpus, a sequence of [paper, evidence]
    Loose,        \* evidence of each corpus in no profile, and its paper, or "unknown"
    PerBatch, MaxBatches, MaxModelCalls,
    ThemeAnswers, \* sequences of [title, statements], statements sequences of
                  \* [text, supports, conflicts, contradiction]
    MaxStatements, MaxGaps

Conclude(artifact) == Put(artifact) /\ Return /\ UNCHANGED prov

Continue(step, locals) == call' = locals /\ Goto(step) /\ UNCHANGED <<stored, prov>>

Again == at = "idle" /\ UNCHANGED researchVars

\* The evidence of a corpus, and that of it whose paper is known.
Evidence(corpus) == UNION {p.evidence : p \in ToSet(Profiles[corpus])} \cup DOMAIN Loose[corpus]

PaperOf(corpus, e) ==
    IF \E p \in ToSet(Profiles[corpus]) : e \in p.evidence
    THEN (CHOOSE p \in ToSet(Profiles[corpus]) : e \in p.evidence).paper
    ELSE Loose[corpus][e]

Mapped(corpus) == {e \in Evidence(corpus) : PaperOf(corpus, e) # "unknown"}

PapersBehind(corpus, evidence) == {PaperOf(corpus, e) : e \in evidence}

-----------------------------------------------------------------------------
(* Synthesis                                                                *)
Batches(corpus) == Min({MaxBatches, (Len(Profiles[corpus]) + PerBatch - 1) \div PerBatch})

\* Mutant: what is supported twice is supported by two papers.
ItemsSupporting(corpus, statement) == Cardinality(statement.supports)

PapersSupporting(corpus, statement) == Cardinality(PapersBehind(corpus, statement.supports))

Grounded(corpus, statement) ==
    /\ statement.supports \cup statement.conflicts \subseteq Mapped(corpus)
    /\ statement.contradiction => statement.conflicts # {}

\* The first of every text, sound or not.
FirstOfEach(statements) ==
    LET first == {k \in DOMAIN statements :
                    \A j \in 1 .. k - 1 : statements[j].text # statements[k].text}
    IN  [k \in 1 .. Cardinality(first) |-> statements[SetToSortSeq(first, <)[k]]]

\* The themes with their statements, those of one title merged, in the order of titles.
Consolidated(themes) ==
    LET titles == SetToSortSeq({t.title : t \in ToSet(themes)}, <)
        of(title) == SelectSeq(themes, LAMBDA t : t.title = title)
    IN  [k \in DOMAIN titles |->
            FirstOfEach(FlattenSeq([j \in DOMAIN of(titles[k]) |-> of(titles[k])[j].statements]))]

Accepted(corpus, themes) ==
    LET sound == [k \in DOMAIN themes |-> SelectSeq(themes[k], LAMBDA s : Grounded(corpus, s))]
    IN  SelectSeq(sound, LAMBDA t : t # <<>>)

Executions(corpus) ==
    {x \in OfKind("synthesis execution") : stored[x].corpus = corpus /\ stored[x].statements # {}}

Synthesize(corpus) ==
    /\ Executions(corpus) = {}
    /\ Call("batch", [corpus |-> corpus, asked |-> 0, failed |-> 0, found |-> <<>>, todo |-> <<>>,
                      made |-> <<>>, themes |-> <<>>, rejected |-> 0])
    /\ UNCHANGED <<stored, prov>>

SynthesizeAgain(corpus) == Executions(corpus) # {} /\ Again

MoreBatches == call.asked < Min({Batches(call.corpus), MaxModelCalls})

BatchAnswered(answer) ==
    /\ at = "batch" /\ MoreBatches
    /\ Continue("batch", [call EXCEPT !.asked = @ + 1, !.found = @ \o answer])

BatchFails ==
    /\ at = "batch" /\ MoreBatches
    /\ Continue("batch", [call EXCEPT !.asked = @ + 1, !.failed = @ + 1])

\* All batches, or as many as there may be calls.
BatchesDone ==
    /\ at = "batch" /\ ~MoreBatches
    /\ LET themes == Consolidated(call.found)
           sound == Accepted(call.corpus, themes)
       IN  Continue("theme", [call EXCEPT !.todo = sound,
                                          !.rejected = Len(FlattenSeq(themes)) - Len(FlattenSeq(sound))])

PutStatement ==
    /\ at = "theme" /\ call.todo # <<>> /\ Len(call.made) < Len(Head(call.todo))
    /\ LET statement == Head(call.todo)[Len(call.made) + 1]
       IN  PutThen([kind |-> "statement", corpus |-> call.corpus, supports |-> statement.supports,
                    conflicts |-> statement.conflicts,
                    papers |-> PapersBehind(call.corpus, statement.supports),
                    multi |-> PapersSupporting(call.corpus, statement) >= 2],
                   "theme", [call EXCEPT !.made = Append(@, Len(stored) + 1)])

PutTheme ==
    /\ at = "theme" /\ call.todo # <<>> /\ Len(call.made) = Len(Head(call.todo))
    /\ PutThen([kind |-> "theme", statements |-> call.made,
                evidence |-> UNION {s.supports \cup s.conflicts : s \in ToSet(Head(call.todo))}],
               "theme", [call EXCEPT !.todo = Tail(@), !.made = <<>>,
                                     !.themes = Append(@, Len(stored) + 1)])

StatementsIn(themes) == FlattenSeq([k \in DOMAIN themes |-> stored[themes[k]].statements])

\* A run without themes leaves its execution only.
PutExecution ==
    /\ at = "theme" /\ call.todo = <<>>
    /\ Put([kind |-> "synthesis execution", corpus |-> call.corpus, asked |-> call.asked,
            failed |-> call.failed, rejected |-> call.rejected,
            statements |-> ToSet(StatementsIn(call.themes))])
    /\ IF call.themes = <<>> THEN Return ELSE call' = call /\ Goto("synthesis")
    /\ UNCHANGED prov

PutSynthesis ==
    /\ at = "synthesis"
    /\ Conclude([kind |-> "synthesis", corpus |-> call.corpus, themes |-> call.themes])

-----------------------------------------------------------------------------
(* Gaps                                                                     *)
\* Mutant: the statements of all runs.
AllStatements(synthesis) == OfKind("statement")

\* The statements of its themes, as many as there may be.
OwnStatements(synthesis) ==
    LET all == StatementsIn(stored[synthesis].themes)
    IN  ToSet(SubSeq(all, 1, Min({MaxStatements, Len(all)})))

GapExecutions(synthesis) ==
    {x \in OfKind("gap execution") : stored[x].synthesis = synthesis /\ stored[x].gaps # <<>>}

Analyze(synthesis) ==
    /\ GapExecutions(synthesis) = {}
    /\ Call("gap", [synthesis |-> synthesis, gaps |-> <<>>, rejected |-> 0])
    /\ UNCHANGED <<stored, prov>>

AnalyzeAgain(synthesis) == GapExecutions(synthesis) # {} /\ Again

GapExecution == [kind |-> "gap execution", synthesis |-> call.synthesis, gaps |-> call.gaps]

\* The call fails, or answers what is no list of gaps.
AnalysisFails ==
    /\ at = "gap" /\ call.gaps = <<>> /\ call.rejected = 0
    /\ Conclude(GapExecution)

\* A gap names statements and evidence; its score is an answer, its strength is not.
ProposeGap(statements, evidence, score) ==
    /\ at = "gap" /\ Len(call.gaps) + call.rejected < MaxGaps
    /\ LET corpus == stored[call.synthesis].corpus
           all == evidence \cup UNION {stored[s].supports : s \in statements}
           papers == UNION {stored[s].papers : s \in statements}
       IN  IF statements \subseteq OwnStatements(call.synthesis) /\ evidence \subseteq Mapped(corpus)
           THEN PutThen([kind |-> "gap", statements |-> statements, evidence |-> all, score |-> score,
                         strong |-> Cardinality(papers \cup PapersBehind(corpus, evidence)) >= 2
                                     \/ Cardinality(all) >= 3],
                        "gap", [call EXCEPT !.gaps = Append(@, Len(stored) + 1)])
           ELSE Continue("gap", [call EXCEPT !.rejected = @ + 1])

PutGapExecution == at = "gap" /\ PutThen(GapExecution, "analysis", call)

Ranked(gaps) ==
    SetToSortSeq(ToSet(gaps), LAMBDA g, h : \/ stored[g].score > stored[h].score
                                            \/ stored[g].score = stored[h].score /\ g < h)

PutAnalysis ==
    /\ at = "analysis"
    /\ Conclude([kind |-> "gap analysis", synthesis |-> call.synthesis, ranked |-> Ranked(call.gaps)])

SynthesisNext ==
    \/ \E corpus \in DOMAIN Profiles : Synthesize(corpus) \/ SynthesizeAgain(corpus)
    \/ \E answer \in ThemeAnswers : BatchAnswered(answer)
    \/ BatchFails \/ BatchesDone \/ PutStatement \/ PutTheme \/ PutExecution \/ PutSynthesis
    \/ \E synthesis \in OfKind("synthesis") : Analyze(synthesis) \/ AnalyzeAgain(synthesis)
    \/ AnalysisFails
    \/ \E statements \in {{s} : s \in OfKind("statement")} \cup {OfKind("statement"), {}} :
          \E evidence \in {{}} \cup {{e} : e \in UNION {Evidence(c) : c \in DOMAIN Profiles}} :
             \E score \in 1 .. 2 : ProposeGap(statements, evidence, score)
    \/ PutGapExecution \/ PutAnalysis
    \/ Die

-----------------------------------------------------------------------------
\* Of the corpus, of a paper that is known.
Known(evidence, corpus) == evidence \subseteq Mapped(corpus)

(* Of a synthesis every theme and statement rests on evidence of its own    *)
(* corpus whose paper is known, and says it is of several papers only if    *)
(* two of them support it; a gap rests on statements of the synthesis it is *)
(* found in, not on what another run or one that died has left, and is      *)
(* strongly supported by two papers or three items; an execution accounts   *)
(* for its batches and statements, an analysis for the gaps of its          *)
(* execution; and what succeeded is not made twice.                         *)
SynthesisGrounded ==
    /\ \A y \in OfKind("synthesis") :
          LET corpus == stored[y].corpus
              made == ToSet(StatementsIn(stored[y].themes))
          IN  /\ \A s \in made :
                    /\ Known(stored[s].supports \cup stored[s].conflicts, corpus)
                    /\ stored[s].multi =>
                          \E d, e \in stored[s].supports : PaperOf(corpus, d) # PaperOf(corpus, e)
              /\ \E x \in Executions(corpus) : stored[x].statements = made /\ x < y
    /\ \A x \in OfKind("synthesis execution") :
          stored[x].failed <= stored[x].asked /\ stored[x].asked <= Batches(stored[x].corpus)
    /\ \A g \in OfKind("gap execution") : \A k \in ToSet(stored[g].gaps) :
          LET corpus == stored[stored[g].synthesis].corpus
              gap == stored[k]
          IN  /\ gap.statements \subseteq ToSet(StatementsIn(stored[stored[g].synthesis].themes))
              /\ Known(gap.evidence, corpus)
              /\ gap.strong => \/ Cardinality(gap.evidence) >= 3
                               \/ \E d, e \in gap.evidence : PaperOf(corpus, d) # PaperOf(corpus, e)
    /\ \A a \in OfKind("gap analysis") : \E x \in OfKind("gap execution") :
          /\ stored[x].synthesis = stored[a].synthesis /\ x < a
          /\ ToSet(stored[a].ranked) = ToSet(stored[x].gaps)
          /\ \A j, k \in DOMAIN stored[a].ranked :
                j < k => stored[stored[a].ranked[j]].score >= stored[stored[a].ranked[k]].score
    /\ \A c \in DOMAIN Profiles : Cardinality(Executions(c)) <= 1
    /\ \A y \in OfKind("synthesis") : Cardinality(GapExecutions(y)) <= 1
=============================================================================
