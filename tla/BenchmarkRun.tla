------------------------------ MODULE BenchmarkRun ------------------------------
(***************************************************************************)
(* research.evaluation_harness: benchmarks are registered once, with their *)
(* cases; a run takes the cases one by one through the workflow they name, *)
(* has every evaluator judge what came out, and ends with a report and the *)
(* run itself.                                                             *)
(*                                                                         *)
(* An id is taken by one artifact.  The contents of a case stand for its   *)
(* input, its reference and its version.  Metrics, tokens and cost are     *)
(* left out, and what a workflow does is one of three outcomes.            *)
(***************************************************************************)
EXTENDS ResearchRun, SequencesExt

CONSTANTS
    Definitions,    \* [id, cases]: cases a sequence of [id, content]
    Evaluators      \* the evaluators of a run, a sequence of [id, deterministic]

ASSUME EvaluatorsAssumption == Evaluators \in Seq(ToSet(Evaluators))

\* Mutant: a case that is there is not compared.
AsRegistered(case, definition) == TRUE

Ids(definition) == [k \in DOMAIN definition.cases |-> definition.cases[k].id]

\* The id of a case is unique within its benchmark.
ASSUME DefinitionsAssumption ==
    \A d \in Definitions : d.cases \in Seq(ToSet(d.cases)) /\ IsInjective(Ids(d))

BenchmarkOf(id) == {i \in OfKind("benchmark") : stored[i].id = id}
CaseOf(id) == {i \in OfKind("case") : stored[i].id = id}

\* The stored case has the content the definition gives it.
SameContent(case, definition) ==
    \E i \in CaseOf(case.id) : stored[i].content = case.content /\ stored[i].benchmark = definition.id

\* Only deterministic evaluators fail a case; an error of any evaluator makes it an
\* error, an abstention has it skipped.
CaseStatus(verdicts) ==
    IF \E v \in verdicts : v.deterministic /\ v.verdict = "failed" THEN "failed"
    ELSE IF \E v \in verdicts : v.verdict = "error" THEN "error"
    ELSE IF \E v \in verdicts : v.verdict = "skipped" THEN "skipped"
    ELSE "passed"

\* A case whose workflow raised counts as well.
WithCrashed(results, result) == Append(results, result)

ReportStatus(results) ==
    LET some(status) == \E r \in ToSet(results) : stored[r].status = status
    IN  IF some("error") THEN "error"
        ELSE IF some("failed") \/ some("skipped") THEN "failed"
        ELSE "passed"

-----------------------------------------------------------------------------
(* Registration                                                             *)
Register(definition) ==
    /\ BenchmarkOf(definition.id) = {}
    /\ Call("case", [todo |-> definition.cases, definition |-> definition, links |-> {},
                     step |-> "case", fresh |-> TRUE])
    /\ Put([kind |-> "benchmark", id |-> definition.id, cases |-> Ids(definition)])
    /\ UNCHANGED prov

\* Registered with these cases already: the ones missing are added.
RegisterAgain(definition) ==
    /\ \E b \in BenchmarkOf(definition.id) : stored[b].cases = Ids(definition)
    /\ Call("case", [todo |-> definition.cases, definition |-> definition, links |-> {},
                     step |-> "case", fresh |-> FALSE])
    /\ UNCHANGED <<stored, prov>>

\* Registered with others: the call raises.
RegisterRefused(definition) ==
    /\ \E b \in BenchmarkOf(definition.id) : stored[b].cases # Ids(definition)
    /\ at = "idle" /\ calls < MaxCalls /\ calls' = calls + 1
    /\ UNCHANGED <<stored, prov, at, call, deaths>>

PutCase ==
    /\ at = "case" /\ call.todo # <<>> /\ CaseOf(Head(call.todo).id) = {}
    /\ Put([kind |-> "case", id |-> Head(call.todo).id, content |-> Head(call.todo).content,
            benchmark |-> call.definition.id])
    /\ call' = [call EXCEPT !.todo = Tail(@), !.links = BenchmarkOf(call.definition.id)]
    /\ Goto("link") /\ UNCHANGED prov

CaseThere ==
    /\ at = "case" /\ call.todo # <<>> /\ ~call.fresh
    /\ CaseOf(Head(call.todo).id) # {} /\ SameContent(Head(call.todo), call.definition)
    /\ call' = [call EXCEPT !.todo = Tail(@)]
    /\ Goto("case") /\ UNCHANGED <<stored, prov>>

\* The id of the case is taken by another content, or by a case of another
\* benchmark.
CaseRefused ==
    /\ at = "case" /\ call.todo # <<>> /\ CaseOf(Head(call.todo).id) # {}
    /\ call.fresh \/ ~SameContent(Head(call.todo), call.definition)
    /\ Return /\ UNCHANGED <<stored, prov>>

Registered ==
    /\ at = "case" /\ call.todo = <<>>
    /\ Return /\ UNCHANGED <<stored, prov>>

-----------------------------------------------------------------------------
(* A run                                                                    *)
RunBenchmark(b) ==
    /\ b \in OfKind("benchmark")
    /\ Call("run", [benchmark |-> b, todo |-> stored[b].cases, results |-> <<>>, ask |-> <<>>,
                    verdicts |-> {}, links |-> {}, step |-> "run", report |-> 0])
    /\ UNCHANGED <<stored, prov>>

TheCase == CHOOSE c \in CaseOf(Head(call.todo)) : TRUE

\* A case that was never stored ends the run.
CaseMissing ==
    /\ at = "run" /\ call.todo # <<>> /\ CaseOf(Head(call.todo)) = {}
    /\ Return /\ UNCHANGED <<stored, prov>>

\* The workflow raises: an error without a verdict.
CaseCrashes ==
    /\ at = "run" /\ call.todo # <<>> /\ CaseOf(Head(call.todo)) # {}
    /\ Put([kind |-> "result", case |-> TheCase, status |-> "error", verdicts |-> {}])
    /\ call' = [call EXCEPT !.todo = Tail(@), !.links = {TheCase}, !.step = "run",
                            !.results = WithCrashed(@, Len(stored) + 1)]
    /\ Goto("link") /\ UNCHANGED prov

CaseRuns ==
    /\ at = "run" /\ call.todo # <<>> /\ CaseOf(Head(call.todo)) # {}
    /\ call' = [call EXCEPT !.ask = Evaluators, !.verdicts = {}]
    /\ Goto("judge") /\ UNCHANGED <<stored, prov>>

\* One evaluator after the other; one that raises reports an error.
Judge(verdict) ==
    /\ at = "judge" /\ call.ask # <<>>
    /\ Put([kind |-> "verdict", case |-> TheCase, verdict |-> verdict, by |-> Head(call.ask).id,
            deterministic |-> Head(call.ask).deterministic])
    /\ call' = [call EXCEPT !.ask = Tail(@), !.verdicts = @ \cup {Len(stored) + 1},
                            !.links = {TheCase}, !.step = "judge"]
    /\ Goto("link") /\ UNCHANGED prov

Score ==
    /\ at = "judge" /\ call.ask = <<>>
    /\ Put([kind |-> "result", case |-> TheCase, verdicts |-> call.verdicts,
            status |-> CaseStatus({stored[v] : v \in call.verdicts})])
    /\ call' = [call EXCEPT !.todo = Tail(@), !.links = {TheCase} \cup call.verdicts,
                            !.step = "run", !.results = Append(@, Len(stored) + 1)]
    /\ Goto("link") /\ UNCHANGED prov

PutReport ==
    /\ at = "run" /\ call.todo = <<>>
    /\ Put([kind |-> "report", benchmark |-> call.benchmark, results |-> call.results,
            total |-> Len(call.results), status |-> ReportStatus(call.results),
            passed |-> Cardinality({r \in ToSet(call.results) : stored[r].status = "passed"})])
    /\ call' = [call EXCEPT !.report = Len(stored) + 1]
    /\ Goto("report") /\ UNCHANGED prov

\* The run, which its report is linked to.
PutRun ==
    /\ at = "report"
    /\ Put([kind |-> "run", benchmark |-> call.benchmark, report |-> call.report])
    /\ call' = [call EXCEPT !.links = {call.benchmark}, !.step = "outcome"]
    /\ Goto("link") /\ UNCHANGED prov

\* The links of an artifact just put, from its sources.
LinkSources ==
    /\ at = "link"
    /\ \E source \in call.links :
          /\ prov' = prov \cup {<<source, Latest>>}
          /\ call' = [call EXCEPT !.links = @ \ {source}]
          /\ Goto(IF call.links = {source} THEN call.step ELSE "link")
    /\ UNCHANGED stored

\* The links of the run to its report and to the results of its cases.
LinkOutcome ==
    /\ at = "outcome"
    /\ \E target \in ({call.report} \cup ToSet(call.results))
                        \ {l[2] : l \in {m \in prov : m[1] = Latest}} :
          prov' = prov \cup {<<Latest, target>>}
    /\ Goto("outcome") /\ UNCHANGED <<stored, call>>

RunReturns ==
    /\ at = "outcome"
    /\ \A target \in {call.report} \cup ToSet(call.results) : <<Latest, target>> \in prov
    /\ Return /\ UNCHANGED <<stored, prov>>

\* A put or a link raises.
BenchmarkRaises ==
    /\ at \in {"case", "link", "judge", "run", "report", "outcome"}
    /\ Return /\ UNCHANGED <<stored, prov>>

BenchmarkNext ==
    \/ \E d \in Definitions : Register(d) \/ RegisterAgain(d) \/ RegisterRefused(d)
    \/ PutCase \/ CaseThere \/ CaseRefused \/ Registered
    \/ \E b \in Stored : RunBenchmark(b)
    \/ CaseMissing \/ CaseCrashes \/ CaseRuns
    \/ \E v \in {"passed", "failed", "error", "skipped"} : Judge(v)
    \/ Score \/ PutReport \/ PutRun
    \/ LinkSources \/ LinkOutcome \/ RunReturns \/ BenchmarkRaises
    \/ Die

BenchmarkSpec == NothingStored /\ [][BenchmarkNext]_researchVars

-----------------------------------------------------------------------------
(* However often a registration was cut short, taken up again or tried with *)
(* a changed definition, the cases of a benchmark are those of one          *)
(* definition, never a mixture; and a report is about all the cases of its  *)
(* benchmark, fails one exactly if a deterministic evaluator did, passes    *)
(* one only if every evaluator judged it and none erred, and passes as a    *)
(* whole exactly if all passed.  What an abstention makes of a case is left *)
(* open: the code skips it, the documentation knows no such status.         *)
ReportsAreWhole ==
    /\ \A b \in OfKind("benchmark") : \E d \in Definitions :
          /\ d.id = stored[b].id /\ Ids(d) = stored[b].cases
          /\ \A k \in DOMAIN d.cases : \A c \in CaseOf(d.cases[k].id) :
                stored[c].benchmark = d.id => stored[c].content = d.cases[k].content
    /\ \A r \in OfKind("report") :
          LET report == stored[r]
              results == [k \in DOMAIN report.results |-> stored[report.results[k]]]
              passes == {k \in DOMAIN results : results[k].status = "passed"}
          IN  /\ [k \in DOMAIN results |-> stored[results[k].case].id]
                     = stored[report.benchmark].cases
              /\ report.passed = Cardinality(passes)
              /\ report.status = "passed" <=> passes = DOMAIN results
              /\ \A k \in passes :
                    /\ {stored[v].by : v \in results[k].verdicts} = {e.id : e \in ToSet(Evaluators)}
                    /\ \A v \in results[k].verdicts : stored[v].verdict # "error"
              /\ \A k \in DOMAIN results : results[k].status = "failed" <=>
                    \E v \in results[k].verdicts : stored[v].verdict = "failed" /\ stored[v].deterministic
=============================================================================
