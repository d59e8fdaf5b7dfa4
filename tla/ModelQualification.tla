--------------------------- MODULE ModelQualification ---------------------------
(***************************************************************************)
(* How a model comes to be recommended for a role: live-quality runs and   *)
(* campaigns (evaluation.live_quality), tournaments                        *)
(* (evaluation.model_tournament), the qualification matrix, the readiness  *)
(* of a role, and the decision of the policy router                        *)
(* (routing.policy_router), each from the artifacts of those before.       *)
(*                                                                         *)
(* One role and one benchmark.  A repetition of it is an outcome: whether  *)
(* it crashed, its cases passed, failed and in error, its calls answered,  *)
(* malformed and lost, its critical grounding failures, and the failures   *)
(* of cases that the calibration ledger excuses.  A rate is a whole number *)
(* of Units.  Live runs up to some one are too old at a conclusion, none   *)
(* if there is no limit of age.                                            *)
(***************************************************************************)
EXTENDS ResearchRun, FiniteSetsExt, SequencesExt

CONSTANTS
    Fields,          \* the lists of candidates a campaign or a tournament takes
    Outcomes,        \* what a repetition may come to
    Repetitions,     \* repetitions of each candidate
    Unit,            \* what a rate of 1 is, a multiple of every denominator
    MinPass, MinStructured, MaxLost, MinRepetitions,    \* the role's criteria
    MaxModelError, MaxCaseError,                        \* the router's own limits
    Latency, Price,  \* of each candidate; Price is of a call, or Unknown
    Configured,      \* the model the role is configured with
    Policies         \* sequences of fields, what is compared first first

Unknown == -1

Total(reps, of(_)) == FoldSeq(LAMBDA o, sum : of(o) + sum, 0, reps)
Cases(o) == o.passed + o.failed + o.error
Calls(o) == o.answered + o.malformed + o.lost

\* A rate is unknown where nothing was counted.
Rate(some, all) == IF all = 0 THEN Unknown ELSE (Unit * some) \div all

\* The repetition's share of completed cases that passed.
PassRate(o) == IF o.passed + o.failed = 0 THEN 0 ELSE Rate(o.passed, o.passed + o.failed)
CaseRate(o) == IF Cases(o) = 0 THEN 0 ELSE Rate(o.passed, Cases(o))

\* Mutant: only the repetitions that completed.
MeanOfCompleted(reps) ==
    Total(reps, PassRate) \div Max({1, Len(SelectSeq(reps, LAMBDA o : ~o.crashed))})

\* A crashed repetition counts with the rate 0.
MeanPassRate(reps) == Total(reps, PassRate) \div Len(reps)

MeanCaseRate(reps) == Total(reps, CaseRate) \div Len(reps)

CallRates(reps) ==
    [structured |-> Rate(Total(reps, LAMBDA o : o.answered), Total(reps, Calls)),
     lost |-> Rate(Total(reps, LAMBDA o : o.lost), Total(reps, Calls))]

\* Every call that came back reports its cost, or the sum is unknown.
CostOf(c, reps) ==
    LET back == Total(reps, LAMBDA o : o.answered + o.malformed)
    IN  IF back = 0 \/ Price[c] = Unknown THEN Unknown ELSE Price[c] * back

LatencyOf(c, reps) == IF Total(reps, LAMBDA o : o.answered) = 0 THEN Unknown ELSE Latency[c]

-----------------------------------------------------------------------------
(* Live quality                                                             *)
LiveResult(c, reps) ==
    [pass |-> MeanPassRate(reps), cases |-> MeanCaseRate(reps),
     worst |-> Min({PassRate(o) : o \in ToSet(reps)}), repetitions |-> Len(reps),
     structured |-> CallRates(reps).structured, lost |-> CallRates(reps).lost,
     grounding |-> Max({0, Total(reps, LAMBDA o : o.critical) - Total(reps, LAMBDA o : o.excused)}),
     exercised |-> Total(reps, Cases), latency |-> LatencyOf(c, reps), cost |-> CostOf(c, reps)]

Qualifies(result, fresh) ==
    /\ result.repetitions >= MinRepetitions
    /\ fresh
    /\ result.pass >= MinPass
    /\ result.structured >= MinStructured
    /\ result.lost # Unknown /\ result.lost <= MaxLost
    /\ result.grounding = 0
    /\ result.exercised >= 1

Unstable(result) ==
    \/ result.worst < MinPass
    \/ result.grounding > 0
    \/ result.lost = Unknown \/ result.lost > MaxLost

\* The entry of a live run says nothing of errors in cases, nor of cost.
LiveEntry(c, reps, result) ==
    [of |-> c, reps |-> reps, eligible |-> Qualifies(result, TRUE),
     pass |-> result.pass, cases |-> result.cases, caseError |-> Unknown,
     structured |-> result.structured, lost |-> result.lost,
     latency |-> result.latency, cost |-> Unknown]

(* Tournament: all the cases of the completed repetitions together          *)
TournamentEntry(c, reps) ==
    LET passed == Total(reps, LAMBDA o : o.passed)
        failed == Total(reps, LAMBDA o : o.failed)
        whole == Len(SelectSeq(reps, LAMBDA o : ~o.crashed /\ o.failed + o.error = 0))
        pass == Rate(passed, passed + failed)
    IN  [of |-> c, reps |-> reps, eligible |-> pass # Unknown /\ pass >= MinPass,
         pass |-> pass, cases |-> Rate(whole, Len(reps)),
         caseError |-> Rate(Total(reps, LAMBDA o : o.error), Total(reps, Cases)),
         structured |-> CallRates(reps).structured, lost |-> CallRates(reps).lost,
         latency |-> LatencyOf(c, reps),
         cost |-> IF CostOf(c, reps) = Unknown THEN Unknown ELSE Rate(CostOf(c, reps), passed)]

-----------------------------------------------------------------------------
(* Order: a field after the other; what is unknown comes last; then the id  *)
Worst == 1000 * Unit

\* Mutant: the unknown comes first.
UnknownFirst(entry, field) ==
    IF field \in {"pass", "cases", "structured"} THEN -entry[field] ELSE entry[field]

Key(entry, field) ==
    IF entry[field] = Unknown THEN Worst
    ELSE IF field \in {"pass", "cases", "structured"} THEN -entry[field]
    ELSE entry[field]

Precedes(fields, e, f) ==
    \/ \E k \in DOMAIN fields :
          /\ Key(e, fields[k]) < Key(f, fields[k])
          /\ \A j \in 1 .. (k - 1) : Key(e, fields[j]) = Key(f, fields[j])
    \/ /\ \A k \in DOMAIN fields : Key(e, fields[k]) = Key(f, fields[k])
       /\ e.of < f.of

None == [of |-> 0]

First(fields, entries) ==
    IF entries = {} THEN None
    ELSE CHOOSE e \in entries : \A f \in entries \ {e} : Precedes(fields, e, f)

Second(fields, entries) == First(fields, entries \ {First(fields, entries)})

-----------------------------------------------------------------------------
(* Campaigns: a live run of each candidate, then the campaign               *)
Campaign(candidates) ==
    /\ Call("live", [todo |-> candidates, reps |-> <<>>, board |-> 0, runs |-> {}])
    /\ UNCHANGED <<stored, prov>>

Repeat(outcome) ==
    /\ at \in {"live", "tournament"} /\ call.todo # <<>> /\ Len(call.reps) < Repetitions
    /\ call' = [call EXCEPT !.reps = Append(@, outcome)]
    /\ Goto(at) /\ UNCHANGED <<stored, prov>>

PutLiveBoard ==
    /\ at = "live" /\ call.todo # <<>> /\ Len(call.reps) = Repetitions
    /\ LET c == Head(call.todo)
       IN  Put([kind |-> "board", live |-> TRUE,
                repetitions |-> LiveResult(c, call.reps).repetitions,
                entries |-> {LiveEntry(c, call.reps, LiveResult(c, call.reps))}])
    /\ call' = [call EXCEPT !.board = Len(stored) + 1]
    /\ Goto("live run") /\ UNCHANGED prov

PutLiveRun ==
    /\ at = "live run"
    /\ Put([kind |-> "live run", of |-> Head(call.todo), reps |-> call.reps, board |-> call.board,
            result |-> LiveResult(Head(call.todo), call.reps)])
    /\ call' = [call EXCEPT !.todo = Tail(@), !.reps = <<>>, !.runs = @ \cup {Len(stored) + 1}]
    /\ Goto("live") /\ UNCHANGED prov

\* One row for each candidate, the qualified ranked.
RankedBy == <<"pass", "structured", "lost", "latency", "cost">>

\* The last live run too old by now, or 0.
Ages == {0} \cup OfKind("live run")

Row(r, old) ==
    [of |-> stored[r].of, run |-> r, qualified |-> Qualifies(stored[r].result, r > old),
     unstable |-> Unstable(stored[r].result), pass |-> stored[r].result.pass,
     structured |-> stored[r].result.structured, lost |-> stored[r].result.lost,
     latency |-> stored[r].result.latency, cost |-> stored[r].result.cost]

Summary(kind, runs, old) ==
    LET rows == {Row(r, old) : r \in runs}
        qualified == {row \in rows : row.qualified}
        primary == First(RankedBy, qualified)
    IN  [kind |-> kind, rows |-> rows, runs |-> runs, old |-> old,
         primary |-> primary.of, fallback |-> Second(RankedBy, qualified).of,
         eligible |-> {row.of : row \in {q \in qualified : ~q.unstable}}]

PutCampaign ==
    /\ at = "live" /\ call.todo = <<>>
    /\ \E old \in Ages : Put(Summary("campaign", call.runs, old))
    /\ Return /\ UNCHANGED prov

-----------------------------------------------------------------------------
(* Tournaments: all candidates, then the run, then its board                *)
Tournament(candidates) ==
    /\ Call("tournament", [todo |-> candidates, reps |-> <<>>, entries |-> {}])
    /\ UNCHANGED <<stored, prov>>

NextCandidate ==
    /\ at = "tournament" /\ call.todo # <<>> /\ Len(call.reps) = Repetitions
    /\ call' = [call EXCEPT !.todo = Tail(@), !.reps = <<>>,
                            !.entries = @ \cup {TournamentEntry(Head(call.todo), call.reps)}]
    /\ Goto("tournament") /\ UNCHANGED <<stored, prov>>

PutTournamentRun ==
    /\ at = "tournament" /\ call.todo = <<>>
    /\ Put([kind |-> "tournament run"])
    /\ Goto("board") /\ UNCHANGED <<prov, call>>

PutTournamentBoard ==
    /\ at = "board"
    /\ Put([kind |-> "board", live |-> FALSE, repetitions |-> Repetitions, entries |-> call.entries])
    /\ prov' = prov \cup {<<Len(stored), Len(stored) + 1>>}
    /\ Return

QualificationRaises ==
    /\ at \in {"live", "live run", "tournament", "board"}
    /\ Return /\ UNCHANGED <<stored, prov>>

-----------------------------------------------------------------------------
(* What is concluded: a single put each                                     *)
Conclude(artifact) ==
    /\ at = "idle" /\ calls < MaxCalls /\ calls' = calls + 1
    /\ Put(artifact)
    /\ UNCHANGED <<prov, at, call, deaths>>

\* Mutants: the oldest run of each candidate; boards of fixtures; errors in cases.
OldestRuns(runs) == {r \in runs : \A q \in runs : stored[q].of = stored[r].of => r <= q}
AnyBoard(types) == OfKind("board")
ErrorsAllowed(entry) == TRUE

\* The newest of each candidate.
LatestRuns(runs) == {r \in runs : \A q \in runs : stored[q].of = stored[r].of => q <= r}

\* The matrix takes the runs of completed campaigns, readiness all.
BuildMatrix ==
    /\ OfKind("campaign") # {}
    /\ \E old \in Ages :
          Conclude(Summary("matrix",
                           LatestRuns(UNION {stored[c].runs : c \in OfKind("campaign")}), old))

AssessReadiness ==
    \E old \in Ages :
    LET qualified == {stored[r].of : r \in {s \in LatestRuns(OfKind("live run")) :
                                              Qualifies(stored[s].result, s > old)}}
    IN  Conclude([kind |-> "readiness", models |-> qualified, old |-> old,
                  ready |-> Configured \in qualified /\ qualified # {Configured}])

\* The boards of the evidence asked for; without a wish, none of fixtures.
Evidence(types) ==
    {b \in OfKind("board") : IF types = {} THEN stored[b].live ELSE stored[b].live \in types}

CaseErrorsFine(entry) == entry.caseError <= MaxCaseError

Eligible(entry) ==
    /\ entry.pass # Unknown /\ entry.pass >= MinPass
    /\ CaseErrorsFine(entry)
    /\ entry.eligible
    /\ entry.structured # Unknown /\ entry.structured >= MinStructured
    /\ entry.lost # Unknown /\ entry.lost <= MaxModelError

\* The newest board decides; it is not made up for by an older one.
Decide(fields, types, fallback, tooOld) ==
    LET boards == Evidence(types)
        board == IF boards = {} THEN 0 ELSE Max(boards)
        usable == board # 0 /\ ~tooOld /\ stored[board].repetitions >= MinRepetitions
        eligible == IF usable THEN {e \in stored[board].entries : Eligible(e)} ELSE {}
        first == First(fields, eligible)
        second == Second(fields, eligible)
        status == IF ~usable THEN "insufficient_evidence"
                  ELSE IF eligible = {} \/ (fallback /\ second = None) THEN "no_eligible_model"
                  ELSE IF fallback THEN "fallback" ELSE "selected"
    IN  Conclude([kind |-> "routing", board |-> board, fields |-> fields, types |-> types,
                  status |-> status,
                  selected |-> CASE status = "selected" -> first.of
                                 [] status = "fallback" -> second.of
                                 [] OTHER -> None.of,
                  fallback |-> CASE status = "selected" -> second.of
                                 [] status = "fallback" -> first.of
                                 [] OTHER -> None.of])

QualificationNext ==
    \/ \E candidates \in Fields : Campaign(candidates) \/ Tournament(candidates)
    \/ \E o \in Outcomes : Repeat(o)
    \/ PutLiveBoard \/ PutLiveRun \/ PutCampaign
    \/ NextCandidate \/ PutTournamentRun \/ PutTournamentBoard
    \/ BuildMatrix \/ AssessReadiness
    \/ \E fields \in Policies, types \in {{}, {TRUE, FALSE}}, fallback, tooOld \in BOOLEAN :
          Decide(fields, types, fallback, tooOld)
    \/ QualificationRaises
    \/ Die

-----------------------------------------------------------------------------
\* In terms of what happened: as many cases passed as the role asks for, of those
\* completed, calls answered and not lost, and no more critical grounding failures than
\* failures that are excused, of whatever kind and case.
CallsServed(reps, most) ==
    LET all == Total(reps, Calls)
    IN  /\ all > 0
        /\ Unit * Total(reps, LAMBDA o : o.answered) >= MinStructured * all
        /\ Unit * Total(reps, LAMBDA o : o.lost) <= most * all

LiveEarned(reps) ==
    /\ Len(reps) >= MinRepetitions
    /\ Total(reps, PassRate) >= MinPass * Len(reps)
    /\ CallsServed(reps, MaxLost)
    /\ Total(reps, LAMBDA o : o.critical) <= Total(reps, LAMBDA o : o.excused)

TournamentEarned(reps) ==
    LET passed == Total(reps, LAMBDA o : o.passed)
        failed == Total(reps, LAMBDA o : o.failed)
        errors == Total(reps, LAMBDA o : o.error)
    IN  /\ Len(reps) >= MinRepetitions
        /\ passed > 0 /\ Unit * passed >= MinPass * (passed + failed)
        /\ Unit * errors <= MaxCaseError * (passed + failed + errors)
        /\ CallsServed(reps, MaxModelError)

(* The router selects a model of the newest board of the evidence it was    *)
(* asked for, one that earned it in the repetitions behind its entry, all   *)
(* of them, and none that earned it too is better, or known where it is     *)
(* unknown, in what the policy compares first; its fallback is another one  *)
(* that earned it.                                                          *)
RoutedOnMerit ==
    \A d \in OfKind("routing") : stored[d].selected # 0 =>
       LET decision == stored[d]
           board == stored[decision.board]
           Earned(e) == IF board.live THEN LiveEarned(e.reps) ELSE TournamentEarned(e.reps)
           Entry(c) == CHOOSE e \in board.entries : e.of = c
           chosen == {c \in {decision.selected, decision.fallback} : c # 0}
           best == Entry(IF decision.status = "selected" THEN decision.selected ELSE decision.fallback)
           first == decision.fields[1]
       IN  /\ board.live \/ decision.types # {}
           /\ \A b \in OfKind("board") :
                 b < d /\ (stored[b].live \/ decision.types # {}) => b <= decision.board
           /\ decision.selected # decision.fallback
           /\ \A c \in chosen : Earned(Entry(c))
           /\ \A e \in board.entries : Earned(e) /\ e.of # best.of =>
                 /\ best[first] = Unknown => e[first] = Unknown
                 /\ e[first] # Unknown /\ best[first] # Unknown =>
                       IF first = "pass" THEN best.pass >= e.pass ELSE best[first] <= e[first]

(* A model qualifies by its newest run, in all its repetitions, the crashed *)
(* included, unless the run is too old: so for campaigns, for the matrix    *)
(* and for the readiness of the role.  Where one is qualified and stable a  *)
(* primary is named, one that is qualified and that no stable one beats in  *)
(* its pass rate, and the fallback is another that is qualified.  Whether   *)
(* an unstable model may be named is left open: the code names one, though  *)
(* it never is marked as eligible, which all its repetitions have to earn.  *)
QualifiedByEvidence ==
    /\ \A m \in OfKind("campaign") \cup OfKind("matrix") :
          LET summary == stored[m]
              earned == {r \in summary.rows : r.run > summary.old /\ LiveEarned(stored[r.run].reps)}
              row(c) == CHOOSE r \in summary.rows : r.of = c
              AllPass(r) == \A o \in ToSet(stored[r.run].reps) : PassRate(o) >= MinPass
          IN  /\ {r \in summary.rows : r.qualified} = earned
              /\ \A c \in {summary.primary, summary.fallback} \ {0} : row(c) \in earned
              /\ \A r \in earned : AllPass(r) =>
                    summary.primary # 0 /\ r.pass <= row(summary.primary).pass
              /\ summary.fallback # 0 => summary.primary \notin {0, summary.fallback}
              /\ \A c \in summary.eligible : row(c) \in earned /\ AllPass(row(c))
    /\ \A m \in OfKind("matrix") : \A r \in stored[m].rows : \A c \in OfKind("campaign") :
          \A q \in stored[c].runs : c < m /\ stored[q].of = r.of => q <= r.run
    /\ \A a \in OfKind("readiness") :
          stored[a].ready => \A c \in stored[a].models :
             \E r \in OfKind("live run") :
                /\ stored[a].old < r /\ r < a /\ stored[r].of = c /\ LiveEarned(stored[r].reps)
                /\ \A q \in OfKind("live run") : stored[q].of = c /\ q < a => q <= r
=============================================================================
