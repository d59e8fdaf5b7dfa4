# Verification of the research harness

TLA+ models of the research harness: its kernel, its stores, its agent loop and
model calls, the command line's composition of plugins, and the research
services that work on the artifact store. TLC checks them on small instances;
TLAPS proves the most important results for every instance. Paths below are
relative to `src/src/research_harness/` unless they start with `docs/` or
`tests/`.

1. The system
2. The modules
3. The kernel, the stores and the calls
4. The command line
5. The research services
6. Runs, bounds and fairness
7. Proofs
8. Findings
9. Not modelled, and what is next

## 1. The system

The harness is a plugin-first runtime. A small kernel composes plugins into a
runtime; a command of the CLI builds one, starts it, calls one service and stops
it. What the plugins have in common is durable state (artifacts in SQLite with a
provenance graph, blobs in the file system, session logs in JSONL) and calls of
model and literature providers over HTTP. A service reads artifacts, works, and
stores its results as new artifacts with links; nothing else survives the
process, so a repeated call goes by what an earlier one stored.

| component | state | operations | who it talks to |
|---|---|---|---|
| Plugin manager `kernel/manager.py` | registered plugins, providers, setup order, started flag, unsubscribers | register, setup_all, start_all, stop_all, resolve_order | calls every plugin's setup/start/stop/teardown; fills the registry |
| Service registry `kernel/services.py` | service -> instance and owner | register, require, get, unregister, clear_owner | plugins in setup, loop and routers at run time |
| Event bus `kernel/events.py` | handlers, bounded history | subscribe, publish | awaits the handlers one after the other |
| Artifact store `plugins/storage/artifacts_sqlite` | tables artifacts and provenance, one connection, one re-entrant lock | put, add_provenance, get_lineage, reads, close | publishes artifact.created, provenance.created |
| Blob store `plugins/storage/blobs_filesystem` | content-addressed files | put_bytes, get_bytes, exists, stat, delete | its callers store an artifact with the reference afterwards |
| Agent loop `plugins/loops/simple_tool_loop` | conversation, step counter of a run | run | model router, tools, event bus |
| Session log `plugins/sessions/jsonl` | one directory and events.jsonl per session | create_session, append, read | listens to all events of the bus |
| Model provider `plugins/models/openrouter` | pacing lock and next allowed time | complete | HTTP; cancelled by its callers' time limits |
| Command line `cli/main.py`, `bootstrap.py` | none between commands | over a hundred commands | composes a runtime each, requires services of it |
| Literature `plugins/literature` | artifacts of each stage | search, ingest, resolve, screen, extract evidence, synthesize, analyse gaps | providers, models, the store |
| Documents `plugins/documents` | acquisition, document and corpus artifacts, blobs | locate, fetch, extract, acquire, import | both stores, HTTP |
| Theory pipeline `plugins/research` | artifacts of each stage | select gap, generate, critique, build, derive, verify, differentiate, propose, sweep | models, sympy, the store |
| Novelty `research/novelty_validator` | claims, candidates, assessments, reports, gates | validate, revalidate, enrich, gate | literature providers, models |
| Writing `plugins/research` | packages, drafts, manuscripts, exports | assemble, outline, draft, revise, format, validate, export, package | models, the stores |
| Evaluation and routing `research/evaluation_*`, `plugins/routing`, `research/routing` | benchmarks, runs, boards, readiness | register, run, qualify, rank, route | everything above |

What is hard here:

* **Threads and processes on one database.** The store's checks are separate
  statements; its lock is one process's lock.
* **A lifecycle that fails half-way.** A setup or start that raises, after
  others have registered services and subscribed to the bus; restarts with other
  plugins; cancellation at any await.
* **Logs written through a bus.** Runs share a session; an append can fail or be
  cut by a crash; replay must be possible from the log.
* **Paced, retried, cancelled calls.** The lock is held across a sleep; counters
  start at 0; Retry-After and the caller's time limit compete.
* **Files and rows that must agree.** Blob first, artifact second, crash between.
* **Services that resume.** One artifact is stored after the other, a death may
  come between any two, and the next call has to make what is missing, once.
* **Partial failure that must stay visible.** Failed searches, chunks, claims,
  repetitions are counted somewhere; a count in the wrong place makes a corpus
  look complete, a gate pass, or an unreliable model win.
* **Verdicts that go stale.** A proposition is refuted after it was stated, a
  manuscript revised after it was validated, a board superseded by a newer one.

What makes each component right is stated by the properties below. What can go
wrong, at which line, and which property would notice is the list `hazards` of
`PROJECT.json`.

## 2. The modules

| module | models | checked by |
|---|---|---|
| `ProvenanceGraph` | rows, links, reachability, acyclicity | - |
| `ArtifactLedger` | abstract: what a store promises (`contracts/artifact.py`) | refined by `ArtifactStore` |
| `ArtifactStore` | put, add_provenance, close, crash of the SQLite store | `MCArtifactStore` (three cfgs), `StoreProofs` |
| `LineageWalk` | get_lineage | `MCAlgorithms`, `AlgorithmsProofs` |
| `PluginOrder` | the setup order as a function of the dependency graph | `PluginManagerProofs` |
| `KahnSort` | `_topo_sort`, iteration by iteration | `MCAlgorithms`, `PluginManagerProofs` |
| `PluginLifecycle` | register, setup_all, start_all, stop_all, both rollbacks, cancellation | `MCPluginLifecycle` (two cfgs), `PluginManagerProofs` |
| `AgentSession` | the agent loop, the bus and the session log together | `MCAgentSession`, `AgentSessionProofs` |
| `ModelCalls` | complete of the OpenRouter provider: pacing, retries, cancellation | `MCModelCalls`, `ModelCallsProofs` |
| `BlobStore` | put_bytes, get_bytes, delete and the callers' order | `MCServices`, `StoreProofs` |
| `PluginCatalogue` | each built-in plugin: the services it requires, provides, binds, registers | `MCAlgorithms` (two cfgs) |
| `CommandCatalogue` | each command: what it opens, lists, appends, requires, how it may end | `MCAlgorithms` |
| `CommandLine` | a command's call: composition, order, setup, service lookup, work, exit code | `MCAlgorithms`, `AlgorithmsProofs` |
| `ResearchRun` | what services share: a store, one call at a time, deaths between two puts | - |
| `LiteratureSearch` | search orchestrator and ingestion | `MCServices`, `LiteratureProofs` |
| `IdentityResolution` | identity resolver | `MCServices`, `ServicesProofs` |
| `ScreeningRun` | screening orchestrator, title/abstract screener, `screening review` | `MCServices`, `ServicesProofs` |
| `DocumentLocators` | metadata and Unpaywall locators and their combination | `MCServices` |
| `DocumentAcquisition` | acquisition orchestrator, HTTP fetcher, PDF extractor, import | `MCServices` |
| `EvidenceRun` | evidence orchestrator and extractor | `MCServices`, `LiteratureProofs` |
| `SynthesisRun` | literature synthesis and gap analysis | `MCServices` |
| `MechanismDevelopment` | gap selection, mechanism generator and critic | `MCServices`, `ServicesProofs` |
| `ModelSpecification` | model builder and specification critic | `MCServices` |
| `EquilibriumAnalysis` | deriver, verifier, comparative statics, propositions, numerical analysis | `MCServices`, `MCSweepRange` |
| `NoveltyValidation` | novelty validator | `MCServices`, `LiteratureProofs` |
| `ManuscriptDrafting` | results assembler and critic, manuscript drafter and critic | `MCServices`, `DraftingProofs` |
| `PublicationRun` | publication formatter | `MCServices`, `MCPublication`, `ServicesProofs` |
| `BenchmarkRun` | evaluation harness | `MCServices`, `ServicesProofs` |
| `ModelQualification` | live-quality runs, tournaments, matrix, readiness, policy router | `MCServices` |

`MC*` modules hold the values of constants. Two of them join several
specifications in one run, each behaviour being one of them: `MCAlgorithms` (the
sort, the lineage walk, the commands) and `MCServices` (the research services,
each on a store of its own, and the blob store). Operators introduced as "Mutants" in a module are
variants of a definition with a plausible bug; the specifications do not use
them. `PROJECT.json` names, for each property of a passing run, the mutant that
breaks it, and, for each definition, the lines it translates.

The services meet through the store alone: what one reads are artifacts another
stored and will not change. They are therefore modelled one by one, each with
the artifacts it starts from as a constant, and not in a product, whose states
would be combinations of independent ones. What a store promises to all of them
is `ArtifactLedger`; where two services do interact on artifacts that are
superseded in between (a manuscript and its gate, a proposition and its
verification, a mechanism and its analysis, a draft and its package), they are in
one module.

## 3. The kernel, the stores and the calls

### ArtifactStore

A step is one SQL statement (or one iteration of the cycle walk) of one thread.
`lock[p]` is `self._lock` of process `p`; `pc` runs through the lock, the checks,
BEGIN IMMEDIATE, INSERT, commit and the publication. `db` is what is committed,
`pending` and `inTxn` the open transaction of a process's connection, which all
its threads would share: that is what the lock protects, and without the lock
(mutant `LockIgnored`) a success is lost in another thread's rollback. BEGIN
fails when another process holds the write lock past `busy_timeout`; any INSERT
or commit may raise; a process may die anywhere, and its transaction with it;
`close` makes later statements raise. A fact is the call that stored it, so a row
carries its payload; timestamps, producers and hashes are left out. SQLite itself
is assumed: one writer, atomic commit, unique keys.

The abstract `ArtifactLedger` has two variables, the recorded facts and the
announced ones. Under the mapping `facts <- db, announced <- the calls whose
event is out` each step of one process's store records one admissible fact,
announces one, or changes nothing.

### LineageWalk

`get_lineage` holds the lock throughout, so the links are constant; a step takes
an artifact from the queue or looks at one row, in any row order. Both directions,
any start. Cyclic files are included because two processes can produce them (see
the findings).

### PluginOrder, KahnSort, PluginLifecycle

Plugin ids are numbers in the order of the ids as strings, since the sort breaks
ties by id. `KahnSort` shows the loop of `_topo_sort` builds the order that
`PluginOrder` defines without an algorithm (each place goes to the first plugin
whose dependencies are placed); `PluginLifecycle` uses that definition for
`resolve_order`, with the fallback that drops the optional edges.

In `PluginLifecycle` a step is one call of a plugin's hook by the manager. `op`,
`order` and `at` are the loop the coroutine is in and how far it is. A setup that
raises may have registered any part of its services and may have subscribed. What
stop and teardown raise is swallowed, so one step stands for both. `Cancel` is
`CancelledError` at an await, which no `except Exception` sees.

* `NothingLeftBehind`: a runtime at rest is clean; no plugin that is up holds a
  service that was taken down; the registry is in the way of no later setup.
* `StartedWithAll`: every plugin of a started runtime owns its services, listens
  once, and has found the optional services it declared.
* `StoppedInOrder`: dependents come down first, and a stop that ends leaves
  nothing up, even after cancelled calls.

### AgentSession

A step goes from one event of a run to the next; publish awaits the subscriber,
the model and the tools are awaited, and other runs come in there. `files` holds
the lines of each events.jsonl. The log of a session that was never created stays
empty, because append raises and the subscriber swallows it. A line can be torn by
a crash or a failed write, and what is written next continues that line.
Contents, roles, arguments and timestamps are left out: a message is its role and
the ids of its tool calls.

* `ConversationSound`: each tool call is answered once and in its order, and
  a log that was written whole rebuilds the conversation.
* `TrajectoryComplete`: a run's events in a shared log are complete and in order.
* `HistoryKept`: lines that were whole stay, and stay where they are.
* `RunsEnd`: every run ends, by an answer, an error or its step limit.

### ModelCalls

`complete` by tasks on one event loop. Times are what is left of a delay, and
`Tick` is one unit. `gap` is the time until `_next_allowed`; `idle` and `rest`
are observers for the properties (time since the last request, what is left of
the delay the last failure asked for). Jitter is 0 or 1. The repository itself
makes one model call at a time today; the pacing lock is written for concurrent
calls (`_pace`), and so is the model.

### BlobStore

`put_bytes`, `get_bytes` and `delete` contain no await, so the interleaving is
that of processes on one directory, at their system calls. A path holds nothing,
part of the bytes or all of them; rename is atomic, rmdir removes only an empty
directory (file system). `Refer` is the caller's `put` of an artifact that holds
the reference. The two directory levels of a digest are one here.

## 4. The command line

`PluginCatalogue` has one definition for each of the built-in plugin classes, with
what its metadata names (`provides`, `requires`, `optional_requires`) kept apart
from what its `setup` really does (`registers`, `binds` with require, `tries` with
try_get), because the two are written independently and disagree in places.
`CommandCatalogue` has one definition for each command: the plugin list it gives
`build_runtime` when there is no config file, the plugins it appends when a file
lacks them, the services it requires, and the ends of its work that give exit
code 0 and those that give 1.

`CommandLine` composes them. `Call` builds the composition, `Load` is the
manager's check of the required services and the choice between the graph with
and without optional services, `Place` the sort, `SetUp` one plugin's setup,
`Serve` the command's `require`s, and the last steps its work and the exit code.

`CommandsServed` joins six statements about every command under every config
file of the run and without one: a runtime the manager accepts comes up (`ComesUp`); the refused
compositions are exactly those of a stated list (`RefusedExactly`); the service a
command needs is missing in two stated cases only (`ServedExactly`); a `try_get`
that finds nothing although a plugin provides the service is one of three
(`MissedExactly`); a file only adds, with the novelty commands as the exception
(`FileAdds`); and the exit code is 0 just when the work was done, partly done, or
came to a negative verdict in a command that is not a gate (`ExitExactly`). The
lists in them are what the code does today, exceptions included; a plugin or
command that is added without its providers breaks one of the equivalences.

## 5. The research services

`ResearchRun` is what they share: `stored`, the artifacts in the order they were
put; `prov`, the links; `at` and `call`, the step and the local variables of the
call under way; `calls` and `deaths`, counted for the bounds. A step ends at a
stored artifact or link, a model call or an HTTP request, because these are where
a call can fail or die. `Die` forgets `at` and `call` and keeps `stored` and
`prov`. What a model, a provider or sympy answers is a choice among a few answers
that the code tells apart, malformed and failing ones included; a put that raises
leaves the same store as a death, and is one unless the code catches it.

| module | control that is kept | property of run `services` |
|---|---|---|
| `IdentityResolution` | groups by shared identifiers, reuse of an identity with the same members, supersession of included ones, records that cannot be loaded | `ResolvedTogether`, `KeepsIdentities` (in `ArtifactsStand`): a chain of identifiers ends in one identity in force, no paper falls out of its identity |
| `ScreeningRun` | resumption from stored decisions, budget, forced exclusion, the fallback on failure, review policy with its review stored, stored without its link or lost, a person's reviews at any time | `ScreenedAsDecided`: asked once, counted once, as the decision or a review says, or as uncertain where a review was wanted |
| `LiteratureSearch` | the loops over queries, sources, pages with their budgets, ingestion of snapshots, papers and records, identities, papers the resolver could not read | `SearchAccountedFor`: each search has a record, a failure, or a budget that stopped it |
| `DocumentLocators` | known URLs, reuse of locations, Unpaywall's snapshot and derivations, combination | `DocumentsAccounted`: a URL once per locator, everything found or flagged |
| `DocumentAcquisition` | locations in order, redirects, failed downloads, known bytes, blob, acquisition, extraction, import, corpus | `DocumentsAccounted`: a paper counted once as what it is, bytes acquired once |
| `EvidenceRun` | chunks, budget, chunk cap, resumption by chunk, profile, corpus | `EvidenceAccountedFor` |
| `SynthesisRun` | batches, grounding, deduplication, support counts; gaps with their support and ranking | `SynthesisGrounded`: on evidence of its own corpus, several papers only when there are several |
| `MechanismDevelopment` | selection and approval, generation, critique, selection, the superseding analysis | `MechanismsEarned`, `AnalysisKeeps` (in `ArtifactsStand`) |
| `ModelSpecification` | the caps list by list and what is dropped with them, validation, critique, revision | `SpecifiedWhole` (in `ClaimsRestOnVerified`): nothing that was cut is referred to |
| `EquilibriumAnalysis` | symbolic, then model candidates, verification, revision, statics, propositions, their verification and critique, points and supports | `ClaimsRestOnVerified` |
| `NoveltyValidation` | claims, search, candidates, assessment, report, gate; revalidation with reuse; enrichment; the authors' revisions at any time | `ReadyIsEarned`: a ready gate has searched and judged every claim of a current manuscript |
| `ManuscriptDrafting` | findings and claims with grounding and conditions, sections within a budget, critique, revision of faulty sections; verification at any time | `DraftsFollow`: findings rest on what was verified before them, a revision changes the faulty sections only, nothing completed is made twice |
| `PublicationRun` | formatting per profile, validation, supersession, exports, packages; verification at any time | `SubmittedWhole` |
| `BenchmarkRun` | registration with taken ids, cases that are missing or crash, evaluators, report, run | `ReportsAreWhole` |
| `ModelQualification` | repetitions, crashed ones included, rates, grounding failures and what excuses them, the age of runs, eligibility, order, boards, matrix, readiness, router | `QualifiedOnMerit` |

A property leaves a situation out where the code does not give what it says
there; each of these is named in the comment above the property and described
under "Seen in the code" below.

## 6. Runs, bounds and fairness

| run | instance | properties | what it shows |
|---|---|---|---|
| `store_threads` | 1 process, 3 threads, 7 calls | LineageAcyclic, NoDanglingLinks, ImplementsLedger, CallsReturn | three links that close a cycle only together, the same id put twice, a link to an id that is just being put |
| `store_processes` | 2 processes, 3 threads | SuccessMeansPersisted, EventsMatchFacts, CommittedForever | what holds without a common lock |
| `store_cycle` | 2 processes, 2 links | LineageAcyclic violated | finding 1 |
| `algorithms` | all 4096 graphs of 4 plugins; files of up to 3 links among 4 artifacts, a diamond, a cycle with a tail, a tree, two relations; every command under 8 config files and under none | SortCorrect, LineageExact, ClosestFirst, WalkTerminates, CommandsServed | the sort over every dependency graph; get_lineage exact, ordered, finite; what every command gets of its composition |
| `commands_default` | every command without a config file | DefaultsSuffice violated | finding 5 |
| `lifecycle` | 5 plugins, required and optional services, two rivals, failing setups and starts, one cancellation | NothingLeftBehind, StartedWithAll, StoppedInOrder | any history of registrations, starts, failures, stops |
| `lifecycle_documents` | 5 plugins of the default composition | TryGetFinds violated | finding 2 |
| `sessions` | five settings: see below | ConversationSound, TrajectoryComplete, HistoryKept, RunsEnd | conversation and log agree; interleaved trajectories are complete; the log only grows; runs end |
| `model_calls` | 2 tasks, intervals of 0 to 2, retries of 0 to 4, cap 4 | RetriesAsConfigured, RequestsApart, RestRespected, CallsEnd | pacing under retries and cancellation, backoff up to and past the cap |
| `services` | 21 instances of 15 services; the blob store with 3 writers, 1 reader, 1 deleter and 2 digests | ResolvedTogether, ScreenedAsDecided, SearchAccountedFor, DocumentsAccounted, EvidenceAccountedFor, SynthesisGrounded, ReadyIsEarned, MechanismsEarned, ClaimsRestOnVerified, ReportsAreWhole, QualifiedOnMerit, DraftsFollow, SubmittedWhole, ArtifactsStand, BlobsWhole, ReferencesResolve, NoTempLeft | section 5, over failures, deaths and repeated calls; crash-safe blobs |
| `sweep_range` | a sweep of three points, one feasible | RangesEarned violated | finding 3 |
| `bibliography` | two sections with one citation id for two papers | BibliographyCovers violated | finding 4 |

The largest run is `services`, with 1.9 million distinct states in about three
minutes; `lifecycle` has 113 thousand, `algorithms` 75 thousand.

### Bounds, and why they are enough

* Store: a cycle needs two links; three threads add a bystander who fails,
  rolls back or closes in between. Ids are four, so that an unstored one is
  put and linked to at the same time. Each thread makes one call: calls of one
  thread in sequence are calls of threads that begin later.
* Lineage: a tree with branches of different depth is the smallest file that
  tells breadth-first from depth-first.
* Kahn: four plugins include chains, diamonds, two-cycles in the middle of a
  graph and plugins with three dependencies.
* Commands: no bound on the commands or the plugins; the catalogues are complete.
  The files are the shipped example with and without a disabled source, the empty
  file, and those that list the storage, the provider, the router, or the last two:
  the conditions under which commands append plugins look at nothing else.
* Lifecycle: the plugins contain a required chain, optional services that
  close a cycle only when all are registered, subscribers, and two that provide
  one service; the number of starts, stops and failures is not bounded, that of
  cancellations is (`MaxCancels`). What a cancelled call leaves behind is promised
  by nobody: all but `StopClears` speak of histories without one (`Undisturbed`).
* Session: a behaviour chooses its setting at the beginning: one run of three
  steps with up to two tool calls an answer; two runs of one step that share a
  log, without faults and, with final answers only, with cancellation, crash and
  failing writes; two runs whose session is new or was never created, with
  failing creation and writes; one such run for two steps. One step is enough
  for two runs to meet in every pair of events. That a log is complete is said of
  the settings in which no write fails.
* Model calls: the configuration is chosen at the beginning, too; the interval,
  `MaxBackoff` and the Retry-After values are in units of
  a tick; 3 lies below the cap of 4, 100 above, -1 is a date in the past.
* Blobs: two digests share a directory, so that one's deletion meets the other's
  write. Writers and digests can be swapped, so the run begins with two writers of
  one digest and a third of either.
* Services: `MaxCalls` is 1 to 5. Where a module has several stages it is as many
  calls as they take and at least one more (4 for the mechanisms, set in
  `MCServices.cfg`). Two modules need two instances for that: the equilibria have
  one with many models, answers and revisions for 3 calls, up to the propositions
  or the numbers, and one (`EquilibriumFollowed`) with one solved model for 5, which
  goes through to the numbers past propositions that a generation left unverified,
  that are verified alone, or that are asked for again; the qualification has one
  with two candidates and one repetition, one with one candidate called three
  times, and one whose candidates pass with an unstable repetition. `MCCalls` holds
  identities, screening and benchmarks, of which section 7 proves the same for any
  number of calls, to two. There is one death
  (`MaxDeaths`), since a second one meets what the first left behind like any
  later call. None where the
  calls themselves fill the state space (novelty, qualification, the acquisition
  of two papers; one paper is acquired again after a death; a manuscript and its
  revision are validated under one policy, one version under two: `OnePolicy`,
  `OneVersion`). For those of `LiteratureProofs`, `ServicesProofs` and `DraftingProofs`,
  section 7 shows the same for any number of calls and deaths. Of data there are as
  many as the properties need: two of what may be confused (papers of one DOI, two
  corpora, two candidates, two profiles), three where a chain or a majority
  matters (identities joined by a third, points of a sweep, items of one paper).
  Budgets are one short of what the instance could use, so that they stop it.

`CHECK_DEADLOCK FALSE` is set where the calls of an instance come to an end
(every run but those of the lifecycle, whose manager can always be called again).

### Fairness

* `ArtifactStore`: weak fairness of each step of a call under way. Threads are
  scheduled by the system; no step waits for anything but the lock, and BEGIN
  ends after `busy_timeout`. Crashes, closing and storage errors are not fair.
* `LineageWalk`, and the run of the algorithms: weak fairness of the loop.
* `AgentSession`: weak fairness of each run's steps: the event loop runs ready
  tasks, provider calls have timeouts. Cancellation and crashes are not fair.
* `ModelCalls`: weak fairness of time and of each task's steps; httpx ends a
  request by its timeout.

The other specifications state safety only; the calls of the research services
are loops over lists that are fixed when they begin.

## 7. Proofs

TLAPS checks eight `*Proofs` modules from the named assumptions of their modules
on the constants only. They say that threads belong to processes, that calls,
stored facts, settings and configurations have their types, that writers, readers
and deleters are different processes, that the file at the start has unique keys,
no dangling link and no cycle, that plugins to sort and artifacts to walk are
finitely many, that a session id is created once, that a list of candidates and
the cases of a benchmark name each once, that there is a gap to choose, that
documents are a list with distinct ids (`DocumentsAssumption`), that a chunk has
at least one page and an answer of the model is a list of quotations
(`ExtractionAssumption`), that a strategy is a list of queries to sources with
pages of hits (`StrategiesAssumption`), that the budgets of a search are counts and
a source has at least one page (`BudgetsAssumption`), that a version of a mechanism is
a list of claims with their risk (`VersionsAssumption`), that the prior art is
finite and a judgement is one of the four relationships (`SearchAssumption`), that static and
numerical results are no propositions, an answer of the assembler's model is a list
of findings and a list of contributions and implications (`AssemblyAssumption`), the
outlined sections are a list (`SpecsAssumption`), and that drafts, formats and orders
are lists and an order names a section once (`DraftsAssumption`,
`ProfilesAssumption`). Every run that checks a module evaluates
its assumptions. Theorems that need more have it as a hypothesis of their own,
named below. All properties of these modules' runs are proved but the ones listed
at the end.

**Store, any number of processes and threads.** None of the properties is
inductive. `StoreInv` adds what they rest on: a thread in the critical section
holds its process's lock (`LockInv`); at most one transaction is open, it belongs
to a thread between BEGIN and commit, and holds exactly that call's fact, which
is not yet in the file (`TxnInv`); what the existence check saw is still so
(`EndpointsInv`); keys are unique; no two successful calls have one key
(`SuccessInv`). `StoreCorrect` proves it from one lemma per part, one step per
action; `SuccessPersists`, `EventsSound`, `LinksNeverDangle` and `Immutable`
follow.

**Store, one process.** The walk sees a stable graph because everyone who could
change it waits for the lock: `WalkInv` says that what the walk has finished with
is closed under the links, contains the target and not the source. When the
queue is empty, the source cannot be reached from the target, and lemma
`AcyclicExtend` (a link into a closed set from outside closes no cycle) gives
`OneProcessAcyclic`. With several processes this fails, and `store_cycle` shows
where. `Refinement` maps each step to one of `ArtifactLedger`.

**Lineage, any finite file.** `WalkCorrect` proves that what left the queue has
its links followed or still in the rows at hand; at the end the visited artifacts
are closed under the links, so `LineageCorrect`: exactly the reachable artifacts,
once each. `LineageClosestFirst` needs to know what the queue looks like between
two distances. `ClosestInv` says it for each ball around the start (what lies
within k links, `Within[k]`): the ball is all visited, or all that is visited
lies in it; the queue has those inside before those outside; and the artifact whose
links are being followed is inside whenever anything that waits is. So the next
one found is never in a smaller ball than one that was found before. That the
balls exist, being defined by recursion, is shown by a least number without them.

**Sort, any finite set of plugins.** `SortInv`: each in-degree is the number of
dependencies not placed yet, the queue is the set of plugins with none left, and
the result is in the order `PluginOrder` defines. The middle part is what makes the
loop right: an in-degree reaches 0 in the iteration that places the last
dependency, and in no other. `SortBuildsOrder` proves all of `SortCorrect`: that
dependencies come first follows from the order; that only cycles are refused from
the empty queue, since each plugin left over waits for another one left over; and
that the order is the one of ids and graph from the order having one choice at
every place (two orders that differ would differ at a first place, where each has
the least plugin that is ready). That a set of numbers has a least element comes
from the well-foundedness of <.

**Lifecycle, any plugins, any failing hooks.** The manager is always at some place
of a list. `IInv` says that the plugins up to that place (`Reach`) are up and
whole, all others clean (`Beyond`), and that a plugin that is up holds services
of earlier ones only (`BoundBefore`). From the order being sorted (`Planned`) the
next setup finds what it requires among the earlier ones and the names it
provides free. The same invariant read backwards is the rollback: what is taken
down last is what nobody after it holds. A cancelled call breaks all of that; what
survives is that whoever is up or owns a service is in the list a stop goes
through (`Listed`, `Reachable`), and `StopClears` rests on this part alone. So
`NothingIsLeft`, `StartBringsAll`, `StopsInOrder`. The first two assume that no
plugin requires or names as optional what it provides itself (`NoSelfService`),
which `MCAlgorithms` evaluates for the whole catalogue; without it, a setup asks
the registry for its own service and fails.

**Sessions, any runs, logs, answers and faults.** `Inv` has three parts.
`ConversationInv`: in a run that has not ended, the tool calls of the last answer
that have no result yet are those still to do, in their order. `LogInv`: a log tells of
nobody who has not started, and as long as nothing tore a line, no run that is still
going finds its own log torn. `WholeInv`: a log that could be written has as many events of each
kind as the place a run is at has seen, and, read from the beginning, retells the
messages of the run up to there. The counts are what ties the pieces together: one
more request than answers while the model is asked, equal otherwise. An append
by another run changes neither, because both look at one run's lines only;
an append by the run itself adds one event where one step was made. So
`Conversations`, `Trajectories` and, from the way a write continues the last line,
`WholeLinesStay`.

**Command line, any catalogue, commands and files.** `RuntimeComesUp`: a runtime
the manager accepts never fails in setup, first part of `CommandsServed`, from
`CatalogueSound`: a plugin's setup binds only what its metadata requires, registers
what it provides, requires nothing it provides, and no name is registered by two
plugins or bound from a source that a file disables. TLC evaluates it for the
built-in catalogue (`BuiltInsSound` in `MCAlgorithms`), so what the theorem says
holds for the built-in plugins under any list of them, not only the lists of the
run's files.

**Model calls.** `PaceInv`: the next slot plus the time since the last request
is never less than the interval, and the task that holds the lock sleeps at
least until the slot. A request goes out when that sleep is over, so `idle` has
reached the interval: `PacingCorrect`. Cancellation only frees the lock, after
the slot has been taken. `CountInv` counts attempts before requests, and gives
`RetriesCorrect`: no more retries than configured, or than the default where 0 is
configured, which the code reads as absent ("Seen in the code", 1).

**Blobs.** The properties with `WriterInv` are inductive: a temporary file
exists only while its writer writes or after it died, it is whole before the
rename, and a writer about to refer to a blob knows the file to be whole or
deleted. `rename` then is the only step that puts something under a blob's name,
and what it puts there is whole.

**Screening, any candidates and answers, deaths and calls again.** What makes
`ScreenedAsDecided` hold is spread over artifacts stored in different calls.
`ScreeningInv` collects it: a candidate has one decision, forced when a criterion
matched (`DecisionsSound`); a review that no person made says what its decision
says, or is the policy's disapproval, and a decision has one of these at most
(`ReviewsSound`); each stored set counts a paper once and as a decision older than
the set earned it (`SetsSound`); so does the call under way, and what it has left to screen is
neither counted nor failed (`CallSound`). The hard step is the disapproval: it
takes from a decision what it had earned. `DecidedSound` says why nobody counted it
before: the decision is newer than every set, and no other review of the policy
comes. A person's review keeps what was earned, which lemma `EarnedStays` shows.

**Benchmarks, any definitions and evaluators, deaths and calls again.** A
registration can die between two cases and go on with them later, and another
definition may have the same id. `RegisteredSound`: an id has one artifact, a
benchmark follows one definition, and of its cases the first ones are stored,
whatever died. A second definition that differs is then refused at the first case
that differs, so that the cases of a benchmark never mix two (`RegistrationSound`).
A report is about the cases in their order: `RunSound` and `JudgedSound` say that
the results at hand are those of the cases passed, and the verdicts those of the
evaluators asked so far. `BenchmarksCorrect` concludes from `ReportsSound`.

**Identities, any papers, identifiers and records that do not load, deaths and
calls again.** Two groups of one call may meet the same identity, and each
supersedes what it took in only after its own identity is stored, link by link.
`IdentityInv` therefore looks at the identities that stay in force when the links
under way are stored (`InForce`): what the call read as one identity is still
together in one, up to records that did not load, and so is every group that is
done (`TogetherSound`), since the new identity has the members of those it is about
to supersede (`ResolvingSound`). Chains of identifiers lead back and can be joined
(`AlikeChains`), so that groups are apart. A call that reads all identities in
force, apart from each other, and whose groups meet in none of them leaves in force
what it read, without what its groups took in, and what they made of it
(`ApartSound`). `IdentitiesTogether` and `IdentitiesStay` follow; neither needs an
assumption on the constants.

**Searches, any strategies, sources, budgets and failures, deaths and calls again.**
`SearchAccountedFor` compares what an execution says with what its loops over
queries, sources and pages did. `SearchInv` follows them: every search passed has a
record, a failure, or a budget that was used up (`Searching`), and of the requests
counted one at most neither succeeded nor failed, and none before the budget of
requests is used up (`Balanced`). Between a request and its record both parts
would be wrong for the search under way: `RequestSound` says that it is the only one
not accounted for, and `PapersSound` that of its papers only the one put last may
have no link to the snapshot yet. A budget stops the loops at any of these places.
`SearchesCounted` follows, since only a call that is through is stored as an
execution.

**Evidence, any documents, chunks and answers, deaths and calls again.** A call
resumes what earlier ones stored: which chunks need no request is read from the
executions of all of them. `EvidenceInv`: an item cites a page of its chunk and a
document has a statement once (`ItemsSound`), which needs that the chunks of a document
are apart (`ChunksApart`); requests counted in an execution are those its chunks
cost (`ExecutionsSound`, `OpenSound`); and at each document the ones passed are
those with a profile, those without text and the failures, each once (`Counting`).
So the corpus counts each document in one place and cites only profiles that are
stored (`CorporaSound`), which is `EvidenceCounted`.

**Novelty, any versions, prior art and judgements, deaths, authors' revisions and
enrichment in between.** A gate says ready in a late step of a call
that took verdicts over from an earlier report, while the authors may revise the
manuscript at any time and papers may have been enriched and judged again. `NoveltyInv` has a part for
what is stored and one for the call. Stored: a candidate is judged on evidence
only, and judged again only where the evidence was insufficient; a claim is not
threatened only if it was searched and every candidate found is distinct from it; a
report supersedes an older one, has no more assessments than claims, and is clear only
if every claim has an assessment that vouches for it (`ArtifactsSound`). The call: the
assessments it took over say of its claims what they said of the earlier ones, under
the same policy (`Validating`), and with those it made and those still to make they are
no more than its claims (`Balance`). The gate refuses a report with fewer, so there
is one for each, and it looks at the version in force when it checks. So
`ReadyEarned`.

**Mechanisms, any gaps, proposals and approvals, deaths and calls again.**
`MechanismInv` is `MechanismsEarned` and what a call knows of the candidate or
selection it works on (`MechanismCallSound`): between the check that nothing is
stored for it and the put, nothing else puts one. That gives `MechanismsCorrect`.
`AnalysesKeep` is about the steps of an analysis that is superseded again and
again, with links that a death may never store, so that several versions are in
force by the links. `AnalysisInv` has what decides it: whatever is superseded has
a newer version (`SupersedingSound`, `LinksLeftSound`), so the newest one is among
those in force and is the one that is taken (`CurrentIsNewest`); no version leaves
a candidate of its selection out that an older one had (`VersionsSound`); and
without a death every candidate is in an analysis or being made, and the newest
analysis knows all critiques and mechanisms of its candidates but for the one that
a call is about to enter (`CompleteSound`). A death breaks the last part and no other.

**Publication, any drafts, profiles and formats, deaths and calls again, with
verifications in between.** A package is ready long after its manuscript was
formatted: propositions are verified again meanwhile, validation makes another
manuscript that supersedes the first, and exports of earlier calls are reused.
`PublicationInv` goes from the draft to the package. A stored manuscript is what
formatting makes of its draft, and where it keeps its conditions each section
rests on verifications older than it (`FormattedSound`, `VerifiedBefore`); a
validated one passes. A manuscript is superseded by later ones only, so the chain
of first successors a package follows ends, and ends with a manuscript that is in
force (`ChainsSound`, `LeafIsOne`, by counting the places left). Between the check
that nothing is stored and the put, nothing else puts the same manuscript or export
(`ToBePut`), so that none is made twice (`FormattedOnce`, `ExportedOnce`). While a
package is made, its exports and the formats to come are all formats
(`Packaging`). What passed then has the draft's sections in the profile's order
(`SectionsOrdered`, `PlacesOrdered`) and each cited paper in its bibliography, if
sections number their citations together (`CitesCovered`); finding 4 is what happens if
they do not. `SubmissionsWhole` follows. A profile that names a
section twice is left out: it fits no manuscript.

**Results and manuscripts, any propositions, answers, outlines, budgets and faults,
deaths and calls again, with verifications in between.** What a call looked up when it
began (the propositions verified, the draft it revises and its faults) decides what it
puts many steps later, when more has been verified and criticised. `DraftingInv` says
what that is still worth. Stored: a finding rests on results, or on propositions
that a verification older than it verified, with all their conditions (`FindingsSound`);
a package's claims name its own findings, and no finding is in two packages
(`PackagesSound`); one assembly at most has findings (`OneAssembly`), and while a
package is being assembled there is none (`Assembling`); a draft has the sections
it was asked for, and a revision those of the draft it supersedes, each the old one
unless a critique faulted it before, and then newer than that critique (`DraftsSound`);
executions of drafts that answer one request are one (`DraftExecutionsSound`). The call:
the sections made and those left are the outline's, or the old draft's, in order
(`SectionsMade`); what it was asked for has no execution yet (`DraftAsked`), which is
why the last step completes nothing for the second time; and a finding of an
accepted answer is among those the call has made until they are in a package
together (`FindingsPackaged`). The last part a death breaks, and no other. It also needs
that an answer is judged as a whole before its first finding is put. So
`DraftingCorrect`.

What stays with TLC: liveness (CallsReturn, WalkTerminates, RunsEnd, CallsEnd),
which TLAPS does not handle under fairness; `RestRespected`, since the provers know
nothing of powers of two; the parts of `CommandsServed` that list the built-in
exceptions, which are statements about these catalogues and no others;
`ArtifactsStand`, which joins what the steps of two services may not do (its two
parts are `IdentitiesStay` and `AnalysesKeep`); and the properties of the other research services:
`DocumentsAccounted`, `SynthesisGrounded`, `ClaimsRestOnVerified` and
`QualifiedOnMerit`.

## 8. Findings

With a run:

1. `store_cycle`: two processes on one database can commit a provenance cycle.
   The comment in `add_provenance` names the danger and the lock that removes it
   for threads; the graph walk runs before BEGIN IMMEDIATE, outside of anything
   two processes share.
2. `lifecycle_documents`: the acquisition orchestrator looks for fetcher,
   extractor and locators with try_get but declares no optional_requires, so it
   is set up before them and never sees them. The numerical plugin does the same
   with the blob store.
3. `sweep_range`: a parameter is supported over its range although the
   equilibrium exists at one of three points of its sweep: points without an
   equilibrium do not say which parameter they belong to.
4. `bibliography`: two sections that number their citations independently lose
   one of two papers in the bibliography, which validate then compares with itself.
5. `commands_default`: without a config file 18 commands list no model router,
   which a plugin of theirs requires, and are refused, where `cli/main.py:484` says
   that every command's default lists everything it needs. `CommandsServed` leaves
   them out (`Routerless`).

### Seen in the code

What follows was met while modelling. The models contain it, or leave it out where
a property's comment says so; it has no run of its own.

1. Kernel and calls: a configured `max_retries: 0` means two retries
   (`models/openrouter` line 425); the rollback of a failed start stops providers
   before plugins that were set up with their services (`kernel/manager.py:248`); after a crash within a write the
   next event of that session continues the torn line, and the session cannot be
   read any more (`sessions/jsonl` line 127); after stop_all the manager accepts a
   second provider of a service whose first provider is still registered
   (`manager.py:283`), and no later start succeeds.
2. Calls that died are taken for finished: an execution artifact is put before the
   corpus, analysis, synthesis or package it belongs to, and the next call finds
   the execution and returns (evidence, synthesis, gaps, mechanisms, equilibrium,
   statics). An execution whose model calls all failed or whose budget ended is
   reused in the same way. Unpaywall's locations are derived once, so that those a
   death cut off never are; an identity's missing supersedes link, a case's missing
   link and a board without its run are not repaired either.
3. Search: `next_page_token` of one record ends up in the record's pagination; a
   stop by the paper budget records no reason; the request that the budget refuses
   is counted; papers the resolver could not read are in its `unresolved_paper_ids`
   (`identity_resolver` lines 106-108), which the search ignores
   (`search_orchestrator` 225-234, its `unresolved_records` is always 0), so they stay
   without identity or flag where it read some others, or none.
4. Screening: of several reviews the first one listed counts; a matched exclusion
   criterion forces the exclusion (`title_abstract_screener`, M41), where
   `docs/workflows/literature/screening.md:116` speaks of a warning; a disapproval
   whose review cannot be stored still makes the candidate uncertain
   (`screening_orchestrator` lines 322-383), and the next run, which finds no review,
   counts what the model said; approving a protocol twice makes two approved versions.
5. Locators: when the snapshot of a DOI is stored and the locations of this
   identity are not (a second identity of the DOI, or a call after a death), they are
   derived in the order of priority and returned in that of their ids, which are
   random (`locator_unpaywall:262`), against the orchestrator's comment at line 73;
   every other call returns the order of priority. Some failures are silent.
6. Extraction: a blob that could not be read once leaves a document with
   extraction_failed that is reused for good; an imported acquisition that is
   reused is not extracted.
7. Gap selection: a selection that stands is returned also for another gap that
   is named; a rejected choice still stores its gap as selected.
8. Novelty: claims beyond max_claims are left out of the report without a
   failure; enriching two candidates recomputes the assessment from the first one
   each time; a gate can be asked for a superseded report by its id.
9. Equilibria: a revision is asked for with the first candidate and the latest
   verification; propositions are reused when any exist, verified or not.
10. Drafting: whether a claim's ground is of the declared type and exists is
    checked, not whether it was verified; the outline's list of artifacts is not
    enforced; a revision ignores the budget.
11. Publication: an export is reused for the same draft and format whatever the
    profile and manuscript; `publication_formatter` registers exporters it does
    not declare.
12. Qualification: the router looks at the newest board only, and a live board
    has one candidate; repetition_failure_rate is reported and not gated; the
    matrix can name an unstable primary, where `docs/operations/evaluation.md:1252`
    says never; failures of any kind that the ledger excuses, of whatever case, are
    subtracted from the critical grounding failures (`routing/readiness.py:132`);
    the routers read a `routing` section that the configuration cannot contain.
13. Command line: besides the commands of finding 5 (`Routerless`), the novelty
    commands drop their other plugins when a file is given; literature discover
    appends the router only with the provider; many commands end with 0 on a
    negative verdict while `Gates` end with 1.
14. Identities: the resolver keeps one stored identity per set of members, the
    newest. When that one was superseded it hides an older one with the same
    members that is in force, and a paper may end in two identities.
15. Benchmarks: an evaluator of either kind that abstains makes its case `skipped`
    (`evaluation_harness` lines 749-762) and so fails the report, a status that
    `docs/operations/evaluation.md` (lines 39 and 149-151) does not have.

## 9. Not modelled, and what is next

Left out for good: conversions (payloads, parsing, redaction, rendering to
Markdown, LaTeX and DOCX), printing, Pydantic schemas, symbolic algebra, the HTTP
clients of the literature sources behind one outcome per request, the evaluators,
which are pure functions of recorded outputs, and the reads of the stores, which
change nothing. `PROJECT.json` says for each component what is left out of it.

What is next, most important first:

1. Two processes of one research service on one store: the models of section 5
   let a death come between, and a person's review or another service's
   verification, but not a second call of the same service at the same time.
2. Proofs for the other research services: `SynthesisRun`,
   `DocumentAcquisition`, `EquilibriumAnalysis`.
3. Money budgets and the schedule of cells of a tournament; offline and as-of
   modes of the novelty search.
