--------------------------- MODULE LiteratureSearch ---------------------------
(***************************************************************************)
(* literature.search_orchestrator with the ingestion it drives: a strategy *)
(* of queries is sent to the sources each query names, page after page and *)
(* within budgets; hits become snapshots and papers, pages become search   *)
(* records, and what came of it all becomes the execution.                 *)
(*                                                                         *)
(* A search is a pair <<query, place of a source in it>>.  The identity    *)
(* resolver is known here by its outcome only; IdentityResolution models   *)
(* it.                                                                     *)
(***************************************************************************)
EXTENDS ResearchRun, SequencesExt, FiniteSetsExt

CONSTANTS
    Strategies,     \* strategies: sequences of queries, each a sequence of sources
    Pages,          \* source -> the number of hits on each of its pages
    MaxQueries, MaxRequests, MaxPapers, MaxPages    \* the budgets

\* Each query names sources that are there, and each source has a first page.
ASSUME StrategiesAssumption ==
    /\ \A strategy \in Strategies : \A q \in DOMAIN strategy : \A k \in DOMAIN strategy[q] :
          strategy[q][k] \in DOMAIN Pages
    /\ \A strategy \in Strategies : strategy \in Seq(ToSet(strategy))
    /\ \A source \in DOMAIN Pages :
          1 \in DOMAIN Pages[source]
          /\ \A k \in DOMAIN Pages[source] : Pages[source][k] \in Nat

\* The budgets are counts; a cap of no page at all would leave every search out.
ASSUME BudgetsAssumption ==
    /\ MaxQueries \in Nat /\ MaxRequests \in Nat /\ MaxPapers \in Nat
    /\ MaxPages \in Nat \ {0}

\* The searches of the first MaxQueries queries, two sources a query at most.
SearchesOf(strategy) ==
    {s \in (1 .. Min({MaxQueries, Len(strategy)})) \X {1, 2} : s[2] \in DOMAIN strategy[s[1]]}

\* The search to be made next: query by query, source by source.
ThisSearch ==
    CHOOSE s \in call.todo : \A t \in call.todo : s[1] < t[1] \/ (s[1] = t[1] /\ s[2] <= t[2])

Source == call.strategy[ThisSearch[1]][ThisSearch[2]]

\* It is the first of its query.
NewQuery == \A s \in call.searches \ call.todo : s[1] # ThisSearch[1]

NoToken == 0

\* Mutant: the token as the record keeps it.
FromPagination == IF call.page < Len(Pages[Source]) THEN call.page + 1 ELSE NoToken

\* The orchestrator looks for next_page_token on the envelope and on its
\* payload; LiteratureSearchRecord has it in its field pagination only.
NextToken == NoToken

\* Mutants: a budget that is looked at once per search, and not at all; a
\* resolution that fails as if nothing had been found.
RequestsIgnored == FALSE
Unflagged == FALSE

RequestsUsedUp == call.requests >= MaxRequests
PapersUsedUp == call.papers >= MaxPapers
Flagged == TRUE

\* The papers of a page, as far as the budget goes.
Within(papers) ==
    {p \in papers : Cardinality({q \in papers : q < p}) < MaxPapers - call.papers}

-----------------------------------------------------------------------------
Execute(strategy) ==
    /\ Call("search", [strategy |-> strategy, todo |-> SearchesOf(strategy), searches |-> SearchesOf(strategy),
                       requests |-> 0, sent |-> 0, attempted |-> 0, succeeded |-> 0, failed |-> 0,
                       papers |-> 0, kept |-> {}, records |-> {}, failures |-> {}, fetched |-> 0,
                       page |-> NoToken, hits |-> 0, snapshot |-> 0, page_papers |-> {},
                       identities |-> 0, unread |-> {}, flagged |-> FALSE])
    /\ UNCHANGED <<stored, prov>>

\* Before a search: within a query, the request budget leaves a reason behind;
\* after a query it does not, and the paper budget never does.  Either way the
\* searches that are left are not made.
StopSearching ==
    /\ at = "search" /\ call.todo # {}
    /\ \/ /\ RequestsUsedUp /\ ~NewQuery
          /\ call' = [call EXCEPT !.todo = {}, !.failures = @ \cup {ThisSearch}]
       \/ /\ IF RequestsUsedUp THEN NewQuery ELSE PapersUsedUp
          /\ call' = [call EXCEPT !.todo = {}]
    /\ Goto("search") /\ UNCHANGED <<stored, prov>>

\* A query that cannot be loaded is a failure; its searches are not made.
QueryUnreadable ==
    /\ at = "search" /\ call.todo # {} /\ NewQuery /\ ~RequestsUsedUp /\ ~PapersUsedUp
    /\ LET ofQuery == {s \in call.todo : s[1] = ThisSearch[1]}
       IN  call' = [call EXCEPT !.failures = @ \cup ofQuery, !.todo = @ \ ofQuery]
    /\ Goto("search") /\ UNCHANGED <<stored, prov>>

\* The request is counted; the source may not be there.
BeginSearch ==
    /\ at = "search" /\ call.todo # {} /\ ~RequestsUsedUp /\ ~PapersUsedUp
    /\ LET counted == [call EXCEPT !.attempted = @ + 1, !.requests = @ + 1,
                                   !.fetched = 0, !.page = NoToken]
       IN  \/ call' = counted /\ Goto("page")
           \/ /\ call' = [counted EXCEPT !.failed = @ + 1, !.failures = @ \cup {ThisSearch},
                                         !.todo = @ \ {ThisSearch}]
              /\ Goto("search")
    /\ UNCHANGED <<stored, prov>>

\* The budgets again, before the page is asked for.
EndSearch ==
    /\ at = "page" /\ (RequestsUsedUp \/ PapersUsedUp \/ call.fetched >= MaxPages)
    /\ call' = [call EXCEPT !.todo = @ \ {ThisSearch},
                            !.failures = IF RequestsUsedUp THEN @ \cup {ThisSearch} ELSE @]
    /\ Goto("search") /\ UNCHANGED <<stored, prov>>

Fetch ==
    /\ at = "page" /\ ~RequestsUsedUp /\ ~PapersUsedUp /\ call.fetched < MaxPages
    /\ LET more == IF call.fetched > 0 THEN 1 ELSE 0
           page == IF call.page = NoToken THEN 1 ELSE call.page
           sent == [call EXCEPT !.attempted = @ + more, !.requests = @ + more, !.sent = @ + 1,
                                !.page = page, !.page_papers = {}]
       IN  \/ /\ call' = [sent EXCEPT !.hits = Pages[Source][page]]
              /\ Goto("hit")
           \/ /\ call' = [sent EXCEPT !.failed = @ + 1, !.failures = @ \cup {ThisSearch},
                                      !.todo = @ \ {ThisSearch}]
              /\ Goto("search")
    /\ UNCHANGED <<stored, prov>>

\* ingest_search: a snapshot, then the paper and its link to the snapshot.
PutSnapshot ==
    /\ at = "hit" /\ call.hits > 0
    /\ Put([kind |-> "snapshot"])
    /\ call' = [call EXCEPT !.snapshot = Len(stored) + 1]
    /\ Goto("paper") /\ UNCHANGED prov

PutPaper ==
    /\ at = "paper"
    /\ Put([kind |-> "paper"])
    /\ call' = [call EXCEPT !.hits = @ - 1, !.page_papers = @ \cup {Len(stored) + 1}]
    /\ Goto("link") /\ UNCHANGED prov

LinkPaper ==
    /\ at = "link"
    /\ prov' = prov \cup {<<call.snapshot, Latest, "generated_from">>}
    /\ Goto("hit") /\ UNCHANGED <<stored, call>>

\* The record, and the orchestrator's counts from the papers it returns.
PutRecord ==
    /\ at = "hit" /\ call.hits = 0
    /\ Put([kind |-> "record", search |-> ThisSearch, page |-> call.page,
            papers |-> call.page_papers])
    /\ LET kept == Within(call.page_papers)
           counted == [call EXCEPT !.records = @ \cup {Len(stored) + 1}, !.kept = @ \cup kept,
                                   !.papers = @ + Cardinality(kept), !.succeeded = @ + 1,
                                   !.fetched = @ + 1]
       IN  IF NextToken = NoToken
           THEN call' = [counted EXCEPT !.todo = @ \ {ThisSearch}] /\ Goto("search")
           ELSE call' = [counted EXCEPT !.page = NextToken] /\ Goto("page")
    /\ UNCHANGED prov

\* A put or a link of ingest_search raises: the search fails, with what it has
\* stored left in the store.
IngestFails ==
    /\ at \in {"hit", "paper", "link"}
    /\ call' = [call EXCEPT !.failed = @ + 1, !.failures = @ \cup {ThisSearch}, !.todo = @ \ {ThisSearch}]
    /\ Goto("search") /\ UNCHANGED <<stored, prov>>

\* The resolver passes over the papers whose records it cannot read, and finds
\* an identity for the others; or it fails (H23).
Identify ==
    /\ at = "search" /\ call.todo = {}
    /\ \/ \E unread \in SUBSET call.kept :
              call' = [call EXCEPT !.unread = unread,
                                   !.identities = IF unread = call.kept THEN 0 ELSE 1]
       \/ call' = [call EXCEPT !.flagged = Flagged]
    /\ Goto("execution") /\ UNCHANGED <<stored, prov>>

PutSearchExecution ==
    /\ at = "execution"
    /\ Put([kind |-> "search_execution", of |-> call])
    /\ prov' = prov \cup {<<r, Len(stored) + 1, "derived_from">> : r \in call.records}
    /\ Return

SearchNext ==
    \/ \E strategy \in Strategies : Execute(strategy)
    \/ StopSearching \/ QueryUnreadable \/ BeginSearch \/ EndSearch \/ Fetch
    \/ PutSnapshot \/ PutPaper \/ LinkPaper \/ PutRecord \/ IngestFails
    \/ Identify \/ PutSearchExecution
    \/ Die

SearchSpec == NothingStored /\ [][SearchNext]_researchVars

-----------------------------------------------------------------------------
Searched(e, search) == \E r \in e.records : stored[r].search = search

(* An execution accounts for every search: the budgets hold for what was    *)
(* really sent and kept; a search has a record or a failure, or a budget    *)
(* stopped the run; what it counts as papers are papers of its records, and *)
(* each leads back to the snapshot it was made from, whatever failed or     *)
(* died in between; papers without identities are flagged, unless the       *)
(* resolver could read none of them: it lists those as unresolved, and the  *)
(* execution, which does not look there, counts no unresolved record.       *)
SearchAccountedFor ==
    \A i \in OfKind("search_execution") :
        LET e == stored[i].of
        IN  /\ e.sent <= MaxRequests /\ Cardinality(e.kept) <= MaxPapers
            /\ e.succeeded = Cardinality(e.records)
            /\ \A s \in e.searches :
                  \/ Searched(e, s) \/ s \in e.failures
                  \/ e.requests >= MaxRequests \/ e.papers >= MaxPapers
            /\ e.attempted - e.succeeded - e.failed \in {0, 1}
            /\ e.attempted > e.succeeded + e.failed => e.requests >= MaxRequests
            /\ \A p \in e.kept :
                  /\ \E r \in e.records : p \in stored[r].papers
                  /\ \E s \in OfKind("snapshot") : <<s, p, "generated_from">> \in prov
            /\ e.unread # e.kept /\ e.identities = 0 => e.flagged
=============================================================================
