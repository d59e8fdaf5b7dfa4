--------------------------- MODULE DocumentLocators ---------------------------
(***************************************************************************)
(* Where the documents of a paper are: the acquisition orchestrator asks   *)
(* the metadata locator, then Unpaywall's, and combines what they return.  *)
(* Each stores a location once per URL and takes up what an earlier call   *)
(* has left; Unpaywall's answer is kept as a snapshot.                     *)
(*                                                                         *)
(* URLs are numbers, in the order of their text.  A location's id is a     *)
(* random UUID: sorting by it gives any order.                             *)
(***************************************************************************)
EXTENDS ResearchRun, SequencesExt, FiniteSetsExt

CONSTANTS
    Identities,      \* identities of papers
    Doi,             \* identity -> DOI
    Known,           \* identity -> the URLs in the metadata of its papers
    Offers,          \* DOI -> Unpaywall's locations, a set of [url, direct]
    MaxLocations     \* max_locations_per_paper

NoSnapshot == 0

LocationsOf(identity) == {l \in OfKind("location") : stored[l].identity = identity}
SnapshotsOf(doi) == {s \in OfKind("snapshot") : stored[s].doi = doi}

\* Mutants: the other locator's location is not found; any order, as before
\* M42; the second list without a look at the first.
SameResolver(url) ==
    {l \in LocationsOf(call.identity) : stored[l].url = url /\ stored[l].by = "unpaywall"}
Reversed(locations) == SetToSortSeq(locations, >)
Appended(first, second) == SubSeq(first \o second, 1, Min({MaxLocations, Len(first \o second)}))

\* M42: locations of an earlier call, in the order they were stored.
InStoredOrder(locations) == SetToSortSeq(locations, <)

\* _priority: direct PDFs first, then by URL.
ByPriority(offers) ==
    SetToSortSeq(offers, LAMBDA a, b :
        (a.direct /\ ~b.direct) \/ (a.direct = b.direct /\ a.url < b.url))

Urls(locations) == [k \in DOMAIN locations |-> stored[locations[k]].url]

\* Unpaywall takes the location of either locator.
SameUrl(url) == {l \in LocationsOf(call.identity) : stored[l].url = url}

\* _resolve_locations: the metadata's first, each URL once, the first few.
Combined(first, second) ==
    LET seen == ToSet(Urls(first))
        all == first \o SelectSeq(second, LAMBDA l : stored[l].url \notin seen)
    IN  SubSeq(all, 1, Min({MaxLocations, Len(all)}))

-----------------------------------------------------------------------------
Locate(identity) ==
    /\ Call("metadata", [identity |-> identity, todo |-> SetToSortSeq(Known[identity], <),
                         first |-> <<>>, offers |-> <<>>, second |-> <<>>, snapshot |-> NoSnapshot,
                         resumed |-> FALSE, silent |-> FALSE, errors |-> 0,
                         links |-> <<>>, step |-> ""])
    /\ UNCHANGED <<stored, prov>>

NewLocation(url, locator) ==
    [kind |-> "location", identity |-> call.identity, url |-> url, by |-> locator,
     snapshot |-> call.snapshot]

Find ==
    /\ at = "metadata" /\ call.todo # <<>>
    /\ LET url == Head(call.todo)
           mine == {l \in SameUrl(url) : stored[l].by = "metadata"}
       IN  IF mine # {}
           THEN /\ call' = [call EXCEPT !.todo = Tail(@), !.first = Append(@, Min(mine))]
                /\ Goto("metadata") /\ UNCHANGED <<stored, prov>>
           ELSE PutLinked(NewLocation(url, "metadata"), <<call.identity>>, "metadata",
                          [call EXCEPT !.todo = Tail(@), !.first = Append(@, Len(stored) + 1)])

\* H24: a locator that raises counts as an error, and has found nothing.
MetadataFails ==
    /\ at = "metadata" \/ (at = "link" /\ call.step = "metadata")
    /\ call' = [call EXCEPT !.first = <<>>, !.todo = <<>>, !.errors = @ + 1]
    /\ Goto("unpaywall") /\ UNCHANGED <<stored, prov>>

AskUnpaywall == at = "metadata" /\ call.todo = <<>> /\ Goto("unpaywall")
                /\ UNCHANGED <<stored, prov, call>>

\* With a snapshot of the DOI, Unpaywall is not asked again.
FromSnapshot ==
    /\ at = "unpaywall" /\ SnapshotsOf(Doi[call.identity]) # {}
    /\ LET snapshot == Min(SnapshotsOf(Doi[call.identity]))
           derived == {l \in LocationsOf(call.identity) : stored[l].snapshot = snapshot}
       IN  IF derived # {}
           THEN /\ call' = [call EXCEPT !.second = InStoredOrder(derived)]
                /\ Goto("combine")
           ELSE /\ call' = [call EXCEPT !.snapshot = snapshot, !.resumed = TRUE,
                                        !.offers = ByPriority(stored[snapshot].offers)]
                /\ Goto("derive")
    /\ UNCHANGED <<stored, prov>>

\* No answer, or a status that is neither 429 nor a server's error: no
\* locations, and no error either.
Silent ==
    /\ at = "unpaywall" /\ SnapshotsOf(Doi[call.identity]) = {}
    /\ call' = [call EXCEPT !.silent = TRUE]
    /\ Goto("combine") /\ UNCHANGED <<stored, prov>>

UnpaywallFails ==
    /\ \/ at = "unpaywall" /\ SnapshotsOf(Doi[call.identity]) = {}
       \/ at = "derive" \/ (at = "link" /\ call.step = "derive")
    /\ call' = [call EXCEPT !.second = <<>>, !.errors = @ + 1]
    /\ Goto("combine") /\ UNCHANGED <<stored, prov>>

\* The answer is stored, a 404 as one without locations.  Where the snapshot
\* cannot be, its locations are derived from none (M43).
Answered ==
    /\ at = "unpaywall" /\ SnapshotsOf(Doi[call.identity]) = {}
    /\ LET offers == Offers[Doi[call.identity]]
       IN  \/ /\ Put([kind |-> "snapshot", doi |-> Doi[call.identity], offers |-> offers])
              /\ call' = [call EXCEPT !.offers = ByPriority(offers), !.snapshot = Len(stored) + 1]
           \/ call' = [call EXCEPT !.offers = ByPriority(offers)] /\ UNCHANGED stored
    /\ Goto("derive") /\ UNCHANGED prov

Derive ==
    /\ at = "derive" /\ call.offers # <<>>
    /\ LET url == Head(call.offers).url
       IN  IF SameUrl(url) # {}
           THEN /\ call' = [call EXCEPT !.offers = Tail(@), !.second = Append(@, Min(SameUrl(url)))]
                /\ Goto("derive") /\ UNCHANGED <<stored, prov>>
           ELSE PutLinked(NewLocation(url, "unpaywall"),
                          IF call.snapshot = NoSnapshot THEN <<call.identity>>
                          ELSE <<call.snapshot, call.identity>>, "derive",
                          [call EXCEPT !.offers = Tail(@), !.second = Append(@, Len(stored) + 1)])

\* What was derived from a snapshot of an earlier call, for this identity or
\* for another of its DOI, is sorted by id.
Derived ==
    /\ at = "derive" /\ call.offers = <<>>
    /\ \E order \in IF call.resumed THEN SetToSeqs(ToSet(call.second)) ELSE {call.second} :
          call' = [call EXCEPT !.second = order]
    /\ Goto("combine") /\ UNCHANGED <<stored, prov>>

Located == at = "combine" /\ Return /\ UNCHANGED <<stored, prov>>

LocatorsNext ==
    \/ \E identity \in Identities : Locate(identity)
    \/ Find \/ Link \/ MetadataFails \/ AskUnpaywall
    \/ FromSnapshot \/ Silent \/ UnpaywallFails \/ Answered \/ Derive \/ Derived \/ Located
    \/ Die
-----------------------------------------------------------------------------
Linked(l) ==
    /\ <<stored[l].identity, l>> \in prov
    /\ stored[l].snapshot # NoSnapshot => <<stored[l].snapshot, l>> \in prov

AllOf(identity) == Known[identity] \cup {o.url : o \in Offers[Doi[identity]]}

(* Whatever earlier calls left behind when they died or failed: a URL of a  *)
(* paper has one location per locator, and Unpaywall adds none for a URL    *)
(* that has one; a location that names a snapshot repeats an offer of it;   *)
(* what the orchestrator gets lists each URL once and the metadata's first. *)
LocatedOnce ==
    /\ \A l, m \in OfKind("location") :
          /\ stored[l].identity = stored[m].identity /\ stored[l].url = stored[m].url /\ l < m
          => stored[l].by = "unpaywall" /\ stored[m].by = "metadata"
    /\ \A l \in OfKind("location") : stored[l].snapshot # NoSnapshot =>
          /\ stored[l].snapshot < l
          /\ \E o \in stored[stored[l].snapshot].offers : o.url = stored[l].url
    /\ at = "combine" =>
          LET combined == Combined(call.first, call.second)
          IN  /\ \A j, k \in DOMAIN combined :
                     j < k => stored[combined[j]].url # stored[combined[k]].url
              /\ \A j, k \in DOMAIN combined :
                     j < k /\ combined[k] \in ToSet(call.first) => combined[j] \in ToSet(call.first)

\* A call was cut short among the locations of its snapshot, or had none to
\* derive them from: later calls return what this snapshot's are.
CutShort(identity) ==
    \E l \in LocationsOf(identity) :
        \/ stored[l].snapshot = NoSnapshot /\ stored[l].by = "unpaywall"
        \/ /\ stored[l].snapshot # NoSnapshot
           /\ \E o \in Offers[Doi[identity]] :
                 \A m \in LocationsOf(identity) : stored[m].url # o.url

InPriority(urls, offers) ==
    \A j, k \in DOMAIN urls : j < k =>
        \E a, b \in offers : a.url = urls[j] /\ b.url = urls[k] /\ (a.direct \/ ~b.direct)

(* Every call finds all that the metadata and Unpaywall know of, and a       *)
(* paper that lacks a location was flagged as a locator's error (H24), but   *)
(* for Unpaywall's silence, which is not flagged, and for calls after one    *)
(* that was cut short.  Unpaywall's come with the direct PDFs first, whether *)
(* they are new or taken over as stored, but for a call that derives them    *)
(* from a snapshot an earlier call has stored: the first call after one that *)
(* died in between, and the first for a second identity of a DOI, return     *)
(* them in the order of their random ids, against the orchestrator's         *)
(* "already returns in priority order" (acquisition_orchestrator, line 73).  *)
FoundOrFlagged ==
    at = "combine" /\ ~call.silent /\ call.errors = 0 =>
        /\ ~call.resumed => InPriority(Urls(call.second), Offers[Doi[call.identity]])
        /\ \/ AllOf(call.identity) =
                  {stored[l].url : l \in ToSet(call.first) \cup ToSet(call.second)}
           \/ CutShort(call.identity)
=============================================================================
