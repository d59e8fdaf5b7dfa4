-------------------------- MODULE DocumentAcquisition --------------------------
(***************************************************************************)
(* The document plugins: the acquisition orchestrator asks the locators    *)
(* for the locations of each included paper, the HTTP fetcher for one      *)
(* location after the other, and the extractor for the text of what was    *)
(* downloaded; the run ends with a corpus.  import_local takes a file from *)
(* the user instead.                                                       *)
(*                                                                         *)
(* Bytes are named by their digest; a blob, once put, stays (BlobStore).   *)
(* The links that follow an artifact are left out, except that one that    *)
(* fails is a failure of the step that put the artifact.                   *)
(* How the locators find locations is modelled in DocumentLocators.        *)
(***************************************************************************)
EXTENDS ResearchRun, FiniteSetsExt, SequencesExt

CONSTANTS
    Corpora,         \* included papers of screened sets: sequences of papers
    Found,           \* paper -> locator -> the locations it returns
    TextOf,          \* digest of a PDF file -> what the extractor makes of it
    Failures,        \* statuses of an acquisition without bytes
    MaxRedirects     \* max_redirects

NoLocation == "none"    \* document_location_id is None
NoBytes == "none"

Locators == {"metadata", "unpaywall"}
Readable == {"extracted", "insufficient_text"}

BlobOf(digest) == \E b \in OfKind("blob") : stored[b].digest = digest
TextBlob(digest) == \E b \in OfKind("text") : stored[b].digest = digest

Paper == Head(call.papers)
Location == IF call.locations = <<>> THEN NoLocation ELSE Head(call.locations)

\* Mutants: every text is new; a corpus that takes every document, or leaves
\* out the papers whose documents have no text.
NoText(a) == {}
AnyDocument(papers, acquisitions, documents) ==
    [available |-> documents, failed |-> {},
     unavailable |-> {p \in papers : \A a \in acquisitions : stored[a].paper # p}]

\* An acquisition that makes another one of these bytes unnecessary: of the
\* same location; with import_local, of the same paper.
SameBytes(digest) ==
    {a \in OfKind("acquisition") :
        /\ stored[a].digest = digest /\ BlobOf(digest)
        /\ stored[a].location = Location
        /\ Location = NoLocation => stored[a].paper = Paper}

\* A document of this acquisition that is used again: one with its text, or
\* one that failed, taken to be deterministic.
SameText(a) ==
    {d \in OfKind("document") :
        /\ stored[d].acquisition = a
        /\ \/ stored[d].status \in Readable /\ TextBlob(stored[a].digest)
           \/ stored[d].status \in {"encrypted", "extraction_failed"}}

Acquisition(status, digest) ==
    [kind |-> "acquisition", paper |-> Paper, location |-> Location, status |-> status,
     digest |-> digest]

\* The corpus: a paper with an extracted document; one whose document could
\* not be had; and one that failed, if no acquisition says not_available.
Classified(papers, acquisitions, documents) ==
    LET of(p) == {a \in acquisitions : stored[a].paper = p}
        texts(p) == {d \in documents : stored[d].acquisition \in of(p) /\ stored[d].status = "extracted"}
        failed(p) == /\ texts(p) = {} /\ \E a \in of(p) : stored[a].status \in Failures
                     /\ \A a \in of(p) : stored[a].status # "not_available"
    IN  [available |-> {Min(texts(p)) : p \in {q \in papers : texts(q) # {}}},
         failed |-> {p \in papers : failed(p)},
         unavailable |-> {p \in papers : texts(p) = {} /\ ~failed(p)}]

-----------------------------------------------------------------------------
Locals(mode, papers, step) ==
    /\ Call(step, [mode |-> mode, papers |-> papers, set |-> papers, locations |-> <<>>,
                   redirects |-> 0, acquisition |-> 0, digest |-> NoBytes, status |-> "",
                   acquisitions |-> {}, documents |-> {}, execution |-> 0, errors |-> 0,
                   read |-> TRUE])
    /\ UNCHANGED <<stored, prov>>

Run(papers) == Locals("downloaded", papers, "paper")

ImportLocal(paper) == Locals("imported", <<paper>>, "received")

\* The locations both locators return; one may raise instead (H24).
Locate(raising) ==
    /\ at = "paper" /\ call.papers # <<>>
    /\ LET returned(l) == IF l \in raising THEN <<>> ELSE Found[Paper][l]
           locations == returned("metadata") \o returned("unpaywall")
           errors == call.errors + Cardinality(raising)
       IN  IF locations = <<>>
           THEN /\ Put(Acquisition("not_available", NoBytes))
                /\ call' = [call EXCEPT !.papers = Tail(@), !.errors = errors,
                                        !.acquisitions = @ \cup {Len(stored) + 1}]
                /\ Goto("paper")
           ELSE /\ call' = [call EXCEPT !.locations = locations, !.errors = errors, !.redirects = 0]
                /\ Goto("request") /\ UNCHANGED stored
    /\ UNCHANGED prov

\* The next location, or the next paper.
Onward(locals) ==
    IF Len(call.locations) > 1
    THEN call' = [locals EXCEPT !.locations = Tail(@), !.redirects = 0] /\ Goto("request")
    ELSE call' = [locals EXCEPT !.locations = <<>>, !.papers = Tail(@)] /\ Goto("paper")

\* The request is redirected to a legal target; the last one too many.
Redirect ==
    /\ at = "request" /\ call.redirects <= MaxRedirects
    /\ IF call.redirects < MaxRedirects
       THEN call' = [call EXCEPT !.redirects = @ + 1] /\ Goto("request")
       ELSE call' = [call EXCEPT !.status = "failed"] /\ Goto("failed")
    /\ UNCHANGED <<stored, prov>>

\* An illegal URL or target, no answer, an error status, too many bytes, a
\* stream that breaks, something that is not a PDF.
RequestFails(status) ==
    /\ at = "request"
    /\ call' = [call EXCEPT !.status = status]
    /\ Goto("failed") /\ UNCHANGED <<stored, prov>>

PutFailure ==
    /\ at = "failed"
    /\ Put(Acquisition(call.status, NoBytes))
    /\ call' = [call EXCEPT !.acquisition = Len(stored) + 1]
    /\ Goto("judge") /\ UNCHANGED prov

Receive == at = "request" /\ Goto("received") /\ UNCHANGED <<stored, prov, call>>

\* The bytes are in; those that are known already are used again, and an
\* import ends with that.
KnownBytes(digest) ==
    /\ at = "received" /\ SameBytes(digest) # {}
    /\ IF call.mode = "imported" THEN Return
       ELSE call' = [call EXCEPT !.acquisition = Min(SameBytes(digest))] /\ Goto("judge")
    /\ UNCHANGED <<stored, prov>>

PutBytes(digest) ==
    /\ at = "received" /\ SameBytes(digest) = {}
    /\ IF BlobOf(digest) THEN UNCHANGED stored ELSE Put([kind |-> "blob", digest |-> digest])
    /\ call' = [call EXCEPT !.digest = digest]
    /\ Goto("acquire") /\ UNCHANGED prov

Acquire ==
    /\ at = "acquire"
    /\ Put(Acquisition(call.mode, call.digest))
    /\ call' = [call EXCEPT !.acquisition = Len(stored) + 1]
    /\ Goto("judge") /\ UNCHANGED prov

\* fetch raises, or its acquisition cannot be linked or loaded: a failure of
\* this location; an import raises.
FetchFails ==
    /\ at \in {"request", "failed", "received", "acquire", "judge"}
    /\ IF call.mode = "imported" THEN Return ELSE Onward(call)
    /\ UNCHANGED <<stored, prov>>

Judge ==
    /\ at = "judge"
    /\ LET listed == [call EXCEPT !.acquisitions = @ \cup {call.acquisition}]
       IN  IF stored[call.acquisition].digest # NoBytes
           THEN call' = listed /\ Goto("extract")
           ELSE Onward(listed)
    /\ UNCHANGED <<stored, prov>>

\* A text ends the search for this paper, whatever its status is.
Extracted(documents) ==
    IF call.mode = "imported" THEN Return
    ELSE /\ call' = [call EXCEPT !.locations = <<>>, !.papers = Tail(@),
                                 !.documents = @ \cup documents]
         /\ Goto("paper")

KnownText ==
    /\ at = "extract" /\ SameText(call.acquisition) # {}
    /\ Extracted({Min(SameText(call.acquisition))})
    /\ UNCHANGED <<stored, prov>>

\* The file is read, or cannot be; a readable text is put before its document.
Extract(read) ==
    /\ at = "extract" /\ SameText(call.acquisition) = {}
    /\ LET digest == stored[call.acquisition].digest
           status == IF read THEN TextOf[digest] ELSE "extraction_failed"
       IN  /\ call' = [call EXCEPT !.status = status, !.read = read]
           /\ IF status \in Readable /\ ~TextBlob(digest)
              THEN Put([kind |-> "text", digest |-> digest])
              ELSE UNCHANGED stored
    /\ Goto("document") /\ UNCHANGED prov

PutDocument ==
    /\ at = "document"
    /\ Put([kind |-> "document", acquisition |-> call.acquisition, status |-> call.status,
            read |-> call.read])
    /\ Goto("extracted") /\ UNCHANGED <<prov, call>>

DocumentDone == at = "extracted" /\ Extracted({Latest}) /\ UNCHANGED <<stored, prov>>

\* A failure of the extractor is recorded, and nothing else of it.
ExtractFails ==
    /\ at \in {"extract", "document", "extracted"}
    /\ Extracted({}) /\ UNCHANGED <<stored, prov>>

Record ==
    /\ at = "paper" /\ call.papers = <<>>
    /\ Put([kind |-> "execution", errors |-> call.errors])
    /\ call' = [call EXCEPT !.execution = Len(stored) + 1]
    /\ Goto("corpus") /\ UNCHANGED prov

PutCorpus ==
    /\ at = "corpus"
    /\ Put([kind |-> "corpus", papers |-> ToSet(call.set), documents |-> call.documents,
            acquisitions |-> call.acquisitions, execution |-> call.execution,
            of |-> Classified(ToSet(call.set), call.acquisitions, call.documents)])
    /\ Return /\ UNCHANGED prov

\* What fails outside a location or an extraction ends the run.
RunRaises ==
    /\ at \in {"paper", "corpus"}
    /\ Return /\ UNCHANGED <<stored, prov>>

AcquisitionNext ==
    \/ \E papers \in Corpora : Run(papers)
    \/ \E paper \in DOMAIN Found : ImportLocal(paper)
    \/ \E raising \in SUBSET Locators : Locate(raising)
    \/ \E status \in Failures : RequestFails(status)
    \/ \E digest \in DOMAIN TextOf : KnownBytes(digest) \/ PutBytes(digest)
    \/ \E read \in BOOLEAN : Extract(read)
    \/ Redirect \/ PutFailure \/ Receive \/ Acquire \/ FetchFails \/ Judge
    \/ KnownText \/ PutDocument \/ DocumentDone \/ ExtractFails
    \/ Record \/ PutCorpus \/ RunRaises
    \/ Die

-----------------------------------------------------------------------------
(* A corpus accounts for every included paper once: with a document whose   *)
(* text, file and download are all stored, as failed, or as unavailable;    *)
(* and a paper whose file was got and has text is not written off, unless   *)
(* the extractor failed or could not read the file.                         *)
CorpusAccounted ==
    \A c \in OfKind("corpus") :
        LET k == stored[c]
            paper(d) == stored[stored[d].acquisition].paper
        IN  /\ k.papers = {paper(d) : d \in k.of.available} \cup k.of.failed \cup k.of.unavailable
            /\ Cardinality(k.papers) = Cardinality(k.of.available)
                   + Cardinality(k.of.failed) + Cardinality(k.of.unavailable)
            /\ \A d \in k.of.available :
                  LET a == stored[d].acquisition
                  IN  /\ stored[d].status = "extracted" /\ a \in k.acquisitions
                      /\ BlobOf(stored[a].digest) /\ TextBlob(stored[a].digest)
            /\ \A a \in k.acquisitions :
                  /\ stored[a].digest # NoBytes /\ TextOf[stored[a].digest] = "extracted"
                  => \/ \E d \in k.of.available : paper(d) = stored[a].paper
                     \/ \A d \in k.documents : stored[d].acquisition = a => ~stored[d].read

(* Runs that died, failed or were repeated add nothing twice: bytes from    *)
(* one location, and a user's file for one paper, are acquired once, and an *)
(* acquisition has one document; what names bytes has them stored.          *)
AcquiredOnce ==
    /\ \A a, b \in OfKind("acquisition") :
          /\ a # b /\ stored[a].digest # NoBytes /\ stored[a].digest = stored[b].digest
          /\ stored[a].location = stored[b].location
          => stored[a].location = NoLocation /\ stored[a].paper # stored[b].paper
    /\ \A d, e \in OfKind("document") : stored[d].acquisition = stored[e].acquisition => d = e
    /\ \A a \in OfKind("acquisition") : stored[a].digest = NoBytes \/ BlobOf(stored[a].digest)
    /\ \A d \in OfKind("document") : stored[d].status \in Readable =>
          TextBlob(stored[stored[d].acquisition].digest)
=============================================================================
