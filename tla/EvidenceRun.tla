------------------------------- MODULE EvidenceRun -------------------------------
(***************************************************************************)
(* literature.evidence_orchestrator with the extractor it calls: the pages *)
(* of each document of a corpus go to the model in chunks, what it states  *)
(* becomes evidence at once, a document's evidence becomes its profile,    *)
(* and the run ends with an execution and an evidence corpus.              *)
(*                                                                         *)
(* The corpus, the model's role and the chunk size are those of every run. *)
(* A link that fails raises like the put before it.                        *)
(***************************************************************************)
EXTENDS ResearchRun, FiniteSetsExt, SequencesExt

CONSTANTS
    Documents,       \* the corpus' documents, a sequence of [id, text, pages]
    PagesPerChunk,   \* pages_per_chunk
    MaxChunks,       \* max_chunks_per_document
    MaxChunkCalls,   \* max_model_calls
    Extractions      \* answers of the model: sequences of [statement, page]

\* A corpus lists a document once: acquisition lists the first document with text
\* of each paper it was given, and a document belongs to one paper.
ASSUME DocumentsAssumption ==
    /\ Documents \in Seq(ToSet(Documents))
    /\ \A i, j \in DOMAIN Documents : Documents[i].id = Documents[j].id => i = j
    /\ \A i \in DOMAIN Documents :
          Documents[i].text \in BOOLEAN /\ Documents[i].pages \in Nat

\* chunk_pages refuses chunks of less than a page; the budgets are counts.
ASSUME ExtractionAssumption ==
    /\ PagesPerChunk \in Nat \ {0} /\ MaxChunks \in Nat /\ MaxChunkCalls \in Nat
    /\ \A answer \in Extractions : answer \in Seq(ToSet(answer))

Document == Head(call.todo)

\* Mutants: chunks that overlap in a page; evidence that is always new; a page
\* that is not checked; a budget per document; counts from before a failure.
PagesOverlapping(pages, k) ==
    {p \in 1 .. pages : k * PagesPerChunk <= p /\ p <= (k + 1) * PagesPerChunk}
AlwaysNew(statement) == {}
Ungrounded(answer, chunk) == TRUE
SpentHere(spent) == spent - 1 >= MaxChunkCalls
FailureUncounted(spent) == spent

\* chunk_pages: consecutive pages, PagesPerChunk at a time.
ChunkAt(pages, k) ==
    {p \in 1 .. pages : k * PagesPerChunk < p /\ p <= (k + 1) * PagesPerChunk}

Chunks(pages) ==
    [k \in 1 .. ((pages + PagesPerChunk - 1) \div PagesPerChunk) |-> ChunkAt(pages, k - 1)]

\* Evidence of this document with the same (normalised) statement.
SameStatement(statement) ==
    {e \in OfKind("evidence_item") : stored[e].document = Document.id /\ stored[e].statement = statement}

\* Every page that is cited lies in the chunk that was sent.
Grounded(answer, chunk) == \A k \in DOMAIN answer : answer[k].page \in chunk

BudgetSpent(spent) == spent >= MaxChunkCalls

\* A failed call counts as well.
CountedFailure(spent) == spent + 1

Executions == OfKind("evidence_execution")

-----------------------------------------------------------------------------
Run ==
    /\ Executions = {}
    /\ Call("document", [todo |-> Documents, chunks |-> <<>>, answer |-> <<>>, chunk |-> {},
                         found |-> {}, spent |-> 0, processed |-> 0, failed |-> 0,
                         items |-> {}, profiles |-> {}, without |-> {}, failures |-> {},
                         stopped |-> {}, execution |-> 0])
    /\ UNCHANGED <<stored, prov>>

\* An execution with this corpus, role and chunk size is returned again.
RunAgain ==
    /\ Executions # {}
    /\ at = "idle" /\ calls < MaxCalls /\ calls' = calls + 1
    /\ UNCHANGED <<stored, prov, at, call, deaths>>

\* A document, its blob or its text cannot be loaded.
DocumentFails ==
    /\ at = "document" /\ call.todo # <<>>
    /\ call' = [call EXCEPT !.todo = Tail(@), !.failures = @ \cup {Document.id}]
    /\ Goto("document") /\ UNCHANGED <<stored, prov>>

DocumentWithoutText ==
    /\ at = "document" /\ call.todo # <<>> /\ ~Document.text
    /\ call' = [call EXCEPT !.todo = Tail(@), !.without = @ \cup {Document.id}]
    /\ Goto("document") /\ UNCHANGED <<stored, prov>>

Open ==
    /\ at = "document" /\ call.todo # <<>> /\ Document.text
    /\ LET chunks == Chunks(Document.pages)
       IN  call' = [call EXCEPT !.chunks = SubSeq(chunks, 1, Min({MaxChunks, Len(chunks)})),
                                !.found = {}]
    /\ Goto("chunk") /\ UNCHANGED <<stored, prov>>

\* The chunks that are left are not sent.
StopExtracting ==
    /\ at = "chunk" /\ call.chunks # <<>> /\ BudgetSpent(call.spent)
    /\ call' = [call EXCEPT !.chunks = <<>>, !.stopped = @ \cup {Document.id}]
    /\ Goto("chunk") /\ UNCHANGED <<stored, prov>>

\* The model fails, or an item of its answer is malformed or not grounded:
\* nothing of the answer is kept.
ChunkFails ==
    /\ at = "chunk" /\ call.chunks # <<>> /\ ~BudgetSpent(call.spent)
    /\ call' = [call EXCEPT !.chunks = Tail(@), !.spent = CountedFailure(@), !.failed = @ + 1]
    /\ Goto("chunk") /\ UNCHANGED <<stored, prov>>

Extract(answer) ==
    /\ at = "chunk" /\ call.chunks # <<>> /\ ~BudgetSpent(call.spent)
    /\ Grounded(answer, Head(call.chunks))
    /\ call' = [call EXCEPT !.chunks = Tail(@), !.chunk = Head(call.chunks), !.answer = answer,
                            !.spent = @ + 1, !.processed = @ + 1]
    /\ Goto("item") /\ UNCHANGED <<stored, prov>>

\* Evidence is stored item by item; what the document has already is used.
Keep ==
    /\ at = "item" /\ call.answer # <<>>
    /\ LET item == Head(call.answer)
           existing == SameStatement(item.statement)
       IN  IF existing # {}
           THEN /\ call' = [call EXCEPT !.answer = Tail(@), !.found = @ \cup {Max(existing)}]
                /\ UNCHANGED stored
           ELSE /\ Put([kind |-> "evidence_item", document |-> Document.id, statement |-> item.statement,
                        page |-> item.page, chunk |-> call.chunk])
                /\ call' = [call EXCEPT !.answer = Tail(@), !.found = @ \cup {Len(stored) + 1}]
    /\ Goto("item") /\ UNCHANGED prov

ChunkDone ==
    /\ at = "item" /\ call.answer = <<>>
    /\ Goto("chunk") /\ UNCHANGED <<stored, prov, call>>

Profile ==
    /\ at = "chunk" /\ call.chunks = <<>>
    /\ IF call.found = {}
       THEN /\ call' = [call EXCEPT !.todo = Tail(@), !.without = @ \cup {Document.id}]
            /\ UNCHANGED stored
       ELSE /\ Put([kind |-> "paper_profile", document |-> Document.id, items |-> call.found])
            /\ call' = [call EXCEPT !.todo = Tail(@), !.items = @ \cup call.found,
                                    !.profiles = @ \cup {Len(stored) + 1}]
    /\ Goto("document") /\ UNCHANGED prov

PutEvidenceExecution ==
    /\ at = "document" /\ call.todo = <<>>
    /\ Put([kind |-> "evidence_execution", spent |-> call.spent, processed |-> call.processed,
            failed |-> call.failed])
    /\ call' = [call EXCEPT !.execution = Len(stored) + 1]
    /\ Goto("corpus") /\ UNCHANGED prov

PutCorpus ==
    /\ at = "corpus"
    /\ Put([kind |-> "evidence_corpus", of |-> call])
    /\ Return /\ UNCHANGED prov

\* A put, a link or a load outside the extraction raises.
RunRaises ==
    /\ at \in {"item", "chunk", "document", "corpus"}
    /\ Return /\ UNCHANGED <<stored, prov>>

EvidenceNext ==
    \/ Run \/ RunAgain
    \/ DocumentFails \/ DocumentWithoutText \/ Open
    \/ StopExtracting \/ ChunkFails \/ Keep \/ ChunkDone \/ Profile
    \/ \E answer \in Extractions : Extract(answer)
    \/ PutEvidenceExecution \/ PutCorpus \/ RunRaises
    \/ Die

EvidenceSpec == NothingStored /\ [][EvidenceNext]_researchVars

-----------------------------------------------------------------------------
(* Runs that were cut short and taken up again add no evidence twice; every *)
(* item cites a page of the one chunk it was drawn from, a chunk being      *)
(* pages in a row that no other chunk has; a corpus accounts for each       *)
(* document once, with the profile of exactly its evidence; and the model   *)
(* was asked as often as the budget allows, failures included.              *)
EvidenceAccountedFor ==
    /\ \A e, f \in OfKind("evidence_item") :
          /\ stored[e].document = stored[f].document
          => /\ stored[e].statement = stored[f].statement => e = f
             /\ stored[e].chunk = stored[f].chunk \/ stored[e].chunk \cap stored[f].chunk = {}
    /\ \A e \in OfKind("evidence_item") : stored[e].page \in stored[e].chunk
    /\ \A x \in Executions :
          /\ stored[x].spent = stored[x].processed + stored[x].failed
          /\ stored[x].spent <= MaxChunkCalls
    /\ \A c \in OfKind("evidence_corpus") :
          LET k == stored[c].of
              profiled == {stored[p].document : p \in k.profiles}
          IN  /\ ToSet([n \in DOMAIN Documents |-> Documents[n].id])
                     = profiled \cup k.without \cup k.failures
              /\ Len(Documents) = Cardinality(k.profiles) + Cardinality(k.without)
                     + Cardinality(k.failures)
              /\ k.items = UNION {stored[p].items : p \in k.profiles}
              /\ \A p \in k.profiles : \A e \in stored[p].items :
                     stored[e].document = stored[p].document
              /\ k.stopped # {} => k.spent = MaxChunkCalls
=============================================================================
