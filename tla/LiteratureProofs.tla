--------------------------- MODULE LiteratureProofs ---------------------------
(***************************************************************************)
(* The services on the literature, for any corpus, any strategy, any       *)
(* budgets, any manuscripts, any answers of models and sources, and any    *)
(* number of calls and of deaths: what a run leaves behind accounts for    *)
(* what it did, and what is certified as new was found to be.              *)
(***************************************************************************)
EXTENDS ServicesProofs, EvidenceRun, LiteratureSearch, NoveltyValidation

-----------------------------------------------------------------------------
(* Evidence                                                                 *)
DocumentIds == {Documents[n].id : n \in DOMAIN Documents}

\* What the model may state.
Statements == UNION {ToSet(answer) : answer \in Extractions}

EvidenceLocals ==
    [todo : Seq(ToSet(Documents)), chunks : Seq(SUBSET Nat), answer : Seq(Statements),
     chunk : SUBSET Nat, found : SUBSET Nat, spent : Nat, processed : Nat, failed : Nat,
     items : SUBSET Nat, profiles : SUBSET Nat, without : SUBSET DocumentIds,
     failures : SUBSET DocumentIds, stopped : SUBSET DocumentIds, execution : Nat]

\* A chunk is one of those its document is cut into.
IsChunk(chunk, document) == chunk \in ToSet(Chunks(document.pages))

ItemsOf(id) == {e \in OfKind("evidence_item") : stored[e].document = id}

\* Evidence cites a page of the chunk of its document that it was drawn from.
ItemSound(e) ==
    /\ stored[e].page \in stored[e].chunk
    /\ \E n \in DOMAIN Documents :
          Documents[n].id = stored[e].document /\ IsChunk(stored[e].chunk, Documents[n])

\* A document has a statement once.
ItemsSound ==
    /\ \A e \in OfKind("evidence_item") : ItemSound(e)
    /\ \A e, f \in OfKind("evidence_item") :
          /\ stored[e].document = stored[f].document
          /\ stored[e].statement = stored[f].statement
          => e = f

\* A profile is of evidence of its document.
ProfileSound(p) == stored[p].items \subseteq ItemsOf(stored[p].document)

ProfilesSound == \A p \in OfKind("paper_profile") : ProfileSound(p)

\* Calls to the model are counted whatever becomes of them, within the budget.
Spending(k) == k.spent = k.processed + k.failed /\ k.spent <= MaxChunkCalls

ExecutionsSound == \A x \in Executions : Spending(stored[x])

\* What a run k that is through with some documents knows of them.
Counting(k) ==
    /\ k \in EvidenceLocals /\ LastOf(k.todo, Documents)
    /\ {Documents[n].id : n \in Passed(k.todo, Documents)}
          = {stored[p].document : p \in k.profiles} \cup k.without \cup k.failures
    /\ IsFiniteSet(k.profiles) /\ IsFiniteSet(k.without) /\ IsFiniteSet(k.failures)
    /\ Len(Documents) - Len(k.todo)
          = Cardinality(k.profiles) + Cardinality(k.without) + Cardinality(k.failures)
    /\ k.profiles \subseteq OfKind("paper_profile")
    /\ k.items = UNION {stored[p].items : p \in k.profiles}
    /\ Spending(k) /\ (k.stopped # {} => k.spent = MaxChunkCalls)

CorporaSound ==
    \A c \in OfKind("evidence_corpus") : Counting(stored[c].of) /\ stored[c].of.todo = <<>>

\* The document that is open, and the answer that is kept.
OpenSound ==
    at \in {"chunk", "item"} =>
       /\ call.todo # <<>> /\ call.found \subseteq ItemsOf(Document.id)
       /\ \A k \in DOMAIN call.chunks : IsChunk(call.chunks[k], Document)

AnswerSound ==
    at = "item" =>
       /\ IsChunk(call.chunk, Document)
       /\ \A k \in DOMAIN call.answer : call.answer[k].page \in call.chunk

EvidenceInv ==
    /\ StoredSound /\ ItemsSound /\ ProfilesSound /\ ExecutionsSound /\ CorporaSound
    /\ at # "idle" => Counting(call)
    /\ OpenSound /\ AnswerSound
    /\ at = "corpus" => call.todo = <<>>

(* Two chunks of a document are one or have no page in common.              *)
LEMMA ChunksApart ==
    ASSUME NEW pages \in Nat, NEW c \in ToSet(Chunks(pages)), NEW d \in ToSet(Chunks(pages))
    PROVE  c \subseteq Nat /\ (c = d \/ c \cap d = {})
<1> DEFINE last == (pages + PagesPerChunk - 1) \div PagesPerChunk
<1>1. PagesPerChunk \in Nat \ {0}
  BY ExtractionAssumption
<1>2. PICK i \in 1 .. last, j \in 1 .. last : c = ChunkAt(pages, i - 1) /\ d = ChunkAt(pages, j - 1)
  BY DEF ToSet, Chunks
<1>3. c \subseteq Nat
  BY <1>2 DEF ChunkAt
<1>4. ASSUME NEW k \in Nat, NEW l \in Nat, k < l
      PROVE  ChunkAt(pages, k) \cap ChunkAt(pages, l) = {}
  <2>1. PICK n \in Nat : l = k + 1 + n
    <3>1. l - k - 1 \in Nat /\ l = k + 1 + (l - k - 1)
      BY <1>4
    <3> QED BY <3>1
  <2>2. l * PagesPerChunk = (k + 1) * PagesPerChunk + n * PagesPerChunk /\ n * PagesPerChunk \in Nat
    BY <1>1, <2>1
  <2>3. (k + 1) * PagesPerChunk \in Nat /\ l * PagesPerChunk \in Nat
    BY <1>1
  <2>4. (k + 1) * PagesPerChunk <= l * PagesPerChunk
    BY <2>2, <2>3
  <2> QED BY <2>3, <2>4 DEF ChunkAt
<1>5. i - 1 \in Nat /\ j - 1 \in Nat
  BY <1>2
<1>6. CASE i - 1 < j - 1
  BY <1>2, <1>3, <1>4, <1>5, <1>6
<1>7. CASE j - 1 < i - 1
  <2>1. ChunkAt(pages, j - 1) \cap ChunkAt(pages, i - 1) = {}
    BY <1>4, <1>5, <1>7
  <2> QED BY <1>2, <1>3, <2>1
<1>8. CASE i - 1 = j - 1
  BY <1>2, <1>3, <1>8
<1> QED BY <1>5, <1>6, <1>7, <1>8

(* The chunks of a document are a sequence of sets of pages.                *)
LEMMA ChunksListed ==
    ASSUME NEW pages \in Nat
    PROVE  Chunks(pages) \in Seq(SUBSET Nat)
<1> DEFINE last == (pages + PagesPerChunk - 1) \div PagesPerChunk
<1>1. last \in Int
  BY ExtractionAssumption
<1>2. PICK n \in Nat : 1 .. last = 1 .. n
  <2> HIDE DEF last
  <2>1. CASE last \in Nat
    BY <2>1
  <2>2. CASE last \notin Nat
    <3>1. 1 .. last = 1 .. 0
      BY <1>1, <2>2
    <3> QED BY <3>1
  <2> QED BY <2>1, <2>2
<1>3. \A k \in 1 .. n : ChunkAt(pages, k - 1) \in SUBSET Nat
  BY DEF ChunkAt
<1>4. Chunks(pages) = [k \in 1 .. n |-> ChunkAt(pages, k - 1)]
  BY <1>2 DEF Chunks
<1> QED BY <1>3, <1>4

(* What is kept stays as sound as it was.                                   *)
LEMMA EvidenceKept ==
    ASSUME Kept
    PROVE  /\ \A id : ItemsOf(id) \subseteq ItemsOf(id)'
           /\ \A kind : OfKind(kind) \subseteq OfKind(kind)'
           /\ \A e \in OfKind("evidence_item") : ItemSound(e) => ItemSound(e)'
           /\ \A p \in OfKind("paper_profile") : ProfileSound(p) => ProfileSound(p)'
           /\ \A x \in Executions : Spending(stored[x]) => Spending(stored[x])'
           /\ \A k : Counting(k) => Counting(k)'
<1> USE DEF Kept
<1>1. \A kind : OfKind(kind) \subseteq Stored /\ OfKind(kind) \subseteq OfKind(kind)'
  BY DEF OfKind
<1>2. \A id : ItemsOf(id) \subseteq ItemsOf(id)'
  BY <1>1 DEF ItemsOf
<1>3. ASSUME NEW e \in OfKind("evidence_item"), ItemSound(e)
      PROVE  ItemSound(e)'
  <2>1. stored'[e] = stored[e]
    BY <1>1
  <2> QED BY <1>3, <2>1 DEF ItemSound, IsChunk
<1>4. ASSUME NEW p \in OfKind("paper_profile"), ProfileSound(p)
      PROVE  ProfileSound(p)'
  <2>1. stored'[p] = stored[p]
    BY <1>1
  <2> QED BY <1>2, <1>4, <2>1 DEF ProfileSound
<1>5. ASSUME NEW x \in Executions, Spending(stored[x])
      PROVE  Spending(stored[x])'
  <2>1. stored'[x] = stored[x]
    BY <1>1 DEF Executions
  <2> QED BY <1>5, <2>1 DEF Spending
<1>6. ASSUME NEW k, Counting(k)
      PROVE  Counting(k)'
  <2>1. k.profiles \subseteq OfKind("paper_profile")' /\ \A p \in k.profiles : stored'[p] = stored[p]
    BY <1>1, <1>6 DEF Counting
  <2>2. {stored[p].document : p \in k.profiles}' = {stored[p].document : p \in k.profiles}
    BY <2>1
  <2>3. (UNION {stored[p].items : p \in k.profiles})' = UNION {stored[p].items : p \in k.profiles}
    BY <2>1
  <2>4. LastOf(k.todo, Documents)' /\ Passed(k.todo, Documents)' = Passed(k.todo, Documents)
    BY <1>6 DEF Counting, LastOf, Passed
  <2> QED BY <1>6, <2>1, <2>2, <2>3, <2>4 DEF Counting, Spending
<1> QED BY <1>1, <1>2, <1>3, <1>4, <1>5, <1>6

(* A step that stores nothing.                                              *)
LEMMA QuietEvidence ==
    ASSUME EvidenceInv, stored' = stored
    PROVE  /\ Kept /\ StoredSound' /\ ItemsSound' /\ ProfilesSound' /\ ExecutionsSound' /\ CorporaSound'
           /\ \A id : ItemsOf(id)' = ItemsOf(id)
<1>1. Stored' = Stored /\ StoredSound' /\ \A kind : OfKind(kind)' = OfKind(kind)
  BY StoredStays DEF EvidenceInv
<1>2. Kept
  BY <1>1 DEF Kept
<1>3. Executions' = Executions
  BY <1>1 DEF Executions
<1>4. CorporaSound'
  BY <1>1, <1>2, EvidenceKept DEF EvidenceInv, CorporaSound
<1>5. ItemsSound' /\ ProfilesSound' /\ ExecutionsSound'
  BY <1>1, <1>2, <1>3, EvidenceKept DEF EvidenceInv, ItemsSound, ProfilesSound, ExecutionsSound
<1>6. \A id : ItemsOf(id)' = ItemsOf(id)
  BY <1>1 DEF ItemsOf
<1> QED BY <1>1, <1>2, <1>4, <1>5, <1>6

(* A step that puts an artifact: the others stay sound.                     *)
LEMMA PutEvidence ==
    ASSUME EvidenceInv, NEW a, Put(a)
    PROVE  /\ Kept /\ StoredSound'
           /\ a.kind # "evidence_item" => ItemsSound'
           /\ a.kind # "paper_profile" => ProfilesSound'
           /\ a.kind # "evidence_execution" => ExecutionsSound'
           /\ a.kind # "evidence_corpus" => CorporaSound'
<1>1. /\ StoredSound' /\ Stored' = Stored \cup {Latest + 1}
      /\ \A i \in Stored : stored'[i] = stored[i]
  BY PutAdds DEF EvidenceInv
<1>2. \A kind : a.kind # kind => OfKind(kind)' = OfKind(kind)
  BY PutOfKind DEF EvidenceInv
<1>3. Kept
  BY <1>1 DEF Kept
<1>4. ASSUME a.kind # "evidence_item" PROVE ItemsSound'
  <2>1. OfKind("evidence_item")' = OfKind("evidence_item") /\ OfKind("evidence_item") \subseteq Stored
    BY <1>2, <1>4 DEF OfKind
  <2>2. \A e \in OfKind("evidence_item") : ItemSound(e)'
    BY <1>3, EvidenceKept DEF EvidenceInv, ItemsSound
  <2> QED BY <1>1, <2>1, <2>2 DEF EvidenceInv, ItemsSound
<1>5. ASSUME a.kind # "paper_profile" PROVE ProfilesSound'
  BY <1>2, <1>3, <1>5, EvidenceKept DEF EvidenceInv, ProfilesSound
<1>6. ASSUME a.kind # "evidence_execution" PROVE ExecutionsSound'
  <2>1. Executions' = Executions
    BY <1>2, <1>6 DEF Executions
  <2> QED BY <1>3, <2>1, EvidenceKept DEF EvidenceInv, ExecutionsSound
<1>7. ASSUME a.kind # "evidence_corpus" PROVE CorporaSound'
  <2>1. OfKind("evidence_corpus")' = OfKind("evidence_corpus")
        /\ OfKind("evidence_corpus") \subseteq Stored
    BY <1>2, <1>7 DEF OfKind
  <2>2. \A c \in OfKind("evidence_corpus") : Counting(stored[c].of)'
                                             /\ stored'[c] = stored[c]
    <3> TAKE c \in OfKind("evidence_corpus")
    <3>1. stored'[c] = stored[c] /\ Counting(stored[c].of)
      BY <1>1, <2>1 DEF EvidenceInv, CorporaSound
    <3> PICK k : k = stored[c].of
      OBVIOUS
    <3>2. Counting(k)'
      BY <1>3, <3>1, EvidenceKept
    <3> QED BY <3>1, <3>2
  <2> QED BY <2>1, <2>2 DEF EvidenceInv, CorporaSound
<1> QED BY <1>1, <1>3, <1>4, <1>5, <1>6, <1>7

(* The next document is one that the run knows nothing of.                  *)
LEMMA NextDocument ==
    ASSUME Counting(call), call.todo # <<>>
    PROVE  /\ Document.id \in DocumentIds /\ Document.pages \in Nat
           /\ \E n \in DOMAIN Documents : Document = Documents[n]
           /\ Tail(call.todo) \in Seq(ToSet(Documents)) /\ LastOf(Tail(call.todo), Documents)
           /\ Len(Documents) - Len(Tail(call.todo)) = Len(Documents) - Len(call.todo) + 1
           /\ {Documents[n].id : n \in Passed(Tail(call.todo), Documents)}
                 = {Documents[n].id : n \in Passed(call.todo, Documents)} \cup {Document.id}
           /\ Document.id \notin {Documents[n].id : n \in Passed(call.todo, Documents)}
<1> PICK S, rest, all, n :
      S = ToSet(Documents) /\ rest = call.todo /\ all = Documents /\ n = Len(all) - Len(rest) + 1
  OBVIOUS
<1>1. all \in Seq(S) /\ rest \in Seq(S) /\ LastOf(rest, all) /\ rest # <<>>
  BY DocumentsAssumption DEF Counting, EvidenceLocals
<1>2. /\ n \in DOMAIN all /\ Head(rest) = all[n]
      /\ Tail(rest) \in Seq(S) /\ LastOf(Tail(rest), all)
      /\ Len(all) - Len(Tail(rest)) = n /\ n \notin Passed(rest, all)
      /\ Passed(Tail(rest), all) = Passed(rest, all) \cup {n}
  BY ONLY <1>1, n = Len(all) - Len(rest) + 1, TailOfLast
<1>3. Passed(rest, all) \subseteq DOMAIN all
  <2>1. Len(all) \in Nat /\ Len(rest) \in Nat /\ DOMAIN all = 1 .. Len(all)
    BY <1>1
  <2> QED BY <2>1 DEF Passed
<1>4. \A i, j \in DOMAIN all : all[i].id = all[j].id => i = j
  BY DocumentsAssumption
<1>5. Document = all[n] /\ Document.id \in DocumentIds /\ Document.pages \in Nat
  BY <1>2, DocumentsAssumption DEF Document, DocumentIds
<1>6. Document.id \notin {all[m].id : m \in Passed(rest, all)}
  <2> SUFFICES ASSUME NEW m \in Passed(rest, all), all[m].id = all[n].id PROVE FALSE
    BY <1>5
  <2>1. m \in DOMAIN all /\ m # n
    BY <1>2, <1>3
  <2> QED BY <1>2, <1>4, <2>1
<1>7. {all[m].id : m \in Passed(Tail(rest), all)} = {all[m].id : m \in Passed(rest, all)} \cup {Document.id}
  BY <1>2, <1>5
<1>8. Len(all) - Len(Tail(rest)) = Len(all) - Len(rest) + 1
  BY <1>2
<1>9. \E m \in DOMAIN all : Document = all[m]
  BY <1>2, <1>5
<1>10. all = Documents /\ rest = call.todo /\ S = ToSet(Documents)
  OBVIOUS
<1>11. Tail(rest) \in Seq(S) /\ LastOf(Tail(rest), all)
  BY <1>2
<1>12. {Documents[m].id : m \in Passed(Tail(call.todo), Documents)}
          = {Documents[m].id : m \in Passed(call.todo, Documents)} \cup {Document.id}
  BY ONLY <1>7, <1>10
<1>13. Document.id \notin {Documents[m].id : m \in Passed(call.todo, Documents)}
  BY ONLY <1>6, <1>10
<1>14. /\ \E m \in DOMAIN Documents : Document = Documents[m]
       /\ Tail(call.todo) \in Seq(ToSet(Documents)) /\ LastOf(Tail(call.todo), Documents)
       /\ Len(Documents) - Len(Tail(call.todo)) = Len(Documents) - Len(call.todo) + 1
  BY ONLY <1>8, <1>9, <1>10, <1>11
<1> QED BY ONLY <1>5, <1>12, <1>13, <1>14

(* A document that fails, or without evidence, is known as that.            *)
LEMMA DocumentLeft ==
    ASSUME Counting(call), call.todo # <<>>, NEW k,
           \/ k = [call EXCEPT !.todo = Tail(@), !.failures = @ \cup {Document.id}]
           \/ k = [call EXCEPT !.todo = Tail(@), !.without = @ \cup {Document.id}]
    PROVE  Counting(k)
<1> DEFINE id == Document.id
<1>1. /\ id \in DocumentIds
      /\ Tail(call.todo) \in Seq(ToSet(Documents)) /\ LastOf(Tail(call.todo), Documents)
      /\ Len(Documents) - Len(Tail(call.todo)) = Len(Documents) - Len(call.todo) + 1
      /\ {Documents[n].id : n \in Passed(Tail(call.todo), Documents)}
            = {Documents[n].id : n \in Passed(call.todo, Documents)} \cup {id}
      /\ id \notin {Documents[n].id : n \in Passed(call.todo, Documents)}
  BY NextDocument
<1>2. id \notin call.without /\ id \notin call.failures
  BY <1>1 DEF Counting
<1>3. /\ IsFiniteSet(call.failures \cup {id})
      /\ Cardinality(call.failures \cup {id}) = Cardinality(call.failures) + 1
      /\ IsFiniteSet(call.without \cup {id})
      /\ Cardinality(call.without \cup {id}) = Cardinality(call.without) + 1
  BY <1>2, FS_AddElement DEF Counting
<1>4. /\ Cardinality(call.profiles) \in Nat /\ Cardinality(call.failures) \in Nat
      /\ Cardinality(call.without) \in Nat
  BY FS_CardinalityType DEF Counting
<1>5. call \in EvidenceLocals
  BY DEF Counting
<1>6. k \in EvidenceLocals /\ k.todo = Tail(call.todo)
  <2> HIDE DEF id
  <2>1. /\ call.failures \cup {id} \in SUBSET DocumentIds
        /\ call.without \cup {id} \in SUBSET DocumentIds
    BY <1>1, <1>5 DEF EvidenceLocals
  <2>2. Document.id = id
    BY DEF id
  <2>3. CASE k = [call EXCEPT !.todo = Tail(@), !.failures = @ \cup {Document.id}]
    BY <1>1, <1>5, <2>1, <2>2, <2>3 DEF EvidenceLocals
  <2>4. CASE k = [call EXCEPT !.todo = Tail(@), !.without = @ \cup {Document.id}]
    BY <1>1, <1>5, <2>1, <2>2, <2>4 DEF EvidenceLocals
  <2> QED BY <2>3, <2>4
<1>7. /\ k.profiles = call.profiles /\ k.items = call.items /\ k.spent = call.spent
      /\ k.processed = call.processed /\ k.failed = call.failed /\ k.stopped = call.stopped
  BY <1>5 DEF EvidenceLocals
<1>8. \/ k.failures = call.failures \cup {id} /\ k.without = call.without
      \/ k.without = call.without \cup {id} /\ k.failures = call.failures
  BY <1>5 DEF EvidenceLocals
<1>9. {Documents[n].id : n \in Passed(k.todo, Documents)}
         = {stored[p].document : p \in k.profiles} \cup k.without \cup k.failures
  <2>1. {Documents[n].id : n \in Passed(call.todo, Documents)}
           = {stored[p].document : p \in call.profiles} \cup call.without \cup call.failures
    BY DEF Counting
  <2> HIDE DEF id
  <2> QED BY <1>1, <1>6, <1>7, <1>8, <2>1
<1>10. /\ IsFiniteSet(k.without) /\ IsFiniteSet(k.failures)
       /\ Len(Documents) - Len(k.todo)
             = Cardinality(k.profiles) + Cardinality(k.without) + Cardinality(k.failures)
  <2>1. Len(Documents) - Len(call.todo) = Cardinality(call.profiles) + Cardinality(call.without)
           + Cardinality(call.failures)
        /\ IsFiniteSet(call.without) /\ IsFiniteSet(call.failures)
    BY DEF Counting
  <2>4. PICK left : left = Len(Documents) - Len(k.todo)
                    /\ left = Cardinality(call.profiles) + Cardinality(call.without)
                                 + Cardinality(call.failures) + 1
    BY <1>1, <1>6, <2>1
  <2> HIDE DEF id
  <2>2. CASE k.failures = call.failures \cup {id} /\ k.without = call.without
    BY <1>3, <1>4, <1>7, <2>1, <2>2, <2>4
  <2>3. CASE k.without = call.without \cup {id} /\ k.failures = call.failures
    BY <1>3, <1>4, <1>7, <2>1, <2>3, <2>4
  <2> QED BY <1>8, <2>2, <2>3
<1> QED BY <1>1, <1>6, <1>7, <1>9, <1>10 DEF Counting, Spending

(* A call that goes on with the same documents knows the same of them.      *)
LEMMA SameDocuments ==
    ASSUME Counting(call), NEW k \in EvidenceLocals, k.todo = call.todo,
           k.profiles = call.profiles, k.items = call.items, k.without = call.without,
           k.failures = call.failures, Spending(k), k.stopped # {} => k.spent = MaxChunkCalls
    PROVE  Counting(k)
BY DEF Counting

(* A run begins with every document left.                                   *)
LEMMA RunKeeps ==
    ASSUME EvidenceInv, Run
    PROVE  EvidenceInv'
<1>1. /\ stored' = stored /\ at' = "document"
      /\ call' = [todo |-> Documents, chunks |-> <<>>, answer |-> <<>>, chunk |-> {},
                  found |-> {}, spent |-> 0, processed |-> 0, failed |-> 0,
                  items |-> {}, profiles |-> {}, without |-> {}, failures |-> {},
                  stopped |-> {}, execution |-> 0]
  BY DEF Run, Call
<1>2. call' \in EvidenceLocals /\ call'.todo = Documents
  BY <1>1, DocumentsAssumption DEF EvidenceLocals
<1>3. Spending(call') /\ call'.stopped = {}
  BY <1>1, ExtractionAssumption DEF Spending
<1>4. LastOf(Documents, Documents) /\ Passed(Documents, Documents) = {}
  BY AllIsLast, DocumentsAssumption
<1>5. Len(Documents) \in Nat
  BY DocumentsAssumption
<1>6. IsFiniteSet({}) /\ Cardinality({}) = 0
  BY FS_EmptySet
<1>7. Counting(call)'
  BY <1>1, <1>2, <1>3, <1>4, <1>5, <1>6 DEF Counting, Spending
<1>8. OpenSound' /\ AnswerSound'
  BY <1>1 DEF OpenSound, AnswerSound
<1> QED BY <1>1, <1>7, <1>8, QuietEvidence DEF EvidenceInv

(* A run that ends, however it does.                                        *)
LEMMA EvidenceReturns ==
    ASSUME EvidenceInv, stored' = stored, at' = "idle"
    PROVE  EvidenceInv'
BY QuietEvidence DEF EvidenceInv, OpenSound, AnswerSound

(* A document that is left.                                                 *)
LEMMA LeaveKeeps ==
    ASSUME EvidenceInv, DocumentFails \/ DocumentWithoutText
    PROVE  EvidenceInv'
<1>1. /\ at = "document" /\ call.todo # <<>> /\ at' = "document" /\ stored' = stored
      /\ \/ call' = [call EXCEPT !.todo = Tail(@), !.failures = @ \cup {Document.id}]
         \/ call' = [call EXCEPT !.todo = Tail(@), !.without = @ \cup {Document.id}]
  BY DEF DocumentFails, DocumentWithoutText, Goto
<1>2. Counting(call')
  BY <1>1, DocumentLeft DEF EvidenceInv
<1>3. Kept
  BY <1>1, QuietEvidence
<1>4. Counting(call)'
  BY <1>2, <1>3, EvidenceKept
<1> QED BY <1>1, <1>4, QuietEvidence DEF EvidenceInv, OpenSound, AnswerSound

(* The chunks of a document, as far as the cap goes.                        *)
LEMMA OpenKeeps ==
    ASSUME EvidenceInv, Open
    PROVE  EvidenceInv'
<1> DEFINE chunks == Chunks(Document.pages)
           first == SubSeq(chunks, 1, Min({MaxChunks, Len(chunks)}))
<1>1. /\ at = "document" /\ call.todo # <<>> /\ at' = "chunk" /\ stored' = stored
      /\ call' = [call EXCEPT !.chunks = first, !.found = {}]
  BY DEF Open, Goto
<1>2. Counting(call) /\ call \in EvidenceLocals /\ Spending(call)
  BY <1>1 DEF EvidenceInv, Counting
<1>3. chunks \in Seq(SUBSET Nat)
  BY <1>1, <1>2, NextDocument, ChunksListed
<1>4. /\ first \in Seq(SUBSET Nat)
      /\ \A k \in DOMAIN first : first[k] \in ToSet(chunks)
  <2>1. PICK n : n = Min({MaxChunks, Len(chunks)})
    OBVIOUS
  <2> HIDE DEF chunks
  <2>2. Len(chunks) \in Nat /\ MaxChunks \in Nat
    BY <1>3, ExtractionAssumption
  <2>3. {MaxChunks, Len(chunks)} \in SUBSET Nat /\ {MaxChunks, Len(chunks)} # {}
    BY <2>2
  <2>4. n \in {MaxChunks, Len(chunks)} /\ n <= Len(chunks)
    BY <2>1, <2>2 DEF Min
  <2>5. n \in Nat /\ n \in 0 .. Len(chunks)
    BY <2>2, <2>4
  <2>6. \A k \in DOMAIN SubSeq(chunks, 1, n) : k \in DOMAIN chunks /\ SubSeq(chunks, 1, n)[k] = chunks[k]
    BY <1>3, <2>5
  <2>7. SubSeq(chunks, 1, n) \in Seq(SUBSET Nat)
    BY <1>3, <2>5
  <2> QED BY <2>1, <2>6, <2>7 DEF ToSet
<1>5. /\ call'.todo = call.todo /\ call'.chunks = first /\ call'.found = {}
      /\ call' \in EvidenceLocals /\ call'.spent = call.spent /\ call'.stopped = call.stopped
      /\ call'.processed = call.processed /\ call'.failed = call.failed
      /\ call'.profiles = call.profiles /\ call'.items = call.items
      /\ call'.without = call.without /\ call'.failures = call.failures
  <2> HIDE DEF first
  <2> QED BY <1>1, <1>2, <1>4 DEF EvidenceLocals
<1>6. Counting(call')
  BY <1>2, <1>5, SameDocuments DEF Spending, Counting
<1>7. Counting(call)'
  BY <1>1, <1>6, QuietEvidence, EvidenceKept
<1>8. OpenSound'
  <2>1. Document' = Document
    BY <1>5 DEF Document
  <2> HIDE DEF first
  <2> QED BY <1>1, <1>4, <1>5, <2>1 DEF OpenSound, IsChunk
<1> QED BY <1>1, <1>7, <1>8, QuietEvidence DEF EvidenceInv, AnswerSound

(* The chunks of a document that are not sent, and those that are.          *)
LEMMA SendKeeps ==
    ASSUME EvidenceInv,
           StopExtracting \/ ChunkFails \/ \E answer \in Extractions : Extract(answer)
    PROVE  EvidenceInv'
<1>1. /\ at = "chunk" /\ call.chunks # <<>> /\ stored' = stored /\ at' \in {"chunk", "item"}
  BY DEF StopExtracting, ChunkFails, Extract, Goto
<1>2. /\ Counting(call) /\ call \in EvidenceLocals /\ Spending(call) /\ call.todo # <<>>
      /\ call.found \subseteq ItemsOf(Document.id)
      /\ \A k \in DOMAIN call.chunks : IsChunk(call.chunks[k], Document)
      /\ call.stopped # {} => call.spent = MaxChunkCalls
  BY <1>1 DEF EvidenceInv, Counting, OpenSound
<1>3. /\ call.spent \in Nat /\ call.processed \in Nat /\ call.failed \in Nat /\ MaxChunkCalls \in Nat
      /\ call.chunks \in Seq(SUBSET Nat)
  BY <1>2, ExtractionAssumption DEF EvidenceLocals
<1>4. /\ Tail(call.chunks) \in Seq(SUBSET Nat)
      /\ Head(call.chunks) = call.chunks[1] /\ 1 \in DOMAIN call.chunks
      /\ \A k \in DOMAIN Tail(call.chunks) :
            k + 1 \in DOMAIN call.chunks /\ Tail(call.chunks)[k] = call.chunks[k + 1]
  <2> PICK s : s = call.chunks
    OBVIOUS
  <2>1. /\ s \in Seq(SUBSET Nat) /\ s # <<>>
    BY <1>1, <1>3
  <2> QED BY <2>1
<1>5. Document.id \in DocumentIds
  BY <1>2, NextDocument
<1> DEFINE Sent ==
             /\ call' \in EvidenceLocals /\ call'.todo = call.todo /\ call'.found = call.found
             /\ call'.profiles = call.profiles /\ call'.items = call.items
             /\ call'.without = call.without /\ call'.failures = call.failures
             /\ Spending(call') /\ (call'.stopped # {} => call'.spent = MaxChunkCalls)
             /\ call'.chunks \in {<<>>, Tail(call.chunks)}
             /\ at' = "item" => /\ call'.chunk = Head(call.chunks)
                                /\ \A k \in DOMAIN call'.answer : call'.answer[k].page \in call'.chunk
<1>6. Sent
  <2>1. CASE StopExtracting
    <3>1. at' = "chunk" /\ call' = [call EXCEPT !.chunks = <<>>, !.stopped = @ \cup {Document.id}]
          /\ call.spent >= MaxChunkCalls
      BY <2>1 DEF StopExtracting, Goto, BudgetSpent
    <3>2. call.spent = MaxChunkCalls
      BY <1>2, <1>3, <3>1 DEF Spending
    <3>3. /\ call' \in EvidenceLocals /\ call'.todo = call.todo /\ call'.found = call.found
          /\ call'.profiles = call.profiles /\ call'.items = call.items
      <4>1. call.stopped \cup {Document.id} \in SUBSET DocumentIds
        BY <1>2, <1>5 DEF EvidenceLocals
      <4>2. <<>> \in Seq(SUBSET Nat)
        OBVIOUS
      <4> QED BY <1>2, <3>1, <4>1, <4>2 DEF EvidenceLocals
    <3>4. /\ call'.without = call.without /\ call'.failures = call.failures
          /\ call'.spent = call.spent /\ call'.processed = call.processed
          /\ call'.failed = call.failed /\ call'.chunks = <<>>
      BY <1>2, <3>1 DEF EvidenceLocals
    <3> QED BY <1>2, <3>1, <3>2, <3>3, <3>4 DEF Spending
  <2>2. CASE ChunkFails
    <3>1. /\ at' = "chunk" /\ ~ (call.spent >= MaxChunkCalls)
          /\ call' = [call EXCEPT !.chunks = Tail(@), !.spent = @ + 1, !.failed = @ + 1]
      BY <2>2 DEF ChunkFails, Goto, BudgetSpent, CountedFailure
    <3>2. call.stopped = {}
      BY <1>2, <1>3, <3>1
    <3>3. /\ call' \in EvidenceLocals /\ call'.todo = call.todo /\ call'.found = call.found
          /\ call'.profiles = call.profiles /\ call'.items = call.items
      <4> PICK c \in Seq(SUBSET Nat), m \in Nat, n \in Nat :
            c = Tail(call.chunks) /\ m = call.spent + 1 /\ n = call.failed + 1
        <5>1. call.spent + 1 \in Nat /\ call.failed + 1 \in Nat
          BY <1>3
        <5> QED BY <1>4, <5>1
      <4>1. call' = [call EXCEPT !.chunks = c, !.spent = m, !.failed = n]
        BY <3>1
      <4> QED BY <1>2, <4>1 DEF EvidenceLocals
    <3>4. /\ call'.without = call.without /\ call'.failures = call.failures
          /\ call'.spent = call.spent + 1 /\ call'.processed = call.processed
          /\ call'.failed = call.failed + 1 /\ call'.chunks = Tail(call.chunks)
          /\ call'.stopped = call.stopped
      BY <1>2, <3>1 DEF EvidenceLocals
    <3> QED BY <1>2, <1>3, <3>1, <3>2, <3>3, <3>4 DEF Spending
  <2>3. ASSUME NEW answer \in Extractions, Extract(answer)
        PROVE  Sent
    <3>1. /\ at' = "item" /\ ~ (call.spent >= MaxChunkCalls)
          /\ call' = [call EXCEPT !.chunks = Tail(@), !.chunk = Head(call.chunks), !.answer = answer,
                                  !.spent = @ + 1, !.processed = @ + 1]
      BY <2>3 DEF Extract, Goto, BudgetSpent
    <3>2. call.stopped = {}
      BY <1>2, <1>3, <3>1
    <3>3. answer \in Seq(Statements)
      <4>1. answer \in Seq(ToSet(answer)) /\ ToSet(answer) \subseteq Statements
        BY ExtractionAssumption DEF Statements
      <4> QED BY <4>1
    <3>4. Head(call.chunks) \in SUBSET Nat
      BY <1>3, <1>4
    <3>5. \A k \in DOMAIN answer : answer[k].page \in Head(call.chunks)
      BY <2>3 DEF Extract, Grounded
    <3>6. call' \in EvidenceLocals
      <4> PICK c \in Seq(SUBSET Nat), d \in SUBSET Nat, m \in Nat, n \in Nat :
            /\ c = Tail(call.chunks) /\ d = Head(call.chunks)
            /\ m = call.spent + 1 /\ n = call.processed + 1
        <5>1. call.spent + 1 \in Nat /\ call.processed + 1 \in Nat
          BY <1>3
        <5> QED BY <1>4, <3>4, <5>1
      <4>1. call' = [call EXCEPT !.chunks = c, !.chunk = d, !.answer = answer, !.spent = m,
                                 !.processed = n]
        BY <3>1
      <4> QED BY <1>2, <3>3, <4>1 DEF EvidenceLocals
    <3>7. call'.answer = answer /\ call'.chunk = Head(call.chunks)
      BY <1>2, <3>1 DEF EvidenceLocals
    <3>8. /\ call'.todo = call.todo /\ call'.found = call.found
          /\ call'.profiles = call.profiles /\ call'.items = call.items
          /\ call'.without = call.without /\ call'.failures = call.failures
          /\ call'.spent = call.spent + 1 /\ call'.processed = call.processed + 1
          /\ call'.failed = call.failed /\ call'.chunks = Tail(call.chunks)
          /\ call'.stopped = call.stopped
      BY <1>2, <3>1 DEF EvidenceLocals
    <3> QED BY <1>2, <1>3, <3>1, <3>2, <3>5, <3>6, <3>7, <3>8 DEF Spending
  <2> QED BY <2>1, <2>2, <2>3
<1>7. Counting(call')
  BY <1>2, <1>6, SameDocuments
<1>8. Kept /\ Counting(call)' /\ \A id : ItemsOf(id)' = ItemsOf(id)
  BY <1>1, <1>7, QuietEvidence, EvidenceKept
<1>9. Document' = Document
  BY <1>6 DEF Document
<1>10. OpenSound'
  BY <1>1, <1>2, <1>4, <1>6, <1>8, <1>9 DEF OpenSound, IsChunk
<1>11. AnswerSound'
  BY <1>2, <1>4, <1>6, <1>9 DEF AnswerSound, IsChunk
<1> QED BY <1>1, <1>8, <1>10, <1>11, QuietEvidence DEF EvidenceInv

(* What the model states of the open document is kept once.                 *)
LEMMA KeepKeeps ==
    ASSUME EvidenceInv, Keep
    PROVE  EvidenceInv'
<1> DEFINE item == Head(call.answer)
           existing == SameStatement(item.statement)
           evidence == [kind |-> "evidence_item", document |-> Document.id,
                        statement |-> item.statement, page |-> item.page, chunk |-> call.chunk]
<1>1. at = "item" /\ at' = "item" /\ call.answer # <<>>
  BY DEF Keep, Goto
<1>2. /\ Counting(call) /\ call \in EvidenceLocals /\ Spending(call) /\ call.todo # <<>>
      /\ call.found \subseteq ItemsOf(Document.id) /\ IsChunk(call.chunk, Document)
      /\ \A k \in DOMAIN call.chunks : IsChunk(call.chunks[k], Document)
      /\ \A k \in DOMAIN call.answer : call.answer[k].page \in call.chunk
      /\ call.stopped # {} => call.spent = MaxChunkCalls
  BY <1>1 DEF EvidenceInv, Counting, OpenSound, AnswerSound
<1>3. StoredSound /\ Latest \in Nat /\ Stored = 1 .. Latest
  <2>1. StoredSound
    BY DEF EvidenceInv
  <2> QED BY <2>1 DEF StoredSound, Stored, Latest
<1>4. PICK rest \in Seq(Statements) :
         /\ rest = Tail(call.answer) /\ item = call.answer[1] /\ 1 \in DOMAIN call.answer
         /\ \A k \in DOMAIN rest : k + 1 \in DOMAIN call.answer /\ rest[k] = call.answer[k + 1]
  <2> PICK s : s = call.answer
    OBVIOUS
  <2>1. s \in Seq(Statements) /\ s # <<>>
    BY <1>1, <1>2 DEF EvidenceLocals
  <2>2. /\ Tail(s) \in Seq(Statements) /\ Head(s) = s[1] /\ 1 \in DOMAIN s
        /\ \A k \in DOMAIN Tail(s) : k + 1 \in DOMAIN s /\ Tail(s)[k] = s[k + 1]
    BY <2>1
  <2> QED BY <2>2
<1>5. PICK e \in Nat : /\ call' = [call EXCEPT !.answer = rest, !.found = @ \cup {e}]
                       /\ e \in ItemsOf(Document.id)'
                       /\ Kept /\ StoredSound' /\ ItemsSound' /\ ProfilesSound'
                       /\ ExecutionsSound' /\ CorporaSound'
  <2>1. CASE existing # {}
    <3>1. call' = [call EXCEPT !.answer = rest, !.found = @ \cup {Max(existing)}] /\ stored' = stored
      BY <1>4, <2>1 DEF Keep
    <3>2. existing \in SUBSET (1 .. Latest)
      BY <1>3 DEF SameStatement, OfKind
    <3>3. Max(existing) \in existing
      BY <1>3, <2>1, <3>2, LastPlace
    <3>4. Max(existing) \in Nat /\ Max(existing) \in ItemsOf(Document.id)
      BY <3>2, <3>3 DEF SameStatement, ItemsOf
    <3>5. Kept /\ StoredSound' /\ ItemsSound' /\ ProfilesSound' /\ ExecutionsSound' /\ CorporaSound'
          /\ \A id : ItemsOf(id)' = ItemsOf(id)
      BY <3>1, QuietEvidence
    <3>6. Document' = Document
      BY <1>2, <3>1 DEF Document, EvidenceLocals
    <3>7. Max(existing) \in ItemsOf(Document.id)'
      BY <3>4, <3>5, <3>6
    <3> QED BY <3>1, <3>4, <3>5, <3>7
  <2>2. CASE existing = {}
    <3> PICK new \in Nat : new = Latest + 1
      BY <1>3
    <3>1. /\ Put(evidence) /\ evidence.kind = "evidence_item"
          /\ call' = [call EXCEPT !.answer = rest, !.found = @ \cup {new}]
      BY <1>4, <2>2 DEF Keep, Latest
    <3>2. /\ Kept /\ StoredSound' /\ ProfilesSound' /\ ExecutionsSound' /\ CorporaSound'
      BY <3>1, PutEvidence
    <3>3. /\ \A i \in Stored : stored'[i] = stored[i]
          /\ stored'[new] = evidence /\ new \notin Stored
          /\ OfKind("evidence_item")' = OfKind("evidence_item") \cup {new}
      BY <1>3, <3>1, PutAdds, PutOfKind
    <3>4. Document' = Document
      BY <1>2, <3>1 DEF Document, EvidenceLocals
    <3>5. /\ stored'[new].document = Document.id /\ stored'[new].chunk = call.chunk
          /\ stored'[new].statement = item.statement /\ stored'[new].page = item.page
      BY <3>3
    <3>6. new \in ItemsOf(Document.id)'
      BY <3>3, <3>4, <3>5 DEF ItemsOf
    <3>7. ItemSound(new)'
      <4>1. PICK m \in DOMAIN Documents : Document = Documents[m]
        BY <1>2, NextDocument
      <4>2. stored'[new].page \in stored'[new].chunk
        BY <1>2, <1>4, <3>5
      <4>3. stored'[new].document = Documents[m].id /\ IsChunk(stored'[new].chunk, Documents[m])
        BY <1>2, <3>5, <4>1
      <4> QED BY <4>2, <4>3 DEF ItemSound, IsChunk
    <3>8. ItemsSound'
      <4>1. \A e \in OfKind("evidence_item") : ItemSound(e)' /\ e \in Stored
        BY <3>2, EvidenceKept DEF EvidenceInv, ItemsSound, OfKind
      <4>2. \A e \in OfKind("evidence_item") :
               ~ (stored[e].document = Document.id /\ stored[e].statement = item.statement)
        BY <2>2 DEF SameStatement
      <4>3. \A e, f \in OfKind("evidence_item") :
               stored[e].document = stored[f].document /\ stored[e].statement = stored[f].statement
               => e = f
        BY DEF EvidenceInv, ItemsSound
      <4> SUFFICES ASSUME NEW e \in OfKind("evidence_item") \cup {new},
                          NEW f \in OfKind("evidence_item") \cup {new},
                          stored'[e].document = stored'[f].document,
                          stored'[e].statement = stored'[f].statement
                   PROVE  e = f
        BY <3>3, <3>7, <4>1 DEF ItemsSound
      <4>4. \A i \in OfKind("evidence_item") : stored'[i] = stored[i]
        BY <3>3, <4>1
      <4> QED BY <3>5, <4>2, <4>3, <4>4
    <3> QED BY <3>1, <3>2, <3>6, <3>8
  <2> QED BY <2>1, <2>2
<1>6. /\ call' \in EvidenceLocals /\ call'.todo = call.todo /\ call'.profiles = call.profiles
      /\ call'.items = call.items /\ call'.without = call.without /\ call'.failures = call.failures
      /\ call'.spent = call.spent /\ call'.processed = call.processed /\ call'.failed = call.failed
      /\ call'.stopped = call.stopped /\ call'.chunks = call.chunks /\ call'.chunk = call.chunk
      /\ call'.answer = rest /\ call'.found = call.found \cup {e}
  BY <1>2, <1>5 DEF EvidenceLocals
<1>7. Counting(call')
  BY <1>2, <1>6, SameDocuments DEF Spending
<1>8. Counting(call)'
  BY <1>5, <1>7, EvidenceKept
<1>9. Document' = Document
  BY <1>6 DEF Document
<1>10. OpenSound'
  <2>1. call.found \subseteq ItemsOf(Document.id)'
    BY <1>2, <1>5, <1>9, EvidenceKept
  <2> QED BY <1>2, <1>5, <1>6, <1>9, <2>1 DEF OpenSound, IsChunk
<1>11. AnswerSound'
  BY <1>2, <1>4, <1>6, <1>9 DEF AnswerSound, IsChunk
<1> QED BY <1>1, <1>5, <1>8, <1>10, <1>11 DEF EvidenceInv

(* The answer is kept; the next chunk.                                      *)
LEMMA ChunkDoneKeeps ==
    ASSUME EvidenceInv, ChunkDone
    PROVE  EvidenceInv'
<1>1. at = "item" /\ at' = "chunk" /\ stored' = stored /\ call' = call
  BY DEF ChunkDone, Goto
<1>2. Kept /\ Counting(call)' /\ \A id : ItemsOf(id)' = ItemsOf(id)
  BY <1>1, QuietEvidence, EvidenceKept DEF EvidenceInv
<1>3. Document' = Document
  BY <1>1 DEF Document
<1>4. OpenSound'
  BY <1>1, <1>2, <1>3 DEF EvidenceInv, OpenSound, IsChunk
<1> QED BY <1>1, <1>2, <1>4, QuietEvidence DEF EvidenceInv, AnswerSound

(* A document that is through has its profile, or is without evidence.      *)
LEMMA ProfileKeeps ==
    ASSUME EvidenceInv, Profile
    PROVE  EvidenceInv'
<1>1. at = "chunk" /\ at' = "document"
  BY DEF Profile, Goto
<1>2. /\ Counting(call) /\ call \in EvidenceLocals /\ Spending(call) /\ call.todo # <<>>
      /\ call.found \subseteq ItemsOf(Document.id)
  BY <1>1 DEF EvidenceInv, Counting, OpenSound
<1>3. OpenSound' /\ AnswerSound'
  BY <1>1 DEF OpenSound, AnswerSound
<1>4. CASE call.found = {}
  <2>1. /\ stored' = stored
        /\ call' = [call EXCEPT !.todo = Tail(@), !.without = @ \cup {Document.id}]
    BY <1>4 DEF Profile
  <2>2. Counting(call')
    BY <1>2, <2>1, DocumentLeft
  <2>3. Counting(call)'
    BY <2>1, <2>2, QuietEvidence, EvidenceKept
  <2> QED BY <1>1, <1>3, <2>1, <2>3, QuietEvidence DEF EvidenceInv
<1>5. CASE call.found # {}
  <2> DEFINE profile == [kind |-> "paper_profile", document |-> Document.id, items |-> call.found]
  <2>1. StoredSound /\ Latest \in Nat
    <3>1. StoredSound
      BY DEF EvidenceInv
    <3> QED BY <3>1 DEF StoredSound, Latest
  <2> PICK new \in Nat : new = Latest + 1
    BY <2>1
  <2>2. /\ Put(profile) /\ profile.kind = "paper_profile"
        /\ call' = [call EXCEPT !.todo = Tail(@), !.items = @ \cup call.found,
                                !.profiles = @ \cup {new}]
    BY <1>5 DEF Profile, Latest
  <2>3. Kept /\ StoredSound' /\ ItemsSound' /\ ExecutionsSound' /\ CorporaSound'
    BY <2>2, PutEvidence
  <2>4. /\ \A i \in Stored : stored'[i] = stored[i]
        /\ stored'[new] = profile /\ new \notin Stored
        /\ OfKind("paper_profile")' = OfKind("paper_profile") \cup {new}
    BY <2>1, <2>2, PutAdds, PutOfKind
  <2>5. stored'[new].document = Document.id /\ stored'[new].items = call.found
    BY <2>4
  <2>6. PICK id : id = Document.id /\ call.found \subseteq ItemsOf(id)'
    BY <1>2, <2>3, EvidenceKept
  <2>7. ProfilesSound'
    <3>1. ProfileSound(new)'
      <4>1. stored'[new].items \subseteq {e \in OfKind("evidence_item")' : stored'[e].document = id}
        BY <2>5, <2>6 DEF ItemsOf
      <4>2. stored'[new].document = id
        BY <2>5, <2>6
      <4> QED BY <4>1, <4>2 DEF ProfileSound, ItemsOf
    <3>2. \A p \in OfKind("paper_profile") : ProfileSound(p)'
      BY <2>3, EvidenceKept DEF EvidenceInv, ProfilesSound
    <3> QED BY <2>4, <3>1, <3>2 DEF ProfilesSound
  <2>8. Counting(call)'
    <3>1. /\ Tail(call.todo) \in Seq(ToSet(Documents)) /\ LastOf(Tail(call.todo), Documents)
          /\ Len(Documents) - Len(Tail(call.todo)) = Len(Documents) - Len(call.todo) + 1
          /\ {Documents[n].id : n \in Passed(Tail(call.todo), Documents)}
                = {Documents[n].id : n \in Passed(call.todo, Documents)} \cup {Document.id}
      BY <1>2, NextDocument
    <3>2. /\ call'.todo = Tail(call.todo) /\ call'.profiles = call.profiles \cup {new}
          /\ call'.items = call.items \cup call.found /\ call'.without = call.without
          /\ call'.failures = call.failures /\ call'.spent = call.spent
          /\ call'.processed = call.processed /\ call'.failed = call.failed
          /\ call'.stopped = call.stopped
      BY <1>2, <2>2 DEF EvidenceLocals
    <3>3. call' \in EvidenceLocals
      <4> PICK rest, items, profiles :
            rest = Tail(call.todo) /\ items = call.items \cup call.found
            /\ profiles = call.profiles \cup {new}
        OBVIOUS
      <4>1. rest \in Seq(ToSet(Documents)) /\ items \in SUBSET Nat /\ profiles \in SUBSET Nat
        BY <1>2, <3>1 DEF EvidenceLocals
      <4>2. call' = [call EXCEPT !.todo = rest, !.items = items, !.profiles = profiles]
        BY <1>2, <2>2 DEF EvidenceLocals
      <4> QED BY <1>2, <4>1, <4>2 DEF EvidenceLocals
    <3>4. /\ call.profiles \subseteq OfKind("paper_profile") /\ call.profiles \subseteq Stored
          /\ IsFiniteSet(call.profiles) /\ IsFiniteSet(call.without) /\ IsFiniteSet(call.failures)
          /\ {Documents[n].id : n \in Passed(call.todo, Documents)}
                = {stored[p].document : p \in call.profiles} \cup call.without \cup call.failures
          /\ call.items = UNION {stored[p].items : p \in call.profiles}
          /\ call.stopped # {} => call.spent = MaxChunkCalls
      BY <1>2 DEF Counting, OfKind
    <3>5. /\ IsFiniteSet(call.profiles \cup {new})
          /\ Cardinality(call.profiles \cup {new}) = Cardinality(call.profiles) + 1
      BY <2>4, <3>4, FS_AddElement
    <3>6. {stored'[p].document : p \in call.profiles \cup {new}}
             = {stored[p].document : p \in call.profiles} \cup {Document.id}
      BY <2>4, <2>5, <3>4
    <3>7. UNION {stored'[p].items : p \in call.profiles \cup {new}} = call.items \cup call.found
      <4>1. \A p \in call.profiles : stored'[p].items = stored[p].items
        BY <2>4, <3>4
      <4>2. UNION {stored'[p].items : p \in call.profiles} = call.items
        BY <3>4, <4>1
      <4>3. {stored'[p].items : p \in call.profiles \cup {new}}
               = {stored'[p].items : p \in call.profiles} \cup {call.found}
        BY <2>5
      <4> QED BY <4>2, <4>3
    <3>8. Len(Documents) - Len(call'.todo)
             = Cardinality(call'.profiles) + Cardinality(call'.without) + Cardinality(call'.failures)
      <4>1. /\ Cardinality(call.profiles) \in Nat /\ Cardinality(call.without) \in Nat
            /\ Cardinality(call.failures) \in Nat
        BY <3>4, FS_CardinalityType
      <4>2. Len(Documents) - Len(call.todo)
               = Cardinality(call.profiles) + Cardinality(call.without) + Cardinality(call.failures)
        BY <1>2 DEF Counting
      <4>3. PICK left : /\ left = Len(Documents) - Len(call'.todo)
                        /\ left = Cardinality(call.profiles) + Cardinality(call.without)
                                     + Cardinality(call.failures) + 1
        BY <3>1, <3>2, <4>2
      <4>4. left = (Cardinality(call.profiles) + 1) + Cardinality(call.without)
                      + Cardinality(call.failures)
        BY <4>1, <4>3
      <4> QED BY <3>2, <3>5, <4>3, <4>4
    <3>9. /\ {Documents[n].id : n \in Passed(call'.todo, Documents)}
                = {stored'[p].document : p \in call'.profiles} \cup call'.without \cup call'.failures
          /\ call'.items = UNION {stored'[p].items : p \in call'.profiles}
      BY <3>1, <3>2, <3>4, <3>6, <3>7
    <3>10. call'.profiles \subseteq OfKind("paper_profile")'
      BY <2>4, <3>2, <3>4
    <3>11. Spending(call')
      BY <1>2, <3>2 DEF Spending
    <3>12. LastOf(call'.todo, Documents)
      BY <3>1, <3>2
    <3>13. /\ IsFiniteSet(call'.profiles) /\ IsFiniteSet(call'.without)
           /\ IsFiniteSet(call'.failures)
           /\ call'.stopped # {} => call'.spent = MaxChunkCalls
      BY <3>2, <3>4, <3>5
    <3> QED BY <3>3, <3>8, <3>9, <3>10, <3>11, <3>12, <3>13 DEF Counting, Spending, LastOf, Passed
  <2> QED BY <1>1, <1>3, <2>3, <2>7, <2>8 DEF EvidenceInv
<1> QED BY <1>4, <1>5

(* The execution has the counts of its run.                                 *)
LEMMA PutExecutionKeeps ==
    ASSUME EvidenceInv, PutEvidenceExecution
    PROVE  EvidenceInv'
<1> DEFINE execution == [kind |-> "evidence_execution", spent |-> call.spent,
                         processed |-> call.processed, failed |-> call.failed]
<1>1. /\ at = "document" /\ call.todo = <<>> /\ at' = "corpus"
      /\ Put(execution) /\ execution.kind = "evidence_execution"
      /\ call' = [call EXCEPT !.execution = Latest + 1]
  BY DEF PutEvidenceExecution, Goto, Latest
<1>2. Counting(call) /\ call \in EvidenceLocals /\ Spending(call)
  BY <1>1 DEF EvidenceInv, Counting
<1>3. StoredSound /\ Latest \in Nat
  <2>1. StoredSound
    BY DEF EvidenceInv
  <2> QED BY <2>1 DEF StoredSound, Latest
<1> PICK new \in Nat : new = Latest + 1
  BY <1>3
<1>4. Kept /\ StoredSound' /\ ItemsSound' /\ ProfilesSound' /\ CorporaSound'
  BY <1>1, PutEvidence
<1>5. Executions' = Executions \cup {new} /\ stored'[new] = execution
  BY <1>1, <1>3, PutAdds, PutOfKind DEF Executions
<1>6. ExecutionsSound'
  <2>1. \A x \in Executions : Spending(stored[x])'
    BY <1>4, EvidenceKept DEF EvidenceInv, ExecutionsSound
  <2>2. Spending(stored'[new])
    BY <1>2, <1>5 DEF Spending
  <2>3. Spending(stored[new])'
    BY <2>2 DEF Spending
  <2> QED BY <1>5, <2>1, <2>3 DEF ExecutionsSound
<1>7. /\ call' \in EvidenceLocals /\ call'.todo = call.todo /\ call'.profiles = call.profiles
      /\ call'.items = call.items /\ call'.without = call.without /\ call'.failures = call.failures
      /\ call'.spent = call.spent /\ call'.processed = call.processed /\ call'.failed = call.failed
      /\ call'.stopped = call.stopped
  BY <1>1, <1>2 DEF EvidenceLocals
<1>8. Counting(call')
  BY <1>2, <1>7, SameDocuments DEF Spending, Counting
<1>9. Counting(call)'
  BY <1>4, <1>8, EvidenceKept
<1>10. OpenSound' /\ AnswerSound'
  BY <1>1 DEF OpenSound, AnswerSound
<1> QED BY <1>1, <1>4, <1>6, <1>7, <1>9, <1>10 DEF EvidenceInv

(* The corpus has what its run knows of every document.                     *)
LEMMA PutCorpusKeeps ==
    ASSUME EvidenceInv, PutCorpus
    PROVE  EvidenceInv'
<1> DEFINE corpus == [kind |-> "evidence_corpus", of |-> call]
<1>1. /\ at = "corpus" /\ at' = "idle" /\ Put(corpus) /\ corpus.kind = "evidence_corpus"
  BY DEF PutCorpus, Return
<1>2. Counting(call) /\ call.todo = <<>>
  BY <1>1 DEF EvidenceInv
<1>3. StoredSound /\ Latest \in Nat
  <2>1. StoredSound
    BY DEF EvidenceInv
  <2> QED BY <2>1 DEF StoredSound, Latest
<1> PICK new, k : new \in Nat /\ new = Latest + 1 /\ k = call
  BY <1>3
<1>4. Kept /\ StoredSound' /\ ItemsSound' /\ ProfilesSound' /\ ExecutionsSound'
  BY <1>1, PutEvidence
<1>5. /\ OfKind("evidence_corpus")' = OfKind("evidence_corpus") \cup {new}
      /\ stored'[new].of = k /\ \A i \in Stored : stored'[i] = stored[i]
  <2>1. stored'[new] = corpus /\ \A i \in Stored : stored'[i] = stored[i]
    BY <1>1, <1>3, PutAdds
  <2> QED BY <1>1, <1>3, <2>1, PutOfKind
<1>6. CorporaSound'
  <2>1. ASSUME NEW c \in OfKind("evidence_corpus")'
        PROVE  Counting(stored[c].of)' /\ (stored[c].of.todo = <<>>)'
    <3>1. PICK l : l = stored'[c].of
      OBVIOUS
    <3>2. Counting(l) /\ l.todo = <<>>
      <4>1. CASE c = new
        BY <1>2, <1>5, <3>1, <4>1
      <4>2. CASE c \in OfKind("evidence_corpus")
        <5>1. stored'[c] = stored[c]
          BY <1>5, <4>2 DEF OfKind
        <5> QED BY <3>1, <4>2, <5>1 DEF EvidenceInv, CorporaSound
      <4> QED BY <1>5, <4>1, <4>2
    <3>3. Counting(l)'
      BY <1>4, <3>2, EvidenceKept
    <3> QED BY <3>1, <3>2, <3>3
  <2> QED BY <2>1 DEF CorporaSound
<1>7. OpenSound' /\ AnswerSound'
  BY <1>1 DEF OpenSound, AnswerSound
<1> QED BY <1>1, <1>4, <1>6, <1>7 DEF EvidenceInv

(* For any corpus and any answers of the model, however often the process   *)
(* dies and the run is taken up again: no evidence twice, every item from   *)
(* one chunk of its document, every document accounted for once, and never  *)
(* more calls to the model than the budget allows.                          *)
THEOREM EvidenceCounted == EvidenceSpec => []EvidenceAccountedFor
<1>1. NothingStored => EvidenceInv
  BY NothingIsStored
     DEF EvidenceInv, ItemsSound, ProfilesSound, ExecutionsSound, CorporaSound, Executions,
         OpenSound, AnswerSound
<1>2. EvidenceInv /\ [EvidenceNext]_researchVars => EvidenceInv'
  <2> SUFFICES ASSUME EvidenceInv, [EvidenceNext]_researchVars PROVE EvidenceInv'
    OBVIOUS
  <2>1. CASE Run
    BY <2>1, RunKeeps
  <2>2. CASE RunAgain \/ UNCHANGED researchVars
    <3>1. stored' = stored /\ at' = at /\ call' = call
      BY <2>2 DEF RunAgain, researchVars
    <3>2. Kept /\ (at # "idle" => Counting(call)') /\ \A id : ItemsOf(id)' = ItemsOf(id)
      BY <3>1, QuietEvidence, EvidenceKept DEF EvidenceInv
    <3>3. Document' = Document
      BY <3>1 DEF Document
    <3> QED BY <3>1, <3>2, <3>3, QuietEvidence DEF EvidenceInv, OpenSound, AnswerSound, IsChunk
  <2>3. CASE DocumentFails \/ DocumentWithoutText
    BY <2>3, LeaveKeeps
  <2>4. CASE Open
    BY <2>4, OpenKeeps
  <2>5. CASE StopExtracting \/ ChunkFails \/ \E answer \in Extractions : Extract(answer)
    BY <2>5, SendKeeps
  <2>6. CASE Keep
    BY <2>6, KeepKeeps
  <2>7. CASE ChunkDone
    BY <2>7, ChunkDoneKeeps
  <2>8. CASE Profile
    BY <2>8, ProfileKeeps
  <2>9. CASE PutEvidenceExecution
    BY <2>9, PutExecutionKeeps
  <2>10. CASE PutCorpus
    BY <2>10, PutCorpusKeeps
  <2>11. CASE RunRaises \/ Die
    <3>1. stored' = stored /\ at' = "idle"
      BY <2>11 DEF RunRaises, Return, Die
    <3> QED BY <3>1, EvidenceReturns
  <2> QED BY <2>1, <2>2, <2>3, <2>4, <2>5, <2>6, <2>7, <2>8, <2>9, <2>10, <2>11 DEF EvidenceNext
<1>3. EvidenceInv => EvidenceAccountedFor
  <2> SUFFICES ASSUME EvidenceInv PROVE EvidenceAccountedFor
    OBVIOUS
  <2>1. ASSUME NEW e \in OfKind("evidence_item"), NEW f \in OfKind("evidence_item"),
               stored[e].document = stored[f].document
        PROVE  /\ stored[e].statement = stored[f].statement => e = f
               /\ stored[e].chunk = stored[f].chunk \/ stored[e].chunk \cap stored[f].chunk = {}
    <3>1. ItemSound(e) /\ ItemSound(f)
      BY DEF EvidenceInv, ItemsSound
    <3>2. PICK m \in DOMAIN Documents :
             Documents[m].id = stored[e].document /\ IsChunk(stored[e].chunk, Documents[m])
      BY <3>1 DEF ItemSound
    <3>3. PICK n \in DOMAIN Documents :
             Documents[n].id = stored[f].document /\ IsChunk(stored[f].chunk, Documents[n])
      BY <3>1 DEF ItemSound
    <3>4. m = n /\ Documents[m].pages \in Nat
      BY <2>1, <3>2, <3>3, DocumentsAssumption
    <3>5. stored[e].chunk = stored[f].chunk \/ stored[e].chunk \cap stored[f].chunk = {}
      BY <3>2, <3>3, <3>4, ChunksApart DEF IsChunk
    <3>6. stored[e].statement = stored[f].statement => e = f
      BY <2>1 DEF EvidenceInv, ItemsSound
    <3> QED BY <3>5, <3>6
  <2>2. \A e \in OfKind("evidence_item") : stored[e].page \in stored[e].chunk
    BY DEF EvidenceInv, ItemsSound, ItemSound
  <2>3. \A x \in Executions : Spending(stored[x])
    BY DEF EvidenceInv, ExecutionsSound
  <2>4. ASSUME NEW c \in OfKind("evidence_corpus"), NEW k, k = stored[c].of
        PROVE  /\ ToSet([n \in DOMAIN Documents |-> Documents[n].id])
                     = {stored[p].document : p \in k.profiles} \cup k.without \cup k.failures
               /\ Len(Documents) = Cardinality(k.profiles) + Cardinality(k.without)
                     + Cardinality(k.failures)
               /\ k.items = UNION {stored[p].items : p \in k.profiles}
               /\ \A p \in k.profiles : \A e \in stored[p].items :
                     stored[e].document = stored[p].document
               /\ k.stopped # {} => k.spent = MaxChunkCalls
    <3>1. Counting(k) /\ k.todo = <<>>
      BY <2>4 DEF EvidenceInv, CorporaSound
    <3>2. Passed(<<>>, Documents) = DOMAIN Documents
      BY AllIsLast, DocumentsAssumption
    <3>3. ToSet([n \in DOMAIN Documents |-> Documents[n].id])
             = {Documents[n].id : n \in DOMAIN Documents}
      BY DEF ToSet
    <3>4. \A p \in k.profiles : \A e \in stored[p].items : stored[e].document = stored[p].document
      BY <3>1 DEF Counting, EvidenceInv, ProfilesSound, ProfileSound, ItemsOf
    <3>5. Len(Documents) - Len(k.todo) = Len(Documents)
      <4>1. Len(Documents) \in Nat /\ Len(k.todo) = 0
        BY <3>1, DocumentsAssumption
      <4> QED BY <4>1
    <3>6. {Documents[n].id : n \in DOMAIN Documents}
             = {stored[p].document : p \in k.profiles} \cup k.without \cup k.failures
      BY <3>1, <3>2 DEF Counting
    <3> QED BY <3>1, <3>3, <3>4, <3>5, <3>6 DEF Counting
  <2> QED BY <2>1, <2>2, <2>3, <2>4 DEF EvidenceAccountedFor, Spending
<1> QED BY <1>1, <1>2, <1>3, PTL DEF EvidenceSpec

-----------------------------------------------------------------------------
(* Literature search                                                        *)
Searches == Nat \X {1, 2}

SearchLocals ==
    [strategy : Strategies, todo : SUBSET Searches, searches : SUBSET Searches,
     requests : Nat, sent : Nat, attempted : Nat, succeeded : Nat, failed : Nat, papers : Nat,
     kept : SUBSET Nat, records : SUBSET Nat, failures : SUBSET Searches, fetched : Nat,
     page : Nat, hits : Nat, snapshot : Nat, page_papers : SUBSET Nat, identities : Nat,
     unread : SUBSET Nat, flagged : BOOLEAN]

\* A paper leads back to the snapshot it was made from.
Traced(p) == \E s \in OfKind("snapshot") : <<s, p, "generated_from">> \in prov

\* What a call k that is through with some of its searches knows of them.
Searching(k) ==
    /\ k \in SearchLocals
    /\ k.searches = SearchesOf(k.strategy) /\ k.todo \subseteq k.searches
    /\ k.sent <= k.requests /\ k.requests <= MaxRequests
    /\ IsFiniteSet(k.kept) /\ Cardinality(k.kept) <= k.papers /\ k.papers <= MaxPapers
    /\ k.records \subseteq OfKind("record")
    /\ IsFiniteSet(k.records) /\ k.succeeded = Cardinality(k.records)
    /\ \A s \in k.searches \ k.todo :
          \/ Searched(k, s) \/ s \in k.failures
          \/ k.requests >= MaxRequests \/ k.papers >= MaxPapers
    /\ \A p \in k.kept : Traced(p) /\ \E r \in k.records : p \in stored[r].papers

\* Of the requests counted, one at most neither succeeded nor failed.
Balanced(k) ==
    \/ k.attempted = k.succeeded + k.failed
    \/ k.attempted = k.succeeded + k.failed + 1 /\ k.requests >= MaxRequests

SearchesSound ==
    \A i \in OfKind("search_execution") :
       /\ Searching(stored[i].of) /\ Balanced(stored[i].of) /\ stored[i].of.todo = {}
       /\ stored[i].of.unread # stored[i].of.kept /\ stored[i].of.identities = 0 => stored[i].of.flagged

\* A search that is under way is the only one that is not accounted for.
RequestSound ==
    at \in {"page", "hit", "paper", "link"} =>
       /\ call.todo # {} /\ call.fetched = 0 /\ call.papers < MaxPapers
       /\ call.attempted = call.succeeded + call.failed + 1
       /\ at = "page" => call.sent < call.requests /\ call.page = NoToken

\* Its papers are linked, but the one that was put last.
PapersSound ==
    /\ at \in {"hit", "paper", "link"} =>
          /\ call.page_papers \subseteq Stored
          /\ \A p \in call.page_papers : Traced(p) \/ (at = "link" /\ p = Latest)
    /\ at \in {"paper", "link"} => call.snapshot \in OfKind("snapshot")
    /\ at = "paper" => call.hits > 0

SearchInv ==
    /\ StoredSound /\ SearchesSound
    /\ at # "idle" => Searching(call)
    /\ at \in {"search", "execution"} => Balanced(call)
    /\ RequestSound /\ PapersSound
    /\ at = "execution" =>
          call.todo = {} /\ (call.unread # call.kept /\ call.identities = 0 => call.flagged)
    /\ at \in {"idle", "search", "page", "hit", "paper", "link", "execution"}

(* A search that is left to be made, the first of them, of a source there.  *)
LEMMA NextSearch ==
    ASSUME Searching(call), call.todo # {}
    PROVE  /\ ThisSearch \in call.todo /\ ThisSearch \in Searches
           /\ Source \in DOMAIN Pages /\ Pages[Source][1] \in Nat
<1> DEFINE firsts == {s[1] : s \in call.todo}
           m == Min(firsts)
           seconds == {s[2] : s \in {t \in call.todo : t[1] = m}}
           n == Min(seconds)
<1>1. /\ call \in SearchLocals /\ call.todo \in SUBSET Searches
      /\ call.todo \subseteq SearchesOf(call.strategy)
  BY DEF Searching, SearchLocals
<1>2. firsts \in SUBSET Nat /\ firsts # {}
  BY <1>1 DEF Searches
<1>3. m \in firsts /\ \A x \in firsts : m <= x
  <2> HIDE DEF firsts
  <2> QED BY <1>2, FirstPlace
<1>4. seconds \in SUBSET Nat /\ seconds # {}
  <2> HIDE DEF m
  <2> QED BY <1>1, <1>3 DEF Searches
<1>5. n \in seconds /\ \A x \in seconds : n <= x
  <2> HIDE DEF seconds
  <2> QED BY <1>4, FirstPlace
<1>6. PICK s \in call.todo : s[1] = m /\ s[2] = n
  <2> HIDE DEF m, n
  <2> QED BY <1>5
<1>7. \A t \in call.todo : s[1] < t[1] \/ (s[1] = t[1] /\ s[2] <= t[2])
  <2> TAKE t \in call.todo
  <2>1. t[1] \in firsts /\ (t[1] = m => t[2] \in seconds)
    <3> HIDE DEF m
    <3> QED OBVIOUS
  <2>2. t[1] \in Nat /\ s[1] \in Nat
    BY <1>1 DEF Searches
  <2> HIDE DEF m, n, firsts, seconds
  <2> QED BY <1>3, <1>5, <1>6, <2>1, <2>2
<1>8. ThisSearch \in call.todo
  BY <1>7 DEF ThisSearch
<1>9. /\ call.strategy \in Strategies /\ ThisSearch \in SearchesOf(call.strategy)
      /\ ThisSearch \in Searches
  BY <1>1, <1>8 DEF SearchLocals
<1>10. /\ ThisSearch[1] \in 1 .. Min({MaxQueries, Len(call.strategy)})
       /\ ThisSearch[2] \in DOMAIN call.strategy[ThisSearch[1]]
  BY <1>9 DEF SearchesOf
<1>11. ThisSearch[1] \in DOMAIN call.strategy
  <2> PICK strategy : strategy = call.strategy
    OBVIOUS
  <2>1. strategy \in Seq(ToSet(strategy))
    BY <1>9, StrategiesAssumption
  <2>2. Len(strategy) \in Nat /\ MaxQueries \in Nat /\ DOMAIN strategy = 1 .. Len(strategy)
    BY <2>1, BudgetsAssumption
  <2>3. {MaxQueries, Len(strategy)} \in SUBSET Nat /\ {MaxQueries, Len(strategy)} # {}
    BY <2>2
  <2>4. Min({MaxQueries, Len(strategy)}) <= Len(strategy)
        /\ Min({MaxQueries, Len(strategy)}) \in Nat
    BY <2>2, <2>3, FirstPlace
  <2>5. 1 .. Min({MaxQueries, Len(strategy)}) \subseteq 1 .. Len(strategy)
    BY <2>2, <2>4
  <2> QED BY <1>10, <2>2, <2>5
<1>12. Source \in DOMAIN Pages
  BY <1>9, <1>10, <1>11, StrategiesAssumption DEF Source
<1>13. Pages[Source][1] \in Nat
  BY <1>12, StrategiesAssumption
<1> QED BY <1>8, <1>9, <1>12, <1>13

(* The papers of a page that are counted fit into what is left of a budget. *)
LEMMA WithinBudget ==
    ASSUME NEW n \in Nat, NEW papers \in SUBSET (1 .. n), NEW left \in Nat,
           NEW W, W = {p \in papers : Cardinality({q \in papers : q < p}) < left}
    PROVE  IsFiniteSet(W) /\ Cardinality(W) \in Nat /\ Cardinality(W) <= left
<1>1. IsFiniteSet(papers) /\ IsFiniteSet(W)
  <2>1. 0 \in Int /\ 1 \in Int /\ n \in Int
    OBVIOUS
  <2>2. IsFiniteSet(1 .. n)
    BY <2>1, FS_Interval
  <2>3. IsFiniteSet(papers)
    BY <2>2, FS_Subset
  <2>4. W \in SUBSET papers
    OBVIOUS
  <2> QED BY ONLY <2>3, <2>4, FS_Subset
<1>2. Cardinality(W) \in Nat
  BY <1>1, FS_CardinalityType
<1>3. CASE W = {}
  <2>1. Cardinality({}) = 0
    BY FS_EmptySet
  <2>2. Cardinality(W) = 0
    BY ONLY <1>3, <2>1
  <2> QED BY <1>1, <1>2, <2>2
<1>4. CASE W # {}
  <2>1. PICK m \in W : \A x \in W : x <= m
    BY <1>4, LastPlace
  <2> DEFINE B == {q \in papers : q < m}
  <2>2. IsFiniteSet(B) /\ Cardinality(B) < left /\ Cardinality(B) \in Nat
    <3>1. B \subseteq papers
      OBVIOUS
    <3>2. IsFiniteSet(B)
      <4> HIDE DEF B
      <4> QED BY <1>1, <3>1, FS_Subset
    <3>3. Cardinality(B) < left
      BY <2>1
    <3>4. Cardinality(B) \in Nat
      <4> HIDE DEF B
      <4> QED BY ONLY <3>2, FS_CardinalityType
    <3> HIDE DEF B
    <3> QED BY <3>2, <3>3, <3>4
  <2>3. W \subseteq B \cup {m}
    <3>1. W \subseteq papers /\ papers \subseteq Nat /\ m \in W
      OBVIOUS
    <3> QED BY ONLY <2>1, <3>1
  <2>4. m \notin B
    OBVIOUS
  <2> HIDE DEF B
  <2>5. IsFiniteSet(B \cup {m}) /\ Cardinality(B \cup {m}) = Cardinality(B) + 1
    BY <2>2, <2>4, FS_AddElement
  <2>6. Cardinality(W) <= Cardinality(B \cup {m})
    BY <2>3, <2>5, FS_Subset
  <2> QED BY <1>1, <1>2, <2>2, <2>5, <2>6
<1> QED BY <1>1, <1>2, <1>3, <1>4

(* What is kept, and linked, stays as it was.                               *)
LEMMA SearchKept ==
    ASSUME Kept, prov \subseteq prov'
    PROVE  /\ \A p : Traced(p) => Traced(p)'
           /\ \A kind : OfKind(kind) \subseteq OfKind(kind)'
           /\ \A k : Searching(k) => Searching(k)'
           /\ \A k : Balanced(k)' <=> Balanced(k)
<1>1. \A kind : OfKind(kind) \subseteq Stored /\ OfKind(kind) \subseteq OfKind(kind)'
  BY DEF OfKind, Kept
<1>2. \A p : Traced(p) => Traced(p)'
  BY <1>1 DEF Traced
<1>3. ASSUME NEW k, Searching(k)
      PROVE  Searching(k)'
  <2>1. k.records \subseteq OfKind("record")' /\ \A r \in k.records : stored'[r] = stored[r]
    BY <1>1, <1>3 DEF Searching, Kept
  <2>2. \A s : Searched(k, s) => Searched(k, s)'
    BY <2>1 DEF Searched
  <2>3. \A p \in k.kept : Traced(p)' /\ \E r \in k.records : p \in stored'[r].papers
    BY <1>2, <1>3, <2>1 DEF Searching
  <2> QED BY <1>3, <2>1, <2>2, <2>3 DEF Searching
<1>4. \A k : Balanced(k)' <=> Balanced(k)
  BY DEF Balanced
<1> QED BY <1>1, <1>2, <1>3, <1>4

(* A step that stores no execution.                                         *)
LEMMA SearchesStay ==
    ASSUME SearchInv, Kept, prov \subseteq prov',
           OfKind("search_execution")' = OfKind("search_execution")
    PROVE  SearchesSound'
<1>1. ASSUME NEW i \in OfKind("search_execution")
      PROVE  /\ Searching(stored[i].of)' /\ Balanced(stored[i].of)' /\ (stored[i].of.todo = {})'
             /\ (stored[i].of.unread # stored[i].of.kept /\ stored[i].of.identities = 0 => stored[i].of.flagged)'
  <2>1. stored'[i] = stored[i]
    BY DEF Kept, OfKind
  <2>2. PICK k : k = stored[i].of
    OBVIOUS
  <2>3. Searching(k) /\ Balanced(k) /\ k.todo = {} /\ (k.unread # k.kept /\ k.identities = 0 => k.flagged)
    BY <2>2 DEF SearchInv, SearchesSound
  <2>4. Searching(k)' /\ Balanced(k)'
    BY <2>3, SearchKept
  <2> QED BY <2>1, <2>2, <2>3, <2>4
<1> QED BY <1>1 DEF SearchesSound

LEMMA QuietSearch ==
    ASSUME SearchInv, stored' = stored, prov \subseteq prov'
    PROVE  /\ Kept /\ StoredSound' /\ SearchesSound' /\ Stored' = Stored /\ Latest' = Latest
           /\ \A kind : OfKind(kind)' = OfKind(kind)
<1>1. /\ Stored' = Stored /\ Latest' = Latest /\ StoredSound'
      /\ \A kind : OfKind(kind)' = OfKind(kind)
  BY StoredStays DEF SearchInv
<1>2. Kept
  BY <1>1 DEF Kept
<1> QED BY <1>1, <1>2, SearchesStay

LEMMA PutSearch ==
    ASSUME SearchInv, NEW a, Put(a), prov \subseteq prov', NEW new, new = Latest + 1
    PROVE  /\ Kept /\ StoredSound' /\ Stored = 1 .. Latest /\ Latest \in Nat
           /\ Stored' = Stored \cup {new} /\ new \notin Stored /\ Latest' = new
           /\ stored'[new] = a
           /\ \A kind : a.kind = kind => OfKind(kind)' = OfKind(kind) \cup {new}
           /\ a.kind # "search_execution" => SearchesSound'
<1>1. /\ StoredSound' /\ Stored' = Stored \cup {new} /\ Stored = 1 .. Latest /\ Latest \in Nat
      /\ \A i \in Stored : stored'[i] = stored[i]
      /\ new \notin Stored /\ stored'[new] = a
  BY PutAdds DEF SearchInv
<1>2. /\ \A kind : a.kind # kind => OfKind(kind)' = OfKind(kind)
      /\ \A kind : a.kind = kind => OfKind(kind)' = OfKind(kind) \cup {new}
  BY PutOfKind DEF SearchInv
<1>3. Kept
  BY <1>1 DEF Kept
<1>4. Latest' = new
  <2>1. stored \in Seq(ToSet(stored))
    BY DEF SearchInv, StoredSound
  <2>2. PICK S : stored \in Seq(S) /\ a \in S
    <3>1. stored \in Seq(ToSet(stored) \cup {a})
      BY <2>1
    <3> QED BY <3>1
  <2>3. stored' = Append(stored, a)
    BY DEF Put
  <2> QED BY <2>2, <2>3 DEF Latest
<1> QED BY <1>1, <1>2, <1>3, <1>4, SearchesStay

(* A call that goes on with no record more, and no search unaccounted for.  *)
LEMMA SearchGoesOn ==
    ASSUME Searching(call), NEW k \in SearchLocals, k.strategy = call.strategy,
           k.searches = call.searches, k.todo \subseteq call.todo,
           k.sent <= k.requests, k.requests <= MaxRequests, call.requests <= k.requests,
           k.papers = call.papers, k.kept = call.kept, k.records = call.records,
           k.succeeded = call.succeeded, call.failures \subseteq k.failures,
           \A s \in call.todo \ k.todo :
              s \in k.failures \/ k.requests >= MaxRequests \/ k.papers >= MaxPapers
    PROVE  Searching(k)
<1>1. call.requests \in Nat /\ k.requests \in Nat /\ MaxRequests \in Nat
  BY BudgetsAssumption DEF Searching, SearchLocals
<1>2. \A s \in k.searches \ k.todo :
         \/ Searched(k, s) \/ s \in k.failures
         \/ k.requests >= MaxRequests \/ k.papers >= MaxPapers
  BY <1>1 DEF Searching, Searched
<1>3. k.todo \subseteq k.searches
  BY DEF Searching
<1> QED BY <1>2, <1>3 DEF Searching

(* A call begins with every search to be made.                              *)
LEMMA ExecuteKeeps ==
    ASSUME SearchInv, NEW strategy \in Strategies, Execute(strategy)
    PROVE  SearchInv'
<1>1. /\ stored' = stored /\ prov' = prov /\ at' = "search"
      /\ call' = [strategy |-> strategy, todo |-> SearchesOf(strategy),
                  searches |-> SearchesOf(strategy),
                  requests |-> 0, sent |-> 0, attempted |-> 0, succeeded |-> 0, failed |-> 0,
                  papers |-> 0, kept |-> {}, records |-> {}, failures |-> {}, fetched |-> 0,
                  page |-> 0, hits |-> 0, snapshot |-> 0, page_papers |-> {},
                  identities |-> 0, unread |-> {}, flagged |-> FALSE]
  BY DEF Execute, Call, NoToken
<1>2. SearchesOf(strategy) \in SUBSET Searches
  BY DEF SearchesOf, Searches
<1>3. call' \in SearchLocals
  <2> PICK searches \in SUBSET Searches : searches = SearchesOf(strategy)
    BY <1>2
  <2> QED BY <1>1 DEF SearchLocals
<1>4. IsFiniteSet({}) /\ Cardinality({}) = 0
  BY FS_EmptySet
<1>5. /\ call'.strategy = strategy /\ call'.todo = SearchesOf(strategy)
      /\ call'.searches = SearchesOf(strategy) /\ call'.requests = 0 /\ call'.sent = 0
      /\ call'.attempted = 0 /\ call'.succeeded = 0 /\ call'.failed = 0 /\ call'.papers = 0
      /\ call'.kept = {} /\ call'.records = {}
  BY <1>1
<1>6. Searching(call')
  BY <1>3, <1>4, <1>5, BudgetsAssumption DEF Searching
<1>7. Searching(call)'
  BY <1>1, <1>6, QuietSearch, SearchKept
<1>8. Balanced(call)'
  BY <1>5 DEF Balanced
<1> QED BY <1>1, <1>7, <1>8, QuietSearch DEF SearchInv, RequestSound, PapersSound

(* A call that ends.                                                        *)
LEMMA SearchEnds ==
    ASSUME SearchInv, stored' = stored, prov' = prov, at' = "idle"
    PROVE  SearchInv'
BY QuietSearch DEF SearchInv, RequestSound, PapersSound

(* A call that goes back to its searches, without a record more.            *)
LEMMA BackToSearches ==
    ASSUME SearchInv, stored' = stored, prov' = prov, at' = "search",
           Searching(call'), Balanced(call')
    PROVE  SearchInv'
<1>1. Kept /\ StoredSound' /\ SearchesSound'
  BY QuietSearch
<1>2. Searching(call)' /\ Balanced(call)'
  BY <1>1, SearchKept DEF Balanced
<1> QED BY <1>1, <1>2 DEF SearchInv, RequestSound, PapersSound

(* The searches that a budget, or an unreadable query, leaves out.          *)
LEMMA LeftOutKeeps ==
    ASSUME SearchInv, StopSearching \/ QueryUnreadable
    PROVE  SearchInv'
<1>1. /\ at = "search" /\ call.todo # {} /\ at' = "search" /\ stored' = stored /\ prov' = prov
  BY DEF StopSearching, QueryUnreadable, Goto
<1>2. Searching(call) /\ Balanced(call) /\ call \in SearchLocals
  BY <1>1 DEF SearchInv, Searching
<1>3. ThisSearch \in Searches
  BY <1>1, <1>2, NextSearch
<1>4. PICK todo \in SUBSET Searches, failures \in SUBSET Searches :
         /\ call' = [call EXCEPT !.todo = todo, !.failures = failures]
         /\ todo \subseteq call.todo /\ call.failures \subseteq failures
         /\ \A s \in call.todo \ todo :
               s \in failures \/ call.requests >= MaxRequests \/ call.papers >= MaxPapers
  <2>1. call.todo \in SUBSET Searches /\ call.failures \in SUBSET Searches
    BY <1>2 DEF SearchLocals
  <2>2. CASE StopSearching
    <3>1. CASE RequestsUsedUp /\ call' = [call EXCEPT !.todo = {}, !.failures = @ \cup {ThisSearch}]
      <4> PICK failures : failures = call.failures \cup {ThisSearch}
        OBVIOUS
      <4>1. failures \in SUBSET Searches /\ {} \in SUBSET Searches
        BY <1>3, <2>1
      <4>2. call' = [call EXCEPT !.todo = {}, !.failures = failures]
        BY <1>2, <3>1 DEF SearchLocals
      <4>3. call.requests >= MaxRequests
        BY <3>1 DEF RequestsUsedUp
      <4>4. {} \subseteq call.todo /\ call.failures \subseteq failures
        OBVIOUS
      <4> QED BY <4>1, <4>2, <4>3, <4>4
    <3>2. CASE (RequestsUsedUp \/ PapersUsedUp) /\ call' = [call EXCEPT !.todo = {}]
      <4>1. call' = [call EXCEPT !.todo = {}, !.failures = call.failures]
        BY <1>2, <3>2 DEF SearchLocals
      <4> QED BY <2>1, <3>2, <4>1 DEF RequestsUsedUp, PapersUsedUp
    <3> QED BY <2>2, <3>1, <3>2 DEF StopSearching
  <2>3. CASE QueryUnreadable
    <3> PICK ofQuery : ofQuery = {s \in call.todo : s[1] = ThisSearch[1]}
      OBVIOUS
    <3>1. call' = [call EXCEPT !.failures = @ \cup ofQuery, !.todo = @ \ ofQuery]
      BY <2>3 DEF QueryUnreadable
    <3>2. call' = [call EXCEPT !.todo = call.todo \ ofQuery, !.failures = call.failures \cup ofQuery]
      BY <1>2, <3>1 DEF SearchLocals
    <3> PICK todo, failures : todo = call.todo \ ofQuery /\ failures = call.failures \cup ofQuery
      OBVIOUS
    <3>3. ofQuery \subseteq call.todo
      OBVIOUS
    <3>4. todo \in SUBSET Searches /\ failures \in SUBSET Searches
      BY <2>1, <3>3
    <3>5. /\ todo \subseteq call.todo /\ call.failures \subseteq failures
          /\ \A s \in call.todo \ todo : s \in failures
      OBVIOUS
    <3>6. call' = [call EXCEPT !.todo = todo, !.failures = failures]
      BY <3>2
    <3> QED BY <3>4, <3>5, <3>6
  <2> QED BY <2>2, <2>3
<1>5. /\ call' \in SearchLocals /\ call'.strategy = call.strategy /\ call'.searches = call.searches
      /\ call'.todo = todo /\ call'.failures = failures /\ call'.sent = call.sent
      /\ call'.requests = call.requests /\ call'.papers = call.papers /\ call'.kept = call.kept
      /\ call'.records = call.records /\ call'.succeeded = call.succeeded
      /\ call'.attempted = call.attempted /\ call'.failed = call.failed
  BY <1>2, <1>4 DEF SearchLocals
<1>6. call.sent <= call.requests /\ call.requests <= MaxRequests /\ call.requests \in Nat
  BY <1>2 DEF Searching, SearchLocals
<1>7. Searching(call')
  <2>1. \A s \in call.todo \ call'.todo :
           s \in call'.failures \/ call'.requests >= MaxRequests \/ call'.papers >= MaxPapers
    BY <1>4, <1>5
  <2>2. /\ call'.todo \subseteq call.todo /\ call.failures \subseteq call'.failures
        /\ call'.sent <= call'.requests /\ call'.requests <= MaxRequests
        /\ call.requests <= call'.requests
    BY <1>4, <1>5, <1>6
  <2> QED BY <1>2, <1>5, <2>1, <2>2, SearchGoesOn
<1>8. Balanced(call')
  BY <1>2, <1>5 DEF Balanced
<1> QED BY <1>1, <1>7, <1>8, BackToSearches

(* A request is counted, and goes on to its page or fails.                  *)
LEMMA BeginSearchKeeps ==
    ASSUME SearchInv, BeginSearch
    PROVE  SearchInv'
<1> DEFINE counted == [call EXCEPT !.attempted = @ + 1, !.requests = @ + 1,
                                   !.fetched = 0, !.page = NoToken]
<1>1. /\ at = "search" /\ call.todo # {} /\ stored' = stored /\ prov' = prov
      /\ ~ (call.requests >= MaxRequests) /\ ~ (call.papers >= MaxPapers)
      /\ \/ call' = counted /\ at' = "page"
         \/ /\ call' = [counted EXCEPT !.failed = @ + 1, !.failures = @ \cup {ThisSearch},
                                       !.todo = @ \ {ThisSearch}]
            /\ at' = "search"
  BY DEF BeginSearch, Goto, RequestsUsedUp, PapersUsedUp
<1>2. Searching(call) /\ Balanced(call) /\ call \in SearchLocals
  BY <1>1 DEF SearchInv, Searching
<1>3. ThisSearch \in Searches
  BY <1>1, <1>2, NextSearch
<1>4. /\ call.requests \in Nat /\ call.sent \in Nat /\ call.attempted \in Nat /\ call.papers \in Nat
      /\ call.succeeded \in Nat /\ call.failed \in Nat
      /\ MaxRequests \in Nat /\ MaxPapers \in Nat
      /\ call.sent <= call.requests /\ call.attempted = call.succeeded + call.failed
  BY <1>1, <1>2, BudgetsAssumption DEF Searching, Balanced, SearchLocals
<1>5. /\ counted \in SearchLocals /\ counted.strategy = call.strategy
      /\ counted.searches = call.searches /\ counted.todo = call.todo
      /\ counted.failures = call.failures /\ counted.sent = call.sent
      /\ counted.requests = call.requests + 1 /\ counted.papers = call.papers
      /\ counted.kept = call.kept /\ counted.records = call.records
      /\ counted.succeeded = call.succeeded /\ counted.failed = call.failed
      /\ counted.attempted = call.attempted + 1 /\ counted.fetched = 0 /\ counted.page = NoToken
  <2> PICK m \in Nat, n \in Nat : m = call.attempted + 1 /\ n = call.requests + 1
    <3>1. call.attempted + 1 \in Nat /\ call.requests + 1 \in Nat
      BY <1>4
    <3> QED BY <3>1
  <2>1. counted = [call EXCEPT !.attempted = m, !.requests = n, !.fetched = 0, !.page = NoToken]
    OBVIOUS
  <2> QED BY <1>2, <2>1 DEF SearchLocals, NoToken
<1> HIDE DEF counted
<1>6. CASE call' = counted /\ at' = "page"
  <2>1. Searching(call')
    BY <1>1, <1>2, <1>4, <1>5, <1>6, SearchGoesOn
  <2>2. Kept /\ StoredSound' /\ SearchesSound' /\ Searching(call)'
    BY <1>1, <2>1, QuietSearch, SearchKept
  <2>3. RequestSound'
    BY <1>1, <1>4, <1>5, <1>6 DEF RequestSound
  <2> QED BY <1>6, <2>2, <2>3 DEF SearchInv, PapersSound
<1>7. CASE /\ call' = [counted EXCEPT !.failed = @ + 1, !.failures = @ \cup {ThisSearch},
                                      !.todo = @ \ {ThisSearch}]
           /\ at' = "search"
  <2>1. PICK todo \in SUBSET Searches, failures \in SUBSET Searches, n \in Nat :
           /\ todo = counted.todo \ {ThisSearch} /\ failures = counted.failures \cup {ThisSearch}
           /\ n = counted.failed + 1
    <3>1. /\ counted.todo \in SUBSET Searches /\ counted.failures \in SUBSET Searches
          /\ counted.failed \in Nat
      BY <1>5 DEF SearchLocals
    <3>2. /\ counted.todo \ {ThisSearch} \in SUBSET Searches
          /\ counted.failures \cup {ThisSearch} \in SUBSET Searches
      BY <1>3, <3>1
    <3>3. counted.failed + 1 \in Nat
      BY <3>1
    <3> QED BY <3>2, <3>3
  <2>2. call' = [counted EXCEPT !.failed = n, !.failures = failures, !.todo = todo]
    BY <1>5, <1>7, <2>1 DEF SearchLocals
  <2>3. /\ call' \in SearchLocals /\ call'.strategy = call.strategy
        /\ call'.searches = call.searches /\ call'.todo = call.todo \ {ThisSearch}
        /\ call'.failures = call.failures \cup {ThisSearch} /\ call'.sent = call.sent
        /\ call'.requests = call.requests + 1 /\ call'.papers = call.papers
        /\ call'.kept = call.kept /\ call'.records = call.records
        /\ call'.succeeded = call.succeeded /\ call'.failed = call.failed + 1
        /\ call'.attempted = call.attempted + 1
    <3>1. counted \in SearchLocals
      BY <1>5
    <3>2. /\ call' \in SearchLocals /\ call'.strategy = counted.strategy
          /\ call'.searches = counted.searches /\ call'.todo = todo
          /\ call'.failures = failures /\ call'.sent = counted.sent
          /\ call'.requests = counted.requests /\ call'.papers = counted.papers
          /\ call'.kept = counted.kept /\ call'.records = counted.records
          /\ call'.succeeded = counted.succeeded /\ call'.failed = n
          /\ call'.attempted = counted.attempted
      BY ONLY <3>1, <2>2, todo \in SUBSET Searches, failures \in SUBSET Searches, n \in Nat
         DEF SearchLocals
    <3> QED BY <1>5, <2>1, <3>2
  <2>4. Searching(call')
    BY <1>1, <1>2, <1>4, <2>3, SearchGoesOn
  <2>5. Balanced(call')
    BY <1>4, <2>3 DEF Balanced
  <2> QED BY <1>1, <1>7, <2>4, <2>5, BackToSearches
<1> QED BY <1>1, <1>6, <1>7 DEF counted

(* A search that is given up is a failure.                                  *)
LEMMA GivenUp ==
    ASSUME SearchInv, at # "idle", call.todo # {}, stored' = stored, prov' = prov, at' = "search",
           NEW sent \in Nat, NEW failed \in Nat, sent <= call.requests,
           NEW k, k = [call EXCEPT !.sent = sent, !.failed = failed],
           call' = [k EXCEPT !.failures = @ \cup {ThisSearch}, !.todo = @ \ {ThisSearch}],
           \/ call.attempted = call.succeeded + failed
           \/ call.attempted = call.succeeded + failed + 1 /\ call.requests >= MaxRequests
    PROVE  SearchInv'
<1>1. Searching(call) /\ call \in SearchLocals
  BY DEF SearchInv, Searching
<1>2. ThisSearch \in Searches
  BY <1>1, NextSearch
<1>3. k \in SearchLocals
  BY <1>1 DEF SearchLocals
<1>4. /\ k.strategy = call.strategy /\ k.searches = call.searches /\ k.todo = call.todo
      /\ k.failures = call.failures /\ k.sent = sent /\ k.requests = call.requests
      /\ k.papers = call.papers /\ k.kept = call.kept /\ k.records = call.records
      /\ k.succeeded = call.succeeded /\ k.failed = failed /\ k.attempted = call.attempted
  BY <1>1 DEF SearchLocals
<1>5. PICK todo \in SUBSET Searches, failures \in SUBSET Searches :
         todo = k.todo \ {ThisSearch} /\ failures = k.failures \cup {ThisSearch}
  <2>1. k.todo \in SUBSET Searches /\ k.failures \in SUBSET Searches
    BY <1>3 DEF SearchLocals
  <2>2. k.todo \ {ThisSearch} \in SUBSET Searches /\ k.failures \cup {ThisSearch} \in SUBSET Searches
    BY <1>2, <2>1
  <2> QED BY <2>2
<1>6. call' = [k EXCEPT !.failures = failures, !.todo = todo]
  BY <1>3, <1>5 DEF SearchLocals
<1>7. /\ call' \in SearchLocals /\ call'.strategy = k.strategy /\ call'.searches = k.searches
      /\ call'.todo = todo /\ call'.failures = failures /\ call'.sent = k.sent
      /\ call'.requests = k.requests /\ call'.papers = k.papers /\ call'.kept = k.kept
      /\ call'.records = k.records /\ call'.succeeded = k.succeeded
      /\ call'.failed = k.failed /\ call'.attempted = k.attempted
  BY ONLY <1>3, <1>6, todo \in SUBSET Searches, failures \in SUBSET Searches DEF SearchLocals
<1>8. call.requests \in Nat /\ call.requests <= MaxRequests
  BY <1>1 DEF Searching, SearchLocals
<1>9. Searching(call')
  <2>1. \A s \in call.todo \ call'.todo : s \in call'.failures
    BY <1>4, <1>5, <1>7
  <2>2. /\ call'.todo \subseteq call.todo /\ call.failures \subseteq call'.failures
        /\ call'.sent <= call'.requests /\ call'.requests <= MaxRequests
        /\ call.requests <= call'.requests
    BY <1>4, <1>5, <1>7, <1>8
  <2> QED BY <1>1, <1>4, <1>7, <2>1, <2>2, SearchGoesOn
<1>10. Balanced(call')
  BY <1>4, <1>7 DEF Balanced
<1>11. SearchInv /\ stored' = stored /\ prov' = prov /\ at' = "search"
  OBVIOUS
<1> QED BY ONLY <1>9, <1>10, <1>11, BackToSearches

(* Before its page, a search ends only for want of requests.                *)
LEMMA EndSearchKeeps ==
    ASSUME SearchInv, EndSearch
    PROVE  SearchInv'
<1>1. /\ at = "page" /\ at' = "search" /\ stored' = stored /\ prov' = prov
      /\ call.requests >= MaxRequests \/ call.papers >= MaxPapers \/ call.fetched >= MaxPages
      /\ call' = [call EXCEPT !.todo = @ \ {ThisSearch},
                              !.failures = IF call.requests >= MaxRequests THEN @ \cup {ThisSearch} ELSE @]
  BY DEF EndSearch, Goto, RequestsUsedUp, PapersUsedUp
<1>2. /\ Searching(call) /\ call \in SearchLocals /\ call.todo # {} /\ call.fetched = 0
      /\ call.papers < MaxPapers /\ call.attempted = call.succeeded + call.failed + 1
      /\ call.sent <= call.requests
  BY <1>1 DEF SearchInv, Searching, RequestSound
<1>3. call.papers \in Nat /\ call.sent \in Nat /\ call.failed \in Nat
  BY <1>2 DEF SearchLocals
<1>4. call.requests >= MaxRequests
  BY <1>1, <1>2, <1>3, BudgetsAssumption
<1>5. call' = [call EXCEPT !.failures = @ \cup {ThisSearch}, !.todo = @ \ {ThisSearch}]
  BY <1>1, <1>2, <1>4 DEF SearchLocals
<1>6. PICK sent, failed, k :
         /\ sent \in Nat /\ failed \in Nat
         /\ sent = call.sent /\ failed = call.failed /\ k = call
         /\ k = [call EXCEPT !.sent = sent, !.failed = failed]
  <2>1. call = [call EXCEPT !.sent = call.sent, !.failed = call.failed]
    BY <1>2 DEF SearchLocals
  <2> QED BY <1>3, <2>1
<1>7. call' = [k EXCEPT !.failures = @ \cup {ThisSearch}, !.todo = @ \ {ThisSearch}]
  BY <1>5, <1>6
<1>8. call.attempted = call.succeeded + failed + 1 /\ call.requests >= MaxRequests
      /\ sent <= call.requests
  BY <1>2, <1>4, <1>6
<1>9. /\ SearchInv /\ at # "idle" /\ call.todo # {} /\ stored' = stored /\ prov' = prov
      /\ at' = "search" /\ k = [call EXCEPT !.sent = sent, !.failed = failed]
  BY <1>1, <1>2, <1>6
<1>10. sent \in Nat /\ failed \in Nat
  BY <1>6
<1> QED BY ONLY <1>7, <1>8, <1>9, <1>10, GivenUp

(* What is stored of a page when its ingestion fails is left.               *)
LEMMA IngestFailsKeeps ==
    ASSUME SearchInv, IngestFails
    PROVE  SearchInv'
<1>1. /\ at \in {"hit", "paper", "link"} /\ at' = "search" /\ stored' = stored /\ prov' = prov
      /\ call' = [call EXCEPT !.failed = @ + 1, !.failures = @ \cup {ThisSearch}, !.todo = @ \ {ThisSearch}]
  BY DEF IngestFails, Goto
<1>2. /\ Searching(call) /\ call \in SearchLocals /\ call.todo # {}
      /\ call.attempted = call.succeeded + call.failed + 1 /\ call.sent <= call.requests
  BY <1>1 DEF SearchInv, Searching, RequestSound
<1>3. /\ call.sent \in Nat /\ call.failed \in Nat /\ call.succeeded \in Nat
      /\ call.failed + 1 \in Nat
  BY <1>2 DEF SearchLocals
<1> PICK failed \in Nat, sent \in Nat : failed = call.failed + 1 /\ sent = call.sent
  BY <1>3
<1>4. PICK k : k = [call EXCEPT !.sent = sent, !.failed = failed]
  OBVIOUS
<1>5. call' = [k EXCEPT !.failures = @ \cup {ThisSearch}, !.todo = @ \ {ThisSearch}]
  BY <1>1, <1>2, <1>4 DEF SearchLocals
<1>6. call.attempted = call.succeeded + failed /\ sent <= call.requests
  BY <1>2, <1>3
<1>7. /\ SearchInv /\ at # "idle" /\ call.todo # {} /\ stored' = stored /\ prov' = prov
      /\ at' = "search" /\ k = [call EXCEPT !.sent = sent, !.failed = failed]
  BY <1>1, <1>2, <1>4
<1> QED BY ONLY <1>5, <1>6, <1>7, sent \in Nat, failed \in Nat, GivenUp

(* The request is sent, for the first page of its source.                   *)
LEMMA FetchKeeps ==
    ASSUME SearchInv, Fetch
    PROVE  SearchInv'
<1> DEFINE more == IF call.fetched > 0 THEN 1 ELSE 0
           page == IF call.page = NoToken THEN 1 ELSE call.page
           sent == [call EXCEPT !.attempted = @ + more, !.requests = @ + more, !.sent = @ + 1,
                                !.page = page, !.page_papers = {}]
<1>1. /\ at = "page" /\ stored' = stored /\ prov' = prov
      /\ \/ call' = [sent EXCEPT !.hits = Pages[Source][page]] /\ at' = "hit"
         \/ /\ call' = [sent EXCEPT !.failed = @ + 1, !.failures = @ \cup {ThisSearch},
                                    !.todo = @ \ {ThisSearch}]
            /\ at' = "search"
  BY DEF Fetch, Goto
<1>2. /\ Searching(call) /\ call \in SearchLocals /\ call.todo # {} /\ call.fetched = 0
      /\ call.papers < MaxPapers /\ call.attempted = call.succeeded + call.failed + 1
      /\ call.sent < call.requests /\ call.page = NoToken
  BY <1>1 DEF SearchInv, Searching, RequestSound
<1>3. /\ call.sent \in Nat /\ call.failed \in Nat /\ call.requests \in Nat /\ call.attempted \in Nat
      /\ call.succeeded \in Nat /\ call.requests <= MaxRequests
  BY <1>2 DEF SearchLocals, Searching
<1>4. ThisSearch \in Searches /\ Pages[Source][1] \in Nat
  BY <1>2, NextSearch
<1>5. more = 0 /\ page = 1
  BY <1>2
<1> PICK n \in Nat : n = call.sent + 1
  <2>1. call.sent + 1 \in Nat
    BY <1>3
  <2> QED BY <2>1
<1>6. PICK k : k = [call EXCEPT !.sent = n, !.page = 1, !.page_papers = {}]
  OBVIOUS
<1>7. k = sent
  <2>1. call.attempted + more = call.attempted /\ call.requests + more = call.requests
    BY <1>3, <1>5
  <2> HIDE DEF more, page
  <2> QED BY <1>2, <1>5, <1>6, <2>1 DEF SearchLocals
<1>8. /\ k \in SearchLocals /\ k.strategy = call.strategy /\ k.searches = call.searches
      /\ k.todo = call.todo /\ k.failures = call.failures /\ k.sent = n
      /\ k.requests = call.requests /\ k.papers = call.papers /\ k.kept = call.kept
      /\ k.records = call.records /\ k.succeeded = call.succeeded /\ k.failed = call.failed
      /\ k.attempted = call.attempted /\ k.fetched = call.fetched /\ k.page_papers = {}
  BY <1>2, <1>6 DEF SearchLocals
<1>9. n <= call.requests
  BY <1>2, <1>3
<1>10. CASE call' = [sent EXCEPT !.hits = Pages[Source][page]] /\ at' = "hit"
  <2>1. call' = [k EXCEPT !.hits = Pages[Source][1]] /\ at' = "hit"
    BY <1>5, <1>7, <1>10
  <2>2. /\ call' \in SearchLocals /\ call'.strategy = k.strategy /\ call'.searches = k.searches
        /\ call'.todo = k.todo /\ call'.failures = k.failures /\ call'.sent = k.sent
        /\ call'.requests = k.requests /\ call'.papers = k.papers /\ call'.kept = k.kept
        /\ call'.records = k.records /\ call'.succeeded = k.succeeded /\ call'.failed = k.failed
        /\ call'.attempted = k.attempted /\ call'.fetched = k.fetched
        /\ call'.page_papers = k.page_papers
    <3> PICK hits \in Nat : hits = Pages[Source][1]
      BY <1>4
    <3> QED BY <1>8, <2>1 DEF SearchLocals
  <2> HIDE DEF sent, more, page
  <2>3. Searching(call')
    <3>1. /\ call'.todo \subseteq call.todo /\ call.failures \subseteq call'.failures
          /\ call'.sent <= call'.requests /\ call'.requests <= MaxRequests
          /\ call.requests <= call'.requests /\ call.todo \ call'.todo = {}
      BY <1>3, <1>8, <1>9, <2>2
    <3> QED BY <1>2, <1>8, <2>2, <3>1, SearchGoesOn
  <2>4. Kept /\ StoredSound' /\ SearchesSound' /\ Searching(call)'
    BY <1>1, <2>3, QuietSearch, SearchKept
  <2>5. RequestSound' /\ PapersSound'
    BY <1>2, <1>8, <2>1, <2>2 DEF RequestSound, PapersSound
  <2> QED BY <2>1, <2>4, <2>5 DEF SearchInv
<1>11. CASE /\ call' = [sent EXCEPT !.failed = @ + 1, !.failures = @ \cup {ThisSearch},
                                    !.todo = @ \ {ThisSearch}]
            /\ at' = "search"
  <2> PICK failed \in Nat : failed = call.failed + 1
    <3>1. call.failed + 1 \in Nat
      BY <1>3
    <3> QED BY <3>1
  <2>1. PICK todo \in SUBSET Searches, failures \in SUBSET Searches :
           todo = k.todo \ {ThisSearch} /\ failures = k.failures \cup {ThisSearch}
    <3>1. k.todo \in SUBSET Searches /\ k.failures \in SUBSET Searches
      BY <1>8 DEF SearchLocals
    <3>2. k.todo \ {ThisSearch} \in SUBSET Searches /\ k.failures \cup {ThisSearch} \in SUBSET Searches
      BY <1>4, <3>1
    <3> QED BY <3>2
  <2>2. call' = [k EXCEPT !.failed = failed, !.failures = failures, !.todo = todo]
    <3> HIDE DEF sent, more, page
    <3> QED BY <1>7, <1>8, <1>11, <2>1 DEF SearchLocals
  <2> HIDE DEF sent, more, page
  <2>3. /\ call' \in SearchLocals /\ call'.strategy = k.strategy /\ call'.searches = k.searches
        /\ call'.todo = todo /\ call'.failures = failures /\ call'.sent = k.sent
        /\ call'.requests = k.requests /\ call'.papers = k.papers /\ call'.kept = k.kept
        /\ call'.records = k.records /\ call'.succeeded = k.succeeded /\ call'.failed = failed
        /\ call'.attempted = k.attempted
    BY <1>8, <2>2 DEF SearchLocals
  <2>4. Searching(call')
    <3>1. /\ call'.todo \subseteq call.todo /\ call.failures \subseteq call'.failures
          /\ call'.sent <= call'.requests /\ call'.requests <= MaxRequests
          /\ call.requests <= call'.requests
          /\ \A s \in call.todo \ call'.todo : s \in call'.failures
      BY <1>3, <1>8, <1>9, <2>1, <2>3
    <3> QED BY <1>2, <1>8, <2>3, <3>1, SearchGoesOn
  <2>5. Balanced(call')
    BY <1>2, <1>3, <1>8, <2>3 DEF Balanced
  <2> QED BY <1>1, <1>11, <2>4, <2>5, BackToSearches
<1> QED BY <1>1, <1>10, <1>11 DEF sent

(* A call that only moves on within a page.                                 *)
LEMMA SameSearch ==
    ASSUME Searching(call), NEW k \in SearchLocals, k.strategy = call.strategy,
           k.searches = call.searches, k.todo = call.todo, k.sent = call.sent,
           k.requests = call.requests, k.papers = call.papers, k.kept = call.kept,
           k.records = call.records, k.succeeded = call.succeeded, k.failures = call.failures
    PROVE  Searching(k)
<1>1. call.requests \in Nat
  BY DEF Searching, SearchLocals
<1>2. /\ k.todo \subseteq call.todo /\ k.sent <= k.requests /\ k.requests <= MaxRequests
      /\ call.requests <= k.requests /\ call.todo \ k.todo = {} /\ call.failures \subseteq k.failures
  BY <1>1 DEF Searching
<1> QED BY <1>2, SearchGoesOn

(* A snapshot is put for the next hit.                                      *)
LEMMA PutSnapshotKeeps ==
    ASSUME SearchInv, PutSnapshot
    PROVE  SearchInv'
<1> DEFINE a == [kind |-> "snapshot"]
<1>1. /\ at = "hit" /\ at' = "paper" /\ call.hits > 0 /\ Put(a) /\ a.kind = "snapshot" /\ prov' = prov
      /\ call' = [call EXCEPT !.snapshot = Latest + 1]
  BY DEF PutSnapshot, Goto, Latest
<1>2. /\ Searching(call) /\ call \in SearchLocals /\ RequestSound /\ PapersSound /\ StoredSound
  BY <1>1 DEF SearchInv, Searching
<1> PICK new : new = Latest + 1
  OBVIOUS
<1>3. /\ Kept /\ StoredSound' /\ Stored = 1 .. Latest /\ Latest \in Nat
      /\ Stored' = Stored \cup {new} /\ Latest' = new
      /\ OfKind("snapshot")' = OfKind("snapshot") \cup {new} /\ SearchesSound'
  BY <1>1, PutSearch
<1>4. /\ call' \in SearchLocals /\ call'.strategy = call.strategy /\ call'.searches = call.searches
      /\ call'.todo = call.todo /\ call'.failures = call.failures /\ call'.sent = call.sent
      /\ call'.requests = call.requests /\ call'.papers = call.papers /\ call'.kept = call.kept
      /\ call'.records = call.records /\ call'.succeeded = call.succeeded
      /\ call'.failed = call.failed /\ call'.attempted = call.attempted
      /\ call'.fetched = call.fetched /\ call'.page_papers = call.page_papers
      /\ call'.snapshot = new /\ call'.hits = call.hits
  <2>1. new \in Nat
    BY <1>3
  <2> QED BY <1>1, <1>2, <2>1 DEF SearchLocals
<1>5. Searching(call')
  BY <1>2, <1>4, SameSearch
<1>6. Searching(call)'
  BY <1>1, <1>3, <1>5, SearchKept
<1>7. RequestSound'
  BY <1>1, <1>2, <1>4 DEF RequestSound
<1>8. PapersSound'
  <2>1. \A p \in call.page_papers : Traced(p)'
    BY <1>1, <1>2, <1>3, SearchKept DEF PapersSound
  <2> QED BY <1>1, <1>2, <1>3, <1>4, <2>1 DEF PapersSound
<1> QED BY <1>1, <1>3, <1>6, <1>7, <1>8 DEF SearchInv

(* Its paper is put; it is the last until it is linked.                     *)
LEMMA PutPaperKeeps ==
    ASSUME SearchInv, PutPaper
    PROVE  SearchInv'
<1> DEFINE a == [kind |-> "paper"]
<1>1. /\ at = "paper" /\ at' = "link" /\ Put(a) /\ a.kind = "paper" /\ prov' = prov
      /\ call' = [call EXCEPT !.hits = @ - 1, !.page_papers = @ \cup {Latest + 1}]
  BY DEF PutPaper, Goto, Latest
<1>2. /\ Searching(call) /\ call \in SearchLocals /\ RequestSound /\ PapersSound /\ StoredSound
      /\ call.hits > 0 /\ call.page_papers \subseteq Stored
  BY <1>1 DEF SearchInv, Searching, PapersSound
<1> PICK new : new = Latest + 1
  OBVIOUS
<1>3. /\ Kept /\ StoredSound' /\ Stored = 1 .. Latest /\ Latest \in Nat
      /\ Stored' = Stored \cup {new} /\ Latest' = new /\ SearchesSound'
  BY <1>1, PutSearch
<1>4. /\ call' \in SearchLocals /\ call'.strategy = call.strategy /\ call'.searches = call.searches
      /\ call'.todo = call.todo /\ call'.failures = call.failures /\ call'.sent = call.sent
      /\ call'.requests = call.requests /\ call'.papers = call.papers /\ call'.kept = call.kept
      /\ call'.records = call.records /\ call'.succeeded = call.succeeded
      /\ call'.failed = call.failed /\ call'.attempted = call.attempted
      /\ call'.fetched = call.fetched /\ call'.page_papers = call.page_papers \cup {new}
      /\ call'.snapshot = call.snapshot
  <2> PICK hits \in Nat, papers \in SUBSET Nat :
        hits = call.hits - 1 /\ papers = call.page_papers \cup {new}
    <3>1. call.hits \in Nat /\ call.page_papers \in SUBSET Nat /\ new \in Nat
      BY <1>2, <1>3 DEF SearchLocals
    <3>2. call.hits - 1 \in Nat /\ call.page_papers \cup {new} \in SUBSET Nat
      BY <1>2, <3>1
    <3> QED BY <3>2
  <2>1. call' = [call EXCEPT !.hits = hits, !.page_papers = papers]
    BY <1>1, <1>2 DEF SearchLocals
  <2> QED BY <1>2, <2>1 DEF SearchLocals
<1>5. Searching(call')
  BY <1>2, <1>4, SameSearch
<1>6. Searching(call)'
  BY <1>1, <1>3, <1>5, SearchKept
<1>7. RequestSound'
  BY <1>1, <1>2, <1>4 DEF RequestSound
<1>8. PapersSound'
  <2>1. \A p \in call.page_papers : Traced(p)'
    BY <1>1, <1>2, <1>3, SearchKept DEF PapersSound
  <2>2. call.snapshot \in OfKind("snapshot")'
    BY <1>1, <1>2, <1>3, SearchKept DEF PapersSound
  <2> QED BY <1>1, <1>2, <1>3, <1>4, <2>1, <2>2 DEF PapersSound
<1> QED BY <1>1, <1>3, <1>6, <1>7, <1>8 DEF SearchInv

(* The link leads the paper back to its snapshot.                           *)
LEMMA LinkPaperKeeps ==
    ASSUME SearchInv, LinkPaper
    PROVE  SearchInv'
<1>1. /\ at = "link" /\ at' = "hit" /\ stored' = stored /\ call' = call
      /\ prov' = prov \cup {<<call.snapshot, Latest, "generated_from">>}
  BY DEF LinkPaper, Goto
<1>2. /\ Searching(call) /\ RequestSound /\ PapersSound
  BY <1>1 DEF SearchInv
<1>3. /\ Kept /\ StoredSound' /\ SearchesSound' /\ Stored' = Stored /\ prov \subseteq prov'
      /\ \A kind : OfKind(kind)' = OfKind(kind)
  BY <1>1, QuietSearch
<1>4. Searching(call)'
  BY <1>1, <1>2, <1>3, SearchKept
<1>5. \A p \in call.page_papers : Traced(p)'
  <2> TAKE p \in call.page_papers
  <2>1. CASE Traced(p)
    BY <1>3, <2>1, SearchKept
  <2>2. CASE p = Latest
    <3>1. call.snapshot \in OfKind("snapshot")'
      BY <1>1, <1>2, <1>3 DEF PapersSound
    <3>2. <<call.snapshot, p, "generated_from">> \in prov'
      BY <1>1, <2>2
    <3> QED BY <3>1, <3>2 DEF Traced
  <2> QED BY <1>1, <1>2, <2>1, <2>2 DEF PapersSound
<1>6. RequestSound' /\ PapersSound'
  BY <1>1, <1>2, <1>3, <1>5 DEF RequestSound, PapersSound
<1> QED BY <1>1, <1>3, <1>4, <1>6 DEF SearchInv

(* A page that is through: its record, and its papers within the budget.    *)
LEMMA PutRecordKeeps ==
    ASSUME SearchInv, PutRecord
    PROVE  SearchInv'
<1> DEFINE a == [kind |-> "record", search |-> ThisSearch, page |-> call.page,
                 papers |-> call.page_papers]
<1>1. /\ at = "hit" /\ at' = "search" /\ Put(a) /\ a.kind = "record" /\ prov' = prov
      /\ a.search = ThisSearch /\ a.papers = call.page_papers
  BY DEF PutRecord, Goto, NextToken
<1>2. /\ Searching(call) /\ call \in SearchLocals /\ call.todo # {} /\ call.papers < MaxPapers
      /\ call.attempted = call.succeeded + call.failed + 1
      /\ call.page_papers \subseteq Stored /\ \A p \in call.page_papers : Traced(p)
  BY <1>1 DEF SearchInv, Searching, RequestSound, PapersSound
<1> PICK new : new = Latest + 1
  OBVIOUS
<1>3. /\ Kept /\ StoredSound' /\ Stored = 1 .. Latest /\ Latest \in Nat
      /\ OfKind("record")' = OfKind("record") \cup {new} /\ SearchesSound'
      /\ stored'[new] = a /\ new \notin Stored
  BY <1>1, PutSearch
<1>4. /\ call.papers \in Nat /\ call.succeeded \in Nat /\ call.failed \in Nat /\ call.fetched \in Nat
      /\ MaxPapers \in Nat /\ new \in Nat
  BY <1>2, <1>3, BudgetsAssumption DEF SearchLocals
<1> PICK kept : kept = Within(call.page_papers)
  OBVIOUS
<1>5. /\ IsFiniteSet(kept) /\ Cardinality(kept) \in Nat
      /\ Cardinality(kept) <= MaxPapers - call.papers /\ kept \subseteq call.page_papers
  <2> PICK left, papers, n :
        left = MaxPapers - call.papers /\ papers = call.page_papers /\ n = Latest
    OBVIOUS
  <2>1. left \in Nat /\ n \in Nat /\ papers \in SUBSET (1 .. n)
    BY <1>2, <1>3, <1>4
  <2>2. kept = {p \in papers : Cardinality({q \in papers : q < p}) < left}
    BY DEF Within
  <2>3. IsFiniteSet(kept) /\ Cardinality(kept) \in Nat /\ Cardinality(kept) <= left
    BY ONLY <2>1, <2>2, WithinBudget
  <2> QED BY <2>2, <2>3
<1>6. PICK counted :
         /\ counted = [call EXCEPT !.records = @ \cup {new}, !.kept = @ \cup kept,
                                   !.papers = @ + Cardinality(kept), !.succeeded = @ + 1,
                                   !.fetched = @ + 1]
         /\ call' = [counted EXCEPT !.todo = @ \ {ThisSearch}]
  BY DEF PutRecord, NextToken, Latest
<1>7. ThisSearch \in Searches
  BY <1>2, NextSearch
<1>8. PICK records \in SUBSET Nat, sum \in SUBSET Nat, papers \in Nat, m \in Nat, n \in Nat :
         /\ records = call.records \cup {new} /\ sum = call.kept \cup kept
         /\ papers = call.papers + Cardinality(kept) /\ m = call.succeeded + 1
         /\ n = call.fetched + 1
  <2>1. call.records \cup {new} \in SUBSET Nat /\ call.kept \cup kept \in SUBSET Nat
    BY <1>2, <1>3, <1>4, <1>5 DEF SearchLocals
  <2>2. /\ call.papers + Cardinality(kept) \in Nat /\ call.succeeded + 1 \in Nat
        /\ call.fetched + 1 \in Nat
    BY <1>4, <1>5
  <2> QED BY <2>1, <2>2
<1>9. /\ counted \in SearchLocals /\ counted.strategy = call.strategy
      /\ counted.searches = call.searches /\ counted.todo = call.todo
      /\ counted.failures = call.failures /\ counted.sent = call.sent
      /\ counted.requests = call.requests /\ counted.papers = papers
      /\ counted.kept = sum /\ counted.records = records /\ counted.succeeded = m
      /\ counted.failed = call.failed /\ counted.attempted = call.attempted
  <2>1. counted = [call EXCEPT !.records = records, !.kept = sum, !.papers = papers,
                               !.succeeded = m, !.fetched = n]
    BY <1>2, <1>6, <1>8 DEF SearchLocals
  <2> QED BY <1>2, <2>1 DEF SearchLocals
<1>10. PICK todo \in SUBSET Searches : todo = call.todo \ {ThisSearch}
  <2>1. call.todo \in SUBSET Searches
    BY <1>2 DEF SearchLocals
  <2>2. call.todo \ {ThisSearch} \in SUBSET Searches
    BY <2>1
  <2> QED BY <2>2
<1>11. /\ call' \in SearchLocals /\ call'.strategy = call.strategy
       /\ call'.searches = call.searches /\ call'.todo = todo
       /\ call'.failures = call.failures /\ call'.sent = call.sent
       /\ call'.requests = call.requests /\ call'.papers = papers
       /\ call'.kept = sum /\ call'.records = records /\ call'.succeeded = m
       /\ call'.failed = call.failed /\ call'.attempted = call.attempted
  <2>1. call' = [counted EXCEPT !.todo = todo]
    BY <1>6, <1>9, <1>10 DEF SearchLocals
  <2> QED BY ONLY <1>9, <2>1, todo \in SUBSET Searches DEF SearchLocals
<1>12. /\ IsFiniteSet(records) /\ m = Cardinality(records)
       /\ records \subseteq OfKind("record")'
  <2>1. /\ IsFiniteSet(call.records) /\ call.succeeded = Cardinality(call.records)
        /\ call.records \subseteq OfKind("record")
    BY <1>2 DEF Searching
  <2>2. new \notin call.records
    BY <1>3, <2>1 DEF OfKind
  <2>3. IsFiniteSet(records) /\ Cardinality(records) = Cardinality(call.records) + 1
    BY <1>8, <2>1, <2>2, FS_AddElement
  <2> QED BY <1>3, <1>8, <2>1, <2>3
<1>13. IsFiniteSet(sum) /\ Cardinality(sum) <= papers /\ papers <= MaxPapers
  <2>1. IsFiniteSet(call.kept) /\ Cardinality(call.kept) <= call.papers
        /\ Cardinality(call.kept) \in Nat
    BY <1>2, FS_CardinalityType DEF Searching
  <2>2. /\ IsFiniteSet(call.kept \cup kept) /\ IsFiniteSet(call.kept \cap kept)
        /\ Cardinality(call.kept \cup kept)
              = Cardinality(call.kept) + Cardinality(kept) - Cardinality(call.kept \cap kept)
    BY <1>5, <2>1, FS_Union, FS_Intersection
  <2>3. Cardinality(call.kept \cap kept) \in Nat
    BY <2>2, FS_CardinalityType
  <2>4. Cardinality(sum) <= Cardinality(call.kept) + Cardinality(kept)
    BY <1>5, <1>8, <2>1, <2>2, <2>3
  <2>5. Cardinality(sum) \in Nat
    BY <1>8, <2>2, FS_CardinalityType
  <2> QED BY <1>4, <1>5, <1>8, <2>1, <2>2, <2>4, <2>5
<1>14. Searching(call)'
  <2>1. \A r \in records : r # new => stored'[r] = stored[r]
    <3>1. \A r \in call.records : r \in Stored
      BY <1>2 DEF Searching, OfKind
    <3> QED BY <1>3, <1>8, <3>1 DEF Kept
  <2>2. stored'[new].search = ThisSearch /\ stored'[new].papers = call.page_papers
    BY <1>1, <1>3
  <2>3. \A p \in sum : Traced(p)' /\ \E r \in records : p \in stored'[r].papers
    <3> TAKE p \in sum
    <3>1. CASE p \in kept
      <4>1. Traced(p)' /\ p \in stored'[new].papers
        BY <1>1, <1>2, <1>3, <1>5, <2>2, <3>1, SearchKept
      <4> QED BY <1>8, <4>1
    <3>2. CASE p \in call.kept
      <4>1. Traced(p) /\ \E r \in call.records : p \in stored[r].papers
        BY <1>2, <3>2 DEF Searching
      <4>2. Traced(p)'
        BY <1>1, <1>3, <4>1, SearchKept
      <4>3. \A r \in call.records : r # new
        BY <1>2, <1>3 DEF Searching, OfKind
      <4> QED BY <1>8, <2>1, <4>1, <4>2, <4>3
    <3> QED BY <1>8, <3>1, <3>2
  <2>4. \A s \in call.searches \ todo :
           \/ \E r \in records : stored'[r].search = s
           \/ s \in call.failures
           \/ call.requests >= MaxRequests \/ papers >= MaxPapers
    <3> TAKE s \in call.searches \ todo
    <3>1. CASE s = ThisSearch
      BY <1>8, <2>2, <3>1
    <3>2. CASE s \in call.searches \ call.todo
      <4>1. \/ \E r \in call.records : stored[r].search = s
            \/ s \in call.failures
            \/ call.requests >= MaxRequests \/ call.papers >= MaxPapers
        BY <1>2, <3>2 DEF Searching, Searched
      <4>2. \A r \in call.records : r # new
        BY <1>2, <1>3 DEF Searching, OfKind
      <4>3. ~ (call.papers >= MaxPapers)
        BY <1>2, <1>4
      <4> QED BY <1>8, <2>1, <4>1, <4>2, <4>3
    <3> QED BY <1>10, <3>1, <3>2
  <2>5. /\ call.searches = SearchesOf(call.strategy) /\ call.todo \subseteq call.searches
        /\ call.sent <= call.requests /\ call.requests <= MaxRequests
    BY <1>2 DEF Searching
  <2>6. todo \subseteq call.searches
    BY <1>10, <2>5
  <2> QED BY <1>11, <1>12, <1>13, <2>3, <2>4, <2>5, <2>6 DEF Searching, Searched
<1>15. Balanced(call)'
  BY <1>2, <1>4, <1>8, <1>11 DEF Balanced
<1> QED BY <1>1, <1>3, <1>14, <1>15 DEF SearchInv, RequestSound, PapersSound

(* The papers that could be read have identities, or are flagged.           *)
LEMMA IdentifyKeeps ==
    ASSUME SearchInv, Identify
    PROVE  SearchInv'
<1>1. /\ at = "search" /\ call.todo = {} /\ at' = "execution" /\ stored' = stored /\ prov' = prov
      /\ \/ \E unread \in SUBSET call.kept :
                call' = [call EXCEPT !.unread = unread,
                                     !.identities = IF unread = call.kept THEN 0 ELSE 1]
         \/ call' = [call EXCEPT !.flagged = TRUE]
  BY DEF Identify, Goto, Flagged
<1>2. Searching(call) /\ Balanced(call) /\ call \in SearchLocals
  BY <1>1 DEF SearchInv, Searching
<1>3. /\ call' \in SearchLocals /\ call'.strategy = call.strategy /\ call'.searches = call.searches
      /\ call'.todo = call.todo /\ call'.failures = call.failures /\ call'.sent = call.sent
      /\ call'.requests = call.requests /\ call'.papers = call.papers /\ call'.kept = call.kept
      /\ call'.records = call.records /\ call'.succeeded = call.succeeded
      /\ call'.failed = call.failed /\ call'.attempted = call.attempted
      /\ call'.unread # call'.kept => call'.identities = 1 \/ call'.flagged = TRUE
  <2>1. CASE \E unread \in SUBSET call.kept :
                call' = [call EXCEPT !.unread = unread,
                                     !.identities = IF unread = call.kept THEN 0 ELSE 1]
    <3> PICK unread \in SUBSET call.kept :
               call' = [call EXCEPT !.unread = unread,
                                    !.identities = IF unread = call.kept THEN 0 ELSE 1]
      BY <2>1
    <3> PICK n \in Nat : n = IF unread = call.kept THEN 0 ELSE 1
      OBVIOUS
    <3>1. call' = [call EXCEPT !.unread = unread, !.identities = n] /\ unread \in SUBSET Nat
      BY <1>2 DEF SearchLocals
    <3>2. call' \in SearchLocals /\ call'.unread = unread /\ call'.identities = n
      BY <1>2, <3>1 DEF SearchLocals
    <3>3. /\ call'.strategy = call.strategy /\ call'.searches = call.searches
          /\ call'.todo = call.todo /\ call'.failures = call.failures /\ call'.sent = call.sent
          /\ call'.requests = call.requests /\ call'.papers = call.papers
      BY <1>2, <3>1 DEF SearchLocals
    <3>4. /\ call'.kept = call.kept /\ call'.records = call.records
          /\ call'.succeeded = call.succeeded /\ call'.failed = call.failed
          /\ call'.attempted = call.attempted
      BY <1>2, <3>1 DEF SearchLocals
    <3>5. unread # call.kept => n = 1
      OBVIOUS
    <3> QED BY ONLY <3>2, <3>3, <3>4, <3>5
  <2>2. CASE call' = [call EXCEPT !.flagged = TRUE]
    BY <1>2, <2>2 DEF SearchLocals
  <2> QED BY <1>1, <2>1, <2>2
<1>4. Searching(call')
  BY <1>2, <1>3, SameSearch
<1>5. Searching(call)'
  BY <1>1, <1>4, QuietSearch, SearchKept
<1>6. Balanced(call)'
  BY <1>2, <1>3 DEF Balanced
<1>7. StoredSound' /\ SearchesSound'
  BY <1>1, QuietSearch
<1>8. call'.todo = {} /\ (call'.unread # call'.kept /\ call'.identities = 0 => call'.flagged)
  <2>1. call'.todo = {}
    BY <1>1, <1>3
  <2>2. call'.unread # call'.kept /\ call'.identities = 0 => call'.flagged = TRUE
    BY ONLY <1>3
  <2> QED BY <2>1, <2>2
<1>9. at' = "execution"
  BY <1>1
<1> QED BY <1>5, <1>6, <1>7, <1>8, <1>9 DEF SearchInv, RequestSound, PapersSound

(* The execution has what its call knows of every search.                   *)
LEMMA PutSearchExecutionKeeps ==
    ASSUME SearchInv, PutSearchExecution
    PROVE  SearchInv'
<1> DEFINE a == [kind |-> "search_execution", of |-> call]
<1>1. /\ at = "execution" /\ at' = "idle" /\ Put(a) /\ a.kind = "search_execution"
      /\ prov \subseteq prov'
  BY DEF PutSearchExecution, Return
<1>2. /\ Searching(call) /\ Balanced(call) /\ call.todo = {}
      /\ call.unread # call.kept /\ call.identities = 0 => call.flagged
  BY <1>1 DEF SearchInv
<1> PICK new, k : new = Latest + 1 /\ k = call
  OBVIOUS
<1>3. /\ Kept /\ StoredSound' /\ new \notin Stored
      /\ OfKind("search_execution")' = OfKind("search_execution") \cup {new}
      /\ stored'[new].of = k /\ \A i \in Stored : stored'[i] = stored[i]
  <2>1. stored'[new] = a /\ Kept /\ StoredSound' /\ new \notin Stored
        /\ OfKind("search_execution")' = OfKind("search_execution") \cup {new}
    BY <1>1, PutSearch
  <2> QED BY <2>1 DEF Kept
<1>4. SearchesSound'
  <2>1. ASSUME NEW i \in OfKind("search_execution")'
        PROVE  /\ Searching(stored[i].of)' /\ Balanced(stored[i].of)' /\ (stored[i].of.todo = {})'
               /\ (stored[i].of.unread # stored[i].of.kept /\ stored[i].of.identities = 0 => stored[i].of.flagged)'
    <3>1. PICK l : l = stored'[i].of
      OBVIOUS
    <3>2. Searching(l) /\ Balanced(l) /\ l.todo = {} /\ (l.unread # l.kept /\ l.identities = 0 => l.flagged)
      <4>1. CASE i = new
        BY <1>2, <1>3, <3>1, <4>1
      <4>2. CASE i \in OfKind("search_execution")
        <5>1. stored'[i] = stored[i]
          BY <1>3, <4>2 DEF OfKind
        <5> QED BY <3>1, <4>2, <5>1 DEF SearchInv, SearchesSound
      <4> QED BY <1>3, <4>1, <4>2
    <3>3. Searching(l)' /\ Balanced(l)'
      BY <1>1, <1>3, <3>2, SearchKept
    <3> QED BY <3>1, <3>2, <3>3
  <2> QED BY <2>1 DEF SearchesSound
<1> QED BY <1>1, <1>3, <1>4 DEF SearchInv, RequestSound, PapersSound

(* For any strategy, any sources and any budgets, whatever fails and        *)
(* however often the process dies: an execution accounts for every search,  *)
(* keeps within its budgets, counts papers that its records have, each      *)
(* traced to its snapshot, and flags papers without identities, unless the  *)
(* resolver could read none of them.                                        *)
THEOREM SearchesCounted == SearchSpec => []SearchAccountedFor
<1>1. NothingStored => SearchInv
  BY NothingIsStored DEF SearchInv, SearchesSound, RequestSound, PapersSound
<1>2. SearchInv /\ [SearchNext]_researchVars => SearchInv'
  <2> SUFFICES ASSUME SearchInv, [SearchNext]_researchVars PROVE SearchInv'
    OBVIOUS
  <2>1. ASSUME NEW strategy \in Strategies, Execute(strategy) PROVE SearchInv'
    BY <2>1, ExecuteKeeps
  <2>2. CASE StopSearching \/ QueryUnreadable
    BY <2>2, LeftOutKeeps
  <2>3. CASE BeginSearch
    BY <2>3, BeginSearchKeeps
  <2>4. CASE EndSearch
    BY <2>4, EndSearchKeeps
  <2>5. CASE Fetch
    BY <2>5, FetchKeeps
  <2>6. CASE PutSnapshot
    BY <2>6, PutSnapshotKeeps
  <2>7. CASE PutPaper
    BY <2>7, PutPaperKeeps
  <2>8. CASE LinkPaper
    BY <2>8, LinkPaperKeeps
  <2>9. CASE PutRecord
    BY <2>9, PutRecordKeeps
  <2>10. CASE IngestFails
    BY <2>10, IngestFailsKeeps
  <2>11. CASE Identify
    BY <2>11, IdentifyKeeps
  <2>12. CASE PutSearchExecution
    BY <2>12, PutSearchExecutionKeeps
  <2>13. CASE Die
    BY <2>13, SearchEnds DEF Die
  <2>14. CASE UNCHANGED researchVars
    <3>1. stored' = stored /\ prov' = prov /\ at' = at /\ call' = call
      BY <2>14 DEF researchVars
    <3>2. /\ Kept /\ StoredSound' /\ SearchesSound' /\ Stored' = Stored /\ Latest' = Latest
          /\ \A kind : OfKind(kind)' = OfKind(kind)
      BY <3>1, QuietSearch
    <3>3. at # "idle" => Searching(call)'
      BY <3>1, <3>2, SearchKept DEF SearchInv
    <3>4. \A p : Traced(p) => Traced(p)'
      BY <3>1, <3>2, SearchKept
    <3> QED BY <3>1, <3>2, <3>3, <3>4 DEF SearchInv, RequestSound, PapersSound, Balanced
  <2> QED BY <2>1, <2>2, <2>3, <2>4, <2>5, <2>6, <2>7, <2>8, <2>9, <2>10, <2>11, <2>12, <2>13,
             <2>14 DEF SearchNext
<1>3. SearchInv => SearchAccountedFor
  <2> SUFFICES ASSUME SearchInv, NEW i \in OfKind("search_execution"), NEW e, e = stored[i].of
               PROVE  /\ e.sent <= MaxRequests /\ Cardinality(e.kept) <= MaxPapers
                      /\ e.succeeded = Cardinality(e.records)
                      /\ \A s \in e.searches :
                            \/ Searched(e, s) \/ s \in e.failures
                            \/ e.requests >= MaxRequests \/ e.papers >= MaxPapers
                      /\ e.attempted - e.succeeded - e.failed \in {0, 1}
                      /\ e.attempted > e.succeeded + e.failed => e.requests >= MaxRequests
                      /\ \A p \in e.kept :
                            /\ \E r \in e.records : p \in stored[r].papers
                            /\ \E s \in OfKind("snapshot") : <<s, p, "generated_from">> \in prov
                      /\ e.unread # e.kept /\ e.identities = 0 => e.flagged
    BY DEF SearchAccountedFor
  <2>1. /\ Searching(e) /\ Balanced(e) /\ e.todo = {}
        /\ e.unread # e.kept /\ e.identities = 0 => e.flagged
    BY DEF SearchInv, SearchesSound
  <2>2. /\ e.sent \in Nat /\ e.requests \in Nat /\ e.papers \in Nat /\ e.attempted \in Nat
        /\ e.succeeded \in Nat /\ e.failed \in Nat /\ MaxRequests \in Nat /\ MaxPapers \in Nat
        /\ Cardinality(e.kept) \in Nat
    BY <2>1, BudgetsAssumption, FS_CardinalityType DEF Searching, SearchLocals
  <2>3. e.sent <= MaxRequests /\ Cardinality(e.kept) <= MaxPapers
    BY <2>1, <2>2 DEF Searching
  <2>4. /\ e.attempted - e.succeeded - e.failed \in {0, 1}
        /\ e.attempted > e.succeeded + e.failed => e.requests >= MaxRequests
    BY <2>1, <2>2 DEF Balanced
  <2> QED BY <2>1, <2>3, <2>4 DEF Searching, Traced
<1> QED BY <1>1, <1>2, <1>3, PTL DEF SearchSpec

-----------------------------------------------------------------------------
(* Novelty                                                                  *)
\* Numbers are of artifacts.
NoveltyCalls ==
    [mode : {"validate", "revalidate", "gate", "enrich"}, manuscript : Nat, previous : Nat,
     policy : Nat, claims : SUBSET Nat, todo : SUBSET Nat, reused : SUBSET (Nat \X Nat),
     assessed : SUBSET Nat, failed : Nat, claim : Nat, candidates : SUBSET Nat, old : Nat,
     new : Nat, report : Nat, checked : Nat]

ClaimStatuses == {"unverified", "threatened", "weakened", "not_threatened"}

ManuscriptSound(m) ==
    \E n \in DOMAIN Versions :
       stored[m] = [kind |-> "manuscript", claims |-> Versions[n], ready |-> n \in Ready]

ClaimSound(c) == stored[c] \in [kind : {"claim"}, wording : Int, risk : Risks]

\* A judgement is made from evidence, and made anew only where there was none.
CandidateSound(k) ==
    /\ stored[k] \in [kind : {"candidate"}, paper : PriorArt, sparse : BOOLEAN, of : Nat,
                      relationship : Judgements]
    /\ stored[k].relationship # "insufficient" => HasEvidence(stored[k].paper)
    /\ stored[k].of # 0 =>
          stored[k].of \in OfKind("candidate") /\ stored[stored[k].of].relationship = "insufficient"

\* A claim is not threatened if all searches were made and all found is distinct.
AssessmentSound(a) ==
    /\ stored[a] \in [kind : {"assessment"}, claim : OfKind("claim"),
                      candidates : SUBSET OfKind("candidate"), searched : BOOLEAN,
                      policy : Policies, status : ClaimStatuses]
    /\ stored[a].status = "not_threatened" =>
          stored[a].searched /\ \A k \in stored[a].candidates : stored[k].relationship = "distinct"

\* The claim of the assessment a means the same as the claim c.
Says(a, c) ==
    LET d == stored[a].claim
    IN  /\ stored[d].risk = stored[c].risk
        /\ \/ stored[d].wording = stored[c].wording
           \/ <<stored[d].wording, stored[c].wording>> \in Similar

\* Every claim has an assessment that vouches for it.
Cleared(claims, assessments) ==
    /\ claims # {}
    /\ \A c \in claims : \E a \in assessments : stored[a].status = "not_threatened" /\ Says(a, c)

NoveltyReportSound(r) ==
    /\ stored[r] \in [kind : {"novelty report"}, manuscript : Manuscripts,
                      claims : SUBSET OfKind("claim"), assessments : SUBSET OfKind("assessment"),
                      failed : Nat, policy : Policies,
                      overall : {"blocked", "revise", "unverified", "clear"}, supersedes : Nat]
    /\ stored[r].supersedes < r
    /\ \A a \in stored[r].assessments : stored[a].policy = stored[r].policy
    /\ IsFiniteSet(stored[r].claims) /\ IsFiniteSet(stored[r].assessments)
    /\ Cardinality(stored[r].assessments) <= Cardinality(stored[r].claims)
    /\ stored[r].overall = "clear" => Cleared(stored[r].claims, stored[r].assessments)

\* The report is of the version that was current when it was checked.
Checked(report, manuscript, checked) ==
    /\ report \in Reports /\ stored[report].manuscript = manuscript
    /\ checked \in Stored
    /\ \A m \in Manuscripts : m <= checked => m <= manuscript

GateSound(g) ==
    stored[g].status = "ready" =>
       LET r == stored[stored[g].report]
       IN  /\ Checked(stored[g].report, stored[g].manuscript, stored[g].checked)
           /\ stored[r.manuscript].ready /\ r.overall = "clear" /\ r.failed = 0
           /\ Cardinality(r.assessments) = Cardinality(r.claims)

ArtifactSound(i) ==
    /\ stored[i].kind = "manuscript" => ManuscriptSound(i)
    /\ stored[i].kind = "claim" => ClaimSound(i)
    /\ stored[i].kind = "candidate" => CandidateSound(i)
    /\ stored[i].kind = "assessment" => AssessmentSound(i)
    /\ stored[i].kind = "novelty report" => NoveltyReportSound(i)
    /\ stored[i].kind = "gate" => GateSound(i)

ArtifactsSound == \A i \in Stored : ArtifactSound(i)

\* The assessments there are, taken over or made.
Had(k) == {p[1] : p \in k.reused} \cup k.assessed

\* No more assessments than claims, also with those that are still to be made.
Balance(k, going) ==
    /\ IsFiniteSet(k.claims) /\ IsFiniteSet(k.todo) /\ IsFiniteSet(Had(k))
    /\ Cardinality(Had(k)) + Cardinality(k.todo) + going <= Cardinality(k.claims)

\* What a call k that validates has found out.
Validating(k) ==
    /\ k.manuscript \in Manuscripts /\ k.policy \in Policies
    /\ k.mode = "revalidate" => k.previous \in Reports
    /\ k.claims \subseteq OfKind("claim") /\ k.todo \subseteq k.claims
    /\ k.assessed \subseteq OfKind("assessment")
    /\ \A a \in k.assessed : stored[a].policy = k.policy
    /\ \A p \in k.reused :
          /\ p[1] \in OfKind("assessment") /\ p[2] \in k.claims
          /\ stored[p[1]].policy = k.policy /\ Says(p[1], p[2])

NoveltyCallSound ==
    /\ at # "idle" => call \in NoveltyCalls
    /\ at \in {"claim", "assess", "recommend"} =>
          Validating(call) /\ Balance(call, IF at = "assess" THEN 1 ELSE 0)
    /\ at = "assess" => call.claim \in OfKind("claim") /\ call.candidates \subseteq OfKind("candidate")
    /\ at \in {"gate", "put_gate"} => call.report \in Reports
    /\ at = "put_gate" => Checked(call.report, call.manuscript, call.checked)
    /\ at \in {"enrich", "judge", "refresh"} =>
          call.old \in OfKind("candidate") /\ stored[call.old].relationship = "insufficient"
    /\ at = "judge" => HasEvidence(stored[call.old].paper)
    /\ at = "refresh" => call.new \in OfKind("candidate")
    /\ at = "rereport" =>
          /\ call.old \in OfKind("assessment") /\ call.new \in OfKind("assessment")
          /\ stored[call.new].policy = stored[call.old].policy

NoveltyInv == StoredSound /\ ArtifactsSound /\ NoveltyCallSound

(* What the artifacts of a kind are.                                        *)
LEMMA SoundOfKind ==
    ASSUME ArtifactsSound
    PROVE  /\ \A kind : OfKind(kind) \subseteq Stored
           /\ \A m \in Manuscripts : ManuscriptSound(m)
           /\ \A c \in OfKind("claim") : ClaimSound(c)
           /\ \A k \in OfKind("candidate") : CandidateSound(k)
           /\ \A a \in OfKind("assessment") : AssessmentSound(a)
           /\ \A r \in Reports : NoveltyReportSound(r)
           /\ \A g \in Gates : GateSound(g)
<1>1. \A kind : \A i \in OfKind(kind) : i \in Stored /\ stored[i].kind = kind
  BY DEF OfKind
<1>2. \A kind : \A i \in OfKind(kind) : ArtifactSound(i)
  BY <1>1 DEF ArtifactsSound
<1> QED BY <1>1, <1>2 DEF ArtifactSound, Manuscripts, Reports, Gates

(* What is kept stays as sound as it was.                                   *)
LEMMA NoveltyKept ==
    ASSUME StoredSound, StoredSound', ArtifactsSound, Kept
    PROVE  /\ \A kind : OfKind(kind) \subseteq OfKind(kind)'
           /\ \A p : HasEvidence(p) => HasEvidence(p)'
           /\ \A i \in Stored : ArtifactSound(i)'
           /\ \A a \in OfKind("assessment"), c \in OfKind("claim") : Says(a, c) => Says(a, c)'
           /\ \A r, m, c : Checked(r, m, c) => Checked(r, m, c)'
           /\ \A k : Validating(k) => Validating(k)'
<1> USE DEF Kept
<1>1. \A kind : OfKind(kind) \subseteq Stored /\ OfKind(kind) \subseteq OfKind(kind)'
                /\ \A i \in OfKind(kind) : stored'[i] = stored[i]
  BY DEF OfKind
<1>2. \A p : HasEvidence(p) => HasEvidence(p)'
  BY <1>1 DEF HasEvidence
<1>3. \A a \in OfKind("assessment"), c \in OfKind("claim") : Says(a, c)' <=> Says(a, c)
  <2> TAKE a \in OfKind("assessment"), c \in OfKind("claim")
  <2>1. stored[a].claim \in OfKind("claim")
    BY SoundOfKind DEF AssessmentSound
  <2>2. stored'[a] = stored[a] /\ stored'[c] = stored[c]
    BY <1>1
  <2>3. stored'[stored[a].claim] = stored[stored[a].claim]
    BY <1>1, <2>1
  <2> QED BY <2>2, <2>3 DEF Says
<1>4. ASSUME NEW r, NEW m, NEW c, Checked(r, m, c)
      PROVE  Checked(r, m, c)'
  <2>1. Stored = 1 .. Latest /\ Latest \in Nat /\ Stored' = 1 .. Latest' /\ Latest' \in Nat
    BY DEF StoredSound, Stored, Latest
  <2>2. r \in Reports' /\ stored'[r] = stored[r] /\ c \in Stored'
    BY <1>1, <1>4 DEF Checked, Reports
  <2>3. ASSUME NEW n \in Manuscripts', n <= c
        PROVE  n <= m
    <3>1. n \in Stored' /\ c \in 1 .. Latest
      BY <1>4, <2>1 DEF Manuscripts, OfKind, Checked
    <3>2. n \in Stored
      BY <2>1, <2>3, <3>1
    <3>3. n \in Manuscripts
      BY <3>2 DEF Manuscripts, OfKind
    <3> QED BY <1>4, <2>3, <3>3 DEF Checked
  <2> QED BY <1>4, <2>2, <2>3 DEF Checked
<1>5. ASSUME NEW k, Validating(k)
      PROVE  Validating(k)'
  <2>1. k.manuscript \in Manuscripts' /\ (k.mode = "revalidate" => k.previous \in Reports')
    BY <1>1, <1>5 DEF Validating, Manuscripts, Reports
  <2>2. k.claims \subseteq OfKind("claim")' /\ k.assessed \subseteq OfKind("assessment")'
    BY <1>1, <1>5 DEF Validating
  <2>3. \A a \in k.assessed : stored'[a].policy = k.policy
    BY <1>1, <1>5 DEF Validating
  <2>4. ASSUME NEW p \in k.reused
        PROVE  p[1] \in OfKind("assessment")' /\ stored'[p[1]].policy = k.policy /\ Says(p[1], p[2])'
    <3>1. p[1] \in OfKind("assessment") /\ p[2] \in OfKind("claim")
      BY <1>5 DEF Validating
    <3>2. Says(p[1], p[2])'
      BY <1>3, <1>5, <3>1 DEF Validating
    <3> QED BY <1>1, <1>5, <3>1, <3>2 DEF Validating
  <2> QED BY <1>5, <2>1, <2>2, <2>3, <2>4 DEF Validating
<1>6. ASSUME NEW i \in Stored
      PROVE  ArtifactSound(i)'
  <2>1. stored'[i] = stored[i]
    OBVIOUS
  <2>2. ArtifactSound(i)
    BY DEF ArtifactsSound
  <2>3. ManuscriptSound(i) => ManuscriptSound(i)'
    BY <2>1 DEF ManuscriptSound
  <2>4. ClaimSound(i) => ClaimSound(i)'
    BY <2>1 DEF ClaimSound
  <2>5. CandidateSound(i) => CandidateSound(i)'
    <3> HAVE CandidateSound(i)
    <3>1. stored[i].relationship # "insufficient" => HasEvidence(stored[i].paper)'
      BY <1>2 DEF CandidateSound
    <3>2. stored[i].of # 0 => /\ stored[i].of \in OfKind("candidate")'
                              /\ stored'[stored[i].of].relationship = "insufficient"
      BY <1>1 DEF CandidateSound
    <3> QED BY <2>1, <3>1, <3>2 DEF CandidateSound
  <2>6. AssessmentSound(i) => AssessmentSound(i)'
    <3> HAVE AssessmentSound(i)
    <3>1. \A k \in stored[i].candidates : stored'[k] = stored[k]
      BY <1>1 DEF AssessmentSound
    <3>2. OfKind("claim") \subseteq OfKind("claim")' /\ OfKind("candidate") \subseteq OfKind("candidate")'
      BY <1>1
    <3> QED BY <2>1, <3>1, <3>2 DEF AssessmentSound
  <2>7. NoveltyReportSound(i) => NoveltyReportSound(i)'
    <3> HAVE NoveltyReportSound(i)
    <3>1. \A a \in stored[i].assessments : stored'[a] = stored[a]
      BY <1>1 DEF NoveltyReportSound
    <3>2. /\ OfKind("claim") \subseteq OfKind("claim")'
          /\ OfKind("assessment") \subseteq OfKind("assessment")'
          /\ Manuscripts \subseteq Manuscripts'
      BY <1>1 DEF Manuscripts
    <3>3. stored[i].claims \subseteq OfKind("claim") /\ stored[i].assessments \subseteq OfKind("assessment")
      BY DEF NoveltyReportSound
    <3>4. Cleared(stored[i].claims, stored[i].assessments)
          => Cleared(stored[i].claims, stored[i].assessments)'
      BY <1>3, <2>1, <3>1, <3>3 DEF Cleared
    <3> QED BY <2>1, <3>1, <3>2, <3>4 DEF NoveltyReportSound
  <2>8. GateSound(i) => GateSound(i)'
    <3> SUFFICES ASSUME GateSound(i), stored[i].status = "ready"
                 PROVE  GateSound(i)'
      BY <2>1 DEF GateSound
    <3>1. Checked(stored[i].report, stored[i].manuscript, stored[i].checked)
      BY DEF GateSound
    <3>2. Checked(stored[i].report, stored[i].manuscript, stored[i].checked)'
      BY <1>4, <2>1, <3>1
    <3>3. stored[i].report \in Reports
      BY <3>1 DEF Checked
    <3>4. stored'[stored[i].report] = stored[stored[i].report]
      BY <1>1, <3>3 DEF Reports
    <3>5. stored[stored[i].report].manuscript \in Manuscripts
      BY <3>3, SoundOfKind DEF NoveltyReportSound
    <3>6. stored'[stored[stored[i].report].manuscript] = stored[stored[stored[i].report].manuscript]
      BY <1>1, <3>5 DEF Manuscripts
    <3> QED BY <2>1, <3>2, <3>4, <3>6 DEF GateSound
  <2> QED BY <2>1, <2>2, <2>3, <2>4, <2>5, <2>6, <2>7, <2>8 DEF ArtifactSound
<1> QED BY <1>1, <1>2, <1>3, <1>4, <1>5, <1>6

(* A step that stores nothing.                                              *)
LEMMA NoveltyQuiet ==
    ASSUME NoveltyInv, stored' = stored
    PROVE  /\ Kept /\ StoredSound' /\ ArtifactsSound'
           /\ \A kind : OfKind(kind)' = OfKind(kind)
<1>1. /\ Stored' = Stored /\ StoredSound' /\ \A kind : OfKind(kind)' = OfKind(kind)
  BY StoredStays DEF NoveltyInv
<1>2. Kept
  BY <1>1 DEF Kept
<1>3. \A i \in Stored : ArtifactSound(i)'
  BY <1>1, <1>2, NoveltyKept DEF NoveltyInv
<1> QED BY <1>1, <1>2, <1>3 DEF ArtifactsSound

(* A step that puts an artifact.                                            *)
LEMMA NoveltyPut ==
    ASSUME NoveltyInv, NEW a, Put(a), NEW new, new = Latest + 1
    PROVE  /\ Kept /\ StoredSound' /\ Latest \in Nat /\ Stored = 1 .. Latest
           /\ new \in Nat /\ new \notin Stored /\ new \in Stored' /\ stored'[new] = a
           /\ \A i \in Stored : i < new
           /\ \A kind : a.kind = kind => OfKind(kind)' = OfKind(kind) \cup {new}
           /\ \A kind : a.kind # kind => OfKind(kind)' = OfKind(kind)
           /\ ArtifactSound(new)' => ArtifactsSound'
<1>1. /\ StoredSound' /\ Latest \in Nat /\ Stored = 1 .. Latest /\ Stored' = Stored \cup {new}
      /\ new \notin Stored /\ \A i \in Stored : stored'[i] = stored[i]
      /\ stored'[new] = a
  BY PutAdds DEF NoveltyInv
<1>2. Kept
  BY <1>1 DEF Kept
<1>3. \A i \in Stored : ArtifactSound(i)'
  BY <1>1, <1>2, NoveltyKept DEF NoveltyInv
<1>4. /\ \A kind : a.kind = kind => OfKind(kind)' = OfKind(kind) \cup {new}
      /\ \A kind : a.kind # kind => OfKind(kind)' = OfKind(kind)
  BY PutOfKind DEF NoveltyInv
<1> QED BY <1>1, <1>2, <1>3, <1>4 DEF ArtifactsSound

(* A step that puts several artifacts.                                      *)
LEMMA NoveltyPuts ==
    ASSUME NoveltyInv, NEW T, NEW new \in Seq(T), stored' = stored \o new, NEW n, n = Latest
    PROVE  /\ Kept /\ StoredSound' /\ Latest \in Nat /\ Stored = 1 .. Latest
           /\ Stored' = 1 .. Latest + Len(new)
           /\ \A k \in 1 .. Len(new) : stored'[n + k] = new[k]
           /\ (\A k \in 1 .. Len(new) : ArtifactSound(n + k)') => ArtifactsSound'
<1>1. PICK S : S = ToSet(stored) \cup T
  OBVIOUS
<1>2. stored \in Seq(S) /\ new \in Seq(S)
  BY <1>1 DEF NoveltyInv, StoredSound
<1>3. /\ Latest \in Nat /\ Stored = 1 .. Latest /\ Len(new) \in Nat /\ n = Latest
      /\ Stored' = 1 .. Latest + Len(new) /\ stored' \in Seq(S)
      /\ \A i \in 1 .. Latest : stored'[i] = stored[i]
      /\ \A k \in 1 .. Len(new) : stored'[n + k] = new[k]
  BY <1>2 DEF Stored, Latest
<1>a. /\ Latest \in Int /\ Len(new) \in Nat /\ Stored = 1 .. Latest
      /\ Stored' = 1 .. Latest + Len(new) /\ \A i \in Stored : stored'[i] = stored[i]
  <2>1. Stored = 1 .. Latest /\ \A i \in 1 .. Latest : stored'[i] = stored[i]
    BY ONLY <1>3
  <2>2. \A i \in Stored : stored'[i] = stored[i]
    BY ONLY <2>1
  <2> QED BY ONLY <1>3, <2>2
<1>4. StoredSound'
  <2> DEFINE R == ToSet(stored)'
  <2>1. \A i \in Stored' : stored'[i] \in R
    BY DEF ToSet, Stored
  <2>2. stored' = [i \in 1 .. Latest + Len(new) |-> stored'[i]] /\ Latest + Len(new) \in Nat
    <3>1. stored' = [i \in Stored' |-> stored'[i]]
      BY ONLY <1>3 DEF Stored
    <3> QED BY ONLY <1>3, <3>1
  <2> HIDE DEF R
  <2>3. stored' \in Seq(R)
    BY ONLY <1>a, <2>1, <2>2
  <2> QED BY <2>3 DEF StoredSound, R
<1>5. Kept
  <2>1. Stored \subseteq Stored'
    BY ONLY <1>a
  <2> QED BY <1>a, <2>1 DEF Kept
<1>6. \A i \in Stored : ArtifactSound(i)'
  BY <1>4, <1>5, NoveltyKept DEF NoveltyInv
<1>7. ASSUME \A k \in 1 .. Len(new) : ArtifactSound(n + k)'
      PROVE  ArtifactsSound'
  <2>1. ASSUME NEW i \in Stored', i \notin Stored
        PROVE  ArtifactSound(i)'
    <3>1. i - n \in 1 .. Len(new) /\ i = n + (i - n)
      BY ONLY <1>a, <2>1, n = Latest
    <3> QED BY <1>7, <3>1
  <2> QED BY <1>6, <2>1 DEF ArtifactsSound
<1> QED BY <1>3, <1>4, <1>5, <1>7

LEMMA CallOver ==
    ASSUME at' = "idle"
    PROVE  NoveltyCallSound'
BY DEF NoveltyCallSound

LEMMA NoveltyReturns ==
    ASSUME Return
    PROVE  NoveltyCallSound'
BY CallOver DEF Return

LEMMA LastOrNone ==
    ASSUME NEW n \in Nat, NEW S \in SUBSET (0 .. n), S # {}
    PROVE  Max(S) \in S /\ \A x \in S : x <= Max(S)
<1> DEFINE T == {n - x : x \in S}
<1>1. T \in SUBSET Nat /\ T # {}
  <2>1. \A x \in S : n - x \in Nat
    OBVIOUS
  <2> QED BY <2>1
<1>2. Min(T) \in T /\ \A y \in T : Min(T) <= y
  <2> HIDE DEF T
  <2> QED BY <1>1, FirstPlace
<1>3. PICK m \in S : Min(T) = n - m
  BY <1>2
<1>4. \A x \in S : x <= m
  <2> TAKE x \in S
  <2>1. n - x \in T
    OBVIOUS
  <2>2. n - m <= n - x
    BY <1>2, <1>3, <2>1
  <2> QED BY <2>2
<1> QED BY <1>4 DEF Max

(* A verdict clears a claim only where everything was searched and found    *)
(* distinct.                                                                *)
LEMMA StatusMeans ==
    ASSUME NEW covered, NEW candidates, \A k \in candidates : stored[k].relationship \in Judgements
    PROVE  /\ ClaimStatus(covered, candidates) \in ClaimStatuses
           /\ ClaimStatus(covered, candidates) = "not_threatened" =>
                 covered /\ \A k \in candidates : stored[k].relationship = "distinct"
<1> DEFINE found == {stored[k].relationship : k \in candidates}
<1>1. ClaimStatus(covered, candidates) \in ClaimStatuses
  BY DEF ClaimStatus, ClaimStatuses
<1>2. ClaimStatus(covered, candidates) = "not_threatened" =>
         covered /\ "strong" \notin found /\ "partial" \notin found /\ "insufficient" \notin found
  BY DEF ClaimStatus
<1> QED BY <1>1, <1>2 DEF Judgements

(* A report is clear only if every claim has a verdict that clears it.      *)
LEMMA ClearMeans ==
    ASSUME NEW claims, NEW verdicts, \A v \in verdicts : v[2] \in ClaimStatuses
    PROVE  /\ Overall(claims, verdicts) \in {"blocked", "revise", "unverified", "clear"}
           /\ Overall(claims, verdicts) = "clear" =>
                 /\ claims # {}
                 /\ \A c \in claims : \E v \in verdicts : v[1] = c /\ v[2] = "not_threatened"
<1>1. Overall(claims, verdicts) \in {"blocked", "revise", "unverified", "clear"}
  BY DEF Overall
<1>2. Overall(claims, verdicts) = "clear" =>
         /\ claims # {} /\ \A v \in verdicts : v[2] \notin {"threatened", "weakened"}
         /\ \A c \in claims : \E v \in verdicts : v[1] = c /\ v[2] # "unverified"
  BY DEF Overall
<1> QED BY <1>1, <1>2 DEF ClaimStatuses

(* Every claim is its own.                                                  *)
LEMMA SaysItsOwn == \A a : Says(a, stored[a].claim)
BY DEF Says

(* Who repeats a claim means the same.                                      *)
LEMMA RepeatedMeans ==
    ASSUME NEW new, NEW olds, NEW same \in SUBSET Similar, NEW c \in Repeated(new, olds, same)
    PROVE  /\ stored[c].risk = new.risk
           /\ stored[c].wording = new.wording \/ <<stored[c].wording, new.wording>> \in Similar
BY DEF Repeated

LEMMA SaysMeans ==
    ASSUME NEW a, NEW c, Says(a, c)
    PROVE  Repeated(stored[c], {stored[a].claim}, Similar) # {}
<1> PICK d : d = stored[a].claim
  OBVIOUS
<1>1. d \in Repeated(stored[c], {d}, Similar)
  BY DEF Says, Repeated
<1> QED BY <1>1

-----------------------------------------------------------------------------
(* The authors' new version leaves what was checked as it was.              *)
LEMMA ReviseKeeps ==
    ASSUME NoveltyInv, Revise
    PROVE  NoveltyInv'
<1> DEFINE n == Cardinality(Manuscripts) + 1
           a == [kind |-> "manuscript", claims |-> Versions[n], ready |-> n \in Ready]
<1>1. /\ at \in {"idle", "put_gate"} /\ Put(a)
      /\ Cardinality(Manuscripts) < Len(Versions) /\ UNCHANGED <<prov, at, call>>
  BY DEF Revise
<1> PICK new : new = Latest + 1
  OBVIOUS
<1>2. /\ Kept /\ StoredSound' /\ Stored = 1 .. Latest /\ Latest \in Nat
      /\ new \in Stored' /\ stored'[new] = a /\ (ArtifactSound(new)' => ArtifactsSound')
  BY <1>1, NoveltyPut
<1>3. n \in DOMAIN Versions
  <2>1. Manuscripts \in SUBSET (1 .. Latest)
    BY <1>2 DEF Manuscripts, OfKind
  <2>2. IsFiniteSet(1 .. Latest)
    BY <1>2, FS_Interval
  <2>3. IsFiniteSet(Manuscripts)
    BY <2>1, <2>2, FS_Subset
  <2>4. Cardinality(Manuscripts) \in Nat
    BY <2>3, FS_CardinalityType
  <2>5. Len(Versions) \in Nat /\ DOMAIN Versions = 1 .. Len(Versions)
    BY VersionsAssumption
  <2> QED BY <1>1, <2>4, <2>5
<1>4. ArtifactSound(new)'
  <2>1. ManuscriptSound(new)'
    BY <1>2, <1>3 DEF ManuscriptSound
  <2>2. stored'[new].kind = "manuscript"
    BY <1>2
  <2> QED BY <2>1, <2>2 DEF ArtifactSound
<1>5. NoveltyCallSound'
  <2>1. OfKind("novelty report") \subseteq OfKind("novelty report")'
        /\ \A r, m, c : Checked(r, m, c) => Checked(r, m, c)'
    BY <1>2, NoveltyKept DEF NoveltyInv
  <2>2. at' = at /\ call' = call
    BY <1>1
  <2>3. at = "put_gate" => /\ call \in NoveltyCalls /\ call.report \in Reports
                           /\ Checked(call.report, call.manuscript, call.checked)
    BY DEF NoveltyInv, NoveltyCallSound
  <2>4. at = "put_gate" => Checked(call.report, call.manuscript, call.checked)'
    <3> HAVE at = "put_gate"
    <3> PICK r, m, c : r = call.report /\ m = call.manuscript /\ c = call.checked
      OBVIOUS
    <3>1. Checked(r, m, c)'
      BY <2>1, <2>3
    <3> QED BY <2>2, <3>1
  <2> QED BY <1>1, <2>1, <2>2, <2>3, <2>4 DEF NoveltyCallSound, Reports
<1> QED BY <1>2, <1>4, <1>5 DEF NoveltyInv

(* New claims are sound.                                                    *)
LEMMA ClaimsPut ==
    ASSUME NoveltyInv, NEW m \in Manuscripts, NEW new, new = NewClaims(m), stored' = stored \o new,
           NEW n, n = Latest
    PROVE  /\ Kept /\ StoredSound' /\ ArtifactsSound' /\ n \in Nat /\ Len(new) \in Nat
           /\ DOMAIN new = 1 .. Len(new)
           /\ \A k \in 1 .. Len(new) :
                 stored'[n + k] = new[k] /\ n + k \in OfKind("claim")' /\ n + k \in Nat
<1>1. PICK v \in DOMAIN Versions : stored[m].claims = Versions[v]
  <2>1. ManuscriptSound(m)
    BY SoundOfKind DEF NoveltyInv
  <2> QED BY ONLY <2>1 DEF ManuscriptSound
<1>2. stored[m].claims \in Seq([wording : Int, risk : Risks])
  BY <1>1, VersionsAssumption
<1> DEFINE T == [kind : {"claim"}, wording : Int, risk : Risks]
<1>3. new \in Seq(T) /\ Len(new) \in Nat /\ DOMAIN new = 1 .. Len(new)
      /\ \A k \in 1 .. Len(new) : new[k] \in T
  <2> DEFINE found == stored[m].claims
  <2>2. new = [k \in DOMAIN found |->
                 [kind |-> "claim", wording |-> found[k].wording, risk |-> found[k].risk]]
    BY DEF NewClaims
  <2>3. DOMAIN found = 1 .. Len(found) /\ Len(found) \in Nat
        /\ \A k \in 1 .. Len(found) : found[k] \in [wording : Int, risk : Risks]
    <3> DEFINE R == [wording : Int, risk : Risks]
    <3>1. found \in Seq(R)
      BY <1>2
    <3> HIDE DEF R, found
    <3>2. DOMAIN found = 1 .. Len(found) /\ Len(found) \in Nat /\ \A k \in 1 .. Len(found) : found[k] \in R
      BY ONLY <3>1
    <3> QED BY ONLY <3>2 DEF R
  <2> HIDE DEF found
  <2>4. \A k \in 1 .. Len(found) :
           [kind |-> "claim", wording |-> found[k].wording, risk |-> found[k].risk] \in T
    BY ONLY <2>3
  <2> HIDE DEF T
  <2> QED BY ONLY <2>2, <2>3, <2>4
<1>4. /\ Kept /\ StoredSound' /\ Latest \in Nat /\ Stored' = 1 .. Latest + Len(new)
      /\ \A k \in 1 .. Len(new) : stored'[n + k] = new[k]
      /\ (\A k \in 1 .. Len(new) : ArtifactSound(n + k)') => ArtifactsSound'
  <2> HIDE DEF T
  <2> QED BY <1>3, NoveltyPuts
<1>5. ASSUME NEW k \in 1 .. Len(new)
      PROVE  ArtifactSound(n + k)' /\ n + k \in OfKind("claim")' /\ n + k \in Nat
  <2>1. stored'[n + k] \in T
    BY <1>3, <1>4
  <2>2. n + k \in Stored' /\ n + k \in Nat
    BY ONLY <1>3, <1>4, n = Latest, k \in 1 .. Len(new)
  <2>3. stored'[n + k].kind = "claim"
    BY <2>1
  <2>4. ClaimSound(n + k)'
    BY <2>1 DEF ClaimSound
  <2> QED BY <2>2, <2>3, <2>4 DEF ArtifactSound, OfKind
<1> QED BY <1>3, <1>4, <1>5

(* A call that is on with its claims.                                       *)
LEMMA ValidatingGoesOn ==
    ASSUME at' \in {"claim", "recommend"}, NEW k \in NoveltyCalls, k = call',
           Validating(k)', Balance(k, 0)
    PROVE  NoveltyCallSound'
<1>1. Validating(call)'
  BY DEF Validating, Says
<1>2. Balance(call', 0)
  OBVIOUS
<1> QED BY <1>1, <1>2 DEF NoveltyCallSound, Balance, Had

(* A call that validates begins with all claims to be assessed.             *)
LEMMA ValidateKeeps ==
    ASSUME NoveltyInv, NEW m \in Manuscripts, NEW policy \in Policies, NEW limit,
           Validate(m, policy, limit)
    PROVE  NoveltyInv'
<1> PICK new, n : new = NewClaims(m) /\ n = Latest
  OBVIOUS
<1> DEFINE claims == Cut(n + 1 .. n + Len(new), limit)
<1>1. /\ stored' = stored \o new /\ at' = "claim"
      /\ call' = [NoveltyLocals("validate", m, 0, policy) EXCEPT !.claims = claims, !.todo = claims]
  BY DEF Validate, Call, Latest
<1>2. /\ Kept /\ StoredSound' /\ ArtifactsSound' /\ n \in Nat /\ Len(new) \in Nat
      /\ \A k \in 1 .. Len(new) : n + k \in OfKind("claim")' /\ n + k \in Nat
  BY <1>1, ClaimsPut
<1>3. claims \subseteq n + 1 .. n + Len(new)
  BY DEF Cut
<1>4. claims \subseteq OfKind("claim")' /\ claims \in SUBSET Nat
  <2>1. \A c \in n + 1 .. n + Len(new) : c - n \in 1 .. Len(new) /\ c = n + (c - n)
    BY ONLY <1>2
  <2>2. \A c \in n + 1 .. n + Len(new) : c \in OfKind("claim")' /\ c \in Nat
    BY ONLY <1>2, <2>1
  <2> HIDE DEF claims
  <2> QED BY ONLY <1>3, <2>2
<1>5. IsFiniteSet(claims)
  <2>1. IsFiniteSet(n + 1 .. n + Len(new))
    BY ONLY <1>2, FS_Interval
  <2> HIDE DEF claims
  <2> QED BY ONLY <1>3, <2>1, FS_Subset
<1>6. m \in Nat /\ m \in Manuscripts' /\ policy \in Nat
  <2>1. Manuscripts \subseteq Manuscripts' /\ Manuscripts \subseteq Stored
    BY <1>2, NoveltyKept, SoundOfKind DEF NoveltyInv, Manuscripts
  <2>2. Stored \subseteq Nat
    BY DEF NoveltyInv, StoredSound, Stored
  <2> QED BY ONLY <2>1, <2>2, SearchAssumption, m \in Manuscripts, policy \in Policies
<1> HIDE DEF claims
<1> PICK k : k = call'
  OBVIOUS
<1>7. /\ k.mode = "validate" /\ k.manuscript = m /\ k.policy = policy
      /\ k.claims = claims /\ k.todo = claims /\ k.reused = {} /\ k.assessed = {}
      /\ k \in NoveltyCalls
  <2>1. k = [NoveltyLocals("validate", m, 0, policy) EXCEPT !.claims = claims, !.todo = claims]
    BY <1>1
  <2> QED BY ONLY <1>4, <1>6, <2>1 DEF NoveltyLocals, NoveltyCalls
<1>8. Validating(k)'
  BY ONLY <1>4, <1>6, <1>7, policy \in Policies DEF Validating
<1>9. Balance(k, 0)
  <2>1. Had(k) = {}
    BY ONLY <1>7 DEF Had
  <2>2. IsFiniteSet({}) /\ Cardinality({}) = 0
    BY FS_EmptySet
  <2>3. Cardinality(claims) \in Nat
    BY ONLY <1>5, FS_CardinalityType
  <2> QED BY ONLY <1>5, <1>7, <2>1, <2>2, <2>3 DEF Balance
<1>10. NoveltyCallSound'
  BY <1>1, <1>7, <1>8, <1>9, ValidatingGoesOn
<1> QED BY <1>2, <1>10 DEF NoveltyInv

(* Pairs that differ in what they are for are no more than that.            *)
LEMMA PairsCounted ==
    ASSUME NEW R, NEW T, IsFiniteSet(T), \A p \in R : p[2] \in T,
           \A p, q \in R : p[2] = q[2] => p = q
    PROVE  /\ IsFiniteSet({p[1] : p \in R})
           /\ Cardinality({p[1] : p \in R}) <= Cardinality(T)
<1> DEFINE F == {p[1] : p \in R}
           f == [p \in R |-> p[2]]
           g == [p \in R |-> p[1]]
<1>1. f \in Injection(R, T)
  BY DEF Injection, IsInjective
<1>2. g \in Surjection(R, F)
  BY DEF Surjection
<1> HIDE DEF f, g, F
<1>3. IsFiniteSet(R) /\ Cardinality(R) <= Cardinality(T)
  BY <1>1, FS_Injection
<1>4. IsFiniteSet(F) /\ Cardinality(F) <= Cardinality(R)
  BY <1>2, <1>3, FS_Surjection
<1>5. Cardinality(R) \in Nat /\ Cardinality(F) \in Nat /\ Cardinality(T) \in Nat
  BY <1>3, <1>4, FS_CardinalityType
<1>6. Cardinality(F) <= Cardinality(T)
  BY ONLY <1>3, <1>4, <1>5
<1> QED BY ONLY <1>4, <1>6 DEF F

(* A call that revalidates begins with the verdicts it takes over, each on  *)
(* a claim that means the same.                                             *)
LEMMA RevalidateKeeps ==
    ASSUME NoveltyInv, NEW previous \in Reports, NEW m \in Manuscripts, NEW policy \in Policies,
           NEW force \in BOOLEAN, NEW same \in SUBSET Similar,
           Revalidate(previous, m, policy, force, same)
    PROVE  NoveltyInv'
<1> PICK new, n : new = NewClaims(m) /\ n = Latest
  OBVIOUS
<1> DEFINE usable(i) == {a \in stored[previous].assessments :
                           /\ ~force /\ Reusable(a, policy)
                           /\ stored[a].claim \in Repeated(new[i], stored[previous].claims, same)}
           again == {i \in DOMAIN new : usable(i) # {}}
           last == {k \in again : \A l \in again : Min(usable(l)) = Min(usable(k)) => l <= k}
           claims == {n + i : i \in DOMAIN new}
           todo == {n + i : i \in DOMAIN new \ again}
           reused == {<<Min(usable(i)), n + i>> : i \in last}
<1>1. /\ stored' = stored \o new /\ at' = "claim"
      /\ call' = [NoveltyLocals("revalidate", m, previous, policy)
                     EXCEPT !.claims = claims, !.todo = todo, !.reused = reused]
  BY DEF Revalidate, Call, Latest
<1>2. /\ Kept /\ StoredSound' /\ ArtifactsSound' /\ n \in Nat /\ Len(new) \in Nat
      /\ DOMAIN new = 1 .. Len(new)
      /\ \A k \in 1 .. Len(new) :
            stored'[n + k] = new[k] /\ n + k \in OfKind("claim")' /\ n + k \in Nat
  BY <1>1, ClaimsPut
<1>3. /\ stored[previous].assessments \subseteq OfKind("assessment")
      /\ OfKind("assessment") \subseteq OfKind("assessment")'
      /\ Reports \subseteq Reports' /\ Manuscripts \subseteq Manuscripts'
      /\ \A kind : OfKind(kind) \in SUBSET Nat
      /\ \A kind : \A i \in OfKind(kind) : stored'[i] = stored[i]
  <2>1. /\ \A kind : OfKind(kind) \subseteq OfKind(kind)' /\ OfKind(kind) \subseteq Stored
    BY <1>2, NoveltyKept, SoundOfKind DEF NoveltyInv
  <2>2. Stored \subseteq Nat
    BY DEF NoveltyInv, StoredSound, Stored
  <2>3. NoveltyReportSound(previous)
    BY SoundOfKind DEF NoveltyInv
  <2> QED BY ONLY <1>2, <2>1, <2>2, <2>3 DEF NoveltyReportSound, Kept, Reports, Manuscripts
\* A verdict that is taken over.
<1>4. ASSUME NEW i \in last
      PROVE  LET a == Min(usable(i))
             IN  /\ a \in OfKind("assessment") /\ stored[a].policy = policy
                 /\ stored[a].claim \in Repeated(new[i], stored[previous].claims, same)
  <2>1. usable(i) # {}
    OBVIOUS
  <2>2. usable(i) \subseteq stored[previous].assessments
    OBVIOUS
  <2>3. usable(i) \in SUBSET Nat
    <3> HIDE DEF usable
    <3> QED BY ONLY <1>3, <2>2
  <2>4. Min(usable(i)) \in usable(i)
    <3> HIDE DEF usable
    <3> QED BY ONLY <2>1, <2>3, FirstPlace
  <2> QED BY <1>3, <2>2, <2>4 DEF Reusable
<1>5. ASSUME NEW i \in last, NEW a, a = Min(usable(i))
      PROVE  /\ a \in OfKind("assessment")' /\ a \in Nat
             /\ stored'[a].policy = policy /\ Says(a, n + i)'
  <2>1. /\ a \in OfKind("assessment") /\ stored[a].policy = policy
        /\ stored[a].claim \in Repeated(new[i], stored[previous].claims, same)
    BY <1>4, <1>5
  <2>2. PICK d : d = stored[a].claim /\ d \in OfKind("claim")
    BY <2>1, SoundOfKind DEF NoveltyInv, AssessmentSound
  <2>a. d \in Repeated(new[i], stored[previous].claims, same)
    BY <2>1, <2>2
  <2>3. /\ stored[d].risk = new[i].risk
        /\ stored[d].wording = new[i].wording \/ <<stored[d].wording, new[i].wording>> \in Similar
    BY ONLY <2>a, same \in SUBSET Similar, RepeatedMeans
  <2>4. stored'[a] = stored[a] /\ stored'[d] = stored[d] /\ stored'[n + i] = new[i]
    BY <1>2, <1>3, <2>1, <2>2
  <2>5. Says(a, n + i)'
    BY ONLY <2>2, <2>3, <2>4 DEF Says
  <2> HIDE DEF usable, last
  <2> QED BY <1>3, <2>1, <2>4, <2>5
<1>6. ASSUME NEW p \in reused
      PROVE  /\ p \in Nat \X Nat /\ p[2] \in claims \ todo
             /\ p[1] \in OfKind("assessment")' /\ stored'[p[1]].policy = policy /\ Says(p[1], p[2])'
  <2>1. PICK i \in last : p = <<Min(usable(i)), n + i>>
    OBVIOUS
  <2>2. i \in again /\ i \in 1 .. Len(new)
    BY <1>2
  <2>3. n + i \in claims \ todo
    <3>1. \A k \in DOMAIN new : n + k = n + i => k = i
      BY ONLY <1>2, <2>2
    <3> HIDE DEF again
    <3> QED BY ONLY <1>2, <2>2, <3>1
  <2> HIDE DEF usable, last
  <2>4. PICK a : a = Min(usable(i))
    OBVIOUS
  <2>5. p = <<a, n + i>> /\ p[1] = a /\ p[2] = n + i
    BY ONLY <2>1, <2>4
  <2>6. /\ a \in OfKind("assessment")' /\ a \in Nat
        /\ stored'[a].policy = policy /\ Says(a, n + i)'
    BY <1>5, <2>4
  <2>7. Says(p[1], p[2])'
    BY ONLY <2>5, <2>6 DEF Says
  <2>8. n + i \in Nat
    BY <1>2, <2>2
  <2> QED BY ONLY <2>3, <2>5, <2>6, <2>7, <2>8
<1>7. \A p, q \in reused : p[2] = q[2] => p = q
  <2> TAKE p, q \in reused
  <2>1. PICK i \in last : p = <<Min(usable(i)), n + i>>
    OBVIOUS
  <2>2. PICK j \in last : q = <<Min(usable(j)), n + j>>
    OBVIOUS
  <2>3. i \in 1 .. Len(new) /\ j \in 1 .. Len(new)
    BY <1>2
  <2> HIDE DEF usable, last
  <2> QED BY ONLY <1>2, <2>1, <2>2, <2>3
<1>8. claims \subseteq OfKind("claim")' /\ claims \in SUBSET Nat /\ todo \subseteq claims
      /\ IsFiniteSet(claims)
  <2>1. claims \subseteq n + 1 .. n + Len(new)
    BY ONLY <1>2
  <2>2. IsFiniteSet(n + 1 .. n + Len(new))
    BY ONLY <1>2, FS_Interval
  <2>3. claims \subseteq OfKind("claim")' /\ claims \in SUBSET Nat
    BY ONLY <1>2
  <2>4. todo \subseteq claims
    <3> HIDE DEF again
    <3> QED BY ONLY TRUE
  <2> HIDE DEF claims, todo
  <2> QED BY ONLY <2>1, <2>2, <2>3, <2>4, FS_Subset
<1> HIDE DEF usable, again, last, claims, todo, reused
<1>9. IsFiniteSet({p[1] : p \in reused})
      /\ Cardinality({p[1] : p \in reused}) + Cardinality(todo) <= Cardinality(claims)
  <2>1. IsFiniteSet(claims \ todo) /\ IsFiniteSet(todo)
    BY ONLY <1>8, FS_Subset
  <2>2. IsFiniteSet({p[1] : p \in reused})
        /\ Cardinality({p[1] : p \in reused}) <= Cardinality(claims \ todo)
    BY <1>6, <1>7, <2>1, PairsCounted
  <2>3. Cardinality((claims \ todo) \cup todo)
          = Cardinality(claims \ todo) + Cardinality(todo) - Cardinality((claims \ todo) \cap todo)
    BY ONLY <2>1, FS_Union
  <2>4. (claims \ todo) \cup todo = claims /\ (claims \ todo) \cap todo = {}
    BY <1>8
  <2>5. Cardinality({}) = 0
    BY FS_EmptySet
  <2>6. Cardinality(claims) = Cardinality(claims \ todo) + Cardinality(todo) - 0
    BY ONLY <2>3, <2>4, <2>5
  <2>7. /\ Cardinality(claims \ todo) \in Nat /\ Cardinality(todo) \in Nat
        /\ Cardinality({p[1] : p \in reused}) \in Nat
    BY ONLY <2>1, <2>2, FS_CardinalityType
  <2> QED BY ONLY <2>2, <2>6, <2>7
<1>10. m \in Nat /\ m \in Manuscripts' /\ policy \in Nat /\ previous \in Nat /\ previous \in Reports'
  BY <1>3, SearchAssumption DEF Manuscripts, Reports
<1> PICK k : k = call'
  OBVIOUS
<1>11. /\ k.mode = "revalidate" /\ k.manuscript = m /\ k.policy = policy /\ k.previous = previous
       /\ k.claims = claims /\ k.todo = todo /\ k.reused = reused /\ k.assessed = {}
       /\ k \in NoveltyCalls
  <2>1. k = [NoveltyLocals("revalidate", m, previous, policy)
               EXCEPT !.claims = claims, !.todo = todo, !.reused = reused]
    BY <1>1
  <2>2. reused \in SUBSET (Nat \X Nat) /\ claims \in SUBSET Nat /\ todo \in SUBSET Nat
    BY <1>6, <1>8
  <2> QED BY ONLY <1>10, <2>1, <2>2 DEF NoveltyLocals, NoveltyCalls
<1>12. Validating(k)'
  BY ONLY <1>6, <1>8, <1>10, <1>11, policy \in Policies DEF Validating
<1>13. Balance(k, 0)
  <2>1. Had(k) = {p[1] : p \in reused}
    BY ONLY <1>11 DEF Had
  <2>2. IsFiniteSet(todo)
    BY ONLY <1>8, FS_Subset
  <2>3. Cardinality(Had(k)) \in Nat /\ Cardinality(todo) \in Nat /\ Cardinality(claims) \in Nat
    BY ONLY <1>8, <1>9, <2>1, <2>2, FS_CardinalityType
  <2> QED BY ONLY <1>8, <1>9, <1>11, <2>1, <2>2, <2>3 DEF Balance
<1>14. NoveltyCallSound'
  BY <1>1, <1>11, <1>12, <1>13, ValidatingGoesOn
<1> QED BY <1>2, <1>14 DEF NoveltyInv

(* A call that is on with its claims, as it was found.                      *)
LEMMA ValidatingCall ==
    ASSUME NoveltyInv, at \in {"claim", "assess", "recommend"}, NEW k, k = call,
           NEW going, going = IF at = "assess" THEN 1 ELSE 0
    PROVE  k \in NoveltyCalls /\ Validating(k) /\ Balance(k, going)
BY DEF NoveltyInv, NoveltyCallSound

(* A call that leaves claims or assessments out is as sound as it was.      *)
LEMMA ValidatingLess ==
    ASSUME NEW k \in NoveltyCalls, NEW going \in Nat, Validating(k)', Balance(k, going),
           NEW failed \in Nat, NEW todo \in SUBSET k.todo, NEW assessed \in SUBSET k.assessed,
           NEW l, l = [k EXCEPT !.failed = failed, !.todo = todo, !.assessed = assessed]
    PROVE  l \in NoveltyCalls /\ Validating(l)' /\ Balance(l, 0)
<1>1. /\ l \in NoveltyCalls /\ l.mode = k.mode /\ l.manuscript = k.manuscript /\ l.policy = k.policy
      /\ l.previous = k.previous /\ l.claims = k.claims /\ l.reused = k.reused
      /\ l.todo = todo /\ l.assessed = assessed
  BY ONLY k \in NoveltyCalls, failed \in Nat, todo \in SUBSET k.todo, assessed \in SUBSET k.assessed,
          l = [k EXCEPT !.failed = failed, !.todo = todo, !.assessed = assessed]
     DEF NoveltyCalls
<1>2. Validating(l)'
  BY <1>1 DEF Validating
<1>3. Had(l) \subseteq Had(k)
  BY <1>1 DEF Had
<1>4. IsFiniteSet(k.claims) /\ IsFiniteSet(k.todo) /\ IsFiniteSet(Had(k))
      /\ Cardinality(Had(k)) + Cardinality(k.todo) + going <= Cardinality(k.claims)
  BY DEF Balance
<1>5. /\ IsFiniteSet(Had(l)) /\ Cardinality(Had(l)) <= Cardinality(Had(k))
      /\ IsFiniteSet(todo) /\ Cardinality(todo) <= Cardinality(k.todo)
  BY <1>3, <1>4, FS_Subset
<1>6. /\ Cardinality(Had(l)) \in Nat /\ Cardinality(Had(k)) \in Nat /\ Cardinality(todo) \in Nat
      /\ Cardinality(k.todo) \in Nat /\ Cardinality(k.claims) \in Nat
  BY <1>4, <1>5, FS_CardinalityType
<1>7. Cardinality(Had(l)) + Cardinality(todo) + 0 <= Cardinality(k.claims)
  BY ONLY <1>4, <1>5, <1>6, going \in Nat
<1> QED BY ONLY <1>1, <1>2, <1>4, <1>5, <1>7 DEF Balance

(* A step that goes back to the claims or on with the next.                 *)
LEMMA StillValidating ==
    ASSUME NoveltyInv, at \in {"claim", "assess", "recommend"}, at' \in {"claim", "recommend"},
           Kept, StoredSound', ArtifactsSound',
           NEW failed \in Nat, NEW todo \in SUBSET call.todo, NEW assessed \in SUBSET call.assessed,
           call' = [call EXCEPT !.failed = failed, !.todo = todo, !.assessed = assessed]
    PROVE  NoveltyInv'
<1> PICK k, l, going : k = call /\ l = call' /\ going = IF at = "assess" THEN 1 ELSE 0
  OBVIOUS
<1>1. k \in NoveltyCalls /\ Validating(k) /\ Balance(k, going) /\ going \in Nat
  BY ValidatingCall
<1>2. Validating(k)'
  BY <1>1, NoveltyKept DEF NoveltyInv
<1>3. todo \in SUBSET k.todo /\ assessed \in SUBSET k.assessed
      /\ l = [k EXCEPT !.failed = failed, !.todo = todo, !.assessed = assessed]
  OBVIOUS
<1>4. l \in NoveltyCalls /\ Validating(l)' /\ Balance(l, 0)
  BY ONLY <1>1, <1>2, <1>3, failed \in Nat, ValidatingLess
<1>5. NoveltyCallSound'
  BY <1>4, ValidatingGoesOn
<1> QED BY <1>5 DEF NoveltyInv

(* What is acquired on the way changes nothing of the call.                 *)
LEMMA AcquireKeeps ==
    ASSUME NoveltyInv, NEW paper, Acquire(paper)
    PROVE  NoveltyInv'
<1> DEFINE a == [kind |-> "evidence", paper |-> paper]
<1>1. at = "claim" /\ at' = "claim" /\ call' = call /\ Put(a)
  BY DEF Acquire, Goto
<1> PICK new : new = Latest + 1
  OBVIOUS
<1>2. /\ Kept /\ StoredSound' /\ stored'[new] = a /\ (ArtifactSound(new)' => ArtifactsSound')
  BY <1>1, NoveltyPut
<1>3. ArtifactSound(new)'
  <2>1. stored'[new].kind = "evidence"
    BY <1>2
  <2> QED BY ONLY <2>1 DEF ArtifactSound
<1>4. call \in NoveltyCalls
  BY <1>1 DEF NoveltyInv, NoveltyCallSound
<1>5. PICK failed, todo, assessed :
         /\ failed \in Nat /\ todo \in SUBSET call.todo /\ assessed \in SUBSET call.assessed
         /\ call' = [call EXCEPT !.failed = failed, !.todo = todo, !.assessed = assessed]
  <2>1. call = [call EXCEPT !.failed = call.failed, !.todo = call.todo, !.assessed = call.assessed]
        /\ call.failed \in Nat
    BY ONLY <1>4 DEF NoveltyCalls
  <2> QED BY <1>1, <2>1
<1> QED BY <1>1, <1>2, <1>3, <1>5, StillValidating

(* Neither does what is recommended, and a failure leaves out a claim or    *)
(* its assessment.                                                          *)
LEMMA FailuresKeep ==
    ASSUME NoveltyInv, Recommended \/ ClaimFails \/ PreacquisitionFails
    PROVE  NoveltyInv'
<1>1. /\ at \in {"claim", "assess", "recommend"} /\ at' = "claim" /\ stored' = stored
      /\ \/ call' = call
         \/ call' = [call EXCEPT !.failed = 1]
         \/ call' = [call EXCEPT !.failed = @ + 1,
                                 !.todo = IF at = "claim" THEN @ \ {Min(@)} ELSE @,
                                 !.assessed = IF at = "recommend" THEN @ \ {Max(@)} ELSE @]
  BY DEF Recommended, ClaimFails, PreacquisitionFails, Goto
<1>2. call \in NoveltyCalls
  BY <1>1 DEF NoveltyInv, NoveltyCallSound
<1>3. PICK failed, todo, assessed :
         /\ failed \in Nat /\ todo \in SUBSET call.todo /\ assessed \in SUBSET call.assessed
         /\ call' = [call EXCEPT !.failed = failed, !.todo = todo, !.assessed = assessed]
  <2>1. CASE call' = call
    <3>1. call = [call EXCEPT !.failed = call.failed, !.todo = call.todo, !.assessed = call.assessed]
          /\ call.failed \in Nat
      BY ONLY <1>2 DEF NoveltyCalls
    <3> QED BY <2>1, <3>1
  <2>2. CASE call' = [call EXCEPT !.failed = 1]
    <3>1. call' = [call EXCEPT !.failed = 1, !.todo = call.todo, !.assessed = call.assessed]
      BY ONLY <1>2, <2>2 DEF NoveltyCalls
    <3> QED BY <3>1
  <2>3. CASE call' = [call EXCEPT !.failed = @ + 1,
                                  !.todo = IF at = "claim" THEN @ \ {Min(@)} ELSE @,
                                  !.assessed = IF at = "recommend" THEN @ \ {Max(@)} ELSE @]
    <3> PICK failed, todo, assessed :
           /\ failed = call.failed + 1
           /\ todo = IF at = "claim" THEN call.todo \ {Min(call.todo)} ELSE call.todo
           /\ assessed = IF at = "recommend" THEN call.assessed \ {Max(call.assessed)} ELSE call.assessed
      OBVIOUS
    <3>1. failed \in Nat /\ todo \in SUBSET call.todo /\ assessed \in SUBSET call.assessed
      BY <1>2 DEF NoveltyCalls
    <3>2. call' = [call EXCEPT !.failed = failed, !.todo = todo, !.assessed = assessed]
      BY <1>2, <2>3 DEF NoveltyCalls
    <3> QED BY ONLY <3>1, <3>2
  <2> QED BY <1>1, <2>1, <2>2, <2>3
<1>4. Kept /\ StoredSound' /\ ArtifactsSound'
  BY <1>1, NoveltyQuiet
<1> QED BY <1>1, <1>3, <1>4, StillValidating

(* What is found for a claim is judged from evidence.                       *)
LEMMA AssessCandidatesKeeps ==
    ASSUME NoveltyInv, NEW papers \in CandidateSets, NEW judged \in [DOMAIN papers -> Relationships],
           AssessCandidates(papers, judged)
    PROVE  NoveltyInv'
<1> PICK new, n, claim :
       new = [i \in DOMAIN papers |-> CandidateOf(papers[i], judged[i])] /\ n = Latest /\ claim = Min(call.todo)
  OBVIOUS
<1>1. /\ at = "claim" /\ at' = "assess" /\ call.todo # {} /\ stored' = stored \o new
      /\ call' = [call EXCEPT !.claim = claim, !.todo = @ \ {claim},
                              !.candidates = n + 1 .. n + Len(papers)]
  BY DEF AssessCandidates, Goto, Latest
<1>2. /\ Len(papers) \in Nat /\ DOMAIN papers = 1 .. Len(papers)
      /\ \A i \in 1 .. Len(papers) : papers[i] \in PriorArt /\ judged[i] \in Judgements
  <2>1. Cardinality(PriorArt) \in Nat
    BY SearchAssumption, FS_CardinalityType
  <2>2. PICK l \in Nat : papers \in [1 .. l -> PriorArt]
    BY <2>1 DEF CandidateSets
  <2>3. Len(papers) = l /\ papers \in Seq(PriorArt) /\ DOMAIN papers = 1 .. l
    BY <2>2
  <2> QED BY <2>2, <2>3, SearchAssumption
<1> DEFINE T == [kind : {"candidate"}, paper : PriorArt, sparse : BOOLEAN, of : {0},
                 relationship : Judgements]
<1>3. \A i \in 1 .. Len(papers) :
         /\ CandidateOf(papers[i], judged[i]) \in T
         /\ CandidateOf(papers[i], judged[i]).paper = papers[i]
         /\ CandidateOf(papers[i], judged[i]).relationship # "insufficient" => HasEvidence(papers[i])
  <2> TAKE i \in 1 .. Len(papers)
  <2>1. papers[i] \in PriorArt /\ judged[i] \in Judgements /\ "insufficient" \in Judgements
    BY <1>2 DEF Judgements
  <2>2. HasEvidence(papers[i]) \in BOOLEAN
    BY DEF HasEvidence
  <2> QED BY ONLY <2>1, <2>2 DEF CandidateOf
<1>4. new \in Seq(T) /\ Len(new) = Len(papers) /\ \A i \in 1 .. Len(papers) : new[i] = CandidateOf(papers[i], judged[i])
  <2>1. new = [i \in 1 .. Len(papers) |-> CandidateOf(papers[i], judged[i])]
    BY <1>2
  <2>2. \A i \in 1 .. Len(papers) : new[i] = CandidateOf(papers[i], judged[i]) /\ new[i] \in T
    BY ONLY <1>3, <2>1
  <2> HIDE DEF T
  <2>3. new \in Seq(T) /\ Len(new) = Len(papers)
    BY ONLY <1>2, <2>1, <2>2
  <2> QED BY ONLY <2>2, <2>3
<1>5. /\ Kept /\ StoredSound' /\ n \in Nat /\ Stored' = 1 .. n + Len(papers)
      /\ \A i \in 1 .. Len(papers) : stored'[n + i] = new[i]
      /\ (\A i \in 1 .. Len(papers) : ArtifactSound(n + i)') => ArtifactsSound'
  <2> HIDE DEF T
  <2>1. /\ Kept /\ StoredSound' /\ Latest \in Nat
        /\ Stored' = 1 .. Latest + Len(new)
        /\ \A i \in 1 .. Len(new) : stored'[n + i] = new[i]
        /\ (\A i \in 1 .. Len(new) : ArtifactSound(n + i)') => ArtifactsSound'
    <3>1. NoveltyInv /\ new \in Seq(T) /\ stored' = stored \o new /\ n = Latest
      BY <1>1, <1>4
    <3> QED BY ONLY <3>1, NoveltyPuts
  <2> QED BY ONLY <1>4, <2>1, n = Latest
<1>6. \A p : HasEvidence(p) => HasEvidence(p)'
  BY <1>5, NoveltyKept DEF NoveltyInv
<1>7. ASSUME NEW i \in 1 .. Len(papers)
      PROVE  ArtifactSound(n + i)' /\ n + i \in OfKind("candidate")'
  <2>1. /\ stored'[n + i] \in T /\ stored'[n + i].paper = papers[i]
        /\ stored'[n + i].relationship # "insufficient" => HasEvidence(papers[i])'
    BY ONLY <1>3, <1>4, <1>5, <1>6, i \in 1 .. Len(papers)
  <2>2. n + i \in Stored'
    BY ONLY <1>2, <1>5, i \in 1 .. Len(papers)
  <2>3. stored'[n + i].kind = "candidate" /\ stored'[n + i].of = 0
        /\ stored'[n + i] \in [kind : {"candidate"}, paper : PriorArt, sparse : BOOLEAN, of : Nat,
                               relationship : Judgements]
    BY ONLY <2>1
  <2>4. CandidateSound(n + i)'
    BY ONLY <2>1, <2>3 DEF CandidateSound
  <2> QED BY <2>2, <2>3, <2>4 DEF ArtifactSound, OfKind
<1> PICK k, l, candidates : k = call /\ l = call' /\ candidates = n + 1 .. n + Len(papers)
  OBVIOUS
<1>8. k \in NoveltyCalls /\ Validating(k) /\ Balance(k, 0)
  BY <1>1, ValidatingCall
<1>9. claim \in k.todo /\ claim \in Nat
  <2>1. k.todo \in SUBSET Nat /\ k.todo # {}
    BY <1>1, <1>8 DEF NoveltyCalls
  <2> QED BY <2>1, FirstPlace
<1>10. candidates \subseteq OfKind("candidate")' /\ candidates \in SUBSET Nat
  <2>1. \A c \in candidates : c - n \in 1 .. Len(papers) /\ c = n + (c - n) /\ c \in Nat
    BY ONLY <1>2, <1>5, candidates = n + 1 .. n + Len(papers)
  <2>2. \A c \in candidates : c \in OfKind("candidate")' /\ c \in Nat
    BY ONLY <1>7, <2>1
  <2> QED BY ONLY <2>2
<1>11. /\ l \in NoveltyCalls /\ l.mode = k.mode /\ l.manuscript = k.manuscript /\ l.policy = k.policy
       /\ l.previous = k.previous /\ l.claims = k.claims /\ l.reused = k.reused
       /\ l.todo = k.todo \ {claim} /\ l.assessed = k.assessed /\ l.claim = claim /\ l.candidates = candidates
  <2>1. l = [k EXCEPT !.claim = claim, !.todo = @ \ {claim}, !.candidates = candidates]
    BY <1>1
  <2> QED BY ONLY <1>8, <1>9, <1>10, <2>1 DEF NoveltyCalls
<1>12. Validating(l)'
  <2>1. Validating(k)'
    BY <1>5, <1>8, NoveltyKept DEF NoveltyInv
  <2> QED BY ONLY <1>11, <2>1 DEF Validating
<1>13. claim \in OfKind("claim")'
  <2>1. claim \in OfKind("claim")
    BY <1>8, <1>9 DEF Validating
  <2> QED BY <1>5, <2>1, NoveltyKept DEF NoveltyInv
<1>14. Balance(l, 1)
  <2>1. Had(l) = Had(k)
    BY ONLY <1>11 DEF Had
  <2>2. IsFiniteSet(k.claims) /\ IsFiniteSet(k.todo) /\ IsFiniteSet(Had(k))
        /\ Cardinality(Had(k)) + Cardinality(k.todo) + 0 <= Cardinality(k.claims)
    BY <1>8 DEF Balance
  <2>3. IsFiniteSet(l.todo) /\ Cardinality(l.todo) = Cardinality(k.todo) - 1
    <3>1. /\ IsFiniteSet(k.todo \ {claim})
          /\ Cardinality(k.todo \ {claim}) = Cardinality(k.todo) - 1
      BY ONLY <1>9, <2>2, FS_RemoveElement
    <3> QED BY ONLY <1>11, <3>1
  <2>4. /\ Cardinality(Had(k)) \in Nat /\ Cardinality(k.todo) \in Nat
        /\ Cardinality(k.claims) \in Nat
    BY ONLY <2>2, FS_CardinalityType
  <2>5. Cardinality(Had(k)) + Cardinality(l.todo) + 1 <= Cardinality(k.claims)
    BY ONLY <2>2, <2>3, <2>4
  <2> QED BY ONLY <1>11, <2>1, <2>2, <2>3, <2>5 DEF Balance
<1>15. NoveltyCallSound'
  <2>1. at' = "assess"
    BY <1>1
  <2>2. Validating(call)' /\ Balance(call', 1) /\ call' \in NoveltyCalls
        /\ call'.claim \in OfKind("claim")' /\ call'.candidates \subseteq OfKind("candidate")'
    <3>1. l = call'
      OBVIOUS
    <3> QED BY ONLY <1>10, <1>11, <1>12, <1>13, <1>14, <3>1 DEF Validating
  <2> QED BY ONLY <2>1, <2>2 DEF NoveltyCallSound, Balance, Had
<1>16. ArtifactsSound'
  BY <1>5, <1>7
<1> QED BY <1>5, <1>15, <1>16 DEF NoveltyInv

(* What an assessment says follows from its candidates, old or new.         *)
LEMMA AssessmentPut ==
    ASSUME NoveltyInv, Kept, NEW claim \in OfKind("claim"), NEW candidates \in SUBSET OfKind("candidate"),
           NEW searched \in BOOLEAN, NEW policy \in Policies, NEW covered, covered => searched,
           NEW a \in Stored',
           stored'[a] = [kind |-> "assessment", claim |-> claim, candidates |-> candidates,
                         searched |-> searched, policy |-> policy,
                         status |-> ClaimStatus(covered, candidates)],
           StoredSound'
    PROVE  ArtifactSound(a)'
<1>1. \A k \in candidates : stored[k].relationship \in Judgements /\ stored'[k] = stored[k]
  BY SoundOfKind DEF NoveltyInv, CandidateSound, Kept
<1>2. PICK status : status = ClaimStatus(covered, candidates)
  OBVIOUS
<1>3. /\ status \in ClaimStatuses
      /\ status = "not_threatened" => searched /\ \A k \in candidates : stored'[k].relationship = "distinct"
  BY <1>1, <1>2, StatusMeans
<1>4. claim \in OfKind("claim")' /\ candidates \in SUBSET OfKind("candidate")'
  BY NoveltyKept DEF NoveltyInv
<1>5. stored'[a] = [kind |-> "assessment", claim |-> claim, candidates |-> candidates,
                    searched |-> searched, policy |-> policy, status |-> status]
  BY <1>2
<1>6. AssessmentSound(a)'
  BY ONLY <1>3, <1>4, <1>5, searched \in BOOLEAN, policy \in Policies DEF AssessmentSound
<1>7. stored'[a].kind = "assessment"
  BY ONLY <1>5
<1> QED BY ONLY <1>6, <1>7 DEF ArtifactSound

(* A claim gets its assessment.                                             *)
LEMMA AssessClaimKeeps ==
    ASSUME NoveltyInv, NEW searched \in BOOLEAN, AssessClaim(searched)
    PROVE  NoveltyInv'
<1> PICK new, k, l, covered :
       new = Latest + 1 /\ k = call /\ l = call' /\ covered = Covered(call.claim, searched, call.candidates)
  OBVIOUS
<1> DEFINE a == [kind |-> "assessment", claim |-> k.claim, candidates |-> k.candidates,
                 searched |-> searched, policy |-> k.policy,
                 status |-> ClaimStatus(covered, k.candidates)]
<1>1. at = "assess" /\ at' = "recommend" /\ Put(a)
      /\ call' = [call EXCEPT !.assessed = @ \cup {new}]
  BY DEF AssessClaim, Goto, Latest
<1>2. /\ k \in NoveltyCalls /\ Validating(k) /\ Balance(k, 1)
      /\ k.claim \in OfKind("claim") /\ k.candidates \subseteq OfKind("candidate")
  BY <1>1, ValidatingCall DEF NoveltyInv, NoveltyCallSound
<1> HIDE DEF a
<1>3. /\ Kept /\ StoredSound' /\ new \in Nat /\ new \in Stored' /\ stored'[new] = a
      /\ ArtifactSound(new)' => ArtifactsSound'
      /\ a.kind = "assessment" => OfKind("assessment")' = OfKind("assessment") \cup {new}
  BY <1>1, NoveltyPut
<1>4. covered => searched
  BY DEF Covered
<1>5. k.policy \in Policies
  BY <1>2 DEF Validating
<1>6. ArtifactSound(new)'
  BY <1>2, <1>3, <1>4, <1>5, AssessmentPut DEF a
<1>7. new \in OfKind("assessment")' /\ stored'[new].policy = k.policy
  <2>1. a.kind = "assessment" /\ a.policy = k.policy
    BY DEF a
  <2> QED BY <1>3, <2>1
<1>8. /\ l \in NoveltyCalls /\ l.mode = k.mode /\ l.manuscript = k.manuscript /\ l.policy = k.policy
      /\ l.previous = k.previous /\ l.claims = k.claims /\ l.reused = k.reused
      /\ l.todo = k.todo /\ l.assessed = k.assessed \cup {new}
  <2>1. l = [k EXCEPT !.assessed = @ \cup {new}]
    BY <1>1
  <2> QED BY ONLY <1>2, <1>3, <2>1 DEF NoveltyCalls
<1>9. Validating(l)'
  <2>1. Validating(k)'
    BY <1>2, <1>3, NoveltyKept DEF NoveltyInv
  <2> QED BY ONLY <1>7, <1>8, <2>1 DEF Validating
<1>10. Balance(l, 0)
  <2>1. Had(l) = Had(k) \cup {new}
    BY ONLY <1>8 DEF Had
  <2>2. IsFiniteSet(k.claims) /\ IsFiniteSet(k.todo) /\ IsFiniteSet(Had(k))
        /\ Cardinality(Had(k)) + Cardinality(k.todo) + 1 <= Cardinality(k.claims)
    BY <1>2 DEF Balance
  <2>3. /\ IsFiniteSet(Had(l))
        /\ Cardinality(Had(l)) = IF new \in Had(k) THEN Cardinality(Had(k)) ELSE Cardinality(Had(k)) + 1
    BY ONLY <2>1, <2>2, FS_AddElement
  <2>4. Cardinality(Had(k)) \in Nat /\ Cardinality(k.todo) \in Nat /\ Cardinality(k.claims) \in Nat
    BY ONLY <2>2, FS_CardinalityType
  <2>5. Cardinality(Had(l)) + Cardinality(k.todo) + 0 <= Cardinality(k.claims)
    BY ONLY <2>2, <2>3, <2>4
  <2> QED BY ONLY <1>8, <2>2, <2>3, <2>5 DEF Balance
<1>11. NoveltyCallSound'
  BY <1>1, <1>8, <1>9, <1>10, ValidatingGoesOn
<1> QED BY <1>3, <1>6, <1>11 DEF NoveltyInv

(* A report is sound if it counts its assessments and is clear only if they *)
(* clear its claims.                                                        *)
LEMMA ReportPut ==
    ASSUME NoveltyInv, Kept, StoredSound', NEW r \in Stored', NEW manuscript \in Manuscripts,
           NEW claims \in SUBSET OfKind("claim"), NEW assessments \in SUBSET OfKind("assessment"),
           NEW failed \in Nat, NEW policy \in Policies, NEW overall, NEW supersedes \in Nat,
           overall \in {"blocked", "revise", "unverified", "clear"}, supersedes < r,
           \A a \in assessments : stored[a].policy = policy,
           IsFiniteSet(claims), IsFiniteSet(assessments),
           Cardinality(assessments) <= Cardinality(claims),
           overall = "clear" => Cleared(claims, assessments),
           stored'[r] = [kind |-> "novelty report", manuscript |-> manuscript, claims |-> claims,
                         assessments |-> assessments, failed |-> failed, policy |-> policy,
                         overall |-> overall, supersedes |-> supersedes]
    PROVE  ArtifactSound(r)'
<1>1. /\ manuscript \in Manuscripts' /\ claims \in SUBSET OfKind("claim")'
      /\ assessments \in SUBSET OfKind("assessment")'
  BY NoveltyKept DEF NoveltyInv, Manuscripts
<1>2. \A a \in assessments : stored'[a] = stored[a]
  BY SoundOfKind DEF NoveltyInv, Kept
<1>3. overall = "clear" => Cleared(claims, assessments)'
  <2> HAVE overall = "clear"
  <2>1. ASSUME NEW c \in claims
        PROVE  \E a \in assessments : stored'[a].status = "not_threatened" /\ Says(a, c)'
    <3>1. PICK a \in assessments : stored[a].status = "not_threatened" /\ Says(a, c)
      BY DEF Cleared
    <3>2. Says(a, c)'
      BY <3>1, NoveltyKept DEF NoveltyInv
    <3> QED BY <1>2, <3>1, <3>2
  <2> QED BY <2>1 DEF Cleared
<1>4. PICK x : x = stored'[r]
  OBVIOUS
<1>5. x = [kind |-> "novelty report", manuscript |-> manuscript, claims |-> claims,
           assessments |-> assessments, failed |-> failed, policy |-> policy,
           overall |-> overall, supersedes |-> supersedes]
  BY <1>4
<1>6. /\ x.kind = "novelty report" /\ x.claims = claims
      /\ x.assessments = assessments /\ x.policy = policy
      /\ x.overall = overall /\ x.supersedes = supersedes
  BY ONLY <1>5
<1>7. x \in [kind : {"novelty report"}, manuscript : Manuscripts',
             claims : SUBSET OfKind("claim")', assessments : SUBSET OfKind("assessment")',
             failed : Nat, policy : Policies,
             overall : {"blocked", "revise", "unverified", "clear"}, supersedes : Nat]
  BY ONLY <1>1, <1>5, failed \in Nat, policy \in Policies, supersedes \in Nat,
          overall \in {"blocked", "revise", "unverified", "clear"}
<1>8. \A a \in assessments : stored'[a].policy = policy
  BY <1>2
<1>9. NoveltyReportSound(r)'
  <2>1. supersedes < r /\ IsFiniteSet(claims) /\ IsFiniteSet(assessments)
        /\ Cardinality(assessments) <= Cardinality(claims)
    OBVIOUS
  <2> QED BY ONLY <1>3, <1>4, <1>6, <1>7, <1>8, <2>1 DEF NoveltyReportSound, Cleared
<1>10. stored'[r].kind = "novelty report"
  BY ONLY <1>4, <1>6
<1> QED BY ONLY <1>9, <1>10 DEF ArtifactSound

(* The latest report is a report of the manuscript, if there is one.        *)
LEMMA LatestFound ==
    ASSUME StoredSound, NEW m
    PROVE  /\ LatestReport(m) \in 0 .. Latest /\ Latest \in Nat
           /\ LatestReport(m) # 0 => LatestReport(m) \in Reports
<1>1. Latest \in Nat /\ Stored = 1 .. Latest
  BY DEF StoredSound, Stored, Latest
<1>2. Reports \subseteq 1 .. Latest
  BY <1>1 DEF Reports, OfKind
<1> DEFINE mine == {r \in Reports : stored[r].manuscript = m}
           open == {0} \cup (mine \ {stored[r].supersedes : r \in mine})
<1>3. LatestReport(m) = Max(open)
  BY DEF LatestReport
<1>4. open \in SUBSET (0 .. Latest) /\ open # {} /\ open \subseteq {0} \cup Reports
  <2>1. mine \subseteq Reports
    OBVIOUS
  <2>2. open \subseteq {0} \cup Reports /\ 0 \in open
    <3> HIDE DEF mine
    <3> QED BY ONLY <2>1
  <2> HIDE DEF open
  <2>3. {0} \cup Reports \subseteq 0 .. Latest
    BY ONLY <1>1, <1>2
  <2> QED BY ONLY <2>2, <2>3
<1> HIDE DEF open
<1>5. Max(open) \in open
  BY ONLY <1>1, <1>4, LastOrNone
<1> QED BY ONLY <1>1, <1>3, <1>4, <1>5

(* A report is clear only if its assessments clear its claims.              *)
LEMMA VerdictsMean ==
    ASSUME ArtifactsSound, NEW claims, NEW assessments \in SUBSET OfKind("assessment"), NEW verdicts,
           \A v \in verdicts : \E a \in assessments : v[2] = stored[a].status /\ Says(a, v[1])
    PROVE  /\ Overall(claims, verdicts) \in {"blocked", "revise", "unverified", "clear"}
           /\ Overall(claims, verdicts) = "clear" => Cleared(claims, assessments)
<1>1. \A v \in verdicts : v[2] \in ClaimStatuses
  BY SoundOfKind DEF AssessmentSound
<1>2. /\ Overall(claims, verdicts) \in {"blocked", "revise", "unverified", "clear"}
      /\ Overall(claims, verdicts) = "clear" =>
            /\ claims # {}
            /\ \A c \in claims : \E v \in verdicts : v[1] = c /\ v[2] = "not_threatened"
  BY ONLY <1>1, ClearMeans
<1>3. ASSUME NEW c, NEW v \in verdicts, v[1] = c, v[2] = "not_threatened"
      PROVE  \E a \in assessments : stored[a].status = "not_threatened" /\ Says(a, c)
  BY <1>3
<1> QED BY ONLY <1>2, <1>3 DEF Cleared

(* The verdicts of assessments are of them.                                 *)
LEMMA OwnVerdictsMean ==
    ASSUME NEW assessments
    PROVE  \A v \in OwnVerdicts(assessments) :
              \E a \in assessments : v[2] = stored[a].status /\ Says(a, v[1])
<1> TAKE v \in OwnVerdicts(assessments)
<1>1. PICK a \in assessments : v = <<stored[a].claim, stored[a].status>>
  BY DEF OwnVerdicts
<1>2. Says(a, stored[a].claim)
  BY SaysItsOwn
<1>3. v[1] = stored[a].claim /\ v[2] = stored[a].status
  BY <1>1
<1>4. Says(a, v[1])
  BY <1>2, <1>3
<1> QED BY <1>3, <1>4

(* A report of all claims; a revalidation goes on to its gate.              *)
LEMMA PutReportNoveltyKeeps ==
    ASSUME NoveltyInv, PutNoveltyReport
    PROVE  NoveltyInv'
<1> PICK new, k, l, n : new = Latest + 1 /\ k = call /\ l = call' /\ n = Latest
  OBVIOUS
<1> DEFINE verdicts == {<<r[2], stored[r[1]].status>> : r \in k.reused} \cup OwnVerdicts(k.assessed)
           overall == Overall(k.claims, verdicts)
           supersedes == IF k.mode = "revalidate" THEN k.previous ELSE LatestReport(k.manuscript)
           a == [kind |-> "novelty report", manuscript |-> k.manuscript, claims |-> k.claims,
                 assessments |-> Had(k), failed |-> k.failed, policy |-> k.policy,
                 overall |-> overall, supersedes |-> supersedes]
<1>1. /\ at = "claim" /\ k.todo = {} /\ Put(a)
      /\ \/ at' = "gate" /\ call' = [call EXCEPT !.report = new]
         \/ Return
  BY DEF PutNoveltyReport, Goto, Had, Latest
<1>2. k \in NoveltyCalls /\ Validating(k) /\ Balance(k, 0)
  BY <1>1, ValidatingCall
<1>3. PICK o, s : o = overall /\ s = supersedes
  OBVIOUS
<1>4. Had(k) \in SUBSET OfKind("assessment") /\ \A b \in Had(k) : stored[b].policy = k.policy
  BY <1>2 DEF Had, Validating
<1>5. /\ o \in {"blocked", "revise", "unverified", "clear"}
      /\ o = "clear" => Cleared(k.claims, Had(k))
  <2>1. ASSUME NEW v \in verdicts
        PROVE  \E b \in Had(k) : v[2] = stored[b].status /\ Says(b, v[1])
    <3>1. CASE v \in OwnVerdicts(k.assessed)
      BY <3>1, OwnVerdictsMean DEF Had
    <3>2. CASE v \in {<<r[2], stored[r[1]].status>> : r \in k.reused}
      <4>1. PICK r \in k.reused : v = <<r[2], stored[r[1]].status>>
        BY <3>2
      <4>2. Says(r[1], r[2]) /\ r[1] \in Had(k)
        BY <1>2 DEF Validating, Had
      <4>3. v[1] = r[2] /\ v[2] = stored[r[1]].status
        BY <4>1
      <4>4. Says(r[1], v[1])
        BY <4>2, <4>3
      <4> QED BY <4>2, <4>3, <4>4
    <3> QED BY <3>1, <3>2
  <2>2. ArtifactsSound
    BY DEF NoveltyInv
  <2> HIDE DEF verdicts
  <2>3. /\ Overall(k.claims, verdicts) \in {"blocked", "revise", "unverified", "clear"}
        /\ Overall(k.claims, verdicts) = "clear" => Cleared(k.claims, Had(k))
    BY ONLY <1>4, <2>1, <2>2, VerdictsMean
  <2> QED BY <1>3, <2>3
<1> HIDE DEF overall, supersedes
<1>6. s \in 0 .. n /\ n \in Nat
  <2>1. LatestReport(k.manuscript) \in 0 .. n /\ n \in Nat
    BY LatestFound DEF NoveltyInv
  <2>2. k.mode = "revalidate" => k.previous \in 1 .. n
    <3>1. Stored = 1 .. n
      BY DEF NoveltyInv, StoredSound, Stored, Latest
    <3>2. k.mode = "revalidate" => k.previous \in Reports
      BY <1>2 DEF Validating
    <3> QED BY ONLY <3>1, <3>2 DEF Reports, OfKind
  <2> QED BY <1>3, <2>1, <2>2 DEF supersedes
<1>7. a = [kind |-> "novelty report", manuscript |-> k.manuscript, claims |-> k.claims,
           assessments |-> Had(k), failed |-> k.failed, policy |-> k.policy,
           overall |-> o, supersedes |-> s]
  BY <1>3
<1>8. /\ Kept /\ StoredSound' /\ new \in Stored' /\ stored'[new] = a
      /\ ArtifactSound(new)' => ArtifactsSound'
      /\ a.kind = "novelty report" => OfKind("novelty report")' = OfKind("novelty report") \cup {new}
  <2> HIDE DEF a
  <2> QED BY <1>1, NoveltyPut
<1>9. ArtifactSound(new)'
  <2>1. /\ IsFiniteSet(k.claims) /\ IsFiniteSet(Had(k)) /\ Cardinality(Had(k)) <= Cardinality(k.claims)
    <3>1. IsFiniteSet(k.claims) /\ IsFiniteSet(k.todo) /\ IsFiniteSet(Had(k))
          /\ Cardinality(Had(k)) + Cardinality(k.todo) + 0 <= Cardinality(k.claims)
      BY <1>2 DEF Balance
    <3>2. Cardinality(Had(k)) \in Nat /\ Cardinality(k.todo) \in Nat /\ Cardinality(k.claims) \in Nat
      BY ONLY <3>1, FS_CardinalityType
    <3> QED BY ONLY <3>1, <3>2
  <2>2. s \in Nat /\ s < new
    BY ONLY <1>6, new = Latest + 1, n = Latest
  <2>3. k.manuscript \in Manuscripts /\ k.claims \in SUBSET OfKind("claim") /\ k.policy \in Policies
        /\ k.failed \in Nat
    BY <1>2 DEF Validating, NoveltyCalls
  <2>4. stored'[new] = [kind |-> "novelty report", manuscript |-> k.manuscript, claims |-> k.claims,
           assessments |-> Had(k), failed |-> k.failed, policy |-> k.policy,
           overall |-> o, supersedes |-> s]
    BY ONLY <1>7, <1>8
  <2>5. NoveltyInv
    OBVIOUS
  <2> QED BY ONLY <1>4, <1>5, <1>8, <2>1, <2>2, <2>3, <2>4, <2>5, ReportPut
<1>10. NoveltyCallSound'
  <2>1. CASE at' = "gate" /\ call' = [call EXCEPT !.report = new]
    <3>1. l = [k EXCEPT !.report = new] /\ new \in Nat
      BY <1>6, <2>1
    <3>2. l \in NoveltyCalls /\ l.report = new
      BY ONLY <1>2, <3>1 DEF NoveltyCalls
    <3>3. new \in Reports'
      <4>1. a.kind = "novelty report"
        BY <1>7
      <4> QED BY <1>8, <4>1 DEF Reports
    <3> QED BY <2>1, <3>2, <3>3 DEF NoveltyCallSound
  <2>2. CASE Return
    BY <2>2, NoveltyReturns
  <2> QED BY <1>1, <2>1, <2>2
<1> QED BY <1>8, <1>9, <1>10 DEF NoveltyInv

(* A gate is made of a report.                                              *)
LEMMA GateKeeps ==
    ASSUME NoveltyInv, NEW m \in Manuscripts, NEW r \in Reports \cup {LatestReport(m)}, Gate(m, r)
    PROVE  NoveltyInv'
<1>1. /\ r # 0 /\ stored' = stored /\ at' = "gate"
      /\ call' = [NoveltyLocals("gate", m, 0, 0) EXCEPT !.report = r]
  BY DEF Gate, Call
<1>2. r \in Reports
  BY <1>1, LatestFound DEF NoveltyInv
<1>3. m \in Nat /\ r \in Nat
  <2>1. Stored \subseteq Nat
    BY DEF NoveltyInv, StoredSound, Stored
  <2> QED BY <1>2, <2>1 DEF Manuscripts, Reports, OfKind
<1>4. StoredSound' /\ ArtifactsSound' /\ Reports' = Reports
  BY <1>1, NoveltyQuiet DEF Reports
<1>5. call' \in NoveltyCalls /\ call'.report = r
  BY ONLY <1>1, <1>3 DEF NoveltyLocals, NoveltyCalls
<1>6. NoveltyCallSound'
  BY <1>1, <1>2, <1>4, <1>5 DEF NoveltyCallSound
<1> QED BY <1>4, <1>6 DEF NoveltyInv

(* The report that is checked is of the current version.                    *)
LEMMA CheckKeeps ==
    ASSUME NoveltyInv, CheckReport
    PROVE  NoveltyInv'
<1> PICK k, l, n : k = call /\ l = call' /\ n = Latest
  OBVIOUS
<1>1. /\ at = "gate" /\ stored' = stored
      /\ \/ Return
         \/ /\ stored[k.report].manuscript = k.manuscript /\ Max(Manuscripts) = k.manuscript
            /\ l = [k EXCEPT !.checked = n] /\ at' = "put_gate"
  BY DEF CheckReport, Goto, Stale, Latest
<1>2. k \in NoveltyCalls /\ k.report \in Reports
  BY <1>1 DEF NoveltyInv, NoveltyCallSound
<1>3. /\ Kept /\ StoredSound' /\ ArtifactsSound' /\ \A kind : OfKind(kind)' = OfKind(kind)
  BY <1>1, NoveltyQuiet
<1>4. CASE Return
  BY <1>3, <1>4, NoveltyReturns DEF NoveltyInv
<1>5. CASE /\ stored[k.report].manuscript = k.manuscript /\ Max(Manuscripts) = k.manuscript
           /\ l = [k EXCEPT !.checked = n] /\ at' = "put_gate"
  <2>1. n \in Nat /\ Stored = 1 .. n /\ n \in Stored
    <3>1. n \in Nat /\ Stored = 1 .. n
      BY DEF NoveltyInv, StoredSound, Stored, Latest
    <3>2. k.report \in Stored
      BY <1>2 DEF Reports, OfKind
    <3> QED BY ONLY <3>1, <3>2
  <2>2. \A m \in Manuscripts : m <= k.manuscript
    <3>1. Manuscripts \in SUBSET (1 .. n)
      BY <2>1 DEF Manuscripts, OfKind
    <3>2. Manuscripts # {} => \A m \in Manuscripts : m <= Max(Manuscripts)
      BY ONLY <2>1, <3>1, LastPlace
    <3> QED BY <1>5, <3>2
  <2>3. Checked(k.report, k.manuscript, n)
    BY <1>2, <1>5, <2>1, <2>2 DEF Checked
  <2>4. PICK r, m : r = k.report /\ m = k.manuscript
    OBVIOUS
  <2>5. Checked(r, m, n)'
    BY <1>3, <2>3, <2>4, NoveltyKept DEF NoveltyInv
  <2>6. l \in NoveltyCalls /\ l.report = r /\ l.manuscript = m /\ l.checked = n
    BY ONLY <1>2, <1>5, <2>1, <2>4 DEF NoveltyCalls
  <2>7. r \in Reports'
    BY <1>2, <1>3, <2>4 DEF Reports
  <2>8. NoveltyCallSound'
    BY <1>5, <2>5, <2>6, <2>7 DEF NoveltyCallSound, Checked
  <2> QED BY <1>3, <2>8 DEF NoveltyInv
<1> QED BY <1>1, <1>4, <1>5

(* A package is ready only by a clear and complete report.                  *)
LEMMA PutGateKeeps ==
    ASSUME NoveltyInv, PutGate
    PROVE  NoveltyInv'
<1> PICK new, r, m, checked, status :
       /\ new = Latest + 1 /\ r = call.report /\ m = call.manuscript /\ checked = call.checked
       /\ status = GateStatus(m, r)
  OBVIOUS
<1> DEFINE a == [kind |-> "gate", manuscript |-> m, report |-> r, checked |-> checked, status |-> status]
<1>1. at = "put_gate" /\ Put(a) /\ Return
  BY DEF PutGate
<1>2. Checked(r, m, checked)
  BY <1>1 DEF NoveltyInv, NoveltyCallSound
<1> HIDE DEF a
<1>3. /\ Kept /\ StoredSound' /\ stored'[new] = a
      /\ ArtifactSound(new)' => ArtifactsSound'
  BY <1>1, NoveltyPut
<1>4. Checked(r, m, checked)'
  BY <1>2, <1>3, NoveltyKept DEF NoveltyInv
<1>5. NoveltyReportSound(r) /\ r \in Reports /\ stored[r].manuscript = m
  BY <1>2, SoundOfKind DEF NoveltyInv, Checked
<1>6. m \in Manuscripts
  BY <1>5 DEF NoveltyReportSound
<1>7. stored'[r] = stored[r] /\ stored'[m] = stored[m]
  BY <1>3, <1>5, <1>6 DEF Kept, Reports, Manuscripts, OfKind
<1>8. status = "ready" =>
         /\ stored[m].ready /\ stored[r].overall = "clear" /\ stored[r].failed = 0
         /\ Cardinality(stored[r].assessments) = Cardinality(stored[r].claims)
  <2> HAVE status = "ready"
  <2>1. /\ stored[m].ready /\ stored[r].overall = "clear"
        /\ ~(stored[r].failed > 0) /\ ~(Cardinality(stored[r].assessments) < Cardinality(stored[r].claims))
    <3>1. stored[r].overall \in {"blocked", "revise", "unverified", "clear"}
      BY <1>5 DEF NoveltyReportSound
    <3>2. GateStatus(m, r) = "ready"
      OBVIOUS
    <3> QED BY ONLY <3>1, <3>2 DEF GateStatus
  <2>2. stored[r].failed \in Nat /\ IsFiniteSet(stored[r].assessments) /\ IsFiniteSet(stored[r].claims)
        /\ Cardinality(stored[r].assessments) <= Cardinality(stored[r].claims)
    BY ONLY <1>5 DEF NoveltyReportSound
  <2>3. Cardinality(stored[r].assessments) \in Nat /\ Cardinality(stored[r].claims) \in Nat
    BY ONLY <2>2, FS_CardinalityType
  <2> QED BY ONLY <2>1, <2>2, <2>3
<1>9. stored'[new].kind = "gate" /\ stored'[new].status = status /\ stored'[new].report = r
      /\ stored'[new].manuscript = m /\ stored'[new].checked = checked
  BY <1>3 DEF a
<1>10. GateSound(new)'
  BY ONLY <1>4, <1>5, <1>7, <1>8, <1>9 DEF GateSound
<1>11. ArtifactSound(new)'
  BY ONLY <1>9, <1>10 DEF ArtifactSound
<1>12. NoveltyCallSound'
  BY <1>1, NoveltyReturns
<1> QED BY <1>3, <1>11, <1>12 DEF NoveltyInv

(* Only a candidate without evidence is enriched, so none was judged of it. *)
LEMMA EnrichKeeps ==
    ASSUME NoveltyInv, NEW candidate \in OfKind("candidate"), Enrich(candidate)
    PROVE  NoveltyInv'
<1>1. /\ ~HasEvidence(stored[candidate].paper) /\ stored' = stored /\ at' = "enrich"
      /\ call' = [NoveltyLocals("enrich", 0, 0, 0) EXCEPT !.old = candidate]
  BY DEF Enrich, Call
<1>2. stored[candidate].relationship = "insufficient"
  BY <1>1, SoundOfKind DEF NoveltyInv, CandidateSound
<1>3. candidate \in Nat
  BY DEF NoveltyInv, StoredSound, OfKind, Stored
<1>4. StoredSound' /\ ArtifactsSound' /\ OfKind("candidate")' = OfKind("candidate")
  BY <1>1, NoveltyQuiet
<1>5. call' \in NoveltyCalls /\ call'.old = candidate
  BY ONLY <1>1, <1>3 DEF NoveltyLocals, NoveltyCalls
<1>6. NoveltyCallSound'
  BY <1>1, <1>2, <1>4, <1>5 DEF NoveltyCallSound
<1> QED BY <1>4, <1>6 DEF NoveltyInv

(* Now there is evidence of its paper.                                      *)
LEMMA EnrichedKeeps ==
    ASSUME NoveltyInv, Enriched
    PROVE  NoveltyInv'
<1> PICK new, old, k : new = Latest + 1 /\ old = call.old /\ k = call
  OBVIOUS
<1> DEFINE a == [kind |-> "evidence", paper |-> stored[old].paper]
<1>1. at = "enrich" /\ Put(a) /\ at' = "judge" /\ call' = call
  BY DEF Enriched, Goto
<1>2. k \in NoveltyCalls /\ old \in OfKind("candidate") /\ stored[old].relationship = "insufficient"
  BY <1>1 DEF NoveltyInv, NoveltyCallSound
<1> HIDE DEF a
<1>3. /\ Kept /\ StoredSound' /\ stored'[new] = a
      /\ ArtifactSound(new)' => ArtifactsSound'
      /\ a.kind = "evidence" => OfKind("evidence")' = OfKind("evidence") \cup {new}
  BY <1>1, NoveltyPut
<1>4. stored'[new].kind = "evidence" /\ a.kind = "evidence" /\ stored'[new].paper = stored[old].paper
  BY <1>3 DEF a
<1>5. ArtifactSound(new)'
  BY ONLY <1>4 DEF ArtifactSound
<1>6. old \in OfKind("candidate")' /\ stored'[old] = stored[old]
  BY <1>2, <1>3, NoveltyKept DEF NoveltyInv, Kept, OfKind
<1>7. \E e \in OfKind("evidence")' : stored'[e].paper = stored'[old].paper
  BY ONLY <1>3, <1>4, <1>6
<1>8. HasEvidence(stored[old].paper)'
  BY <1>7 DEF HasEvidence
<1>9. NoveltyCallSound'
  <2>1. call' = k /\ call'.old = old
    BY <1>1
  <2> QED BY <1>1, <1>2, <1>6, <1>7, <2>1 DEF NoveltyCallSound, HasEvidence
<1> QED BY <1>3, <1>5, <1>9 DEF NoveltyInv

(* The new judgement rests on evidence, the old was none.                   *)
LEMMA JudgeAgainKeeps ==
    ASSUME NoveltyInv, NEW relationship \in Relationships, JudgeAgain(relationship)
    PROVE  NoveltyInv'
<1> PICK new, old, k, l, c :
       new = Latest + 1 /\ old = call.old /\ k = call /\ l = call' /\ c = stored[call.old]
  OBVIOUS
<1> DEFINE a == [c EXCEPT !.sparse = FALSE, !.relationship = relationship, !.of = old]
<1>1. /\ at = "judge" /\ Put(a) /\ at' = "refresh"
      /\ l = [k EXCEPT !.new = new]
  BY DEF JudgeAgain, Goto, Latest
<1>2. /\ k \in NoveltyCalls /\ old \in OfKind("candidate") /\ stored[old].relationship = "insufficient"
      /\ HasEvidence(c.paper)
  BY <1>1 DEF NoveltyInv, NoveltyCallSound
<1>3. c \in [kind : {"candidate"}, paper : PriorArt, sparse : BOOLEAN, of : Nat, relationship : Judgements]
  BY <1>2, SoundOfKind DEF NoveltyInv, CandidateSound
<1>4. old \in Nat /\ old # 0 /\ relationship \in Judgements
  BY <1>2, SearchAssumption DEF NoveltyInv, StoredSound, OfKind, Stored
<1>5. /\ a \in [kind : {"candidate"}, paper : PriorArt, sparse : BOOLEAN, of : Nat,
                relationship : Judgements]
      /\ a.kind = "candidate" /\ a.paper = c.paper /\ a.of = old
  BY ONLY <1>3, <1>4
<1> HIDE DEF a
<1>6. /\ Kept /\ StoredSound' /\ new \in Nat /\ stored'[new] = a
      /\ ArtifactSound(new)' => ArtifactsSound'
      /\ a.kind = "candidate" => OfKind("candidate")' = OfKind("candidate") \cup {new}
  BY <1>1, NoveltyPut
<1>7. old \in OfKind("candidate")' /\ stored'[old] = stored[old] /\ HasEvidence(c.paper)'
  BY <1>2, <1>6, NoveltyKept DEF NoveltyInv, Kept, OfKind
<1>8. CandidateSound(new)'
  <2>1. \E e \in OfKind("evidence")' : stored'[e].paper = c.paper
    BY <1>7 DEF HasEvidence
  <2>2. \E e \in OfKind("evidence")' : stored'[e].paper = stored'[new].paper
    BY ONLY <1>5, <1>6, <2>1
  <2> QED BY <1>2, <1>5, <1>6, <1>7, <2>2 DEF CandidateSound, HasEvidence
<1>9. ArtifactSound(new)'
  <2>1. stored'[new].kind = "candidate"
    BY <1>5, <1>6
  <2> QED BY ONLY <1>8, <2>1 DEF ArtifactSound
<1>10. l \in NoveltyCalls /\ l.old = old /\ l.new = new
  BY ONLY <1>1, <1>2, <1>6, old = call.old, k = call DEF NoveltyCalls
<1>11. NoveltyCallSound'
  BY <1>1, <1>2, <1>5, <1>6, <1>7, <1>10 DEF NoveltyCallSound
<1> QED BY <1>6, <1>9, <1>11 DEF NoveltyInv

(* The claim's assessment is made anew with the new judgement.              *)
LEMMA RefreshAssessmentKeeps ==
    ASSUME NoveltyInv, RefreshAssessment
    PROVE  NoveltyInv'
<1> PICK new, k, l : new = Latest + 1 /\ k = call /\ l = call'
  OBVIOUS
<1> DEFINE naming == {b \in OfKind("assessment") : k.old \in stored[b].candidates}
<1>1. at = "refresh" /\ k \in NoveltyCalls
      /\ k.old \in OfKind("candidate") /\ k.new \in OfKind("candidate")
  BY DEF RefreshAssessment, NoveltyInv, NoveltyCallSound
<1>2. CASE naming = {}
  <2>1. Return /\ stored' = stored
    BY <1>2 DEF RefreshAssessment
  <2> QED BY <2>1, NoveltyQuiet, NoveltyReturns DEF NoveltyInv
<1>3. CASE naming # {}
  <2> PICK old, b, candidates, covered :
         /\ old = Min(naming) /\ b = stored[old]
         /\ candidates = (b.candidates \ {k.old}) \cup {k.new}
         /\ covered = Covered(b.claim, b.searched, candidates)
    OBVIOUS
  <2> DEFINE a == [b EXCEPT !.candidates = candidates, !.status = ClaimStatus(covered, candidates)]
  <2>1. Put(a) /\ l = [k EXCEPT !.old = old, !.new = new] /\ at' = "rereport"
    BY <1>3 DEF RefreshAssessment, Goto, Latest
  <2>2. old \in OfKind("assessment") /\ old \in Nat
    <3>1. naming \in SUBSET Nat
      BY DEF NoveltyInv, StoredSound, OfKind, Stored
    <3>2. old \in naming
      <4> HIDE DEF naming
      <4> QED BY <1>3, <3>1, FirstPlace
    <3> QED BY <3>1, <3>2
  <2>3. /\ b \in [kind : {"assessment"}, claim : OfKind("claim"),
                  candidates : SUBSET OfKind("candidate"), searched : BOOLEAN,
                  policy : Policies, status : ClaimStatuses]
    BY <2>2, SoundOfKind DEF NoveltyInv, AssessmentSound
  <2>a. PICK claim \in OfKind("claim"), searched \in BOOLEAN, policy \in Policies :
           /\ claim = b.claim /\ searched = b.searched /\ policy = b.policy
           /\ \E found, said : b = [kind |-> "assessment", claim |-> claim, candidates |-> found,
                                   searched |-> searched, policy |-> policy, status |-> said]
    BY <2>3
  <2>4. candidates \in SUBSET OfKind("candidate")
    BY <1>1, <2>3
  <2>5. covered => searched
    BY <2>a DEF Covered
  <2>6. a = [kind |-> "assessment", claim |-> claim, candidates |-> candidates,
             searched |-> searched, policy |-> policy, status |-> ClaimStatus(covered, candidates)]
    <3> PICK status : status = ClaimStatus(covered, candidates)
      OBVIOUS
    <3>1. PICK found, said : b = [kind |-> "assessment", claim |-> claim, candidates |-> found,
                                  searched |-> searched, policy |-> policy, status |-> said]
      BY <2>a
    <3>2. PICK c : c = [b EXCEPT !.candidates = candidates]
      OBVIOUS
    <3>3. a = [c EXCEPT !.status = status]
      BY ONLY <3>2, status = ClaimStatus(covered, candidates)
    <3>4. c = [kind |-> "assessment", claim |-> claim, candidates |-> candidates,
               searched |-> searched, policy |-> policy, status |-> said]
      BY ONLY <3>1, <3>2
    <3>5. [c EXCEPT !.status = status]
             = [kind |-> "assessment", claim |-> claim, candidates |-> candidates,
                searched |-> searched, policy |-> policy, status |-> status]
      BY ONLY <3>4
    <3> QED BY <3>3, <3>5
  <2> HIDE DEF a, naming
  <2>7. /\ Kept /\ StoredSound' /\ new \in Nat /\ new \in Stored' /\ stored'[new] = a
        /\ ArtifactSound(new)' => ArtifactsSound'
        /\ a.kind = "assessment" => OfKind("assessment")' = OfKind("assessment") \cup {new}
    BY <2>1, NoveltyPut
  <2>8. ArtifactSound(new)'
    <3>1. stored'[new] = [kind |-> "assessment", claim |-> claim, candidates |-> candidates,
             searched |-> searched, policy |-> policy, status |-> ClaimStatus(covered, candidates)]
      BY ONLY <2>6, <2>7
    <3>2. NoveltyInv
      OBVIOUS
    <3> QED BY ONLY <2>4, <2>5, <2>7, <3>1, <3>2, AssessmentPut,
                    claim \in OfKind("claim"), searched \in BOOLEAN, policy \in Policies
  <2>9. a.kind = "assessment" /\ a.policy = b.policy
    BY <2>a, <2>6
  <2>10. /\ new \in OfKind("assessment")' /\ old \in OfKind("assessment")'
         /\ stored'[new].policy = stored'[old].policy
    <3>1. stored'[old] = stored[old]
      BY <2>2, <2>7 DEF Kept, OfKind
    <3> QED BY <2>2, <2>7, <2>9, <3>1
  <2>11. l \in NoveltyCalls /\ l.old = old /\ l.new = new
    BY ONLY <1>1, <2>1, <2>2, <2>7 DEF NoveltyCalls
  <2>12. NoveltyCallSound'
    BY <2>1, <2>10, <2>11 DEF NoveltyCallSound
  <2> QED BY <2>7, <2>8, <2>12 DEF NoveltyInv
<1> QED BY <1>2, <1>3

(* The newest of the reports that name an assessment is superseded by none. *)
LEMMA NewestReport ==
    ASSUME NoveltyInv, NEW naming \in SUBSET Reports, naming # {}
    PROVE  Max(naming \ {stored[n].supersedes : n \in naming}) \in naming
<1>1. Latest \in Nat /\ Stored = 1 .. Latest
  BY DEF NoveltyInv, StoredSound, Stored, Latest
<1>2. naming \in SUBSET (1 .. Latest)
  BY <1>1 DEF Reports, OfKind
<1>3. PICK r \in naming : \A n \in naming : n <= r
  BY ONLY <1>1, <1>2, LastPlace, naming # {}
<1>4. \A n \in naming : stored[n].supersedes \in Nat /\ stored[n].supersedes < n
  BY SoundOfKind DEF NoveltyInv, NoveltyReportSound
<1> DEFINE open == naming \ {stored[n].supersedes : n \in naming}
<1>5. r \in open
  BY <1>1, <1>2, <1>3, <1>4
<1>6. open \in SUBSET (1 .. Latest) /\ open \subseteq naming
  BY <1>2
<1> HIDE DEF open
<1>7. Max(open) \in open
  BY ONLY <1>1, <1>5, <1>6, LastPlace
<1> QED BY ONLY <1>6, <1>7 DEF open

(* The newest report that names the old assessment is made anew.            *)
LEMMA RefreshReportKeeps ==
    ASSUME NoveltyInv, RefreshReport
    PROVE  NoveltyInv'
<1> PICK new, k, l, n : new = Latest + 1 /\ k = call /\ l = call' /\ n = Latest
  OBVIOUS
<1> DEFINE naming == {r \in Reports : k.old \in stored[r].assessments}
<1>1. /\ at = "rereport" /\ k \in NoveltyCalls
      /\ k.old \in OfKind("assessment") /\ k.new \in OfKind("assessment")
      /\ stored[k.new].policy = stored[k.old].policy
  BY DEF RefreshReport, NoveltyInv, NoveltyCallSound
<1>2. CASE naming = {}
  <2>1. Return /\ stored' = stored
    BY <1>2 DEF RefreshReport
  <2> QED BY <2>1, NoveltyQuiet, NoveltyReturns DEF NoveltyInv
<1>3. CASE naming # {}
  <2> PICK r, b, assessments, overall :
         /\ r = Max(naming \ {stored[i].supersedes : i \in naming}) /\ b = stored[r]
         /\ assessments = (b.assessments \ {k.old}) \cup {k.new}
         /\ overall = Overall(b.claims, OwnVerdicts(assessments))
    OBVIOUS
  <2> DEFINE a == [b EXCEPT !.assessments = assessments, !.supersedes = r, !.overall = overall]
  <2>1. /\ Put(a) /\ at' = "gate"
        /\ l = [k EXCEPT !.report = new, !.manuscript = b.manuscript]
    BY <1>3 DEF RefreshReport, Goto, Latest
  <2>2. r \in naming
    <3>1. naming \in SUBSET Reports
      OBVIOUS
    <3> HIDE DEF naming
    <3> QED BY <1>3, <3>1, NewestReport
  <2>3. r \in Reports /\ NoveltyReportSound(r) /\ k.old \in b.assessments
    BY <2>2, SoundOfKind DEF NoveltyInv
  <2>4. n \in Nat /\ Stored = 1 .. n /\ r \in 1 .. n
    <3>1. n \in Nat /\ Stored = 1 .. n
      BY DEF NoveltyInv, StoredSound, Stored, Latest
    <3> QED BY <2>3, <3>1 DEF Reports, OfKind
  <2>5. b \in [kind : {"novelty report"}, manuscript : Manuscripts,
               claims : SUBSET OfKind("claim"), assessments : SUBSET OfKind("assessment"),
               failed : Nat, policy : Policies,
               overall : {"blocked", "revise", "unverified", "clear"}, supersedes : Nat]
    BY <2>3 DEF NoveltyReportSound
  <2>6. PICK manuscript \in Manuscripts, claims \in SUBSET OfKind("claim"), failed \in Nat,
             policy \in Policies, had \in SUBSET OfKind("assessment") :
           /\ manuscript = b.manuscript /\ claims = b.claims /\ policy = b.policy /\ had = b.assessments
           /\ \E said, before :
                 b = [kind |-> "novelty report", manuscript |-> manuscript, claims |-> claims,
                      assessments |-> had, failed |-> failed, policy |-> policy,
                      overall |-> said, supersedes |-> before]
    <3>1. /\ b.manuscript \in Manuscripts /\ b.claims \in SUBSET OfKind("claim") /\ b.failed \in Nat
          /\ b.policy \in Policies /\ b.assessments \in SUBSET OfKind("assessment")
          /\ b = [kind |-> "novelty report", manuscript |-> b.manuscript, claims |-> b.claims,
                   assessments |-> b.assessments, failed |-> b.failed, policy |-> b.policy,
                   overall |-> b.overall, supersedes |-> b.supersedes]
      BY ONLY <2>5
    <3> QED BY ONLY <3>1
  <2>7. assessments \in SUBSET OfKind("assessment") /\ \A i \in assessments : stored[i].policy = policy
    <3>1. \A i \in b.assessments : stored[i].policy = b.policy
      BY <2>3 DEF NoveltyReportSound
    <3> QED BY ONLY <1>1, <2>3, <2>6, <3>1, assessments = (b.assessments \ {k.old}) \cup {k.new}
  <2>8. /\ IsFiniteSet(claims) /\ IsFiniteSet(assessments)
        /\ Cardinality(assessments) <= Cardinality(claims)
    <3>1. IsFiniteSet(claims) /\ IsFiniteSet(had) /\ Cardinality(had) <= Cardinality(claims)
      BY <2>3, <2>6 DEF NoveltyReportSound
    <3>2. IsFiniteSet(had \ {k.old}) /\ Cardinality(had \ {k.old}) = Cardinality(had) - 1
      <4>1. k.old \in had
        BY <2>3, <2>6
      <4> QED BY ONLY <3>1, <4>1, FS_RemoveElement
    <3>3. /\ IsFiniteSet((had \ {k.old}) \cup {k.new})
          /\ \/ Cardinality((had \ {k.old}) \cup {k.new}) = Cardinality(had \ {k.old})
             \/ Cardinality((had \ {k.old}) \cup {k.new}) = Cardinality(had \ {k.old}) + 1
      BY ONLY <3>2, FS_AddElement
    <3>4. assessments = (had \ {k.old}) \cup {k.new}
      BY <2>6
    <3>5. Cardinality(had) \in Nat /\ Cardinality(claims) \in Nat
      BY ONLY <3>1, FS_CardinalityType
    <3> QED BY ONLY <3>1, <3>2, <3>3, <3>4, <3>5
  <2>9. /\ overall \in {"blocked", "revise", "unverified", "clear"}
        /\ overall = "clear" => Cleared(claims, assessments)
    <3> PICK verdicts : verdicts = OwnVerdicts(assessments)
      OBVIOUS
    <3>1. \A v \in verdicts : \E i \in assessments : v[2] = stored[i].status /\ Says(i, v[1])
      BY OwnVerdictsMean
    <3>2. ArtifactsSound
      BY DEF NoveltyInv
    <3>3. /\ Overall(claims, verdicts) \in {"blocked", "revise", "unverified", "clear"}
          /\ Overall(claims, verdicts) = "clear" => Cleared(claims, assessments)
      BY ONLY <2>7, <3>1, <3>2, VerdictsMean
    <3>4. overall = Overall(claims, verdicts)
      BY <2>6
    <3> QED BY <3>3, <3>4
  <2>10. a = [kind |-> "novelty report", manuscript |-> manuscript, claims |-> claims,
              assessments |-> assessments, failed |-> failed, policy |-> policy,
              overall |-> overall, supersedes |-> r]
    <3>1. PICK said, before :
             b = [kind |-> "novelty report", manuscript |-> manuscript, claims |-> claims,
                  assessments |-> had, failed |-> failed, policy |-> policy,
                  overall |-> said, supersedes |-> before]
      BY <2>6
    <3>2. PICK c : c = [b EXCEPT !.assessments = assessments]
      OBVIOUS
    <3>3. PICK d : d = [c EXCEPT !.supersedes = r]
      OBVIOUS
    <3>4. PICK e : e = [d EXCEPT !.overall = overall]
      OBVIOUS
    <3>5. a = e
      BY ONLY <3>2, <3>3, <3>4
    <3>6. c = [kind |-> "novelty report", manuscript |-> manuscript, claims |-> claims,
               assessments |-> assessments, failed |-> failed, policy |-> policy,
               overall |-> said, supersedes |-> before]
      BY ONLY <3>1, <3>2
    <3>7. d = [kind |-> "novelty report", manuscript |-> manuscript, claims |-> claims,
               assessments |-> assessments, failed |-> failed, policy |-> policy,
               overall |-> said, supersedes |-> r]
      BY ONLY <3>3, <3>6
    <3>8. e = [kind |-> "novelty report", manuscript |-> manuscript, claims |-> claims,
               assessments |-> assessments, failed |-> failed, policy |-> policy,
               overall |-> overall, supersedes |-> r]
      BY ONLY <3>4, <3>7
    <3> QED BY ONLY <3>5, <3>8
  <2> HIDE DEF a, naming
  <2>11. /\ Kept /\ StoredSound' /\ new \in Nat /\ new \in Stored' /\ stored'[new] = a
         /\ ArtifactSound(new)' => ArtifactsSound'
         /\ a.kind = "novelty report" => OfKind("novelty report")' = OfKind("novelty report") \cup {new}
    BY <2>1, NoveltyPut
  <2>12. ArtifactSound(new)'
    <3>1. stored'[new] = [kind |-> "novelty report", manuscript |-> manuscript, claims |-> claims,
                          assessments |-> assessments, failed |-> failed, policy |-> policy,
                          overall |-> overall, supersedes |-> r]
      BY ONLY <2>10, <2>11
    <3>2. r \in Nat /\ r < new
      BY ONLY <2>4, new = Latest + 1, n = Latest
    <3>3. NoveltyInv
      OBVIOUS
    <3> QED BY ONLY <2>7, <2>8, <2>9, <2>11, <3>1, <3>2, <3>3, ReportPut,
                    manuscript \in Manuscripts, claims \in SUBSET OfKind("claim"), failed \in Nat,
                    policy \in Policies
  <2>13. l \in NoveltyCalls /\ l.report = new
    <3>1. manuscript \in Nat
      BY <2>4 DEF Manuscripts, OfKind
    <3> QED BY ONLY <1>1, <2>1, <2>6, <2>11, <3>1 DEF NoveltyCalls
  <2>14. new \in Reports'
    <3>1. a.kind = "novelty report"
      BY <2>10
    <3> QED BY <2>11, <3>1 DEF Reports
  <2>15. NoveltyCallSound'
    BY <2>1, <2>13, <2>14 DEF NoveltyCallSound
  <2> QED BY <2>11, <2>12, <2>15 DEF NoveltyInv
<1> QED BY <1>2, <1>3

(* A call that raises, and the death of the process, leave what is stored.  *)
LEMMA RaisesKeeps ==
    ASSUME NoveltyInv, CallRaises \/ Die
    PROVE  NoveltyInv'
<1>1. stored' = stored /\ at' = "idle"
  BY DEF CallRaises, Return, Die
<1> QED BY <1>1, NoveltyQuiet, CallOver DEF NoveltyInv

(* A step that changes nothing.                                             *)
LEMMA NoveltyStutters ==
    ASSUME NoveltyInv, stored' = stored, at' = at, call' = call
    PROVE  NoveltyInv'
<1> PICK k, p, r, m, c :
       k = call /\ p = stored[call.old].paper /\ r = call.report /\ m = call.manuscript /\ c = call.checked
  OBVIOUS
<1>1. /\ Kept /\ StoredSound' /\ ArtifactsSound' /\ \A kind : OfKind(kind)' = OfKind(kind)
  BY NoveltyQuiet
<1>2. /\ Validating(k) => Validating(k)'
      /\ HasEvidence(p) => HasEvidence(p)'
      /\ Checked(r, m, c) => Checked(r, m, c)'
  BY <1>1, NoveltyKept DEF NoveltyInv
<1>3. /\ at \in {"claim", "assess", "recommend"} => Validating(k)' /\ Balance(call', IF at = "assess" THEN 1 ELSE 0)
      /\ at = "put_gate" => Checked(r, m, c)'
      /\ at = "judge" => HasEvidence(p)'
  BY <1>2 DEF NoveltyInv, NoveltyCallSound
<1>4. at \in {"claim", "assess", "recommend"} => Validating(call)'
  BY <1>3 DEF Validating, Says
<1>5. at = "put_gate" => Checked(call.report, call.manuscript, call.checked)'
  BY <1>3 DEF Checked
<1>6. at = "judge" => HasEvidence(stored[call.old].paper)'
  BY <1>3 DEF HasEvidence
<1>7. NoveltyCallSound'
  <2>1. NoveltyCallSound /\ stored' = stored /\ at' = at /\ call' = call
    BY DEF NoveltyInv
  <2>2. Reports' = Reports
    BY <1>1 DEF Reports
  <2> QED BY <1>1, <1>3, <1>4, <1>5, <1>6, <2>1, <2>2 DEF NoveltyCallSound, Balance, Had
<1> QED BY <1>1, <1>7 DEF NoveltyInv

(* For any manuscripts and versions, any prior art and judgements, any      *)
(* policies, whatever fails, whatever the authors add meanwhile and however *)
(* often the process dies: a package that is certified ready has earned it. *)
THEOREM ReadyEarned == NoveltySpec => []ReadyIsEarned
<1>1. NothingStored => NoveltyInv
  <2> SUFFICES ASSUME NothingStored PROVE NoveltyInv
    OBVIOUS
  <2>1. StoredSound /\ at = "idle" /\ stored = <<>>
    BY NothingIsStored DEF NothingStored
  <2>2. Stored = {}
    BY <2>1 DEF Stored
  <2> QED BY <2>1, <2>2 DEF NoveltyInv, ArtifactsSound, NoveltyCallSound
<1>2. NoveltyInv /\ [NoveltyNext]_researchVars => NoveltyInv'
  <2> SUFFICES ASSUME NoveltyInv, [NoveltyNext]_researchVars PROVE NoveltyInv'
    OBVIOUS
  <2>1. CASE Revise
    BY <2>1, ReviseKeeps
  <2>2. ASSUME NEW m \in Manuscripts, NEW policy \in Policies, NEW limit \in ClaimLimits,
               Validate(m, policy, limit)
        PROVE  NoveltyInv'
    BY <2>2, ValidateKeeps
  <2>3. ASSUME NEW m \in Manuscripts, NEW policy \in Policies, NEW r \in Reports, NEW force \in BOOLEAN,
               NEW same \in SUBSET Similar, Revalidate(r, m, policy, force, same)
        PROVE  NoveltyInv'
    BY <2>3, RevalidateKeeps
  <2>4. ASSUME NEW paper \in PriorArt, Acquire(paper) PROVE NoveltyInv'
    BY <2>4, AcquireKeeps
  <2>5. ASSUME NEW papers \in CandidateSets, NEW judged \in [DOMAIN papers -> Relationships],
               AssessCandidates(papers, judged)
        PROVE  NoveltyInv'
    BY <2>5, AssessCandidatesKeeps
  <2>6. ASSUME NEW searched \in BOOLEAN, AssessClaim(searched) PROVE NoveltyInv'
    BY <2>6, AssessClaimKeeps
  <2>7. CASE Recommended \/ ClaimFails \/ PreacquisitionFails
    BY <2>7, FailuresKeep
  <2>8. CASE PutNoveltyReport
    BY <2>8, PutReportNoveltyKeeps
  <2>9. ASSUME NEW m \in Manuscripts, NEW r \in Reports \cup {LatestReport(m)}, Gate(m, r)
        PROVE  NoveltyInv'
    BY <2>9, GateKeeps
  <2>10. CASE CheckReport
    BY <2>10, CheckKeeps
  <2>11. CASE PutGate
    BY <2>11, PutGateKeeps
  <2>12. ASSUME NEW candidate \in OfKind("candidate"), Enrich(candidate) PROVE NoveltyInv'
    BY <2>12, EnrichKeeps
  <2>13. CASE Enriched
    BY <2>13, EnrichedKeeps
  <2>14. ASSUME NEW relationship \in Relationships, JudgeAgain(relationship) PROVE NoveltyInv'
    BY <2>14, JudgeAgainKeeps
  <2>15. CASE RefreshAssessment
    BY <2>15, RefreshAssessmentKeeps
  <2>16. CASE RefreshReport
    BY <2>16, RefreshReportKeeps
  <2>17. CASE CallRaises \/ Die
    BY <2>17, RaisesKeeps
  <2>18. CASE UNCHANGED researchVars
    BY <2>18, NoveltyStutters DEF researchVars
  <2> QED BY <2>1, <2>2, <2>3, <2>4, <2>5, <2>6, <2>7, <2>8, <2>9, <2>10, <2>11, <2>12, <2>13, <2>14,
             <2>15, <2>16, <2>17, <2>18 DEF NoveltyNext
<1>3. NoveltyInv => ReadyIsEarned
  <2> SUFFICES ASSUME NoveltyInv, NEW g \in Gates, stored[g].status = "ready",
                      NEW report, report = stored[g].report, NEW r, r = stored[report]
               PROVE  /\ r.manuscript = stored[g].manuscript /\ stored[r.manuscript].ready
                      /\ \A m \in Manuscripts : m <= stored[g].checked => m <= r.manuscript
                      /\ r.failed = 0 /\ r.claims # {}
                      /\ \A c \in r.claims : \E a \in r.assessments : Vouches(a, c, report)
                      /\ Cardinality(r.assessments) = Cardinality(r.claims)
    BY DEF ReadyIsEarned
  <2>1. /\ Checked(report, stored[g].manuscript, stored[g].checked)
        /\ stored[r.manuscript].ready /\ r.overall = "clear" /\ r.failed = 0
        /\ Cardinality(r.assessments) = Cardinality(r.claims)
    BY SoundOfKind DEF NoveltyInv, GateSound
  <2>2. /\ r.manuscript = stored[g].manuscript
        /\ \A m \in Manuscripts : m <= stored[g].checked => m <= r.manuscript
    BY <2>1 DEF Checked
  <2>3. NoveltyReportSound(report)
    BY <2>1, SoundOfKind DEF NoveltyInv, Checked
  <2>4. Cleared(r.claims, r.assessments)
    BY <2>1, <2>3 DEF NoveltyReportSound
  <2>5. ASSUME NEW c \in r.claims
        PROVE  \E a \in r.assessments : Vouches(a, c, report)
    <3>1. PICK a \in r.assessments : stored[a].status = "not_threatened" /\ Says(a, c)
      BY <2>4 DEF Cleared
    <3>2. a \in OfKind("assessment") /\ stored[a].policy = stored[report].policy
      BY <2>3 DEF NoveltyReportSound
    <3>3. /\ stored[a].searched /\ stored[a].candidates \subseteq OfKind("candidate")
          /\ \A k \in stored[a].candidates : stored[k].relationship = "distinct"
      BY <3>1, <3>2, SoundOfKind DEF NoveltyInv, AssessmentSound
    <3>4. ASSUME NEW k \in stored[a].candidates
          PROVE  /\ stored[k].relationship = "distinct" /\ HasEvidence(stored[k].paper)
                 /\ \A l \in OfKind("candidate") : stored[l].of # k
      <4>1. k \in OfKind("candidate") /\ CandidateSound(k)
        BY <3>3, SoundOfKind DEF NoveltyInv
      <4>2. HasEvidence(stored[k].paper)
        BY <3>3, <4>1 DEF CandidateSound
      <4>3. k # 0
        BY <4>1 DEF NoveltyInv, StoredSound, OfKind, Stored
      <4>4. ASSUME NEW l \in OfKind("candidate"), stored[l].of = k PROVE FALSE
        <5>1. CandidateSound(l)
          BY SoundOfKind DEF NoveltyInv
        <5>2. stored[k].relationship = "insufficient"
          BY ONLY <4>3, <4>4, <5>1 DEF CandidateSound
        <5> QED BY <3>3, <5>2
      <4> QED BY <3>3, <4>2, <4>4
    <3>5. Repeated(stored[c], {stored[a].claim}, Similar) # {}
      BY <3>1, SaysMeans
    <3>6. Vouches(a, c, report)
      BY ONLY <3>1, <3>2, <3>3, <3>4, <3>5 DEF Vouches
    <3> QED BY <3>6
  <2>6. r.claims # {}
    BY <2>4 DEF Cleared
  <2> QED BY <2>1, <2>2, <2>5, <2>6
<1> QED BY <1>1, <1>2, <1>3, PTL DEF NoveltySpec
=============================================================================
