---------------------------- MODULE DraftingProofs ----------------------------
(***************************************************************************)
(* Results and manuscripts, for any propositions and outlines, any answers *)
(* of models and critics, any budgets and any number of calls and deaths:  *)
(* what is claimed rests on what was verified, and what is drafted is what *)
(* was asked for, once.  DraftingInv is inductive.                         *)
(***************************************************************************)
EXTENDS ServicesProofs, ManuscriptDrafting

-----------------------------------------------------------------------------
(* Drafting                                                                 *)
\* A proposition has been verified before a place in the store.
VerifiedBy(p, n) == \E v \in Verification(p) : v < n /\ stored[v].status = "verified"

\* What supports a finding was verified before, and its conditions are kept.
FindingSound(finding, n) ==
    \A p \in finding.supports \cap DOMAIN Conditions :
       VerifiedBy(p, n) /\ Verbatim(Conditions[p], finding.conditions)

FindingsSound == \A f \in OfKind("finding") : FindingSound(stored[f], f)

\* Claims rest on findings of a list.
RestOn(claims, findings) ==
    \A c \in ToSet(claims) : c \in Stored /\ stored[c].findings \subseteq ToSet(findings)

PackageRests(package) ==
    package.findings \in Seq(OfKind("finding")) /\ RestOn(package.claims, package.findings)

\* A finding is in one package at most.
PackagesSound ==
    /\ \A p \in OfKind("package") : PackageRests(stored[p])
    /\ \A p, q \in OfKind("package") :
          ToSet(stored[p].findings) \cap ToSet(stored[q].findings) # {} => p = q

OneAssembly == \A x, y \in Assemblies : x = y

SectionsSound == \A s \in OfKind("section") : \E spec \in ToSet(Specs) : stored[s].id = spec.id

\* Sections in the order of the outline.
InOrder(sections, wanted) ==
    /\ sections \in Seq(OfKind("section"))
    /\ Len(sections) = Len(SpecsOf(wanted))
    /\ \A k \in DOMAIN sections : stored[sections[k]].id = SpecsOf(wanted)[k].id

\* A section of a revision: the old one, or one after the critiques that find fault with it.
SectionRevised(old, new, critiques) ==
    LET faulty == {c \in critiques : stored[old].id \in stored[c].faults}
    IN  IF faulty = {} THEN new = old ELSE \A c \in faulty : new > c

DraftSound(draft, n) ==
    /\ InOrder(draft.sections, draft.wanted)
    /\ draft.supersedes # 0 =>
          /\ draft.supersedes \in OfKind("draft") /\ draft.supersedes < n
          /\ draft.wanted = stored[draft.supersedes].wanted
          /\ \A k \in DOMAIN draft.sections :
                SectionRevised(stored[draft.supersedes].sections[k], draft.sections[k],
                               {c \in DraftCritiques(draft.supersedes) : c < n})

DraftsSound == \A d \in OfKind("draft") : DraftSound(stored[d], d)

\* An execution says of its draft what the next call looks for.
DraftExecutionSound(execution) ==
    /\ execution.draft \in OfKind("draft")
    /\ execution.outline = stored[execution.draft].outline
    /\ stored[execution.draft].supersedes = 0 => execution.wanted = stored[execution.draft].wanted

\* Drafts that were asked for in the same way.
SameDraft(d, e) ==
    stored[d].outline = stored[e].outline /\ stored[d].wanted = stored[e].wanted
    /\ stored[d].supersedes = stored[e].supersedes

DraftExecutionsSound ==
    /\ \A x \in OfKind("draft execution") : DraftExecutionSound(stored[x])
    /\ \A x, y \in OfKind("draft execution") : SameDraft(stored[x].draft, stored[y].draft) => x = y

DraftingStore ==
    /\ StoredSound /\ FindingsSound /\ PackagesSound /\ OneAssembly
    /\ SectionsSound /\ DraftsSound /\ DraftExecutionsSound

DraftingFields ==
    {"asked", "attempts", "verified", "answer", "made", "claims", "outline", "wanted", "todo", "flagged",
     "revises", "new"}

\* What a call found verified still is.
CallBegun ==
    at # "idle" =>
       /\ at \in {"assemble", "finding", "assembled", "section", "drafted"}
       /\ DOMAIN call = DraftingFields
       /\ \A p \in call.verified : p \in DOMAIN Conditions /\ VerifiedBy(p, Latest + 1)

\* No other assembly has findings, and those put so far are in no package.
Assembling ==
    /\ at \in {"assemble", "finding", "assembled"} => Assemblies = {}
    /\ at = "assemble" => call.made = <<>> /\ call.claims = <<>>
    /\ at = "finding" =>
          /\ call.answer \in AssemblerAnswers /\ SoundAnswer(call.answer, call.verified)
          /\ call.made \in Seq(OfKind("finding")) /\ Len(call.made) <= Len(Findings(call.answer))
          /\ call.claims \in Seq(Stored) /\ RestOn(call.claims, call.made)
          /\ \A p \in OfKind("package") : ToSet(stored[p].findings) \cap ToSet(call.made) = {}

\* Sections are made for the outline's first places and left to do for the others, with the
\* old ones where a draft is revised.
Made(store, sections, made, todo, specs, revises, old) ==
    /\ made \in Seq(sections) /\ todo \in Seq(ToSet(todo))
    /\ Len(made) + Len(todo) = Len(specs)
    /\ \A k \in DOMAIN made : store[made[k]].id = specs[k].id
    /\ \A k \in DOMAIN todo :
          /\ todo[k].spec.id = specs[Len(made) + k].id
          /\ todo[k].old = IF revises = 0 THEN 0 ELSE old[Len(made) + k]
          /\ todo[k].spec \in ToSet(Specs)

SectionsMade ==
    at = "section" =>
       LET old == stored[call.revises].sections
       IN  /\ Made(stored, OfKind("section"), call.made, call.todo, SpecsOf(call.wanted), call.revises,
                   old)
           /\ call.revises # 0 =>
                 /\ call.revises \in OfKind("draft") /\ call.wanted = stored[call.revises].wanted
                 /\ call.flagged = FaultsOf(call.revises)
                 /\ \A k \in DOMAIN call.made :
                       SectionRevised(old[k], call.made[k], DraftCritiques(call.revises))

\* What is drafted has no execution yet, and the draft just put is what was asked for.
DraftAsked ==
    /\ at \in {"section", "drafted"} =>
          IF call.revises = 0 THEN DraftExecutions(call.outline, call.wanted) = {}
          ELSE DraftRevisions(call.revises) = {}
    /\ at = "drafted" =>
          /\ call.new \in OfKind("draft")
          /\ stored[call.new].outline = call.outline /\ stored[call.new].wanted = call.wanted
          /\ stored[call.new].supersedes = call.revises

\* Without a death a finding is in a package, or is about to be.
FindingsPackaged ==
    /\ deaths \in Nat
    /\ deaths = 0 =>
          \A f \in OfKind("finding") :
             \/ \E p \in OfKind("package") : f \in ToSet(stored[p].findings)
             \/ at = "finding" /\ f \in ToSet(call.made)

DraftingInv == DraftingStore /\ CallBegun /\ Assembling /\ SectionsMade /\ DraftAsked /\ FindingsPackaged

(* Artifacts before and after a put.                                        *)
LEMMA PutAddsOne ==
    ASSUME StoredSound, NEW a, Put(a)
    PROVE  /\ StoredSound' /\ Latest \in Nat /\ Latest' = Latest + 1
           /\ \A kind : OfKind(kind) \subseteq Stored /\ OfKind(kind) \subseteq OfKind(kind)'
           /\ \A kind : a.kind # kind => OfKind(kind)' = OfKind(kind)
           /\ \A kind : a.kind = kind => OfKind(kind)' = OfKind(kind) \cup {Latest + 1}
           /\ \A i \in Stored : /\ i \in Nat /\ 0 < i /\ i < Latest + 1
                                /\ i \in Stored' /\ stored'[i] = stored[i]
           /\ Latest + 1 \in Stored' /\ stored'[Latest + 1] = a
<1>1. /\ StoredSound' /\ Latest \in Nat /\ Stored = 1 .. Latest /\ Stored' = Stored \cup {Latest + 1}
      /\ \A i \in Stored : stored'[i] = stored[i]
      /\ stored'[Latest + 1] = a
  BY PutAdds
<1>2. Latest' = Latest + 1
  <2>1. stored \in Seq(ToSet(stored))
    BY DEF StoredSound
  <2> QED BY <2>1 DEF Put, Latest
<1>3. \A kind : /\ a.kind # kind => OfKind(kind)' = OfKind(kind)
                /\ a.kind = kind => OfKind(kind)' = OfKind(kind) \cup {Latest + 1}
  BY PutOfKind
<1>4. \A kind : OfKind(kind) \subseteq Stored
  BY DEF OfKind
<1>5. \A i \in Stored : i \in Nat /\ 0 < i /\ i < Latest + 1
  BY <1>1
<1> QED BY <1>1, <1>2, <1>3, <1>4, <1>5

(* An artifact was there before, or is the one that is put.                 *)
LEMMA OldOrNew ==
    ASSUME StoredSound, NEW a, Put(a), NEW kind, NEW x \in OfKind(kind)'
    PROVE  \/ x \in OfKind(kind) /\ stored'[x] = stored[x]
           \/ a.kind = kind /\ x = Latest + 1 /\ stored'[x] = a
<1>1. CASE a.kind # kind
  BY <1>1, PutAddsOne
<1>2. CASE a.kind = kind
  <2>1. OfKind(kind)' = OfKind(kind) \cup {Latest + 1}
    BY <1>2, PutAddsOne
  <2> QED BY <1>2, <2>1, PutAddsOne
<1> QED BY <1>1, <1>2

(* A verification stays.                                                    *)
LEMMA VerifiedStays ==
    ASSUME StoredSound, NEW a, Put(a), NEW p, NEW n, VerifiedBy(p, n)
    PROVE  VerifiedBy(p, n)'
<1>1. PICK v \in OfKind("verification") :
         stored[v].proposition = p /\ v < n /\ stored[v].status = "verified"
  BY DEF VerifiedBy, Verification
<1>2. v \in OfKind("verification")' /\ stored'[v] = stored[v]
  BY <1>1, PutAddsOne
<1> QED BY <1>1, <1>2 DEF VerifiedBy, Verification

(* Findings stay sound if the one that is put is.                           *)
LEMMA FindingsStay ==
    ASSUME StoredSound, FindingsSound, NEW a, Put(a),
           a.kind = "finding" => FindingSound(a, Latest + 1)
    PROVE  FindingsSound'
<1> SUFFICES ASSUME NEW f \in OfKind("finding")' PROVE FindingSound(stored[f], f)'
  BY DEF FindingsSound
<1>1. PICK finding : finding = stored'[f]
  OBVIOUS
<1>2. FindingSound(finding, f)
  <2>1. CASE f \in OfKind("finding")
    <3>1. stored'[f] = stored[f]
      BY <2>1, PutAddsOne
    <3> QED BY <1>1, <2>1, <3>1 DEF FindingsSound
  <2>2. CASE f \notin OfKind("finding")
    <3>1. a.kind = "finding" /\ f = Latest + 1
      BY <2>2, PutAddsOne
    <3>2. stored'[f] = a
      BY <3>1, PutAddsOne
    <3> QED BY <1>1, <3>1, <3>2
  <2> QED BY <2>1, <2>2
<1>3. \A p \in finding.supports \cap DOMAIN Conditions :
         VerifiedBy(p, f)' /\ Verbatim(Conditions[p], finding.conditions)
  <2> SUFFICES ASSUME NEW p \in finding.supports \cap DOMAIN Conditions
               PROVE  VerifiedBy(p, f)' /\ Verbatim(Conditions[p], finding.conditions)
    OBVIOUS
  <2>1. VerifiedBy(p, f) /\ Verbatim(Conditions[p], finding.conditions)
    BY <1>2 DEF FindingSound
  <2> QED BY <2>1, VerifiedStays
<1> QED BY <1>1, <1>3 DEF FindingSound, Verbatim

(* A list of artifacts of a kind stays one.                                 *)
LEMMA ListStays ==
    ASSUME StoredSound, NEW a, Put(a), NEW kind, NEW list \in Seq(OfKind(kind))
    PROVE  /\ list \in Seq(OfKind(kind)') /\ ToSet(list) \subseteq OfKind(kind)
           /\ \A k \in DOMAIN list : list[k] \in OfKind(kind) /\ stored'[list[k]] = stored[list[k]]
<1>1. OfKind(kind) \subseteq OfKind(kind)' /\ \A i \in OfKind(kind) : stored'[i] = stored[i]
  BY PutAddsOne
<1>2. \A k \in DOMAIN list : list[k] \in OfKind(kind)
  OBVIOUS
<1>3. list \in Seq(OfKind(kind)')
  BY <1>1
<1> QED BY <1>1, <1>2, <1>3 DEF ToSet

(* What claims rest on stays.                                               *)
LEMMA RestStays ==
    ASSUME StoredSound, NEW a, Put(a), NEW claims, NEW findings, RestOn(claims, findings)
    PROVE  RestOn(claims, findings)'
<1>1. \A i \in Stored : i \in Stored' /\ stored'[i] = stored[i]
  BY PutAddsOne
<1> QED BY <1>1 DEF RestOn

(* Packages stay sound, and apart, if the one that is put is.               *)
LEMMA PackagesStay ==
    ASSUME StoredSound, PackagesSound, NEW a, Put(a),
           a.kind = "package" =>
              /\ PackageRests(a)
              /\ \A p \in OfKind("package") : ToSet(stored[p].findings) \cap ToSet(a.findings) = {}
    PROVE  PackagesSound'
<1>1. ASSUME NEW p \in OfKind("package")'
      PROVE  \/ p \in OfKind("package") /\ stored'[p] = stored[p]
             \/ a.kind = "package" /\ p = Latest + 1 /\ stored'[p] = a
  BY OldOrNew
<1>2. ASSUME NEW p \in OfKind("package")' PROVE PackageRests(stored[p])'
  <2>1. PICK package : package = stored'[p]
    OBVIOUS
  <2>2. PackageRests(package)
    BY <1>1, <2>1 DEF PackagesSound
  <2>3. package.findings \in Seq(OfKind("finding")')
    BY <2>2, ListStays DEF PackageRests
  <2>4. RestOn(package.claims, package.findings)'
    BY <2>2, RestStays DEF PackageRests
  <2>5. PackageRests(package)'
    BY <2>3, <2>4 DEF PackageRests
  <2> QED BY <2>1, <2>5 DEF PackageRests
<1>3. ASSUME NEW p \in OfKind("package")', NEW q \in OfKind("package")',
             ToSet(stored'[p].findings) \cap ToSet(stored'[q].findings) # {}
      PROVE  p = q
  BY <1>1, <1>3 DEF PackagesSound
<1> QED BY <1>2, <1>3 DEF PackagesSound, ToSet

(* One assembly has findings, if none had before another is put.            *)
LEMMA AssemblyStays ==
    ASSUME StoredSound, OneAssembly, NEW a, Put(a), a.kind = "assembly" => Assemblies = {}
    PROVE  OneAssembly' /\ (a.kind # "assembly" => Assemblies' = Assemblies)
<1>1. \A x \in OfKind("assembly") : stored'[x] = stored[x]
  BY PutAddsOne
<1>2. CASE a.kind # "assembly"
  <2>1. OfKind("assembly")' = OfKind("assembly")
    BY <1>2, PutAddsOne
  <2>2. Assemblies' = Assemblies
    BY <1>1, <2>1 DEF Assemblies
  <2> QED BY <1>2, <2>2 DEF OneAssembly
<1>3. CASE a.kind = "assembly"
  <2>1. OfKind("assembly")' = OfKind("assembly") \cup {Latest + 1}
    BY <1>3, PutAddsOne
  <2>2. Assemblies' \subseteq {Latest + 1}
    BY <1>1, <1>3, <2>1 DEF Assemblies
  <2> QED BY <1>3, <2>2 DEF OneAssembly
<1> QED BY <1>2, <1>3

(* Sections are the outline's.                                              *)
LEMMA SectionsStay ==
    ASSUME StoredSound, SectionsSound, NEW a, Put(a),
           a.kind = "section" => \E spec \in ToSet(Specs) : a.id = spec.id
    PROVE  SectionsSound'
<1>1. ASSUME NEW s \in OfKind("section")'
      PROVE  \/ s \in OfKind("section") /\ stored'[s] = stored[s]
             \/ a.kind = "section" /\ stored'[s] = a
  BY OldOrNew
<1> QED BY <1>1 DEF SectionsSound

(* Sections stay in their order.                                            *)
LEMMA OrderStays ==
    ASSUME StoredSound, NEW a, Put(a), NEW sections, NEW wanted, InOrder(sections, wanted)
    PROVE  InOrder(sections, wanted)'
<1>1. sections \in Seq(OfKind("section"))
  BY DEF InOrder
<1>2. /\ sections \in Seq(OfKind("section")')
      /\ \A k \in DOMAIN sections : stored'[sections[k]] = stored[sections[k]]
  BY <1>1, ListStays
<1> QED BY <1>2 DEF InOrder

(* Critiques of drafts, and what they say, stay.                            *)
LEMMA CritiquesStay ==
    ASSUME StoredSound, NEW a, Put(a), NEW d
    PROVE  /\ DraftCritiques(d) \subseteq Stored /\ DraftCritiques(d) \subseteq DraftCritiques(d)'
           /\ DraftCritiques(d)' \subseteq DraftCritiques(d) \cup {Latest + 1}
           /\ a.kind # "draft critique" => DraftCritiques(d)' = DraftCritiques(d)
<1>1. /\ OfKind("draft critique") \subseteq OfKind("draft critique")'
      /\ OfKind("draft critique")' \subseteq OfKind("draft critique") \cup {Latest + 1}
      /\ a.kind # "draft critique" => OfKind("draft critique")' = OfKind("draft critique")
      /\ OfKind("draft critique") \subseteq Stored
      /\ \A c \in OfKind("draft critique") : stored'[c] = stored[c]
  BY PutAddsOne
<1> QED BY <1>1 DEF DraftCritiques

(* What was revised stays so.                                               *)
LEMMA RevisedStays ==
    ASSUME StoredSound, NEW a, Put(a), NEW old \in Stored, NEW new, NEW critiques \in SUBSET Stored,
           SectionRevised(old, new, critiques)
    PROVE  SectionRevised(old, new, critiques)'
<1>1. \A i \in Stored : stored'[i] = stored[i]
  BY PutAddsOne
<1>2. {c \in critiques : stored[old].id \in stored[c].faults}
         = {c \in critiques : stored'[old].id \in stored'[c].faults}
  BY <1>1
<1> QED BY <1>2 DEF SectionRevised

(* The draft that another one supersedes has as many sections.              *)
LEMMA AsMany ==
    ASSUME DraftsSound, NEW d \in OfKind("draft"), NEW sections, NEW wanted,
           InOrder(sections, wanted), wanted = stored[d].wanted
    PROVE  /\ stored[d].sections \in Seq(OfKind("section"))
           /\ DOMAIN stored[d].sections = DOMAIN sections /\ Len(stored[d].sections) = Len(sections)
           /\ \A k \in DOMAIN sections : /\ stored[d].sections[k] \in OfKind("section")
                                         /\ stored[stored[d].sections[k]].id = stored[sections[k]].id
<1>1. PICK old : old = stored[d].sections
  OBVIOUS
<1>2. InOrder(old, wanted)
  BY <1>1 DEF DraftsSound, DraftSound
<1>3. /\ old \in Seq(OfKind("section")) /\ sections \in Seq(OfKind("section"))
      /\ Len(old) = Len(sections)
      /\ \A k \in DOMAIN old : stored[old[k]].id = SpecsOf(wanted)[k].id
      /\ \A k \in DOMAIN sections : stored[sections[k]].id = SpecsOf(wanted)[k].id
  BY <1>2 DEF InOrder
<1>4. DOMAIN old = DOMAIN sections
  BY <1>3, SMTT(30)
<1> QED BY <1>1, <1>3, <1>4

(* Drafts stay sound if the one put is; later critiques do not count.       *)
LEMMA DraftsStay ==
    ASSUME StoredSound, DraftsSound, NEW a, Put(a), a.kind = "draft" => DraftSound(a, Latest + 1)
    PROVE  DraftsSound'
<1> SUFFICES ASSUME NEW d \in OfKind("draft")' PROVE DraftSound(stored[d], d)'
  BY DEF DraftsSound
<1>1. PICK draft : draft = stored'[d]
  OBVIOUS
<1>2. DraftSound(draft, d) /\ d <= Latest + 1
  <2>1. CASE d \in OfKind("draft")
    <3>1. stored'[d] = stored[d] /\ d \in Nat /\ d < Latest + 1 /\ Latest \in Nat
      BY <2>1, PutAddsOne
    <3> QED BY <1>1, <2>1, <3>1 DEF DraftsSound
  <2>2. CASE d \notin OfKind("draft")
    <3>1. a.kind = "draft" /\ d = Latest + 1 /\ Latest \in Nat
      BY <2>2, PutAddsOne
    <3>2. stored'[d] = a
      BY <3>1, PutAddsOne
    <3> QED BY <1>1, <3>1, <3>2
  <2> QED BY <2>1, <2>2
<1>3. InOrder(draft.sections, draft.wanted)'
  BY <1>2, OrderStays DEF DraftSound
<1>4. ASSUME draft.supersedes # 0
      PROVE  /\ draft.supersedes \in OfKind("draft")' /\ draft.supersedes < d
             /\ draft.wanted = stored'[draft.supersedes].wanted
             /\ \A k \in DOMAIN draft.sections :
                   SectionRevised(stored[draft.supersedes].sections[k], draft.sections[k],
                                  {c \in DraftCritiques(draft.supersedes) : c < d})'
  <2>1. PICK e : e = draft.supersedes
    OBVIOUS
  <2>2. /\ e \in OfKind("draft") /\ e < d /\ draft.wanted = stored[e].wanted
        /\ \A k \in DOMAIN draft.sections :
              SectionRevised(stored[e].sections[k], draft.sections[k], {c \in DraftCritiques(e) : c < d})
        /\ InOrder(draft.sections, draft.wanted)
    BY <1>2, <1>4, <2>1 DEF DraftSound
  <2>3. e \in OfKind("draft")' /\ stored'[e] = stored[e]
    BY <2>2, PutAddsOne
  <2>4. PICK critiques : critiques = {c \in DraftCritiques(e) : c < d}
    OBVIOUS
  <2>5. critiques = {c \in DraftCritiques(e)' : c < d} /\ critiques \subseteq Stored
    <3>1. ~(Latest + 1 < d)
      <4>1. d \in Nat /\ Latest \in Nat
        BY PutAddsOne
      <4> QED BY <1>2, <4>1
    <3> QED BY <2>4, <3>1, CritiquesStay
  <2>6. ASSUME NEW k \in DOMAIN draft.sections
        PROVE  SectionRevised(stored[e].sections[k], draft.sections[k],
                              {c \in DraftCritiques(e) : c < d})'
    <3>1. PICK old, new : old = stored[e].sections[k] /\ new = draft.sections[k]
      OBVIOUS
    <3>2. old \in Stored
      BY <2>2, <3>1, AsMany DEF OfKind
    <3>3. SectionRevised(old, new, critiques)
      BY <2>2, <2>4, <3>1
    <3>4. SectionRevised(old, new, critiques)'
      BY <2>5, <3>2, <3>3, RevisedStays
    <3>5. old = stored'[e].sections[k]
      BY <2>3, <3>1
    <3> QED BY <2>5, <3>1, <3>4, <3>5 DEF SectionRevised
  <2> QED BY <2>1, <2>2, <2>3, <2>6 DEF SectionRevised
<1> QED BY <1>1, <1>3, <1>4 DEF DraftSound, InOrder, SectionRevised

(* Executions stay sound, one for each draft that was asked for.            *)
LEMMA ExecutionsStay ==
    ASSUME StoredSound, DraftExecutionsSound, NEW a, Put(a),
           a.kind = "draft execution" =>
              /\ DraftExecutionSound(a)
              /\ \A y \in OfKind("draft execution") : ~SameDraft(a.draft, stored[y].draft)
    PROVE  DraftExecutionsSound'
<1>1. ASSUME NEW x \in OfKind("draft execution")'
      PROVE  \/ x \in OfKind("draft execution") /\ stored'[x] = stored[x]
             \/ a.kind = "draft execution" /\ x = Latest + 1 /\ stored'[x] = a
  BY OldOrNew
<1>2. ASSUME NEW x \in OfKind("draft execution")'
      PROVE  DraftExecutionSound(stored'[x])
  BY <1>1 DEF DraftExecutionsSound
<1>3. \A d \in OfKind("draft") : d \in OfKind("draft")' /\ stored'[d] = stored[d]
  BY PutAddsOne
<1>4. ASSUME NEW x \in OfKind("draft execution")' PROVE DraftExecutionSound(stored[x])'
  BY <1>2, <1>3 DEF DraftExecutionSound
<1>5. ASSUME NEW x \in OfKind("draft execution")', NEW y \in OfKind("draft execution")',
             SameDraft(stored[x].draft, stored[y].draft)'
      PROVE  x = y
  <2>1. SameDraft(stored'[x].draft, stored'[y].draft) /\ SameDraft(stored'[y].draft, stored'[x].draft)
    BY <1>2, <1>3, <1>5 DEF SameDraft, DraftExecutionSound
  <2> QED BY <1>1, <2>1 DEF DraftExecutionsSound
<1> QED BY <1>4, <1>5 DEF DraftExecutionsSound

(* The store stays sound if what is put is.                                 *)
LEMMA DraftingStoreStays ==
    ASSUME DraftingStore, NEW a, Put(a),
           a.kind = "finding" => FindingSound(a, Latest + 1),
           a.kind = "package" =>
              /\ PackageRests(a)
              /\ \A p \in OfKind("package") : ToSet(stored[p].findings) \cap ToSet(a.findings) = {},
           a.kind = "assembly" => Assemblies = {},
           a.kind = "section" => \E spec \in ToSet(Specs) : a.id = spec.id,
           a.kind = "draft" => DraftSound(a, Latest + 1),
           a.kind = "draft execution" =>
              /\ DraftExecutionSound(a)
              /\ \A y \in OfKind("draft execution") : ~SameDraft(a.draft, stored[y].draft)
    PROVE  DraftingStore'
<1>1. StoredSound /\ FindingsSound /\ PackagesSound /\ OneAssembly /\ SectionsSound /\ DraftsSound
      /\ DraftExecutionsSound
  BY DEF DraftingStore
<1>2. StoredSound'
  BY <1>1, PutAddsOne
<1>3. FindingsSound' /\ PackagesSound'
  BY <1>1, FindingsStay, PackagesStay
<1>4. OneAssembly' /\ SectionsSound'
  BY <1>1, AssemblyStays, SectionsStay
<1>5. DraftsSound'
  BY <1>1, DraftsStay
<1>6. DraftExecutionsSound'
  BY <1>1, ExecutionsStay
<1> QED BY <1>2, <1>3, <1>4, <1>5, <1>6 DEF DraftingStore

(* Nothing changes in the store where nothing is put.                       *)
LEMMA DraftingStoreSame ==
    ASSUME DraftingStore, UNCHANGED stored
    PROVE  DraftingStore'
<1>1. /\ \A kind : OfKind(kind)' = OfKind(kind)
      /\ \A d : DraftCritiques(d)' = DraftCritiques(d)
      /\ Stored' = Stored /\ UNCHANGED stored
  BY DEF DraftCritiques, OfKind, Stored
<1>2. StoredSound' /\ FindingsSound'
  BY DEF DraftingStore, StoredSound, FindingsSound, FindingSound, VerifiedBy, Verification, Verbatim, OfKind,
         Stored
<1>3. PackagesSound'
  BY <1>1 DEF DraftingStore, PackagesSound, PackageRests, RestOn
<1>4. OneAssembly' /\ SectionsSound'
  BY DEF DraftingStore, OneAssembly, Assemblies, SectionsSound, OfKind, Stored
<1>5. DraftsSound'
  <2>1. \A sections, wanted : InOrder(sections, wanted)' <=> InOrder(sections, wanted)
    BY <1>1 DEF InOrder
  <2>2. \A old, new, critiques : SectionRevised(old, new, critiques)' <=> SectionRevised(old, new, critiques)
    BY <1>1 DEF SectionRevised
  <2>3. \A draft, n : DraftSound(draft, n)' <=> DraftSound(draft, n)
    <3> SUFFICES ASSUME NEW draft, NEW n PROVE DraftSound(draft, n)' <=> DraftSound(draft, n)
      OBVIOUS
    <3> DEFINE Revised(k) ==
                 SectionRevised(stored[draft.supersedes].sections[k], draft.sections[k],
                                {c \in DraftCritiques(draft.supersedes) : c < n})
    <3>1. \A k : Revised(k)' <=> Revised(k)
      BY <1>1 DEF SectionRevised
    <3> HIDE DEF Revised
    <3>2. DraftSound(draft, n) <=>
            /\ InOrder(draft.sections, draft.wanted)
            /\ draft.supersedes # 0 =>
                  /\ draft.supersedes \in OfKind("draft") /\ draft.supersedes < n
                  /\ draft.wanted = stored[draft.supersedes].wanted
                  /\ \A k \in DOMAIN draft.sections : Revised(k)
      BY DEF DraftSound, Revised
    <3>3. DraftSound(draft, n)' <=>
            /\ InOrder(draft.sections, draft.wanted)'
            /\ draft.supersedes # 0 =>
                  /\ draft.supersedes \in OfKind("draft")' /\ draft.supersedes < n
                  /\ draft.wanted = stored'[draft.supersedes].wanted
                  /\ \A k \in DOMAIN draft.sections : Revised(k)'
      BY DEF DraftSound, Revised
    <3> QED BY <1>1, <2>1, <3>1, <3>2, <3>3
  <2>4. ASSUME NEW d \in OfKind("draft") PROVE DraftSound(stored[d], d)'
    <3>1. PICK draft : draft = stored[d]
      OBVIOUS
    <3>2. DraftSound(draft, d) /\ draft = stored'[d]
      BY <1>1, <3>1 DEF DraftingStore, DraftsSound
    <3>3. DraftSound(draft, d)'
      BY <2>3, <3>2
    <3>4. /\ InOrder(draft.sections, draft.wanted)'
          /\ draft.supersedes # 0 =>
                /\ draft.supersedes \in OfKind("draft")' /\ draft.supersedes < d
                /\ draft.wanted = stored'[draft.supersedes].wanted
                /\ \A k \in DOMAIN draft.sections :
                      SectionRevised(stored[draft.supersedes].sections[k], draft.sections[k],
                                     {c \in DraftCritiques(draft.supersedes) : c < d})'
      BY <3>3 DEF DraftSound
    <3>5. InOrder(stored[d].sections, stored[d].wanted)'
      BY <3>2, <3>4, Zenon DEF InOrder
    <3>6. ASSUME stored'[d].supersedes # 0, NEW k \in DOMAIN stored'[d].sections
          PROVE  SectionRevised(stored[stored[d].supersedes].sections[k], stored[d].sections[k],
                                {c \in DraftCritiques(stored[d].supersedes) : c < d})'
      BY <3>2, <3>4, <3>6 DEF SectionRevised
    <3> QED BY <3>2, <3>4, <3>5, <3>6 DEF DraftSound
  <2> QED BY <1>1, <2>4 DEF DraftsSound
<1>6. DraftExecutionsSound'
  <2>1. ASSUME NEW x \in OfKind("draft execution") PROVE DraftExecutionSound(stored[x])'
    <3>1. DraftExecutionSound(stored[x]) /\ stored'[x] = stored[x]
      BY <1>1 DEF DraftingStore, DraftExecutionsSound
    <3> QED BY <1>1, <3>1 DEF DraftExecutionSound
  <2>2. ASSUME NEW x \in OfKind("draft execution"), NEW y \in OfKind("draft execution"),
               SameDraft(stored[x].draft, stored[y].draft)'
        PROVE  x = y
    <3>1. SameDraft(stored[x].draft, stored[y].draft)
      BY <1>1, <2>2 DEF SameDraft
    <3> QED BY <3>1 DEF DraftingStore, DraftExecutionsSound
  <2> QED BY <1>1, <2>1, <2>2 DEF DraftExecutionsSound
<1> QED BY <1>2, <1>3, <1>4, <1>5, <1>6 DEF DraftingStore

(* Between calls only the store matters.                                    *)
LEMMA NoCallKeeps ==
    ASSUME DraftingStore', at' = "idle", FindingsPackaged'
    PROVE  DraftingInv'
BY DEF DraftingInv, CallBegun, Assembling, SectionsMade, DraftAsked

(* A call ends, or its process dies.                                        *)
LEMMA EndKeeps ==
    ASSUME DraftingInv, UNCHANGED stored, at' = "idle", deaths' \in Nat,
           deaths' # 0 \/ (deaths' = deaths /\ at # "finding")
    PROVE  DraftingInv'
<1>1. DraftingStore'
  BY DraftingStoreSame DEF DraftingInv
<1>2. FindingsPackaged'
  BY DEF DraftingInv, FindingsPackaged, OfKind, Stored, ToSet
<1> QED BY <1>1, <1>2, NoCallKeeps

(* Where nothing changes, all of it stays.                                  *)
LEMMA SameKeeps ==
    ASSUME DraftingInv, UNCHANGED researchVars
    PROVE  DraftingInv'
<1>1. UNCHANGED stored /\ UNCHANGED at /\ UNCHANGED call /\ UNCHANGED deaths
  BY DEF researchVars
<1>2. DraftingStore'
  BY <1>1, DraftingStoreSame DEF DraftingInv
<1>3. CallBegun'
  BY <1>1 DEF DraftingInv, CallBegun, VerifiedBy, Verification, Latest, OfKind, Stored
<1>4. Assembling'
  BY <1>1 DEF DraftingInv, Assembling, Assemblies, RestOn, OfKind, Stored
<1>5. SectionsMade'
  <2>1. /\ FaultsOf(call.revises)' = FaultsOf(call.revises) /\ OfKind("draft")' = OfKind("draft")
        /\ OfKind("section")' = OfKind("section")
        /\ DraftCritiques(call.revises)' = DraftCritiques(call.revises)
    BY <1>1 DEF FaultsOf, DraftCritiques, OfKind, Stored
  <2> QED BY <1>1, <2>1 DEF DraftingInv, SectionsMade, SectionRevised, Made
<1>6. DraftAsked'
  <2>1. OfKind("draft")' = OfKind("draft") /\ OfKind("draft execution")' = OfKind("draft execution")
    BY <1>1 DEF OfKind, Stored
  <2>2. DraftExecutions(call.outline, call.wanted)' = DraftExecutions(call.outline, call.wanted)
    BY <1>1, <2>1 DEF DraftExecutions
  <2>3. DraftRevisions(call.revises)' = DraftRevisions(call.revises)
    BY <1>1, <2>1 DEF DraftRevisions
  <2> QED BY <1>1, <2>1, <2>2, <2>3 DEF DraftingInv, DraftAsked
<1>7. FindingsPackaged'
  BY <1>1 DEF DraftingInv, FindingsPackaged, OfKind, Stored
<1> QED BY <1>2, <1>3, <1>4, <1>5, <1>6, <1>7 DEF DraftingInv

(* What is packaged stays so if no finding is put.                          *)
LEMMA PackagedStays ==
    ASSUME StoredSound, FindingsPackaged, NEW a, Put(a), a.kind # "finding", UNCHANGED deaths,
           at = "finding" => at' = "finding" /\ ToSet(call.made) \subseteq ToSet(call'.made)
    PROVE  FindingsPackaged'
<1>1. OfKind("finding")' = OfKind("finding")
  BY PutAddsOne
<1>2. \A p \in OfKind("package") : p \in OfKind("package")' /\ stored'[p] = stored[p]
  BY PutAddsOne
<1>3. deaths' \in Nat
  BY DEF FindingsPackaged
<1>4. ASSUME deaths' = 0, NEW f \in OfKind("finding")
      PROVE  \/ \E p \in OfKind("package")' : f \in ToSet(stored'[p].findings)
             \/ at' = "finding" /\ f \in ToSet(call'.made)
  BY <1>2, <1>4 DEF FindingsPackaged
<1> QED BY <1>1, <1>3, <1>4 DEF FindingsPackaged, ToSet

(* Verifications, critiques and outlines come between calls.                *)
LEMMA PutAtOnceKeeps ==
    ASSUME DraftingInv, NEW a, PutAtOnce(a),
           a.kind \in {"verification", "package critique", "outline", "draft critique"}
    PROVE  DraftingInv'
<1>1. Put(a) /\ at = "idle" /\ at' = "idle" /\ UNCHANGED deaths /\ StoredSound
  BY DEF PutAtOnce, DraftingInv, DraftingStore
<1>2. DraftingStore'
  BY <1>1, DraftingStoreStays DEF DraftingInv
<1>3. FindingsPackaged'
  BY <1>1, PackagedStays DEF DraftingInv
<1> QED BY <1>1, <1>2, <1>3, NoCallKeeps

(* The call goes on and no finding was left behind.                         *)
LEMMA PackagedSame ==
    ASSUME FindingsPackaged, UNCHANGED <<stored, deaths>>,
           at = "finding" => at' = "finding" /\ call'.made = call.made
    PROVE  FindingsPackaged'
BY DEF FindingsPackaged, OfKind, Stored, ToSet

(* What is verified stays verified.                                         *)
LEMMA BegunStays ==
    ASSUME StoredSound, CallBegun, at # "idle", DOMAIN call' = DraftingFields, call'.verified = call.verified,
           at' \in {"assemble", "finding", "assembled", "section", "drafted"},
           \/ UNCHANGED stored
           \/ \E a : Put(a)
    PROVE  CallBegun'
<1> SUFFICES ASSUME NEW p \in call.verified
             PROVE  p \in DOMAIN Conditions /\ VerifiedBy(p, Latest + 1)'
  BY DEF CallBegun
<1>1. p \in DOMAIN Conditions /\ VerifiedBy(p, Latest + 1)
  BY DEF CallBegun
<1>2. CASE UNCHANGED stored
  BY <1>1, <1>2 DEF VerifiedBy, Verification, OfKind, Stored, Latest
<1>3. CASE \E a : Put(a)
  <2>1. PICK a : Put(a)
    BY <1>3
  <2>2. /\ Latest \in Nat /\ Latest' = Latest + 1
        /\ \A i \in OfKind("verification")' : i \in Nat /\ i < Latest' + 1
    <3>1. \A i \in Stored : i < Latest + 1 /\ i \in Nat
      BY <2>1, PutAddsOne
    <3>2. Latest \in Nat /\ Latest' = Latest + 1
      BY <2>1, PutAddsOne
    <3>3. \A i \in OfKind("verification")' : i \in Stored \/ i = Latest + 1
      BY <2>1, OldOrNew, PutAddsOne
    <3> QED BY <3>1, <3>2, <3>3
  <2>3. VerifiedBy(p, Latest + 1)
    BY <1>1
  <2>4. PICK v \in Verification(p) : v < Latest + 1 /\ stored[v].status = "verified"
    BY <2>3 DEF VerifiedBy
  <2>5. v \in OfKind("verification")' /\ stored'[v] = stored[v] /\ stored[v].proposition = p
    BY <2>1, <2>4, PutAddsOne DEF Verification
  <2> QED BY <1>1, <2>2, <2>4, <2>5 DEF VerifiedBy, Verification
<1> QED BY <1>2, <1>3

(* What a call is given to begin with.                                      *)
LEMMA VerifiedKnown ==
    ASSUME StoredSound
    PROVE  \A p \in Verified : p \in DOMAIN Conditions /\ VerifiedBy(p, Latest + 1)
<1>1. Latest \in Nat /\ Stored = 1 .. Latest
  BY DEF StoredSound, Latest, Stored
<1>2. \A i \in OfKind("verification") : i < Latest + 1
  BY <1>1 DEF OfKind
<1> QED BY <1>2 DEF Verified, VerifiedBy, Verification

(* The local variables of a call at its beginning.                          *)
LEMMA LocalsAre ==
    /\ DOMAIN DraftingLocals = DraftingFields
    /\ DraftingLocals.made = <<>> /\ DraftingLocals.claims = <<>> /\ DraftingLocals.revises = 0
BY DEF DraftingLocals, DraftingFields

(* A list with one more element behind it.                                  *)
LEMMA OneMore ==
    ASSUME NEW S, NEW list \in Seq(S), NEW x \in S
    PROVE  /\ Append(list, x) \in Seq(S) /\ Len(Append(list, x)) = Len(list) + 1
           /\ Len(list) \in Nat /\ DOMAIN list = 1 .. Len(list)
           /\ \A k \in DOMAIN list : Append(list, x)[k] = list[k]
           /\ Append(list, x)[Len(list) + 1] = x
           /\ DOMAIN Append(list, x) = DOMAIN list \cup {Len(list) + 1}
           /\ ToSet(Append(list, x)) = ToSet(list) \cup {x}
<1>1. PICK longer : longer = Append(list, x)
  OBVIOUS
<1>2. /\ longer \in Seq(S) /\ Len(longer) = Len(list) + 1
      /\ Len(list) \in Nat /\ DOMAIN list = 1 .. Len(list)
      /\ DOMAIN longer = 1 .. Len(list) + 1
      /\ \A k \in 1 .. Len(list) : longer[k] = list[k]
      /\ longer[Len(list) + 1] = x
  BY <1>1
<1>3. 1 .. Len(list) + 1 = (1 .. Len(list)) \cup {Len(list) + 1}
  BY <1>2
<1>4. ToSet(longer) = ToSet(list) \cup {x}
  BY <1>2, <1>3 DEF ToSet
<1> QED BY <1>1, <1>2, <1>3, <1>4

(* An assembly begins where no other one has findings.                      *)
LEMMA AssembleKeeps ==
    ASSUME DraftingInv, Assemble
    PROVE  DraftingInv'
<1>1. /\ at = "idle" /\ at' = "assemble" /\ Assemblies = {} /\ UNCHANGED deaths /\ UNCHANGED stored
      /\ call' = [DraftingLocals EXCEPT !.verified = Verified]
  BY DEF Assemble, Call
<1>2. /\ DOMAIN call' = DraftingFields /\ call'.verified = Verified
      /\ call'.made = <<>> /\ call'.claims = <<>>
  BY <1>1, LocalsAre DEF DraftingFields
<1>3. DraftingStore'
  BY <1>1, DraftingStoreSame DEF DraftingInv
<1>4. CallBegun'
  <2>1. \A p \in Verified : p \in DOMAIN Conditions /\ VerifiedBy(p, Latest + 1)'
    BY <1>1, VerifiedKnown DEF DraftingInv, DraftingStore, VerifiedBy, Verification, OfKind, Stored, Latest
  <2> QED BY <1>1, <1>2, <2>1 DEF CallBegun
<1>5. Assembling'
  <2>1. Assemblies' = {}
    BY <1>1 DEF Assemblies, OfKind, Stored
  <2> QED BY <1>1, <1>2, <2>1 DEF Assembling
<1>6. FindingsPackaged'
  BY <1>1, PackagedSame DEF DraftingInv
<1> QED BY <1>1, <1>3, <1>4, <1>5, <1>6 DEF DraftingInv, SectionsMade, DraftAsked

(* A rejected answer is asked for again, or ends the call.                  *)
LEMMA RejectedKeeps ==
    ASSUME DraftingInv, AnswerRejected
    PROVE  DraftingInv'
<1>1. at = "assemble" /\ UNCHANGED stored
  BY DEF AnswerRejected
<1>2. CASE Leave
  <2>1. at' = "idle" /\ UNCHANGED deaths /\ deaths \in Nat
    BY <1>2 DEF Leave, DraftingInv, FindingsPackaged
  <2> QED BY <1>1, <2>1, EndKeeps
<1>3. CASE call' = [call EXCEPT !.attempts = @ + 1] /\ Goto("assemble")
  <2>1. at' = "assemble" /\ UNCHANGED deaths /\ DOMAIN call = DraftingFields
    BY <1>1, <1>3 DEF Goto, DraftingInv, CallBegun
  <2>2. /\ DOMAIN call' = DraftingFields /\ call'.verified = call.verified
        /\ call'.made = call.made /\ call'.claims = call.claims
    BY <1>3, <2>1 DEF DraftingFields
  <2>3. DraftingStore'
    BY <1>1, DraftingStoreSame DEF DraftingInv
  <2>4. CallBegun'
    BY <1>1, <2>1, <2>2, BegunStays DEF DraftingInv, DraftingStore
  <2>5. Assembling'
    <3>1. Assemblies' = Assemblies
      BY <1>1 DEF Assemblies, OfKind, Stored
    <3> QED BY <1>1, <2>1, <2>2, <3>1 DEF DraftingInv, Assembling
  <2>6. FindingsPackaged'
    BY <1>1, <2>1, PackagedSame DEF DraftingInv
  <2> QED BY <2>1, <2>3, <2>4, <2>5, <2>6 DEF DraftingInv, SectionsMade, DraftAsked
<1> QED BY <1>2, <1>3 DEF AnswerRejected

(* The findings of an answer are a list.                                    *)
LEMMA FindingsAre ==
    ASSUME NEW answer \in AssemblerAnswers
    PROVE  /\ Findings(answer) \in Seq(ToSet(answer.findings)) /\ Len(Findings(answer)) \in Nat
           /\ DOMAIN Findings(answer) = 1 .. Len(Findings(answer))
           /\ answer.claims \in Seq(ToSet(answer.claims))
           /\ \A k \in DOMAIN answer.claims : answer.claims[k].kind \in {"contribution", "implication"}
<1>1. PICK findings : findings = answer.findings
  OBVIOUS
<1>2. findings \in Seq(ToSet(findings)) /\ answer.claims \in Seq(ToSet(answer.claims))
  BY <1>1, AssemblyAssumption
<1>3. PICK n : n = Min({MaxFindings, Len(findings)})
  OBVIOUS
<1>4. n \in Nat /\ n <= Len(findings)
  <2>1. MaxFindings \in Nat /\ Len(findings) \in Nat
    BY <1>2, AssemblyAssumption
  <2>2. {MaxFindings, Len(findings)} \in SUBSET Nat /\ {MaxFindings, Len(findings)} # {}
    BY <2>1
  <2> QED BY <1>3, <2>1, <2>2, FirstPlace
<1>5. Findings(answer) = SubSeq(findings, 1, n)
  BY <1>1, <1>3 DEF Findings
<1>6. SubSeq(findings, 1, n) \in Seq(ToSet(findings))
  BY <1>2, <1>4
<1>7. \A k \in DOMAIN answer.claims : answer.claims[k].kind \in {"contribution", "implication"}
  BY AssemblyAssumption DEF ToSet
<1>8. \A T : \A s \in Seq(T) : Len(s) \in Nat /\ DOMAIN s = 1 .. Len(s)
  OBVIOUS
<1> QED BY <1>1, <1>2, <1>5, <1>6, <1>7, <1>8

(* An answer that is accepted is sound; nothing of it is put yet.           *)
LEMMA AcceptedKeeps ==
    ASSUME DraftingInv, NEW answer \in AssemblerAnswers, AnswerAccepted(answer)
    PROVE  DraftingInv'
<1>1. /\ at = "assemble" /\ at' = "finding" /\ UNCHANGED stored /\ UNCHANGED deaths
      /\ call' = [call EXCEPT !.answer = answer] /\ SoundAnswer(answer, call.verified)
      /\ DOMAIN call = DraftingFields /\ call.made = <<>> /\ call.claims = <<>> /\ Assemblies = {}
  BY DEF AnswerAccepted, Continue, Goto, DraftingInv, CallBegun, Assembling
<1>2. /\ DOMAIN call' = DraftingFields /\ call'.verified = call.verified /\ call'.answer = answer
      /\ call'.made = <<>> /\ call'.claims = <<>>
  BY <1>1 DEF DraftingFields
<1>3. DraftingStore'
  BY <1>1, DraftingStoreSame DEF DraftingInv
<1>4. CallBegun'
  BY <1>1, <1>2, BegunStays DEF DraftingInv, DraftingStore
<1>5. Assembling'
  <2>1. Assemblies' = {}
    BY <1>1 DEF Assemblies, OfKind, Stored
  <2>2. ToSet(<<>>) = {}
    BY DEF ToSet
  <2>3. <<>> \in Seq(OfKind("finding")') /\ <<>> \in Seq(Stored') /\ Len(<<>>) = 0
    OBVIOUS
  <2>4. Len(<<>>) <= Len(Findings(answer))
    BY <2>3, FindingsAre
  <2>5. RestOn(<<>>, <<>>)'
    BY <2>2 DEF RestOn
  <2>6. \A p \in OfKind("package")' : ToSet(stored'[p].findings) \cap ToSet(<<>>) = {}
    BY <2>2
  <2> QED BY <1>1, <1>2, <2>1, <2>3, <2>4, <2>5, <2>6 DEF Assembling, SoundAnswer, RestOn
<1>6. FindingsPackaged'
  BY <1>1, PackagedSame DEF DraftingInv
<1> QED BY <1>1, <1>3, <1>4, <1>5, <1>6 DEF DraftingInv, SectionsMade, DraftAsked

(* What a finding may say, it says of what was verified.                    *)
LEMMA FindingEarned ==
    ASSUME NEW finding, NEW verified, SoundFinding(finding, verified),
           \A p \in verified : p \in DOMAIN Conditions /\ VerifiedBy(p, Latest + 1)
    PROVE  FindingSound(finding, Latest + 1)
<1> SUFFICES ASSUME NEW p \in finding.supports \cap DOMAIN Conditions
             PROVE  VerifiedBy(p, Latest + 1) /\ Verbatim(Conditions[p], finding.conditions)
  BY DEF FindingSound
<1>1. p \in verified
  BY AssemblyAssumption DEF SoundFinding
<1>2. Conditions[p] \subseteq UNION {Conditions[q] : q \in finding.supports \cap verified}
  BY <1>1
<1> QED BY <1>1, <1>2 DEF SoundFinding, Verbatim

(* A finding is put that was earned; it is in no package yet.               *)
LEMMA PutFindingKeeps ==
    ASSUME DraftingInv, PutFinding
    PROVE  DraftingInv'
<1> DEFINE n == Len(call.made) + 1
           finding == Findings(call.answer)[n]
           a == [kind |-> "finding", supports |-> finding.supports, conditions |-> finding.conditions]
<1>1. /\ at = "finding" /\ at' = "finding" /\ UNCHANGED deaths /\ Put(a)
      /\ Len(call.made) < Len(Findings(call.answer))
      /\ call' = [call EXCEPT !.made = Append(@, Len(stored) + 1)]
  BY DEF PutFinding, PutThen, Goto
<1>2. /\ DOMAIN call = DraftingFields /\ call.answer \in AssemblerAnswers
      /\ SoundAnswer(call.answer, call.verified) /\ Assemblies = {}
      /\ call.made \in Seq(OfKind("finding")) /\ call.claims \in Seq(Stored)
      /\ RestOn(call.claims, call.made) /\ StoredSound /\ DraftingStore
      /\ \A p \in OfKind("package") : ToSet(stored[p].findings) \cap ToSet(call.made) = {}
      /\ \A p \in call.verified : p \in DOMAIN Conditions /\ VerifiedBy(p, Latest + 1)
  BY <1>1 DEF DraftingInv, CallBegun, Assembling, DraftingStore
<1>3. /\ DOMAIN call' = DraftingFields /\ call'.verified = call.verified /\ call'.answer = call.answer
      /\ call'.made = Append(call.made, Latest + 1) /\ call'.claims = call.claims
  BY <1>1, <1>2 DEF DraftingFields, Latest
<1>4. FindingSound(a, Latest + 1)
  <2>1. n \in DOMAIN Findings(call.answer)
    <3>1. Len(call.made) \in Nat
      BY <1>2
    <3>2. /\ Len(Findings(call.answer)) \in Nat
          /\ DOMAIN Findings(call.answer) = 1 .. Len(Findings(call.answer))
      BY <1>2, FindingsAre
    <3> QED BY <1>1, <3>1, <3>2
  <2>2. SoundFinding(finding, call.verified)
    BY <1>2, <2>1 DEF SoundAnswer
  <2>3. FindingSound(finding, Latest + 1)
    BY <1>2, <2>2, FindingEarned
  <2> QED BY <2>3 DEF FindingSound
<1> HIDE DEF a, n, finding
<1>5. a.kind = "finding"
  BY DEF a
<1>6. DraftingStore'
  BY <1>1, <1>2, <1>4, <1>5, DraftingStoreStays
<1>7. CallBegun'
  BY <1>1, <1>2, <1>3, BegunStays DEF DraftingInv
<1>8. /\ OfKind("package")' = OfKind("package") /\ Stored \subseteq Stored' /\ Latest + 1 \notin Stored
      /\ OfKind("finding")' = OfKind("finding") \cup {Latest + 1} /\ OfKind("package") \subseteq Stored
      /\ \A i \in Stored : stored'[i] = stored[i]
  BY <1>1, <1>2, <1>5, PutAddsOne, PutAdds
<1>9. /\ call'.made \in Seq(OfKind("finding")') /\ ToSet(call'.made) = ToSet(call.made) \cup {Latest + 1}
      /\ Len(call'.made) = Len(call.made) + 1 /\ Len(call.made) \in Nat
  <2>1. PICK S, x : S = OfKind("finding") \cup {Latest + 1} /\ x = Latest + 1
    OBVIOUS
  <2>2. call.made \in Seq(S) /\ x \in S
    BY <1>2, <2>1
  <2>3. /\ Append(call.made, x) \in Seq(S) /\ ToSet(Append(call.made, x)) = ToSet(call.made) \cup {x}
        /\ Len(Append(call.made, x)) = Len(call.made) + 1 /\ Len(call.made) \in Nat
    BY <2>2, OneMore
  <2> QED BY <1>3, <1>8, <2>1, <2>3
<1>10. Assembling'
  <2>1. Assemblies' = {}
    BY <1>1, <1>2, <1>5, AssemblyStays DEF DraftingStore
  <2>2. Len(call'.made) <= Len(Findings(call.answer))
    <3>1. Len(Findings(call.answer)) \in Nat
      BY <1>2, FindingsAre
    <3> QED BY <1>1, <1>9, <3>1
  <2>3. call.claims \in Seq(Stored')
    BY <1>2, <1>8
  <2>4. RestOn(call.claims, call.made)'
    BY <1>2, <1>3, <1>8, <1>9 DEF RestOn
  <2>5. \A p \in OfKind("package") : Latest + 1 \notin ToSet(stored[p].findings)
    <3>1. \A p \in OfKind("package") : stored[p].findings \in Seq(OfKind("finding"))
      BY <1>2 DEF DraftingStore, PackagesSound, PackageRests
    <3>2. \A p \in OfKind("package") : ToSet(stored[p].findings) \subseteq OfKind("finding")
      BY <3>1 DEF ToSet
    <3> QED BY <1>8, <3>2 DEF OfKind
  <2>6. \A p \in OfKind("package")' : ToSet(stored'[p].findings) \cap ToSet(call'.made) = {}
    BY <1>2, <1>8, <1>9, <2>5
  <2>7. SoundAnswer(call.answer, call.verified)'
    BY <1>2, <1>3 DEF SoundAnswer
  <2> QED BY <1>1, <1>2, <1>3, <1>9, <2>1, <2>2, <2>3, <2>4, <2>6, <2>7 DEF Assembling
<1>11. FindingsPackaged'
  BY <1>1, <1>8, <1>9 DEF DraftingInv, FindingsPackaged
<1> QED BY <1>1, <1>6, <1>7, <1>10, <1>11 DEF DraftingInv, SectionsMade, DraftAsked

(* Claims and packages are put while the findings stay.                     *)
LEMMA FindingsKept ==
    ASSUME DraftingInv, at = "finding", NEW a, Put(a), a.kind \notin {"finding", "package", "assembly"}
    PROVE  /\ StoredSound /\ DraftingStore /\ Assemblies' = {}
           /\ call.made \in Seq(OfKind("finding")')
           /\ \A p \in OfKind("package")' : ToSet(stored'[p].findings) \cap ToSet(call.made) = {}
<1>1. /\ StoredSound /\ DraftingStore /\ Assemblies = {} /\ OneAssembly
      /\ call.made \in Seq(OfKind("finding"))
      /\ \A p \in OfKind("package") : ToSet(stored[p].findings) \cap ToSet(call.made) = {}
  BY DEF DraftingInv, DraftingStore, Assembling
<1>2. /\ OfKind("package")' = OfKind("package") /\ OfKind("finding")' = OfKind("finding")
      /\ \A p \in OfKind("package") : stored'[p] = stored[p]
  BY <1>1, PutAddsOne
<1>3. Assemblies' = {}
  BY <1>1, AssemblyStays
<1> QED BY <1>1, <1>2, <1>3

(* A claim names findings of this answer.                                   *)
LEMMA PutClaimKeeps ==
    ASSUME DraftingInv, PutClaim
    PROVE  DraftingInv'
<1> DEFINE n == Len(call.claims) + 1
           claim == call.answer.claims[n]
           a == [kind |-> claim.kind, findings |-> {FindingAt(k) : k \in claim.refs}]
<1>1. /\ at = "finding" /\ at' = "finding" /\ UNCHANGED deaths /\ Put(a)
      /\ Len(call.made) = Len(Findings(call.answer)) /\ Len(call.claims) < Len(call.answer.claims)
      /\ call' = [call EXCEPT !.claims = Append(@, Len(stored) + 1)]
  BY DEF PutClaim, PutThen, Goto
<1>2. /\ DOMAIN call = DraftingFields /\ call.answer \in AssemblerAnswers
      /\ SoundAnswer(call.answer, call.verified)
      /\ call.made \in Seq(OfKind("finding")) /\ call.claims \in Seq(Stored)
      /\ RestOn(call.claims, call.made) /\ StoredSound /\ DraftingStore
      /\ Len(call.made) <= Len(Findings(call.answer))
  BY <1>1 DEF DraftingInv, CallBegun, Assembling, DraftingStore
<1>3. /\ DOMAIN call' = DraftingFields /\ call'.verified = call.verified /\ call'.answer = call.answer
      /\ call'.made = call.made /\ call'.claims = Append(call.claims, Latest + 1)
  BY <1>1, <1>2 DEF DraftingFields, Latest
<1>4. n \in DOMAIN call.answer.claims
  <2>1. Len(call.claims) \in Nat
    BY <1>2
  <2>2. call.answer.claims \in Seq(ToSet(call.answer.claims))
    BY <1>2, FindingsAre
  <2> QED BY <1>1, <2>1, <2>2
<1>5. a.kind \in {"contribution", "implication"}
  BY <1>2, <1>4, FindingsAre
<1>6. a.findings \subseteq ToSet(call.made)
  <2>1. claim.refs \subseteq DOMAIN Findings(call.answer)
    BY <1>2, <1>4 DEF SoundAnswer
  <2>2. DOMAIN Findings(call.answer) = 1 .. Len(Findings(call.answer))
    BY <1>2, FindingsAre
  <2>3. DOMAIN call.made = 1 .. Len(call.made)
    BY <1>2
  <2>4. \A k \in claim.refs : FindingAt(k) \in ToSet(call.made)
    BY <1>1, <2>1, <2>2, <2>3 DEF ToSet, FindingAt
  <2> QED BY <2>4
<1> HIDE DEF a, n, claim
<1>7. DraftingStore'
  BY <1>1, <1>2, <1>5, DraftingStoreStays
<1>8. CallBegun'
  BY <1>1, <1>2, <1>3, BegunStays DEF DraftingInv
<1>9. Assembling'
  <2>1. /\ Assemblies' = {} /\ call.made \in Seq(OfKind("finding")')
        /\ \A p \in OfKind("package")' : ToSet(stored'[p].findings) \cap ToSet(call.made) = {}
    BY <1>1, <1>5, FindingsKept
  <2>2. /\ Stored' = Stored \cup {Latest + 1} /\ stored'[Latest + 1] = a
        /\ \A i \in Stored : stored'[i] = stored[i]
    BY <1>1, <1>2, PutAdds
  <2>3. call'.claims \in Seq(Stored') /\ ToSet(call'.claims) = ToSet(call.claims) \cup {Latest + 1}
    <3>1. PICK S, x : S = Stored \cup {Latest + 1} /\ x = Latest + 1
      OBVIOUS
    <3>2. call.claims \in Seq(S) /\ x \in S
      BY <1>2, <3>1
    <3>3. /\ Append(call.claims, x) \in Seq(S)
          /\ ToSet(Append(call.claims, x)) = ToSet(call.claims) \cup {x}
      BY <3>2, OneMore
    <3> QED BY <1>3, <2>2, <3>1, <3>3
  <2>4. RestOn(call.claims, call.made)'
    BY <1>2, <1>3, <1>6, <2>2, <2>3 DEF RestOn
  <2>5. SoundAnswer(call.answer, call.verified)'
    BY <1>2, <1>3 DEF SoundAnswer
  <2> QED BY <1>1, <1>2, <1>3, <2>1, <2>3, <2>4, <2>5 DEF Assembling
<1>10. FindingsPackaged'
  BY <1>1, <1>2, <1>3, <1>5, PackagedStays DEF DraftingInv
<1> QED BY <1>1, <1>7, <1>8, <1>9, <1>10 DEF DraftingInv, SectionsMade, DraftAsked

(* The package takes all findings of this answer, in no other one.          *)
LEMMA PutResultsKeeps ==
    ASSUME DraftingInv, PutResults
    PROVE  DraftingInv'
<1> DEFINE a == [kind |-> "package", findings |-> call.made, claims |-> call.claims]
<1>1. /\ at = "finding" /\ at' = "assembled" /\ UNCHANGED deaths /\ Put(a)
      /\ call' = [call EXCEPT !.new = Len(stored) + 1]
  BY DEF PutResults, PutThen, Goto
<1>2. /\ DOMAIN call = DraftingFields /\ Assemblies = {} /\ OneAssembly
      /\ call.made \in Seq(OfKind("finding")) /\ RestOn(call.claims, call.made)
      /\ StoredSound /\ DraftingStore
      /\ \A p \in OfKind("package") : ToSet(stored[p].findings) \cap ToSet(call.made) = {}
  BY <1>1 DEF DraftingInv, CallBegun, Assembling, DraftingStore
<1>3. DOMAIN call' = DraftingFields /\ call'.verified = call.verified
  BY <1>1, <1>2 DEF DraftingFields
<1>4. a.kind = "package" /\ a.findings = call.made /\ PackageRests(a)
  BY <1>2 DEF PackageRests
<1> HIDE DEF a
<1>5. DraftingStore'
  BY <1>1, <1>2, <1>4, DraftingStoreStays
<1>6. CallBegun'
  BY <1>1, <1>2, <1>3, BegunStays DEF DraftingInv
<1>7. Assemblies' = {}
  BY <1>1, <1>2, <1>4, AssemblyStays
<1>8. FindingsPackaged'
  <2>1. /\ OfKind("finding")' = OfKind("finding")
        /\ OfKind("package")' = OfKind("package") \cup {Latest + 1}
        /\ stored'[Latest + 1] = a
        /\ \A p \in OfKind("package") : stored'[p] = stored[p]
    BY <1>1, <1>2, <1>4, PutAddsOne
  <2> QED BY <1>1, <1>4, <2>1 DEF DraftingInv, FindingsPackaged
<1> QED BY <1>1, <1>5, <1>6, <1>7, <1>8 DEF DraftingInv, Assembling, SectionsMade, DraftAsked

(* The execution ends the assembly.                                         *)
LEMMA PutAssemblyKeeps ==
    ASSUME DraftingInv, PutAssembly
    PROVE  DraftingInv'
<1> DEFINE a == [kind |-> "assembly", findings |-> call.made, package |-> call.new]
<1>1. at = "assembled" /\ at' = "idle" /\ UNCHANGED deaths /\ Put(a)
  BY DEF PutAssembly, Leave
<1>2. a.kind = "assembly"
  OBVIOUS
<1> HIDE DEF a
<1>3. Assemblies = {} /\ StoredSound
  BY <1>1 DEF DraftingInv, Assembling, DraftingStore
<1>4. DraftingStore'
  BY <1>1, <1>2, <1>3, DraftingStoreStays DEF DraftingInv
<1>5. FindingsPackaged'
  BY <1>1, <1>2, <1>3, PackagedStays DEF DraftingInv
<1> QED BY <1>1, <1>4, <1>5, NoCallKeeps

(* A list with its first element gone.                                      *)
LEMMA OneLess ==
    ASSUME NEW list, list \in Seq(ToSet(list)), list # <<>>
    PROVE  /\ Tail(list) \in Seq(ToSet(Tail(list))) /\ Len(Tail(list)) = Len(list) - 1
           /\ Len(list) \in Nat /\ Len(list) # 0 /\ 1 \in DOMAIN list /\ Head(list) = list[1]
           /\ \A k \in DOMAIN Tail(list) : k \in Nat /\ k + 1 \in DOMAIN list /\ Tail(list)[k] = list[k + 1]
<1>1. PICK S, rest : S = ToSet(list) /\ rest = Tail(list)
  OBVIOUS
<1>2. PICK n \in Nat : n = Len(list) /\ DOMAIN list = 1 .. n /\ n # 0
  OBVIOUS
<1>3. /\ rest \in Seq(S) /\ Len(rest) = n - 1 /\ DOMAIN rest = 1 .. n - 1
      /\ \A k \in 1 .. n - 1 : rest[k] = list[k + 1]
  BY <1>1, <1>2
<1>4. rest \in Seq(ToSet(rest))
  <2>1. PICK T : T = ToSet(rest)
    OBVIOUS
  <2>2. \A k \in 1 .. n - 1 : rest[k] \in T
    BY <1>3, <2>1 DEF ToSet
  <2>3. n - 1 \in Nat /\ rest = [k \in 1 .. n - 1 |-> rest[k]]
    BY <1>2, <1>3
  <2>4. rest \in Seq(T)
    BY <2>2, <2>3
  <2> QED BY <2>1, <2>4
<1>5. \A k \in 1 .. n - 1 : k \in Nat /\ k + 1 \in 1 .. n
  BY <1>2
<1> QED BY <1>1, <1>2, <1>3, <1>4, <1>5

(* A function on the first places is a list.                                *)
LEMMA ListOf ==
    ASSUME NEW n \in Nat, NEW list, list = [k \in 1 .. n |-> list[k]]
    PROVE  list \in Seq(ToSet(list)) /\ Len(list) = n
<1>1. PICK T : T = ToSet(list)
  OBVIOUS
<1>2. \A k \in 1 .. n : list[k] \in T
  BY <1>1 DEF ToSet
<1>3. list \in Seq(T)
  BY <1>2
<1> QED BY <1>1, <1>3

(* The sections that are asked for are a list of the outline's.             *)
LEMMA SpecsAre ==
    ASSUME NEW wanted
    PROVE  /\ SpecsOf(wanted) \in Seq(ToSet(Specs)) /\ Len(SpecsOf(wanted)) \in Nat
           /\ DOMAIN SpecsOf(wanted) = 1 .. Len(SpecsOf(wanted))
           /\ \A k \in DOMAIN SpecsOf(wanted) : SpecsOf(wanted)[k] \in ToSet(Specs)
<1>1. PICK T : T = ToSet(Specs)
  OBVIOUS
<1>2. PICK specs : specs = SpecsOf(wanted)
  OBVIOUS
<1>3. specs \in Seq(T)
  BY <1>1, <1>2, SpecsAssumption, AmongLists DEF SpecsOf
<1>4. Len(specs) \in Nat /\ DOMAIN specs = 1 .. Len(specs) /\ \A k \in DOMAIN specs : specs[k] \in T
  BY <1>3
<1> QED BY <1>1, <1>2, <1>3, <1>4

(* The section of the first place left is added.                            *)
LEMMA MadeGrows ==
    ASSUME NEW store, NEW sections, NEW made, NEW todo, NEW specs, NEW revises, NEW old,
           Made(store, sections, made, todo, specs, revises, old), todo # <<>>,
           NEW x \in sections, store[x].id = Head(todo).spec.id
    PROVE  Made(store, sections, Append(made, x), Tail(todo), specs, revises, old)
<1>1. PICK longer, rest : longer = Append(made, x) /\ rest = Tail(todo)
  OBVIOUS
<1>2. /\ made \in Seq(sections) /\ todo \in Seq(ToSet(todo)) /\ Len(made) + Len(todo) = Len(specs)
      /\ \A k \in DOMAIN made : store[made[k]].id = specs[k].id
      /\ \A k \in DOMAIN todo :
            /\ todo[k].spec.id = specs[Len(made) + k].id
            /\ todo[k].old = IF revises = 0 THEN 0 ELSE old[Len(made) + k]
            /\ todo[k].spec \in ToSet(Specs)
  BY DEF Made
<1>3. /\ longer \in Seq(sections) /\ Len(longer) = Len(made) + 1 /\ Len(made) \in Nat
      /\ \A k \in DOMAIN made : longer[k] = made[k]
      /\ longer[Len(made) + 1] = x /\ DOMAIN longer = DOMAIN made \cup {Len(made) + 1}
  BY <1>1, <1>2, OneMore
<1>4. /\ rest \in Seq(ToSet(rest)) /\ Len(rest) = Len(todo) - 1 /\ Len(todo) \in Nat
      /\ 1 \in DOMAIN todo /\ Head(todo) = todo[1]
      /\ \A k \in DOMAIN rest : k \in Nat /\ k + 1 \in DOMAIN todo /\ rest[k] = todo[k + 1]
  BY <1>1, <1>2, OneLess
<1>5. Len(longer) + Len(rest) = Len(specs)
  <2>1. PICK m \in Nat, n \in Nat : m = Len(made) /\ n = Len(todo)
    BY <1>3, <1>4
  <2>2. Len(longer) = m + 1 /\ Len(rest) = n - 1 /\ Len(specs) = m + n
    BY <1>2, <1>3, <1>4, <2>1
  <2> QED BY <2>2
<1>6. \A k \in DOMAIN longer : store[longer[k]].id = specs[k].id
  <2>1. store[longer[Len(made) + 1]].id = specs[Len(made) + 1].id
    BY <1>2, <1>3, <1>4
  <2> QED BY <1>2, <1>3, <2>1
<1>7. \A k \in DOMAIN rest : Len(longer) + k = Len(made) + (k + 1)
  BY <1>3, <1>4
<1>8. \A k \in DOMAIN rest :
         /\ rest[k].spec.id = specs[Len(longer) + k].id
         /\ rest[k].old = IF revises = 0 THEN 0 ELSE old[Len(longer) + k]
         /\ rest[k].spec \in ToSet(Specs)
  BY <1>2, <1>4, <1>7, ZenonT(30)
<1> QED BY <1>1, <1>3, <1>4, <1>5, <1>6, <1>8 DEF Made

(* What is made stays so.                                                   *)
LEMMA SectionsMadeStay ==
    ASSUME StoredSound, NEW a, Put(a), NEW made, NEW todo, NEW specs, NEW revises, NEW old,
           Made(stored, OfKind("section"), made, todo, specs, revises, old)
    PROVE  Made(stored', OfKind("section")', made, todo, specs, revises, old)
<1>1. made \in Seq(OfKind("section"))
  BY DEF Made
<1>2. /\ made \in Seq(OfKind("section")')
      /\ \A k \in DOMAIN made : stored'[made[k]] = stored[made[k]]
  BY <1>1, ListStays
<1> QED BY <1>2 DEF Made

(* What was asked for, and is not there, does not appear without an         *)
(* execution.                                                               *)
LEMMA AskedStays ==
    ASSUME StoredSound, DraftExecutionsSound, NEW a, Put(a), a.kind # "draft execution"
    PROVE  /\ \A outline, wanted : DraftExecutions(outline, wanted)' = DraftExecutions(outline, wanted)
           /\ \A d : DraftRevisions(d)' = DraftRevisions(d)
<1>1. /\ OfKind("draft execution")' = OfKind("draft execution")
      /\ \A x \in OfKind("draft execution") : stored'[x] = stored[x]
      /\ OfKind("draft") \subseteq OfKind("draft")'
      /\ OfKind("draft") \subseteq Stored
      /\ \A d \in OfKind("draft") : stored'[d] = stored[d]
      /\ \A d \in OfKind("draft")' : d \in OfKind("draft") \/ d = Latest + 1
      /\ Latest + 1 \notin Stored
  <2>1. \A d \in OfKind("draft")' : d \in OfKind("draft") \/ d = Latest + 1
    BY OldOrNew
  <2>2. Latest + 1 \notin Stored
    BY PutAdds
  <2> QED BY <2>1, <2>2, PutAddsOne
<1>2. \A x \in OfKind("draft execution") : stored[x].draft \in OfKind("draft")
  BY DEF DraftExecutionsSound, DraftExecutionSound
<1>3. \A outline, wanted : DraftExecutions(outline, wanted)' = DraftExecutions(outline, wanted)
  BY <1>1 DEF DraftExecutions
<1>4. \A d : DraftRevisions(d)' = DraftRevisions(d)
  BY <1>1, <1>2 DEF DraftRevisions
<1> QED BY <1>3, <1>4

(* Where the store is the same, so is what was asked for.                   *)
LEMMA AskedSame ==
    ASSUME UNCHANGED stored
    PROVE  /\ \A outline, wanted : DraftExecutions(outline, wanted)' = DraftExecutions(outline, wanted)
           /\ \A d : /\ DraftRevisions(d)' = DraftRevisions(d) /\ FaultsOf(d)' = FaultsOf(d)
                     /\ DraftCritiques(d)' = DraftCritiques(d)
           /\ \A kind : OfKind(kind)' = OfKind(kind)
<1>1. \A kind : OfKind(kind)' = OfKind(kind)
  BY DEF OfKind, Stored
<1>2. \A d : DraftCritiques(d)' = DraftCritiques(d)
  BY <1>1 DEF DraftCritiques
<1>3. \A d : FaultsOf(d)' = FaultsOf(d)
  BY <1>2 DEF FaultsOf
<1>4. \A d : DraftRevisions(d)' = DraftRevisions(d)
  BY <1>1 DEF DraftRevisions
<1>5. \A outline, wanted : DraftExecutions(outline, wanted)' = DraftExecutions(outline, wanted)
  BY <1>1 DEF DraftExecutions
<1> QED BY <1>1, <1>2, <1>3, <1>4, <1>5

(* A draft begins with all its sections left to do.                         *)
LEMMA DraftKeeps ==
    ASSUME DraftingInv, NEW outline, NEW wanted, Draft(outline, wanted)
    PROVE  DraftingInv'
<1>1. PICK specs, todo, n, d : /\ specs = SpecsOf(wanted) /\ n = Len(specs) /\ d = DraftingLocals
                               /\ todo = [k \in DOMAIN specs |-> [spec |-> specs[k], old |-> 0]]
  OBVIOUS
<1>2. /\ at = "idle" /\ at' = "section" /\ DraftExecutions(outline, wanted) = {}
      /\ UNCHANGED deaths /\ UNCHANGED stored
      /\ call' = [d EXCEPT !.outline = outline, !.wanted = wanted, !.verified = Verified, !.todo = todo]
  BY <1>1 DEF Draft, Call
<1>3. /\ DOMAIN call' = DraftingFields /\ call'.verified = Verified /\ call'.outline = outline
      /\ call'.wanted = wanted /\ call'.todo = todo /\ call'.made = <<>> /\ call'.revises = 0
  <2>1. DOMAIN d = DraftingFields /\ d.made = <<>> /\ d.revises = 0
    BY <1>1, LocalsAre
  <2> QED BY <1>2, <2>1 DEF DraftingFields
<1>4. DraftingStore'
  BY <1>2, DraftingStoreSame DEF DraftingInv
<1>5. CallBegun'
  <2>1. \A p \in Verified : p \in DOMAIN Conditions /\ VerifiedBy(p, Latest + 1)'
    BY <1>2, VerifiedKnown DEF DraftingInv, DraftingStore, VerifiedBy, Verification, OfKind, Stored, Latest
  <2> QED BY <1>2, <1>3, <2>1 DEF CallBegun
<1>6. SectionsMade'
  <2>1. n \in Nat /\ DOMAIN specs = 1 .. n /\ \A k \in 1 .. n : specs[k] \in ToSet(Specs)
    BY <1>1, SpecsAre
  <2>2. DOMAIN todo = 1 .. n /\ \A k \in 1 .. n : todo[k] = [spec |-> specs[k], old |-> 0]
    BY <1>1, <2>1
  <2>3. todo = [k \in 1 .. n |-> todo[k]]
    BY <1>1, <2>1
  <2>4. todo \in Seq(ToSet(todo)) /\ Len(todo) = n
    BY <2>1, <2>3, ListOf
  <2>5. \A S : <<>> \in Seq(S) /\ Len(<<>>) = 0 /\ DOMAIN <<>> = {}
    OBVIOUS
  <2>6. \A k \in 1 .. n : 0 + k = k
    OBVIOUS
  <2>7. ASSUME NEW store, NEW sections, NEW old
        PROVE  Made(store, sections, <<>>, todo, specs, 0, old)
    <3>1. Len(<<>>) + Len(todo) = Len(specs)
      BY <1>1, <2>1, <2>4, <2>5
    <3>2. \A k \in DOMAIN todo :
             /\ todo[k].spec.id = specs[Len(<<>>) + k].id
             /\ todo[k].old = 0 /\ todo[k].spec \in ToSet(Specs)
      BY <2>1, <2>2, <2>5, <2>6
    <3> QED BY <2>4, <2>5, <3>1, <3>2 DEF Made
  <2>8. Made(stored', OfKind("section")', call'.made, call'.todo, SpecsOf(call'.wanted), call'.revises,
             stored'[call'.revises].sections)
    BY <1>1, <1>3, <2>7
  <2> QED BY <1>3, <2>8 DEF SectionsMade
<1>7. DraftAsked'
  BY <1>2, <1>3, AskedSame DEF DraftAsked
<1>8. FindingsPackaged'
  BY <1>2, PackagedSame, Zenon DEF DraftingInv
<1> QED BY <1>2, <1>4, <1>5, <1>6, <1>7, <1>8 DEF DraftingInv, Assembling

(* A revision has to do what the draft it revises was to do.                *)
LEMMA RevisionBegins ==
    ASSUME DraftsSound, SectionsSound, NEW d \in OfKind("draft"), NEW old, old = stored[d].sections,
           NEW todo, todo = [k \in DOMAIN old |-> [spec |-> SpecOf(stored[old[k]].id), old |-> old[k]]],
           NEW revises, revises # 0
    PROVE  Made(stored, OfKind("section"), <<>>, todo, SpecsOf(stored[d].wanted), revises, old)
<1>1. PICK specs, n : specs = SpecsOf(stored[d].wanted) /\ n = Len(specs)
  OBVIOUS
<1>2. n \in Nat /\ DOMAIN specs = 1 .. n
  BY <1>1, SpecsAre
<1>3. /\ old \in Seq(OfKind("section")) /\ Len(old) = n
      /\ \A k \in DOMAIN old : stored[old[k]].id = specs[k].id
  BY <1>1 DEF DraftsSound, DraftSound, InOrder
<1>4. DOMAIN old = 1 .. n /\ \A k \in 1 .. n : old[k] \in OfKind("section")
  BY <1>2, <1>3
<1>5. DOMAIN todo = 1 .. n /\ todo = [k \in 1 .. n |-> todo[k]]
  BY <1>4
<1>6. todo \in Seq(ToSet(todo)) /\ Len(todo) = n
  BY <1>2, <1>5, ListOf
<1>7. ASSUME NEW k \in 1 .. n
      PROVE  todo[k].spec \in ToSet(Specs) /\ todo[k].spec.id = specs[k].id /\ todo[k].old = old[k]
  <2>1. PICK id : id = stored[old[k]].id
    OBVIOUS
  <2>2. \E spec \in ToSet(Specs) : spec.id = id
    BY <1>4, <2>1 DEF SectionsSound
  <2>3. SpecOf(id) \in ToSet(Specs) /\ SpecOf(id).id = id
    BY <2>2 DEF SpecOf
  <2>4. todo[k] = [spec |-> SpecOf(id), old |-> old[k]]
    BY <1>4, <2>1
  <2> QED BY <1>3, <1>4, <2>1, <2>3, <2>4
<1>8. \A S : <<>> \in Seq(S) /\ Len(<<>>) = 0 /\ DOMAIN <<>> = {}
  OBVIOUS
<1>9. Len(<<>>) + Len(todo) = Len(specs)
  BY <1>1, <1>2, <1>6, <1>8
<1>10. \A k \in DOMAIN todo :
          /\ todo[k].spec.id = specs[Len(<<>>) + k].id
          /\ todo[k].old = old[Len(<<>>) + k] /\ todo[k].spec \in ToSet(Specs)
  <2>1. \A k \in 1 .. n : Len(<<>>) + k = k
    BY <1>8
  <2>2. ASSUME NEW k \in 1 .. n
        PROVE  /\ todo[k].spec.id = specs[Len(<<>>) + k].id
               /\ todo[k].old = old[Len(<<>>) + k] /\ todo[k].spec \in ToSet(Specs)
    <3>1. Len(<<>>) + k = k
      BY <2>1
    <3>2. todo[k].spec \in ToSet(Specs) /\ todo[k].spec.id = specs[k].id /\ todo[k].old = old[k]
      BY <1>7
    <3> QED BY <3>1, <3>2, Zenon
  <2>3. DOMAIN todo = 1 .. n
    BY <1>5
  <2> QED BY <2>2, <2>3, Zenon
<1> QED BY <1>1, <1>6, <1>8, <1>9, <1>10, ZenonT(30) DEF Made

(* A revision begins with those of the draft it revises.                    *)
LEMMA ReviseDraftKeeps ==
    ASSUME DraftingInv, NEW d \in OfKind("draft"), ReviseDraft(d)
    PROVE  DraftingInv'
<1>1. PICK old, todo, locals :
         /\ old = stored[d].sections /\ locals = DraftingLocals
         /\ todo = [k \in DOMAIN old |-> [spec |-> SpecOf(stored[old[k]].id), old |-> old[k]]]
  OBVIOUS
<1>2. /\ at = "idle" /\ at' = "section" /\ DraftRevisions(d) = {}
      /\ UNCHANGED deaths /\ UNCHANGED stored
      /\ call' = [locals EXCEPT !.outline = stored[d].outline, !.wanted = stored[d].wanted,
                                !.verified = Verified, !.flagged = FaultsOf(d), !.revises = d, !.todo = todo]
  BY <1>1 DEF ReviseDraft, Call
<1>3. /\ DOMAIN call' = DraftingFields /\ call'.verified = Verified /\ call'.outline = stored[d].outline
      /\ call'.wanted = stored[d].wanted /\ call'.todo = todo /\ call'.made = <<>> /\ call'.revises = d
      /\ call'.flagged = FaultsOf(d)
  <2>1. DOMAIN locals = DraftingFields /\ locals.made = <<>>
    BY <1>1, LocalsAre
  <2> QED BY <1>2, <2>1 DEF DraftingFields
<1>4. DraftingStore /\ DraftingStore'
  BY <1>2, DraftingStoreSame DEF DraftingInv
<1>5. CallBegun'
  <2>1. \A p \in Verified : p \in DOMAIN Conditions /\ VerifiedBy(p, Latest + 1)'
    BY <1>2, VerifiedKnown DEF DraftingInv, DraftingStore, VerifiedBy, Verification, OfKind, Stored, Latest
  <2> QED BY <1>2, <1>3, <2>1 DEF CallBegun
<1>6. d # 0
  <2>1. \A i \in Stored : i # 0
    BY <1>4 DEF DraftingStore, StoredSound, Stored
  <2> QED BY <2>1 DEF OfKind
<1>7. SectionsMade'
  <2>1. Made(stored, OfKind("section"), <<>>, todo, SpecsOf(stored[d].wanted), d, old)
    BY <1>1, <1>4, <1>6, RevisionBegins DEF DraftingStore
  <2>2. stored' = stored /\ OfKind("section")' = OfKind("section") /\ OfKind("draft")' = OfKind("draft")
        /\ FaultsOf(d)' = FaultsOf(d)
    BY <1>2, AskedSame
  <2>3. Made(stored', OfKind("section")', call'.made, call'.todo, SpecsOf(call'.wanted), call'.revises,
             stored'[call'.revises].sections)
    BY <1>1, <1>3, <2>1, <2>2
  <2>4. DOMAIN <<>> = {}
    OBVIOUS
  <2>5. call'.flagged = FaultsOf(call.revises)'
    <3>1. FaultsOf(call.revises)' = UNION {stored'[c].faults : c \in DraftCritiques(d)'}
      BY <1>3 DEF FaultsOf
    <3>2. FaultsOf(d) = UNION {stored'[c].faults : c \in DraftCritiques(d)'}
      BY <2>2, <1>2, AskedSame DEF FaultsOf
    <3> QED BY <1>3, <3>1, <3>2
  <2> QED BY <1>2, <1>3, <2>2, <2>3, <2>4, <2>5 DEF SectionsMade
<1>8. DraftAsked'
  BY <1>2, <1>3, <1>6, AskedSame DEF DraftAsked
<1>9. FindingsPackaged'
  BY <1>2, PackagedSame DEF DraftingInv
<1> QED BY <1>2, <1>4, <1>5, <1>7, <1>8, <1>9 DEF DraftingInv, Assembling

(* The call ends with nothing put.                                          *)
LEMMA DraftingLeaves ==
    ASSUME DraftingInv, at = "section", Leave, UNCHANGED stored
    PROVE  DraftingInv'
<1>1. at' = "idle" /\ UNCHANGED deaths /\ deaths \in Nat
  BY DEF Leave, DraftingInv, FindingsPackaged
<1> QED BY <1>1, EndKeeps

(* A rejected section is asked for again, or ends the call.                 *)
LEMMA SectionRejectedKeeps ==
    ASSUME DraftingInv, NEW counted, SectionRejected(counted)
    PROVE  DraftingInv'
<1>1. at = "section" /\ UNCHANGED stored /\ DOMAIN call = DraftingFields
  BY DEF SectionRejected, Drafting, DraftingInv, CallBegun
<1>2. CASE call.attempts = MaxRetries
  <2>1. at' = "idle" /\ UNCHANGED deaths /\ deaths \in Nat
    BY <1>2 DEF SectionRejected, DraftingInv, FindingsPackaged
  <2> QED BY <1>1, <2>1, EndKeeps
<1>3. CASE call.attempts # MaxRetries
  <2>1. /\ at' = "section" /\ UNCHANGED deaths
        /\ call' = [call EXCEPT !.asked = @ + counted, !.attempts = @ + 1]
    BY <1>3 DEF SectionRejected, Goto
  <2>2. /\ DOMAIN call' = DraftingFields /\ call'.verified = call.verified
        /\ call'.made = call.made /\ call'.todo = call.todo /\ call'.wanted = call.wanted
        /\ call'.revises = call.revises /\ call'.flagged = call.flagged /\ call'.outline = call.outline
    BY <1>1, <2>1 DEF DraftingFields
  <2>3. DraftingStore'
    BY <1>1, DraftingStoreSame DEF DraftingInv
  <2>4. CallBegun'
    BY <1>1, <2>1, <2>2, BegunStays, SMTT(30) DEF DraftingInv, DraftingStore
  <2>5. SectionsMade'
    <3>1. PICK d, w : d = call.revises /\ w = call.wanted
      OBVIOUS
    <3>2. /\ OfKind("section")' = OfKind("section") /\ OfKind("draft")' = OfKind("draft")
          /\ FaultsOf(d)' = FaultsOf(d) /\ DraftCritiques(d)' = DraftCritiques(d)
      BY <1>1, AskedSame
    <3>3. FaultsOf(call.revises)' = FaultsOf(d)' /\ DraftCritiques(call.revises)' = DraftCritiques(d)'
      BY <2>2, <3>1 DEF FaultsOf, DraftCritiques
    <3>4. Made(stored', OfKind("section")', call'.made, call'.todo, SpecsOf(call'.wanted), call'.revises,
               stored'[call'.revises].sections)
      BY <1>1, <2>2, <3>2 DEF DraftingInv, SectionsMade
    <3>5. ASSUME d # 0
          PROVE  /\ d \in OfKind("draft") /\ w = stored[d].wanted /\ call.flagged = FaultsOf(d)
                 /\ \A k \in DOMAIN call.made :
                       SectionRevised(stored[d].sections[k], call.made[k], DraftCritiques(d))
      BY <1>1, <3>1, <3>5 DEF DraftingInv, SectionsMade
    <3>6. ASSUME NEW o, NEW m, SectionRevised(o, m, DraftCritiques(d))
          PROVE  SectionRevised(o, m, DraftCritiques(d))'
      BY <1>1, <3>2, <3>6 DEF SectionRevised
    <3>7. ASSUME d # 0, NEW k \in DOMAIN call.made
          PROVE  SectionRevised(stored[d].sections[k], call.made[k], DraftCritiques(d))'
      <4>1. PICK o, m : o = stored[d].sections[k] /\ m = call.made[k]
        OBVIOUS
      <4>2. SectionRevised(o, m, DraftCritiques(d))'
        BY <3>5, <3>6, <3>7, <4>1
      <4> QED BY <1>1, <2>2, <4>1, <4>2 DEF SectionRevised
    <3> QED BY <1>1, <2>2, <3>1, <3>2, <3>3, <3>4, <3>5, <3>7 DEF SectionsMade, SectionRevised
  <2>6. DraftAsked'
    <3>1. /\ DraftExecutions(call.outline, call.wanted)' = DraftExecutions(call.outline, call.wanted)
          /\ DraftRevisions(call.revises)' = DraftRevisions(call.revises)
      BY <1>1, <2>2 DEF DraftExecutions, DraftRevisions, OfKind, Stored
    <3> QED BY <1>1, <2>1, <2>2, <3>1 DEF DraftingInv, DraftAsked
  <2>7. FindingsPackaged'
    BY <1>1, <2>1, PackagedSame DEF DraftingInv
  <2> QED BY <2>1, <2>3, <2>4, <2>5, <2>6, <2>7 DEF DraftingInv, Assembling
<1> QED BY <1>2, <1>3

(* Where the next section of a revision comes from.                         *)
LEMMA NextSection ==
    ASSUME DraftsSound, SectionsMade, at = "section", call.todo # <<>>
    PROVE  LET n == Len(call.made) + 1
               old == stored[call.revises].sections
           IN  /\ n \in Nat /\ Head(call.todo).spec \in ToSet(Specs)
               /\ call.revises = 0 => Head(call.todo).old = 0
               /\ call.revises # 0 =>
                     /\ Head(call.todo).old = old[n] /\ old[n] \in OfKind("section")
                     /\ stored[old[n]].id = Head(call.todo).spec.id
                     /\ old \in Seq(OfKind("section")) /\ DOMAIN call.made \subseteq DOMAIN old
<1>1. PICK made, todo, wanted, specs, d, old :
         /\ made = call.made /\ todo = call.todo /\ wanted = call.wanted /\ specs = SpecsOf(wanted)
         /\ d = call.revises /\ old = stored[d].sections
  OBVIOUS
<1>2. Made(stored, OfKind("section"), made, todo, specs, d, old)
  BY <1>1 DEF SectionsMade
<1>3. /\ made \in Seq(OfKind("section")) /\ todo \in Seq(ToSet(todo)) /\ Len(made) + Len(todo) = Len(specs)
      /\ \A k \in DOMAIN todo :
            /\ todo[k].spec.id = specs[Len(made) + k].id
            /\ todo[k].old = IF d = 0 THEN 0 ELSE old[Len(made) + k]
            /\ todo[k].spec \in ToSet(Specs)
  BY <1>2 DEF Made
<1>4. Len(todo) \in Nat /\ Len(todo) # 0 /\ 1 \in DOMAIN todo /\ Head(todo) = todo[1]
  BY <1>1, <1>3, OneLess
<1>5. PICK m \in Nat, l \in Nat : m = Len(made) /\ l = Len(todo) /\ l # 0 /\ DOMAIN made = 1 .. m
  BY <1>3, <1>4
<1>6. /\ Head(todo).spec.id = specs[m + 1].id /\ Head(todo).spec \in ToSet(Specs)
      /\ Head(todo).old = IF d = 0 THEN 0 ELSE old[m + 1]
  BY <1>3, <1>4, <1>5
<1>7. ASSUME d # 0
      PROVE  /\ old \in Seq(OfKind("section")) /\ old[m + 1] \in OfKind("section")
             /\ stored[old[m + 1]].id = specs[m + 1].id /\ DOMAIN made \subseteq DOMAIN old
  <2>1. d \in OfKind("draft") /\ wanted = stored[d].wanted
    BY <1>1, <1>7 DEF SectionsMade
  <2>2. /\ old \in Seq(OfKind("section")) /\ Len(old) = Len(specs)
        /\ \A k \in DOMAIN old : stored[old[k]].id = specs[k].id
    BY <1>1, <2>1 DEF DraftsSound, DraftSound, InOrder
  <2>3. DOMAIN old = 1 .. m + l
    BY <1>3, <1>5, <2>2
  <2>4. m + 1 \in DOMAIN old /\ DOMAIN made \subseteq DOMAIN old
    BY <1>5, <2>3
  <2> QED BY <2>2, <2>4
<1> QED BY <1>1, <1>5, <1>6, <1>7

(* A section is put; in a revision a faulty one, after its critiques.       *)
LEMMA PutSectionKeeps ==
    ASSUME DraftingInv, NEW answer, PutSection(answer)
    PROVE  DraftingInv'
<1> DEFINE a == [kind |-> "section", id |-> Head(call.todo).spec.id, claims |-> answer.claims]
<1>1. /\ at = "section" /\ at' = "section" /\ call.todo # <<>> /\ UNCHANGED deaths /\ Put(a)
      /\ Head(call.todo).old # 0 => Head(call.todo).spec.id \in call.flagged
      /\ call' = [call EXCEPT !.asked = @ + 1, !.attempts = 0, !.todo = Tail(@),
                              !.made = Append(@, Len(stored) + 1)]
  BY DEF PutSection, Drafting, PutThen, Goto
<1>2. a.kind = "section" /\ a.id = Head(call.todo).spec.id
  OBVIOUS
<1> HIDE DEF a
<1>3. /\ DraftingStore /\ StoredSound /\ DraftsSound /\ SectionsMade /\ DraftExecutionsSound
      /\ DOMAIN call = DraftingFields
  BY <1>1 DEF DraftingInv, DraftingStore, CallBegun
<1>4. PICK x, made, todo, w, d, old :
         /\ x = Latest + 1 /\ made = call.made /\ todo = call.todo /\ w = call.wanted
         /\ d = call.revises /\ old = stored[d].sections
  OBVIOUS
<1>5. /\ DOMAIN call' = DraftingFields /\ call'.verified = call.verified
      /\ call'.made = Append(made, x) /\ call'.todo = Tail(todo) /\ call'.wanted = w
      /\ call'.revises = d /\ call'.flagged = call.flagged /\ call'.outline = call.outline
  BY <1>1, <1>3, <1>4 DEF DraftingFields, Latest
<1>6. PICK n \in Nat :
         /\ n = Len(made) + 1 /\ Head(todo).spec \in ToSet(Specs)
         /\ d # 0 => /\ Head(todo).old = old[n] /\ old[n] \in OfKind("section")
                     /\ stored[old[n]].id = Head(todo).spec.id
                     /\ old \in Seq(OfKind("section")) /\ DOMAIN made \subseteq DOMAIN old
  BY <1>1, <1>3, <1>4, NextSection
<1>7. DraftingStore'
  <2>1. \E spec \in ToSet(Specs) : a.id = spec.id
    BY <1>2, <1>4, <1>6
  <2> QED BY <1>1, <1>2, <1>3, <2>1, DraftingStoreStays
<1>8. CallBegun'
  BY <1>1, <1>3, <1>5, BegunStays DEF DraftingInv
<1>9. /\ OfKind("section")' = OfKind("section") \cup {x} /\ OfKind("draft")' = OfKind("draft")
      /\ stored'[x] = a /\ OfKind("section") \subseteq Stored /\ OfKind("draft") \subseteq Stored
      /\ \A i \in Stored : i \in Nat /\ 0 < i /\ i < x /\ stored'[i] = stored[i]
      /\ OfKind("draft execution")' = OfKind("draft execution")
      /\ DraftCritiques(d)' = DraftCritiques(d) /\ DraftCritiques(d) \subseteq Stored
  BY <1>1, <1>2, <1>3, <1>4, PutAddsOne, CritiquesStay
<1>10. Made(stored', OfKind("section")', Append(made, x), Tail(todo), SpecsOf(w), d, old)
  <2>1. PICK store, sections, specs :
           store = stored' /\ sections = OfKind("section")' /\ specs = SpecsOf(w)
    OBVIOUS
  <2>2. Made(stored, OfKind("section"), made, todo, specs, d, old)
    BY <1>1, <1>3, <1>4, <2>1 DEF SectionsMade
  <2>3. Made(store, sections, made, todo, specs, d, old)
    BY <1>1, <1>3, <2>1, <2>2, SectionsMadeStay
  <2>4. x \in sections /\ store[x].id = Head(todo).spec.id /\ todo # <<>>
    BY <1>1, <1>2, <1>4, <1>9, <2>1
  <2>5. Made(store, sections, Append(made, x), Tail(todo), specs, d, old)
    BY <2>3, <2>4, MadeGrows
  <2> QED BY <2>1, <2>5
<1>11. ASSUME d # 0
       PROVE  /\ d \in OfKind("draft") /\ w = stored[d].wanted /\ call.flagged = FaultsOf(d)
              /\ \A k \in DOMAIN made : SectionRevised(old[k], made[k], DraftCritiques(d))
              /\ stored'[d] = stored[d]
  BY <1>1, <1>3, <1>4, <1>9, <1>11 DEF SectionsMade
<1>12. FaultsOf(d)' = FaultsOf(d)
  BY <1>9 DEF FaultsOf
<1>13. ASSUME d # 0, NEW k \in DOMAIN Append(made, x)
       PROVE  SectionRevised(old[k], Append(made, x)[k], DraftCritiques(d))'
  <2>1. PICK critiques : critiques = DraftCritiques(d) /\ critiques \in SUBSET Stored
    BY <1>9
  <2>2. made \in Seq(OfKind("section"))
    BY <1>1, <1>3, <1>4 DEF SectionsMade, Made
  <2>3. made \in Seq(OfKind("section") \cup {x}) /\ x \in OfKind("section") \cup {x}
    BY <2>2
  <2>4. /\ DOMAIN Append(made, x) = DOMAIN made \cup {n} /\ Append(made, x)[n] = x
        /\ \A i \in DOMAIN made : Append(made, x)[i] = made[i]
    BY <1>6, <2>3, OneMore
  <2>5. CASE k \in DOMAIN made
    <3>1. PICK o, m : o = old[k] /\ m = made[k]
      OBVIOUS
    <3>2. o \in Stored
      <4>1. old \in Seq(OfKind("section")) /\ k \in DOMAIN old
        BY <1>6, <1>13, <2>5
      <4>2. old[k] \in OfKind("section")
        BY <4>1
      <4> QED BY <1>9, <3>1, <4>2
    <3>3. SectionRevised(o, m, critiques)
      BY <1>11, <1>13, <2>1, <2>5, <3>1
    <3>4. SectionRevised(o, m, critiques)'
      BY <1>1, <1>3, <2>1, <3>2, <3>3, RevisedStays
    <3> QED BY <1>9, <2>1, <2>4, <2>5, <3>1, <3>4 DEF SectionRevised
  <2>6. CASE k = n
    <3>1. PICK o, id : o = old[n] /\ id = Head(todo).spec.id
      OBVIOUS
    <3>2. o \in Stored /\ o # 0 /\ stored'[o].id = id
      <4>1. o \in OfKind("section") /\ stored[o].id = id
        BY <1>6, <1>13, <3>1
      <4>2. o \in Stored
        BY <1>9, <4>1
      <4>3. 0 < o /\ o \in Nat /\ stored'[o] = stored[o]
        BY <1>9, <4>2
      <4> QED BY <4>1, <4>2, <4>3
    <3>3. id \in FaultsOf(d)
      BY <1>1, <1>4, <1>6, <1>11, <1>13, <3>1, <3>2
    <3>4. {c \in critiques : stored'[o].id \in stored'[c].faults} # {}
      BY <1>9, <2>1, <3>2, <3>3 DEF FaultsOf
    <3>5. \A c \in critiques : x > c
      BY <1>4, <1>9, <2>1, PutAddsOne, <1>1, <1>3
    <3> QED BY <1>9, <2>1, <2>4, <2>6, <3>1, <3>4, <3>5 DEF SectionRevised
  <2> QED BY <1>13, <2>4, <2>5, <2>6
<1>14. SectionsMade'
  <2>1. FaultsOf(call.revises)' = FaultsOf(d)' /\ DraftCritiques(call.revises)' = DraftCritiques(d)'
    BY <1>5 DEF FaultsOf, DraftCritiques
  <2>2. CASE d = 0
    <3>1. Made(stored', OfKind("section")', call'.made, call'.todo, SpecsOf(call'.wanted), call'.revises,
               stored'[call'.revises].sections)
      BY <1>5, <1>10, <2>2 DEF Made
    <3> QED BY <1>5, <2>2, <3>1 DEF SectionsMade
  <2>3. CASE d # 0
    <3>1. old = stored'[d].sections
      BY <1>4, <1>11, <2>3
    <3>2. Made(stored', OfKind("section")', call'.made, call'.todo, SpecsOf(call'.wanted), call'.revises,
               stored'[call'.revises].sections)
      BY <1>5, <1>10, <3>1
    <3> QED BY <1>5, <1>9, <1>11, <1>12, <1>13, <2>1, <2>3, <3>1, <3>2 DEF SectionsMade, SectionRevised
  <2> QED BY <2>2, <2>3
<1>15. DraftAsked'
  <2>1. /\ DraftExecutions(call.outline, call.wanted)' = DraftExecutions(call.outline, call.wanted)
        /\ DraftRevisions(call.revises)' = DraftRevisions(call.revises)
    <3>1. PICK o : o = call.outline
      OBVIOUS
    <3>2. DraftExecutions(o, w)' = DraftExecutions(o, w) /\ DraftRevisions(d)' = DraftRevisions(d)
      BY <1>1, <1>2, <1>3, AskedStays
    <3> QED BY <1>4, <1>5, <3>1, <3>2 DEF DraftExecutions, DraftRevisions
  <2> QED BY <1>1, <1>4, <1>5, <2>1 DEF DraftingInv, DraftAsked
<1>16. FindingsPackaged'
  BY <1>1, <1>2, <1>3, PackagedStays DEF DraftingInv
<1> QED BY <1>1, <1>7, <1>8, <1>14, <1>15, <1>16 DEF DraftingInv, Assembling

(* A section is kept that no critique finds fault with.                     *)
LEMMA KeepSectionKeeps ==
    ASSUME DraftingInv, KeepSection
    PROVE  DraftingInv'
<1>1. /\ at = "section" /\ at' = "section" /\ call.todo # <<>> /\ UNCHANGED deaths /\ UNCHANGED stored
      /\ Head(call.todo).old # 0 /\ Head(call.todo).spec.id \notin call.flagged
      /\ call' = [call EXCEPT !.todo = Tail(@), !.made = Append(@, Head(call.todo).old)]
  BY DEF KeepSection, Continue, Goto
<1>2. DraftingStore /\ DraftsSound /\ SectionsMade /\ StoredSound /\ DOMAIN call = DraftingFields
  BY <1>1 DEF DraftingInv, DraftingStore, CallBegun
<1>3. PICK x, made, todo, w, d, old :
         /\ x = Head(call.todo).old /\ made = call.made /\ todo = call.todo /\ w = call.wanted
         /\ d = call.revises /\ old = stored[d].sections
  OBVIOUS
<1>4. /\ DOMAIN call' = DraftingFields /\ call'.verified = call.verified
      /\ call'.made = Append(made, x) /\ call'.todo = Tail(todo) /\ call'.wanted = w
      /\ call'.revises = d /\ call'.flagged = call.flagged /\ call'.outline = call.outline
  BY <1>1, <1>2, <1>3 DEF DraftingFields
<1>5. PICK n \in Nat :
         /\ n = Len(made) + 1 /\ d # 0
         /\ x = old[n] /\ old[n] \in OfKind("section") /\ stored[old[n]].id = Head(todo).spec.id
  BY <1>1, <1>2, <1>3, NextSection
<1>6. /\ Made(stored, OfKind("section"), made, todo, SpecsOf(w), d, old)
      /\ d \in OfKind("draft") /\ w = stored[d].wanted /\ call.flagged = FaultsOf(d)
      /\ \A k \in DOMAIN made : SectionRevised(old[k], made[k], DraftCritiques(d))
  BY <1>1, <1>2, <1>3, <1>5 DEF SectionsMade
<1>7. Made(stored, OfKind("section"), Append(made, x), Tail(todo), SpecsOf(w), d, old)
  <2>1. PICK specs, sections : specs = SpecsOf(w) /\ sections = OfKind("section")
    OBVIOUS
  <2>2. x \in sections /\ stored[x].id = Head(todo).spec.id /\ todo # <<>>
    BY <1>1, <1>3, <1>5, <2>1
  <2>3. Made(stored, sections, made, todo, specs, d, old)
    BY <1>6, <2>1
  <2>4. Made(stored, sections, Append(made, x), Tail(todo), specs, d, old)
    BY <2>2, <2>3, MadeGrows
  <2> QED BY <2>1, <2>4
<1>8. ASSUME NEW k \in DOMAIN Append(made, x)
      PROVE  SectionRevised(old[k], Append(made, x)[k], DraftCritiques(d))
  <2>1. made \in Seq(OfKind("section")) /\ x \in OfKind("section")
    BY <1>5, <1>6 DEF Made
  <2>2. /\ DOMAIN Append(made, x) = DOMAIN made \cup {n} /\ Append(made, x)[n] = x
        /\ \A i \in DOMAIN made : Append(made, x)[i] = made[i]
    BY <1>5, <2>1, OneMore
  <2>3. CASE k \in DOMAIN made
    BY <1>6, <2>2, <2>3
  <2>4. CASE k = n
    <3>1. stored[x].id \notin FaultsOf(d)
      BY <1>1, <1>3, <1>5, <1>6
    <3>2. {c \in DraftCritiques(d) : stored[x].id \in stored[c].faults} = {}
      BY <3>1 DEF FaultsOf
    <3> QED BY <1>5, <2>2, <2>4, <3>2 DEF SectionRevised
  <2> QED BY <2>2, <2>3, <2>4
<1>9. DraftingStore'
  BY <1>1, <1>2, DraftingStoreSame
<1>10. CallBegun'
  BY <1>1, <1>2, <1>4, BegunStays, Zenon DEF DraftingInv
<1>11. SectionsMade'
  <2>1. /\ OfKind("section")' = OfKind("section") /\ OfKind("draft")' = OfKind("draft")
        /\ FaultsOf(d)' = FaultsOf(d) /\ DraftCritiques(d)' = DraftCritiques(d)
    BY <1>1, AskedSame
  <2>2. FaultsOf(call.revises)' = FaultsOf(d)' /\ DraftCritiques(call.revises)' = DraftCritiques(d)'
    BY <1>4 DEF FaultsOf, DraftCritiques
  <2>3. Made(stored', OfKind("section")', call'.made, call'.todo, SpecsOf(call'.wanted), call'.revises,
             stored'[call'.revises].sections)
    BY <1>1, <1>3, <1>4, <1>7, <2>1
  <2>4. ASSUME NEW k \in DOMAIN Append(made, x)
        PROVE  SectionRevised(old[k], Append(made, x)[k], DraftCritiques(d))'
    <3>1. PICK o, m : o = old[k] /\ m = Append(made, x)[k]
      OBVIOUS
    <3>2. SectionRevised(o, m, DraftCritiques(d))
      BY <1>8, <3>1
    <3> QED BY <1>1, <2>1, <3>1, <3>2 DEF SectionRevised
  <2> QED BY <1>1, <1>3, <1>4, <1>6, <2>1, <2>2, <2>3, <2>4 DEF SectionsMade, SectionRevised
<1>12. DraftAsked'
  <2>1. DraftRevisions(call.revises)' = DraftRevisions(call.revises)
    BY <1>1, <1>3, <1>4 DEF DraftRevisions, OfKind, Stored
  <2> QED BY <1>1, <1>3, <1>4, <1>5, <2>1 DEF DraftingInv, DraftAsked
<1>13. FindingsPackaged'
  BY <1>1, PackagedSame DEF DraftingInv
<1> QED BY <1>1, <1>9, <1>10, <1>11, <1>12, <1>13 DEF DraftingInv, Assembling

(* A draft is put when no section is left to do.                            *)
LEMMA PutDraftKeeps ==
    ASSUME DraftingInv, PutDraft
    PROVE  DraftingInv'
<1>1. PICK made, w, d, o, x :
         made = call.made /\ w = call.wanted /\ d = call.revises /\ o = call.outline /\ x = Latest + 1
  OBVIOUS
<1>2. PICK a : a = [kind |-> "draft", outline |-> o, wanted |-> w, sections |-> made, supersedes |-> d]
  OBVIOUS
<1>3. /\ at = "section" /\ at' = "drafted" /\ call.todo = <<>> /\ UNCHANGED deaths /\ Put(a)
      /\ call' = [call EXCEPT !.new = Len(stored) + 1]
  BY <1>1, <1>2 DEF PutDraft, PutThen, Goto
<1>4. /\ a.kind = "draft" /\ a.outline = o /\ a.wanted = w /\ a.sections = made /\ a.supersedes = d
  BY <1>2
<1>5. /\ DraftingStore /\ StoredSound /\ DraftsSound /\ SectionsMade /\ DraftExecutionsSound
      /\ DOMAIN call = DraftingFields
  BY <1>3 DEF DraftingInv, DraftingStore, CallBegun
<1>6. /\ DOMAIN call' = DraftingFields /\ call'.verified = call.verified /\ call'.new = x
      /\ call'.wanted = w /\ call'.revises = d /\ call'.outline = o
  BY <1>1, <1>3, <1>5 DEF DraftingFields, Latest
<1>7. InOrder(made, w)
  <2>1. Made(stored, OfKind("section"), made, <<>>, SpecsOf(w), d, stored[d].sections)
    BY <1>1, <1>3, <1>5 DEF SectionsMade
  <2>2. /\ made \in Seq(OfKind("section")) /\ Len(made) + Len(<<>>) = Len(SpecsOf(w))
        /\ \A k \in DOMAIN made : stored[made[k]].id = SpecsOf(w)[k].id
    BY <2>1 DEF Made
  <2>3. Len(made) = Len(SpecsOf(w))
    <3>1. Len(made) \in Nat /\ Len(<<>>) = 0
      BY <2>2
    <3>2. Len(made) + 0 = Len(SpecsOf(w))
      BY <2>2, <3>1
    <3> QED BY <3>1, <3>2
  <2> QED BY <2>2, <2>3 DEF InOrder
<1>8. DraftSound(a, x)
  <2>1. ASSUME d # 0
        PROVE  /\ d \in OfKind("draft") /\ d < x /\ w = stored[d].wanted
               /\ \A k \in DOMAIN made : SectionRevised(stored[d].sections[k], made[k],
                                                        {c \in DraftCritiques(d) : c < x})
    <3>1. /\ d \in OfKind("draft") /\ w = stored[d].wanted
          /\ \A k \in DOMAIN made : SectionRevised(stored[d].sections[k], made[k], DraftCritiques(d))
      BY <1>1, <1>3, <1>5, <2>1 DEF SectionsMade
    <3>2. OfKind("draft") \subseteq Stored /\ DraftCritiques(d) \subseteq Stored
      BY DEF DraftCritiques, OfKind
    <3>3. \A i \in Stored : i < x
      BY <1>1, <1>3, <1>5, PutAddsOne
    <3>4. {c \in DraftCritiques(d) : c < x} = DraftCritiques(d)
      BY <3>2, <3>3
    <3> QED BY <3>1, <3>2, <3>3, <3>4
  <2> QED BY <1>4, <1>7, <2>1 DEF DraftSound
<1>9. DraftingStore'
  BY <1>1, <1>3, <1>4, <1>5, <1>8, DraftingStoreStays
<1>10. CallBegun'
  BY <1>3, <1>5, <1>6, BegunStays DEF DraftingInv
<1>11. DraftAsked'
  <2>1. DraftExecutions(o, w)' = DraftExecutions(o, w) /\ DraftRevisions(d)' = DraftRevisions(d)
    BY <1>3, <1>4, <1>5, AskedStays
  <2>2. /\ DraftExecutions(call.outline, call.wanted)' = DraftExecutions(o, w)
        /\ DraftRevisions(call.revises)' = DraftRevisions(d)
    BY <1>6, <2>1 DEF DraftExecutions, DraftRevisions
  <2>3. IF d = 0 THEN DraftExecutions(o, w) = {} ELSE DraftRevisions(d) = {}
    BY <1>1, <1>3 DEF DraftingInv, DraftAsked
  <2>4. x \in OfKind("draft")' /\ stored'[x] = a
    BY <1>1, <1>3, <1>4, <1>5, PutAddsOne
  <2> QED BY <1>3, <1>4, <1>6, <2>2, <2>3, <2>4 DEF DraftAsked
<1>12. FindingsPackaged'
  BY <1>3, <1>4, <1>5, PackagedStays DEF DraftingInv
<1> QED BY <1>3, <1>9, <1>10, <1>11, <1>12 DEF DraftingInv, Assembling, SectionsMade

(* Its execution is the only one of what was asked for.                     *)
LEMMA PutDraftExecutionKeeps ==
    ASSUME DraftingInv, PutDraftExecution
    PROVE  DraftingInv'
<1>1. PICK new, w, d, o : new = call.new /\ w = call.wanted /\ d = call.revises /\ o = call.outline
  OBVIOUS
<1>2. PICK a : a = [kind |-> "draft execution", draft |-> new, outline |-> o,
                    wanted |-> IF d = 0 THEN w ELSE {"revision"}]
  OBVIOUS
<1>3. at = "drafted" /\ at' = "idle" /\ UNCHANGED deaths /\ Put(a)
  BY <1>1, <1>2 DEF PutDraftExecution, Leave
<1>4. d = 0 => a.wanted = w
  BY <1>2
<1>5. /\ DraftingStore /\ StoredSound /\ DraftExecutionsSound
      /\ new \in OfKind("draft") /\ stored[new].outline = o /\ stored[new].wanted = w
      /\ stored[new].supersedes = d
      /\ IF d = 0 THEN DraftExecutions(o, w) = {} ELSE DraftRevisions(d) = {}
  BY <1>1, <1>3 DEF DraftingInv, DraftingStore, DraftAsked
<1>6. a.kind = "draft execution" /\ a.draft = new /\ a.outline = o
  BY <1>2
<1>7. DraftExecutionSound(a)
  BY <1>4, <1>5, <1>6 DEF DraftExecutionSound
<1>8. ASSUME NEW y \in OfKind("draft execution"), SameDraft(a.draft, stored[y].draft)
      PROVE  FALSE
  <2>1. PICK e : e = stored[y].draft
    OBVIOUS
  <2>2. /\ e \in OfKind("draft") /\ stored[y].outline = stored[e].outline
        /\ stored[e].supersedes = 0 => stored[y].wanted = stored[e].wanted
    BY <1>5, <2>1 DEF DraftExecutionsSound, DraftExecutionSound
  <2>3. stored[e].outline = o /\ stored[e].wanted = w /\ stored[e].supersedes = d
    BY <1>5, <1>6, <1>8, <2>1 DEF SameDraft
  <2>4. CASE d = 0
    BY <1>5, <2>2, <2>3, <2>4 DEF DraftExecutions
  <2>5. CASE d # 0
    BY <1>5, <2>1, <2>2, <2>3, <2>5 DEF DraftRevisions
  <2> QED BY <2>4, <2>5
<1>9. DraftingStore'
  BY <1>3, <1>5, <1>6, <1>7, <1>8, DraftingStoreStays
<1>10. FindingsPackaged'
  BY <1>3, <1>5, <1>6, PackagedStays DEF DraftingInv
<1> QED BY <1>3, <1>9, <1>10, NoCallKeeps

(* Nothing that is stored is wrong at first.                                *)
LEMMA DraftingBegins ==
    ASSUME NothingStored
    PROVE  DraftingInv
<1>1. StoredSound /\ at = "idle" /\ (\A kind : OfKind(kind) = {}) /\ deaths = 0
  BY NothingIsStored DEF NothingStored
<1>2. Assemblies = {}
  BY <1>1 DEF Assemblies
<1> QED BY <1>1, <1>2 DEF DraftingInv, DraftingStore, CallBegun, Assembling, SectionsMade, DraftAsked,
             FindingsPackaged, FindingsSound, PackagesSound, OneAssembly, SectionsSound, DraftsSound,
             DraftExecutionsSound

(* The steps of assembly keep the invariant.                                *)
LEMMA AssemblyKeeps ==
    ASSUME DraftingInv,
           \/ Assemble \/ AssembleAgain \/ AnswerRejected
           \/ \E answer \in AssemblerAnswers : AnswerAccepted(answer)
           \/ PutFinding \/ PutClaim \/ PutResults \/ PutAssembly
    PROVE  DraftingInv'
<1>1. CASE AssembleAgain
  BY <1>1, SameKeeps DEF AssembleAgain, Again
<1> QED BY <1>1, AssembleKeeps, RejectedKeeps, AcceptedKeeps, PutFindingKeeps, PutClaimKeeps,
           PutResultsKeeps, PutAssemblyKeeps

(* So do those that put one artifact between calls.                         *)
LEMMA AtOnceKeeps ==
    ASSUME DraftingInv,
           \/ \E p \in DOMAIN Conditions : \E status \in Verdicts[p] : VerifyProposition(p, status)
           \/ \E p \in OfKind("package") : CritiquePackage(p) \/ Outline(p)
           \/ \E d \in OfKind("draft") :
                 CritiqueDraftAgain(d) \/ \E faults \in Faults : CritiqueDraft(d, faults)
    PROVE  DraftingInv'
<1>1. ASSUME NEW p \in DOMAIN Conditions, NEW status \in Verdicts[p], VerifyProposition(p, status)
      PROVE  DraftingInv'
  <2>1. PICK a : a = [kind |-> "verification", proposition |-> p, status |-> status]
    OBVIOUS
  <2>2. PutAtOnce(a) /\ a.kind = "verification"
    BY <1>1, <2>1 DEF VerifyProposition
  <2> QED BY <2>2, PutAtOnceKeeps
<1>2. ASSUME NEW p \in OfKind("package"), CritiquePackage(p) PROVE DraftingInv'
  <2>1. CASE Again
    BY <2>1, SameKeeps DEF Again
  <2>2. CASE ~Again
    <3>1. PICK a : a = [kind |-> "package critique", package |-> p,
                        issues |-> {f \in ToSet(stored[p].findings) :
                                       stored[f].supports \cap Contradicted # {}}]
      OBVIOUS
    <3>2. PutAtOnce(a) /\ a.kind = "package critique"
      BY <1>2, <2>2, <3>1 DEF CritiquePackage
    <3> QED BY <3>2, PutAtOnceKeeps
  <2> QED BY <2>1, <2>2
<1>3. ASSUME NEW p \in OfKind("package"), Outline(p) PROVE DraftingInv'
  <2>1. CASE Again
    BY <2>1, SameKeeps DEF Again
  <2>2. CASE ~Again
    <3>1. PICK a : a = [kind |-> "outline", package |-> p]
      OBVIOUS
    <3>2. PutAtOnce(a) /\ a.kind = "outline"
      BY <1>3, <2>2, <3>1 DEF Outline
    <3> QED BY <3>2, PutAtOnceKeeps
  <2> QED BY <2>1, <2>2
<1>4. ASSUME NEW d \in OfKind("draft"), CritiqueDraftAgain(d) PROVE DraftingInv'
  BY <1>4, SameKeeps DEF CritiqueDraftAgain, Again
<1>5. ASSUME NEW d \in OfKind("draft"), NEW faults \in Faults, CritiqueDraft(d, faults)
      PROVE  DraftingInv'
  <2>1. PICK a : a = [kind |-> "draft critique", draft |-> d,
                      faults |-> faults \cup ({"limitations"} \ SectionIds(d))]
    OBVIOUS
  <2>2. PutAtOnce(a) /\ a.kind = "draft critique"
    BY <1>5, <2>1 DEF CritiqueDraft
  <2> QED BY <2>2, PutAtOnceKeeps
<1> QED BY <1>1, <1>2, <1>3, <1>4, <1>5

(* And those of drafting and revision.                                      *)
LEMMA DraftingKeeps ==
    ASSUME DraftingInv,
           \/ \E o \in OfKind("outline"), wanted \in Wanted : Draft(o, wanted) \/ DraftAgain(o, wanted)
           \/ SectionsSpent \/ \E counted \in {0, 1} : SectionRejected(counted)
           \/ \E answer \in SectionAnswers : PutSection(answer)
           \/ KeepSection \/ NothingDrafted \/ PutDraft \/ PutDraftExecution
           \/ \E d \in OfKind("draft") : ReviseDraft(d) \/ ReviseDraftAgain(d)
    PROVE  DraftingInv'
<1>1. ASSUME NEW o, NEW wanted, DraftAgain(o, wanted) PROVE DraftingInv'
  BY <1>1, SameKeeps DEF DraftAgain, Again
<1>2. ASSUME NEW d, ReviseDraftAgain(d) PROVE DraftingInv'
  BY <1>2, SameKeeps DEF ReviseDraftAgain, Again
<1>3. ASSUME SectionsSpent \/ NothingDrafted PROVE DraftingInv'
  BY <1>3, DraftingLeaves DEF SectionsSpent, NothingDrafted
<1> QED BY <1>1, <1>2, <1>3, DraftKeeps, SectionRejectedKeeps, PutSectionKeeps, KeepSectionKeeps,
           PutDraftKeeps, PutDraftExecutionKeeps, ReviseDraftKeeps

(* DraftingInv is inductive.                                                *)
LEMMA DraftingStep ==
    ASSUME DraftingInv, [DraftingNext]_researchVars
    PROVE  DraftingInv'
<1>1. CASE UNCHANGED researchVars
  BY <1>1, SameKeeps
<1>2. CASE NewProcess \/ Die
  <2>1. UNCHANGED stored /\ at' = "idle" /\ deaths \in Nat
    BY <1>2 DEF NewProcess, Die, DraftingInv, FindingsPackaged
  <2>2. (deaths' = deaths /\ at # "finding") \/ deaths' = deaths + 1
    BY <1>2 DEF NewProcess, Die
  <2>3. deaths' \in Nat /\ (deaths' # 0 \/ (deaths' = deaths /\ at # "finding"))
    <3>1. PICK n \in Nat : n = deaths
      BY <2>1
    <3>2. n + 1 \in Nat /\ n + 1 # 0
      OBVIOUS
    <3>3. (deaths' = n /\ at # "finding") \/ deaths' = n + 1
      BY <2>2, <3>1
    <3> QED BY <3>1, <3>2, <3>3
  <2> QED BY <2>1, <2>3, EndKeeps
<1>3. CASE DraftingNext /\ ~(NewProcess \/ Die)
  BY <1>3, AssemblyKeeps, AtOnceKeeps, DraftingKeeps DEF DraftingNext
<1> QED BY <1>1, <1>2, <1>3

(* A finding of a package is one, and was earned.                           *)
LEMMA PackagesFollow ==
    ASSUME DraftingInv, NEW p \in OfKind("package")
    PROVE  /\ \A c \in ToSet(stored[p].claims) : stored[c].findings \subseteq ToSet(stored[p].findings)
           /\ \A f \in ToSet(stored[p].findings) : \A s \in stored[f].supports \cap DOMAIN Conditions :
                 /\ \E v \in Verification(s) : v < f /\ stored[v].status = "verified"
                 /\ \A c \in Conditions[s] : [of |-> c, negated |-> FALSE] \in stored[f].conditions
<1>1. stored[p].findings \in Seq(OfKind("finding")) /\ RestOn(stored[p].claims, stored[p].findings)
  BY DEF DraftingInv, DraftingStore, PackagesSound, PackageRests
<1>2. ToSet(stored[p].findings) \subseteq OfKind("finding")
  <2>1. PICK list, S : list = stored[p].findings /\ S = OfKind("finding")
    OBVIOUS
  <2>2. ToSet(list) \subseteq S
    BY <1>1, <2>1 DEF ToSet
  <2> QED BY <2>1, <2>2
<1>3. \A f \in ToSet(stored[p].findings) : FindingSound(stored[f], f)
  BY <1>2 DEF DraftingInv, DraftingStore, FindingsSound
<1> QED BY <1>1, <1>3 DEF RestOn, FindingSound, VerifiedBy, Verbatim

(* Without a death every finding is in one package.                         *)
LEMMA OnePackage ==
    ASSUME DraftingInv, deaths = 0, at = "idle", NEW f \in OfKind("finding")
    PROVE  Cardinality({p \in OfKind("package") : f \in ToSet(stored[p].findings)}) = 1
<1>1. PICK p \in OfKind("package") : f \in ToSet(stored[p].findings)
  BY DEF DraftingInv, FindingsPackaged
<1>2. \A q \in OfKind("package") : f \in ToSet(stored[q].findings) => q = p
  BY <1>1 DEF DraftingInv, DraftingStore, PackagesSound
<1>3. {q \in OfKind("package") : f \in ToSet(stored[q].findings)} = {p}
  BY <1>1, <1>2
<1> QED BY <1>3, FS_Singleton

(* A draft follows its outline and, as a revision, the critiques.           *)
LEMMA DraftFollows ==
    ASSUME DraftingInv, NEW d \in OfKind("draft"), NEW draft, draft = stored[d],
           NEW ids, ids = [k \in DOMAIN draft.sections |-> stored[draft.sections[k]].id],
           NEW old, old = stored[draft.supersedes].sections
    PROVE  /\ ids = [k \in DOMAIN SpecsOf(draft.wanted) |-> SpecsOf(draft.wanted)[k].id]
           /\ draft.supersedes # 0 =>
                 \A k \in DOMAIN old :
                    LET faulty == {c \in DraftCritiques(draft.supersedes) :
                                     c < d /\ ids[k] \in stored[c].faults}
                    IN  IF faulty = {} THEN draft.sections[k] = old[k]
                        ELSE \A c \in faulty : draft.sections[k] > c
<1>1. DraftSound(draft, d) /\ DraftsSound
  BY DEF DraftingInv, DraftingStore, DraftsSound
<1>2. PICK specs, sections, w, e : /\ specs = SpecsOf(w) /\ sections = draft.sections /\ w = draft.wanted
                                   /\ e = draft.supersedes
  OBVIOUS
<1>3. /\ sections \in Seq(OfKind("section")) /\ Len(sections) = Len(specs)
      /\ \A k \in DOMAIN sections : stored[sections[k]].id = specs[k].id
      /\ InOrder(sections, w)
  BY <1>1, <1>2 DEF DraftSound, InOrder
<1>4. DOMAIN sections = DOMAIN specs
  <2>1. DOMAIN specs = 1 .. Len(specs)
    BY <1>2, SpecsAre
  <2> QED BY <1>3, <2>1
<1>5. ids = [k \in DOMAIN specs |-> specs[k].id]
  <2>1. ids = [k \in DOMAIN specs |-> stored[sections[k]].id]
    BY <1>2, <1>4, Zenon
  <2> QED BY <1>3, <1>4, <2>1
<1>6. ASSUME e # 0, NEW k \in DOMAIN old, NEW faulty,
             faulty = {c \in DraftCritiques(e) : c < d /\ ids[k] \in stored[c].faults}
      PROVE  IF faulty = {} THEN sections[k] = old[k] ELSE \A c \in faulty : sections[k] > c
  <2>1. /\ e \in OfKind("draft") /\ w = stored[e].wanted
        /\ \A i \in DOMAIN sections :
              SectionRevised(old[i], sections[i], {c \in DraftCritiques(e) : c < d})
    BY <1>1, <1>2, <1>6 DEF DraftSound
  <2>2. /\ DOMAIN old = DOMAIN sections
        /\ \A i \in DOMAIN sections : stored[old[i]].id = stored[sections[i]].id
    <3>1. old = stored[e].sections
      BY <1>2
    <3>2. InOrder(sections, w) /\ e \in OfKind("draft") /\ w = stored[e].wanted /\ DraftsSound
      BY <1>1, <1>3, <2>1
    <3>3. /\ DOMAIN stored[e].sections = DOMAIN sections
          /\ \A i \in DOMAIN sections : stored[stored[e].sections[i]].id = stored[sections[i]].id
      BY <3>2, AsMany
    <3> QED BY <3>1, <3>3
  <2>3. k \in DOMAIN sections /\ ids[k] = stored[old[k]].id
    BY <1>2, <1>6, <2>2, Zenon
  <2>4. faulty = {c \in {b \in DraftCritiques(e) : b < d} : stored[old[k]].id \in stored[c].faults}
    BY <1>6, <2>3
  <2>5. SectionRevised(old[k], sections[k], {c \in DraftCritiques(e) : c < d})
    BY <2>1, <2>3
  <2> QED BY <2>4, <2>5 DEF SectionRevised
<1> QED BY <1>2, <1>5, <1>6

(* The invariant gives the property.                                        *)
LEMMA DraftingFollows ==
    ASSUME DraftingInv
    PROVE  DraftsFollow
<1>1. \A x, y \in Assemblies : x = y
  BY DEF DraftingInv, DraftingStore, OneAssembly
<1>2. ASSUME NEW x \in OfKind("draft execution"), NEW y \in OfKind("draft execution"),
             stored[stored[x].draft].outline = stored[stored[y].draft].outline,
             stored[stored[x].draft].wanted = stored[stored[y].draft].wanted,
             stored[stored[x].draft].supersedes = stored[stored[y].draft].supersedes
      PROVE  x = y
  BY <1>2 DEF DraftingInv, DraftingStore, DraftExecutionsSound, SameDraft
<1> QED BY <1>1, <1>2, PackagesFollow, OnePackage, DraftFollows DEF DraftsFollow

(* What a package claims rests on what was verified before, every finding   *)
(* is in one package, and drafts and revisions follow the outline, the      *)
(* critiques and what was asked for, each of them once.                     *)
THEOREM DraftingCorrect == DraftingSpec => []DraftsFollow
<1>1. NothingStored => DraftingInv
  BY DraftingBegins
<1>2. DraftingInv /\ [DraftingNext]_researchVars => DraftingInv'
  BY DraftingStep
<1>3. DraftingInv => DraftsFollow
  BY DraftingFollows
<1> QED BY <1>1, <1>2, <1>3, PTL DEF DraftingSpec
=============================================================================
