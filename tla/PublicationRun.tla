--------------------------- MODULE PublicationRun ---------------------------
(***************************************************************************)
(* From a draft to a submission: research.publication_formatter formats a  *)
(* draft for a profile, validates the formatted manuscript, exports it in  *)
(* every format and packages the exports, each when it is asked to.        *)
(*                                                                         *)
(* Sections are the drafter's, of their texts is kept which citations they *)
(* use; whether front matter, lengths, anonymity and wording pass is one   *)
(* choice.  Of the links, those that supersede are kept.  A blob without a *)
(* record, which a death leaves, is not seen again and left out.           *)
(***************************************************************************)
EXTENDS ResearchRun, FiniteSetsExt, SequencesExt

CONSTANTS
    Drafts,     \* sequences of sections [id, cites, used, grounds, keeps], by draft: cites
                \* maps the section's citation ids to papers, used are those in its body,
                \* grounds the propositions its claims rest on, with all conditions or not
    Profiles,   \* [required, order], by profile
    Formats     \* what there is an exporter for, in order

\* A profile that names a section twice fits no manuscript, and is left out.
ASSUME DraftsAssumption == \A d \in DOMAIN Drafts : Drafts[d] \in Seq(ToSet(Drafts[d]))

ASSUME ProfilesAssumption ==
    /\ \A p \in DOMAIN Profiles :
          Profiles[p].order \in Seq(ToSet(Profiles[p].order)) /\ IsInjective(Profiles[p].order)
    /\ Formats \in Seq(ToSet(Formats))

Propositions == UNION {UNION {s.grounds : s \in ToSet(Drafts[d])} : d \in DOMAIN Drafts}

\* Another service verifies a proposition.
Verify(p, status) ==
    /\ \A v \in OfKind("verification") : stored[v].proposition # p
    /\ PutAtOnce([kind |-> "verification", proposition |-> p, status |-> status])

-----------------------------------------------------------------------------
(* Formatting                                                               *)
\* The profile's order first, what it does not name after it.
Ordered(draft, order) ==
    LET ids == [k \in DOMAIN Drafts[draft] |-> Drafts[draft][k].id]
    IN  Among(order, ToSet(ids)) \o Among(ids, ToSet(ids) \ ToSet(order))

\* A citation id is the last section's that declares it.
CitationMap(draft) ==
    LET sections == Drafts[draft]
        last(c) == Max({k \in DOMAIN sections : c \in DOMAIN sections[k].cites})
    IN  [c \in UNION {DOMAIN s.cites : s \in ToSet(sections)} |-> sections[last(c)].cites[c]]

\* The papers in the bibliography.
Entries(draft) ==
    LET used == UNION {s.used : s \in ToSet(Drafts[draft])}
    IN  {CitationMap(draft)[c] : c \in used \cap DOMAIN CitationMap(draft)}

\* Mutant: a verification, whatever its status.
AnyVerification(section) ==
    /\ \A p \in section.grounds : \E v \in OfKind("verification") : stored[v].proposition = p
    /\ section.grounds # {} => section.keeps

ConditionsKept(section) ==
    /\ \A p \in section.grounds :
          \E v \in OfKind("verification") : stored[v].proposition = p /\ stored[v].status = "verified"
    /\ section.grounds # {} => section.keeps

Formatted(draft, profile) ==
    {m \in OfKind("formatted manuscript") : stored[m].draft = draft /\ stored[m].profile = profile}

Format(draft, profile, fits) ==
    /\ Formatted(draft, profile) = {}
    /\ Call("bibliography",
            [new |-> [kind |-> "formatted manuscript", draft |-> draft, profile |-> profile,
                      sections |-> Ordered(draft, Profiles[profile].order),
                      cited |-> CitationMap(draft), entries |-> Entries(draft), fits |-> fits,
                      kept |-> \A s \in ToSet(Drafts[draft]) : ConditionsKept(s),
                      status |-> "formatted"]])
    /\ UNCHANGED <<stored, prov>>

FormatAgain(draft, profile) ==
    Formatted(draft, profile) # {} /\ at = "idle" /\ UNCHANGED researchVars

PutBibliography ==
    /\ at = "bibliography"
    /\ PutThen([kind |-> "bibliography", entries |-> call.new.entries], "manuscript", call)

PutManuscript == at = "manuscript" /\ Put(call.new) /\ Return /\ UNCHANGED prov

-----------------------------------------------------------------------------
(* Validation                                                               *)
\* Mutant: nothing is required.
WithinLimits(manuscript) == manuscript.fits /\ manuscript.kept

Passes(manuscript) ==
    LET profile == Profiles[manuscript.profile]
        present == ToSet(manuscript.sections)
    IN  /\ manuscript.fits /\ manuscript.kept
        /\ \A s \in ToSet(Drafts[manuscript.draft]) : s.used \subseteq DOMAIN s.cites
        /\ \A c \in DOMAIN manuscript.cited : manuscript.cited[c] \in manuscript.entries
        /\ profile.required \subseteq present
        /\ profile.order # <<>> =>
              manuscript.sections = Among(profile.order, present)

ValidateManuscript(m) ==
    /\ Call("validate", [manuscript |-> m])
    /\ UNCHANGED <<stored, prov>>

PutValidated ==
    /\ at = "validate"
    /\ LET manuscript == stored[call.manuscript]
       IN  PutThen([manuscript EXCEPT !.status = IF Passes(manuscript) THEN "validated" ELSE "failed"],
                   "supersede", call)

SupersedeManuscript ==
    /\ at = "supersede"
    /\ prov' = prov \cup {<<call.manuscript, Latest, "supersedes">>}
    /\ Return /\ UNCHANGED stored

-----------------------------------------------------------------------------
(* Exports and packages                                                     *)
Successors(m) == {l[2] : l \in {k \in prov : k[1] = m}}

\* The end of the chain of first successors.
Leaf(m) ==
    LET leaf[n \in OfKind("formatted manuscript")] ==
          IF Successors(n) = {} THEN n ELSE leaf[Min(Successors(n))]
    IN  leaf[m]

\* Any of the draft in that format.
Exports(draft, format) == {e \in OfKind("export") : stored[e].draft = draft /\ stored[e].format = format}

ExportOf(m, format) ==
    [kind |-> "export", format |-> format, draft |-> stored[m].draft, profile |-> stored[m].profile]

Export(m, format) ==
    IF Exports(stored[m].draft, format) # {}
    THEN at = "idle" /\ UNCHANGED researchVars
    ELSE PutAtOnce(ExportOf(m, format))

Package(m) ==
    /\ Call("package", [manuscript |-> Leaf(m), exports |-> {}, todo |-> Formats, failed |-> FALSE])
    /\ UNCHANGED <<stored, prov>>

\* The next format's export is found, made, or fails.
PackageExport ==
    /\ at = "package" /\ call.todo # <<>>
    /\ LET format == Head(call.todo)
           found == Exports(stored[call.manuscript].draft, format)
           next == [call EXCEPT !.todo = Tail(@)]
       IN  IF found # {}
           THEN /\ call' = [next EXCEPT !.exports = @ \cup {Min(found)}]
                /\ Goto("package") /\ UNCHANGED <<stored, prov>>
           ELSE \/ PutThen(ExportOf(call.manuscript, format), "package",
                           [next EXCEPT !.exports = @ \cup {Len(stored) + 1}])
                \/ /\ call' = [next EXCEPT !.failed = TRUE]
                   /\ Goto("package") /\ UNCHANGED <<stored, prov>>

\* A cover letter that was asked for may fail as well.
PackageStatus(failed) ==
    IF /\ stored[call.manuscript].status = "validated"
       /\ ~failed /\ Cardinality(call.exports) = Len(Formats)
    THEN "ready" ELSE "failed"

PutPackage(letterFails) ==
    /\ at = "package" /\ call.todo = <<>>
    /\ PutThen([kind |-> "submission package", manuscript |-> call.manuscript, exports |-> call.exports,
                status |-> PackageStatus(call.failed \/ letterFails)],
               "execution", call)

PutPublicationExecution ==
    /\ at = "execution"
    /\ Put([kind |-> "publication execution", package |-> Latest])
    /\ Return /\ UNCHANGED prov

PublicationNext ==
    \/ \E p \in Propositions, status \in {"verified", "failed"} : Verify(p, status)
    \/ \E d \in DOMAIN Drafts, p \in DOMAIN Profiles :
          FormatAgain(d, p) \/ \E fits \in BOOLEAN : Format(d, p, fits)
    \/ PutBibliography \/ PutManuscript
    \/ \E m \in OfKind("formatted manuscript") :
          ValidateManuscript(m) \/ Package(m) \/ \E format \in ToSet(Formats) : Export(m, format)
    \/ PutValidated \/ SupersedeManuscript
    \/ PackageExport
    \/ \E letterFails \in BOOLEAN : PutPackage(letterFails)
    \/ PutPublicationExecution
    \/ Die

PublicationSpec == NothingStored /\ [][PublicationNext]_researchVars

-----------------------------------------------------------------------------
SharedIds(draft) ==
    \E s, t \in ToSet(Drafts[draft]) :
       \E c \in DOMAIN s.cites \cap DOMAIN t.cites : s.cites[c] # t.cites[c]

\* The papers that are cited where the manuscript is read.
CitedInText(draft) == UNION {{s.cites[c] : c \in s.used} : s \in ToSet(Drafts[draft])}

(* A draft is formatted for a profile once and exported in a format once,   *)
(* also after a death.  A package is ready only with a manuscript that has  *)
(* every section of its draft, those the profile requires and in its order, *)
(* whose propositions were verified and keep their conditions, that lists   *)
(* every paper it cites, where sections do not share citation ids, and with *)
(* one export of that draft in every format.                                *)
SubmittedWhole ==
    /\ \A m, n \in OfKind("formatted manuscript") :
          /\ stored[m].status = "formatted" /\ stored[n].status = "formatted"
          /\ stored[m].draft = stored[n].draft /\ stored[m].profile = stored[n].profile
          => m = n
    /\ \A e, f \in OfKind("export") :
          stored[e].draft = stored[f].draft /\ stored[e].format = stored[f].format => e = f
    /\ \A p \in OfKind("submission package") : stored[p].status = "ready" =>
          LET manuscript == stored[stored[p].manuscript]
              profile == Profiles[manuscript.profile]
              place(id) == CHOOSE k \in DOMAIN manuscript.sections : manuscript.sections[k] = id
          IN  /\ ToSet(manuscript.sections) = {s.id : s \in ToSet(Drafts[manuscript.draft])}
              /\ profile.required \subseteq ToSet(manuscript.sections)
              /\ \A j, k \in DOMAIN profile.order :
                    j < k /\ {profile.order[j], profile.order[k]} \subseteq ToSet(manuscript.sections)
                    => place(profile.order[j]) < place(profile.order[k])
              /\ \A s \in ToSet(Drafts[manuscript.draft]) : \A q \in s.grounds :
                    /\ s.keeps
                    /\ \E v \in OfKind("verification") :
                          v < stored[p].manuscript /\ stored[v].proposition = q
                          /\ stored[v].status = "verified"
              /\ ~SharedIds(manuscript.draft) => CitedInText(manuscript.draft) \subseteq manuscript.entries
              /\ {stored[e].format : e \in stored[p].exports} = ToSet(Formats)
              /\ \A e \in stored[p].exports : stored[e].draft = manuscript.draft

(* What validate says it checks, "bibliography covers every cited paper": a *)
(* manuscript that was validated lists every paper its text cites.          *)
BibliographyCovers ==
    \A m \in OfKind("formatted manuscript") : stored[m].status = "validated" =>
       CitedInText(stored[m].draft) \subseteq stored[m].entries
=============================================================================
