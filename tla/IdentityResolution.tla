-------------------------- MODULE IdentityResolution --------------------------
(***************************************************************************)
(* literature.identity_resolver: paper records that share an identifier    *)
(* (a DOI, another strong identifier, the hash of their content) become    *)
(* one identity; an identity that a new one includes is superseded.        *)
(*                                                                         *)
(* resolve() reads the papers and the identities first, then settles group *)
(* after group from what it read.                                          *)
(***************************************************************************)
EXTENDS ResearchRun, ProvenanceGraph, FiniteSetsExt

CONSTANTS
    Papers,          \* ids of paper records
    Identifiers,     \* paper -> the identifiers that count
    Unreadable       \* sets of papers whose load may fail during one call

-----------------------------------------------------------------------------
Members(i) == stored[i].members

Superseded == {i \in Stored : \E j \in Stored : <<i, j, "supersedes">> \in prov}

\* existing_by_members keeps one identity for a set of members, the last.
Existing == {i \in Stored : \A j \in Stored : Members(j) = Members(i) => j <= i}

Active == Stored \ Superseded

Current == Existing \ Superseded

Share(p, q) == Identifiers[p] \cap Identifiers[q] # {}

\* Mutant: of a paper's identifiers only the strongest counts.
StrongestOnly(papers) ==
    {pair \in papers \X papers : Min(Identifiers[pair[1]]) = Min(Identifiers[pair[2]])}

\* The union-find: papers joined by a chain of shared identifiers.
Alike(papers) == {pair \in papers \X papers : Share(pair[1], pair[2])}

GroupOf(p, papers) == {q \in papers : q = p \/ Reaches(papers, Alike(papers), p, q)}
Groups(papers) == {GroupOf(p, papers) : p \in papers}

\* Mutants: only identities within the group are taken in, as before M35; a
\* merge that forgets the members it merged.
WithinGroup(group) == {i \in call.current : Members(i) \subseteq group /\ Members(i) # group}
OnlyTheGroup(group) == group

\* Identities that share a member with the group, other than its own.
Overlapping(group) ==
    {i \in call.current : Members(i) # group /\ Members(i) \cap group # {}}

\* Identities whose members the merged group holds.
Included(members) == {i \in call.current : Members(i) \subseteq members /\ Members(i) # members}

\* The group with the members of what it overlaps, as far as they load.
Merged(group) ==
    IF Overlapping(group) = {} THEN group
    ELSE (group \cup UNION {Members(i) : i \in Overlapping(group)}) \ (call.unread \ call.papers)

-----------------------------------------------------------------------------
\* Papers that fail to load are unresolved; the others are grouped.
Resolve(papers, unread) ==
    /\ LET valid == papers \ unread
       IN  Call("groups", [papers |-> valid, unread |-> unread, current |-> Current,
                           found |-> Active, todo |-> Groups(valid), members |-> {}, olds |-> {},
                           results |-> {}])
    /\ UNCHANGED <<stored, prov>>

\* An identity with just these members is used again.
Reuse(group) ==
    /\ at = "groups" /\ group \in call.todo
    /\ \E i \in call.current :
          /\ Members(i) = Merged(group)
          /\ call' = [call EXCEPT !.todo = @ \ {group}, !.results = @ \cup {i}]
    /\ Goto("groups")
    /\ UNCHANGED <<stored, prov>>

Create(group) ==
    /\ at = "groups" /\ group \in call.todo
    /\ \A i \in call.current : Members(i) # Merged(group)
    /\ Put([kind |-> "identity", members |-> Merged(group)])
    /\ call' = [call EXCEPT !.todo = @ \ {group},
                            !.members = Merged(group),
                            !.olds = Overlapping(group) \cup Included(Merged(group)),
                            !.results = @ \cup {Len(stored) + 1}]
    /\ Goto("links")
    /\ UNCHANGED prov

\* One derived_from link per member, in their order, then one supersedes link
\* per identity taken in.
LinkMember ==
    /\ at = "links" /\ call.members # {}
    /\ LET p == CHOOSE q \in call.members : TRUE
       IN /\ prov' = prov \cup {<<p, Latest, "derived_from">>}
          /\ call' = [call EXCEPT !.members = @ \ {p}]
    /\ Goto("links")
    /\ UNCHANGED stored

Supersede ==
    /\ at = "links" /\ call.members = {} /\ call.olds # {}
    /\ LET old == Min(call.olds)
       IN  /\ prov' = prov \cup {<<old, Latest, "supersedes">>}
           /\ call' = [call EXCEPT !.olds = @ \ {old}]
    /\ Goto("links")
    /\ UNCHANGED stored

GroupSettled ==
    /\ at = "links" /\ call.members = {} /\ call.olds = {}
    /\ Goto("groups")
    /\ UNCHANGED <<stored, prov, call>>

Resolved ==
    /\ at = "groups" /\ call.todo = {}
    /\ Return
    /\ UNCHANGED <<stored, prov>>

IdentityNext ==
    \/ \E papers \in (SUBSET Papers) \ {{}}, unread \in Unreadable : Resolve(papers, unread)
    \/ at = "groups" /\ \E group \in call.todo : Reuse(group) \/ Create(group)
    \/ LinkMember \/ Supersede \/ GroupSettled \/ Resolved
    \/ Die

IdentitySpec == NothingStored /\ [][IdentityNext]_researchVars

-----------------------------------------------------------------------------
Disjoint(identities) ==
    \A i, j \in identities : i # j => Members(i) \cap Members(j) = {}

\* Two groups of one call that meet the same identity.
Bridged ==
    \E g, h \in Groups(call.papers) :
        g # h /\ \E i \in call.current : Members(i) \cap g # {} /\ Members(i) \cap h # {}

(* Papers that share an identifier, also through a chain of others, end up  *)
(* in one identity that is in force, whichever calls came before, whatever  *)
(* order the groups are settled in and whichever call the process died in.  *)
ResolvedTogether ==
    at = "groups" /\ "todo" \in DOMAIN call =>
        \A group \in Groups(call.papers) \ call.todo :
            /\ \E i \in Active : group \subseteq Members(i)
            /\ \A p \in group, q \in call.papers : Share(p, q) => q \in group

(* A call that finds every paper in one identity at most leaves it so, and  *)
(* returns identities that are in force; and no paper falls out of its      *)
(* identity, unless its record could not be loaded in that call.  Left out  *)
(* are the calls whose groups meet in one identity, and those that overlook *)
(* an identity in force, because a newer one of the same members was        *)
(* superseded.                                                              *)
KeepsIdentities ==
    /\ (at = "groups" /\ at' = "idle" /\ call.found = call.current /\ Disjoint(call.found) /\ ~Bridged) =>
          Disjoint(Active) /\ call.results \subseteq Active
    /\ \A p \in UNION {Members(i) : i \in Active} :
          \/ p \in UNION {stored'[i].members : i \in Active'}
          \/ p \in call.unread
=============================================================================
