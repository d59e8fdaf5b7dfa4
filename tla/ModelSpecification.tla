-------------------------- MODULE ModelSpecification --------------------------
(***************************************************************************)
(* From a selected mechanism to a formal model: research.model_builder     *)
(* asks a model for a specification, cuts it to size and stores it if it   *)
(* is well-formed; research.model_specification_critic criticises and      *)
(* revises it.                                                             *)
(*                                                                         *)
(* An expression is the set of symbols in it, which its answer lists as    *)
(* well; texts and domains are left out.  One model role for each service. *)
(* Of the links, those that supersede are kept.                            *)
(***************************************************************************)
EXTENDS ResearchRun, FiniteSetsExt, SequencesExt

CONSTANTS
    Sources,     \* the literature a mechanism rests on, by mechanism
    Answers,     \* specifications a model may answer with, see Cut
    Caps         \* bounds of the program on the parts of a specification

Raise == Return /\ UNCHANGED <<stored, prov>>

-----------------------------------------------------------------------------
(* Specifications                                                           *)
Capped(sequence, cap) == SubSeq(sequence, 1, Min({cap, Len(sequence)}))

\* What becomes of an answer: the information structure is not cut.
Cut(spec) ==
    [actors |-> Capped(spec.actors, Caps.actors),
     variables |-> Capped(spec.variables, Caps.variables),      \* [symbol, kind, owner]
     parameters |-> Capped(spec.parameters, Caps.parameters),
     timing |-> Capped(spec.timing, Caps.timing),               \* [number, actors]
     information |-> spec.information,                          \* set of [actor, symbols, stage]
     uncertain |-> spec.uncertain,                              \* set of symbols
     assumptions |-> Capped(spec.assumptions, Caps.assumptions),  \* [literature, sources, uses]
     payoffs |-> Capped(spec.payoffs, Caps.payoffs)]            \* [actor, decisions, uses]

Symbols(spec) == {v.symbol : v \in ToSet(spec.variables)} \cup ToSet(spec.parameters)

Owned(spec, actor) ==
    {v.symbol : v \in {w \in ToSet(spec.variables) : w.kind = "decision" /\ w.owner = actor}}

WellFormed(spec, sources) ==
    LET actors == ToSet(spec.actors)
        symbols == Symbols(spec)
    IN  /\ actors # {}
        /\ Cardinality(symbols) = Len(spec.variables) + Len(spec.parameters)
        /\ \A v \in ToSet(spec.variables) : v.kind = "decision" => v.owner \in actors
        /\ spec.timing # <<>>
        /\ \A k \in DOMAIN spec.timing :
              spec.timing[k].number = k - 1 /\ spec.timing[k].actors \subseteq actors
        /\ \A i \in spec.information :
              i.actor \in actors /\ i.symbols \subseteq symbols /\ i.stage < Len(spec.timing)
        /\ \A u \in spec.uncertain :
              /\ u \in symbols
              /\ \A v \in ToSet(spec.variables) : v.symbol = u => v.kind = "random"
        /\ \A a \in ToSet(spec.assumptions) :
              /\ a.literature => a.sources # {} /\ a.sources \subseteq sources
              /\ a.uses \subseteq symbols
        /\ \A p \in ToSet(spec.payoffs) :
              p.actor \in actors /\ p.decisions \subseteq Owned(spec, p.actor)
              /\ p.uses \subseteq symbols

\* Mutant: what was answered is well-formed.
AcceptedUncut(spec, sources) == WellFormed(spec, sources)

Accepted(spec, sources) == WellFormed(Cut(spec), sources)

-----------------------------------------------------------------------------
(* Building                                                                 *)
Built(mechanism) ==
    {x \in OfKind("execution") : stored[x].mechanism = mechanism /\ stored[x].created # 0}

Build(mechanism) ==
    /\ Built(mechanism) = {}
    /\ Call("build", [mechanism |-> mechanism])
    /\ UNCHANGED <<stored, prov>>

BuildAgain(mechanism) == Built(mechanism) # {} /\ at = "idle" /\ UNCHANGED researchVars

Execution(created) == [kind |-> "execution", mechanism |-> call.mechanism, created |-> created]

\* The call fails, or what it answers is not accepted.
BuildRejected ==
    /\ at = "build" /\ Put(Execution(0)) /\ Return /\ UNCHANGED prov

PutModel(spec) ==
    /\ at = "build" /\ Accepted(spec, Sources[call.mechanism])
    /\ PutThen([kind |-> "model", mechanism |-> call.mechanism, spec |-> Cut(spec), revised |-> FALSE],
               "built", call)

PutExecution == at = "built" /\ Put(Execution(Latest)) /\ Return /\ UNCHANGED prov

-----------------------------------------------------------------------------
(* Critique and revision                                                    *)
CritiquesOf(model) == {c \in OfKind("critique") : stored[c].model = model}

Revisions(model) ==
    {m \in OfKind("model") : stored[m].revised /\ <<model, m, "supersedes">> \in prov}

Critique(model) ==
    /\ CritiquesOf(model) = {}
    /\ Call("critique", [model |-> model, revising |-> FALSE])
    /\ UNCHANGED <<stored, prov>>

\* A model nobody criticised is criticised first.
Revise(model) ==
    /\ Revisions(model) = {}
    /\ Call(IF CritiquesOf(model) = {} THEN "critique" ELSE "revise",
            [model |-> model, revising |-> TRUE])
    /\ UNCHANGED <<stored, prov>>

Again(model) ==
    /\ at = "idle" /\ (CritiquesOf(model) # {} \/ Revisions(model) # {})
    /\ UNCHANGED researchVars

\* Nothing is kept of a call that fails or of a revision that is not accepted.
CallRaises == at \in {"critique", "revise"} /\ Raise

\* The verdict is not looked at by the services here.
PutCritique ==
    /\ at = "critique"
    /\ Put([kind |-> "critique", model |-> call.model])
    /\ IF call.revising THEN call' = call /\ Goto("revise") ELSE Return
    /\ UNCHANGED prov

PutRevised(spec) ==
    /\ at = "revise" /\ Accepted(spec, Sources[stored[call.model].mechanism])
    /\ PutThen([stored[call.model] EXCEPT !.spec = Cut(spec), !.revised = TRUE], "supersede", call)

Supersede ==
    /\ at = "supersede"
    /\ prov' = prov \cup {<<call.model, Latest, "supersedes">>}
    /\ Return /\ UNCHANGED stored

SpecificationNext ==
    \/ \E mechanism \in DOMAIN Sources : Build(mechanism) \/ BuildAgain(mechanism)
    \/ BuildRejected \/ PutExecution
    \/ \E spec \in Answers : PutModel(spec) \/ PutRevised(spec)
    \/ \E model \in OfKind("model") : Critique(model) \/ Revise(model) \/ Again(model)
    \/ CallRaises \/ PutCritique \/ Supersede
    \/ Die

-----------------------------------------------------------------------------
(* What was cut off an answer leaves no reference behind: whatever a stored *)
(* model's payoffs, assumptions, stages and information name is in that     *)
(* model, and its literature is its mechanism's.  A mechanism is built      *)
(* successfully once, and a model is revised once, after a critique of it;  *)
(* where no process died, a model has its execution or what it supersedes.  *)
SpecifiedWhole ==
    /\ \A m \in OfKind("model") :
          LET spec == stored[m].spec
              named == UNION ({p.uses \cup p.decisions : p \in ToSet(spec.payoffs)}
                              \cup {a.uses : a \in ToSet(spec.assumptions)}
                              \cup {i.symbols : i \in spec.information}) \cup spec.uncertain
              acting == {p.actor : p \in ToSet(spec.payoffs)} \cup {i.actor : i \in spec.information}
                          \cup UNION {t.actors : t \in ToSet(spec.timing)}
          IN  /\ named \subseteq Symbols(spec)
              /\ acting \subseteq ToSet(spec.actors)
              /\ \A i \in spec.information : i.stage < Len(spec.timing)
              /\ \A a \in ToSet(spec.assumptions) :
                    a.literature => a.sources \subseteq Sources[stored[m].mechanism]
              /\ deaths = 0 /\ at = "idle" =>
                    IF stored[m].revised THEN \E l \in prov : l[2] = m
                    ELSE \E x \in OfKind("execution") : stored[x].created = m
    /\ \A x, y \in OfKind("execution") :
          /\ stored[x].created # 0 /\ stored[x].mechanism = stored[y].mechanism
          /\ stored[y].created # 0
          => x = y
    /\ \A l, k \in prov :
          /\ l[1] = k[1] => l = k
          /\ \E c \in CritiquesOf(l[1]) : c < l[2]
=============================================================================
