---------------------------- MODULE CommandLine ----------------------------
(***************************************************************************)
(* The command line (cli/main.py) as the composition root sees it: every   *)
(* command composes a runtime of its own, from the plugins a config file    *)
(* lists or from the ones it lists itself when there is no file, and from    *)
(* those it appends to either; the plugin manager orders and sets them up;   *)
(* then the command requires the services it calls, does its work and ends   *)
(* the process with an exit code.                                           *)
(***************************************************************************)
EXTENDS PluginOrder

CONSTANTS
    Catalogue,  \* the built-in plugins, a sequence sorted by id
    Commands,   \* the commands, a record
    Files       \* the config files, or none, that commands are called with

VARIABLES
    phase,          \* how far the call of a command is
    command,        \* the command
    file,           \* the config file it was given
    composition,    \* the plugins of its runtime
    graph,          \* the dependencies among them
    preferring,     \* whether optional services count in it
    order,          \* their setup order, as far as it is resolved
    at,             \* the place in it of the next plugin to be set up
    registry,       \* the services that are registered
    missed,         \* <<plugin, service>> that a setup's try_get did not find
    ended,          \* how the call ended
    code            \* the exit code of the process

bringsUp == <<command, file, composition, graph, preferring, order, at, registry, missed>>
lineVars == <<phase, bringsUp, ended, code>>

\* A file lists plugins and may disable a literature source.
File(plugins, disabled) ==
    [given |-> TRUE, plugins |-> plugins, disabled |-> disabled]
NoFile == [given |-> FALSE, plugins |-> {}, disabled |-> {}]

\* The provider and the router of model calls.
Routed == {"model.openrouter", "routing.role_router"}

\* discover appends the router together with the provider, or not at all.
AppendsRouter(c, given) ==
    c = "literature_discover" /\ "model.openrouter" \notin given

Given(c, f) == IF f.given THEN f.plugins ELSE Commands[c].listed

\* Mutant: what is missing is appended to the default list only.
AppendsToDefaults(c, f) ==
    IF f.given THEN f.plugins ELSE Commands[c].listed \cup Commands[c].ensured

(* The plugins of the runtime of c under f.                                  *)
Composed(c, f) ==
    LET ids == Given(c, f) \cup Commands[c].ensured
    IN  ids \cup IF AppendsRouter(c, ids) THEN Routed ELSE {}

\* A plugin that is appended although it is listed is registered twice.
ListedTwice(c, f) ==
    LET ids == Given(c, f) \cup Commands[c].ensured
    IN  AppendsRouter(c, ids) /\ "routing.role_router" \in ids

-----------------------------------------------------------------------------
PluginsOf(ids) == {p \in DOMAIN Catalogue : Catalogue[p].id \in ids}

\* A name no plugin of the catalogue has is a PluginError.
Known(ids) == \A id \in ids : \E p \in DOMAIN Catalogue : Catalogue[p].id = id

\* The services that decide the order of p.
Awaited(p, optional) ==
    Catalogue[p].requires \cup (IF optional THEN Catalogue[p].optional ELSE {})

\* Every plugin with the plugins of ps that provide what it awaits.
Dependencies(ps, optional) ==
    [p \in ps |-> {q \in ps \ {p} : Catalogue[q].provides \cap Awaited(p, optional) # {}}]

Provided(ps) == UNION {Catalogue[p].provides : p \in ps}

\* A literature source that the file disables registers nothing.
Registers(p) ==
    IF Catalogue[p].id \in file.disabled THEN {} ELSE Catalogue[p].registers

Outcomes ==
    {"refused", "failed", "unavailable"}
      \cup UNION {Commands[c].passes \cup Commands[c].fails : c \in DOMAIN Commands}

-----------------------------------------------------------------------------
LineInit ==
    /\ phase = "idle" /\ command = "" /\ file = NoFile
    /\ composition = {} /\ graph = [p \in {} |-> {}] /\ preferring = TRUE
    /\ order = <<>> /\ at = 1
    /\ registry = {} /\ missed = {}
    /\ ended = "" /\ code = 0

(* A command is called with or without a config file.                        *)
Call(c, f) ==
    /\ phase = "idle"
    /\ command' = c /\ file' = f
    /\ IF Commands[c].opens \in {"nothing", "store"}
       THEN phase' = "served" /\ UNCHANGED composition
       ELSE /\ composition' = PluginsOf(Composed(c, f))
            /\ phase' = IF /\ Composed(c, f) # {} /\ Known(Composed(c, f))
                           /\ ~ListedTwice(c, f)
                        THEN "composed" ELSE "refused"
    /\ UNCHANGED <<graph, preferring, order, at, registry, missed, ended, code>>

(* The manager refuses a composition in which a required service is missing. *)
Load ==
    /\ phase = "composed"
    /\ IF \A p \in composition : Catalogue[p].requires \subseteq Provided(composition)
       THEN phase' = "ordering" /\ graph' = Dependencies(composition, preferring)
       ELSE phase' = "refused" /\ UNCHANGED graph
    /\ UNCHANGED <<command, file, composition, preferring, order, at, registry, missed, ended, code>>

(* It places the plugins one by one.                                         *)
Place ==
    /\ phase = "ordering"
    /\ \E p \in Ready(graph, Elements(order)) :
          /\ p = Least(Ready(graph, Elements(order)))
          /\ order' = Append(order, p)
    /\ UNCHANGED <<phase, command, file, composition, graph, preferring, at, registry, missed, ended, code>>

(* When optional services close a cycle it sorts again without them; it      *)
(* refuses a cycle of required ones.                                         *)
Ordered ==
    /\ phase = "ordering"
    /\ Ready(graph, Elements(order)) = {}
    /\ IF Elements(order) = composition
       THEN /\ phase' = IF Commands[command].opens = "order" THEN "served" ELSE "setup"
            /\ UNCHANGED <<graph, preferring, order>>
       ELSE IF preferring
            THEN /\ preferring' = FALSE /\ graph' = Dependencies(composition, FALSE)
                 /\ order' = <<>> /\ UNCHANGED phase
            ELSE phase' = "refused" /\ UNCHANGED <<graph, preferring, order>>
    /\ UNCHANGED <<command, file, composition, at, registry, missed, ended, code>>

\* What the setup of p needs of the registry.
CanSetUp(p) ==
    Catalogue[p].binds \subseteq registry /\ Registers(p) \cap registry = {}

(* The next plugin is set up, or the runtime fails to come up.              *)
SetUp ==
    /\ phase = "setup" /\ at \in DOMAIN order
    /\ IF CanSetUp(order[at])
       THEN /\ registry' = registry \cup Registers(order[at])
            /\ missed' = missed \cup ({Catalogue[order[at]].id}
                                        \X (Catalogue[order[at]].tries \ registry))
            /\ at' = at + 1
            /\ UNCHANGED phase
       ELSE phase' = "failed" /\ UNCHANGED <<at, registry, missed>>
    /\ UNCHANGED <<command, file, composition, graph, preferring, order, ended, code>>

(* The runtime is up and the command requires its services.                  *)
Serve ==
    /\ phase = "setup" /\ at = Len(order) + 1
    /\ phase' = IF Commands[command].needs \subseteq registry
                THEN "served" ELSE "unavailable"
    /\ UNCHANGED <<bringsUp, ended, code>>

(* The work is done, or has raised, or found nothing to work on, or carries  *)
(* a negative verdict; without a runtime, or without a service it requires,  *)
(* there is no work.                                                        *)
Exit(outcome) ==
    /\ IF phase = "served"
       THEN outcome \in Commands[command].passes \cup Commands[command].fails
       ELSE phase \in {"refused", "failed", "unavailable"} /\ outcome = phase
    /\ phase' = "exited" /\ ended' = outcome
    /\ code' = IF phase = "served" /\ outcome \in Commands[command].passes THEN 0 ELSE 1
    /\ UNCHANGED bringsUp

LineNext ==
    \/ \E c \in DOMAIN Commands : \E f \in Files : Call(c, f)
    \/ Load \/ Place \/ Ordered \/ SetUp \/ Serve
    \/ \E outcome \in Outcomes : Exit(outcome)

LineSpec == LineInit /\ [][LineNext]_lineVars

-----------------------------------------------------------------------------
(* What the setup order relies on and no metadata says: a setup binds only   *)
(* what its plugin requires, registers what it provides and nothing that     *)
(* another plugin registers, and binds no service that a file may disable.   *)
CatalogueSound ==
    /\ \A p \in DOMAIN Catalogue :
          /\ Catalogue[p].binds \subseteq Catalogue[p].requires
          /\ Catalogue[p].provides \subseteq Catalogue[p].registers
          /\ Catalogue[p].requires \cap Catalogue[p].provides = {}
    /\ \A p, q \in DOMAIN Catalogue :
          /\ p # q => Catalogue[p].registers \cap Catalogue[q].registers = {}
          /\ \A f \in Files : Catalogue[q].id \in f.disabled =>
                Catalogue[p].binds \cap Catalogue[q].registers = {}

(* Every runtime that is not refused comes up: with the manager's order each *)
(* setup finds what it binds, and the names it registers are free.           *)
ComesUp == phase # "failed"

Members == {Catalogue[p].id : p \in composition}

\* Commands that list and append no model router for plugins that require it.
Routerless ==
    {"screening_run", "results_assemble", "results_critique", "manuscript_outline",
     "manuscript_draft", "manuscript_critique", "manuscript_revise",
     "publication_format", "publication_profile_create", "publication_validate",
     "publication_export", "publication_package", "novelty_validate",
     "novelty_report", "novelty_gate", "novelty_revalidate", "novelty_enrich",
     "novelty_inspect"}

Incomplete ==
    \/ "routing.role_router" \in file.plugins /\ "model.openrouter" \notin Members
    \/ Members = {}
    \/ command = "literature_discover" /\ Cardinality(Routed \cap file.plugins) = 1

(* A command is refused when its file lists the router and neither of them   *)
(* the provider, for discover when the file lists just one of the two, and   *)
(* when neither lists anything.  No other composition is refused, but for    *)
(* the commands that ensure no router: what becomes of these without one is  *)
(* not claimed here, DefaultsSuffice is about it.                            *)
RefusedExactly ==
    /\ phase \in {"setup", "served", "unavailable"} /\ Commands[command].opens \in {"runtime", "order"}
       => ~Incomplete
    /\ phase = "refused" =>
          Incomplete \/ (command \in Routerless /\ "routing.role_router" \notin file.plugins)

(* "Every command builds a default config listing everything it needs"       *)
(* (cli/main.py:484): called without a config file, a command comes up and   *)
(* finds its services.                                                       *)
DefaultsSuffice == phase \in {"refused", "failed", "unavailable"} => file.given

(* A command finds every service it calls, but for an agent loop the file    *)
(* does not list and a literature source it disables.                        *)
ServedExactly ==
    phase \in {"served", "unavailable"} /\ Commands[command].opens = "runtime"
    => (phase = "unavailable" <=>
          \/ /\ command = "run"
             /\ file.given /\ "loop.simple_tool_loop" \notin file.plugins
          \/ /\ command \in {"literature_search_crossref", "literature_get_crossref"}
             /\ "literature.crossref" \in file.disabled)

(* A setup that asks for a service without requiring it finds it whenever a  *)
(* plugin of the runtime provides it, but for three services that are set up *)
(* later and that no metadata orders.                                        *)
MissedExactly ==
    \A m \in missed : m[2] \in Provided(composition) =>
        m \in {<<"documents.acquisition_orchestrator", "document_fetcher.default">>,
               <<"documents.acquisition_orchestrator", "document_extractor.pypdf">>,
               <<"research.numerical_analysis", "blob_store.default">>}

(* A config file adds to what a command lists for itself, but for the        *)
(* novelty commands, which keep only the validator, and the other source of  *)
(* a literature search.                                                      *)
FileAdds ==
    phase \notin {"idle", "served", "exited"} /\ file.given =>
        \/ Commands[command].listed \subseteq Members
        \/ command \in {"run", "runtime_inspect"}
        \/ /\ command \in {"novelty_validate", "novelty_report", "novelty_revalidate",
                            "novelty_enrich", "novelty_gate", "novelty_inspect",
                            "literature_search_crossref", "literature_get_crossref",
                            "literature_search_semantic_scholar",
                            "literature_get_semantic_scholar"}
           /\ Commands[command].ensured \subseteq Members

\* Commands a script can use as a gate: a negative verdict fails them.
Gates == {"config_validate", "model_build", "equilibrium_derive", "publication_validate",
          "eval_run", "evaluation_calibration"}

(* The process ends with 0 when the work is done or parts of it are left out,*)
(* and with a negative verdict just when the command is no gate; whatever    *)
(* kept the work from being done ends it with 1.                             *)
ExitExactly ==
    phase = "exited" =>
        (code = 0 <=> \/ ended \in {"done", "partly"}
                      \/ ended = "negative" /\ command \notin Gates)

(* What a command gets of the composition it builds, and what its exit code  *)
(* says of it, under every config file of the run.                           *)
CommandsServed ==
    ComesUp /\ RefusedExactly /\ ServedExactly /\ MissedExactly /\ FileAdds /\ ExitExactly
=============================================================================
