---------------------------- MODULE MCAlgorithms ----------------------------
(* The sequential algorithms, one per behaviour: the topological sort over  *)
(* every dependency graph of four plugins, and the lineage walk over all    *)
(* files of at most three links among four artifacts, some with two         *)
(* relations, a diamond, a cycle with a tail and a tree whose branches      *)
(* differ in depth.  And the command line: every command without a config   *)
(* file, with the example file (all plugins but two), with the example file *)
(* with a literature source disabled, and with files that list nothing, the *)
(* storage only, the provider only, the router only and both of these.      *)
EXTENDS KahnSort, LineageWalk, CommandCatalogue, TLC, FiniteSetsExt

VARIABLES
    task,       \* which algorithm runs
    phase, command, file, composition, awaits, preferring, setupOrder, at, registry, missed,
    ended, code

\* configs/example.yaml lists all plugins but the ones of task-aware routing.
Example ==
    {Catalogue[p].id : p \in DOMAIN Catalogue}
      \ {"evaluator.task_aware_routing", "routing.task_aware_router"}

Config(plugins, disabled) == [given |-> TRUE, plugins |-> plugins, disabled |-> disabled]
Configs ==
    {Config(plugins, {}) : plugins \in
        {Example, {}, {"storage.artifacts_sqlite"}, {"model.openrouter"},
         {"routing.role_router"}, {"model.openrouter", "routing.role_router"}}}
      \cup {Config(Example, {"literature.crossref"})}
      \cup {[given |-> FALSE, plugins |-> {}, disabled |-> {}]}

Line == INSTANCE CommandLine
          WITH Files <- Configs, graph <- awaits, order <- setupOrder

\* The catalogue is what the theorem on command lines assumes it to be.
ASSUME BuiltInsSound == Line!CatalogueSound

\* And no plugin names as optional what it provides, as the theorems on the
\* plugin manager assume.
ASSUME NoSelfOptional ==
    \A p \in DOMAIN Catalogue : Catalogue[p].optional \cap Catalogue[p].provides = {}

lineVars ==
    <<phase, command, file, composition, awaits, preferring, setupOrder, at, registry, missed,
      ended, code>>
mcVars == <<task, vars, sortVars, lineVars>>

Derived(edges) == {[src |-> e[1], tgt |-> e[2], rel |-> "derived_from"] : e \in edges}

Diamond == {<<1, 2>>, <<1, 3>>, <<2, 4>>, <<3, 4>>, <<4, 5>>}
CycleWithTail == {<<1, 2>>, <<2, 3>>, <<3, 4>>, <<4, 1>>, <<3, 5>>}
Tree == {<<1, 2>>, <<1, 3>>, <<2, 4>>, <<4, 5>>, <<3, 6>>}

Files ==
    {Derived(edges) : edges \in
        UNION {kSubset(k, {e \in (1 .. 4) \X (1 .. 4) : e[1] # e[2]}) : k \in 0 .. 3}
          \cup {Diamond, CycleWithTail, Tree}}
      \cup SUBSET [src : {1}, tgt : {2, 3}, rel : {"derived_from", "supersedes"}]

NoSort == graph = [p \in Nodes |-> {}] /\ SortInit

NoWalk ==
    /\ links = {} /\ direction = "ancestors" /\ start = 1
    /\ visited = {1} /\ queue = <<>> /\ rows = {} /\ result = <<>>

MCInit ==
    /\ Line!LineInit
    /\ \/ task = "sort" /\ SortInit /\ NoWalk
       \/ task = "walk" /\ links \in Files /\ Init /\ NoSort
       \/ task = "command" /\ NoSort /\ NoWalk

MCNext ==
    \/ task = "sort" /\ Place /\ UNCHANGED <<task, vars, lineVars>>
    \/ task = "walk" /\ Next /\ UNCHANGED <<task, sortVars, lineVars>>
    \/ task = "command" /\ Line!LineNext /\ UNCHANGED <<task, vars, sortVars>>

MCSpec == MCInit /\ [][MCNext]_mcVars /\ WF_mcVars(MCNext)

(* What a command gets of the composition it builds: a runtime that comes   *)
(* up, or a refusal exactly where the composition is incomplete; its        *)
(* services, but for two exceptions; the lookups that find nothing; a       *)
(* config file that only adds, but for the novelty commands; and an exit    *)
(* code that tells whether the work was done.  That some commands list no   *)
(* router is left to DefaultsSuffice (CommandLine).                         *)
CommandsServed == task = "command" => Line!CommandsServed

(* Without a config file every command has what it needs (cli/main.py:484). *)
DefaultsSuffice == task = "command" => Line!DefaultsSuffice
=============================================================================
