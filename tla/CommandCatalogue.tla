-------------------------- MODULE CommandCatalogue --------------------------
(***************************************************************************)
(* The commands of the command line (cli/main.py), one definition per      *)
(* command and named as its function: what each opens, the plugins it lists *)
(* for a runtime, the services it requires of it, and how its work may end  *)
(* with exit code 0 and with exit code 1.                                   *)
(*                                                                         *)
(* What a command does with the services is in the modules of the services; *)
(* what it prints is left out.                                              *)
(***************************************************************************)
EXTENDS PluginCatalogue

(* A command: what it opens, the plugins it lists for itself and those it    *)
(* appends when they are missing, the services it requires, and the ends of  *)
(* its work that pass (exit code 0) and that fail (exit code 1).             *)
OpensNothing ==
    [opens |-> "nothing", listed |-> {}, ensured |-> {}, needs |-> {},
     passes |-> {"done"}, fails |-> {}]

\* The database file is opened without a runtime.
_get_artifact_store == [OpensNothing EXCEPT !.opens = "store", !.fails = {"raised"}]

Composes(listed, ensured, needs) ==
    [opens |-> "runtime", listed |-> listed, ensured |-> ensured, needs |-> needs,
     passes |-> {"done"}, fails |-> {"raised"}]

\* It fails when what it is asked about does not exist.
LooksUp(c) == [c EXCEPT !.fails = @ \cup {"absent"}]

\* It fails when the artifact it makes or checks carries a negative verdict ...
Gates(c) == [c EXCEPT !.fails = @ \cup {"negative"}]

\* ... or prints the verdict and passes.
Reports(c) == [c EXCEPT !.passes = @ \cup {"negative"}]

\* It leaves out what raises, and passes.
Skips(c) == [c EXCEPT !.passes = @ \cup {"partly"}]

Sqlite == {"storage.artifacts_sqlite"}
Filesystem == {"storage.blobs_filesystem"}
Routed == {"model.openrouter", "routing.role_router"}
Sources == {"literature.crossref", "literature.semantic_scholar"}
Model == Routed \cup {"autonomy.configurable"}
Ingestion == {"literature.ingestion", "literature.identity_resolver"}

\* Most commands append all they list (_ensure_plugins).
_ensure_plugins(plugins, service) ==
    Composes(Sqlite \cup plugins, Sqlite \cup plugins, {service, Store})

\* A runtime to list artifacts of one type with, or to look one up.
Reads == _ensure_plugins({}, Store)
Shows == LooksUp(Reads)

-----------------------------------------------------------------------------
plugins_list == Skips([OpensNothing EXCEPT !.fails = {"raised"}])
plugins_inspect == LooksUp(OpensNothing)
config_validate == Gates(OpensNothing)
session_inspect == LooksUp(OpensNothing)
literature_sources == Skips(OpensNothing)
eval_coverage == OpensNothing
eval_readiness == OpensNothing
routing_policies_list == OpensNothing

Agent == Routed \cup {"session.jsonl", "autonomy.configurable", "tool.echo",
                      "loop.simple_tool_loop"}

\* The runtime is composed and ordered, and not started.
runtime_inspect == [Composes(Agent, {}, {}) EXCEPT !.opens = "order", !.fails = {}]
_run_async == Composes(Agent, {}, {"agent_loop.default"})

artifacts_list == _get_artifact_store
artifacts_inspect == LooksUp(_get_artifact_store)
artifacts_lineage == Skips(LooksUp(_get_artifact_store))
identities_list == _get_artifact_store
identities_inspect == Skips(LooksUp(_get_artifact_store))
screening_protocol_inspect == LooksUp(_get_artifact_store)
screening_protocol_approve == LooksUp(_get_artifact_store)
screening_decisions_list == LooksUp(_get_artifact_store)
screening_decisions_inspect == LooksUp(_get_artifact_store)
screening_sets_list == _get_artifact_store
screening_sets_inspect == LooksUp(_get_artifact_store)
screening_review == LooksUp(_get_artifact_store)
documents_list == _get_artifact_store
documents_inspect == Skips(LooksUp(_get_artifact_store))
documents_text == Reports(LooksUp(_get_artifact_store))

\* A search and a retrieval append the one source they were asked for.
literature_search(source) ==
    Composes(Sqlite \cup Sources \cup {"literature.ingestion"},
             Sqlite \cup {"literature.ingestion", source},
             {"literature_ingestor.default",
              IF source = "literature.crossref" THEN "literature_source.crossref"
                                                ELSE "literature_source.semantic_scholar"})
literature_get(source) == literature_search(source)
literature_plan ==
    _ensure_plugins({"literature.search_planner"} \cup Routed,
                    "literature_search_planner.default")
literature_execute ==
    [_ensure_plugins({"literature.search_orchestrator"} \cup Sources \cup Ingestion,
                     "literature_search_orchestrator.default")
       EXCEPT !.listed = Sqlite \cup {"literature.search_orchestrator"}]
literature_discover ==
    [_ensure_plugins({"literature.search_planner", "literature.search_orchestrator"}
                       \cup Sources \cup Ingestion,
                     "literature_search_orchestrator.default")
       EXCEPT !.needs = @ \cup {"literature_search_planner.default"}]

screening_protocol_create ==
    _ensure_plugins({"literature.screening_protocol_builder"} \cup Model,
                    "screening_protocol_builder.default")
screening_run ==
    _ensure_plugins({"literature.screening_view_builder",
                     "literature.title_abstract_screener",
                     "literature.screening_orchestrator"},
                    "screening_orchestrator.default")

Locators == {"documents.locator.metadata", "documents.locator.unpaywall"}
documents_locate == Skips(LooksUp(_ensure_plugins(Filesystem \cup Locators, Store)))
documents_acquire ==
    _ensure_plugins(Filesystem \cup Locators
                      \cup {"documents.fetcher.http", "documents.extractor.pypdf",
                            "documents.acquisition_orchestrator"},
                    "document_acquisition_orchestrator.default")
documents_run == documents_acquire
documents_import ==
    Reports(_ensure_plugins(Filesystem \cup {"documents.acquisition_orchestrator",
                                             "documents.extractor.pypdf"},
                            "document_acquisition_orchestrator.default"))


evidence_run ==
    _ensure_plugins(Filesystem \cup {"literature.evidence_extractor",
                                     "literature.evidence_orchestrator"} \cup Model,
                    "evidence_orchestrator.default")
evidence_profiles_list == Reads
evidence_profiles_inspect == Shows
evidence_items_list == Shows
evidence_items_inspect == Shows
synthesis_run ==
    _ensure_plugins({"literature.synthesis"} \cup Model, "literature_synthesizer.default")
synthesis_inspect == Shows
synthesis_themes_list == Shows
synthesis_themes_inspect == Shows
gaps_run ==
    _ensure_plugins({"literature.gap_analyzer"} \cup Model, "gap_analyzer.default")
gaps_list == Shows
gaps_inspect == Shows
gaps_analysis_inspect == Shows
research_gap_select ==
    Reports(_ensure_plugins({"research.gap_selection"} \cup Model, "gap_selection.default"))


mechanisms_generate ==
    _ensure_plugins({"research.mechanism_generator"} \cup Model, "mechanism_generator.default")
mechanisms_inspect == Shows
mechanisms_critique ==
    _ensure_plugins({"research.mechanism_critic"} \cup Model, "mechanism_critic.default")
mechanisms_select == mechanisms_critique
model_build ==
    Gates(_ensure_plugins({"research.model_builder"} \cup Model, "analytical_model_builder.default"))
model_inspect == Shows
model_critique ==
    _ensure_plugins({"research.model_builder", "research.model_specification_critic"}
                      \cup Model, "model_specification_critic.default")
model_revise == model_critique
equilibrium_derive ==
    Gates(_ensure_plugins({"research.equilibrium_verifier", "research.equilibrium_deriver"}
                            \cup Model, "equilibrium_deriver.default"))
equilibrium_inspect == Shows
equilibrium_verify ==
    Reports(_ensure_plugins({"research.equilibrium_verifier"}, "equilibrium_verifier.default"))
comparative_statics_run ==
    _ensure_plugins({"research.comparative_statics"}, "comparative_statics.default")
comparative_statics_inspect == Shows
propositions_generate ==
    _ensure_plugins({"research.proposition_verifier", "research.proposition_critic",
                     "research.proposition_generator"} \cup Model,
                    "proposition_generator.default")
propositions_inspect == Shows
propositions_verify ==
    Reports(_ensure_plugins({"research.proposition_verifier"}, "proposition_verifier.default"))
numerical_run ==
    _ensure_plugins({"research.numerical_analysis"}, "numerical_analysis.default")
numerical_inspect == Shows
numerical_results == Shows
numerical_robustness == Shows
numerical_welfare == Shows
results_assemble ==
    _ensure_plugins({"research.results_assembler"}, "results_assembler.default")
results_inspect == Shows
results_critique == _ensure_plugins({"research.results_critic"}, "results_critic.default")
findings_list == Shows
contributions_list == Shows

_manuscript_config(extra, service) == _ensure_plugins(extra, service)
manuscript_outline ==
    _manuscript_config({"research.manuscript_drafter"}, "manuscript_drafter.default")
manuscript_draft == Reports(manuscript_outline)
manuscript_inspect == LooksUp(_manuscript_config({}, Store))
manuscript_critique ==
    _manuscript_config({"research.manuscript_critic"}, "manuscript_critic.default")
manuscript_revise == manuscript_outline

_publication_config(extra, service) == _ensure_plugins(Filesystem \cup extra, service)
publication_format ==
    _publication_config({"research.publication_formatter"}, "publication_formatter.default")
publication_profile_create ==
    [publication_format EXCEPT !.needs = @ \ {Store}]
publication_validate == Gates(publication_format)
publication_export == publication_format
publication_package == Reports(publication_format)
publication_inspect == LooksUp(_publication_config({}, Store))

(* What a novelty command lists beyond the validator is dropped when there   *)
(* is a config file.                                                         *)
_novelty_config(extra) ==
    Composes(Sqlite \cup Ingestion \cup Sources \cup extra,
             Sqlite \cup Ingestion \cup {"research.novelty_validator"},
             {"novelty_validator.default", Store})
novelty_validate == Reports(_novelty_config({"research.novelty_validator"} \cup Sources))
novelty_report == novelty_validate
novelty_gate == Reports(_novelty_config({"research.novelty_validator"}))
novelty_revalidate == novelty_validate
novelty_enrich ==
    Reports(_novelty_config({"research.novelty_validator", "documents.locator.metadata",
                             "documents.fetcher.http", "documents.extractor.pypdf",
                             "literature.evidence_extractor"} \cup Sources \cup Filesystem))
novelty_inspect == LooksUp(_novelty_config({"research.novelty_validator"}))

\* Every evaluator is appended, also the two the harness does without.
_evaluation_config(extra, needs) ==
    LET appended == Sqlite \cup Ingestion \cup Routed \cup Filesystem \cup extra
                      \cup {"research.evaluation_harness", "evaluator.task_aware_routing",
                            "evaluator.evaluator_sanity"} \cup RequiredEvaluators
    IN  Composes(Sqlite \cup Ingestion \cup Routed \cup extra, appended, needs)
eval_run == Gates(_evaluation_config({}, {"evaluation_harness.default", Store}))
eval_inspect == LooksUp(_evaluation_config({}, {Store}))
eval_list == _evaluation_config({}, {Store})
evaluation_calibration == Gates(eval_list)

_tournament_config(needs) == _evaluation_config({"evaluation.model_tournament"}, needs)
tournament_run == _tournament_config({"model_tournament.default"})
tournament_inspect == LooksUp(_tournament_config({Store}))
leaderboard_list == _tournament_config({Store})
leaderboard_show == tournament_run
leaderboard_inspect == tournament_inspect

Routers == {"routing.policy_router", "routing.task_aware_router"}
_routing_config(extra, needs) == _evaluation_config(Routers \cup extra, needs)
routing_decide == _routing_config({}, {"policy_model_router.default"})
routing_shadow == routing_decide
routing_inspect == LooksUp(_routing_config({}, {Store}))

_live_quality_config(needs) == _routing_config({"evaluation.live_quality"}, needs)
live_quality_run == LooksUp(_live_quality_config({"live_quality.default"}))
live_quality_inspect == LooksUp(_live_quality_config({Store}))
routing_readiness == _live_quality_config({"live_quality.default"})
routing_preflight == routing_readiness
routing_qualify == Reports(routing_readiness)
routing_qualification_matrix == routing_readiness
routing_qualification_inspect == live_quality_inspect
routing_qualification_summary == _live_quality_config({Store})
routing_qualification_tasks == Skips(routing_readiness)
routing_qualification_remaining == routing_readiness
routing_qualify_task == routing_readiness
routing_capability_profile == routing_readiness
routing_shadow_task == _live_quality_config({"task_aware_router.default"})
routing_shadow_campaign == routing_shadow_task

-----------------------------------------------------------------------------
Commands ==
    [plugins_list |-> plugins_list,
     plugins_inspect |-> plugins_inspect,
     config_validate |-> config_validate,
     session_inspect |-> session_inspect,
     literature_sources |-> literature_sources,
     eval_coverage |-> eval_coverage, eval_readiness |-> eval_readiness,
     routing_policies_list |-> routing_policies_list,
     runtime_inspect |-> runtime_inspect, run |-> _run_async,
     artifacts_list |-> artifacts_list,
     artifacts_inspect |-> artifacts_inspect,
     artifacts_lineage |-> artifacts_lineage,
     identities_list |-> identities_list,
     identities_inspect |-> identities_inspect,
     screening_protocol_inspect |-> screening_protocol_inspect,
     screening_protocol_approve |-> screening_protocol_approve,
     screening_decisions_list |-> screening_decisions_list,
     screening_decisions_inspect |-> screening_decisions_inspect,
     screening_sets_list |-> screening_sets_list,
     screening_sets_inspect |-> screening_sets_inspect,
     screening_review |-> screening_review,
     documents_list |-> documents_list,
     documents_inspect |-> documents_inspect,
     documents_text |-> documents_text, literature_plan |-> literature_plan,
     literature_execute |-> literature_execute,
     literature_discover |-> literature_discover,
     screening_protocol_create |-> screening_protocol_create,
     screening_run |-> screening_run, documents_locate |-> documents_locate,
     documents_acquire |-> documents_acquire,
     documents_run |-> documents_run, documents_import |-> documents_import,
     evidence_run |-> evidence_run,
     evidence_profiles_list |-> evidence_profiles_list,
     evidence_profiles_inspect |-> evidence_profiles_inspect,
     evidence_items_list |-> evidence_items_list,
     evidence_items_inspect |-> evidence_items_inspect,
     synthesis_run |-> synthesis_run,
     synthesis_inspect |-> synthesis_inspect,
     synthesis_themes_list |-> synthesis_themes_list,
     synthesis_themes_inspect |-> synthesis_themes_inspect,
     gaps_run |-> gaps_run, gaps_list |-> gaps_list,
     gaps_inspect |-> gaps_inspect,
     gaps_analysis_inspect |-> gaps_analysis_inspect,
     research_gap_select |-> research_gap_select,
     mechanisms_generate |-> mechanisms_generate,
     mechanisms_inspect |-> mechanisms_inspect,
     mechanisms_critique |-> mechanisms_critique,
     mechanisms_select |-> mechanisms_select, model_build |-> model_build,
     model_inspect |-> model_inspect, model_critique |-> model_critique,
     model_revise |-> model_revise,
     equilibrium_derive |-> equilibrium_derive,
     equilibrium_inspect |-> equilibrium_inspect,
     equilibrium_verify |-> equilibrium_verify,
     comparative_statics_run |-> comparative_statics_run,
     comparative_statics_inspect |-> comparative_statics_inspect,
     propositions_generate |-> propositions_generate,
     propositions_inspect |-> propositions_inspect,
     propositions_verify |-> propositions_verify,
     numerical_run |-> numerical_run,
     numerical_inspect |-> numerical_inspect,
     numerical_results |-> numerical_results,
     numerical_robustness |-> numerical_robustness,
     numerical_welfare |-> numerical_welfare,
     results_assemble |-> results_assemble,
     results_inspect |-> results_inspect,
     results_critique |-> results_critique, findings_list |-> findings_list,
     contributions_list |-> contributions_list,
     manuscript_outline |-> manuscript_outline,
     manuscript_draft |-> manuscript_draft,
     manuscript_inspect |-> manuscript_inspect,
     manuscript_critique |-> manuscript_critique,
     manuscript_revise |-> manuscript_revise,
     publication_format |-> publication_format,
     publication_profile_create |-> publication_profile_create,
     publication_validate |-> publication_validate,
     publication_export |-> publication_export,
     publication_package |-> publication_package,
     publication_inspect |-> publication_inspect,
     novelty_validate |-> novelty_validate,
     novelty_report |-> novelty_report, novelty_gate |-> novelty_gate,
     novelty_revalidate |-> novelty_revalidate,
     novelty_enrich |-> novelty_enrich, novelty_inspect |-> novelty_inspect,
     eval_run |-> eval_run, eval_inspect |-> eval_inspect,
     eval_list |-> eval_list,
     evaluation_calibration |-> evaluation_calibration,
     tournament_run |-> tournament_run,
     tournament_inspect |-> tournament_inspect,
     leaderboard_list |-> leaderboard_list,
     leaderboard_show |-> leaderboard_show,
     leaderboard_inspect |-> leaderboard_inspect,
     routing_decide |-> routing_decide, routing_shadow |-> routing_shadow,
     routing_inspect |-> routing_inspect,
     live_quality_run |-> live_quality_run,
     live_quality_inspect |-> live_quality_inspect,
     routing_readiness |-> routing_readiness,
     routing_preflight |-> routing_preflight,
     routing_qualify |-> routing_qualify,
     routing_qualification_matrix |-> routing_qualification_matrix,
     routing_qualification_inspect |-> routing_qualification_inspect,
     routing_qualification_summary |-> routing_qualification_summary,
     routing_qualification_tasks |-> routing_qualification_tasks,
     routing_qualification_remaining |-> routing_qualification_remaining,
     routing_qualify_task |-> routing_qualify_task,
     routing_capability_profile |-> routing_capability_profile,
     routing_shadow_task |-> routing_shadow_task,
     routing_shadow_campaign |-> routing_shadow_campaign,
     literature_search_crossref |-> literature_search("literature.crossref"),
     literature_get_crossref |-> literature_get("literature.crossref"),
     literature_search_semantic_scholar |-> literature_search("literature.semantic_scholar"),
     literature_get_semantic_scholar |-> literature_get("literature.semantic_scholar")]
=============================================================================
