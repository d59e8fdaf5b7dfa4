-------------------------- MODULE PluginCatalogue --------------------------
(***************************************************************************)
(* The built-in plugins (plugins/registry.py), one definition per plugin   *)
(* class: the services its metadata names, the services its setup registers *)
(* and looks up, and those it looks up at its first use.                    *)
(***************************************************************************)
EXTENDS Integers, Sequences, FiniteSets

Store == "artifact_store.default"
Blobs == "blob_store.default"
Router == "model_router.default"
Provider == "model_provider.openrouter"

\* A plugin of one service whose setup binds what its metadata requires.
Plugin(id, service, requires) ==
    [id |-> id, provides |-> {service}, registers |-> {service},
     requires |-> requires, optional |-> {}, binds |-> requires, tries |-> {},
     later |-> {}]

\* Its metadata names optional services, its setup calls try_get for some.
Looking(p, optional, tries) == [p EXCEPT !.optional = optional, !.tries = tries]

\* Some services are looked up when a call needs them and not in setup.
LookingLater(p, services) == [p EXCEPT !.binds = @ \ services, !.later = services]

Evaluator(id) == Plugin(id, id, {})

\* The services the publication formatter registers for its exporters.
Exporters == {"manuscript_exporter.markdown", "manuscript_exporter.latex",
              "manuscript_exporter.docx", "manuscript_exporter.pdf"}

\* The evaluators without which the evaluation harness is not set up.
RequiredEvaluators ==
    {"evaluator.deterministic", "evaluator.retrieval",
     "evaluator.claim_grounding", "evaluator.citation_correctness",
     "evaluator.llm_judge", "evaluator.screening", "evaluator.evidence",
     "evaluator.gap_analysis", "evaluator.mechanism", "evaluator.equilibrium",
     "evaluator.numerical", "evaluator.comparative_statics",
     "evaluator.proposition", "evaluator.results_grounding",
     "evaluator.manuscript_grounding", "evaluator.pipeline_integrity",
     "evaluator.synthesis", "evaluator.model_specification",
     "evaluator.document_acquisition", "evaluator.revalidation",
     "evaluator.identity_resolution", "evaluator.gap_selection",
     "evaluator.novelty_revalidation", "evaluator.publication_packaging",
     "evaluator.evidence_enrichment", "evaluator.model_routing",
     "evaluator.live_quality_reasoning", "evaluator.live_quality_critic",
     "evaluator.live_quality_fast", "evaluator.routing_readiness",
     "evaluator.model_qualification", "evaluator.task_model_qualification"}

-----------------------------------------------------------------------------
ConfigurableAutonomyPlugin ==
    Plugin("autonomy.configurable", "autonomy_policy.default", {})
DocumentAcquisitionOrchestratorPlugin ==
    Looking(Plugin("documents.acquisition_orchestrator",
                   "document_acquisition_orchestrator.default",
                   {Store, Blobs}), {},
            {"document_fetcher.default", "document_extractor.pypdf",
             "document_locator.metadata", "document_locator.unpaywall"})
PypdfExtractorPlugin ==
    Plugin("documents.extractor.pypdf", "document_extractor.pypdf",
           {Store, Blobs})
HttpFetcherPlugin ==
    Plugin("documents.fetcher.http", "document_fetcher.default",
           {Store, Blobs})
MetadataLocatorPlugin ==
    Plugin("documents.locator.metadata", "document_locator.metadata", {Store})
UnpaywallLocatorPlugin ==
    Plugin("documents.locator.unpaywall", "document_locator.unpaywall",
           {Store})
LiveQualityPlugin ==
    LookingLater(Plugin("evaluation.live_quality", "live_quality.default",
                        {"evaluation_harness.default", Store, Router,
                         Provider}), {Provider})
ModelTournamentPlugin ==
    LookingLater(Plugin("evaluation.model_tournament",
                        "model_tournament.default",
                        {"evaluation_harness.default", Store, Router,
                         Provider}), {Provider})
CitationCorrectnessEvaluatorPlugin ==
    Evaluator("evaluator.citation_correctness")
ClaimGroundingEvaluatorPlugin ==
    Plugin("evaluator.claim_grounding", "evaluator.claim_grounding", {Router})
ComparativeStaticsEvaluatorPlugin ==
    Evaluator("evaluator.comparative_statics")
DeterministicEvaluatorPlugin == Evaluator("evaluator.deterministic")
DocumentAcquisitionEvaluatorPlugin ==
    Evaluator("evaluator.document_acquisition")
EquilibriumEvaluatorPlugin == Evaluator("evaluator.equilibrium")
EvaluatorSanityEvaluatorPlugin == Evaluator("evaluator.evaluator_sanity")
EvidenceEvaluatorPlugin == Evaluator("evaluator.evidence")
EvidenceEnrichmentEvaluatorPlugin ==
    Evaluator("evaluator.evidence_enrichment")
GapAnalysisEvaluatorPlugin == Evaluator("evaluator.gap_analysis")
GapSelectionEvaluatorPlugin == Evaluator("evaluator.gap_selection")
IdentityResolutionEvaluatorPlugin ==
    Evaluator("evaluator.identity_resolution")
LiveQualityCriticEvaluatorPlugin == Evaluator("evaluator.live_quality_critic")
LiveQualityFastEvaluatorPlugin == Evaluator("evaluator.live_quality_fast")
LiveQualityReasoningEvaluatorPlugin ==
    Evaluator("evaluator.live_quality_reasoning")
LlmJudgeEvaluatorPlugin ==
    Plugin("evaluator.llm_judge", "evaluator.llm_judge", {Router})
ManuscriptGroundingEvaluatorPlugin ==
    Evaluator("evaluator.manuscript_grounding")
MechanismEvaluatorPlugin == Evaluator("evaluator.mechanism")
ModelQualificationEvaluatorPlugin ==
    Evaluator("evaluator.model_qualification")
ModelRoutingEvaluatorPlugin == Evaluator("evaluator.model_routing")
ModelSpecificationEvaluatorPlugin ==
    Evaluator("evaluator.model_specification")
NoveltyRevalidationEvaluatorPlugin ==
    Evaluator("evaluator.novelty_revalidation")
NumericalEvaluatorPlugin == Evaluator("evaluator.numerical")
PipelineIntegrityEvaluatorPlugin == Evaluator("evaluator.pipeline_integrity")
PropositionEvaluatorPlugin == Evaluator("evaluator.proposition")
PublicationPackagingEvaluatorPlugin ==
    Evaluator("evaluator.publication_packaging")
ResultsGroundingEvaluatorPlugin == Evaluator("evaluator.results_grounding")
RetrievalEvaluatorPlugin == Evaluator("evaluator.retrieval")
RevalidationEvaluatorPlugin == Evaluator("evaluator.revalidation")
RoutingReadinessEvaluatorPlugin == Evaluator("evaluator.routing_readiness")
ScreeningEvaluatorPlugin == Evaluator("evaluator.screening")
SynthesisEvaluatorPlugin == Evaluator("evaluator.synthesis")
TaskAwareRoutingEvaluatorPlugin == Evaluator("evaluator.task_aware_routing")
TaskModelQualificationEvaluatorPlugin ==
    Evaluator("evaluator.task_model_qualification")
CrossrefPlugin ==
    Plugin("literature.crossref", "literature_source.crossref", {})
EvidenceExtractorPlugin ==
    Plugin("literature.evidence_extractor", "evidence_extractor.default",
           {Router, Store, Blobs})
EvidenceOrchestratorPlugin ==
    Plugin("literature.evidence_orchestrator",
           "evidence_orchestrator.default",
           {"evidence_extractor.default", Store, Blobs})
GapAnalyzerPlugin ==
    Plugin("literature.gap_analyzer", "gap_analyzer.default", {Router, Store})
PaperIdentityResolverPlugin ==
    Plugin("literature.identity_resolver", "paper_identity_resolver.default",
           {Store})
LiteratureIngestionPlugin ==
    Plugin("literature.ingestion", "literature_ingestor.default", {Store})
ScreeningOrchestratorPlugin ==
    Looking(Plugin("literature.screening_orchestrator",
                   "screening_orchestrator.default",
                   {Store, "screening_view_builder.default",
                    "title_abstract_screener.default"}), {},
            {"autonomy_policy.default"})
ScreeningProtocolBuilderPlugin ==
    Plugin("literature.screening_protocol_builder",
           "screening_protocol_builder.default",
           {Router, Store, "autonomy_policy.default"})
ScreeningViewBuilderPlugin ==
    Plugin("literature.screening_view_builder",
           "screening_view_builder.default", {Store})
LiteratureSearchOrchestratorPlugin ==
    LookingLater(Plugin("literature.search_orchestrator",
                        "literature_search_orchestrator.default",
                        {Store, "literature_ingestor.default"}),
                 {"literature_source.crossref",
                  "literature_source.semantic_scholar",
                  "paper_identity_resolver.default"})
LiteratureSearchPlannerPlugin ==
    Plugin("literature.search_planner", "literature_search_planner.default",
           {Router, Store})
SemanticScholarPlugin ==
    Plugin("literature.semantic_scholar",
           "literature_source.semantic_scholar", {})
LiteratureSynthesisPlugin ==
    Plugin("literature.synthesis", "literature_synthesizer.default",
           {Router, Store})
TitleAbstractScreenerPlugin ==
    Plugin("literature.title_abstract_screener",
           "title_abstract_screener.default", {Router, Store})
SimpleToolLoopPlugin ==
    LookingLater(Looking(Plugin("loop.simple_tool_loop", "agent_loop.default",
                                {Router}),
                         {"tool.echo", "session_store.default"},
                         {"session_store.default"}), {Router, "tool.echo"})
OpenRouterPlugin == Plugin("model.openrouter", Provider, {})
ComparativeStaticsPlugin ==
    Plugin("research.comparative_statics", "comparative_statics.default",
           {Store})
EquilibriumDeriverPlugin ==
    Plugin("research.equilibrium_deriver", "equilibrium_deriver.default",
           {Router, Store, "equilibrium_verifier.default"})
EquilibriumVerifierPlugin ==
    Plugin("research.equilibrium_verifier", "equilibrium_verifier.default",
           {Store})
EvaluationHarnessPlugin ==
    Looking(Plugin("research.evaluation_harness", "evaluation_harness.default",
                   {Store, "literature_ingestor.default",
                    "paper_identity_resolver.default"} \cup RequiredEvaluators),
            {Blobs}, {"evaluator.evaluator_sanity", "evaluator.task_aware_routing", Blobs})
GapSelectionPlugin ==
    Plugin("research.gap_selection", "gap_selection.default",
           {Router, Store, "autonomy_policy.default"})
ManuscriptCriticPlugin ==
    Plugin("research.manuscript_critic", "manuscript_critic.default",
           {Router, Store})
ManuscriptDrafterPlugin ==
    Plugin("research.manuscript_drafter", "manuscript_drafter.default",
           {Router, Store})
MechanismCriticPlugin ==
    Plugin("research.mechanism_critic", "mechanism_critic.default",
           {Router, Store})
MechanismGeneratorPlugin ==
    Plugin("research.mechanism_generator", "mechanism_generator.default",
           {Router, Store})
ModelBuilderPlugin ==
    Plugin("research.model_builder", "analytical_model_builder.default",
           {Router, Store})
ModelSpecificationCriticPlugin ==
    Plugin("research.model_specification_critic",
           "model_specification_critic.default",
           {Router, Store, "analytical_model_builder.default"})
NoveltyValidatorPlugin ==
    LookingLater(Looking(Plugin("research.novelty_validator",
                                "novelty_validator.default",
                                {Router, Store, "literature_ingestor.default",
                                 "paper_identity_resolver.default"}),
                         {Blobs, "document_locator.metadata",
                          "document_locator.unpaywall",
                          "document_fetcher.default",
                          "document_extractor.pypdf",
                          "evidence_extractor.default"}, {Blobs}),
                 {"literature_source.crossref",
                  "literature_source.semantic_scholar",
                  "document_locator.metadata", "document_locator.unpaywall",
                  "document_fetcher.default", "document_extractor.pypdf",
                  "evidence_extractor.default"})
NumericalAnalysisPlugin ==
    Looking(Plugin("research.numerical_analysis",
                   "numerical_analysis.default", {Store}), {}, {Blobs})
PropositionCriticPlugin ==
    Plugin("research.proposition_critic", "proposition_critic.default",
           {Router, Store})
PropositionGeneratorPlugin ==
    Plugin("research.proposition_generator", "proposition_generator.default",
           {Router, Store, "proposition_verifier.default",
            "proposition_critic.default"})
PropositionVerifierPlugin ==
    Plugin("research.proposition_verifier", "proposition_verifier.default",
           {Store})
PublicationFormatterPlugin ==
    [Plugin("research.publication_formatter", "publication_formatter.default",
            {Router, Store, Blobs}) EXCEPT !.registers = @ \cup Exporters]
ResultsAssemblerPlugin ==
    Plugin("research.results_assembler", "results_assembler.default",
           {Router, Store})
ResultsCriticPlugin ==
    Plugin("research.results_critic", "results_critic.default",
           {Router, Store})
PolicyModelRouterPlugin ==
    LookingLater(Plugin("routing.policy_router",
                        "policy_model_router.default", {Store, Provider}),
                 {Provider})
RoleRouterPlugin ==
    LookingLater(Plugin("routing.role_router", Router, {Provider}),
                 {Provider})
TaskAwareRouterPlugin ==
    Plugin("routing.task_aware_router", "task_aware_router.default", {Store})
JsonlSessionPlugin == Plugin("session.jsonl", "session_store.default", {})
ArtifactsSqlitePlugin == Plugin("storage.artifacts_sqlite", Store, {})
BlobsFilesystemPlugin == Plugin("storage.blobs_filesystem", Blobs, {})
EchoToolPlugin == Plugin("tool.echo", "tool.echo", {})

-----------------------------------------------------------------------------
(* All of them, sorted by id: a plugin's place is its number for PluginOrder. *)
Catalogue ==
  <<ConfigurableAutonomyPlugin, DocumentAcquisitionOrchestratorPlugin,
    PypdfExtractorPlugin, HttpFetcherPlugin, MetadataLocatorPlugin,
    UnpaywallLocatorPlugin, LiveQualityPlugin, ModelTournamentPlugin,
    CitationCorrectnessEvaluatorPlugin, ClaimGroundingEvaluatorPlugin,
    ComparativeStaticsEvaluatorPlugin, DeterministicEvaluatorPlugin,
    DocumentAcquisitionEvaluatorPlugin, EquilibriumEvaluatorPlugin,
    EvaluatorSanityEvaluatorPlugin, EvidenceEvaluatorPlugin,
    EvidenceEnrichmentEvaluatorPlugin, GapAnalysisEvaluatorPlugin,
    GapSelectionEvaluatorPlugin, IdentityResolutionEvaluatorPlugin,
    LiveQualityCriticEvaluatorPlugin, LiveQualityFastEvaluatorPlugin,
    LiveQualityReasoningEvaluatorPlugin, LlmJudgeEvaluatorPlugin,
    ManuscriptGroundingEvaluatorPlugin, MechanismEvaluatorPlugin,
    ModelQualificationEvaluatorPlugin, ModelRoutingEvaluatorPlugin,
    ModelSpecificationEvaluatorPlugin, NoveltyRevalidationEvaluatorPlugin,
    NumericalEvaluatorPlugin, PipelineIntegrityEvaluatorPlugin,
    PropositionEvaluatorPlugin, PublicationPackagingEvaluatorPlugin,
    ResultsGroundingEvaluatorPlugin, RetrievalEvaluatorPlugin,
    RevalidationEvaluatorPlugin, RoutingReadinessEvaluatorPlugin,
    ScreeningEvaluatorPlugin, SynthesisEvaluatorPlugin,
    TaskAwareRoutingEvaluatorPlugin, TaskModelQualificationEvaluatorPlugin,
    CrossrefPlugin, EvidenceExtractorPlugin, EvidenceOrchestratorPlugin,
    GapAnalyzerPlugin, PaperIdentityResolverPlugin,
    LiteratureIngestionPlugin, ScreeningOrchestratorPlugin,
    ScreeningProtocolBuilderPlugin, ScreeningViewBuilderPlugin,
    LiteratureSearchOrchestratorPlugin, LiteratureSearchPlannerPlugin,
    SemanticScholarPlugin, LiteratureSynthesisPlugin,
    TitleAbstractScreenerPlugin, SimpleToolLoopPlugin, OpenRouterPlugin,
    ComparativeStaticsPlugin, EquilibriumDeriverPlugin,
    EquilibriumVerifierPlugin, EvaluationHarnessPlugin, GapSelectionPlugin,
    ManuscriptCriticPlugin, ManuscriptDrafterPlugin, MechanismCriticPlugin,
    MechanismGeneratorPlugin, ModelBuilderPlugin,
    ModelSpecificationCriticPlugin, NoveltyValidatorPlugin,
    NumericalAnalysisPlugin, PropositionCriticPlugin,
    PropositionGeneratorPlugin, PropositionVerifierPlugin,
    PublicationFormatterPlugin, ResultsAssemblerPlugin, ResultsCriticPlugin,
    PolicyModelRouterPlugin, RoleRouterPlugin, TaskAwareRouterPlugin,
    JsonlSessionPlugin, ArtifactsSqlitePlugin, BlobsFilesystemPlugin,
    EchoToolPlugin>>
=============================================================================
