------------------------- MODULE MCPluginLifecycle -------------------------
(* Four plugins with required and optional services, the optional ones      *)
(* closing a cycle when all of them are registered, and a rival of one of   *)
(* them; and the document plugins of the default composition.               *)
EXTENDS PluginLifecycle, TLC

MCPlugins == 1 .. 5
MCServices == {"a", "b", "c", "d"}
MCProvides == <<{"a"}, {"b"}, {"c"}, {"d"}, {"d"}>>
MCRequires == <<{"c"}, {"a"}, {}, {}, {}>>
MCOptional == <<{}, {"d"}, {"b"}, {"a"}, {}>>
MCTryGets == <<{}, {"d"}, {"b"}, {"a"}, {}>>
MCSubscribers == {2, 4}

\* documents.acquisition_orchestrator, documents.extractor.pypdf,
\* documents.fetcher.http, storage.artifacts_sqlite, storage.blobs_filesystem.
DocPlugins == 1 .. 5
DocServices == {"acquisition", "extractor", "fetcher", "artifacts", "blobs"}
DocProvides == <<{"acquisition"}, {"extractor"}, {"fetcher"}, {"artifacts"}, {"blobs"}>>
DocRequires == <<{"artifacts", "blobs"}, {"artifacts", "blobs"},
                 {"artifacts", "blobs"}, {}, {}>>
DocOptional == <<{}, {}, {}, {}, {}>>
DocTryGets == <<{"extractor", "fetcher"}, {}, {}, {}, {}>>
=============================================================================
