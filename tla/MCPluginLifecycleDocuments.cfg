SPECIFICATION Spec
CONSTANTS
    NoPlugin = NoPlugin
    Plugins <- DocPlugins
    Services <- DocServices
    Provides <- DocProvides
    Requires <- DocRequires
    Optional <- DocOptional
    TryGets <- DocTryGets
    Subscribers = {}
    Faults = {}
    MaxCancels = 0
INVARIANTS
    TryGetFinds
