SPECIFICATION Spec
CONSTANTS
    NoPlugin = NoPlugin
    Plugins <- MCPlugins
    Services <- MCServices
    Provides <- MCProvides
    Requires <- MCRequires
    Optional <- MCOptional
    TryGets <- MCTryGets
    Subscribers <- MCSubscribers
    Faults = {"setup", "start"}
    MaxCancels = 1
INVARIANTS
    NothingLeftBehind
    StartedWithAll
PROPERTIES
    StoppedInOrder
