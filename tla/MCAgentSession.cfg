SPECIFICATION Spec
CONSTANTS
    r1 = r1
    r2 = r2
    r3 = r3
    r4 = r4
    shared = shared
    unknown = unknown
    new1 = new1
    new2 = new2
    new3 = new3
    new4 = new4
    NoSession = NoSession
    Torn = Torn
    Garbled = Garbled
    Runs = {r1, r2, r3, r4}
    Sessions = {shared, unknown, new1, new2, new3, new4}
    Existing = {shared}
    Given <- MCGiven
    Fresh <- MCFresh
    Settings <- MCSettings
INVARIANTS
    ConversationSound
    TrajectoryComplete
PROPERTIES
    HistoryKept
    RunsEnd
CHECK_DEADLOCK FALSE
