SPECIFICATION Spec
CONSTANTS
    t1 = t1
    t2 = t2
    NoTask = NoTask
    Tasks = {t1, t2}
    Configs <- MCConfigs
    RetryAfters <- MCRetryAfters
    MaxBackoff = 4
INVARIANTS
    RetriesAsConfigured
PROPERTIES
    RequestsApart
    RestRespected
    CallsEnd
CHECK_DEADLOCK FALSE
