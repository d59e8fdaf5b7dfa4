SPECIFICATION MCSpec
CONSTANTS
    w1 = w1
    w2 = w2
    w3 = w3
    r1 = r1
    x1 = x1
    d1 = d1
    d2 = d2
    Writers = {w1, w2, w3}
    Readers = {r1}
    Deleters = {x1}
    Digests = {d1, d2}
    Dir <- SameDir
    MaxCalls = 4
    MaxDeaths = 1
    CandidateLists <- MCCandidateLists
    Answers <- MCAnswers
    MaxModelCalls = 1
    ReviewUncertain = TRUE
    ReviewLow = TRUE
    MaxReviews = 1
    Papers <- MCPapers
    Identifiers <- MCIdentifiers
    Unreadable <- MCUnreadable
    Gaps <- MCGaps
    Proposals <- MCProposals
    Definitions <- MCDefinitions
    Evaluators <- MCEvaluators
    Documents <- MCDocuments
    PagesPerChunk = 2
    MaxChunks = 2
    MaxChunkCalls = 2
    Extractions <- MCExtractions
    Strategies <- MCStrategies
    Pages <- MCPages
    MaxQueries = 2
    MaxRequests = 3
    MaxPapers = 4
    MaxPages = 2
    Versions <- MCClaims
    Similar <- MCSimilar
    PriorArt <- MCPriorArt
    Policies = {1, 2}
    ClaimLimits = {0}
    Relationships = {"strong", "distinct"}
    Ready = {1, 2}
    Conditions <- MCConditions
    Verdicts <- MCVerdicts
    Results <- MCResults
    Contradicted <- MCContradicted
    Literature <- MCLiterature
    AssemblerAnswers <- MCAssemblerAnswers
    MaxFindings = 2
    MaxAttempts = 2
    Specs <- MCSpecs
    Wanted <- MCWanted
    SectionAnswers <- MCSectionAnswers
    Faults <- MCFaults
    MaxRetries = 0
    MaxSectionCalls = 3
    Drafts <- MCDrafts
    Profiles <- MCProfiles
    Formats <- MCFormats
INVARIANTS
    ResolvedTogether
    ScreenedAsDecided
    SearchAccountedFor
    DocumentsAccounted
    EvidenceAccountedFor
    SynthesisGrounded
    ReadyIsEarned
    MechanismsEarned
    ClaimsRestOnVerified
    ReportsAreWhole
    QualifiedOnMerit
    DraftsFollow
    SubmittedWhole
    BlobsWhole
    ReferencesResolve
    NoTempLeft
PROPERTIES
    ArtifactsStand
CHECK_DEADLOCK FALSE
