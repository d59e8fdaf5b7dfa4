SPECIFICATION PublicationSpec
CONSTANTS
    Drafts <- MCDrafts
    Profiles <- MCProfiles
    Formats <- MCFormats
    MaxCalls = 3
    MaxDeaths = 1
INVARIANT
    BibliographyCovers
CHECK_DEADLOCK FALSE
