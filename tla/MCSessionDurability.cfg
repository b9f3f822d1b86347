SPECIFICATION SessionSpec
CONSTANTS
    PageTokens = 2
    MaxContext = 3
    MaxGeneration = 2
    MaxTurns = 2
INVARIANTS
    SessionTypeOK
    RecoveryDecides
    ManifestHasTier
    CommittedTokensSurvive
    PublishedStays
