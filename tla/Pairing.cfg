\* Two licenses of which any may be paired first, two pairings, limits scaled
\* down but in the proportions of the code.
CONSTANTS
    Licenses = {l1, l2}
    NoLicense = NoLicense
    PollAttempts = 2
    FastAttempts = 1
    FastInterval = 1
    SlowInterval = 2
    ValidationTimeout = 4
    MaxDuration = 1
    MaxPairings = 2
    MaxVersion = 1
SPECIFICATION FairSpec
INVARIANTS
    TypeOK
    ValidationUsesItsTime
    EntriesKeepAccounts
    SetupHasItsPayload
PROPERTIES
    PairingEnds
    ViewsCatchUp
