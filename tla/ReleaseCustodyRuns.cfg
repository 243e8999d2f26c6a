CONSTANTS
    None = None
    Flaws <- MCFlaws
    Sizes <- MCSizes
    SignatureSizes <- MCSignatureSizes
    Budget = 10
    SignatureLimit = 2
    SumsBytes = 1
    MaxFailures = 1
    MaxDamage = 1
    MaxReruns = 1
    MaxDeletes = 1
SPECIFICATION Spec
INVARIANTS
    KeyOnlyInWindow
    ApprovalIsForVerified
    PublishedIsVerified
PROPERTIES
    FlawlessIsNotRefused
    NothingSignedAfterAttest
    ComesToRest
