CONSTANTS
    r1 = r1
    r2 = r2
    None = None
    sums = sums
    archive = archive
    Runs = {r1, r2}
    Assets = {sums, archive}
    Sums = sums
    MaxVersion = 2
    Size <- MCSize
    Reserve = 1
    MaxSite = 1
    MaxReleases = 2
    MaxLandings = 3
    MaxFailures = 2
    MaxManual = 2
    ManualKinds = {}
SPECIFICATION FairSpec
INVARIANTS
    PublicFitsPages
PROPERTIES
    PublicBecomesLive
\* No run may be left to dispatch and no change to land.
CHECK_DEADLOCK FALSE
