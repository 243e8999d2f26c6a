CONSTANTS
    None = None
    Order <- MCOrder
    Watched = {"driver", "openvino"}
    External = {"reference"}
    Links <- MCLinks
    Shapes <- MCShapes
    Flaws = {"config", "origin", "lfs", "tar"}
    CloneFlaws = {"config", "lfs"}
    HandErrors = {"links", "object"}
    MaxVersion = 2
    Apis <- MCApis
    CompanionTrees <- MCTrees
    MaxMishaps = 1
    MaxDispatches = 2
SPECIFICATION Spec
INVARIANTS
    TypeOK
    NoDuplicateIssue
    PreparedBundles
    BundleIsWhole
    BundleIsClosed
PROPERTIES
    NewerIsTracked
