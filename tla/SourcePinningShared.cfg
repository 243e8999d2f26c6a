CONSTANTS
    None = None
    Order <- MCOrder
    Watched = {"driver", "openvino"}
    External = {"reference"}
    Links <- MCShared
    Shapes <- MCSharedShapes
    Apis <- MCApis
    CompanionTrees <- NoTrees
    Flaws = {"config"}
    CloneFlaws = {"config"}
    HandErrors = {"draft"}
    MaxVersion = 2
    MaxMishaps = 0
    MaxDispatches = 1
SPECIFICATION Spec
INVARIANT PreparedIsBuildable
