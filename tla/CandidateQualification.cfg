CONSTANTS
    firmware = firmware
    plugin = plugin
    runtime = runtime
    fwPackage = fwPackage
    ovPackage = ovPackage
    conflict = conflict
    fwFile = fwFile
    ovFile = ovFile
    p1 = p1
    p2 = p2
    Capabilities <- MCCapabilities
    Package <- MCPackage
    Files <- MCFiles
    Conflicts = {conflict}
    Reboot = {firmware, plugin}
    Firmware = firmware
    Profiles = {p1, p2}
    Kernels = {0, 1, 2}
    Iterations = 2
    MaxBusy = 2
    Mending = TRUE
    MaxEarly = 1
    MaxLate = 1
    None = None
    openvino = openvino
    plugins = plugins
    first = first
    second = second
    Meta = meta
    Tools = tools
    Driver = driver
    Blob = blob
    Runtime = openvino
    Family <- MCFamily
    Builds = 2
    Shelf <- MCShelf
    Releases = {0, 1, 2}
    Target = 0
    MaxEdits = 2
    MaxRuns = 2
SPECIFICATION QualificationSpec
INVARIANTS QualificationTypeOK ExitZeroWasEarned HealthyExitsZero
    PublishedIsSound GatesAreExact ValidatorIsExact
PROPERTIES OutputsAreKept CollectedIsPinned SessionEnds
