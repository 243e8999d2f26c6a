CONSTANTS
    firmware = firmware
    plugin = plugin
    runtime = runtime
    fwPackage = fwPackage
    ovPackage = ovPackage
    conflict = conflict
    fwFile = fwFile
    ovFile = ovFile
    p1 = p1
    p2 = p2
    Capabilities <- MCCapabilities
    Package <- MCPackage
    Files <- MCFiles
    Conflicts = {conflict}
    Reboot = {firmware, plugin}
    Firmware = firmware
    Profiles = {p1, p2}
    Kernels = {0, 1, 2}
    Iterations = 2
    MaxBusy = 2
    Mending = FALSE
    MaxEarly = 1
    MaxLate = 1
SPECIFICATION Spec
INVARIANTS ActivityDuringInference
