CONSTANTS
    firmware = firmware
    driver = driver
    devel = devel
    library = library
    Selected = {firmware, driver}
    Unselected = {devel}
    Deps = {library}
    Key = key
    NeedReboot = {firmware}
    Start <- MCStart
    None = None
    MaxFailures = 1
    MaxForeign = 0
SPECIFICATION Spec
INVARIANTS
    RebootNeverHidden
