SPECIFICATION HostSpec
CONSTANTS
    RentalIds = {r1, r2}
    Calls = {c1, c2}
    PortStart = 1
    PortEnd = 2
    Platforms = {"metal"}
    ExitsOn = {"metal"}
    Stale = {}
    ChildrenSurvive = TRUE
    Inventories <- HostInventories
SYMMETRY Symmetric
CHECK_DEADLOCK FALSE
INVARIANTS
    StopKillsWorker
