SPECIFICATION HostSpec
CONSTANTS
    RentalIds = {r1, r2}
    Calls = {c1, c2, c3}
    PortStart = 1
    PortEnd = 2
    Platforms = {"docker", "metal"}
    ExitsOn = {"docker", "metal"}
    Stale = {r2}
    ChildrenSurvive = FALSE
    Inventories <- HostInventories
SYMMETRY Symmetric
CHECK_DEADLOCK FALSE
INVARIANTS
    HostTypeOK
    StoppedStaysStopped
    ScoredByName
PROPERTIES
    ImplementsHostAgent
    ReportedPortIsServed
    FingerprintTracksHardware
