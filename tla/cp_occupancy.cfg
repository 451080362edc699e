SPECIFICATION PayoutsSpec
CONSTANTS
    Machines = {m1}
    Accounts = {a1}
    RentalIds = {r1, r2}
    InvoiceIds = {i1}
    Slots = {s1, s2}
    Rates = {2}
    DepositSats = {2}
    HeartbeatTimeout = 90
    TimeStep = 60
    MaxNow = 0
    MaxCovered = 6
    MaxQueue = 2
    Faults = {}
SYMMETRY Symmetric
CHECK_DEADLOCK FALSE
INVARIANTS
    OneLiveRentalPerMachine
    OfferedIsFree
PROPERTIES
    ImplementsLease
