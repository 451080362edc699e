SPECIFICATION MarketSpec
CONSTANTS
    Machines = {m1}
    Accounts = {a1}
    RentalIds = {r1, r2}
    InvoiceIds = {i1}
    Slots = {s1}
    Rates = {2}
    DepositSats = {4}
    HeartbeatTimeout = 90
    TimeStep = 60
    MaxNow = 0
    MaxQueue = 2
    Faults = {}
SYMMETRY Symmetric
CHECK_DEADLOCK FALSE
INVARIANTS
    AtMostOneOccupant
