SPECIFICATION MarketSpec
CONSTANTS
    Machines = {m1}
    Accounts = {a1}
    RentalIds = {r1}
    InvoiceIds = {i1}
    Slots = {s1, s2}
    Rates = {2}
    DepositSats = {4}
    HeartbeatTimeout = 90
    TimeStep = 100
    MaxNow = 100
    MaxQueue = 2
    Faults = {}
SYMMETRY Symmetric
CHECK_DEADLOCK FALSE
PROPERTIES
    ChargedAtMostOnce
