SPECIFICATION FairMarketSpec
CONSTANTS
    Machines = {m1}
    Accounts = {a1}
    RentalIds = {r1}
    InvoiceIds = {i1}
    Slots = {s1, s2}
    Rates = {2}
    DepositSats = {2}
    HeartbeatTimeout = 90
    TimeStep = 100
    MaxNow = 100
    MaxQueue = 3
    Faults = {}
CHECK_DEADLOCK FALSE
INVARIANTS
    MarketTypeOK
    NoStrandedRental
PROPERTIES
    EvictionCompletes
    OverrunIsEnded
    PaidIsCredited
