SPECIFICATION PayoutsSpec
CONSTANTS
    Machines = {m1}
    Accounts = {a1}
    RentalIds = {r1}
    InvoiceIds = {i1}
    Slots = {s1, s2}
    Rates <- AnyPrices
    DepositSats = {2}
    HeartbeatTimeout = 60
    TimeStep = 90
    MaxNow = 90
    MaxCovered = 2
    MaxQueue = 1
    Faults = {"ln_error", "abort", "restart"}
SYMMETRY Symmetric
CHECK_DEADLOCK FALSE
INVARIANTS
    TypeOK
    LedgerReconciles
    SatsConserved
    OwedWasCharged
    NoFreeRide
    RecordedWasPaid
