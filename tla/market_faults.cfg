SPECIFICATION MarketSpec
CONSTANTS
    Machines = {m1}
    Accounts = {a1}
    RentalIds = {r1}
    InvoiceIds = {i1}
    Slots = {s1, s2}
    Rates = {2}
    DepositSats = {2}
    HeartbeatTimeout = 90
    TimeStep = 100
    MaxNow = 100
    MaxQueue = 2
    Faults = {"ln_error", "abort", "restart", "lost_response", "lost_report", "runtime_error", "agent_crash", "shutdown"}
SYMMETRY Symmetric
CHECK_DEADLOCK FALSE
INVARIANTS
    AtMostOneStart
    CondemnedIsOverBudget
PROPERTIES
    ForgottenOnlyByLoss
    StartQueuedOnce
