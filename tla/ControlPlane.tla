---------------------------- MODULE ControlPlane ----------------------------
(***************************************************************************)
(* The control plane: the SQLite tables it owns, the HTTP handlers that    *)
(* write them, and the billing ticker.                                     *)
(*                                                                         *)
(* A table is a function whose DOMAIN is the set of its rows' keys.  A     *)
(* handler whose statements all run in one transaction (or in one          *)
(* autocommitted statement) is one action.  A handler that reads a row     *)
(* first and writes in a transaction it opens later is two actions, and    *)
(* what it read is kept in a request slot in between: other handlers and   *)
(* the ticker run in that window.                                          *)
(*                                                                         *)
(* Agents and tenants are unconstrained here: any request may arrive at any*)
(* time, from a machine or an account that is its own to name, and reports *)
(* carry the outcomes an agent has.  Module Marketplace closes the system  *)
(* with the host agents of the repository.                                 *)
(***************************************************************************)
EXTENDS RentalCore, Sequences, Functions

CONSTANTS
    Machines,          \* host_ids: one machine row each
    Accounts,          \* account ids
    RentalIds,         \* ids the rentals table may hand out (opaque)
    InvoiceIds,        \* payment hashes
    Slots,             \* request handlers that may be in flight at once
    Rates,             \* prices, in sats per minute, a request may carry
    DepositSats,       \* amounts a tenant may deposit
    HeartbeatTimeout,  \* BillingConfig::heartbeat_timeout_secs
    TimeStep,          \* granularity of the clock, in seconds
    MaxNow,            \* bound: the last second of a behaviour
    MaxQueue,          \* bound: undelivered commands of one machine
    Faults             \* the failures that may happen, out of FaultKinds

Null == -1             \* SQL NULL in rentals.ended_at

FaultKinds == {"ln_error",      \* is_settled returns an error
               "abort",         \* a handler is dropped before its transaction
               "restart"}       \* the control plane process restarts

ASSUME RatesAssumption   == Rates \subseteq Int
ASSUME DepositAssumption == DepositSats \subseteq Nat \ {0}
ASSUME TimeAssumption    == /\ HeartbeatTimeout \in Nat
                            /\ TimeStep \in Nat \ {0}
                            /\ MaxNow \in Nat
ASSUME QueueAssumption   == MaxQueue \in Nat

VARIABLES
    now,        \* the clock, shared by every handler and the ticker
    machines,   \* table machines
    balance,    \* table accounts: balance_sats
    rentals,    \* table rentals
    invoices,   \* table invoices
    commands,   \* table commands: per machine, the undelivered rows by id
    ledger,     \* table ledger, as the sums of delta_sats per key
    paid,       \* the invoices the Lightning node holds as settled
    requests,   \* per slot, the handler in flight and what it has read
    ticker,     \* where the billing ticker stands and what it has read
    settled     \* history: the rentals whose stop-time charge was applied

tables == <<machines, balance, rentals, invoices, commands, ledger>>
vars   == <<now, tables, paid, requests, ticker, settled>>

EmptyTable == [key \in {} |-> Null]
Idle   == [op |-> "idle"]
Asleep == [at |-> "asleep"]

-----------------------------------------------------------------------------
(* Queries.                                                                *)

Insert(table, key, row) ==
    [k \in DOMAIN table \cup {key} |-> IF k = key THEN row ELSE table[k]]

Lesser(x, y) == IF x < y THEN x ELSE y

(* SELECT id FROM rentals WHERE machine_id = m AND status IN (occupying)   *)
Occupied(m) ==
    \E r \in DOMAIN rentals :
        rentals[r].machine = m /\ OccupiesMachine(rentals[r].status)

(* offers: the machines a tenant is shown, before the tenant's filters.    *)
Offers == {m \in DOMAIN machines : machines[m].online /\ ~Occupied(m)}

(* The rows of the machine, as enforce_budgets and mark_offline compare    *)
(* them: more than the timeout since the last heartbeat.                   *)
Silent(m) == now - machines[m].lastHeartbeat > HeartbeatTimeout

(* What a running rental would be charged if it stopped now.               *)
AccruedNow(r) ==
    AccruedCharge(rentals[r].createdAt, now, rentals[r].rate)

(* Mutation of OverBudget: a rental that cannot outlast the next minute.   *)
OverBudgetEarly(r) ==
    AccruedCharge(rentals[r].createdAt, now + 60, rentals[r].rate)
        >= balance[rentals[r].account]

(* enforce_budgets keeps a rental while accrued <= balance.                *)
OverBudget(r) == AccruedNow(r) > balance[rentals[r].account]

(* Mutation of Settles: only a rental that runs is charged.                *)
SettlesRunning(row, status) == IsTerminal(status) /\ row.status = "running"

(* report: a still-live rental first reaches a terminal state, as seen by  *)
(* the row read before the transaction.                                    *)
Settles(row, status) == IsTerminal(status) /\ ~IsTerminal(row.status)

(* Mutation of Charge: no cap.                                             *)
ChargeUncapped(row, at) == AccruedCharge(row.createdAt, at, row.rate)

(* report: the stop-time charge, capped at the balance read in the         *)
(* transaction.  It is negative if the machine's price was.                *)
Charge(row, at) ==
    Lesser(AccruedCharge(row.createdAt, at, row.rate), balance[row.account])

(* Mutation of Moved: a charge is moved whatever it is.                    *)
MovedUnchecked(charge) == charge

(* report: `if charge > 0`, the sats that change hands.                    *)
Moved(charge) == IF charge > 0 THEN charge ELSE 0

-----------------------------------------------------------------------------
(* db::record and db::record_charge: the ledger is written only here.      *)

RecordDeposit(a, sats) ==
    ledger' = [ledger EXCEPT !.account[a] = @ + sats]

(* Mutations of RecordCharge: the tenant's row is forgotten; a second      *)
(* charge replaces the first.                                              *)
RecordHostOnly(a, m, r, sats) ==
    ledger' = [ledger EXCEPT !.machine[m] = @ + sats, !.charged[r] = @ + sats]

RecordLastCharge(a, m, r, sats) ==
    ledger' = [ledger EXCEPT !.account[a] = @ - sats,
                             !.machine[m] = @ + sats,
                             !.charged[r] = sats]

RecordCharge(a, m, r, sats) ==
    ledger' = [ledger EXCEPT !.account[a] = @ - sats,
                             !.machine[m] = @ + sats,
                             !.charged[r] = @ + sats]

RecordPayout(m, sats) ==
    ledger' = [ledger EXCEPT !.machine[m] = @ - sats]

-----------------------------------------------------------------------------
Init ==
    /\ now = 0
    /\ machines = EmptyTable
    /\ balance  = EmptyTable
    /\ rentals  = EmptyTable
    /\ invoices = EmptyTable
    /\ commands = [m \in Machines |-> << >>]
    /\ ledger   = [account |-> [a \in Accounts |-> 0],
                   machine |-> [m \in Machines |-> 0],
                   charged |-> [r \in RentalIds |-> 0]]
    /\ paid     = {}
    /\ requests = [s \in Slots |-> Idle]
    /\ ticker   = Asleep
    /\ settled  = {}

(* The wall clock of Clock::now; it never runs backwards.                  *)
PassTime ==
    /\ now + TimeStep <= MaxNow
    /\ now' = now + TimeStep
    /\ UNCHANGED <<tables, paid, requests, ticker, settled>>

-----------------------------------------------------------------------------
(* Agent endpoints.                                                        *)

(* register, first time: INSERT with a fresh heartbeat, online.  Whatever  *)
(* rate the agent sends is stored.                                         *)
RegisterNew(m, rate) ==
    /\ m \notin DOMAIN machines
    /\ machines' = Insert(machines, m, [online        |-> TRUE,
                                        lastHeartbeat |-> now,
                                        rate          |-> rate,
                                        payoutBalance |-> 0])
    /\ UNCHANGED <<now, balance, rentals, invoices, commands, ledger, paid,
                   requests, ticker, settled>>

(* Mutation of RegisterAgain: starts that were not reported are queued     *)
(* again for the agent that came back.                                     *)
RegisterAgainRequeues(m, rate) ==
    /\ m \in DOMAIN machines
    /\ machines' = [machines EXCEPT ![m].online        = TRUE,
                                    ![m].lastHeartbeat = now,
                                    ![m].rate          = rate]
    /\ commands' \in
          {commands} \cup
          {[commands EXCEPT ![m] = Append(@, StartRental(r))] :
             r \in {x \in DOMAIN rentals :
                      /\ rentals[x].machine = m
                      /\ rentals[x].status = "provisioning"
                      /\ Len(commands[m]) < MaxQueue}}
    /\ UNCHANGED <<now, balance, rentals, invoices, ledger, paid, requests,
                   ticker, settled>>

(* register on a known host_id: specs and rate refreshed, back online; the *)
(* payout balance and the queue are kept.                                  *)
RegisterAgain(m, rate) ==
    /\ m \in DOMAIN machines
    /\ machines' = [machines EXCEPT ![m].online        = TRUE,
                                    ![m].lastHeartbeat = now,
                                    ![m].rate          = rate]
    /\ UNCHANGED <<now, balance, rentals, invoices, commands, ledger, paid,
                   requests, ticker, settled>>

(* Mutation of Heartbeat: the queue is read but not drained.               *)
HeartbeatUndrained(m, online) ==
    /\ m \in DOMAIN machines
    /\ machines' = [machines EXCEPT ![m].online        = online,
                                    ![m].lastHeartbeat = now]
    /\ UNCHANGED <<now, balance, rentals, invoices, commands, ledger, paid,
                   requests, ticker, settled>>

(* heartbeat: refresh liveness and drain the queue, in one transaction.    *)
(* The drained commands, commands[m], are the response.                    *)
Heartbeat(m, online) ==
    /\ m \in DOMAIN machines
    /\ machines' = [machines EXCEPT ![m].online        = online,
                                    ![m].lastHeartbeat = now]
    /\ commands' = [commands EXCEPT ![m] = << >>]
    /\ UNCHANGED <<now, balance, rentals, invoices, ledger, paid, requests,
                   ticker, settled>>

(* rate: the next rental's price; live rentals keep their own.  Here, not  *)
(* in register, a price below 1 is refused.                                *)
SetRate(m, rate) ==
    /\ m \in DOMAIN machines
    /\ rate >= 1
    /\ machines' = [machines EXCEPT ![m].rate = rate]
    /\ UNCHANGED <<now, balance, rentals, invoices, commands, ledger, paid,
                   requests, ticker, settled>>

(* report, up to its transaction: the rental row is read, the clock is     *)
(* read, and whether this report settles the rental is decided.            *)
ReportRead(s, r, status) ==
    /\ requests[s] = Idle
    /\ r \in DOMAIN rentals
    /\ requests' = [requests EXCEPT ![s] =
                       [op     |-> "report",
                        rental |-> r,
                        status |-> status,
                        at     |-> now,
                        settle |-> Settles(rentals[r], status)]]
    /\ UNCHANGED <<now, tables, paid, ticker, settled>>

(* report, its transaction: the row is overwritten with what the agent     *)
(* sent, whatever its status has become since it was read.                 *)
ReportCommit(s) ==
    /\ requests[s].op = "report"
    /\ LET q      == requests[s]
           row    == rentals[q.rental]
           charge == IF q.settle THEN Charge(row, q.at) ELSE 0
           sats   == Moved(charge)
       IN  /\ rentals' = [rentals EXCEPT
                 ![q.rental].status      = q.status,
                 ![q.rental].endedAt     = IF IsTerminal(q.status) THEN q.at
                                                                   ELSE @,
                 ![q.rental].satsCharged = IF q.settle THEN charge ELSE @]
           /\ balance'  = [balance EXCEPT ![row.account] = @ - sats]
           /\ machines' = [machines EXCEPT
                              ![row.machine].payoutBalance = @ + sats]
           /\ RecordCharge(row.account, row.machine, q.rental, sats)
           /\ settled' = IF q.settle THEN settled \cup {q.rental} ELSE settled
    /\ requests' = [requests EXCEPT ![s] = Idle]
    /\ UNCHANGED <<now, invoices, commands, paid, ticker>>

(* payout, up to its transaction: the balance is read with the token, and  *)
(* the invoice the host sent is paid, whatever its amount (see Payouts);   *)
(* what is kept is the balance.  A failed payment answers 502: no change.  *)
PayoutPay(s, m) ==
    /\ requests[s] = Idle
    /\ m \in DOMAIN machines
    /\ machines[m].payoutBalance > 0
    /\ requests' = [requests EXCEPT ![s] =
                       [op      |-> "payout",
                        machine |-> m,
                        sats    |-> machines[m].payoutBalance]]
    /\ UNCHANGED <<now, tables, paid, ticker, settled>>

(* Mutation of PayoutCommit: the ledger gets the balance of the            *)
(* transaction, not the one that was paid.                                 *)
PayoutCommitCurrent(s) ==
    /\ requests[s].op = "payout"
    /\ LET m == requests[s].machine
       IN  /\ machines' = [machines EXCEPT ![m].payoutBalance = 0]
           /\ RecordPayout(m, machines[m].payoutBalance)
    /\ requests' = [requests EXCEPT ![s] = Idle]
    /\ UNCHANGED <<now, balance, rentals, invoices, commands, paid, ticker,
                   settled>>

(* payout, its transaction: zero the balance, record what was read.        *)
PayoutCommit(s) ==
    /\ requests[s].op = "payout"
    /\ LET q == requests[s]
       IN  /\ machines' = [machines EXCEPT ![q.machine].payoutBalance = 0]
           /\ RecordPayout(q.machine, q.sats)
    /\ requests' = [requests EXCEPT ![s] = Idle]
    /\ UNCHANGED <<now, balance, rentals, invoices, commands, paid, ticker,
                   settled>>

-----------------------------------------------------------------------------
(* Tenant endpoints.                                                       *)

(* create_account                                                          *)
CreateAccount(a) ==
    /\ a \notin DOMAIN balance
    /\ balance' = Insert(balance, a, 0)
    /\ UNCHANGED <<now, machines, rentals, invoices, commands, ledger, paid,
                   requests, ticker, settled>>

(* deposit: an invoice for an existing account, stored unsettled.          *)
Deposit(i, a, sats) ==
    /\ a \in DOMAIN balance
    /\ i \notin DOMAIN invoices
    /\ invoices' = Insert(invoices, i, [account |-> a,
                                        sats    |-> sats,
                                        settled |-> FALSE])
    /\ UNCHANGED <<now, machines, balance, rentals, commands, ledger, paid,
                   requests, ticker, settled>>

(* create_rental: every check and both inserts in one transaction; nothing *)
(* is charged yet.                                                         *)
CreateRental(r, m, a) ==
    /\ r \notin DOMAIN rentals
    /\ m \in DOMAIN machines
    /\ a \in DOMAIN balance
    /\ machines[m].online
    /\ ~Occupied(m)
    /\ balance[a] >= machines[m].rate
    /\ Len(commands[m]) < MaxQueue
    /\ rentals' = Insert(rentals, r, [machine     |-> m,
                                      account     |-> a,
                                      rate        |-> machines[m].rate,
                                      status      |-> "provisioning",
                                      createdAt   |-> now,
                                      endedAt     |-> Null,
                                      satsCharged |-> 0])
    /\ commands' = [commands EXCEPT ![m] = Append(@, StartRental(r))]
    /\ UNCHANGED <<now, machines, balance, invoices, ledger, paid, requests,
                   ticker, settled>>

(* delete_rental, up to its transaction: terminal and evicting rentals     *)
(* return early.                                                           *)
DeleteRead(s, r) ==
    /\ requests[s] = Idle
    /\ r \in DOMAIN rentals
    /\ ~IsTerminal(rentals[r].status)
    /\ rentals[r].status # "evicting"
    /\ requests' = [requests EXCEPT ![s] = [op |-> "delete", rental |-> r]]
    /\ UNCHANGED <<now, tables, paid, ticker, settled>>

(* The two writes delete_rental and enforce_budgets share.                 *)
MarkEvicting(r) ==
    LET m == rentals[r].machine
    IN  /\ Len(commands[m]) < MaxQueue
        /\ rentals'  = [rentals EXCEPT ![r].status = "evicting"]
        /\ commands' = [commands EXCEPT ![m] = Append(@, StopRental(r))]

(* delete_rental, its transaction.                                         *)
DeleteCommit(s) ==
    /\ requests[s].op = "delete"
    /\ MarkEvicting(requests[s].rental)
    /\ requests' = [requests EXCEPT ![s] = Idle]
    /\ UNCHANGED <<now, machines, balance, invoices, ledger, paid, ticker,
                   settled>>

-----------------------------------------------------------------------------
(* The billing ticker: poll_invoices, mark_offline, enforce_budgets.       *)

(* Mutation of PollInvoices: WHERE settled = 1.                            *)
PollSettledInvoices ==
    /\ ticker = Asleep
    /\ ticker' = [at   |-> "polling",
                  todo |-> {i \in DOMAIN invoices : invoices[i].settled}]
    /\ UNCHANGED <<now, tables, paid, requests, settled>>

(* poll_invoices: SELECT ... WHERE settled = 0.                            *)
PollInvoices ==
    /\ ticker = Asleep
    /\ ticker' = [at   |-> "polling",
                  todo |-> {i \in DOMAIN invoices : ~invoices[i].settled}]
    /\ UNCHANGED <<now, tables, paid, requests, settled>>

(* Mutation of SettleInvoice: the row is not marked settled.               *)
CreditInvoiceAgain(i) ==
    /\ ticker.at = "polling"
    /\ i \in ticker.todo
    /\ i \in paid
    /\ balance' = [balance EXCEPT ![invoices[i].account] =
                                        @ + invoices[i].sats]
    /\ RecordDeposit(invoices[i].account, invoices[i].sats)
    /\ ticker' = [ticker EXCEPT !.todo = @ \ {i}]
    /\ UNCHANGED <<now, machines, rentals, invoices, commands, paid, requests,
                   settled>>

(* An invoice the node holds as settled: credit it, in one transaction.    *)
SettleInvoice(i) ==
    /\ ticker.at = "polling"
    /\ i \in ticker.todo
    /\ i \in paid
    /\ invoices' = [invoices EXCEPT ![i].settled = TRUE]
    /\ balance'  = [balance EXCEPT ![invoices[i].account] =
                                        @ + invoices[i].sats]
    /\ RecordDeposit(invoices[i].account, invoices[i].sats)
    /\ ticker' = [ticker EXCEPT !.todo = @ \ {i}]
    /\ UNCHANGED <<now, machines, rentals, commands, paid, requests, settled>>

(* An invoice the node does not hold as settled is left for a later tick.  *)
SkipInvoice(i) ==
    /\ ticker.at = "polling"
    /\ i \in ticker.todo
    /\ i \notin paid
    /\ ticker' = [ticker EXCEPT !.todo = @ \ {i}]
    /\ UNCHANGED <<now, tables, paid, requests, settled>>

(* is_settled fails: `?` ends the whole tick, not just this invoice.       *)
PollFails ==
    /\ "ln_error" \in Faults
    /\ ticker.at = "polling"
    /\ ticker.todo # {}
    /\ ticker' = Asleep
    /\ UNCHANGED <<now, tables, paid, requests, settled>>

(* mark_offline, one statement.                                            *)
MarkOffline ==
    /\ ticker = [at |-> "polling", todo |-> {}]
    /\ machines' = [m \in DOMAIN machines |->
                       IF Silent(m) THEN [machines[m] EXCEPT !.online = FALSE]
                                    ELSE machines[m]]
    /\ ticker' = [at |-> "marked"]
    /\ UNCHANGED <<now, balance, rentals, invoices, commands, ledger, paid,
                   requests, settled>>

(* Mutation of ListRunning: WHERE status = 'provisioning'.                 *)
ListProvisioning ==
    /\ ticker.at = "marked"
    /\ ticker' = [at   |-> "checking",
                  todo |-> {r \in DOMAIN rentals :
                                rentals[r].status = "provisioning"}]
    /\ UNCHANGED <<now, tables, paid, requests, settled>>

(* enforce_budgets: SELECT ... WHERE status = 'running'.                   *)
ListRunning ==
    /\ ticker.at = "marked"
    /\ ticker' = [at   |-> "checking",
                  todo |-> {r \in DOMAIN rentals :
                                rentals[r].status = "running"}]
    /\ UNCHANGED <<now, tables, paid, requests, settled>>

(* A listed rental whose host is silent, or that is within its budget.     *)
KeepRental(r) ==
    /\ ticker.at = "checking"
    /\ r \in ticker.todo
    /\ Silent(rentals[r].machine) \/ ~OverBudget(r)
    /\ ticker' = [ticker EXCEPT !.todo = @ \ {r}]
    /\ UNCHANGED <<now, tables, paid, requests, settled>>

(* A listed rental found over budget: the heartbeat and the balance were   *)
(* read, the write transaction is not open yet.  Clock, heartbeat and      *)
(* balance are read one after the other; in between the accrued charge can *)
(* only grow, heartbeats only get younger and balances only shrink.        *)
CondemnRental(r) ==
    /\ ticker.at = "checking"
    /\ r \in ticker.todo
    /\ ~Silent(rentals[r].machine)
    /\ OverBudget(r)
    /\ ticker' = [at   |-> "evicting",
                  todo |-> ticker.todo \ {r},
                  rental |-> r]
    /\ UNCHANGED <<now, tables, paid, requests, settled>>

(* The eviction transaction.  Its ledger row is worth zero.                *)
EvictRental ==
    /\ ticker.at = "evicting"
    /\ MarkEvicting(ticker.rental)
    /\ ticker' = [at |-> "checking", todo |-> ticker.todo]
    /\ UNCHANGED <<now, machines, balance, invoices, ledger, paid, requests,
                   settled>>

EndTick ==
    /\ ticker = [at |-> "checking", todo |-> {}]
    /\ ticker' = Asleep
    /\ UNCHANGED <<now, tables, paid, requests, settled>>

-----------------------------------------------------------------------------
(* The environment: the Lightning node, and failures.                      *)

(* The tenant's payment arrives at the Lightning node.                     *)
PayInvoice(i) ==
    /\ i \in DOMAIN invoices \ paid
    /\ paid' = paid \cup {i}
    /\ UNCHANGED <<now, tables, requests, ticker, settled>>

(* A handler is dropped between its read and its transaction: the client   *)
(* has gone, or BEGIN IMMEDIATE gave up after busy_timeout.                *)
Abort(s) ==
    /\ "abort" \in Faults
    /\ requests[s] # Idle
    /\ requests' = [requests EXCEPT ![s] = Idle]
    /\ UNCHANGED <<now, tables, paid, ticker, settled>>

(* The process restarts: the tables are durable, everything in flight      *)
(* goes.  A Lightning node remembers its payments; the mock backend, which *)
(* lives in the process, forgets them all.                                 *)
Restart ==
    /\ "restart" \in Faults
    /\ requests' = [s \in Slots |-> Idle]
    /\ ticker' = Asleep
    /\ paid' \in {paid, {}}
    /\ UNCHANGED <<now, tables, settled>>

-----------------------------------------------------------------------------
(* What the process does by itself, once a request or a tick has begun.    *)
Commit(s) == ReportCommit(s) \/ PayoutCommit(s) \/ DeleteCommit(s)

TickerStep ==
    \/ PollInvoices
    \/ \E i \in InvoiceIds : SettleInvoice(i) \/ SkipInvoice(i)
    \/ MarkOffline
    \/ ListRunning
    \/ \E r \in RentalIds : KeepRental(r) \/ CondemnRental(r)
    \/ EvictRental
    \/ EndTick

TenantRequest ==
    \/ \E a \in Accounts : CreateAccount(a)
    \/ \E i \in InvoiceIds, a \in Accounts, sats \in DepositSats :
            Deposit(i, a, sats)
    \/ \E r \in RentalIds, m \in Machines, a \in Accounts :
            CreateRental(r, m, a)
    \/ \E s \in Slots, r \in RentalIds : DeleteRead(s, r)

ProviderRequest ==
    \E m \in Machines :
        \/ \E rate \in Rates : SetRate(m, rate)
        \/ \E s \in Slots : PayoutPay(s, m)

AgentRequest ==
    \/ \E m \in Machines, rate \in Rates :
            RegisterNew(m, rate) \/ RegisterAgain(m, rate)
    \/ \E m \in Machines, online \in BOOLEAN : Heartbeat(m, online)
    \/ \E s \in Slots, r \in RentalIds, status \in ReportStatus :
            ReportRead(s, r, status)

Fault == PollFails \/ Restart \/ \E s \in Slots : Abort(s)

Next ==
    \/ PassTime
    \/ TenantRequest
    \/ ProviderRequest
    \/ AgentRequest
    \/ \E s \in Slots : Commit(s)
    \/ TickerStep
    \/ \E i \in InvoiceIds : PayInvoice(i)
    \/ Fault

Spec == Init /\ [][Next]_vars

-----------------------------------------------------------------------------
(* Types.                                                                  *)

MachineRow == [online        : BOOLEAN,
               lastHeartbeat : Nat,
               rate          : Int,
               payoutBalance : Nat]

RentalRow == [machine     : Machines,
              account     : Accounts,
              rate        : Int,
              status      : RentalStatus,
              createdAt   : Nat,
              endedAt     : Nat \cup {Null},
              satsCharged : Int]

InvoiceRow == [account : Accounts, sats : Nat \ {0}, settled : BOOLEAN]

LedgerSums == [account : [Accounts -> Int],
               machine : [Machines -> Int],
               charged : [RentalIds -> Nat]]

Report  == [op : {"report"}, rental : RentalIds, status : ReportStatus,
            at : Nat, settle : BOOLEAN]
Payout  == [op : {"payout"}, machine : Machines, sats : Nat]
Delete  == [op : {"delete"}, rental : RentalIds]
Request == {Idle} \cup Report \cup Payout \cup Delete

Ticker == {Asleep, [at |-> "marked"]}
          \cup [at : {"polling"}, todo : SUBSET InvoiceIds]
          \cup [at : {"checking"}, todo : SUBSET RentalIds]
          \cup [at : {"evicting"}, todo : SUBSET RentalIds,
                rental : RentalIds]

(* Every foreign key names a row, every queued command and every row that  *)
(* a handler or the ticker has read still exists.                          *)
References ==
    /\ \A r \in DOMAIN rentals : /\ rentals[r].machine \in DOMAIN machines
                                 /\ rentals[r].account \in DOMAIN balance
    /\ \A i \in DOMAIN invoices : invoices[i].account \in DOMAIN balance
    /\ \A s \in Slots :
          /\ requests[s].op \in {"report", "delete"} =>
                requests[s].rental \in DOMAIN rentals
          /\ requests[s].op = "payout" =>
                requests[s].machine \in DOMAIN machines
    /\ ticker.at = "polling" => ticker.todo \subseteq DOMAIN invoices
    /\ ticker.at \in {"checking", "evicting"} =>
          ticker.todo \subseteq DOMAIN rentals
    /\ ticker.at = "evicting" => ticker.rental \in DOMAIN rentals

(* Type invariant: each table holds rows of its schema (the CHECK on       *)
(* balance_sats included: no settlement ever overdraws an account, and     *)
(* none takes from what a host is owed, at any registered price), each     *)
(* request slot and the ticker hold what their handler reads, and every    *)
(* reference is sound.                                                     *)
TypeOK ==
    /\ now \in Nat
    /\ DOMAIN machines \subseteq Machines
    /\ machines \in [DOMAIN machines -> MachineRow]
    /\ DOMAIN balance \subseteq Accounts
    /\ balance \in [DOMAIN balance -> Nat]
    /\ DOMAIN rentals \subseteq RentalIds
    /\ rentals \in [DOMAIN rentals -> RentalRow]
    /\ DOMAIN invoices \subseteq InvoiceIds
    /\ invoices \in [DOMAIN invoices -> InvoiceRow]
    /\ commands \in [Machines -> Seq(Commands(RentalIds))]
    /\ ledger \in LedgerSums
    /\ paid \subseteq InvoiceIds
    /\ requests \in [Slots -> Request]
    /\ ticker \in Ticker
    /\ settled \subseteq RentalIds
    /\ References

-----------------------------------------------------------------------------
(* Safety.                                                                 *)

Ended(r) == rentals[r].endedAt # Null

(* However reports, deletes and evictions race, a machine never has two    *)
(* rentals that have not ended: create_rental's occupancy check sees every *)
(* rental whose ended_at is NULL.                                          *)
OneLiveRentalPerMachine ==
    \A r1, r2 \in DOMAIN rentals :
        /\ rentals[r1].machine = rentals[r2].machine
        /\ ~Ended(r1) /\ ~Ended(r2)
        => r1 = r2

(* The control plane implements exclusive leases: a machine is held by the *)
(* rentals of it whose ended_at is NULL, and a report that arrives late    *)
(* never gives back what a rental has released.                            *)
LiveOn(m) == {r \in DOMAIN rentals : rentals[r].machine = m /\ ~Ended(r)}

Lease == INSTANCE MachineLease WITH
            Rentals <- RentalIds,
            live    <- [m \in Machines |-> LiveOn(m)],
            granted <- DOMAIN rentals

ImplementsLease == Lease!LeaseSpec

(* A machine on offer is held by nobody: whatever late reports have done   *)
(* to the statuses, each of its rentals has ended.                         *)
OfferedIsFree == \A m \in Offers : LiveOn(m) = {}

(* Nobody rides for free: a rental whose row is terminal, or was once, has *)
(* had its stop-time charge applied, although `report` decides whether to  *)
(* charge from a row it read before its transaction.                       *)
NoFreeRide ==
    \A r \in DOMAIN rentals :
        IsTerminal(rentals[r].status) \/ Ended(r) => r \in settled

(* Each balance is what the ledger says: the sum of the account's rows.    *)
LedgerReconciles ==
    \A a \in DOMAIN balance : balance[a] = ledger.account[a]

Credited == {i \in DOMAIN invoices : invoices[i].settled}

(* No sat appears or disappears on the tenants' side: what the settled     *)
(* invoices brought in is what the accounts still hold plus what rentals   *)
(* were charged.  In particular no invoice is credited twice, over every   *)
(* crash, failed poll and repeated tick.                                   *)
SatsConserved ==
    SumFunction([i \in Credited |-> invoices[i].sats])
      = SumFunction(balance) + SumFunctionOnSet(ledger.charged, DOMAIN rentals)

RentalsOf(m) == {r \in DOMAIN rentals : rentals[r].machine = m}

ChargedFor(m) == SumFunctionOnSet(ledger.charged, RentalsOf(m))

(* A host is never owed more than its rentals were charged.                *)
OwedWasCharged ==
    \A m \in DOMAIN machines : machines[m].payoutBalance <= ChargedFor(m)

(* The ticker's decision to evict outlives the gap between its reads and   *)
(* its transaction: whatever runs in between, the rental it then marks     *)
(* evicting has accrued more than its account holds.                       *)
CondemnedIsOverBudget ==
    ticker.at = "evicting" =>
        AccruedNow(ticker.rental) > balance[rentals[ticker.rental].account]
=============================================================================
