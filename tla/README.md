# Verification of the computation marketplace

TLA+ models of the GPU rental marketplace in this repository, the TLC runs that
check them on small instances, and theorems about the control plane, the closed
system, the host runtimes, the registered benchmark and the write lock, proved
with TLAPS for every instance. Paths below are relative to `src/`.

## 1. The system

A *control plane* (axum + SQLite, `crates/control-plane`) lists machines, holds
tenants' prepaid balances, rents machines out, bills each rental once when it
stops, and owes the hosts what was charged. A *host agent* (`crates/host-agent`)
on each machine registers it, sends heartbeats, receives commands **only** in
heartbeat responses, runs them against Docker or Metal, and reports each outcome.
A *Lightning backend* takes deposits and pays hosts out. The `vgpu` CLI is a
thin tenant client; `gpu-bench` and the agent's benchmark measure hardware.

| Component | State | Operations | How it interacts |
|---|---|---|---|
| Agent endpoints (`routes/agent.rs`) | machines, rentals, ledger | register, heartbeat, report, rate, payout | called by agents and providers; heartbeat drains the command queue |
| Tenant endpoints (`routes/tenant.rs`) | accounts, invoices, rentals, commands | create account, deposit, create rental, delete rental; read-only views | queue commands for agents |
| Billing ticker (`billing.rs`) | its list of invoices or rentals | poll invoices, mark machines offline, evict over-budget rentals | runs beside the handlers on the same tables |
| Storage (`db.rs`, `migrations/`) | six tables, 5 pooled connections | `BEGIN IMMEDIATE`, ledger writer | shared by all of the above |
| Host agent (`host-agent/main.rs`) | identity file, one task per command | boot, heartbeat loop, dispatch, ctrl-c | HTTP client of the control plane |
| Runtimes (`runtime.rs`, `mac_worker.rs`) | Docker: containers; Metal: child processes and a table of them in memory | start, stop, list | called by concurrent tasks |
| Lightning (`lightning/`) | settlement times in memory (mock) | create invoice, is settled, pay | called by deposit, ticker, payout |
| Benchmark (`benchmark.rs`) | none | inventory, fingerprint, score | sent with each registration |
| `gpu-bench`, CLI, money type | none that is shared | pure computations and I/O | none |

### What is hard here

* `report`, `delete_rental` and `payout` read a row in autocommit mode, decide
  something from it, and write in a transaction they open later. Other handlers
  and the ticker run in between.
* The ticker lists running rentals once, then reads heartbeat and balance of each
  outside any transaction, then evicts in a transaction.
* Transactions are raw `BEGIN IMMEDIATE` statements on a pooled connection: a
  handler that is dropped inside one gives the connection back as it is.
* Commands are marked delivered before their response arrives: delivery is at
  most once, and a lost response, a crash or a ctrl-c loses them.
* One heartbeat's commands run as independent tasks: the start and the stop of
  one rental run, and report, in either order, and a report is never repeated.
* A runtime call is several calls of Docker's API, each of which can fail, or
  take effect and have its answer lost; a port is chosen long before it is bound.
* Money crosses process boundaries (Lightning) around database transactions.

`PROJECT.json` lists every hazard at its line, with the properties that watch it
or the reason none does.

## 2. The modules

    RentalCore            statuses, commands, accrued_charge
      ControlPlane        the tables, every handler that writes, the ticker, failures
        Payouts           + what was paid over Lightning;  uses MachineLease
        Marketplace       ControlPlane composed with INSTANCE HostAgent
      HostAgent           processes, dispatch tasks, workloads
      RuntimeCalls        the dispatch tasks as a runtime sees them
        DockerHost, MetalHost   the two runtimes
        HostRuntimes      one host of either kind, its benchmark, refines HostAgent
    MachineLease          abstract: exclusive leases of machines
    Benchmark             inventory, fingerprint, score tables
    WriteLock             the connection pool and the write lock
    Sums                  what SumFunctionOnSet computes, and how it changes;
                          induction over finite sets
    ControlPlaneProofs    types, occupancy, charging, eviction, leases
      MoneyProofs         + Payouts, Sums: the sums over the tables
      MarketplaceProofs   + Sums: the closed system: forgotten commands,
                          stranded rentals, types, starts
    HostProofs            HostRuntimes + Sums: stops, types, ports
      HostAgentProofs     the refinement of HostAgent
    BenchmarkProofs       HostRuntimes + Sums: fingerprint and score
    WriteLockProofs       the write lock
    MCControlPlane, MCMarketplace, MCHostRuntimes    instances for TLC

**ControlPlane.** A table is a function whose domain is its set of keys; `now` is
the clock; `requests` holds, per slot, a handler that has read and not yet
written; `ticker` holds where the tick stands and what it has read; `settled` is
a history variable (rentals whose stop-time charge was applied); `paid` is the
Lightning node's memory. The correspondence:

| Actions | Code |
|---|---|
| `RegisterNew`, `RegisterAgain`, `Heartbeat`, `SetRate` | `agent.rs` register, heartbeat, rate |
| `ReportRead` / `ReportCommit` | `report` before / in its transaction |
| `PayoutPay` / `PayoutCommit` | `payout` before / in its transaction |
| `CreateAccount`, `Deposit`, `CreateRental` | `tenant.rs` |
| `Offers` (an operator) | the machines `GET /offers` lists |
| `DeleteRead` / `DeleteCommit` | `delete_rental` before / in its transaction |
| `PollInvoices`, `SettleInvoice`, `SkipInvoice`, `PollFails` | `poll_invoices` |
| `MarkOffline` | `mark_offline` |
| `ListRunning`, `KeepRental`, `CondemnRental`, `EvictRental`, `EndTick` | `enforce_budgets` |
| `PassTime`, `PayInvoice` | the clock, the tenant's payment |
| `Abort`, `Restart` | a dropped handler, a process restart |

**Payouts** adds the history variable `covered`: per machine, the balances that
successful payments were made against. What such a payment *sends* is not in the
model: the invoice is the host's, and `payout` never compares its amount with the
balance it has read and will record (`agent.rs:286-293`). **MachineLease** is what the
marketplace promises of a machine: granted when free, to a rental that never had
one, and released. `live[m]` is mapped to the rentals of `m` that have not ended,
`granted` to the keys of `rentals`.

**HostAgent** has the set of running agent processes, a *bag* of dispatch tasks
(two stops of one rental can be in flight at once) and the workloads the runtime
runs. **Marketplace** closes the system: a report exists only because a command
was queued, drained, executed. Losses and failures are selected by the constant
`Faults`, so that one module serves the runs with and without them.

**RuntimeCalls** has one call per dispatch task and where it stands; `begun` and
`ended` are history: the rentals whose start was received, and those a stop has
ended for good. **DockerHost** (containers with a state and a published port) and
**MetalHost** (table of jobs, live workers) move a call one API call at a time:
`PullImage`, `PickPort`, `ClearStale`, `CreateContainer`, `StartContainer` are
`start_rental`, `StopContainer`, `RemoveContainer` are `stop_rental`, and
`DockerFails` is any `?` between them, with the effect of the failed call or
without; `PickJobPort`, `SpawnWorker`, `InsertJob`, `TakeJob`, `NoJob`,
`KillWorker` are the same of Metal. **HostRuntimes** runs one of the two, with a
host that registers its hardware at each start, and maps calls to the tasks of
`HostAgent` and what runs on the host to its workloads: the running containers,
and the live Metal workers whether the agent still has their job or not. A worker
counts from the return of its start until a stop takes its job, so a worker that
an agent has forgotten stays a workload after its stop. The start of a
rental is received once: assumed here, and proved of the senders, whose start of
a rental is in one place or gone (`Marketplace!AtMostOneStart`) and is never
queued for a rental that has its row (`Marketplace!StartQueuedOnce`).

**WriteLock** looks below a transaction: a request takes a connection for its
read, gives it back, takes one for its write (`BEGIN IMMEDIATE`, body, `COMMIT`
or `ROLLBACK`; or a single statement), and every wait can time out. `DropHandler`
ends it anywhere; its connection goes back to the pool as it is. `Reap` is the
pool's `max_lifetime`. `create_rental` and the ticker, which read nothing before
they begin, are the requests whose read does nothing. A read may fail
(`ReadFails`: authentication, an unknown row, an error of the database), and
`COMMIT` may fail at any time, whatever the other requests do. ControlPlane's one-step
transactions are what this module justifies (`WritersAreAlone`).

### Modelling decisions

* A handler whose statements share one transaction is one action of ControlPlane.
  Its clock is read just before the transaction; the difference is at most the
  5 s busy timeout and lies below the model's time step.
* The ledger is kept as its sums per account, per machine and per rental (what
  the audit reads it for), not as rows. The eviction's row of 0 sats vanishes.
* Left out, since nothing modelled depends on them: image, SSH key and their
  validation, rental kind, SSH host and port, container id, error text,
  `minutes_billed`, hardware columns. Rejected requests change nothing.
* `register`'s lookup and insert are one step (a lost race fails on the UNIQUE
  constraint and changes nothing). A failed `pay_invoice` changes nothing.
* Reports carry `running`, `stopped` or `failed`: the outcomes `dispatch` builds.
  `ReportRequest` would take the other two statuses as well; no agent sends them.
* `register` stores whatever price it is sent (`agent.rs:62`, `101`; the schema
  has no CHECK), so `Rates` is any set of integers. `rate` refuses a price below 1,
  and so does the agent at its start-up: `SetRate` and `Marketplace!Register` have
  that guard. A negative price gives a negative charge, which `sats_charged`
  stores and `if charge > 0` keeps from moving (`Moved`); the division by 60
  truncates toward zero (`Truncated`). Deposits are at least 1, as `deposit` checks.
* `KeepRental` and `CondemnRental` read the clock, the heartbeat and the balance in
  one step; the code awaits between them (`billing.rs:104-116`). Time only grows,
  and during the tick nothing else credits an account, so a decision over values
  read in turn is one the later values still justify.
* Marketplace is about hosts on which a stop that succeeds ends the workload:
  Docker, and Metal as long as the agent process has not been replaced
  (`claim_metal_stop` is the other case).
* `MarkEvicting` is the pair of writes `delete_rental` and `enforce_budgets` share.
* `Restart` keeps or forgets `paid`: a real node remembers, the mock backend
  lives in the process and forgets.
* A failed stop may or may not have stopped the container.
* A GPU is what the properties tell apart: an integer ordered as the string of its
  name, UUID and bus id; the table entries its name contains; and the most
  specific of these, which names it. The SHA-256 digest is taken to be injective,
  so the fingerprint is the sequence it digests, the ordered permutation of the
  strings. On macOS a host without a readable serial number has its model's name
  for a UUID, so two such hosts of a model are one to the fingerprint.
* A name is assumed to contain no entry by accident. Some do ("RTX A1000" contains
  "a100"); the code has no row of their own for them, and they are taken as
  named by the entry they contain.
* `Mutation of ...` definitions are deliberate bugs. Each property of a passing
  run fails when the definition it names is replaced by its mutation.

## 3. What the runs check

| Run | Instance | Shows |
|---|---|---|
| `control_plane` | 1 machine, account, rental and invoice; a price of -1 or 1; 2 handlers in flight; two instants; a deposit of two charges, settled also while the rental lives; dropped handlers, failing polls, restarts | `TypeOK` (schema, references, no overdraft), `LedgerReconciles`, `SatsConserved`, `OwedWasCharged`, `NoFreeRide`, `RecordedWasPaid` (no payout is recorded without a payment, and none twice) |
| `cp_occupancy` | 2 rentals on 1 machine, 2 handlers in flight | `OneLiveRentalPerMachine`, `OfferedIsFree`, `ImplementsLease` |
| `market_progress` | 1 host, 1 rental, 2 handlers, fair scheduling, no losses | `NoStrandedRental`: a provisioning or evicting rental always has its command queued, running or being reported; an evicting rental ends (`EvictionCompletes`), an overrun is ended (`OverrunIsEnded`), a paid deposit is credited (`PaidIsCredited`); `MarketTypeOK` |
| `market_faults` | 1 host, 1 rental, 2 handlers, all eight failures | `AtMostOneStart`; `CondemnedIsOverBudget` (what the ticker has decided to evict still is over budget when its transaction opens); `StartQueuedOnce` (an agent that registers again is not sent the starts it has not reported); `ForgottenOnlyByLoss` (a waiting rental loses its command only to a loss of its own) |
| `host_runtimes` | 2 rentals, 3 tasks, 2 ports, a stale container; either platform; the agent restarts | `ImplementsHostAgent`; `StoppedStaysStopped`; `ReportedPortIsServed` (Docker); `FingerprintTracksHardware`; `ScoredByName`; `HostTypeOK` |
| `write_lock` | 2 connections, 3 transactions, 2 single statements | `WritersAreAlone`, `OnlyDropsLeak`, `AnsweredIsDurable`, and under fairness `EveryRequestEnds`, `LockIsFreed`; `LockTypeOK` |

Bounds. One machine and one rental suffice for the races, which are between
handlers of one row; two rentals are the least for occupancy. Two settlements
against one balance are two reports in flight: one takes what the other leaves,
and a late `running` report that revives the rental lets a third find nothing.
That several rentals settle against one balance changes nothing in `Charge`, and
is covered by the theorems. At -1 and 1 a charge of 90 s is truncated on either
side of zero. Two slots give two
overlapping handlers, the ticker being a third writer. The clock steps past the
heartbeat timeout at once, so a host is either fresh or silent. `MaxQueue` bounds
the queue (guards of `CreateRental`, `MarkEvicting`; one command is enough for
`control_plane`, whose reports need no command), `MaxNow` the clock
(`PassTime`), `MaxCovered` the balances a machine's payments are made against (the
next-state relation of Payouts: enough for a payment that is repeated). Three calls on two rentals let both starts
race for a port while a stop runs; two ports let both succeed or collide.
`SwapHardware` happens only before the first rental, which keeps the hardware
from multiplying the runtime's states. Two connections and five requests let a
leaked transaction, a waiting writer and a reader coexist; more connections only
make waiting rarer.
A behaviour may stop when the bounds are reached and nobody asks for anything,
or all requests have ended, hence `CHECK_DEADLOCK FALSE`; that nobody waits for
ever is `EveryRequestEnds`. Symmetry is used only where no liveness is checked:
nothing compares two ids other than for equality (ports are ordered, and are not
permuted).

Fairness. `MarketFairness`: the ticker task loops for ever (`main.rs`), so its
steps are weakly fair; the async runtime drives every accepted handler to its
commit; an agent that is up beats on an interval and runs each task. A report
needs a free slot, which other requests may keep taking: the server has no such
limit, so `DeliverReport` is strongly fair. Tenants, providers, payments, agents'
start-ups, the clock and failures are not fair. The liveness run has no losses
because at-most-once delivery promises nothing under them. `FairLockSpec`: the
runtime drives each handler, the acquire and busy timers run out, and sqlx closes
a connection at its maximal lifetime; dropping a handler is not fair.

## 4. Where the code and its documents disagree

Each of these runs checks one sentence of a document or comment and ends in a
counterexample; `PROJECT.json` quotes the sentence.

| Run | What happens |
|---|---|
| `claim_charged_once` | two reports read a live rental, both charge it |
| `claim_one_occupant` | a late `running` report revives a stopped rental whose machine is rented again |
| `claim_payout_owed` | two payouts in flight have read the same balance; both pay and record it, and the host's ledger ends below zero |
| `claim_no_free_compute` | a stop runs before its start and finds nothing, the start launches, the start's report commits and then the stop's: the rental has ended and its workload runs on unbilled |
| `claim_silent_unbilled` | the stop-time charge includes the host's silent time |
| `claim_metal_stop` | an agent that was restarted reports a Metal rental stopped whose worker runs on |

Read but not given a run of their own:

* A charge that a report credits between `payout`'s read and its commit is zeroed
  unpaid (`agent.rs:298`). `PayoutBalanceIsOwed` forbids that too; its shortest
  counterexample is the double payment.
* `payout` records the balance as paid whatever amount the host's invoice asked for
  (`agent.rs:286-319`), although `docs/SPEC.md:334-336` answers it as `paid_sats`.
* `delete_rental` can move a rental that ended after its read back to `evicting`
  (`tenant.rs:373`).
* `create_rental`'s doc comment still promises a first minute charged up front
  (`tenant.rs:205`); its check ignores what the account's other rentals accrue.
* A failing `stop_rental` takes a rental to `failed` from `evicting` although the
  diagram in `docs/SPEC.md` reaches it from `provisioning` only.
* The ledger does not sum to zero, contrary to `migrations/0001_init.sql:66-67`:
  a deposit is one row (`billing.rs:54`).
* `benchmark.rs:201` says the most specific substring comes first, but `"a40"`
  (line 210) takes every "RTX A4000" from its row (line 221). `Shadowed` in
  HostRuntimes exempts that row from `ScoredByName`.
* `db.rs:41-42` leaves `COMMIT` and `ROLLBACK` to the caller, which a dropped
  handler never reaches, and `COMMIT`'s own error skips. `WriteLock` shows what
  follows: writers fail or wait until the connection is closed, and a single
  statement on that connection is answered and lost.
* A Metal start reports `running` before the worker has bound its port.

## 5. What is proved

All theorems hold for every value of the constants that satisfies the named
assumptions: prices any integers, deposits positive, times, steps and bounds natural, kinds
of requests disjoint, a port range that is not empty, platforms Docker or Metal,
stale containers of known rentals, and of the inventories (`InventoryAssumption`)
that they are finite, that a UUID identifies a GPU, and that a GPU's name contains
the entry that names it with what occurs in that entry, and no other. No set of ids is assumed finite: the tables,
the queues and the active calls are finite because a step adds at most one
element to them, and the proofs that count or sum carry that in their invariant.

`ControlPlaneProofs`, for any number of machines, accounts, rentals, invoices and
slots, any clock, queue and failures:

1. `TypeCorrect`: `Spec => []TypeOK`. `TypeOK` is inductive: the cap in `Charge`
   keeps balances natural at any price, `Moved` keeps what a host is owed so, and `References` keeps what a handler or the ticker
   has read alive until it writes. One step per action.
2. `OneLive`: `Spec => []OneLiveRentalPerMachine`. Not inductive alone:
   `create_rental` tests the *status* while the property speaks of `ended_at`.
   The strengthening `LiveOccupies` (a rental that has not ended has an occupying
   status) connects them, and holds because no commit clears `ended_at`.
3. `NobodyRidesFree`: `Spec => []NoFreeRide`. The strengthening `ReportsSettle`
   says of each report in flight that, if it is terminal and will not charge, its
   rental was charged already: a stale decision can charge twice, never not at all.
4. `BalancesReconcile`: `Spec => []LedgerReconciles`, by the strengthening that
   an account which does not exist has no ledger rows.
5. `CondemnedStaysOverBudget`: `Spec => []CondemnedIsOverBudget`. While the
   ticker waits for its transaction, the accrued charge only grows
   (`AccruedGrows`: only a rental whose price is not negative is ever condemned,
   `OnlyPricesAccrue`), the rental's terms are fixed (`TermsAreFixed`), and only the
   ticker itself could credit a deposit (`BalancesShrink`).
6. `OffersAreFree`: `Spec => []OfferedIsFree`, from `LiveOccupies`.
7. `LeasesAreExclusive`: `Spec => ImplementsLease`. Initial states map to initial
   states, and a step inserts a rental on a machine whose live set is empty, ends
   one, or leaves the lease alone.

The proofs argue by writer: `WritersOfRentals`, `WritersOfBalances` and
`WritersOfReports` say which actions can touch a table; a second lemma says what
each does to its rows.

`Sums` proves of the library's `SumFunctionOnSet` what the proofs below need: the
sum over the empty set is 0, an element that joins or leaves adds or takes its
value, and a value that changes changes the sum by the difference. The library
defines a sum as the choice of a recursive function, so the module first shows
that the recursion has a solution and that the order of the elements does not
matter. Both are inductions on the size of a set. `SumReindexed` says that a sum
over the positions of an enumeration is the sum over what it enumerates. The induction theorems of the
prover's library take an operator and cannot be instantiated; `NatSetInduction`
states induction for a *set* of naturals instead, and follows from the pigeonhole
principle of `FiniteSetTheorems`.

`MoneyProofs`, for any number of rows:

* `NoSatIsLost`: `Spec => []SatsConserved`. Needs `Books`: tables are finite, a
  rental that does not exist was charged nothing, and an invoice the ticker has
  still to poll is not credited. The last is what a second credit would violate:
  the tick reads its list once and works through it, and a restart or a failed
  poll throws away what is left of it. A credit moves sats from an invoice to an
  account, a charge from an account to a rental.
* `OwedIsCovered`: `Spec => []OwedWasCharged`. Only a report adds to what a host
  is owed, and it adds as much to what one of the host's rentals was charged;
  rentals never change machine, and a new one has been charged nothing.
* `RecordedIsPaid`: `PayoutsSpec => []RecordedWasPaid`. In `CoveredInv` a payout in
  flight counts as covered: `PayoutPay` adds it to the slots in flight and to the
  history, `PayoutCommit` moves it from the slots to the ledger, an abort or a
  restart drops it. A charge raises both terms of `RecordedPayouts` by the same.

`MarketplaceProofs`:

* `ForgottenByLoss`: `MarketSpec => ForgottenOnlyByLoss`, with every failure allowed.
  `ForgetInv` adds to the types that queues stay within their bound and that a
  command in a queue or a task is about a rental of that machine (`Addressed`), so
  that a drained queue, a dead agent or a lost report costs only rentals of its
  own. A command moves from the queue into a task, changes its outcome, becomes a
  report, and the report's commit is what ends the wait; a delete or an eviction
  always queues the stop with the status.
* `NobodyIsStranded`: `MarketSpec => []NoStrandedRental` if only Lightning and
  runtime errors occur (`Lossless`): then the steps that lose a command are not
  there.
* Both, and the next three, use what ControlPlane's proofs say of its steps: by
  the lemma `ClosedStep` a step of the closed system is a step of ControlPlane or
  leaves it alone, so its invariants hold here as well.
* `MarketTyped`: `MarketSpec => []MarketTypeOK`, with every failure allowed, as are
  the next two. Beside the tables, every task in
  an agent's bag has a positive count, through heartbeats that add several copies.
* `StartsAtMostOnce`: `MarketSpec => []AtMostOneStart`. The inductive form is
  `OneStart`: the start of a rental has one place in one queue, or is one task of
  one copy, or neither, and neither while the rental has no row. A row is inserted
  with its one start; a heartbeat empties the queue it answers from, whether the
  answer arrives or not, so that no step leaves a start in two places.
* `StartNeverQueuedAgain`: `MarketSpec => StartQueuedOnce`. Of the steps that write
  a queue, only `create_rental` adds a start (`StartsAreNotAdded`), and it does so
  for a rental that had no row. With the theorem before it, a start is received
  at most once, which is what HostRuntimes assumes of its callers.

`HostProofs`: `StopIsFinal`, `HostSpec => []StoppedStaysStopped`, on Docker
always and on Metal if the workers end with the agent (`NoOrphans`; without it
`claim_metal_stop` is the counterexample). `CallInv` follows the calls: steps are
of their command, a rental is started by one call, none that has ended is being
started. On Docker, no container of an ended rental exists, as only that start
could create one. On Metal (`MetalInv`), a job or a kill comes after the start,
and a worker has a job or a call that is about to enter or kill it.

`HostTyped` (`HostSpec => []HostTypeOK`) and `PortIsServed` (`HostSpec =>
ReportedPortIsServed`) hold also if workers outlive their agent. `TypeInv` follows
a port from its choice: a call at a later step of its start holds a port of the
range (`PortInv`), and a container that a start has created publishes the port
that the start holds (`PortKept`, as no other call can be creating one of that
rental). The choice was made from an old list, so the port may be taken; that is
harmless because Docker starts no second container on a port in use: the start
then fails, and reports no port.

`HostAgentProofs`: `HostIsAgent`, `HostSpec => ImplementsHostAgent` if workers end
with their agent (`NoOrphans`; otherwise a Metal stop that finds no job would
leave a workload of its rental behind, which is no step of HostAgent). Each step
of either runtime is one of five acts (`HostAct`): a call is received, goes on,
returns or reports, on Docker or on Metal; a workload ends; the process ends, or
starts. Each is a step of HostAgent or changes nothing it sees. That every
workload is one the runtime knows (`KnownIsAll`) follows from `MetalInv` and is
what makes the removal of a job the end of its workload. The bag of tasks is the
image of the active calls, so a call that begins, returns or ends adds, replaces
or removes one copy (`BagOfAdds`, `BagOfRemoves`). A workload that goes in
mid-call (`ClearStale`, `StopContainer`, `TakeJob`) is one that has ended.

`WriteLockProofs`: `LockTypeCorrect`, `WriterIsAlone`, `LeaksAreDrops` and
`AnswersAreDurable`, from the inductive `LockInv`: types, writers alone, and each
open transaction is that of the handler holding the connection, or was leaked.

`BenchmarkProofs`, for every inventory, in whatever order its GPUs are listed:

* `RegistrationProbed`: `HostSpec => []RegistrationInv`, what was registered last
  is the probe of GPUs the host has had, in one of their enumerations.
* `TracksHardware`: `HostSpec => FingerprintTracksHardware`. `Sort` is a choice, so
  the proof shows first that there is something to choose (`OrderExists`, by
  induction on the size of the set with its greatest element) and that there is
  only one (`OrderIsUnique`). Hence two enumerations of the same GPUs have the same
  fingerprint; and since its range is the set of the GPUs' strings, different GPUs
  have different ones.
* `ScoredByNames`: `HostSpec => []ScoredByName`, although a name matches several
  rows and the first one counts. Row by row (`SpecificFirst`, `AppleSpecificFirst`),
  whatever occurs in an entry has its own row further down, so the first match is
  the row that names the GPU (`FirstMatchIsNamed`). The one row of which this is
  false is `Shadowed`, listed in section 4. The sum is independent of the
  enumeration by `SumReindexed`.

So each invariant and each action property of the passing runs is a theorem, the
two refinements (`ImplementsLease`, `ImplementsHostAgent`) included. Only
model-checked are the five liveness properties (`EvictionCompletes`,
`OverrunIsEnded`, `PaidIsCredited`, `EveryRequestEnds`, `LockIsFreed`): fairness is about `ENABLED`, which the prover does not treat.

## 6. Not modelled

* Tokens and ids are opaque: a request comes from the machine or tenant it names.
* `gpu-bench`, NVML and Metal probing, the GEMM timing and the worker's compute
  loop: hardware access and floating point, no state that outlives a call.
* The CLI: one blocking request and its formatting per invocation, no retries.
* The money type: checked arithmetic with unit tests. The width of `i64` in
  `accrued_charge`: an overflow needs a rate of about 1e14 sats a minute.
* The mock backend's hash counter, which starts over at a restart; the LND
  backend, which is a stub that always errs.
* `get_account`, `get_rental`, `health`: reads of one row.

Worth adding next: the split of `register` into lookup and insert.
