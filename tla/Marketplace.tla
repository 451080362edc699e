----------------------------- MODULE Marketplace -----------------------------
(***************************************************************************)
(* The whole system: the control plane with the host agents of this        *)
(* repository, so that every report is the outcome of a command that was   *)
(* queued, delivered and executed.  Tenants, providers and the Lightning   *)
(* node stay as unconstrained as in ControlPlane.                          *)
(***************************************************************************)
EXTENDS ControlPlane, FiniteSets

VARIABLES up, tasks, workloads

Agent == INSTANCE HostAgent

agent == <<up, tasks, workloads>>
marketVars == <<vars, agent>>

MarketFaults == FaultKinds \cup
              {"lost_response",   \* a heartbeat is served, its answer is lost
               "lost_report",     \* a report never reaches the control plane
               "runtime_error",   \* the runtime, a start, a stop or a workload fails
               "agent_crash",     \* an agent process dies
               "shutdown"}        \* a provider stops the agent with ctrl_c

MarketInit == Init /\ Agent!Init

(* register, as the agent calls it: main refuses a price below 1 first.    *)
Register(m) ==
    \E rate \in Rates : /\ rate >= 1
                        /\ RegisterNew(m, rate) \/ RegisterAgain(m, rate)

(* Agent start-up: register, then the heartbeat loop.                      *)
Boot(m) ==
    /\ Register(m)
    /\ Agent!Boot(m)

(* Start-up fails once the machine is registered: the runtime is missing.  *)
BootFails(m) ==
    /\ "runtime_error" \in Faults
    /\ m \notin up
    /\ Register(m)
    /\ UNCHANGED agent

(* One turn of the heartbeat loop.                                         *)
Beat(m) ==
    /\ Heartbeat(m, TRUE)
    /\ Agent!Receive(m, commands[m])

(* The queue is drained, but the response never arrives.                   *)
BeatLost(m) ==
    /\ "lost_response" \in Faults
    /\ m \in up
    /\ Heartbeat(m, TRUE)
    /\ UNCHANGED agent

(* ctrl_c: a last heartbeat, offline; the commands it returns are ignored. *)
Shutdown(m) ==
    /\ "shutdown" \in Faults
    /\ Heartbeat(m, FALSE)
    /\ Agent!Exit(m)

AgentCrash(m) ==
    /\ "agent_crash" \in Faults
    /\ Agent!Exit(m)
    /\ UNCHANGED vars

(* A task runs its command against the runtime.                            *)
Execute(t) ==
    /\ Agent!Launch(t) \/ Agent!Halt(t)
    /\ UNCHANGED vars

ExecuteFails(t) ==
    /\ "runtime_error" \in Faults
    /\ Agent!LaunchFails(t) \/ Agent!LaunchDead(t) \/ Agent!HaltFails(t)
    /\ UNCHANGED vars

WorkloadEnds(m) ==
    /\ "runtime_error" \in Faults
    /\ \E r \in RentalIds : Agent!WorkloadEnds(m, r)
    /\ UNCHANGED vars

(* A task's report reaches the handler, which authenticates the machine    *)
(* and reads the rental row.                                               *)
DeliverReport(s, t) ==
    /\ Agent!SendReport(t)
    /\ rentals[t.rental].machine = t.machine
    /\ ReportRead(s, t.rental, t.outcome)

LoseReport(t) ==
    /\ "lost_report" \in Faults
    /\ Agent!SendReport(t)
    /\ UNCHANGED vars

ControlPlaneStep ==
    \/ PassTime
    \/ TenantRequest
    \/ ProviderRequest
    \/ \E s \in Slots : Commit(s)
    \/ TickerStep
    \/ \E i \in InvoiceIds : PayInvoice(i)
    \/ Fault

AgentStep ==
    \/ \E m \in Machines :
          \/ Boot(m) \/ BootFails(m) \/ Beat(m) \/ BeatLost(m)
          \/ Shutdown(m) \/ AgentCrash(m) \/ WorkloadEnds(m)
    \/ \E t \in Agent!Running :
          \/ Execute(t)
          \/ ExecuteFails(t)
          \/ LoseReport(t)
          \/ \E s \in Slots : DeliverReport(s, t)

MarketNext ==
    \/ ControlPlaneStep /\ UNCHANGED agent
    \/ AgentStep

MarketSpec == MarketInit /\ [][MarketNext]_marketVars

(* The ticker runs for ever and the runtime drives every accepted request  *)
(* to its end; an agent that is up keeps beating, and runs and reports     *)
(* each task.  A report waits for a free slot, of which the server has as  *)
(* many as there are connections: the strong fairness stands for that.     *)
MarketFairness ==
    /\ WF_marketVars(TickerStep /\ UNCHANGED agent)
    /\ \A s \in Slots : WF_marketVars(Commit(s) /\ UNCHANGED agent)
    /\ \A m \in Machines : WF_marketVars(Beat(m))
    /\ \A t \in Agent!Pending :
          WF_marketVars(t \in Agent!Running /\ Execute(t))
    /\ \A t \in Agent!Finished :
          SF_marketVars(t \in Agent!Running
                           /\ \E s \in Slots : DeliverReport(s, t))

FairMarketSpec == MarketSpec /\ MarketFairness

-----------------------------------------------------------------------------
(* What is under way for a rental, anywhere between the control plane's    *)
(* queue and the commit of the report.                                     *)

Queued(c) == \E m \in Machines, n \in 1..MaxQueue :
                n \in DOMAIN commands[m] /\ commands[m][n] = c

Tasked(r, cmd) == \E t \in Agent!Running : t.rental = r /\ t.cmd = cmd

Reporting(r, statuses) ==
    \E s \in Slots : /\ requests[s].op = "report"
                     /\ requests[s].rental = r
                     /\ requests[s].status \in statuses

StartUnderway(r) == \/ Queued(StartRental(r))
                    \/ Tasked(r, "start_rental")
                    \/ Reporting(r, {"running", "failed"})

StopUnderway(r) == \/ Queued(StopRental(r))
                   \/ Tasked(r, "stop_rental")
                   \/ Reporting(r, {"stopped", "failed"})

(* Somebody is at work on what the row of r waits for.                     *)
Attended(r) == /\ rentals[r].status = "provisioning" => StartUnderway(r)
               /\ rentals[r].status = "evicting" => StopUnderway(r)

(* Without losses, a rental that waits for its agent is never forgotten:   *)
(* while it is provisioning its start, and while it is evicting a stop, is *)
(* queued, being executed or being reported, however many deletes,         *)
(* evictions and reports race for the row.                                 *)
NoStrandedRental == \A r \in DOMAIN rentals : Attended(r)

(* The losses: a drained queue whose answer nobody acts on, the end of the *)
(* agent, and a report that is not sent, dropped or cut off by a restart.  *)
HostLoss(m) == BeatLost(m) \/ Shutdown(m) \/ AgentCrash(m)

ReportLoss(r) ==
    \/ \E t \in Agent!Running : t.rental = r /\ LoseReport(t)
    \/ /\ \/ \E s \in Slots : /\ requests[s].op = "report"
                             /\ requests[s].rental = r
                             /\ Abort(s)
          \/ Restart
       /\ UNCHANGED agent

(* A rental that waits for its agent is forgotten only by a loss of its    *)
(* own: one of its host, or of a report about it.  Failing runtimes, failed*)
(* registrations, ticks that end early, and whatever happens to other      *)
(* rentals and hosts, never make the row wait for a command that is gone.  *)
ForgottenOnlyByLoss ==
    [][\A r \in DOMAIN rentals :
          Attended(r) /\ ~Attended(r)' =>
              HostLoss(rentals[r].machine) \/ ReportLoss(r)]_marketVars

(* Type invariant of the whole system.                                     *)
MarketTypeOK == TypeOK /\ Agent!TypeOK

StartsQueued(r) == {p \in Machines \X (1..MaxQueue) :
                       /\ p[2] \in DOMAIN commands[p[1]]
                       /\ commands[p[1]][p[2]] = StartRental(r)}

StartTasks(r) == {t \in Agent!Running : t.rental = r /\ t.cmd = "start_rental"}

(* Commands are delivered at most once: whatever is lost or restarted, the *)
(* start of a rental is never both queued and executed, or executed twice, *)
(* so no two tasks create a container for it.                              *)
AtMostOneStart ==
    \A r \in RentalIds :
        Cardinality(StartsQueued(r))
          + SumFunctionOnSet(tasks, StartTasks(r)) <= 1

(* agent.rs:116-140: a start leaves the queue with the heartbeat that      *)
(* drains it, and nothing puts it back: no retry, registration, eviction or*)
(* restart starts a rental a second time.                                  *)
StartQueuedOnce ==
    [][\A r \in DOMAIN rentals :
          StartsQueued(r) = {} => StartsQueued(r)' = {}]_marketVars

(* A rental is marked evicting by the ticker or by a delete; without       *)
(* losses its agent does stop it.                                          *)
EvictionCompletes ==
    \A r \in RentalIds :
        (r \in DOMAIN rentals /\ rentals[r].status = "evicting")
            ~> (r \in DOMAIN rentals /\ IsTerminal(rentals[r].status))

Overrun(r) == /\ r \in DOMAIN rentals
              /\ rentals[r].status = "running"
              /\ OverBudget(r)
              /\ ~Silent(rentals[r].machine)

(* A rental that outruns its balance while its host is alive leaves        *)
(* `running`, or the balance is topped up, or the host falls silent.       *)
OverrunIsEnded == \A r \in RentalIds : Overrun(r) ~> ~Overrun(r)

(* A deposit the Lightning node has received is credited to its account.   *)
PaidIsCredited ==
    \A i \in InvoiceIds : i \in paid ~> (i \in DOMAIN invoices
                                              /\ invoices[i].settled)

-----------------------------------------------------------------------------
(* Claims of the repository's documents and comments that the code does    *)
(* not keep.  Each is checked on its own; TLC's counterexample is a finding.*)

(* agent.rs:185-187: the rental is billed once, and a report about an      *)
(* already terminal rental never charges again.  `report` decides from a   *)
(* row read before its transaction.                                        *)
ChargedAtMostOnce ==
    [][\A r \in settled : ledger'.charged[r] = ledger.charged[r]]_vars

(* BACKGROUND.md:180-182, SPEC.md:192-193: a machine with an occupying     *)
(* rental is not rented again.  A late report puts a terminal rental back  *)
(* among the occupying ones.                                               *)
AtMostOneOccupant ==
    \A r1, r2 \in DOMAIN rentals :
        /\ rentals[r1].machine = rentals[r2].machine
        /\ OccupiesMachine(rentals[r1].status)
        /\ OccupiesMachine(rentals[r2].status)
        => r1 = r2

(* SPEC.md:267-268, billing.rs:94-95: the clock stops for a silent host.   *)
(* The stop-time charge of `report` covers the silent time too.            *)
SilentTimeUnbilled ==
    [][\A s \in Slots : ReportCommit(s) =>
          LET r == requests[s].rental
              m == rentals[r].machine
          IN  ledger'.charged[r] - ledger.charged[r]
                <= AccruedCharge(rentals[r].createdAt,
                                 machines[m].lastHeartbeat + HeartbeatTimeout,
                                 rentals[r].rate)]_vars

(* SPEC.md:94: payout_balance is the "sats owed to this host": with no     *)
(* payout in flight it is what the ledger has credited the host and not    *)
(* paid out.  `payout` pays and records the balance it has read, and zeroes*)
(* whatever the balance has become: two payouts in flight both record the  *)
(* same balance, and a credit between the two steps would be wiped out.    *)
PayoutBalanceIsOwed ==
    \A m \in DOMAIN machines :
        (\A s \in Slots : requests[s].op # "payout")
            => machines[m].payoutBalance = ledger.machine[m]

(* SPEC.md:226: a tenant never consumes compute they have not paid for: a  *)
(* workload belongs to a rental that still occupies its machine, or whose  *)
(* start is still being reported.  The tasks of a start and of a stop run  *)
(* in either order, and their reports commit in either order: a stop that  *)
(* ran before its start may be the last to commit.                         *)
NoFreeCompute ==
    \A m \in Machines : \A r \in workloads[m] :
        \/ OccupiesMachine(rentals[r].status)
        \/ Tasked(r, "start_rental") \/ Reporting(r, {"running"})
=============================================================================
