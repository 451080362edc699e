-------------------------- MODULE MarketplaceProofs --------------------------
(***************************************************************************)
(* Theorems of the closed system, for every number of machines, tenants    *)
(* and handlers.                                                           *)
(*                                                                         *)
(*   1. ForgottenByLoss        a rental that waits for its agent loses its *)
(*                             command only with its host or its report    *)
(*   2. NobodyIsStranded       without losses, a rental that waits for its *)
(*                             agent always has its command under way      *)
(*   3. MarketTyped            the type invariant of the closed system, with*)
(*                             the counts of the agents' bags of tasks     *)
(*   4. StartsAtMostOnce       the start of a rental is never queued twice,*)
(*                             executed twice, or queued while executed,   *)
(*                             whatever is lost, fails or restarts         *)
(*   5. StartNeverQueuedAgain  a start that has left its queue never comes *)
(*                             back to it                                  *)
(*                                                                         *)
(* The agents do only what ControlPlane lets its clients do (ClosedStep),  *)
(* so the lemmas of ControlPlaneProofs hold of every step here.            *)
(***************************************************************************)
EXTENDS Marketplace, ControlPlaneProofs, Sums

-----------------------------------------------------------------------------
(* What the steps of the system do to the tasks of the agents.             *)

TasksTyped == Agent!Running \subseteq Agent!Task

(* A task that finishes is replaced by the same task with an outcome.      *)
LEMMA Finishing ==
    ASSUME NEW t \in Agent!Running, NEW outcome, Agent!Finish(t, outcome)
    PROVE  /\ Agent!Running' \subseteq
                 Agent!Running \cup {[t EXCEPT !.outcome = outcome]}
           /\ [t EXCEPT !.outcome = outcome] \in Agent!Running'
           /\ \A u \in Agent!Running \ {t} : u \in Agent!Running'
BY DEF Agent!Finish, Agent!BagAdd, Agent!BagRemove, Agent!Running

(* A task that reports loses one copy.                                     *)
LEMMA Sending ==
    ASSUME NEW t \in Agent!Running, Agent!SendReport(t)
    PROVE  /\ Agent!Running' \subseteq Agent!Running
           /\ \A u \in Agent!Running \ {t} : u \in Agent!Running'
BY DEF Agent!SendReport, Agent!BagRemove, Agent!Running

(* A heartbeat adds the tasks of its commands.                             *)
LEMMA Receiving ==
    ASSUME NEW m \in Machines, NEW cmds, Agent!Receive(m, cmds)
    PROVE  Agent!Running' =
              Agent!Running \cup {Agent!NewTask(m, cmds[n]) : n \in DOMAIN cmds}
BY DEF Agent!Receive, Agent!Running

(* A runtime call finishes its task.                                       *)
Finishes(t) ==
    \E outcome \in {"running", "failed", "stopped"} :
        /\ Agent!Finish(t, outcome)
        /\ [t EXCEPT !.outcome = outcome] \in Agent!Task

(* A runtime call that succeeds or fails finishes its task, and leaves the *)
(* control plane alone.                                                    *)
LEMMA Executing ==
    ASSUME TasksTyped, NEW t \in Agent!Running,
           Execute(t) \/ ExecuteFails(t)
    PROVE  Finishes(t) /\ UNCHANGED vars
<1>1. t \in Agent!Task
  BY DEF TasksTyped
<1>2. ASSUME t.cmd = "start_rental", t.outcome = "pending",
             NEW outcome \in {"running", "failed"}
      PROVE  [t EXCEPT !.outcome = outcome] \in Agent!Task
  BY <1>1, <1>2 DEF Agent!Task, Agent!Pending, Agent!Finished
<1>3. ASSUME t.cmd = "stop_rental", t.outcome = "pending",
             NEW outcome \in {"stopped", "failed"}
      PROVE  [t EXCEPT !.outcome = outcome] \in Agent!Task
  BY <1>1, <1>3 DEF Agent!Task, Agent!Pending, Agent!Finished
<1> QED
  BY <1>2, <1>3 DEF Finishes, Execute, ExecuteFails, Agent!Launch,
     Agent!LaunchFails, Agent!LaunchDead, Agent!Halt, Agent!HaltFails

(* The writers of the tasks.                                               *)
LEMMA WritersOfTasks ==
    ASSUME TasksTyped, [MarketNext]_marketVars
    PROVE  \/ UNCHANGED tasks
           \/ \E m \in Machines : Beat(m)
           \/ \E m \in Machines : Shutdown(m) \/ AgentCrash(m)
           \/ \E t \in Agent!Running :
                 \/ Finishes(t) /\ UNCHANGED vars
                 \/ LoseReport(t)
                 \/ \E s \in Slots : DeliverReport(s, t)
<1>1. ASSUME NEW m \in Machines,
             Boot(m) \/ BootFails(m) \/ BeatLost(m) \/ WorkloadEnds(m)
      PROVE  UNCHANGED tasks
  BY <1>1 DEF Boot, BootFails, BeatLost, WorkloadEnds, agent, Agent!Boot,
     Agent!WorkloadEnds
<1>2. CASE UNCHANGED agent
  BY <1>2 DEF agent
<1> QED
  BY <1>1, <1>2, Executing DEF MarketNext, AgentStep, marketVars

-----------------------------------------------------------------------------
(* The closed system takes the steps of the open one.                      *)

ClosedInv == TypeOK /\ TasksTyped

(* The tasks stay typed.                                                   *)
LEMMA TasksStep ==
    ASSUME ClosedInv, [MarketNext]_marketVars
    PROVE  TasksTyped'
<1>0. TasksTyped
  BY DEF ClosedInv
<1>1. CASE UNCHANGED tasks
  BY <1>0, <1>1 DEF TasksTyped, Agent!Running
<1>2. ASSUME NEW m \in Machines, Beat(m) PROVE TasksTyped'
  <2>1. \A n \in DOMAIN commands[m] : commands[m][n] \in Commands(RentalIds)
    BY DEF ClosedInv, TypeOK
  <2>2. \A n \in DOMAIN commands[m] :
           Agent!NewTask(m, commands[m][n]) \in Agent!Task
    BY <2>1 DEF Commands, Agent!NewTask, Agent!Task, Agent!Pending
  <2> QED BY <1>0, <1>2, <2>2, Receiving DEF Beat, TasksTyped
<1>3. ASSUME NEW m \in Machines, Shutdown(m) \/ AgentCrash(m)
      PROVE  TasksTyped'
  BY <1>0, <1>3 DEF Shutdown, AgentCrash, Agent!Exit, TasksTyped,
     Agent!Running
<1>4. ASSUME NEW t \in Agent!Running, Finishes(t) PROVE TasksTyped'
  BY <1>0, <1>4, Finishing DEF Finishes, TasksTyped
<1>5. ASSUME NEW t \in Agent!Running, Agent!SendReport(t) PROVE TasksTyped'
  BY <1>0, <1>5, Sending DEF TasksTyped
<1> QED
  BY <1>0, <1>1, <1>2, <1>3, <1>4, <1>5, WritersOfTasks
  DEF LoseReport, DeliverReport

(* Every step of the closed system is a step of the open one, or leaves    *)
(* the control plane alone.                                                *)
LEMMA ClosedStep ==
    ASSUME ClosedInv, [MarketNext]_marketVars
    PROVE  [Next]_vars
<1>1. CASE ControlPlaneStep \/ UNCHANGED marketVars
  BY <1>1 DEF ControlPlaneStep, Next, marketVars
<1>2. ASSUME NEW m \in Machines,
             \/ Boot(m) \/ BootFails(m) \/ Beat(m) \/ BeatLost(m)
             \/ Shutdown(m) \/ AgentCrash(m) \/ WorkloadEnds(m)
      PROVE  AgentRequest \/ UNCHANGED vars
  BY <1>2 DEF Boot, BootFails, Register, Beat, BeatLost, Shutdown, AgentCrash,
     WorkloadEnds, AgentRequest
<1>3. ASSUME NEW t \in Agent!Running, Execute(t) \/ ExecuteFails(t) \/
             LoseReport(t)
      PROVE  UNCHANGED vars
  BY <1>3 DEF Execute, ExecuteFails, LoseReport
<1>4. ASSUME NEW t \in Agent!Running, NEW s \in Slots, DeliverReport(s, t)
      PROVE  AgentRequest
  <2>1. t \in Agent!Task /\ t.outcome # "pending"
    BY <1>4 DEF ClosedInv, TasksTyped, DeliverReport, Agent!SendReport
  <2>2. t.rental \in RentalIds /\ t.outcome \in ReportStatus
    BY <2>1 DEF Agent!Task, Agent!Pending, Agent!Finished, ReportStatus
  <2> QED BY <1>4, <2>2 DEF DeliverReport, AgentRequest
<1>5. AgentRequest => Next
  BY DEF Next
<1>6. CASE AgentStep
  BY <1>2, <1>3, <1>4, <1>5, <1>6 DEF AgentStep
<1> QED BY <1>1, <1>6 DEF MarketNext

(* The type invariant of the closed system.                                *)
LEMMA ClosedAlways == MarketSpec => []ClosedInv
<1>1. MarketInit => ClosedInv
  BY InitType DEF MarketInit, ClosedInv, TasksTyped, Agent!Init,
     Agent!NoTasks, Agent!Running
<1>2. ClosedInv /\ [MarketNext]_marketVars => ClosedInv'
  BY ClosedStep, TasksStep, TypeStep DEF ClosedInv
<1> QED BY <1>1, <1>2, PTL DEF MarketSpec

-----------------------------------------------------------------------------
(* Nobody is forgotten.                                                    *)

QueuesBounded == \A m \in Machines : Len(commands[m]) <= MaxQueue

(* A command in a queue, and its task, are about a rental of that machine. *)
AddressedTo(r, m) == r \in DOMAIN rentals /\ rentals[r].machine = m

Addressed ==
    /\ \A m \in Machines : \A n \in DOMAIN commands[m] :
          AddressedTo(commands[m][n].rental, m)
    /\ \A t \in Agent!Running : AddressedTo(t.rental, t.machine)

ForgetInv == ClosedInv /\ QueuesBounded /\ Addressed

Cmds == {"start_rental", "stop_rental"}

Outcomes(cmd) == IF cmd = "start_rental" THEN {"running", "failed"}
                                         ELSE {"stopped", "failed"}

(* StartUnderway and StopUnderway in one.                                  *)
Underway(r, cmd) == \/ Queued([cmd |-> cmd, rental |-> r])
                    \/ Tasked(r, cmd)
                    \/ Reporting(r, Outcomes(cmd))

(* A queue is drained by a heartbeat, whoever reads the response.          *)
Drained(m) == commands' = [commands EXCEPT ![m] = << >>]

(* The writers of the queues.                                              *)
LEMMA WritersOfCommands ==
    ASSUME ClosedInv, [MarketNext]_marketVars
    PROVE  \/ UNCHANGED commands
           \/ \E r \in RentalIds, m \in Machines, a \in Accounts :
                 CreateRental(r, m, a)
           \/ \E r \in DOMAIN rentals : MarkEvicting(r)
           \/ \E m \in Machines : Drained(m) /\ (Beat(m) \/ HostLoss(m))
<1>1. CASE UNCHANGED marketVars \/ PassTime \/ ProviderRequest
           \/ (\E i \in InvoiceIds : PayInvoice(i)) \/ Fault
  BY <1>1 DEF marketVars, vars, tables, PassTime, ProviderRequest, SetRate,
     PayoutPay, PayInvoice, Fault, PollFails, Restart, Abort
<1>2. CASE TenantRequest
  BY <1>2 DEF TenantRequest, CreateAccount, Deposit, DeleteRead, tables
<1>3. CASE TickerStep
  <2>1. CASE EvictRental
    <3>1. ticker.rental \in DOMAIN rentals
      BY <2>1 DEF EvictRental, ClosedInv, TypeOK, References
    <3> QED BY <2>1, <3>1 DEF EvictRental
  <2>2. CASE ~EvictRental
    BY <1>3, <2>2 DEF TickerStep, PollInvoices, SettleInvoice, SkipInvoice,
       MarkOffline, ListRunning, KeepRental, CondemnRental, EndTick, tables
  <2> QED BY <2>1, <2>2
<1>4. ASSUME NEW s \in Slots, Commit(s)
      PROVE  UNCHANGED commands \/ \E r \in DOMAIN rentals : MarkEvicting(r)
  <2>1. CASE DeleteCommit(s)
    <3>1. requests[s].rental \in DOMAIN rentals
      BY <2>1, DeleteInFlight DEF DeleteCommit, ClosedInv
    <3> QED BY <2>1, <3>1 DEF DeleteCommit
  <2>2. CASE ReportCommit(s) \/ PayoutCommit(s)
    BY <2>2 DEF ReportCommit, PayoutCommit
  <2> QED BY <1>4, <2>1, <2>2 DEF Commit
<1>5. ASSUME NEW m \in Machines,
             Boot(m) \/ BootFails(m) \/ AgentCrash(m) \/ WorkloadEnds(m)
      PROVE  UNCHANGED commands
  BY <1>5 DEF Boot, BootFails, Register, AgentCrash, WorkloadEnds, vars,
     tables, RegisterNew, RegisterAgain
<1>6. ASSUME NEW m \in Machines, Beat(m) \/ BeatLost(m) \/ Shutdown(m)
      PROVE  Drained(m) /\ (Beat(m) \/ HostLoss(m))
  BY <1>6 DEF Beat, BeatLost, Shutdown, HostLoss, Heartbeat, Drained
<1>7. ASSUME NEW t \in Agent!Running,
             \/ Execute(t) \/ ExecuteFails(t) \/ LoseReport(t)
             \/ \E s \in Slots : DeliverReport(s, t)
      PROVE  UNCHANGED commands
  BY <1>7 DEF Execute, ExecuteFails, LoseReport, DeliverReport, ReportRead,
     vars, tables
<1>8. CASE AgentStep
  BY <1>5, <1>6, <1>7, <1>8 DEF AgentStep
<1> QED
  BY <1>1, <1>2, <1>3, <1>4, <1>8 DEF MarketNext, ControlPlaneStep

(* A queue is drained, by its agent or by a loss, or it only grows, within *)
(* its bound.                                                              *)
LEMMA QueueStep ==
    ASSUME ClosedInv, QueuesBounded, [MarketNext]_marketVars,
           NEW m \in Machines
    PROVE  /\ Len(commands'[m]) <= MaxQueue
           /\ \/ Beat(m) \/ HostLoss(m)
              \/ \A n \in DOMAIN commands[m] :
                    n \in DOMAIN commands'[m] /\ commands'[m][n] = commands[m][n]
<1> DEFINE Grows == \A n \in DOMAIN commands[m] :
              n \in DOMAIN commands'[m] /\ commands'[m][n] = commands[m][n]
<1>0. /\ commands \in [Machines -> Seq(Commands(RentalIds))]
      /\ Len(commands[m]) <= MaxQueue
      /\ MaxQueue \in Nat
  BY QueueAssumption DEF ClosedInv, TypeOK, QueuesBounded
<1>1. CASE UNCHANGED commands
  BY <1>0, <1>1
<1>2. ASSUME NEW x \in Machines, NEW c \in Commands(RentalIds),
             Len(commands[x]) < MaxQueue,
             commands' = [commands EXCEPT ![x] = Append(@, c)]
      PROVE  Len(commands'[m]) <= MaxQueue /\ Grows
  BY <1>0, <1>2
<1>3. ASSUME NEW r \in RentalIds, NEW x \in Machines, NEW a \in Accounts,
             CreateRental(r, x, a)
      PROVE  Len(commands'[m]) <= MaxQueue /\ Grows
  BY <1>2, <1>3 DEF CreateRental, StartRental, Commands
<1>4. ASSUME NEW r \in DOMAIN rentals, MarkEvicting(r)
      PROVE  Len(commands'[m]) <= MaxQueue /\ Grows
  <2>1. rentals[r].machine \in Machines /\ StopRental(r) \in Commands(RentalIds)
    BY DEF ClosedInv, TypeOK, RentalRow, StopRental, Commands
  <2> QED BY <1>2, <1>4, <2>1 DEF MarkEvicting
<1>5. ASSUME NEW x \in Machines, Drained(x), Beat(x) \/ HostLoss(x)
      PROVE  Len(commands'[m]) <= MaxQueue /\ (Beat(m) \/ HostLoss(m) \/ Grows)
  <2>1. CASE x = m
    BY <1>0, <1>5, <2>1 DEF Drained
  <2>2. CASE x # m
    BY <1>0, <1>5, <2>2 DEF Drained
  <2> QED BY <2>1, <2>2
<1> QED
  BY <1>1, <1>3, <1>4, <1>5, WritersOfCommands

(* Commands stay with the machine of their rental, on the way into a queue *)
(* and out of it.                                                          *)
LEMMA AddressedStep ==
    ASSUME ForgetInv, [MarketNext]_marketVars
    PROVE  Addressed'
<1>0. /\ ClosedInv /\ TypeOK /\ TasksTyped /\ Addressed /\ [Next]_vars
      /\ commands \in [Machines -> Seq(Commands(RentalIds))]
  BY ClosedStep DEF ForgetInv, ClosedInv, TypeOK
<1>1. ASSUME NEW r, NEW m, AddressedTo(r, m) PROVE AddressedTo(r, m)'
  BY <1>0, <1>1, TermsAreFixed DEF AddressedTo
<1>2. ASSUME NEW m \in Machines, NEW n \in DOMAIN commands'[m]
      PROVE  AddressedTo(commands[m][n].rental, m)'
  <2>1. CASE n \in DOMAIN commands[m] /\ commands'[m][n] = commands[m][n]
    <3>1. AddressedTo(commands[m][n].rental, m)
      BY <1>0, <2>1 DEF Addressed
    <3> QED BY <1>1, <2>1, <3>1 DEF AddressedTo
  <2>2. CASE UNCHANGED commands
    BY <1>2, <2>1, <2>2
  <2>3. ASSUME NEW x \in Machines, Drained(x)
        PROVE  n \in DOMAIN commands[m] /\ commands'[m][n] = commands[m][n]
    BY <1>0, <1>2, <2>3 DEF Drained
  <2>4. ASSUME NEW x \in Machines, NEW c,
               commands' = [commands EXCEPT ![x] = Append(@, c)]
        PROVE  \/ n \in DOMAIN commands[m] /\ commands'[m][n] = commands[m][n]
               \/ x = m /\ commands'[m][n] = c
    BY <1>0, <1>2, <2>4
  <2>5. ASSUME NEW r \in RentalIds, NEW x \in Machines, NEW a \in Accounts,
               CreateRental(r, x, a)
        PROVE  AddressedTo(commands[m][n].rental, m)'
    <3>1. AddressedTo(r, x)'
      BY <2>5 DEF AddressedTo, CreateRental, Insert
    <3>2. commands' = [commands EXCEPT ![x] = Append(@, StartRental(r))]
      BY <2>5 DEF CreateRental
    <3>3. CASE x = m /\ commands'[m][n] = StartRental(r)
      BY <3>1, <3>3 DEF StartRental, AddressedTo
    <3> QED BY <2>1, <2>4, <3>2, <3>3
  <2>6. ASSUME NEW r \in DOMAIN rentals, MarkEvicting(r)
        PROVE  AddressedTo(commands[m][n].rental, m)'
    <3>1. PICK x \in Machines :
             /\ x = rentals[r].machine
             /\ commands' = [commands EXCEPT ![x] = Append(@, StopRental(r))]
      BY <1>0, <2>6 DEF MarkEvicting, TypeOK, RentalRow
    <3>2. AddressedTo(r, x)'
      BY <1>1, <3>1 DEF AddressedTo
    <3>3. CASE x = m /\ commands'[m][n] = StopRental(r)
      BY <3>2, <3>3 DEF StopRental, AddressedTo
    <3> QED BY <2>1, <2>4, <3>1, <3>3
  <2> QED BY <1>0, <2>1, <2>2, <2>3, <2>5, <2>6, WritersOfCommands
<1>3. ASSUME NEW t \in Agent!Running' PROVE AddressedTo(t.rental, t.machine)'
  <2>1. ASSUME NEW u \in Agent!Running,
               t.rental = u.rental, t.machine = u.machine
        PROVE  AddressedTo(t.rental, t.machine)'
    <3>1. AddressedTo(u.rental, u.machine)
      BY <1>0 DEF Addressed
    <3> QED BY <1>1, <2>1, <3>1
  <2>2. CASE UNCHANGED tasks
    BY <2>1, <2>2 DEF Agent!Running
  <2>3. ASSUME NEW m \in Machines, Beat(m)
        PROVE  AddressedTo(t.rental, t.machine)'
    <3>1. CASE t \in Agent!Running
      BY <2>1, <3>1
    <3>2. ASSUME NEW n \in DOMAIN commands[m],
                 t = Agent!NewTask(m, commands[m][n])
          PROVE  AddressedTo(t.rental, t.machine)'
      <4>1. AddressedTo(commands[m][n].rental, m)
        BY <1>0 DEF Addressed
      <4> QED BY <1>1, <3>2, <4>1 DEF Agent!NewTask
    <3> QED BY <2>3, <3>1, <3>2, Receiving DEF Beat
  <2>4. ASSUME NEW m \in Machines, Shutdown(m) \/ AgentCrash(m)
        PROVE  t \in Agent!Running
    BY <2>4 DEF Shutdown, AgentCrash, Agent!Exit, Agent!Running
  <2>5. ASSUME NEW u \in Agent!Running, Finishes(u)
        PROVE  AddressedTo(t.rental, t.machine)'
    <3>1. PICK outcome :
             Agent!Running' \subseteq
                Agent!Running \cup {[u EXCEPT !.outcome = outcome]}
      BY <2>5, Finishing DEF Finishes
    <3>2. u \in Agent!Task
      BY <1>0 DEF TasksTyped
    <3>3. /\ [u EXCEPT !.outcome = outcome].rental = u.rental
          /\ [u EXCEPT !.outcome = outcome].machine = u.machine
      BY <3>2 DEF Agent!Task, Agent!Pending, Agent!Finished
    <3> QED BY <2>1, <3>1, <3>3
  <2>6. ASSUME NEW u \in Agent!Running, Agent!SendReport(u)
        PROVE  t \in Agent!Running
    BY <2>6, Sending
  <2> QED
    BY <1>0, <2>1, <2>2, <2>3, <2>4, <2>5, <2>6, WritersOfTasks
    DEF LoseReport, DeliverReport
<1> QED BY <1>2, <1>3 DEF Addressed

(* The requests in flight stay until they commit or are cut off.           *)
LEMMA RequestStep ==
    ASSUME ClosedInv, [MarketNext]_marketVars,
           NEW s \in Slots, requests[s].op = "report"
    PROVE  \/ requests'[s] = requests[s]
           \/ ReportCommit(s)
           \/ (Abort(s) \/ Restart) /\ UNCHANGED agent
<1>0. requests \in [Slots -> Request]
  BY DEF ClosedInv, TypeOK
<1>1. CASE UNCHANGED requests
  BY <1>1
<1>2. ASSUME NEW x \in Slots, NEW q, requests[x].op # "report",
             requests' = [requests EXCEPT ![x] = q]
      PROVE  requests'[s] = requests[s]
  BY <1>0, <1>2
<1>3. Idle.op # "report"
  BY DEF Idle
<1>4. ASSUME NEW x \in Slots, NEW r,
             \/ DeleteRead(x, r)
             \/ \E status : ReportRead(x, r, status)
      PROVE  requests'[s] = requests[s]
  BY <1>2, <1>3, <1>4 DEF DeleteRead, ReportRead
<1>5. ASSUME NEW x \in Slots, NEW m \in Machines, PayoutPay(x, m)
      PROVE  requests'[s] = requests[s]
  BY <1>2, <1>3, <1>5 DEF PayoutPay
<1>6. ASSUME NEW x \in Slots, PayoutCommit(x) \/ DeleteCommit(x)
      PROVE  requests'[s] = requests[s]
  BY <1>2, <1>6 DEF PayoutCommit, DeleteCommit
<1>7. ASSUME NEW x \in Slots, ReportCommit(x)
      PROVE  requests'[s] = requests[s] \/ ReportCommit(s)
  BY <1>0, <1>7 DEF ReportCommit
<1>8. ASSUME Fault
      PROVE  requests'[s] = requests[s] \/ Abort(s) \/ Restart
  BY <1>0, <1>8 DEF Fault, PollFails, Abort
<1>9. CASE TickerStep
  BY <1>1, <1>9 DEF TickerStep, PollInvoices, SettleInvoice, SkipInvoice,
     MarkOffline, ListRunning, KeepRental, CondemnRental, EvictRental, EndTick
<1>10. CASE TenantRequest
  BY <1>1, <1>4, <1>10 DEF TenantRequest, CreateAccount, Deposit, CreateRental
<1>11. CASE ProviderRequest
  BY <1>1, <1>5, <1>11 DEF ProviderRequest, SetRate
<1>12. CASE UNCHANGED marketVars \/ PassTime
            \/ \E i \in InvoiceIds : PayInvoice(i)
  BY <1>1, <1>12 DEF marketVars, vars, PassTime, PayInvoice
<1>13. CASE ControlPlaneStep /\ UNCHANGED agent
  BY <1>6, <1>7, <1>8, <1>9, <1>10, <1>11, <1>12, <1>13
  DEF ControlPlaneStep, Commit
<1>14. ASSUME NEW m \in Machines,
              \/ Boot(m) \/ BootFails(m) \/ Beat(m) \/ BeatLost(m)
              \/ Shutdown(m) \/ AgentCrash(m) \/ WorkloadEnds(m)
       PROVE  UNCHANGED requests
  BY <1>14 DEF Boot, BootFails, Register, RegisterNew, RegisterAgain, Beat,
     BeatLost, Shutdown, Heartbeat, AgentCrash, WorkloadEnds, vars
<1>15. ASSUME NEW t \in Agent!Running,
              \/ Execute(t) \/ ExecuteFails(t) \/ LoseReport(t)
              \/ \E x \in Slots : DeliverReport(x, t)
       PROVE  requests'[s] = requests[s]
  BY <1>4, <1>15 DEF Execute, ExecuteFails, LoseReport, DeliverReport, vars
<1>16. CASE AgentStep
  BY <1>1, <1>14, <1>15, <1>16 DEF AgentStep
<1> QED BY <1>12, <1>13, <1>16 DEF MarketNext

(* A task stays, or gets its outcome, or its report arrives, or it is lost.*)
LEMMA TaskStep ==
    ASSUME ClosedInv, [MarketNext]_marketVars, NEW t \in Agent!Running
    PROVE  \/ \E u \in Agent!Running' : u.rental = t.rental /\ u.cmd = t.cmd
           \/ \E s \in Slots : DeliverReport(s, t)
           \/ LoseReport(t)
           \/ HostLoss(t.machine)
<1>0. TasksTyped /\ t \in Agent!Task
  BY DEF ClosedInv, TasksTyped
<1>1. CASE UNCHANGED tasks
  BY <1>1 DEF Agent!Running
<1>2. ASSUME NEW m \in Machines, Beat(m) PROVE t \in Agent!Running'
  BY <1>2, Receiving DEF Beat
<1>3. ASSUME NEW m \in Machines, Shutdown(m) \/ AgentCrash(m)
      PROVE  t \in Agent!Running' \/ HostLoss(t.machine)
  <2>1. CASE t.machine = m
    BY <1>3, <2>1 DEF HostLoss
  <2>2. CASE t.machine # m
    BY <1>3, <2>2 DEF Shutdown, AgentCrash, Agent!Exit, Agent!Running
  <2> QED BY <2>1, <2>2
<1>4. ASSUME NEW x \in Agent!Running, Finishes(x)
      PROVE  \E u \in Agent!Running' : u.rental = t.rental /\ u.cmd = t.cmd
  <2>1. CASE x # t
    BY <1>4, <2>1, Finishing DEF Finishes
  <2>2. CASE x = t
    <3>1. PICK outcome : [t EXCEPT !.outcome = outcome] \in Agent!Running'
      BY <1>4, <2>2, Finishing DEF Finishes
    <3>2. /\ [t EXCEPT !.outcome = outcome].rental = t.rental
          /\ [t EXCEPT !.outcome = outcome].cmd = t.cmd
      BY <1>0 DEF Agent!Task, Agent!Pending, Agent!Finished
    <3> QED BY <3>1, <3>2
  <2> QED BY <2>1, <2>2
<1>5. ASSUME NEW x \in Agent!Running, LoseReport(x)
      PROVE  t \in Agent!Running' \/ LoseReport(t)
  BY <1>5, Sending DEF LoseReport
<1>6. ASSUME NEW x \in Agent!Running, NEW s \in Slots, DeliverReport(s, x)
      PROVE  t \in Agent!Running' \/ DeliverReport(s, t)
  BY <1>6, Sending DEF DeliverReport
<1> QED
  BY <1>0, <1>1, <1>2, <1>3, <1>4, <1>5, <1>6, WritersOfTasks

(* What is under way for a rental stays so until a report about it is      *)
(* committed, or until it is lost.                                         *)
LEMMA UnderwayStays ==
    ASSUME ForgetInv, [MarketNext]_marketVars,
           NEW r \in DOMAIN rentals, NEW cmd \in Cmds, Underway(r, cmd)
    PROVE  \/ Underway(r, cmd)'
           \/ \E s \in Slots : requests[s].rental = r /\ ReportCommit(s)
           \/ HostLoss(rentals[r].machine)
           \/ ReportLoss(r)
<1>0. ClosedInv /\ TypeOK /\ QueuesBounded /\ Addressed
  BY DEF ForgetInv, ClosedInv
<1>1. CASE Queued([cmd |-> cmd, rental |-> r])
  <2>1. PICK m \in Machines, n \in 1..MaxQueue :
           /\ n \in DOMAIN commands[m]
           /\ commands[m][n] = [cmd |-> cmd, rental |-> r]
    BY <1>1 DEF Queued
  <2>2. CASE Beat(m)
    <3>1. Agent!NewTask(m, commands[m][n]) \in Agent!Running'
      BY <2>1, <2>2, Receiving DEF Beat
    <3>2. Tasked(r, cmd)'
      BY <2>1, <3>1 DEF Tasked, Agent!NewTask
    <3> QED BY <3>2 DEF Underway
  <2>3. CASE n \in DOMAIN commands'[m] /\ commands'[m][n] = commands[m][n]
    BY <2>1, <2>3 DEF Underway, Queued
  <2>4. CASE HostLoss(m)
    <3>1. rentals[r].machine = m
      BY <1>0, <2>1 DEF Addressed, AddressedTo
    <3> QED BY <2>4, <3>1
  <2> QED BY <1>0, <2>1, <2>2, <2>3, <2>4, QueueStep
<1>2. CASE Tasked(r, cmd)
  <2>1. PICK t \in Agent!Running : t.rental = r /\ t.cmd = cmd
    BY <1>2 DEF Tasked
  <2>2. ASSUME NEW u \in Agent!Running', u.rental = r, u.cmd = cmd
        PROVE  Underway(r, cmd)'
    BY <2>2 DEF Underway, Tasked
  <2>3. ASSUME NEW s \in Slots, DeliverReport(s, t)
        PROVE  Underway(r, cmd)'
    <3>1. t \in Agent!Task /\ t.outcome # "pending"
      BY <1>0, <2>3 DEF ClosedInv, TasksTyped, DeliverReport, Agent!SendReport
    <3>2. t.outcome \in Outcomes(cmd)
      BY <2>1, <3>1 DEF Agent!Task, Agent!Pending, Agent!Finished, Outcomes
    <3>3. /\ requests'[s].op = "report"
          /\ requests'[s].rental = r
          /\ requests'[s].status = t.outcome
      BY <1>0, <2>1, <2>3 DEF DeliverReport, ReportRead, TypeOK
    <3> QED BY <3>2, <3>3 DEF Underway, Reporting
  <2>4. LoseReport(t) => ReportLoss(r)
    BY <2>1 DEF ReportLoss
  <2>5. t.machine = rentals[r].machine
    BY <1>0, <2>1 DEF Addressed, AddressedTo
  <2> QED BY <1>0, <2>1, <2>2, <2>3, <2>4, <2>5, TaskStep
<1>3. CASE Reporting(r, Outcomes(cmd))
  <2>1. PICK s \in Slots : /\ requests[s].op = "report"
                           /\ requests[s].rental = r
                           /\ requests[s].status \in Outcomes(cmd)
    BY <1>3 DEF Reporting
  <2>2. (Abort(s) \/ Restart) /\ UNCHANGED agent => ReportLoss(r)
    BY <2>1 DEF ReportLoss
  <2>3. \/ requests'[s] = requests[s] \/ ReportCommit(s)
        \/ (Abort(s) \/ Restart) /\ UNCHANGED agent
    BY <1>0, <2>1, RequestStep
  <2> QED BY <2>1, <2>2, <2>3 DEF Underway, Reporting
<1> QED BY <1>1, <1>2, <1>3 DEF Underway

(* A rental that waits for a command has it under way.                     *)
Awaits(r, cmd) ==
    rentals[r].status = IF cmd = "start_rental" THEN "provisioning"
                                                ELSE "evicting"

(* Attended, in these terms.                                               *)
LEMMA AttendedIs ==
    ASSUME NEW r
    PROVE  Attended(r) <=> \A cmd \in Cmds : Awaits(r, cmd) => Underway(r, cmd)
BY DEF Attended, StartUnderway, StopUnderway, Underway, Awaits, Cmds, Outcomes,
       StartRental, StopRental

(* Whoever makes a rental wait also queues what it waits for.              *)
LEMMA Waiting ==
    ASSUME ClosedInv, [MarketNext]_marketVars,
           NEW r \in DOMAIN rentals', NEW cmd \in Cmds, Awaits(r, cmd)'
    PROVE  \/ Queued([cmd |-> cmd, rental |-> r])'
           \/ /\ r \in DOMAIN rentals
              /\ Awaits(r, cmd)
              /\ \A s \in Slots : requests[s].rental = r => ~ReportCommit(s)
<1>0. /\ TypeOK
      /\ [Next]_vars
      /\ commands \in [Machines -> Seq(Commands(RentalIds))]
      /\ MaxQueue \in Nat
  BY ClosedStep, QueueAssumption DEF ClosedInv, TypeOK
<1>1. ASSUME NEW m \in Machines, NEW c, Len(commands[m]) < MaxQueue,
             commands' = [commands EXCEPT ![m] = Append(@, c)]
      PROVE  Queued(c)'
  <2>1. /\ Len(commands[m]) + 1 \in 1..MaxQueue
        /\ Len(commands[m]) + 1 \in DOMAIN commands'[m]
        /\ commands'[m][Len(commands[m]) + 1] = c
    BY <1>0, <1>1
  <2> QED BY <2>1 DEF Queued
<1>2. ASSUME NEW x \in RentalIds, NEW m \in Machines, NEW a \in Accounts,
             CreateRental(x, m, a), x = r
      PROVE  Queued([cmd |-> cmd, rental |-> r])'
  <2>1. rentals'[r].status = "provisioning"
    BY <1>2 DEF CreateRental, Insert
  <2>2. cmd = "start_rental"
    BY <2>1 DEF Awaits, Cmds
  <2> QED BY <1>1, <1>2, <2>2 DEF CreateRental, StartRental
<1>3. ASSUME NEW x \in DOMAIN rentals, MarkEvicting(x), x = r
      PROVE  Queued([cmd |-> cmd, rental |-> r])'
  <2>1. rentals'[r].status = "evicting" /\ rentals[r].machine \in Machines
    BY <1>0, <1>3, EvictedRow DEF TypeOK, RentalRow
  <2>2. cmd = "stop_rental"
    BY <2>1 DEF Awaits, Cmds
  <2> QED BY <1>1, <1>3, <2>1, <2>2 DEF MarkEvicting, StopRental
<1>4. ASSUME NEW s \in Slots, ReportCommit(s), requests[s].rental = r
      PROVE  FALSE
  <2>1. rentals'[r].status = requests[s].status
        /\ requests[s].status \in ReportStatus
    BY <1>0, <1>4, ReportedRow DEF Report
  <2> QED BY <2>1 DEF Awaits, ReportStatus
<1>5. CASE r \in DOMAIN rentals /\ rentals'[r].status = rentals[r].status
  BY <1>4, <1>5 DEF Awaits
<1>6. CASE UNCHANGED rentals
  BY <1>5, <1>6
<1>7. ASSUME NEW x \in RentalIds, NEW m \in Machines, NEW a \in Accounts,
             CreateRental(x, m, a), x # r
      PROVE  r \in DOMAIN rentals /\ rentals'[r].status = rentals[r].status
  BY <1>7 DEF CreateRental, Insert
<1>8. ASSUME NEW x \in DOMAIN rentals, MarkEvicting(x), x # r
      PROVE  r \in DOMAIN rentals /\ rentals'[r].status = rentals[r].status
  BY <1>0, <1>8, EvictedRow
<1>9. ASSUME NEW s \in Slots, ReportCommit(s), requests[s].rental # r
      PROVE  r \in DOMAIN rentals /\ rentals'[r].status = rentals[r].status
  BY <1>0, <1>9, ReportedRow
<1> QED
  BY <1>0, <1>2, <1>3, <1>4, <1>5, <1>6, <1>7, <1>8, <1>9, WritersOfRentals

(* A step from a rental that is attended to one that is not is a loss.     *)
LEMMA ForgottenStep ==
    ASSUME ForgetInv, [MarketNext]_marketVars,
           NEW r \in DOMAIN rentals, Attended(r), ~Attended(r)'
    PROVE  HostLoss(rentals[r].machine) \/ ReportLoss(r)
<1>0. ClosedInv /\ TypeOK /\ [Next]_vars
  BY ClosedStep DEF ForgetInv, ClosedInv
<1>1. PICK cmd \in Cmds : Awaits(r, cmd)' /\ ~Underway(r, cmd)'
  BY DEF Attended, StartUnderway, StopUnderway, Underway, Awaits, Cmds,
     Outcomes, StartRental, StopRental
<1>2. r \in DOMAIN rentals'
  BY <1>0, TermsAreFixed
<1>3. /\ Awaits(r, cmd)
      /\ \A s \in Slots : requests[s].rental = r => ~ReportCommit(s)
  BY <1>0, <1>1, <1>2, Waiting DEF Underway
<1>4. Underway(r, cmd)
  BY <1>3, AttendedIs
<1> QED BY <1>1, <1>3, <1>4, UnderwayStays

(* One step of the invariant.                                              *)
LEMMA ForgetStep == ForgetInv /\ [MarketNext]_marketVars => ForgetInv'
<1> SUFFICES ASSUME ForgetInv, [MarketNext]_marketVars PROVE ForgetInv'
  OBVIOUS
<1>1. ClosedInv'
  BY ClosedStep, TasksStep, TypeStep DEF ForgetInv, ClosedInv
<1>2. QueuesBounded'
  BY QueueStep DEF ForgetInv, QueuesBounded
<1> QED BY <1>1, <1>2, AddressedStep DEF ForgetInv

(* The queues and the tasks are empty at the start.                        *)
LEMMA ForgetInit == MarketInit => ForgetInv
<1> SUFFICES ASSUME MarketInit PROVE ForgetInv
  OBVIOUS
<1>1. ClosedInv /\ Agent!Running = {}
  BY InitType DEF MarketInit, ClosedInv, TasksTyped, Agent!Init,
     Agent!NoTasks, Agent!Running
<1>2. \A m \in Machines : commands[m] = << >>
  BY DEF MarketInit, Init
<1>3. QueuesBounded /\ Addressed
  BY <1>1, <1>2, QueueAssumption DEF QueuesBounded, Addressed
<1> QED BY <1>1, <1>3 DEF ForgetInv

(* A rental that waits for its agent is forgotten only by a loss of its    *)
(* host or of a report about it: no failing runtime, racing handler, or    *)
(* loss of another rental's ever drops its command.                        *)
THEOREM ForgottenByLoss == MarketSpec => ForgottenOnlyByLoss
<1>1. ForgetInv /\ [MarketNext]_marketVars =>
         [\A r \in DOMAIN rentals :
            Attended(r) /\ ~Attended(r)' =>
                HostLoss(rentals[r].machine) \/ ReportLoss(r)]_marketVars
  BY ForgottenStep
<1> QED BY <1>1, ForgetStep, ForgetInit, PTL DEF MarketSpec, ForgottenOnlyByLoss

(* Calls to the node and to the runtimes may fail; nothing is lost.        *)
Lossless == Faults \subseteq {"ln_error", "runtime_error"}

(* Without losses nobody becomes unattended, neither a rental that was     *)
(* there nor a new one.                                                    *)
LEMMA StrandedStep ==
    ASSUME Lossless, ForgetInv, NoStrandedRental, [MarketNext]_marketVars
    PROVE  NoStrandedRental'
<1>0. ClosedInv
  BY DEF ForgetInv
<1>1. ASSUME NEW m PROVE ~HostLoss(m)
  BY DEF HostLoss, BeatLost, Shutdown, AgentCrash, Lossless
<1>2. ASSUME NEW r PROVE ~ReportLoss(r)
  BY DEF ReportLoss, LoseReport, Abort, Restart, Lossless
<1>3. ASSUME NEW r \in DOMAIN rentals' PROVE Attended(r)'
  <2>1. CASE r \in DOMAIN rentals
    BY <1>1, <1>2, <2>1, ForgottenStep DEF NoStrandedRental
  <2>2. CASE r \notin DOMAIN rentals
    <3>1. \A cmd \in Cmds : Awaits(r, cmd)' => Underway(r, cmd)'
      BY <1>0, <1>3, <2>2, Waiting DEF Underway
    <3> QED BY <3>1 DEF Attended, StartUnderway, StopUnderway, Underway,
               Awaits, Cmds, Outcomes, StartRental, StopRental
  <2> QED BY <2>1, <2>2
<1> QED BY <1>3 DEF NoStrandedRental

(* Unless a message or a process is lost, a provisioning rental has its    *)
(* start, and an evicting one a stop, queued, executing or being reported: *)
(* the queues, the concurrent tasks and the racing handlers never drop it. *)
THEOREM NobodyIsStranded ==
    ASSUME Lossless PROVE MarketSpec => []NoStrandedRental
<1>1. MarketInit => NoStrandedRental
  BY DEF MarketInit, Init, EmptyTable, NoStrandedRental
<1>2. ForgetInv /\ NoStrandedRental /\ [MarketNext]_marketVars
         => NoStrandedRental'
  BY StrandedStep
<1>3. ForgetInv /\ [MarketNext]_marketVars => ForgetInv'
  BY ForgetStep
<1> QED BY <1>1, <1>2, <1>3, ForgetInit, PTL DEF MarketSpec

-----------------------------------------------------------------------------
(* Bags of tasks.                                                          *)

Counted(bag) == \A t \in DOMAIN bag : bag[t] \in Nat \ {0}

(* A task that finishes moves one copy to the task with an outcome.        *)
LEMMA FinishCounts ==
    ASSUME Counted(tasks), NEW t \in Agent!Running, NEW outcome,
           Agent!Finish(t, outcome)
    PROVE  Counted(tasks')
<1>1. PICK bag : bag = Agent!BagRemove(tasks, t)
  OBVIOUS
<1>2. Counted(bag)
  BY <1>1 DEF Counted, Agent!BagRemove
<1>3. tasks' = Agent!BagAdd(bag, [t EXCEPT !.outcome = outcome])
  BY <1>1 DEF Agent!Finish
<1> QED BY <1>2, <1>3 DEF Counted, Agent!BagAdd

(* A report that is sent takes one copy out.                               *)
LEMMA SendCounts ==
    ASSUME Counted(tasks), NEW t \in Agent!Running, Agent!SendReport(t)
    PROVE  Counted(tasks')
BY DEF Agent!SendReport, Agent!BagRemove, Counted

(* The copies of a task that a heartbeat adds.                             *)
Copies(m, cmds, t) == {n \in DOMAIN cmds : Agent!NewTask(m, cmds[n]) = t}

(* A heartbeat adds as many copies of a task as it has of its command.     *)
LEMMA ReceiveCounts ==
    ASSUME NEW m \in Machines, NEW cmds, IsFiniteSet(DOMAIN cmds),
           Counted(tasks), Agent!Receive(m, cmds)
    PROVE  /\ Counted(tasks')
           /\ \A t \in DOMAIN tasks' :
                 tasks'[t] = (IF t \in Agent!Running THEN tasks[t] ELSE 0)
                               + Cardinality(Copies(m, cmds, t))
<1>1. ASSUME NEW t
      PROVE  /\ IsFiniteSet(Copies(m, cmds, t))
             /\ Cardinality(Copies(m, cmds, t)) \in Nat
             /\ Cardinality(Copies(m, cmds, t)) = 0 <=> Copies(m, cmds, t) = {}
  <2>1. Copies(m, cmds, t) \in SUBSET DOMAIN cmds
    BY DEF Copies
  <2>2. IsFiniteSet(Copies(m, cmds, t))
    BY <2>1, FS_Subset
  <2> QED BY <2>2, FS_CardinalityType, FS_EmptySet
<1>2. \A S : Agent!Cardinality(S) = Cardinality(S)
  BY DEF Agent!Cardinality, Cardinality
<1>3. /\ DOMAIN tasks' = Agent!Running \cup {Agent!NewTask(m, cmds[n]) : n \in DOMAIN cmds}
      /\ \A t \in DOMAIN tasks' :
            tasks'[t] = (IF t \in Agent!Running THEN tasks[t] ELSE 0)
                          + Cardinality(Copies(m, cmds, t))
  <2>1. \A t : Agent!Cardinality({n \in DOMAIN cmds :
                                      Agent!NewTask(m, cmds[n]) = t})
                = Cardinality(Copies(m, cmds, t))
    BY <1>2 DEF Copies
  <2>2. tasks' = [t \in Agent!Running
                        \cup {Agent!NewTask(m, cmds[n]) : n \in DOMAIN cmds} |->
                    (IF t \in Agent!Running THEN tasks[t] ELSE 0)
                      + Agent!Cardinality({n \in DOMAIN cmds :
                                             Agent!NewTask(m, cmds[n]) = t})]
    BY Zenon DEF Agent!Receive
  <2>3. PICK T : T = Agent!Running
                        \cup {Agent!NewTask(m, cmds[n]) : n \in DOMAIN cmds}
    OBVIOUS
  <2>4. DOMAIN tasks' = T
    BY <2>2, <2>3, Zenon
  <2>5. ASSUME NEW t \in T
        PROVE  tasks'[t] = (IF t \in Agent!Running THEN tasks[t] ELSE 0)
                             + Cardinality(Copies(m, cmds, t))
    <3>1. t \in Agent!Running
              \cup {Agent!NewTask(m, cmds[n]) : n \in DOMAIN cmds}
      BY <2>3, Zenon
    <3>2. tasks'[t] = (IF t \in Agent!Running THEN tasks[t] ELSE 0)
                        + Agent!Cardinality({n \in DOMAIN cmds :
                                               Agent!NewTask(m, cmds[n]) = t})
      BY <2>2, <3>1, Zenon
    <3> QED BY <2>1, <3>2
  <2> QED BY <2>3, <2>4, <2>5, Zenon
<1>4. ASSUME NEW t \in DOMAIN tasks'
      PROVE  /\ tasks'[t] = (IF t \in Agent!Running THEN tasks[t] ELSE 0)
                              + Cardinality(Copies(m, cmds, t))
             /\ tasks'[t] \in Nat \ {0}
  <2>1. tasks'[t] = (IF t \in Agent!Running THEN tasks[t] ELSE 0)
                      + Cardinality(Copies(m, cmds, t))
    BY <1>3
  <2>2. t \in Agent!Running \/ Copies(m, cmds, t) # {}
    BY <1>3 DEF Copies
  <2>3. t \in Agent!Running => tasks[t] \in Nat \ {0}
    BY DEF Counted, Agent!Running
  <2> QED BY <1>1, <2>1, <2>2, <2>3
<1> QED BY <1>4 DEF Counted

-----------------------------------------------------------------------------
(* The type invariant of the closed system.                                *)

AgentTyped ==
    /\ up \subseteq Machines
    /\ workloads \in [Machines -> SUBSET RentalIds]

(* A queue is a finite sequence.                                           *)
LEMMA QueueIsFinite ==
    ASSUME TypeOK, NEW m \in Machines
    PROVE  IsFiniteSet(DOMAIN commands[m])
<1>1. commands[m] \in Seq(Commands(RentalIds))
  BY DEF TypeOK
<1>2. DOMAIN commands[m] = 1 .. Len(commands[m]) /\ Len(commands[m]) \in Nat
  BY <1>1
<1> QED BY <1>2, FS_Interval

(* The agents and their workloads keep their types.                        *)
LEMMA AgentTypedStep ==
    ASSUME ClosedInv, AgentTyped, [MarketNext]_marketVars
    PROVE  AgentTyped'
<1>0. TasksTyped
  BY DEF ClosedInv
<1>1. CASE UNCHANGED agent
  BY <1>1 DEF agent, AgentTyped
<1>2. CASE UNCHANGED marketVars
  BY <1>1, <1>2 DEF marketVars
<1>3. ASSUME NEW m \in Machines,
             \/ Boot(m) \/ BootFails(m) \/ Beat(m) \/ BeatLost(m)
             \/ Shutdown(m) \/ AgentCrash(m) \/ WorkloadEnds(m)
      PROVE  AgentTyped'
  <2>1. CASE Boot(m) \/ BootFails(m) \/ Beat(m) \/ BeatLost(m)
    BY <2>1 DEF AgentTyped, Boot, BootFails, Beat, BeatLost, agent, Agent!Boot,
       Agent!Receive
  <2>2. CASE Shutdown(m) \/ AgentCrash(m)
    <3>1. Agent!Exit(m)
      BY <2>2 DEF Shutdown, AgentCrash
    <3>2. PICK left \in {workloads[m], {}} :
             workloads' = [workloads EXCEPT ![m] = left]
      BY <3>1 DEF Agent!Exit
    <3> QED BY <3>1, <3>2 DEF AgentTyped, Agent!Exit
  <2>3. CASE WorkloadEnds(m)
    BY <2>3 DEF WorkloadEnds, Agent!WorkloadEnds, AgentTyped
  <2> QED BY <1>3, <2>1, <2>2, <2>3
<1>4. ASSUME NEW t \in Agent!Running, Execute(t) \/ ExecuteFails(t)
      PROVE  AgentTyped'
  <2>1. t \in Agent!Task
    BY <1>0 DEF TasksTyped
  <2>2. t.machine \in Machines /\ t.rental \in RentalIds
    BY <2>1 DEF Agent!Task, Agent!Pending, Agent!Finished
  <2>3. workloads[t.machine] \in SUBSET RentalIds
    BY <2>2 DEF AgentTyped
  <2>4. up' = up /\ \/ workloads' = workloads
                    \/ \E left \in SUBSET RentalIds :
                          workloads' = [workloads EXCEPT ![t.machine] = left]
    BY <1>4, <2>2, <2>3 DEF Execute, ExecuteFails, Agent!Launch,
       Agent!LaunchFails, Agent!LaunchDead, Agent!Halt, Agent!HaltFails
  <2> QED BY <2>4 DEF AgentTyped
<1>5. ASSUME NEW t \in Agent!Running,
             LoseReport(t) \/ \E s \in Slots : DeliverReport(s, t)
      PROVE  AgentTyped'
  BY <1>5 DEF LoseReport, DeliverReport, Agent!SendReport, AgentTyped
<1> QED
  BY <1>1, <1>2, <1>3, <1>4, <1>5 DEF MarketNext, AgentStep

(* The counts of the tasks stay positive.                                  *)
LEMMA CountedStep ==
    ASSUME ClosedInv, Counted(tasks), [MarketNext]_marketVars
    PROVE  Counted(tasks')
<1>0. TasksTyped /\ TypeOK
  BY DEF ClosedInv
<1>1. CASE UNCHANGED tasks
  BY <1>1
<1>2. ASSUME NEW m \in Machines, Beat(m) PROVE Counted(tasks')
  BY <1>0, <1>2, QueueIsFinite, ReceiveCounts DEF Beat
<1>3. ASSUME NEW m \in Machines, Shutdown(m) \/ AgentCrash(m)
      PROVE  Counted(tasks')
  BY <1>3 DEF Shutdown, AgentCrash, Agent!Exit, Counted, Agent!Running
<1>4. ASSUME NEW t \in Agent!Running, Finishes(t) PROVE Counted(tasks')
  BY <1>4, FinishCounts DEF Finishes
<1>5. ASSUME NEW t \in Agent!Running,
             LoseReport(t) \/ \E s \in Slots : DeliverReport(s, t)
      PROVE  Counted(tasks')
  BY <1>5, SendCounts DEF LoseReport, DeliverReport
<1> QED BY <1>0, <1>1, <1>2, <1>3, <1>4, <1>5, WritersOfTasks

MarketInv == ClosedInv /\ AgentTyped /\ Counted(tasks)

(* The types and the counts hold throughout.                               *)
LEMMA MarketInvAlways == MarketSpec => []MarketInv
<1>1. MarketInit => AgentTyped /\ Counted(tasks)
  BY DEF MarketInit, Agent!Init, Agent!NoTasks, AgentTyped, Counted
<1>2. AgentTyped /\ Counted(tasks) /\ ClosedInv /\ [MarketNext]_marketVars
         => AgentTyped' /\ Counted(tasks)'
  BY AgentTypedStep, CountedStep
<1>3. MarketSpec => [](AgentTyped /\ Counted(tasks))
  BY <1>1, <1>2, ClosedAlways, PTL DEF MarketSpec
<1> QED BY <1>3, ClosedAlways, PTL DEF MarketInv

(* The tables, the queues, the agents, their tasks and their workloads     *)
(* keep their types in the closed system, and every task counted is there  *)
(* at least once.                                                          *)
THEOREM MarketTyped == MarketSpec => []MarketTypeOK
<1>1. MarketInv => MarketTypeOK
  BY DEF MarketInv, MarketTypeOK, ClosedInv, TasksTyped, AgentTyped, Counted,
     Agent!TypeOK, Agent!Running
<1> QED BY <1>1, MarketInvAlways, PTL

-----------------------------------------------------------------------------
(* Starts are delivered at most once.                                      *)

(* Where the start of a rental is queued, and which of its tasks are there.*)
StartAt(r, m, n) == /\ m \in Machines /\ n \in DOMAIN commands[m]
                    /\ commands[m][n] = StartRental(r)

StartOfNone(r) == /\ \A m \in Machines : \A n \in DOMAIN commands[m] :
                        ~StartAt(r, m, n)
                  /\ StartTasks(r) = {}

(* The inductive form of AtMostOneStart: one place in one queue, or one    *)
(* task of one copy, or neither; and neither before the rental exists.     *)
OneStart(r) ==
    /\ \A m1, m2 \in Machines : \A n1 \in DOMAIN commands[m1],
                                   n2 \in DOMAIN commands[m2] :
          StartAt(r, m1, n1) /\ StartAt(r, m2, n2) => m1 = m2 /\ n1 = n2
    /\ \A t \in StartTasks(r) :
          /\ tasks[t] = 1
          /\ \A u \in StartTasks(r) : u = t
          /\ \A m \in Machines : \A n \in DOMAIN commands[m] :
                ~StartAt(r, m, n)
    /\ r \notin DOMAIN rentals => StartOfNone(r)

(* The steps that write the queues or the tasks, and how.                  *)
LEMMA WritersOfQueues ==
    ASSUME ClosedInv, [MarketNext]_marketVars
    PROVE  \/ UNCHANGED <<commands, tasks>>
           \/ /\ UNCHANGED tasks
              /\ \E r \in RentalIds, m \in Machines, a \in Accounts :
                    CreateRental(r, m, a)
           \/ UNCHANGED tasks /\ \E r \in DOMAIN rentals : MarkEvicting(r)
           \/ UNCHANGED tasks /\ \E m \in Machines : Drained(m)
           \/ \E m \in Machines : Beat(m)
           \/ \E m \in Machines : Agent!Exit(m) /\ (Drained(m) \/ UNCHANGED commands)
           \/ \E t \in Agent!Running :
                 /\ UNCHANGED commands
                 /\ Finishes(t) \/ Agent!SendReport(t)
<1>1. CASE UNCHANGED marketVars
  BY <1>1 DEF marketVars, vars, tables, agent
<1>2. ASSUME UNCHANGED agent PROVE UNCHANGED tasks
  BY <1>2 DEF agent
<1>3. ASSUME PassTime \/ ProviderRequest
             \/ (\E i \in InvoiceIds : PayInvoice(i)) \/ Fault
      PROVE  UNCHANGED commands
  BY <1>3 DEF tables, PassTime, ProviderRequest, SetRate, PayoutPay, PayInvoice,
     Fault, PollFails, Restart, Abort
<1>4. ASSUME TenantRequest
      PROVE  \/ UNCHANGED commands
             \/ \E r \in RentalIds, m \in Machines, a \in Accounts :
                   CreateRental(r, m, a)
  BY <1>4 DEF TenantRequest, CreateAccount, Deposit, DeleteRead, tables
<1>5. ASSUME TickerStep
      PROVE  UNCHANGED commands \/ \E r \in DOMAIN rentals : MarkEvicting(r)
  <2>1. CASE EvictRental
    <3>1. ticker.rental \in DOMAIN rentals
      BY <2>1 DEF EvictRental, ClosedInv, TypeOK, References
    <3> QED BY <2>1, <3>1 DEF EvictRental
  <2>2. CASE ~EvictRental
    BY <1>5, <2>2 DEF TickerStep, PollInvoices, SettleInvoice, SkipInvoice,
       MarkOffline, ListRunning, KeepRental, CondemnRental, EndTick, tables
  <2> QED BY <2>1, <2>2
<1>6. ASSUME NEW s \in Slots, Commit(s)
      PROVE  UNCHANGED commands \/ \E r \in DOMAIN rentals : MarkEvicting(r)
  <2>1. CASE DeleteCommit(s)
    <3>1. requests[s].rental \in DOMAIN rentals
      BY <2>1, DeleteInFlight DEF DeleteCommit, ClosedInv
    <3> QED BY <2>1, <3>1 DEF DeleteCommit
  <2>2. CASE ReportCommit(s) \/ PayoutCommit(s)
    BY <2>2 DEF ReportCommit, PayoutCommit
  <2> QED BY <1>6, <2>1, <2>2 DEF Commit
<1>7. CASE ControlPlaneStep /\ UNCHANGED agent
  BY <1>2, <1>3, <1>4, <1>5, <1>6, <1>7 DEF ControlPlaneStep
<1>8. ASSUME NEW m \in Machines, Boot(m) \/ BootFails(m) \/ WorkloadEnds(m)
      PROVE  UNCHANGED <<commands, tasks>>
  BY <1>8 DEF Boot, BootFails, Register, WorkloadEnds, vars, tables, agent,
     RegisterNew, RegisterAgain, Agent!Boot, Agent!WorkloadEnds
<1>9. ASSUME NEW m \in Machines, BeatLost(m)
      PROVE  UNCHANGED tasks /\ Drained(m)
  BY <1>9 DEF BeatLost, Heartbeat, Drained, agent
<1>10. ASSUME NEW m \in Machines, Shutdown(m) \/ AgentCrash(m)
       PROVE  Agent!Exit(m) /\ (Drained(m) \/ UNCHANGED commands)
  BY <1>10 DEF Shutdown, AgentCrash, Heartbeat, Drained, vars, tables
<1>11. ASSUME NEW t \in Agent!Running, Execute(t) \/ ExecuteFails(t)
       PROVE  Finishes(t) /\ UNCHANGED commands
  BY <1>11, Executing DEF ClosedInv, vars, tables
<1>12. ASSUME NEW t \in Agent!Running,
              LoseReport(t) \/ \E s \in Slots : DeliverReport(s, t)
       PROVE  Agent!SendReport(t) /\ UNCHANGED commands
  BY <1>12 DEF LoseReport, DeliverReport, ReportRead, vars, tables
<1>13. CASE AgentStep
  BY <1>8, <1>9, <1>10, <1>11, <1>12, <1>13 DEF AgentStep
<1> QED BY <1>1, <1>7, <1>13 DEF MarketNext

(* What a new row and a new command change.                                *)
LEMMA OneStartCreate ==
    ASSUME TypeOK, NEW r \in RentalIds, OneStart(r), UNCHANGED tasks,
           NEW x \in RentalIds, NEW m \in Machines, NEW a \in Accounts,
           CreateRental(x, m, a)
    PROVE  OneStart(r)'
<1>0. /\ commands \in [Machines -> Seq(Commands(RentalIds))]
      /\ StartTasks(r)' = StartTasks(r)
  BY DEF TypeOK, StartTasks, Agent!Running
<1>1. /\ x \notin DOMAIN rentals
      /\ DOMAIN rentals' = DOMAIN rentals \cup {x}
      /\ commands' = [commands EXCEPT ![m] = Append(@, StartRental(x))]
  BY DEF CreateRental, Insert
<1>2. \A y \in Machines : \A n : StartAt(r, y, n)' =>
         StartAt(r, y, n) \/ (x = r /\ y = m /\ n = Len(commands[m]) + 1)
  BY <1>0, <1>1 DEF StartAt, StartRental
<1>3. CASE x = r
  <2>1. StartOfNone(r)
    BY <1>1, <1>3 DEF OneStart
  <2>2. \A y \in Machines : \A n : ~StartAt(r, y, n)
    BY <2>1 DEF StartOfNone, StartAt
  <2> QED BY <1>0, <1>1, <1>2, <1>3, <2>1, <2>2 DEF OneStart, StartOfNone
<1>4. CASE x # r
  <2>1. \A y \in Machines : \A n : StartAt(r, y, n)' => StartAt(r, y, n)
    BY <1>2, <1>4
  <2>2. \A y \in Machines : \A n : StartAt(r, y, n) => n \in DOMAIN commands[y]
    BY DEF StartAt
  <2> QED BY <1>0, <1>1, <2>1, <2>2 DEF OneStart, StartOfNone
<1> QED BY <1>3, <1>4

(* Fewer places in the queues and fewer tasks are no harm.                 *)
LEMMA OneStartShrinks ==
    ASSUME NEW r \in RentalIds, OneStart(r),
           DOMAIN rentals \subseteq DOMAIN rentals',
           \A m \in Machines : \A n : StartAt(r, m, n)' => StartAt(r, m, n),
           StartTasks(r)' \subseteq StartTasks(r),
           \A t \in StartTasks(r)' : tasks'[t] = tasks[t]
    PROVE  OneStart(r)'
<1>1. \A m \in Machines : \A n : StartAt(r, m, n) => n \in DOMAIN commands[m]
  BY DEF StartAt
<1> QED BY <1>1 DEF OneStart, StartOfNone

(* A marking queues a stop, never a start.                                 *)
LEMMA OneStartEvict ==
    ASSUME TypeOK, NEW r \in RentalIds, OneStart(r), UNCHANGED tasks,
           DOMAIN rentals \subseteq DOMAIN rentals',
           NEW x \in DOMAIN rentals, MarkEvicting(x)
    PROVE  OneStart(r)'
<1>1. commands \in [Machines -> Seq(Commands(RentalIds))]
  BY DEF TypeOK
<1>2. PICK m : commands' = [commands EXCEPT ![m] = Append(@, StopRental(x))]
  BY DEF MarkEvicting
<1>3. \A y \in Machines : \A n : StartAt(r, y, n)' => StartAt(r, y, n)
  BY <1>1, <1>2 DEF StartAt, StartRental, StopRental
<1>4. StartTasks(r)' = StartTasks(r)
  BY DEF StartTasks, Agent!Running
<1> QED BY <1>3, <1>4, OneStartShrinks

(* A heartbeat moves the start it finds in the queue into one task.        *)
LEMMA OneStartBeat ==
    ASSUME MarketInv, NEW r \in RentalIds, OneStart(r),
           NEW m \in Machines, Beat(m)
    PROVE  OneStart(r)'
<1>0. /\ TypeOK /\ TasksTyped /\ Counted(tasks)
      /\ commands \in [Machines -> Seq(Commands(RentalIds))]
      /\ IsFiniteSet(DOMAIN commands[m])
  BY QueueIsFinite DEF MarketInv, ClosedInv, TypeOK
<1>1. /\ Agent!Receive(m, commands[m])
      /\ UNCHANGED rentals
      /\ commands' = [commands EXCEPT ![m] = << >>]
  BY DEF Beat, Heartbeat
<1>2. Agent!Running' = Agent!Running
          \cup {Agent!NewTask(m, commands[m][n]) : n \in DOMAIN commands[m]}
  BY <1>1, Receiving
<1>3. \A t \in Agent!Running' :
         tasks'[t] = (IF t \in Agent!Running THEN tasks[t] ELSE 0)
                       + Cardinality(Copies(m, commands[m], t))
  BY <1>0, <1>1, ReceiveCounts DEF Agent!Running
<1>4. \A y \in Machines : \A n :
         StartAt(r, y, n)' => y # m /\ StartAt(r, y, n)
  BY <1>0, <1>1 DEF StartAt
<1>5. ASSUME NEW n \in DOMAIN commands[m], NEW t, t.rental = r,
             t.cmd = "start_rental", Agent!NewTask(m, commands[m][n]) = t
      PROVE  StartAt(r, m, n) /\ t = Agent!NewTask(m, StartRental(r))
  <2>1. commands[m][n] \in Commands(RentalIds)
    BY <1>0
  <2>2. commands[m][n].rental = r /\ commands[m][n].cmd = "start_rental"
    BY <1>5 DEF Agent!NewTask
  <2>3. commands[m][n] = StartRental(r)
    BY <2>1, <2>2 DEF Commands, StartRental
  <2> QED BY <1>5, <2>3 DEF StartAt
<1>6. ASSUME NEW k \in DOMAIN commands[m], StartAt(r, m, k)
      PROVE  OneStart(r)'
  <2>1. /\ StartTasks(r) = {}
        /\ r \in DOMAIN rentals
        /\ \A y \in Machines : \A n : StartAt(r, y, n) => y = m /\ n = k
    BY <1>6 DEF OneStart, StartOfNone, StartAt
  <2>2. PICK new : new = Agent!NewTask(m, StartRental(r))
    OBVIOUS
  <2>3. ASSUME NEW t \in StartTasks(r)'
        PROVE  t = new /\ tasks'[t] = 1
    <3>1. t \in Agent!Running' /\ t.rental = r /\ t.cmd = "start_rental"
      BY DEF StartTasks
    <3>2. t \notin Agent!Running
      BY <2>1, <3>1 DEF StartTasks
    <3>3. PICK n \in DOMAIN commands[m] : t = Agent!NewTask(m, commands[m][n])
      BY <1>2, <3>1, <3>2
    <3>4. t = new
      BY <1>5, <2>2, <3>1, <3>3
    <3>5. \A j \in DOMAIN commands[m] :
             Agent!NewTask(m, commands[m][j]) = t => j = k
      BY <1>5, <2>1, <3>1
    <3>6. Agent!NewTask(m, commands[m][k]) = t
      BY <1>6, <2>2, <3>4 DEF StartAt
    <3>7. Copies(m, commands[m], t) = {k}
      BY <3>5, <3>6 DEF Copies
    <3>8. Cardinality(Copies(m, commands[m], t)) = 1
      BY <3>7, FS_Singleton
    <3> QED BY <1>3, <3>1, <3>2, <3>4, <3>8
  <2>4. \A y \in Machines : \A n : ~StartAt(r, y, n)'
    BY <1>4, <2>1
  <2>5. r \in DOMAIN rentals'
    BY <1>1, <2>1
  <2> QED BY <2>3, <2>4, <2>5 DEF OneStart
<1>7. ASSUME \A n \in DOMAIN commands[m] : ~StartAt(r, m, n)
      PROVE  OneStart(r)'
  <2>1. ASSUME NEW t \in StartTasks(r)'
        PROVE  t \in StartTasks(r) /\ tasks'[t] = tasks[t]
    <3>1. t \in Agent!Running' /\ t.rental = r /\ t.cmd = "start_rental"
      BY DEF StartTasks
    <3>2. \A n \in DOMAIN commands[m] : Agent!NewTask(m, commands[m][n]) # t
      BY <1>5, <1>7, <3>1
    <3>3. t \in Agent!Running
      BY <1>2, <3>1, <3>2
    <3>4. Copies(m, commands[m], t) = {}
      BY <3>2 DEF Copies
    <3>5. Cardinality(Copies(m, commands[m], t)) = 0
      BY <3>4, FS_EmptySet
    <3>6. tasks[t] \in Nat
      BY <1>0, <3>3 DEF Counted, Agent!Running
    <3> QED BY <1>3, <3>1, <3>3, <3>5, <3>6 DEF StartTasks
  <2>2. \A t \in StartTasks(r)' : tasks'[t] = tasks[t]
    BY <2>1
  <2>3. StartTasks(r)' \subseteq StartTasks(r)
    BY <2>1
  <2>4. \A y \in Machines : \A n : StartAt(r, y, n)' => StartAt(r, y, n)
    BY <1>4
  <2>5. DOMAIN rentals \subseteq DOMAIN rentals'
    BY <1>1
  <2> QED BY <2>2, <2>3, <2>4, <2>5, OneStartShrinks
<1> QED BY <1>6, <1>7

(* A start that ends, well or not, is still one task.                      *)
LEMMA OneStartFinishes ==
    ASSUME MarketInv, NEW r \in RentalIds, OneStart(r), UNCHANGED commands,
           DOMAIN rentals \subseteq DOMAIN rentals',
           NEW t \in Agent!Running, Finishes(t)
    PROVE  OneStart(r)'
<1>0. /\ TasksTyped /\ Counted(tasks)
      /\ t \in Agent!Task
      /\ tasks[t] \in Nat \ {0}
  BY DEF MarketInv, ClosedInv, TasksTyped, Counted, Agent!Running
<1>1. PICK outcome : Agent!Finish(t, outcome)
  BY DEF Finishes
<1>2. PICK u : u = [t EXCEPT !.outcome = outcome]
  OBVIOUS
<1>3. u.rental = t.rental /\ u.cmd = t.cmd
  BY <1>0, <1>2 DEF Agent!Task, Agent!Pending, Agent!Finished
<1>4. PICK bag : bag = Agent!BagRemove(tasks, t)
  OBVIOUS
<1>5. tasks' = Agent!BagAdd(bag, u)
  BY <1>1, <1>2, <1>4 DEF Agent!Finish
<1>6. /\ DOMAIN bag \subseteq Agent!Running
      /\ \A v \in DOMAIN bag : v # t => bag[v] = tasks[v]
      /\ tasks[t] = 1 => t \notin DOMAIN bag
  BY <1>4 DEF Agent!BagRemove, Agent!Running
<1>7. /\ Agent!Running' = DOMAIN bag \cup {u}
      /\ \A v \in DOMAIN bag : v # u => tasks'[v] = bag[v]
      /\ u \notin DOMAIN bag => tasks'[u] = 1
  BY <1>5 DEF Agent!BagAdd, Agent!Running
<1>8. \A y \in Machines : \A n : StartAt(r, y, n)' <=> StartAt(r, y, n)
  BY DEF StartAt
<1>9. CASE t \in StartTasks(r)
  <2>1. /\ tasks[t] = 1
        /\ \A v \in StartTasks(r) : v = t
        /\ \A y \in Machines : \A n : ~StartAt(r, y, n)
        /\ r \in DOMAIN rentals
    BY <1>9 DEF OneStart, StartOfNone, StartAt
  <2>2. ASSUME NEW v \in StartTasks(r)' PROVE v = u
    <3>1. v \in Agent!Running' /\ v.rental = r /\ v.cmd = "start_rental"
      BY DEF StartTasks
    <3>2. v \in DOMAIN bag => v \in StartTasks(r)
      BY <1>6, <3>1 DEF StartTasks
    <3> QED BY <1>6, <1>7, <2>1, <3>1, <3>2
  <2>3. u \notin DOMAIN bag
    <3>1. u.rental = r /\ u.cmd = "start_rental"
      BY <1>3, <1>9 DEF StartTasks
    <3>2. u \in DOMAIN bag => u \in StartTasks(r)
      BY <1>6, <3>1 DEF StartTasks
    <3> QED BY <1>6, <2>1, <3>2
  <2> QED BY <1>7, <1>8, <2>1, <2>2, <2>3 DEF OneStart
<1>10. CASE t \notin StartTasks(r)
  <2>1. ASSUME NEW v \in StartTasks(r)'
        PROVE  v \in StartTasks(r) /\ tasks'[v] = tasks[v]
    <3>1. v \in Agent!Running' /\ v.rental = r /\ v.cmd = "start_rental"
      BY DEF StartTasks
    <3>2. v # t /\ v # u
      BY <1>3, <1>10, <3>1 DEF StartTasks
    <3>3. v \in DOMAIN bag
      BY <1>7, <3>1, <3>2
    <3> QED BY <1>6, <1>7, <3>1, <3>2, <3>3 DEF StartTasks
  <2>2. \A v \in StartTasks(r)' : tasks'[v] = tasks[v]
    BY <2>1
  <2>3. StartTasks(r)' \subseteq StartTasks(r)
    BY <2>1
  <2> QED BY <1>8, <2>2, <2>3, OneStartShrinks
<1> QED BY <1>9, <1>10

(* A start that is reported is gone.                                       *)
LEMMA OneStartReports ==
    ASSUME NEW r \in RentalIds, OneStart(r), UNCHANGED commands,
           DOMAIN rentals \subseteq DOMAIN rentals',
           NEW t \in Agent!Running, Agent!SendReport(t)
    PROVE  OneStart(r)'
<1>1. tasks' = Agent!BagRemove(tasks, t)
  BY DEF Agent!SendReport
<1>2. /\ Agent!Running' \subseteq Agent!Running
      /\ \A v \in Agent!Running' : v # t => tasks'[v] = tasks[v]
      /\ tasks[t] = 1 => t \notin Agent!Running'
  BY <1>1 DEF Agent!BagRemove, Agent!Running
<1>3. ASSUME NEW v \in StartTasks(r)'
      PROVE  v \in StartTasks(r) /\ tasks'[v] = tasks[v]
  <2>1. v \in Agent!Running' /\ v \in StartTasks(r)
    BY <1>2 DEF StartTasks
  <2>2. tasks[v] = 1
    BY <2>1 DEF OneStart
  <2> QED BY <1>2, <2>1, <2>2
<1>4. \A y \in Machines : \A n : StartAt(r, y, n)' => StartAt(r, y, n)
  BY DEF StartAt
<1>5. \A v \in StartTasks(r)' : tasks'[v] = tasks[v]
  BY <1>3
<1>6. StartTasks(r)' \subseteq StartTasks(r)
  BY <1>3
<1> QED BY <1>4, <1>5, <1>6, OneStartShrinks

(* Draining a queue unread, and the end of an agent, lose commands only.   *)
LEMMA OneStartLosses ==
    ASSUME TypeOK, NEW r \in RentalIds, OneStart(r),
           DOMAIN rentals \subseteq DOMAIN rentals',
           NEW m \in Machines, Drained(m) \/ UNCHANGED commands,
           Agent!Exit(m) \/ UNCHANGED tasks
    PROVE  OneStart(r)'
<1>1. commands \in [Machines -> Seq(Commands(RentalIds))]
  BY DEF TypeOK
<1>2. \A y \in Machines : \A n : StartAt(r, y, n)' => StartAt(r, y, n)
  <2>1. CASE UNCHANGED commands
    BY <2>1 DEF StartAt
  <2>2. CASE Drained(m)
    BY <1>1, <2>2 DEF Drained, StartAt
  <2> QED BY <2>1, <2>2
<1>3. /\ Agent!Running' \subseteq Agent!Running
      /\ \A t \in Agent!Running' : tasks'[t] = tasks[t]
  BY DEF Agent!Exit, Agent!Running
<1>4. \A t \in StartTasks(r)' : tasks'[t] = tasks[t]
  BY <1>3 DEF StartTasks
<1>5. StartTasks(r)' \subseteq StartTasks(r)
  BY <1>3 DEF StartTasks
<1> QED BY <1>2, <1>4, <1>5, OneStartShrinks

(* One step of the invariant.                                              *)
LEMMA OneStartStep ==
    ASSUME MarketInv, NEW r \in RentalIds, OneStart(r),
           [MarketNext]_marketVars
    PROVE  OneStart(r)'
<1>0. ClosedInv /\ TypeOK
  BY DEF MarketInv, ClosedInv
<1>1. DOMAIN rentals \subseteq DOMAIN rentals'
  BY <1>0, ClosedStep, TermsAreFixed
<1>2. CASE UNCHANGED <<commands, tasks>>
  <2>1. \A y \in Machines : \A n : StartAt(r, y, n)' => StartAt(r, y, n)
    BY <1>2 DEF StartAt
  <2>2. StartTasks(r)' = StartTasks(r)
    BY <1>2 DEF StartTasks, Agent!Running
  <2> QED BY <1>1, <1>2, <2>1, <2>2, OneStartShrinks
<1>3. ASSUME UNCHANGED tasks, NEW x \in RentalIds, NEW m \in Machines,
             NEW a \in Accounts, CreateRental(x, m, a)
      PROVE  OneStart(r)'
  BY <1>0, <1>3, OneStartCreate
<1>4. ASSUME UNCHANGED tasks, NEW x \in DOMAIN rentals, MarkEvicting(x)
      PROVE  OneStart(r)'
  BY <1>0, <1>1, <1>4, OneStartEvict
<1>5. ASSUME NEW m \in Machines, Drained(m) \/ UNCHANGED commands,
             Agent!Exit(m) \/ UNCHANGED tasks
      PROVE  OneStart(r)'
  BY <1>0, <1>1, <1>5, OneStartLosses
<1>6. ASSUME NEW m \in Machines, Beat(m) PROVE OneStart(r)'
  BY <1>6, OneStartBeat
<1>7. ASSUME NEW t \in Agent!Running, UNCHANGED commands,
             Finishes(t) \/ Agent!SendReport(t)
      PROVE  OneStart(r)'
  BY <1>1, <1>7, OneStartFinishes, OneStartReports
<1> QED BY <1>0, <1>2, <1>3, <1>4, <1>5, <1>6, <1>7, WritersOfQueues

(* A set whose elements are all the same has at most one.                  *)
LEMMA CardinalityOfFew ==
    ASSUME NEW S, \A p, q \in S : p = q
    PROVE  Cardinality(S) \in {0, 1}
<1>1. CASE S = {}
  BY <1>1, FS_EmptySet
<1>2. ASSUME NEW p \in S PROVE Cardinality(S) = 1
  <2>1. S = {p}
    OBVIOUS
  <2> QED BY <2>1, FS_Singleton
<1> QED BY <1>1, <1>2

(* What the invariant says of AtMostOneStart's count.                      *)
LEMMA OneStartCounts ==
    ASSUME NEW r \in RentalIds, OneStart(r)
    PROVE  Cardinality(StartsQueued(r))
             + SumFunctionOnSet(tasks, StartTasks(r)) <= 1
<1>1. \A p \in StartsQueued(r) : StartAt(r, p[1], p[2])
  BY DEF StartsQueued, StartAt
<1>2. \A p, q \in StartsQueued(r) : p = q
  <2>1. \A p, q \in StartsQueued(r) : p[1] = q[1] /\ p[2] = q[2]
    BY <1>1 DEF OneStart, StartAt
  <2>2. StartsQueued(r) \subseteq Machines \X (1..MaxQueue)
    BY DEF StartsQueued
  <2> QED BY <2>1, <2>2
<1>3. CASE StartTasks(r) = {}
  <2>1. SumFunctionOnSet(tasks, StartTasks(r)) = 0
    BY <1>3, SumEmpty
  <2>2. Cardinality(StartsQueued(r)) \in {0, 1}
    BY <1>2, CardinalityOfFew
  <2> QED BY <2>1, <2>2
<1>4. ASSUME NEW t \in StartTasks(r)
      PROVE  Cardinality(StartsQueued(r))
               + SumFunctionOnSet(tasks, StartTasks(r)) <= 1
  <2>1. tasks[t] = 1 /\ StartTasks(r) = {t}
    BY DEF OneStart
  <2>2. StartsQueued(r) = {}
    BY <1>1 DEF OneStart, StartAt
  <2>3. Cardinality(StartsQueued(r)) = 0
    BY <2>2, FS_EmptySet
  <2>4. SumFunctionOnSet(tasks, StartTasks(r)) = 1
    BY <2>1, SumSingleton
  <2> QED BY <2>3, <2>4
<1> QED BY <1>3, <1>4

(* However often the queue is drained, answers and reports are lost and    *)
(* agents end and boot, the start of a rental is in one queue, or is one   *)
(* task, or neither: no two tasks ever execute it at once.                 *)
THEOREM StartsAtMostOnce == MarketSpec => []AtMostOneStart
<1>1. MarketInit => \A r \in RentalIds : OneStart(r)
  BY DEF MarketInit, Init, EmptyTable, Agent!Init, Agent!NoTasks,
     Agent!Running, OneStart, StartOfNone, StartAt, StartTasks
<1>2. (\A r \in RentalIds : OneStart(r)) /\ MarketInv
         /\ [MarketNext]_marketVars => (\A r \in RentalIds : OneStart(r))'
  BY OneStartStep
<1>3. (\A r \in RentalIds : OneStart(r)) => AtMostOneStart
  BY OneStartCounts DEF AtMostOneStart
<1> QED BY <1>1, <1>2, <1>3, MarketInvAlways, PTL DEF MarketSpec

(* Of a rental that exists, no step puts a start into a queue.             *)
LEMMA StartsAreNotAdded ==
    ASSUME ClosedInv, [MarketNext]_marketVars, NEW r \in DOMAIN rentals,
           NEW y \in Machines, NEW n, StartAt(r, y, n)'
    PROVE  StartAt(r, y, n)
<1>0. commands \in [Machines -> Seq(Commands(RentalIds))]
  BY DEF ClosedInv, TypeOK
<1>1. CASE UNCHANGED commands
  BY <1>1 DEF StartAt
<1>2. ASSUME NEW x \in RentalIds, NEW m \in Machines, NEW a \in Accounts,
             CreateRental(x, m, a)
      PROVE  StartAt(r, y, n)
  <2>1. x # r /\ commands' = [commands EXCEPT ![m] = Append(@, StartRental(x))]
    BY <1>2 DEF CreateRental
  <2> QED BY <1>0, <2>1 DEF StartAt, StartRental
<1>3. ASSUME NEW x \in DOMAIN rentals, MarkEvicting(x)
      PROVE  StartAt(r, y, n)
  <2>1. PICK m : commands' = [commands EXCEPT ![m] = Append(@, StopRental(x))]
    BY <1>3 DEF MarkEvicting
  <2> QED BY <1>0, <2>1 DEF StartAt, StartRental, StopRental
<1>4. ASSUME NEW m \in Machines, Drained(m) PROVE StartAt(r, y, n)
  BY <1>0, <1>4 DEF Drained, StartAt
<1>5. ASSUME NEW m \in Machines, Beat(m) PROVE StartAt(r, y, n)
  BY <1>4, <1>5 DEF Beat, Heartbeat, Drained
<1> QED BY <1>1, <1>2, <1>3, <1>4, <1>5, WritersOfQueues

(* A start leaves its queue for good, whatever is retried, restarted or    *)
(* evicted afterwards.  With StartsAtMostOnce: an agent is told to start a *)
(* rental at most once, which is what HostRuntimes takes from its caller.  *)
THEOREM StartNeverQueuedAgain == MarketSpec => StartQueuedOnce
<1>1. ASSUME ClosedInv, [MarketNext]_marketVars, NEW r \in DOMAIN rentals,
             StartsQueued(r) = {}
      PROVE  StartsQueued(r)' = {}
  <2>1. ASSUME NEW p \in StartsQueued(r)' PROVE p \in StartsQueued(r)
    <3>1. p \in Machines \X (1..MaxQueue) /\ StartAt(r, p[1], p[2])'
      BY <2>1 DEF StartsQueued, StartAt
    <3>2. p[1] \in Machines
      BY <3>1
    <3>3. StartAt(r, p[1], p[2])
      BY <1>1, <3>1, <3>2, StartsAreNotAdded
    <3> QED BY <3>1, <3>3 DEF StartsQueued, StartAt
  <2> QED BY <1>1, <2>1
<1>2. ASSUME ClosedInv, [MarketNext]_marketVars
      PROVE  \A r \in DOMAIN rentals :
                StartsQueued(r) = {} => StartsQueued(r)' = {}
  BY <1>1, <1>2
<1> QED BY <1>2, ClosedAlways, PTL DEF MarketSpec, StartQueuedOnce
=============================================================================
