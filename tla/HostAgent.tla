------------------------------ MODULE HostAgent ------------------------------
(***************************************************************************)
(* The host agents: what vgpu-agent does with the commands a heartbeat     *)
(* returns.  Every command becomes a task of its own, so that a slow image *)
(* pull never holds up the heartbeat loop; the tasks of one agent run      *)
(* concurrently and in no particular order, and each sends one report.     *)
(*                                                                         *)
(* The runtime is seen here through the outcome of start_rental and        *)
(* stop_rental and the workloads they leave running.  A stop that succeeds *)
(* leaves none: so do Docker, which still knows its containers after the   *)
(* agent has restarted, and Metal where the workers end with the agent.    *)
(***************************************************************************)
EXTENDS RentalCore, Sequences, BagsExt, FiniteSets

CONSTANTS Machines, RentalIds

VARIABLES
    up,         \* the machines whose agent process is running
    tasks,      \* a bag: the dispatch tasks that have not reported yet
    workloads   \* per machine, the rentals that have a running workload

agentVars == <<up, tasks, workloads>>

Pending == [machine : Machines, cmd : {"start_rental", "stop_rental"},
            rental : RentalIds, outcome : {"pending"}]
Finished == [machine : Machines, cmd : {"start_rental"},
             rental : RentalIds, outcome : {"running", "failed"}]
            \cup [machine : Machines, cmd : {"stop_rental"},
                  rental : RentalIds, outcome : {"stopped", "failed"}]
Task == Pending \cup Finished

NewTask(m, c) == [machine |-> m, cmd |-> c.cmd, rental |-> c.rental,
                  outcome |-> "pending"]

Running == DOMAIN tasks
NoTasks == [t \in {} |-> 0]

Init ==
    /\ up = {}
    /\ tasks = NoTasks
    /\ workloads = [m \in Machines |-> {}]

(* The process starts, registers, and enters the heartbeat loop.  What the *)
(* runtime still runs is counted and logged, nothing more.                 *)
Boot(m) ==
    /\ m \notin up
    /\ up' = up \cup {m}
    /\ UNCHANGED <<tasks, workloads>>

(* Mutation of Receive: the commands after the first are dropped.          *)
ReceiveOne(m, cmds) ==
    /\ m \in up
    /\ tasks' = IF cmds = << >> THEN tasks
                               ELSE BagAdd(tasks, NewTask(m, Head(cmds)))
    /\ UNCHANGED <<up, workloads>>

(* The heartbeat's response: one task per command.                         *)
Receive(m, cmds) ==
    /\ m \in up
    /\ tasks' = [t \in Running \cup {NewTask(m, cmds[n]) : n \in DOMAIN cmds} |->
                   (IF t \in Running THEN tasks[t] ELSE 0)
                     + Cardinality({n \in DOMAIN cmds : NewTask(m, cmds[n]) = t})]
    /\ UNCHANGED <<up, workloads>>

Finish(t, outcome) ==
    tasks' = BagAdd(BagRemove(tasks, t), [t EXCEPT !.outcome = outcome])

(* start_rental succeeds.                                                  *)
Launch(t) ==
    /\ t.cmd = "start_rental" /\ t.outcome = "pending"
    /\ workloads' = [workloads EXCEPT ![t.machine] = @ \cup {t.rental}]
    /\ Finish(t, "running")
    /\ UNCHANGED up

(* start_rental fails: the pull, the port, the create or the start.  When  *)
(* only the runtime's answer was lost, the workload runs all the same; a   *)
(* stale one of the same name may be gone.                                 *)
LaunchFails(t) ==
    /\ t.cmd = "start_rental" /\ t.outcome = "pending"
    /\ \E left \in {workloads[t.machine] \cup {t.rental},
                   workloads[t.machine] \ {t.rental}} :
          workloads' = [workloads EXCEPT ![t.machine] = left]
    /\ Finish(t, "failed")
    /\ UNCHANGED up

(* start_rental succeeds, and the workload has ended before anyone looks.  *)
LaunchDead(t) ==
    /\ t.cmd = "start_rental" /\ t.outcome = "pending"
    /\ Finish(t, "running")
    /\ UNCHANGED <<up, workloads>>

(* A workload ends by itself.  Nothing in the agent watches for that.      *)
WorkloadEnds(m, r) ==
    /\ r \in workloads[m]
    /\ workloads' = [workloads EXCEPT ![m] = @ \ {r}]
    /\ UNCHANGED <<up, tasks>>

(* Mutation of Halt: only a workload the runtime knows can be stopped.     *)
HaltRunning(t) ==
    /\ t.cmd = "stop_rental" /\ t.outcome = "pending"
    /\ t.rental \in workloads[t.machine]
    /\ workloads' = [workloads EXCEPT ![t.machine] = @ \ {t.rental}]
    /\ Finish(t, "stopped")
    /\ UNCHANGED up

(* stop_rental succeeds, also when there is nothing to stop.               *)
Halt(t) ==
    /\ t.cmd = "stop_rental" /\ t.outcome = "pending"
    /\ workloads' = [workloads EXCEPT ![t.machine] = @ \ {t.rental}]
    /\ Finish(t, "stopped")
    /\ UNCHANGED up

(* stop_rental fails: the container is left running, or it is stopped and  *)
(* only its removal fails.                                                 *)
HaltFails(t) ==
    /\ t.cmd = "stop_rental" /\ t.outcome = "pending"
    /\ \E gone \in {{}, {t.rental}} :
          workloads' = [workloads EXCEPT ![t.machine] = @ \ gone]
    /\ Finish(t, "failed")
    /\ UNCHANGED up

(* The task sends its report and ends; a report is never sent again.       *)
SendReport(t) ==
    /\ t.outcome # "pending"
    /\ tasks' = BagRemove(tasks, t)
    /\ UNCHANGED <<up, workloads>>

(* The process ends, by a crash or after ctrl_c.  Its tasks go with it;    *)
(* containers do not, and child processes do or do not, all of them.       *)
Exit(m) ==
    /\ m \in up
    /\ up' = up \ {m}
    /\ tasks' = [t \in {u \in Running : u.machine # m} |-> tasks[t]]
    /\ \E left \in {workloads[m], {}} :
          workloads' = [workloads EXCEPT ![m] = left]

(* Any number of agents, told anything by anyone: what Marketplace composes *)
(* with the control plane, and what the host runtimes implement.  A        *)
(* response of several commands is as many responses of one.  The runtime  *)
(* may still run workloads from before this agent was first started.       *)
AgentInit ==
    /\ up = {}
    /\ tasks = NoTasks
    /\ workloads \in [Machines -> SUBSET RentalIds]

AgentNext ==
    \/ \E m \in Machines :
          \/ Boot(m) \/ Exit(m)
          \/ \E c \in Commands(RentalIds) : Receive(m, <<c>>)
          \/ \E r \in RentalIds : WorkloadEnds(m, r)
    \/ \E t \in Running :
          \/ Launch(t) \/ LaunchFails(t) \/ LaunchDead(t)
          \/ Halt(t) \/ HaltFails(t)
          \/ SendReport(t)

AgentSpec == AgentInit /\ [][AgentNext]_agentVars

TypeOK ==
    /\ up \subseteq Machines
    /\ Running \subseteq Task
    /\ \A t \in Running : tasks[t] \in Nat \ {0}
    /\ workloads \in [Machines -> SUBSET RentalIds]
=============================================================================
