---------------------------- MODULE HostRuntimes ----------------------------
(***************************************************************************)
(* One host: the agent process on one of the two platforms `connect` knows,*)
(* Docker or Metal, with the probe of its hardware at start-up.            *)
(***************************************************************************)
EXTENDS FiniteSets, RuntimeCalls, Benchmark

CONSTANTS
    Platforms,    \* out of {"docker", "metal"}
    ExitsOn,      \* the platforms whose agent process may end
    Stale,        \* see DockerHost
    ChildrenSurvive,  \* see MetalHost
    Inventories   \* per platform, the sets of GPUs the host may have

ASSUME PlatformAssumption == Platforms \subseteq {"docker", "metal"}
ASSUME StaleAssumption == Stale \subseteq RentalIds

(* A host has finitely many GPUs, and the tuple of a GPU, its UUID in it,  *)
(* is of no other.                                                         *)
ASSUME InventoryAssumption ==
    \A p \in Platforms :
       /\ \A gpus \in Inventories[p] :
             IsFiniteSet(gpus) /\ \A g \in gpus : IsGpu(g)
       /\ \A g, h \in UNION Inventories[p] : g.tuple = h.tuple => g = h

VARIABLES
    platform,               \* fixed when the agent is compiled
    containers,             \* DockerHost
    jobs, workers,          \* MetalHost
    hardware,               \* the GPUs in the host
    registered              \* the last registration and the GPUs it was of

Docker == INSTANCE DockerHost
Metal  == INSTANCE MetalHost

runtime == <<containers, jobs, workers>>
host    == <<platform, hardware, registered>>
hostVars == <<callVars, runtime, host>>

Never == [gpus |-> {}, fingerprint |-> << >>, dlperf |-> 0]

HostInit ==
    /\ platform \in Platforms
    /\ IF platform = "docker" THEN Docker!DockerInit
       ELSE CallInit /\ containers = << >>
    /\ Metal!MetalInit
    /\ hardware \in Inventories[platform]
    /\ registered = Never

(* main: probe, register, connect to the runtime, enter the loop.  The     *)
(* process ends when the runtime does not answer.                          *)
Boot ==
    /\ \E probed \in Probe(hardware) :
          registered' = [gpus        |-> hardware,
                         fingerprint |-> probed.fingerprint,
                         dlperf      |-> probed.dlperf]
    /\ \/ Connect
       \/ ~up /\ UNCHANGED callVars
    /\ UNCHANGED <<runtime, platform, hardware>>

(* The GPUs are changed while the agent is down.  Bound: on a host that    *)
(* has not served a rental yet.                                            *)
SwapHardware ==
    /\ ~up /\ begun = {}
    /\ hardware' \in Inventories[platform]
    /\ UNCHANGED <<callVars, runtime, platform, registered>>

DockerNext ==
    /\ \/ \E c \in Calls : Docker!DockerStep(c)
       \/ \E r \in RentalIds : Docker!ContainerExits(r)
       \/ "docker" \in ExitsOn /\ Exit /\ UNCHANGED containers
    /\ UNCHANGED <<jobs, workers>>

MetalNext ==
    /\ \/ \E c \in Calls : Metal!MetalStep(c)
       \/ \E r \in RentalIds : Metal!BindPort(r) \/ Metal!WorkerDies(r)
       \/ "metal" \in ExitsOn /\ Metal!MetalExit
    /\ UNCHANGED containers

HostNext ==
    \/ Boot
    \/ SwapHardware
    \/ platform = "docker" /\ DockerNext /\ UNCHANGED host
    \/ platform = "metal"  /\ MetalNext  /\ UNCHANGED host

HostSpec == HostInit /\ [][HostNext]_hostVars

-----------------------------------------------------------------------------
(* The task of HostAgent that a call stands for.                           *)
TaskOf(c) == [machine |-> "host", cmd |-> calls[c].cmd,
              rental |-> calls[c].rental, outcome |-> calls[c].outcome]

TaskBag == [t \in {TaskOf(c) : c \in Active} |->
               Cardinality({c \in Active : TaskOf(c) = t})]

(* The running containers; the live workers, whether the agent knows them  *)
(* or not.  A worker counts from the return of its start until a stop has  *)
(* taken its job to kill it.                                               *)
Between(r) ==
    \E c \in Active : Rental(c) = r /\ (At(c, "insert") \/ At(c, "kill"))

Workloads == IF platform = "docker" THEN Docker!Listed
             ELSE {r \in DOMAIN workers : ~Between(r)}

Agent == INSTANCE HostAgent WITH
            Machines  <- {"host"},
            up        <- IF up THEN {"host"} ELSE {},
            tasks     <- TaskBag,
            workloads <- [m \in {"host"} |-> Workloads]

(* Both runtimes implement the agent of the marketplace, if workers end    *)
(* with their agent: a workload begins only with the return of a start of  *)
(* its rental (of a failed one too, when only Docker's answer was lost),   *)
(* none is left by a stop that reports `stopped`, the end of the agent     *)
(* leaves all workloads or none, and a command is one task and one report. *)
(* A worker that its agent has forgotten is a workload no stop can end.    *)
ImplementsHostAgent == Agent!AgentSpec

(* Type invariant of the host.                                             *)
HostTypeOK ==
    /\ CallTypeOK
    /\ Docker!DockerTypeOK
    /\ Metal!MetalTypeOK
    /\ platform \in Platforms
    /\ hardware \in Inventories[platform]

(* What is alive of a rental: its container, running or not; its process.  *)
Remains(r) == r \in DOMAIN containers \cup DOMAIN workers

(* A rental that was stopped, with no start of it under way or to come,    *)
(* stays stopped: once the stops of it have returned nothing of it is left,*)
(* whatever ran, failed or crashed in between.                             *)
StoppedStaysStopped ==
    \A r \in ended : InProgress(r, "stop_rental") = {} => ~Remains(r)

(* Docker, runtime.rs:38-40: the port a start reports is in the range the  *)
(* provider opened, and is published by that rental's running container    *)
(* and by no other, although it was picked from a list of containers read  *)
(* four calls earlier.                                                     *)
ReportedPortIsServed ==
    [][\A c \in Calls :
          /\ platform = "docker"
          /\ calls'[c].at = "done" /\ ~At(c, "done")
          /\ calls'[c].outcome = "running"
          => /\ calls'[c].port \in Ports
             /\ {r \in DOMAIN containers' :
                    /\ containers'[r].state = "running"
                    /\ containers'[r].port = calls'[c].port} = {Rental(c)}
      ]_hostVars

(* SPEC 6, benchmark.rs:153-156: across restarts the fingerprint changes   *)
(* exactly when the hardware does, in whatever order the GPUs are listed.  *)
FingerprintTracksHardware ==
    [][registered # Never /\ registered' # registered =>
          (registered'.fingerprint = registered.fingerprint
              <=> registered'.gpus = registered.gpus)]_hostVars

(* A row that comes after a less specific one, against benchmark.rs:201:   *)
(* "a40" takes every "rtx a4000".                                          *)
Shadowed == {"rtx a4000"}

(* benchmark.rs:198-201: the score sent is that of the rows that name the  *)
(* GPUs, although several rows match a name and the first one counts.      *)
ScoredByName ==
    (\A g \in registered.gpus : g.model \notin Shadowed) =>
        registered.dlperf =
            SumFunction([g \in registered.gpus |-> ScoreByName(g)])

(* mac_worker.rs:6-7: "The agent kills the process on `stop_rental`."  An  *)
(* agent that was restarted no longer knows the process.                   *)
StopKillsWorker ==
    \A r \in ended : InProgress(r, "stop_rental") = {}
                         => r \notin DOMAIN workers
=============================================================================
