----------------------------- MODULE DockerHost -----------------------------
(***************************************************************************)
(* DockerRuntime: start_rental and stop_rental as the sequences of Docker  *)
(* API calls they are.  Every call may fail, before or after it has taken  *)
(* effect, and other tasks run between any two of them.                    *)
(***************************************************************************)
EXTENDS RuntimeCalls, Functions

CONSTANT Stale  \* the rentals of an earlier deployment that left containers

VARIABLE containers  \* Docker: by rental id, the container of that name

dockerVars == <<callVars, containers>>

Container == [state : {"created", "running", "exited"}, port : Ports]

DockerInit ==
    /\ CallInit
    /\ containers = [r \in Stale |-> [state |-> "running", port |-> PortStart]]

(* running_rentals: list_containers with all: false, by label.             *)
Listed == {r \in DOMAIN containers : containers[r].state = "running"}

(* used_ports, and available                                               *)
UsedPorts == {containers[r].port : r \in Listed}
Available == Free(UsedPorts)

Without(r) == Restrict(containers, DOMAIN containers \ {r})

DockerReceive(c, cmd, r) ==
    /\ Dispatch(c, cmd, r, IF cmd = "start_rental" THEN "pull" ELSE "stop")
    /\ UNCHANGED containers

(* start_rental: the image is pulled, however long that takes.             *)
PullImage(c) ==
    /\ At(c, "pull")
    /\ Goto(c, "list")
    /\ UNCHANGED containers

(* start_rental: the lowest free port, from the containers listed now.     *)
PickPort(c) ==
    /\ At(c, "list")
    /\ Available # {}
    /\ GotoWithPort(c, "clear", PickFreePort(UsedPorts))
    /\ UNCHANGED containers

(* start_rental: force_remove of a stale container of that name.           *)
ClearStale(c) ==
    /\ At(c, "clear")
    /\ containers' = Without(Rental(c))
    /\ Goto(c, "create")

Created(c) == [r \in DOMAIN containers \cup {Rental(c)} |->
                  IF r = Rental(c)
                  THEN [state |-> "created", port |-> calls[c].port]
                  ELSE containers[r]]

(* create_container; a name that is taken is a conflict.                   *)
CreateContainer(c) ==
    /\ At(c, "create")
    /\ Rental(c) \notin DOMAIN containers
    /\ containers' = Created(c)
    /\ Goto(c, "start")

(* Docker binds the published port when it starts the container.           *)
Startable(r) ==
    /\ r \in DOMAIN containers
    /\ \A s \in Listed \ {r} : containers[s].port # containers[r].port

(* Mutation of StartContainer: its error is ignored.                       *)
StartUnchecked(c) ==
    /\ At(c, "start")
    /\ containers' = IF Startable(Rental(c))
                     THEN [containers EXCEPT ![Rental(c)].state = "running"]
                     ELSE containers
    /\ Return(c, "running")

StartContainer(c) ==
    /\ At(c, "start")
    /\ Startable(Rental(c))
    /\ containers' = [containers EXCEPT ![Rental(c)].state = "running"]
    /\ Return(c, "running")

(* stop_rental: stop_container; a container that is unknown or already     *)
(* stopped is as good as stopped.                                          *)
Stopped(r) == IF r \in Listed THEN [containers EXCEPT ![r].state = "exited"]
                              ELSE containers

(* Mutation of StopContainer: every error is taken for "no such container" *)
StopDetached(c) ==
    /\ At(c, "stop")
    /\ Return(c, "stopped")
    /\ UNCHANGED containers

StopContainer(c) ==
    /\ At(c, "stop")
    /\ containers' = Stopped(Rental(c))
    /\ Goto(c, "remove")

(* Mutation of RemoveContainer: the container is left for `docker rm`.     *)
LeaveContainer(c) ==
    /\ At(c, "remove")
    /\ Return(c, "stopped")
    /\ UNCHANGED containers

(* stop_rental: force_remove.                                              *)
RemoveContainer(c) ==
    /\ At(c, "remove")
    /\ containers' = Without(Rental(c))
    /\ Return(c, "stopped")

(* What the API call that c stands at does to the containers.              *)
Effects(c) ==
    CASE At(c, "clear") \/ At(c, "remove") -> {Without(Rental(c))}
      [] At(c, "create") /\ Rental(c) \notin DOMAIN containers -> {Created(c)}
      [] At(c, "start") /\ Startable(Rental(c)) ->
            {[containers EXCEPT ![Rental(c)].state = "running"]}
      [] At(c, "stop") -> {Stopped(Rental(c))}
      [] OTHER -> {}

(* A `?`: the call is answered with an error, or the answer of a call that *)
(* took effect is lost; or no port is free.  The outcome is `failed`, and  *)
(* what the earlier calls did stays done.                                  *)
DockerFails(c) ==
    /\ c \in Active /\ ~At(c, "done")
    /\ containers' \in {containers} \cup Effects(c)
    /\ Return(c, "failed")

(* A container exits by itself.                                            *)
ContainerExits(r) ==
    /\ r \in Listed
    /\ containers' = Stopped(r)
    /\ UNCHANGED callVars

DockerStep(c) ==
    \/ \E cmd \in {"start_rental", "stop_rental"}, r \in RentalIds :
            DockerReceive(c, cmd, r)
    \/ PullImage(c) \/ PickPort(c) \/ ClearStale(c)
    \/ CreateContainer(c) \/ StartContainer(c)
    \/ StopContainer(c) \/ RemoveContainer(c)
    \/ DockerFails(c)
    \/ ReportSent(c) /\ UNCHANGED containers

DockerTypeOK ==
    /\ DOMAIN containers \subseteq RentalIds
    /\ \A r \in DOMAIN containers : containers[r] \in Container
=============================================================================
