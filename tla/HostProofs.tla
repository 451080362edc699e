----------------------------- MODULE HostProofs -----------------------------
(***************************************************************************)
(* Theorems of HostRuntimes, on both runtimes, for every number of         *)
(* rentals, ports and concurrent dispatch tasks.                           *)
(*                                                                         *)
(*   1. StopIsFinal     a rental that was stopped stays stopped            *)
(*   2. HostTyped       the type invariant                                 *)
(*   3. PortIsServed    a reported port is published by its rental only    *)
(*                                                                         *)
(* The invariant of 1 follows the calls of a rental: it is started once, a *)
(* job or a kill of it comes after that start, and a worker is always in   *)
(* the table of jobs or in the hands of a call that is about to put it     *)
(* there or kill it.  2 and 3 hold whether or not workers outlive their    *)
(* agent, and follow the port of a start from its choice to its report.    *)
(***************************************************************************)
EXTENDS HostRuntimes, Sums

StartSteps == {"pull", "list", "clear", "create", "start",
               "pick", "spawn", "insert"}
StopSteps  == {"stop", "remove", "take", "kill"}

(* runtime.rs:91-97: a picked port is in the opened range and is free.     *)
LEMMA PickedPort ==
    ASSUME NEW used, Free(used) # {}
    PROVE  PickFreePort(used) \in Ports /\ PickFreePort(used) \notin used
<1>1. \E p \in Free(used) : \A q \in Free(used) : p <= q
  BY LeastInRange, PortsAssumption DEF Free, Ports
<1>2. PickFreePort(used) \in Free(used)
  BY <1>1 DEF PickFreePort
<1> QED BY <1>2 DEF Free

PortValues == Ports \cup {NoPort}

CallRow == {Unused} \cup [at      : StartSteps \cup StopSteps \cup {"done"},
                         cmd     : {"start_rental", "stop_rental"},
                         rental  : RentalIds,
                         port    : PortValues,
                         outcome : {"pending"} \cup ReportStatus]

Pending(c, r, cmd) ==
    /\ calls[c] # Unused
    /\ calls[c].rental = r /\ calls[c].cmd = cmd /\ calls[c].outcome = "pending"

Starting(r) == \E c \in Calls : Pending(c, r, "start_rental")

(* The calls are of their commands, a rental is started once, and none     *)
(* that has ended is being started.                                        *)
CallInv ==
    /\ calls \in [Calls -> CallRow]
    /\ begun \subseteq RentalIds
    /\ \A c \in Calls : calls[c] # Unused =>
          /\ calls[c].outcome = "pending" <=> calls[c].at # "done"
          /\ calls[c].at \in StartSteps => calls[c].cmd = "start_rental"
          /\ calls[c].at \in StopSteps => calls[c].cmd = "stop_rental"
          /\ calls[c].cmd = "start_rental" => calls[c].rental \in begun
    /\ \A c, d \in Calls :
          /\ calls[c] # Unused /\ calls[c].cmd = "start_rental"
          /\ calls[d] # Unused /\ calls[d].cmd = "start_rental"
          /\ calls[c].rental = calls[d].rental
          => c = d
    /\ \A r \in ended : r \in begun /\ ~Starting(r)

(* The call goes on to another step of the same command.                   *)
Advance(c, new) ==
    /\ calls[c] # Unused /\ calls[c].at # "done"
    /\ new \in CallRow /\ new # Unused
    /\ new.cmd = calls[c].cmd
    /\ new.rental = calls[c].rental
    /\ new.outcome = calls[c].outcome
    /\ new.at \in IF calls[c].cmd = "start_rental" THEN StartSteps
                                                   ELSE StopSteps
    /\ calls' = [calls EXCEPT ![c] = new]
    /\ UNCHANGED <<up, begun, ended>>

(* No step starts a rental again.                                          *)
NoRestart ==
    /\ begun \subseteq begun'
    /\ \A r \in begun : Starting(r)' => Starting(r)

(* A call that moves on within its command keeps what CallInv says of it.  *)
LEMMA AdvanceKeeps ==
    ASSUME CallInv, NEW c \in Calls, NEW new, Advance(c, new)
    PROVE  CallInv' /\ NoRestart
<1>1. /\ calls' \in [Calls -> CallRow]
      /\ calls'[c] = new
      /\ \A d \in Calls \ {c} : calls'[d] = calls[d]
      /\ begun' = begun /\ ended' = ended
  BY DEF CallInv, Advance
<1>2. \A d \in Calls : /\ calls'[d] # Unused <=> calls[d] # Unused
                       /\ calls[d] # Unused =>
                            /\ calls'[d].cmd = calls[d].cmd
                            /\ calls'[d].rental = calls[d].rental
                            /\ calls'[d].outcome = calls[d].outcome
  BY <1>1 DEF Advance
<1>3. \A r : Starting(r)' => Starting(r)
  BY <1>2 DEF Starting, Pending
<1>4. new.at # "done" /\ (new.at \in StartSteps => new.cmd = "start_rental")
                      /\ (new.at \in StopSteps => new.cmd = "stop_rental")
  <2>1. calls[c].cmd \in {"start_rental", "stop_rental"}
    BY DEF CallInv, CallRow, Advance
  <2> QED BY <2>1 DEF Advance, StartSteps, StopSteps
<1>5. \A d \in Calls : calls'[d] # Unused =>
          /\ calls'[d].outcome = "pending" <=> calls'[d].at # "done"
          /\ calls'[d].at \in StartSteps => calls'[d].cmd = "start_rental"
          /\ calls'[d].at \in StopSteps => calls'[d].cmd = "stop_rental"
          /\ calls'[d].cmd = "start_rental" => calls'[d].rental \in begun'
  <2> SUFFICES ASSUME NEW d \in Calls, calls'[d] # Unused
               PROVE  /\ calls'[d].outcome = "pending" <=> calls'[d].at # "done"
                      /\ calls'[d].at \in StartSteps =>
                            calls'[d].cmd = "start_rental"
                      /\ calls'[d].at \in StopSteps =>
                            calls'[d].cmd = "stop_rental"
                      /\ calls'[d].cmd = "start_rental" =>
                            calls'[d].rental \in begun'
    OBVIOUS
  <2>1. CASE d # c BY <1>1, <2>1 DEF CallInv
  <2>2. CASE d = c BY <1>1, <1>2, <1>4, <2>2 DEF CallInv, Advance
  <2> QED BY <2>1, <2>2
<1>6. CallInv'
  BY <1>1, <1>2, <1>3, <1>5 DEF CallInv
<1> QED BY <1>1, <1>3, <1>6 DEF NoRestart

(* The call returns, its task ends, or the process does.                   *)
LEMMA ReturnKeeps ==
    ASSUME CallInv, NEW c \in Calls, NEW outcome \in ReportStatus,
           calls[c] # Unused, calls[c].at # "done", Return(c, outcome)
    PROVE  /\ CallInv' /\ NoRestart
           /\ \A r \in ended' \ ended : /\ outcome = "stopped"
                                        /\ r = calls[c].rental
                                        /\ r \in begun /\ ~Starting(r)
<1> DEFINE new == [calls[c] EXCEPT !.at = "done", !.outcome = outcome]
<1>1. /\ calls[c] \in CallRow \ {Unused}
      /\ calls' = [calls EXCEPT ![c] = new]
      /\ begun' = begun
  BY DEF CallInv, Return
<1>2. /\ new \in CallRow /\ new # Unused
      /\ new.at = "done" /\ new.outcome = outcome
      /\ new.cmd = calls[c].cmd /\ new.rental = calls[c].rental
  BY <1>1 DEF CallRow, Unused, PortValues
<1> HIDE DEF new
<1>3. /\ calls' \in [Calls -> CallRow]
      /\ calls'[c] = new
      /\ \A d \in Calls \ {c} : calls'[d] = calls[d]
  BY <1>1, <1>2 DEF CallInv
<1>4. outcome # "pending"
  BY DEF ReportStatus
<1>5. \A r : Starting(r)' => Starting(r)
  BY <1>2, <1>3, <1>4 DEF Starting, Pending
<1>6. \A r \in ended' \ ended :
          outcome = "stopped" /\ r = calls[c].rental /\ r \in begun /\ ~Starting(r)
  BY DEF Return, Rental, InProgress, Active, Starting, Pending
<1>7. \A r \in ended' : r \in begun' /\ ~Starting(r)'
  BY <1>1, <1>5, <1>6 DEF CallInv
<1>8. \A d \in Calls : calls'[d] # Unused =>
          /\ calls'[d].outcome = "pending" <=> calls'[d].at # "done"
          /\ calls'[d].at \in StartSteps => calls'[d].cmd = "start_rental"
          /\ calls'[d].at \in StopSteps => calls'[d].cmd = "stop_rental"
          /\ calls'[d].cmd = "start_rental" => calls'[d].rental \in begun'
  BY <1>1, <1>2, <1>3, <1>4 DEF CallInv, StartSteps, StopSteps
<1>9. \A d, e \in Calls :
          /\ calls'[d] # Unused /\ calls'[d].cmd = "start_rental"
          /\ calls'[e] # Unused /\ calls'[e].cmd = "start_rental"
          /\ calls'[d].rental = calls'[e].rental
          => d = e
  BY <1>2, <1>3 DEF CallInv
<1>10. CallInv'
  BY <1>1, <1>3, <1>7, <1>8, <1>9 DEF CallInv
<1> QED BY <1>1, <1>5, <1>6, <1>10 DEF NoRestart

(* So does a call that ends with its report, and all of them at an exit.   *)
LEMMA EndingKeeps ==
    ASSUME CallInv, UNCHANGED <<begun, ended>>,
           \/ \E c \in Calls : calls' = [calls EXCEPT ![c] = Unused]
           \/ calls' = [c \in Calls |-> Unused]
    PROVE  CallInv' /\ NoRestart
<1>1. /\ calls' \in [Calls -> CallRow]
      /\ \A d \in Calls : calls'[d] = Unused \/ calls'[d] = calls[d]
  BY DEF CallInv, CallRow
<1>2. \A r : Starting(r)' => Starting(r)
  BY <1>1 DEF Starting, Pending
<1> QED BY <1>1, <1>2 DEF CallInv, NoRestart

(* A new call is of a rental that was never started, or is a stop.         *)
LEMMA DispatchKeeps ==
    ASSUME CallInv, NEW c \in Calls, NEW r \in RentalIds,
           NEW cmd \in {"start_rental", "stop_rental"}, NEW step,
           step \in IF cmd = "start_rental" THEN {"pull", "pick"}
                                            ELSE {"stop", "take"},
           Dispatch(c, cmd, r, step)
    PROVE  CallInv' /\ NoRestart
<1> DEFINE new == [at |-> step, cmd |-> cmd, rental |-> r, port |-> NoPort,
                   outcome |-> "pending"]
<1>1. /\ calls[c] = Unused
      /\ calls' = [calls EXCEPT ![c] = new]
      /\ begun' = IF cmd = "start_rental" THEN begun \cup {r} ELSE begun
      /\ ended' = ended
      /\ cmd = "start_rental" => r \notin begun
  BY DEF Dispatch
<1>2. /\ new \in CallRow /\ new # Unused
      /\ new.at = step /\ new.cmd = cmd /\ new.rental = r
      /\ new.outcome = "pending"
  BY DEF CallRow, Unused, PortValues, StartSteps, StopSteps
<1> HIDE DEF new
<1>3. /\ calls' \in [Calls -> CallRow]
      /\ calls'[c] = new
      /\ \A d \in Calls \ {c} : calls'[d] = calls[d]
  BY <1>1, <1>2 DEF CallInv
<1>4. \A x \in begun : Starting(x)' => Starting(x)
  BY <1>1, <1>2, <1>3 DEF Starting, Pending
<1>5. \A d \in Calls : calls'[d] # Unused =>
          /\ calls'[d].outcome = "pending" <=> calls'[d].at # "done"
          /\ calls'[d].at \in StartSteps => calls'[d].cmd = "start_rental"
          /\ calls'[d].at \in StopSteps => calls'[d].cmd = "stop_rental"
          /\ calls'[d].cmd = "start_rental" => calls'[d].rental \in begun'
  BY <1>1, <1>2, <1>3 DEF CallInv, StartSteps, StopSteps
<1>6. \A d, e \in Calls :
          /\ calls'[d] # Unused /\ calls'[d].cmd = "start_rental"
          /\ calls'[e] # Unused /\ calls'[e].cmd = "start_rental"
          /\ calls'[d].rental = calls'[e].rental
          => d = e
  BY <1>1, <1>2, <1>3 DEF CallInv
<1>7. \A x \in ended' : x \in begun' /\ ~Starting(x)'
  BY <1>1, <1>4 DEF CallInv
<1>8. CallInv'
  BY <1>1, <1>3, <1>5, <1>6, <1>7 DEF CallInv
<1> QED BY <1>1, <1>4, <1>8 DEF NoRestart

-----------------------------------------------------------------------------
(* Docker: no container of a rental that has ended.                        *)

Gone == \A r \in ended : r \notin DOMAIN containers

(* DockerHost and MetalHost see the calls as HostRuntimes does.            *)
LEMMA DockerCalls ==
    ASSUME NEW c, NEW x, NEW y, NEW z
    PROVE  /\ Docker!Dispatch(c, x, y, z) => Dispatch(c, x, y, z)
           /\ Docker!Return(c, x) => Return(c, x)
           /\ Docker!ReportSent(c) => ReportSent(c)
           /\ Docker!Unused = Unused
BY DEF Docker!Dispatch, Dispatch, Docker!Return, Return, Docker!ReportSent,
       ReportSent, Docker!Rental, Rental, Docker!InProgress, InProgress,
       Docker!Active, Active, Docker!Unused, Unused, Docker!NoPort, NoPort,
       Docker!At, At

(* Metal's calls are those of the host too.                                *)
LEMMA MetalCalls ==
    ASSUME NEW c, NEW x, NEW y, NEW z
    PROVE  /\ Metal!Dispatch(c, x, y, z) => Dispatch(c, x, y, z)
           /\ Metal!Return(c, x) => Return(c, x)
           /\ Metal!ReportSent(c) => ReportSent(c)
           /\ Metal!Unused = Unused
BY DEF Metal!Dispatch, Dispatch, Metal!Return, Return, Metal!ReportSent,
       ReportSent, Metal!Rental, Rental, Metal!InProgress, InProgress,
       Metal!Active, Active, Metal!Unused, Unused, Metal!NoPort, NoPort,
       Metal!At, At

(* Moving a call to the next step.                                         *)
LEMMA Going ==
    ASSUME CallInv, NEW c \in Calls, NEW step,
           calls[c].at \in StartSteps \/ calls[c].at \in StopSteps,
           step \in IF calls[c].at \in StartSteps THEN StartSteps
                                                  ELSE StopSteps,
           NEW port \in PortValues,
           \/ calls' = [calls EXCEPT ![c].at = step]
           \/ calls' = [calls EXCEPT ![c].at = step, ![c].port = port],
           UNCHANGED <<up, begun, ended>>
    PROVE  /\ CallInv' /\ NoRestart
           /\ calls'[c].at = step /\ calls'[c].rental = calls[c].rental
           /\ \A d \in Calls \ {c} : calls'[d] = calls[d]
<1>1. /\ calls[c] \in CallRow /\ calls[c] # Unused /\ calls[c].at # "done"
      /\ calls[c].cmd = IF calls[c].at \in StartSteps THEN "start_rental"
                                                      ELSE "stop_rental"
  BY DEF CallInv, Unused, StartSteps, StopSteps
<1>2. PICK new : /\ new \in {[calls[c] EXCEPT !.at = step],
                              [calls[c] EXCEPT !.at = step, !.port = port]}
                 /\ calls' = [calls EXCEPT ![c] = new]
  BY DEF CallInv
<1>3. /\ new \in CallRow /\ new # Unused
      /\ new.at = step
      /\ new.cmd = calls[c].cmd
      /\ new.rental = calls[c].rental
      /\ new.outcome = calls[c].outcome
  BY <1>1, <1>2 DEF CallRow, Unused, PortValues, StartSteps, StopSteps
<1>4. Advance(c, new)
  BY <1>1, <1>2, <1>3 DEF Advance
<1> QED BY <1>2, <1>3, <1>4, AdvanceKeeps DEF CallInv

(* A Docker call creates no container of a rental that has ended.          *)
LEMMA DockerStepKeeps ==
    ASSUME CallInv, Gone, NEW c \in Calls, Docker!DockerStep(c)
    PROVE  CallInv' /\ Gone'
<1> DEFINE r == calls[c].rental
<1>0. NoPort \in PortValues
  BY DEF PortValues
<1>1. ASSUME NEW cmd \in {"start_rental", "stop_rental"}, NEW x \in RentalIds,
             Docker!DockerReceive(c, cmd, x)
      PROVE  CallInv' /\ Gone'
  <2>1. Dispatch(c, cmd, x, IF cmd = "start_rental" THEN "pull" ELSE "stop")
    BY <1>1, DockerCalls DEF Docker!DockerReceive
  <2>2. CallInv'
    BY <2>1, DispatchKeeps
  <2> QED BY <1>1, <2>1, <2>2 DEF Dispatch, Docker!DockerReceive, Gone
<1>2. ASSUME Docker!PullImage(c) PROVE CallInv' /\ Gone'
  <2>1. CallInv'
    BY <1>0, <1>2, Going DEF Docker!PullImage, Docker!At, Docker!Goto,
       StartSteps
  <2> QED BY <1>2, <2>1 DEF Docker!PullImage, Docker!Goto, Gone
<1>3. ASSUME Docker!PickPort(c) PROVE CallInv' /\ Gone'
  <2> DEFINE port == Docker!PickFreePort(Docker!UsedPorts)
  <2>1. /\ Free(Docker!UsedPorts) # {}
        /\ port = PickFreePort(Docker!UsedPorts)
    BY <1>3 DEF Docker!PickPort, Docker!Available, Docker!PickFreePort,
       PickFreePort, Docker!Free, Free, Docker!Ports, Ports
  <2>2. port \in PortValues
    BY <2>1, PickedPort DEF PortValues
  <2> HIDE DEF port
  <2>3. CallInv'
    BY <1>3, <2>2, Going DEF Docker!PickPort, Docker!At, Docker!GotoWithPort,
       StartSteps, port
  <2> QED BY <1>3, <2>3 DEF Docker!PickPort, Docker!GotoWithPort, Gone
<1>4. ASSUME Docker!ClearStale(c) PROVE CallInv' /\ Gone'
  <2>1. CallInv'
    BY <1>0, <1>4, Going DEF Docker!ClearStale, Docker!At, Docker!Goto,
       StartSteps
  <2> QED BY <1>4, <2>1 DEF Docker!ClearStale, Docker!Goto, Docker!Without,
          Docker!Restrict, Gone
<1>5. ASSUME calls[c].at \in StartSteps PROVE r \notin ended
  BY <1>5 DEF CallInv, Starting, Pending, Unused, StartSteps
<1>6. DOMAIN Docker!Created(c) = DOMAIN containers \cup {r}
  BY DEF Docker!Created, Docker!Rental
<1>7. ASSUME Docker!CreateContainer(c) PROVE CallInv' /\ Gone'
  <2>1. CallInv'
    BY <1>0, <1>7, Going DEF Docker!CreateContainer, Docker!At, Docker!Goto,
       StartSteps
  <2> QED BY <1>5, <1>6, <1>7, <2>1 DEF Docker!CreateContainer, Docker!Goto,
          Docker!At, Gone, StartSteps
<1>8. ASSUME Docker!StartContainer(c) PROVE CallInv' /\ Gone'
  <2>1. calls[c] # Unused /\ calls[c].at # "done" /\ Return(c, "running")
    BY <1>8, DockerCalls DEF Docker!StartContainer, Docker!At, Unused
  <2>2. CallInv' /\ ended' \subseteq ended
    BY <2>1, ReturnKeeps DEF ReportStatus
  <2> QED BY <1>8, <2>2 DEF Docker!StartContainer, Gone
<1>9. ASSUME Docker!StopContainer(c) PROVE CallInv' /\ Gone'
  <2>1. CallInv'
    BY <1>0, <1>9, Going DEF Docker!StopContainer, Docker!At, Docker!Goto,
       StartSteps, StopSteps
  <2> QED BY <1>9, <2>1 DEF Docker!StopContainer, Docker!Goto, Docker!Stopped,
          Gone
<1>10. ASSUME Docker!RemoveContainer(c) PROVE CallInv' /\ Gone'
  <2>1. calls[c] # Unused /\ calls[c].at # "done" /\ Return(c, "stopped")
    BY <1>10, DockerCalls DEF Docker!RemoveContainer, Docker!At, Unused
  <2>2. CallInv' /\ ended' \subseteq ended \cup {r}
    BY <2>1, ReturnKeeps DEF ReportStatus
  <2> QED BY <1>10, <2>2 DEF Docker!RemoveContainer, Docker!Without,
          Docker!Restrict, Docker!Rental, Gone
<1>11. ASSUME Docker!DockerFails(c) PROVE CallInv' /\ Gone'
  <2>1. calls[c] # Unused /\ calls[c].at # "done" /\ Return(c, "failed")
    BY <1>11, DockerCalls DEF Docker!DockerFails, Docker!At, Docker!Active
  <2>2. CallInv' /\ ended' \subseteq ended
    BY <2>1, ReturnKeeps DEF ReportStatus
  <2>3. ASSUME NEW effect \in Docker!Effects(c)
        PROVE  \/ DOMAIN effect \subseteq DOMAIN containers
               \/ /\ calls[c].at = "create"
                  /\ DOMAIN effect = DOMAIN containers \cup {r}
    BY <1>6, <2>3 DEF Docker!Effects, Docker!Without, Docker!Restrict,
       Docker!Stopped, Docker!At
  <2> QED BY <1>5, <1>11, <2>2, <2>3 DEF Docker!DockerFails, Gone, StartSteps
<1>12. ASSUME Docker!ReportSent(c), UNCHANGED containers
       PROVE  CallInv' /\ Gone'
  <2>1. CallInv' /\ UNCHANGED ended
    BY <1>12, DockerCalls, EndingKeeps DEF ReportSent
  <2> QED BY <1>12, <2>1 DEF Gone
<1> QED
  BY <1>1, <1>2, <1>3, <1>4, <1>7, <1>8, <1>9, <1>10, <1>11, <1>12
  DEF Docker!DockerStep

-----------------------------------------------------------------------------
(* Metal: a job, and the kill of one, come after the only start of the     *)
(* rental, and a worker always has one of the two, or is about to.         *)

IsAt(c, step, r) ==
    calls[c] # Unused /\ calls[c].at = step /\ calls[c].rental = r

MetalInv ==
    /\ \A r \in DOMAIN jobs : r \in begun /\ ~Starting(r) /\ r \notin ended
    /\ \A c \in Calls, r \in RentalIds : IsAt(c, "kill", r) =>
          r \in begun /\ r \notin DOMAIN jobs /\ ~Starting(r)
    /\ \A r \in DOMAIN workers :
          \/ r \in DOMAIN jobs
          \/ \E c \in Calls : IsAt(c, "insert", r) \/ IsAt(c, "kill", r)

(* A step of a call that neither was nor is at `insert` or `kill`, and     *)
(* leaves jobs and workers alone.                                          *)
LEMMA MetalIdle ==
    ASSUME CallInv, MetalInv, CallInv', NoRestart, NEW c \in Calls,
           \A d \in Calls \ {c} : calls'[d] = calls[d],
           calls[c].at \notin {"insert", "kill"},
           calls'[c].at \notin {"insert", "kill"},
           \A r \in ended' \ ended : r \notin DOMAIN jobs,
           UNCHANGED <<jobs, workers>>
    PROVE  MetalInv'
<1>1. \A r \in DOMAIN jobs' : r \in begun' /\ ~Starting(r)' /\ r \notin ended'
  BY DEF MetalInv, NoRestart
<1>2. ASSUME NEW d \in Calls, NEW r, NEW step \in {"insert", "kill"}
      PROVE  IsAt(d, step, r)' <=> IsAt(d, step, r)
  BY DEF IsAt
<1>3. \A d \in Calls, r \in RentalIds : IsAt(d, "kill", r)' =>
          r \in begun' /\ r \notin DOMAIN jobs' /\ ~Starting(r)'
  BY <1>2 DEF MetalInv, NoRestart
<1>4. \A r \in DOMAIN workers' :
          \/ r \in DOMAIN jobs'
          \/ \E d \in Calls : IsAt(d, "insert", r)' \/ IsAt(d, "kill", r)'
  BY <1>2 DEF MetalInv
<1> QED BY <1>1, <1>3, <1>4 DEF MetalInv

(* A call that is at a step is in use, and of the step's command.          *)
LEMMA MetalAt ==
    ASSUME CallInv, NEW c \in Calls, calls[c].at \in StartSteps \cup StopSteps
    PROVE  /\ calls[c] \in CallRow /\ calls[c] # Unused
           /\ calls[c].rental \in RentalIds
           /\ calls[c].at \in StartSteps =>
                 /\ Starting(calls[c].rental)
                 /\ calls[c].rental \in begun
                 /\ calls[c].rental \notin ended
<1>1. calls[c] \in CallRow /\ calls[c] # Unused
  BY DEF CallInv, Unused, StartSteps, StopSteps
<1>2. calls[c].rental \in RentalIds
  BY <1>1 DEF CallRow
<1>3. calls[c].at \in StartSteps => Starting(calls[c].rental)
  BY <1>1 DEF CallInv, Starting, Pending, StartSteps
<1> QED BY <1>1, <1>2, <1>3 DEF CallInv

(* A Metal call leaves no worker without a job or a call that has it.      *)
LEMMA MetalStepKeeps ==
    ASSUME CallInv, MetalInv, NEW c \in Calls, Metal!MetalStep(c)
    PROVE  CallInv' /\ MetalInv'
<1>0. PICK r : r = calls[c].rental
  OBVIOUS
<1>1. ASSUME NEW cmd \in {"start_rental", "stop_rental"}, NEW x \in RentalIds,
             Metal!MetalReceive(c, cmd, x)
      PROVE  CallInv' /\ MetalInv'
  <2> DEFINE step == IF cmd = "start_rental" THEN "pick" ELSE "take"
  <2>1. Dispatch(c, cmd, x, step)
    BY <1>1, MetalCalls DEF Metal!MetalReceive
  <2>2. CallInv' /\ NoRestart
    BY <2>1, DispatchKeeps
  <2>3. /\ calls[c] = Unused
        /\ calls'[c].at \in {"pick", "take"}
        /\ \A d \in Calls \ {c} : calls'[d] = calls[d]
        /\ UNCHANGED <<ended, jobs, workers>>
    BY <1>1, <2>1 DEF Dispatch, Metal!MetalReceive, CallInv
  <2>4. calls[c].at \notin {"insert", "kill"}
    BY <2>3 DEF Unused
  <2> QED BY <2>2, <2>3, <2>4, MetalIdle
<1>2. ASSUME Metal!PickJobPort(c) PROVE CallInv' /\ MetalInv'
  <2>1. PICK port : /\ Free(Metal!JobPorts) # {}
                    /\ port = PickFreePort(Metal!JobPorts)
                    /\ calls' = [calls EXCEPT ![c].at = "spawn", ![c].port = port]
    BY <1>2 DEF Metal!PickJobPort, Metal!GotoWithPort, Metal!PickFreePort,
       PickFreePort, Metal!Free, Free, Metal!Ports, Ports
  <2>2. port \in PortValues
    BY <2>1, PickedPort DEF PortValues
  <2>3. /\ calls[c].at = "pick" /\ UNCHANGED <<up, begun, ended, jobs, workers>>
    BY <1>2 DEF Metal!PickJobPort, Metal!GotoWithPort, Metal!At
  <2>4. /\ CallInv' /\ NoRestart /\ calls'[c].at = "spawn"
        /\ \A d \in Calls \ {c} : calls'[d] = calls[d]
    BY <2>1, <2>2, <2>3, Going DEF StartSteps
  <2> QED BY <2>3, <2>4, MetalIdle
<1>3. ASSUME Metal!SpawnWorker(c) PROVE CallInv' /\ MetalInv'
  <2>1. /\ calls[c].at = "spawn"
        /\ calls' = [calls EXCEPT ![c].at = "insert"]
        /\ UNCHANGED <<up, begun, ended, jobs>>
        /\ DOMAIN workers' = DOMAIN workers \cup {r}
    BY <1>0, <1>3 DEF Metal!SpawnWorker, Metal!Goto, Metal!At, Metal!Rental
  <2>2. /\ CallInv' /\ NoRestart /\ calls'[c].at = "insert"
        /\ calls'[c].rental = r
        /\ \A d \in Calls \ {c} : calls'[d] = calls[d]
    BY <1>0, <2>1, Going DEF StartSteps, PortValues
  <2>3. IsAt(c, "insert", r)'
    BY <2>2 DEF IsAt, Unused
  <2>4. ASSUME NEW d \in Calls, NEW x, NEW step \in {"insert", "kill"},
               IsAt(d, step, x)
        PROVE  IsAt(d, step, x)'
    BY <2>1, <2>2, <2>4 DEF IsAt
  <2>5. ASSUME NEW d \in Calls, NEW x, IsAt(d, "kill", x)'
        PROVE  IsAt(d, "kill", x)
    BY <2>2, <2>5 DEF IsAt
  <2>6. \A d \in Calls, x \in RentalIds : IsAt(d, "kill", x)' =>
            x \in begun' /\ x \notin DOMAIN jobs' /\ ~Starting(x)'
    BY <2>1, <2>2, <2>5 DEF MetalInv, NoRestart
  <2>7. \A x \in DOMAIN jobs' : x \in begun' /\ ~Starting(x)' /\ x \notin ended'
    BY <2>1, <2>2 DEF MetalInv, NoRestart
  <2>8. \A x \in DOMAIN workers' :
            \/ x \in DOMAIN jobs'
            \/ \E d \in Calls : IsAt(d, "insert", x)' \/ IsAt(d, "kill", x)'
    BY <2>1, <2>3, <2>4 DEF MetalInv
  <2> QED BY <2>2, <2>6, <2>7, <2>8 DEF MetalInv
<1>4. ASSUME calls[c] # Unused, calls[c].at # "done",
             NEW outcome \in ReportStatus, Return(c, outcome)
      PROVE  /\ calls'[c].at = "done" /\ calls'[c].outcome = outcome
             /\ \A d \in Calls \ {c} : calls'[d] = calls[d]
             /\ CallInv' /\ NoRestart /\ begun' = begun
             /\ \A x \in ended' \ ended : /\ outcome = "stopped" /\ x = r
                                          /\ x \in begun /\ ~Starting(x)
  <2>1. /\ calls'[c].at = "done" /\ calls'[c].outcome = outcome
        /\ \A d \in Calls \ {c} : calls'[d] = calls[d]
        /\ begun' = begun
    BY <1>4 DEF Return, CallInv, CallRow
  <2> QED BY <1>0, <1>4, <2>1, ReturnKeeps
<1>5. ASSUME Metal!InsertJob(c) PROVE CallInv' /\ MetalInv'
  <2>1. /\ calls[c].at = "insert" /\ Return(c, "running")
        /\ UNCHANGED workers
        /\ DOMAIN jobs' = DOMAIN jobs \cup {r}
    BY <1>0, <1>5, MetalCalls DEF Metal!InsertJob, Metal!At, Metal!Rental
  <2>2. calls[c] # Unused
    BY <2>1, MetalAt DEF StartSteps
  <2>3. /\ calls'[c].at = "done" /\ calls'[c].outcome = "running"
        /\ \A d \in Calls \ {c} : calls'[d] = calls[d]
        /\ CallInv' /\ NoRestart /\ begun' = begun
        /\ ended' \subseteq ended
    BY <1>4, <2>1, <2>2 DEF ReportStatus
  <2>4. r \in begun /\ r \notin ended /\ Starting(r)
    BY <1>0, <2>1, MetalAt DEF StartSteps
  <2>5. calls[c].cmd = "start_rental"
    BY <2>1, <2>2 DEF CallInv, StartSteps
  <2>6. ASSUME NEW d \in Calls PROVE ~Pending(d, r, "start_rental")'
    <3>1. CASE d = c BY <2>3, <3>1 DEF Pending
    <3>2. CASE d # c BY <1>0, <2>2, <2>3, <2>5, <3>2 DEF Pending, CallInv
    <3> QED BY <3>1, <3>2
  <2>7. ~Starting(r)'
    BY <2>6 DEF Starting
  <2>8. ASSUME NEW d \in Calls, NEW x, IsAt(d, "kill", x)'
        PROVE  IsAt(d, "kill", x)
    BY <2>3, <2>8 DEF IsAt
  <2>9. \A d \in Calls, x \in RentalIds : IsAt(d, "kill", x)' =>
            x \in begun' /\ x \notin DOMAIN jobs' /\ ~Starting(x)'
    BY <2>1, <2>3, <2>4, <2>8 DEF MetalInv, NoRestart
  <2>10. \A x \in DOMAIN jobs' : x \in begun' /\ ~Starting(x)' /\ x \notin ended'
    BY <2>1, <2>3, <2>4, <2>7 DEF MetalInv, NoRestart
  <2>11. \A x \in DOMAIN workers' :
            \/ x \in DOMAIN jobs'
            \/ \E d \in Calls : IsAt(d, "insert", x)' \/ IsAt(d, "kill", x)'
    BY <1>0, <2>1, <2>3 DEF MetalInv, IsAt
  <2> QED BY <2>3, <2>9, <2>10, <2>11 DEF MetalInv
<1>6. ASSUME Metal!StartFails(c) PROVE CallInv' /\ MetalInv'
  <2>1. /\ calls[c].at \in {"pick", "spawn"} /\ Return(c, "failed")
        /\ UNCHANGED <<jobs, workers>>
    BY <1>6, MetalCalls DEF Metal!StartFails, Metal!At
  <2>2. calls[c] # Unused
    BY <2>1, MetalAt DEF StartSteps
  <2> QED BY <1>4, <2>1, <2>2, MetalIdle DEF ReportStatus
<1>7. ASSUME Metal!TakeJob(c) PROVE CallInv' /\ MetalInv'
  <2>1. /\ calls[c].at = "take" /\ r \in DOMAIN jobs
        /\ calls' = [calls EXCEPT ![c].at = "kill"]
        /\ UNCHANGED <<up, begun, ended, workers>>
        /\ DOMAIN jobs' = DOMAIN jobs \ {r}
    BY <1>0, <1>7 DEF Metal!TakeJob, Metal!Goto, Metal!At, Metal!Rental,
       Metal!Drop, Metal!Restrict
  <2>2. /\ CallInv' /\ NoRestart /\ calls'[c].at = "kill"
        /\ calls'[c].rental = r
        /\ \A d \in Calls \ {c} : calls'[d] = calls[d]
    BY <1>0, <2>1, Going DEF StartSteps, StopSteps, PortValues
  <2>3. IsAt(c, "kill", r)'
    BY <2>2 DEF IsAt, Unused
  <2>4. ASSUME NEW d \in Calls, NEW x, NEW step \in {"insert", "kill"},
               IsAt(d, step, x)
        PROVE  IsAt(d, step, x)'
    BY <2>1, <2>2, <2>4 DEF IsAt
  <2>5. ASSUME NEW d \in Calls, NEW x \in RentalIds, IsAt(d, "kill", x)'
        PROVE  x \in begun' /\ x \notin DOMAIN jobs' /\ ~Starting(x)'
    <3>1. CASE d = c
      BY <2>1, <2>2, <2>5, <3>1 DEF IsAt, MetalInv, NoRestart
    <3>2. CASE d # c
      <4>1. IsAt(d, "kill", x)
        BY <2>2, <2>5, <3>2 DEF IsAt
      <4> QED BY <2>1, <2>2, <4>1 DEF MetalInv, NoRestart
    <3> QED BY <3>1, <3>2
  <2>6. \A x \in DOMAIN jobs' : x \in begun' /\ ~Starting(x)' /\ x \notin ended'
    BY <2>1, <2>2 DEF MetalInv, NoRestart
  <2>7. \A x \in DOMAIN workers' :
            \/ x \in DOMAIN jobs'
            \/ \E d \in Calls : IsAt(d, "insert", x)' \/ IsAt(d, "kill", x)'
    BY <2>1, <2>3, <2>4 DEF MetalInv
  <2> QED BY <2>2, <2>5, <2>6, <2>7 DEF MetalInv
<1>8. ASSUME Metal!NoJob(c) PROVE CallInv' /\ MetalInv'
  <2>1. /\ calls[c].at = "take" /\ Return(c, "stopped")
        /\ r \notin DOMAIN jobs
        /\ UNCHANGED <<jobs, workers>>
    BY <1>0, <1>8, MetalCalls DEF Metal!NoJob, Metal!At, Metal!Rental
  <2>2. calls[c] # Unused
    BY <2>1, MetalAt DEF StopSteps
  <2> QED BY <1>4, <2>1, <2>2, MetalIdle DEF ReportStatus
<1>9. ASSUME Metal!KillWorker(c) PROVE CallInv' /\ MetalInv'
  <2>1. /\ calls[c].at = "kill" /\ Return(c, "stopped")
        /\ UNCHANGED jobs
        /\ DOMAIN workers' = DOMAIN workers \ {r}
    BY <1>0, <1>9, MetalCalls DEF Metal!KillWorker, Metal!At, Metal!Rental,
       Metal!Drop, Metal!Restrict
  <2>2. calls[c] # Unused /\ r \in RentalIds
    BY <1>0, <2>1, MetalAt DEF StopSteps
  <2>3. /\ calls'[c].at = "done"
        /\ \A d \in Calls \ {c} : calls'[d] = calls[d]
        /\ CallInv' /\ NoRestart /\ begun' = begun
        /\ \A x \in ended' \ ended : x = r
    BY <1>4, <2>1, <2>2 DEF ReportStatus
  <2>4. r \notin DOMAIN jobs
    BY <1>0, <2>1, <2>2 DEF MetalInv, IsAt
  <2>5. ASSUME NEW d \in Calls, NEW x, IsAt(d, "kill", x)'
        PROVE  IsAt(d, "kill", x)
    BY <2>3, <2>5 DEF IsAt
  <2>6. \A d \in Calls, x \in RentalIds : IsAt(d, "kill", x)' =>
            x \in begun' /\ x \notin DOMAIN jobs' /\ ~Starting(x)'
    BY <2>1, <2>3, <2>5 DEF MetalInv, NoRestart
  <2>7. \A x \in DOMAIN jobs' : x \in begun' /\ ~Starting(x)' /\ x \notin ended'
    BY <2>1, <2>3, <2>4 DEF MetalInv, NoRestart
  <2>8. \A x \in DOMAIN workers' :
            \/ x \in DOMAIN jobs'
            \/ \E d \in Calls : IsAt(d, "insert", x)' \/ IsAt(d, "kill", x)'
    BY <1>0, <2>1, <2>3 DEF MetalInv, IsAt
  <2> QED BY <2>3, <2>6, <2>7, <2>8 DEF MetalInv
<1>10. ASSUME Metal!ReportSent(c), UNCHANGED <<jobs, workers>>
       PROVE  CallInv' /\ MetalInv'
  <2>1. ReportSent(c)
    BY <1>10, MetalCalls
  <2>2. /\ calls[c].at = "done" /\ calls'[c] = Unused
        /\ \A d \in Calls \ {c} : calls'[d] = calls[d]
        /\ UNCHANGED <<begun, ended>>
        /\ \E d \in Calls : calls' = [calls EXCEPT ![d] = Unused]
    BY <2>1 DEF ReportSent, At, CallInv
  <2>3. CallInv' /\ NoRestart
    BY <2>2, EndingKeeps
  <2>4. calls'[c].at \notin {"insert", "kill"}
    BY <2>2 DEF Unused
  <2> QED BY <1>10, <2>2, <2>3, <2>4, MetalIdle
<1> QED
  BY <1>1, <1>2, <1>3, <1>5, <1>6, <1>7, <1>8, <1>9, <1>10
  DEF Metal!MetalStep

-----------------------------------------------------------------------------

HostInv ==
    /\ CallInv
    /\ \/ /\ platform = "docker" /\ Gone
          /\ DOMAIN jobs = {} /\ DOMAIN workers = {}
       \/ /\ platform = "metal" /\ MetalInv
          /\ DOMAIN containers = {}

(* The workers end with the agent.                                         *)
NoOrphans == "metal" \notin ExitsOn \/ ~ChildrenSurvive

(* Nothing has been started or stopped at first.                           *)
LEMMA HostInitOK == HostInit => HostInv
<1> SUFFICES ASSUME HostInit PROVE HostInv
  OBVIOUS
<1>1. /\ calls = [c \in Calls |-> Unused] /\ begun = {} /\ ended = {}
      /\ DOMAIN jobs = {} /\ DOMAIN workers = {}
      /\ platform \in {"docker", "metal"}
      /\ platform = "metal" => DOMAIN containers = {}
  BY PlatformAssumption DEF HostInit, CallInit, Docker!DockerInit,
     Docker!CallInit, Metal!MetalInit, Metal!CallInit, Docker!Unused,
     Metal!Unused, Unused
<1>2. CallInv
  BY <1>1 DEF CallInv, CallRow
<1>3. Gone /\ MetalInv
  BY <1>1 DEF Gone, MetalInv, IsAt, Unused
<1> QED BY <1>1, <1>2, <1>3 DEF HostInv

(* Nothing happens to the calls, or they all end with the process.         *)
LEMMA CallsEnd ==
    ASSUME CallInv, UNCHANGED <<begun, ended>>,
           calls' = calls \/ calls' = [c \in Calls |-> Unused]
    PROVE  CallInv' /\ NoRestart
<1>1. CASE calls' = calls
  <2>1. \A r : Starting(r)' <=> Starting(r)
    BY <1>1 DEF Starting, Pending
  <2> QED BY <1>1, <2>1 DEF CallInv, NoRestart
<1>2. CASE calls' = [c \in Calls |-> Unused]
  BY <1>2, EndingKeeps
<1> QED BY <1>1, <1>2

(* Containers that exit and agents that end keep it on Docker, ...         *)
LEMMA DockerNextKeeps ==
    ASSUME HostInv, platform = "docker", platform' = platform, DockerNext
    PROVE  HostInv'
<1>1. CallInv /\ Gone /\ DOMAIN jobs' = {} /\ DOMAIN workers' = {}
  BY DEF HostInv, DockerNext
<1>2. CASE \E c \in Calls : Docker!DockerStep(c)
  BY <1>1, <1>2, DockerStepKeeps DEF HostInv
<1>3. ASSUME NEW r \in RentalIds, Docker!ContainerExits(r) PROVE HostInv'
  <2>1. /\ UNCHANGED <<calls, begun, ended>>
        /\ DOMAIN containers' = DOMAIN containers
    BY <1>3 DEF Docker!ContainerExits, Docker!callVars, Docker!Stopped
  <2>2. CallInv' /\ Gone'
    BY <1>1, <2>1, CallsEnd DEF Gone
  <2> QED BY <1>1, <2>2 DEF HostInv
<1>4. CASE Exit /\ UNCHANGED containers
  <2>1. CallInv' /\ Gone'
    BY <1>1, <1>4, CallsEnd DEF Exit, Gone
  <2> QED BY <1>1, <2>1 DEF HostInv
<1> QED BY <1>2, <1>3, <1>4 DEF DockerNext

(* ... workers that die and agents that end with them on Metal, ...        *)
LEMMA MetalNextKeeps ==
    ASSUME NoOrphans, HostInv, platform = "metal", platform' = platform,
           MetalNext
    PROVE  HostInv'
<1>1. CallInv /\ MetalInv /\ DOMAIN containers' = {}
  BY DEF HostInv, MetalNext
<1>2. CASE \E c \in Calls : Metal!MetalStep(c)
  BY <1>1, <1>2, MetalStepKeeps DEF HostInv
<1>3. ASSUME UNCHANGED <<calls, begun, ended, jobs>>,
             DOMAIN workers' \subseteq DOMAIN workers
      PROVE  HostInv'
  <2>1. CallInv'
    BY <1>1, <1>3, CallsEnd
  <2>2. /\ \A c, r, step : IsAt(c, step, r)' <=> IsAt(c, step, r)
        /\ \A r : Starting(r)' <=> Starting(r)
    BY <1>3 DEF IsAt, Starting, Pending
  <2>3. MetalInv'
    BY <1>1, <1>3, <2>2 DEF MetalInv
  <2> QED BY <1>1, <2>1, <2>3 DEF HostInv
<1>4. ASSUME NEW r \in RentalIds, Metal!BindPort(r) \/ Metal!WorkerDies(r)
      PROVE  HostInv'
  BY <1>3, <1>4 DEF Metal!BindPort, Metal!WorkerDies, Metal!callVars,
     Metal!Drop, Metal!Restrict
<1>5. CASE "metal" \in ExitsOn /\ Metal!MetalExit
  <2>1. /\ calls' = [c \in Calls |-> Unused] /\ UNCHANGED <<begun, ended>>
        /\ DOMAIN jobs' = {} /\ DOMAIN workers' = {}
    BY <1>5 DEF NoOrphans, Metal!MetalExit, Metal!Exit, Metal!Unused, Unused
  <2>2. CallInv'
    BY <1>1, <2>1, CallsEnd
  <2>3. MetalInv'
    BY <2>1 DEF MetalInv, IsAt, Unused
  <2> QED BY <1>1, <2>2, <2>3 DEF HostInv
<1> QED BY <1>2, <1>4, <1>5 DEF MetalNext

(* ... and so does every step of the host.                                 *)
LEMMA HostNextKeeps ==
    ASSUME NoOrphans, HostInv, [HostNext]_hostVars
    PROVE  HostInv'
<1>1. ASSUME UNCHANGED <<calls, begun, ended, runtime, platform>>
      PROVE  HostInv'
  <2>1. CallInv'
    BY <1>1, CallsEnd DEF HostInv
  <2>2. /\ \A c, r, step : IsAt(c, step, r)' <=> IsAt(c, step, r)
        /\ \A r : Starting(r)' <=> Starting(r)
    BY <1>1 DEF IsAt, Starting, Pending
  <2>3. (Gone => Gone') /\ (MetalInv => MetalInv')
    BY <1>1, <2>2 DEF Gone, MetalInv, runtime
  <2> QED BY <1>1, <2>1, <2>3 DEF HostInv, runtime
<1>2. CASE Boot
  BY <1>1, <1>2 DEF Boot, Connect, callVars
<1>3. CASE SwapHardware
  BY <1>1, <1>3 DEF SwapHardware, callVars
<1>4. CASE platform = "docker" /\ DockerNext /\ UNCHANGED host
  BY <1>4, DockerNextKeeps DEF host
<1>5. CASE platform = "metal" /\ MetalNext /\ UNCHANGED host
  BY <1>5, MetalNextKeeps DEF host
<1>6. CASE UNCHANGED hostVars
  BY <1>1, <1>6 DEF hostVars, callVars, host
<1> QED BY <1>2, <1>3, <1>4, <1>5, <1>6 DEF HostNext

(* While nothing of a rental is being stopped, an ended one has no worker: *)
(* it would have a job, or a call at `insert` or `kill`.                   *)
LEMMA HostInvStops == HostInv => StoppedStaysStopped
<1> SUFFICES ASSUME HostInv, NEW r \in ended,
                    InProgress(r, "stop_rental") = {}
             PROVE  ~Remains(r)
  BY DEF StoppedStaysStopped
<1>1. CASE platform = "docker"
  BY <1>1 DEF HostInv, Gone, Remains
<1>2. CASE platform = "metal"
  <2>1. r \in RentalIds /\ ~Starting(r) /\ r \notin DOMAIN jobs
    BY <1>2 DEF HostInv, CallInv, MetalInv
  <2>2. ASSUME NEW c \in Calls, IsAt(c, "insert", r) PROVE FALSE
    BY <2>1, <2>2, MetalAt DEF HostInv, IsAt, StartSteps
  <2>3. ASSUME NEW c \in Calls, IsAt(c, "kill", r) PROVE FALSE
    <3>1. c \in InProgress(r, "stop_rental")
      BY <2>3 DEF HostInv, CallInv, IsAt, InProgress, Active, StopSteps
    <3> QED BY <3>1
  <2> QED BY <1>2, <2>1, <2>2, <2>3 DEF HostInv, MetalInv, Remains
<1> QED BY <1>1, <1>2 DEF HostInv

(* runtime.rs:286-295, 503-513: once a rental's start is over and its      *)
(* stops have returned, nothing of it is left on the host, whatever ran,   *)
(* failed or crashed in between, on Docker always, and on Metal if the     *)
(* workers end with the agent.                                             *)
THEOREM StopIsFinal ==
    ASSUME NoOrphans
    PROVE  HostSpec => []StoppedStaysStopped
<1>1. HostInit => HostInv
  BY HostInitOK
<1>2. HostInv /\ [HostNext]_hostVars => HostInv'
  BY HostNextKeeps
<1>3. HostInv => StoppedStaysStopped
  BY HostInvStops
<1> QED BY <1>1, <1>2, <1>3, PTL DEF HostSpec
-----------------------------------------------------------------------------
(* What the steps of both runtimes do to a call and to the workloads.      *)

(* The workloads that the runtime knows: running_rentals.  They are all    *)
(* there are where no worker has lost its agent (KnownIsAll).              *)
Known == IF platform = "docker" THEN Docker!Listed ELSE Metal!RunningJobs

(* The steps at which a call holds the port it has picked.                 *)
Ported == {"clear", "create", "start", "spawn", "insert"}

Working(c) == calls[c] # Unused /\ calls[c].at # "done"

Receives(c) ==
    \E cmd \in {"start_rental", "stop_rental"}, r \in RentalIds,
       step \in {"pull", "pick", "stop", "take"} :
        /\ step \in IF cmd = "start_rental" THEN {"pull", "pick"}
                                            ELSE {"stop", "take"}
        /\ Dispatch(c, cmd, r, step)

Goes(c) ==
    \E step \in StartSteps \cup StopSteps, port \in PortValues :
        /\ calls[c].at \in StartSteps \/ calls[c].at \in StopSteps
        /\ step \in IF calls[c].at \in StartSteps THEN StartSteps
                                                  ELSE StopSteps
        /\ step \in Ported => calls'[c].port \in Ports
        /\ \/ calls' = [calls EXCEPT ![c].at = step]
           \/ calls' = [calls EXCEPT ![c].at = step, ![c].port = port]
        /\ UNCHANGED <<up, begun, ended>>

StartReturns(c) ==
    /\ Working(c) /\ calls[c].cmd = "start_rental"
    /\ \/ /\ Return(c, "running")
          /\ Known' \in {Known, Known \cup {Rental(c)}}
       \/ /\ Return(c, "failed")
          /\ Known' \in {Known \cup {Rental(c)},
                             Known \ {Rental(c)}}

StopReturns(c) ==
    /\ Working(c) /\ calls[c].cmd = "stop_rental"
    /\ \/ /\ Return(c, "stopped")
          /\ Known' = Known \ {Rental(c)}
       \/ /\ Return(c, "failed")
          /\ Known' \in {Known, Known \ {Rental(c)}}

CallAct(c) ==
    \/ Receives(c) /\ Known' = Known
    \/ Goes(c) /\ Known' \in {Known, Known \ {Rental(c)}}
    \/ StartReturns(c)
    \/ StopReturns(c)
    \/ ReportSent(c) /\ Known' = Known

(* A call that holds a port holds one of the range.                        *)
PortInv == \A c \in Calls : calls[c].at \in Ported => calls[c].port \in Ports

(* The calls keep their invariant and their ports through every act.       *)
LEMMA CallActKeeps ==
    ASSUME CallInv, PortInv, NEW c \in Calls, CallAct(c)
    PROVE  /\ CallInv' /\ NoRestart /\ PortInv'
           /\ \A d \in Calls \ {c} : calls'[d] = calls[d]
           /\ ended' \subseteq begun' /\ up' = up
<1>0. calls \in [Calls -> CallRow]
  BY DEF CallInv
<1>1. ASSUME Receives(c)
      PROVE  /\ CallInv' /\ NoRestart /\ PortInv'
             /\ \A d \in Calls \ {c} : calls'[d] = calls[d]
  <2>1. CallInv' /\ NoRestart
    BY <1>1, DispatchKeeps DEF Receives
  <2>2. /\ \A d \in Calls \ {c} : calls'[d] = calls[d]
        /\ calls'[c].at \notin Ported
    BY <1>0, <1>1 DEF Receives, Dispatch, Ported
  <2> QED BY <2>1, <2>2 DEF PortInv
<1>2. ASSUME Goes(c)
      PROVE  /\ CallInv' /\ NoRestart /\ PortInv'
             /\ \A d \in Calls \ {c} : calls'[d] = calls[d]
  <2>1. CallInv' /\ NoRestart /\ \A d \in Calls \ {c} : calls'[d] = calls[d]
    BY <1>2, Going DEF Goes
  <2>2. calls'[c].at \in Ported => calls'[c].port \in Ports
    BY <1>2, Going DEF Goes
  <2> QED BY <2>1, <2>2 DEF PortInv
<1>3. ASSUME Working(c), NEW outcome \in ReportStatus, Return(c, outcome)
      PROVE  /\ CallInv' /\ NoRestart /\ PortInv'
             /\ \A d \in Calls \ {c} : calls'[d] = calls[d]
  <2>1. CallInv' /\ NoRestart
    BY <1>3, ReturnKeeps DEF Working
  <2>2. /\ \A d \in Calls \ {c} : calls'[d] = calls[d]
        /\ calls'[c].at = "done"
    BY <1>0, <1>3 DEF Return, CallRow, Working
  <2>3. calls'[c].at \notin Ported
    BY <2>2 DEF Ported
  <2> QED BY <2>1, <2>2, <2>3 DEF PortInv
<1>4. ASSUME ReportSent(c)
      PROVE  /\ CallInv' /\ NoRestart /\ PortInv'
             /\ \A d \in Calls \ {c} : calls'[d] = calls[d]
  <2>1. CallInv' /\ NoRestart
    BY <1>4, EndingKeeps DEF ReportSent
  <2>2. /\ \A d \in Calls \ {c} : calls'[d] = calls[d]
        /\ calls'[c].at \notin Ported
    BY <1>0, <1>4 DEF ReportSent, Unused, Ported
  <2> QED BY <2>1, <2>2 DEF PortInv
<1>5. StartReturns(c) \/ StopReturns(c) =>
         Working(c) /\ \E outcome \in ReportStatus : Return(c, outcome)
  BY DEF StartReturns, StopReturns, ReportStatus
<1>6. CallInv' => ended' \subseteq begun'
  BY DEF CallInv
<1>7. up' = up
  BY DEF CallAct, Receives, Dispatch, Goes, StartReturns, StopReturns, Return,
     ReportSent
<1> QED BY <1>1, <1>2, <1>3, <1>4, <1>5, <1>6, <1>7 DEF CallAct

-----------------------------------------------------------------------------
(* The steps of DockerRuntime are such acts.                               *)

DockerTyped ==
    /\ DOMAIN containers \subseteq RentalIds
    /\ \A r \in DOMAIN containers :
          /\ containers[r].port \in Ports
          /\ containers[r] = [state |-> containers[r].state,
                              port |-> containers[r].port]
          /\ containers[r].state \in {"created", "running", "exited"}

(* The types of the containers, without the instance's names.              *)
LEMMA DockerTypedIs == DockerTyped <=> Docker!DockerTypeOK
BY DEF DockerTyped, Docker!DockerTypeOK, Docker!Container, Docker!Ports, Ports

Alive == {r \in DOMAIN containers : containers[r].state = "running"}

(* What an API call does, whether or not its answer arrives.               *)
LEMMA DockerEffects ==
    ASSUME CallInv, PortInv, DockerTyped, NEW c \in Calls, Working(c),
           containers' \in Docker!Effects(c)
    PROVE  /\ DockerTyped'
           /\ \A x \in DOMAIN containers' :
                 \/ x \in DOMAIN containers
                       /\ containers'[x].port = containers[x].port
                 \/ /\ calls[c].at = "create" /\ x = calls[c].rental
                    /\ containers'[x].port = calls[c].port
           /\ calls[c].at \in {"clear", "remove", "stop"} =>
                 Alive' = Alive \ {calls[c].rental}
           /\ calls[c].at = "create" => Alive' = Alive
           /\ calls[c].at = "start" =>
                 Alive' = Alive \cup {calls[c].rental}
           /\ calls[c].at \in {"clear", "remove", "stop", "create", "start"}
<1>0. PICK r : r = calls[c].rental /\ r \in RentalIds
  BY DEF CallInv, CallRow, Working
<1>1. CASE containers' = Docker!Without(r) /\ calls[c].at \in {"clear", "remove"}
  <2>1. containers' = [x \in DOMAIN containers \ {r} |-> containers[x]]
    BY <1>1 DEF Docker!Without, Docker!Restrict
  <2> QED BY <1>0, <1>1, <2>1 DEF DockerTyped, Alive
<1>2. CASE /\ calls[c].at = "create" /\ r \notin DOMAIN containers
           /\ containers' = Docker!Created(c)
  <2>1. PICK port \in Ports : port = calls[c].port
    BY <1>2 DEF PortInv, Ported
  <2>2. containers' = [x \in DOMAIN containers \cup {r} |->
                          IF x = r THEN [state |-> "created", port |-> port]
                                   ELSE containers[x]]
    BY <1>0, <1>2, <2>1 DEF Docker!Created, Docker!Rental
  <2>3. containers'[r] = [state |-> "created", port |-> port]
    BY <2>2
  <2>4. \A x \in DOMAIN containers : containers'[x] = containers[x]
    BY <1>2, <2>2
  <2>5. DOMAIN containers' = DOMAIN containers \cup {r}
    BY <2>2
  <2> QED BY <1>0, <1>2, <2>1, <2>3, <2>4, <2>5 DEF DockerTyped, Alive
<1>3. CASE /\ calls[c].at = "start" /\ r \in DOMAIN containers
           /\ containers' = [containers EXCEPT ![r].state = "running"]
  <2>1. /\ DOMAIN containers' = DOMAIN containers
        /\ \A x \in DOMAIN containers \ {r} : containers'[x] = containers[x]
        /\ containers'[r] = [state |-> "running", port |-> containers[r].port]
    BY <1>3 DEF DockerTyped
  <2> QED BY <1>0, <1>3, <2>1 DEF DockerTyped, Alive
<1>4. CASE calls[c].at = "stop" /\ containers' = Docker!Stopped(r)
  <2>1. CASE containers' = containers /\ r \notin Alive
    BY <1>0, <1>4, <2>1 DEF DockerTyped, Alive
  <2>2. CASE /\ r \in Alive
             /\ containers' = [containers EXCEPT ![r].state = "exited"]
    <3>1. /\ DOMAIN containers' = DOMAIN containers
          /\ \A x \in DOMAIN containers \ {r} : containers'[x] = containers[x]
          /\ containers'[r] = [state |-> "exited", port |-> containers[r].port]
      BY <2>2 DEF DockerTyped, Alive
    <3> QED BY <1>0, <1>4, <2>2, <3>1 DEF DockerTyped, Alive
  <2> QED BY <1>4, <2>1, <2>2 DEF Docker!Stopped, Docker!Listed, Alive
<1> QED
  BY <1>0, <1>1, <1>2, <1>3, <1>4
  DEF Docker!Effects, Docker!At, Docker!Rental, Docker!Startable

(* What a step of DockerRuntime leaves of the containers.                  *)
DockerAct(c) ==
    /\ CallAct(c)
    /\ DockerTyped'
    /\ \A x \in DOMAIN containers' :
          \/ x \in DOMAIN containers /\ containers'[x].port = containers[x].port
          \/ /\ calls[c].at = "create" /\ x = calls[c].rental
             /\ containers'[x].port = calls[c].port
    /\ calls'[c].at = "start" =>
          /\ calls'[c].rental = calls[c].rental
          /\ calls'[c].port = calls[c].port
          /\ calls[c].rental \notin DOMAIN containers
    /\ calls'[c].at = "done" /\ calls[c].at # "done"
          /\ calls'[c].outcome = "running" => Docker!StartContainer(c)

(* Each API call of DockerRuntime, answered or not, is such an act.        *)
LEMMA DockerActs ==
    ASSUME CallInv, PortInv, DockerTyped, NEW c \in Calls,
           Docker!DockerStep(c), platform = "docker", platform' = platform
    PROVE  DockerAct(c)
<1>0. /\ calls \in [Calls -> CallRow] /\ calls[c] \in CallRow
      /\ NoPort \in PortValues
      /\ Known = Alive /\ Known' = Alive'
  BY DEF CallInv, PortValues, Known, Docker!Listed, Alive
<1>1. calls[c].at \in StartSteps \cup StopSteps => Working(c)
  BY DEF Working, Unused, StartSteps, StopSteps
<1>2. ASSUME UNCHANGED containers
      PROVE  /\ DockerTyped' /\ Alive' = Alive
             /\ \A x \in DOMAIN containers' :
                   x \in DOMAIN containers
                       /\ containers'[x].port = containers[x].port
  BY <1>2 DEF DockerTyped, Alive
<1>3. ASSUME NEW step, calls[c].at # step,
             \/ calls[c].at \in StartSteps /\ step \in StartSteps
             \/ calls[c].at \in StopSteps /\ step \in StopSteps,
             step \in Ported => calls[c].at \in Ported,
             calls' = [calls EXCEPT ![c].at = step],
             UNCHANGED <<up, begun, ended>>
      PROVE  /\ Goes(c)
             /\ calls'[c].at = step /\ calls'[c].port = calls[c].port
             /\ calls'[c].rental = calls[c].rental
             /\ calls'[c].at # "done"
  <2>1. calls[c] # Unused
    BY <1>1, <1>3 DEF Working
  <2>2. /\ calls'[c].at = step /\ calls'[c].port = calls[c].port
        /\ calls'[c].rental = calls[c].rental
    BY <1>0, <1>3, <2>1 DEF CallRow
  <2>3. step \in Ported => calls'[c].port \in Ports
    BY <1>3, <2>2 DEF PortInv
  <2>4. step \in StartSteps \cup StopSteps /\ step # "done"
    BY <1>3 DEF StartSteps, StopSteps
  <2>5. step \in IF calls[c].at \in StartSteps THEN StartSteps ELSE StopSteps
    BY <1>3 DEF StartSteps, StopSteps
  <2> QED BY <1>0, <1>3, <2>2, <2>3, <2>4, <2>5 DEF Goes
<1>4. ASSUME NEW cmd \in {"start_rental", "stop_rental"}, NEW r \in RentalIds,
             Docker!DockerReceive(c, cmd, r)
      PROVE  DockerAct(c)
  <2>1. Dispatch(c, cmd, r, IF cmd = "start_rental" THEN "pull" ELSE "stop")
    BY <1>4, DockerCalls DEF Docker!DockerReceive
  <2>2. Receives(c)
    BY <2>1 DEF Receives
  <2>3. calls'[c].at \in {"pull", "stop"}
    BY <1>0, <2>1 DEF Dispatch
  <2>4. UNCHANGED containers
    BY <1>4 DEF Docker!DockerReceive
  <2> QED BY <1>0, <1>2, <2>2, <2>3, <2>4 DEF DockerAct, CallAct
<1>5. ASSUME Docker!PullImage(c) PROVE DockerAct(c)
  <2>1. /\ calls[c].at = "pull" /\ UNCHANGED containers
        /\ calls' = [calls EXCEPT ![c].at = "list"]
        /\ UNCHANGED <<up, begun, ended>>
    BY <1>5 DEF Docker!PullImage, Docker!At, Docker!Goto
  <2>2. Goes(c) /\ calls'[c].at = "list"
    BY <1>3, <2>1 DEF StartSteps, Ported
  <2> QED BY <1>0, <1>2, <2>1, <2>2 DEF DockerAct, CallAct
<1>6. ASSUME Docker!PickPort(c) PROVE DockerAct(c)
  <2>1. PICK port : /\ Free(Docker!UsedPorts) # {}
                    /\ port = PickFreePort(Docker!UsedPorts)
                    /\ calls' = [calls EXCEPT ![c].at = "clear",
                                              ![c].port = port]
    BY <1>6 DEF Docker!PickPort, Docker!Available, Docker!PickFreePort,
       PickFreePort, Docker!Free, Free, Docker!Ports, Ports,
       Docker!GotoWithPort
  <2>2. port \in Ports
    BY <2>1, PickedPort
  <2>3. calls[c].at = "list" /\ UNCHANGED <<containers, up, begun, ended>>
    BY <1>6 DEF Docker!PickPort, Docker!At, Docker!GotoWithPort
  <2>4. calls[c] # Unused
    BY <1>1, <2>3 DEF Working, StartSteps
  <2>5. calls'[c].at = "clear" /\ calls'[c].port = port
    BY <1>0, <2>1, <2>4 DEF CallRow
  <2>6. Goes(c)
    BY <2>1, <2>2, <2>3, <2>5 DEF Goes, StartSteps, PortValues
  <2> QED BY <1>0, <1>2, <2>3, <2>5, <2>6 DEF DockerAct, CallAct
<1>7. ASSUME Docker!ClearStale(c) PROVE DockerAct(c)
  <2>1. /\ calls[c].at = "clear"
        /\ containers' \in Docker!Effects(c)
        /\ calls' = [calls EXCEPT ![c].at = "create"]
        /\ UNCHANGED <<up, begun, ended>>
    BY <1>7 DEF Docker!ClearStale, Docker!Effects, Docker!At, Docker!Goto
  <2>2. Goes(c) /\ calls'[c].at = "create"
    BY <1>3, <2>1 DEF StartSteps, Ported
  <2>3. Working(c)
    BY <1>1, <2>1 DEF StartSteps
  <2> QED BY <1>0, <2>1, <2>2, <2>3, DockerEffects
          DEF DockerAct, CallAct, Rental
<1>8. ASSUME Docker!CreateContainer(c) PROVE DockerAct(c)
  <2>1. /\ calls[c].at = "create"
        /\ calls[c].rental \notin DOMAIN containers
        /\ containers' \in Docker!Effects(c)
        /\ calls' = [calls EXCEPT ![c].at = "start"]
        /\ UNCHANGED <<up, begun, ended>>
    BY <1>8 DEF Docker!CreateContainer, Docker!Effects, Docker!At, Docker!Goto,
       Docker!Rental
  <2>2. /\ Goes(c) /\ calls'[c].at = "start"
        /\ calls'[c].port = calls[c].port
        /\ calls'[c].rental = calls[c].rental
    BY <1>3, <2>1 DEF StartSteps, Ported
  <2>3. Working(c)
    BY <1>1, <2>1 DEF StartSteps
  <2> QED BY <1>0, <2>1, <2>2, <2>3, DockerEffects DEF DockerAct, CallAct
<1>9. ASSUME Working(c), NEW outcome \in ReportStatus, Return(c, outcome)
      PROVE  calls'[c].at = "done" /\ calls'[c].outcome = outcome
  BY <1>0, <1>9 DEF Return, Working, CallRow
<1>10. ASSUME Docker!StartContainer(c) PROVE DockerAct(c)
  <2>1. /\ calls[c].at = "start"
        /\ containers' \in Docker!Effects(c)
        /\ Return(c, "running")
    BY <1>10, DockerCalls DEF Docker!StartContainer, Docker!Effects, Docker!At,
       Docker!Return
  <2>2. Working(c) /\ calls[c].cmd = "start_rental"
    BY <1>1, <2>1 DEF StartSteps, CallInv, Working
  <2>3. calls'[c].at = "done"
    BY <1>9, <2>1, <2>2 DEF ReportStatus
  <2>4. StartReturns(c)
    BY <1>0, <2>1, <2>2, DockerEffects DEF StartReturns, Rental
  <2> QED BY <1>10, <2>1, <2>2, <2>3, <2>4, DockerEffects
          DEF DockerAct, CallAct
<1>11. ASSUME Docker!StopContainer(c) PROVE DockerAct(c)
  <2>1. /\ calls[c].at = "stop"
        /\ containers' \in Docker!Effects(c)
        /\ calls' = [calls EXCEPT ![c].at = "remove"]
        /\ UNCHANGED <<up, begun, ended>>
    BY <1>11 DEF Docker!StopContainer, Docker!Effects, Docker!At, Docker!Goto
  <2>2. Goes(c) /\ calls'[c].at = "remove"
    BY <1>3, <2>1 DEF StopSteps, Ported
  <2>3. Working(c)
    BY <1>1, <2>1 DEF StopSteps
  <2> QED BY <1>0, <2>1, <2>2, <2>3, DockerEffects
          DEF DockerAct, CallAct, Rental
<1>12. ASSUME Docker!RemoveContainer(c) PROVE DockerAct(c)
  <2>1. /\ calls[c].at = "remove"
        /\ containers' \in Docker!Effects(c)
        /\ Return(c, "stopped")
    BY <1>12, DockerCalls DEF Docker!RemoveContainer, Docker!Effects, Docker!At
  <2>2. Working(c) /\ calls[c].cmd = "stop_rental"
    BY <1>1, <2>1 DEF StopSteps, CallInv, Working
  <2>3. calls'[c].at = "done" /\ calls'[c].outcome = "stopped"
    BY <1>9, <2>1, <2>2 DEF ReportStatus
  <2>4. StopReturns(c)
    BY <1>0, <2>1, <2>2, DockerEffects DEF StopReturns, Rental
  <2> QED BY <2>1, <2>2, <2>3, <2>4, DockerEffects DEF DockerAct, CallAct
<1>13. ASSUME Docker!DockerFails(c) PROVE DockerAct(c)
  <2>1. /\ Working(c)
        /\ containers' = containers \/ containers' \in Docker!Effects(c)
        /\ Return(c, "failed")
    BY <1>13, DockerCalls DEF Docker!DockerFails, Docker!Active, Docker!At,
       Working
  <2>2. calls'[c].at = "done" /\ calls'[c].outcome = "failed"
    BY <1>9, <2>1 DEF ReportStatus
  <2>3. StartReturns(c) \/ StopReturns(c)
    <3>1. CASE containers' = containers
      <4>1. calls[c].cmd \in {"start_rental", "stop_rental"}
        BY <1>0, <2>1 DEF CallRow, Working
      <4> QED BY <1>0, <1>2, <2>1, <3>1, <4>1
              DEF StartReturns, StopReturns, Rental
    <3>2. CASE containers' \in Docker!Effects(c)
      <4>1. /\ calls[c].at \in {"clear", "create", "start"} =>
                  calls[c].cmd = "start_rental"
            /\ calls[c].at \in {"stop", "remove"} =>
                  calls[c].cmd = "stop_rental"
        BY <2>1 DEF CallInv, StartSteps, StopSteps, Working
      <4> QED BY <1>0, <2>1, <3>2, <4>1, DockerEffects
              DEF StartReturns, StopReturns, Rental
    <3> QED BY <2>1, <3>1, <3>2
  <2> QED BY <1>2, <2>1, <2>2, <2>3, DockerEffects DEF DockerAct, CallAct
<1>14. ASSUME Docker!ReportSent(c), UNCHANGED containers PROVE DockerAct(c)
  <2>1. ReportSent(c)
    BY <1>14, DockerCalls
  <2>2. calls'[c].at = "unused"
    BY <1>0, <2>1 DEF ReportSent, Unused
  <2> QED BY <1>0, <1>2, <1>14, <2>1, <2>2 DEF DockerAct, CallAct
<1> QED
  BY <1>4, <1>5, <1>6, <1>7, <1>8, <1>10, <1>11, <1>12, <1>13, <1>14
  DEF Docker!DockerStep
-----------------------------------------------------------------------------
(* The steps of MetalRuntime are such acts too.                            *)

MetalTyped ==
    /\ DOMAIN jobs \subseteq RentalIds
    /\ \A r \in DOMAIN jobs : jobs[r] \in Ports
    /\ DOMAIN workers \subseteq RentalIds
    /\ \A r \in DOMAIN workers :
          workers[r] \in [port : Ports, serving : BOOLEAN]

(* A job is entered when its start is over: the part of MetalInv that      *)
(* orphaned workers do not disturb.                                        *)
JobsInv == \A r \in DOMAIN jobs : r \in begun /\ ~Starting(r)

(* Each step of MetalRuntime is such an act, and keeps its tables.         *)
LEMMA MetalActs ==
    ASSUME CallInv, PortInv, MetalTyped, JobsInv, NEW c \in Calls,
           Metal!MetalStep(c), platform = "metal", platform' = platform
    PROVE  CallAct(c) /\ MetalTyped' /\ JobsInv'
<1>0. /\ calls \in [Calls -> CallRow] /\ calls[c] \in CallRow
      /\ NoPort \in PortValues
      /\ Known = DOMAIN jobs \cap DOMAIN workers
      /\ Known' = DOMAIN jobs' \cap DOMAIN workers'
  BY DEF CallInv, PortValues, Known, Metal!RunningJobs
<1>1. calls[c].at \in StartSteps \cup StopSteps =>
          Working(c) /\ calls[c].rental \in RentalIds
  BY <1>0 DEF Working, CallRow, Unused, StartSteps, StopSteps
<1>2. ASSUME CallAct(c), DOMAIN jobs' \subseteq DOMAIN jobs
      PROVE  JobsInv'
  BY <1>2, CallActKeeps DEF JobsInv, NoRestart
<1>3. ASSUME NEW step, calls[c].at # step,
             \/ calls[c].at \in StartSteps /\ step \in StartSteps
             \/ calls[c].at \in StopSteps /\ step \in StopSteps,
             step \in Ported => calls[c].at \in Ported,
             calls' = [calls EXCEPT ![c].at = step],
             UNCHANGED <<up, begun, ended>>
      PROVE  Goes(c)
  <2>1. calls[c] # Unused
    BY <1>1, <1>3 DEF Working
  <2>2. calls'[c].at = step /\ calls'[c].port = calls[c].port
    BY <1>0, <1>3, <2>1 DEF CallRow
  <2>3. step \in Ported => calls'[c].port \in Ports
    BY <1>3, <2>2 DEF PortInv
  <2>4. step \in StartSteps \cup StopSteps
    BY <1>3
  <2>5. step \in IF calls[c].at \in StartSteps THEN StartSteps ELSE StopSteps
    BY <1>3 DEF StartSteps, StopSteps
  <2> QED BY <1>0, <1>3, <2>3, <2>4, <2>5 DEF Goes
<1>4. ASSUME NEW cmd \in {"start_rental", "stop_rental"}, NEW r \in RentalIds,
             Metal!MetalReceive(c, cmd, r)
      PROVE  CallAct(c) /\ MetalTyped' /\ JobsInv'
  <2>1. Dispatch(c, cmd, r, IF cmd = "start_rental" THEN "pick" ELSE "take")
    BY <1>4, MetalCalls DEF Metal!MetalReceive
  <2>2. Receives(c)
    BY <2>1 DEF Receives
  <2>3. UNCHANGED <<jobs, workers>>
    BY <1>4 DEF Metal!MetalReceive
  <2>4. CallAct(c)
    BY <1>0, <2>2, <2>3 DEF CallAct
  <2> QED BY <1>2, <2>3, <2>4 DEF MetalTyped
<1>5. ASSUME Metal!PickJobPort(c)
      PROVE  CallAct(c) /\ MetalTyped' /\ JobsInv'
  <2>1. PICK port : /\ Free(Metal!JobPorts) # {}
                    /\ port = PickFreePort(Metal!JobPorts)
                    /\ calls' = [calls EXCEPT ![c].at = "spawn",
                                              ![c].port = port]
    BY <1>5 DEF Metal!PickJobPort, Metal!GotoWithPort, Metal!PickFreePort,
       PickFreePort, Metal!Free, Free, Metal!Ports, Ports
  <2>2. port \in Ports
    BY <2>1, PickedPort
  <2>3. calls[c].at = "pick" /\ UNCHANGED <<jobs, workers, up, begun, ended>>
    BY <1>5 DEF Metal!PickJobPort, Metal!At, Metal!GotoWithPort
  <2>4. calls[c] # Unused
    BY <1>1, <2>3 DEF Working, StartSteps
  <2>5. calls'[c].port = port
    BY <1>0, <2>1, <2>4 DEF CallRow
  <2>6. Goes(c)
    BY <2>1, <2>2, <2>3, <2>5 DEF Goes, StartSteps, PortValues
  <2>7. CallAct(c)
    BY <1>0, <2>3, <2>6 DEF CallAct
  <2> QED BY <1>2, <2>3, <2>7 DEF MetalTyped
<1>6. ASSUME Metal!SpawnWorker(c)
      PROVE  CallAct(c) /\ MetalTyped' /\ JobsInv'
  <2>1. /\ calls[c].at = "spawn"
        /\ calls' = [calls EXCEPT ![c].at = "insert"]
        /\ UNCHANGED <<up, begun, ended, jobs>>
        /\ workers' = [r \in DOMAIN workers \cup {calls[c].rental} |->
                          IF r = calls[c].rental
                          THEN [port |-> calls[c].port, serving |-> FALSE]
                          ELSE workers[r]]
    BY <1>6 DEF Metal!SpawnWorker, Metal!Goto, Metal!At, Metal!Rental
  <2>2. Goes(c)
    BY <1>3, <2>1 DEF StartSteps, Ported
  <2>3. calls[c].rental \notin DOMAIN jobs /\ calls[c].rental \in RentalIds
    BY <1>1, <2>1, MetalAt DEF JobsInv, StartSteps
  <2>4. calls[c].port \in Ports
    BY <2>1 DEF PortInv, Ported
  <2>5. DOMAIN workers' = DOMAIN workers \cup {calls[c].rental}
    BY <2>1
  <2>6. Known' = Known
    BY <1>0, <2>1, <2>3, <2>5
  <2>7. CallAct(c)
    BY <2>2, <2>6 DEF CallAct
  <2>8. \A r \in DOMAIN workers' :
           workers'[r] \in [port : Ports, serving : BOOLEAN]
    BY <2>1, <2>4 DEF MetalTyped
  <2>9. MetalTyped'
    BY <2>1, <2>3, <2>5, <2>8 DEF MetalTyped
  <2> QED BY <1>2, <2>1, <2>7, <2>9
<1>7. ASSUME Metal!InsertJob(c)
      PROVE  CallAct(c) /\ MetalTyped' /\ JobsInv'
  <2>1. /\ calls[c].at = "insert" /\ Return(c, "running")
        /\ UNCHANGED workers
        /\ jobs' = [r \in DOMAIN jobs \cup {calls[c].rental} |->
                       IF r = calls[c].rental THEN calls[c].port ELSE jobs[r]]
    BY <1>7, MetalCalls DEF Metal!InsertJob, Metal!At, Metal!Rental
  <2>2. /\ Working(c) /\ calls[c].cmd = "start_rental"
        /\ calls[c].rental \in RentalIds
        /\ calls[c].rental \in begun
    BY <1>1, <2>1, MetalAt DEF StartSteps, CallInv, Working
  <2>3. calls[c].port \in Ports
    BY <2>1 DEF PortInv, Ported
  <2>4. DOMAIN jobs' = DOMAIN jobs \cup {calls[c].rental}
    BY <2>1
  <2>5. Known' \in {Known, Known \cup {calls[c].rental}}
    BY <1>0, <2>1, <2>4
  <2>6. CallAct(c)
    BY <2>1, <2>2, <2>5 DEF CallAct, StartReturns, Rental
  <2>7. \A r \in DOMAIN jobs' : jobs'[r] \in Ports
    BY <2>1, <2>3 DEF MetalTyped
  <2>8. MetalTyped'
    BY <2>1, <2>2, <2>4, <2>7 DEF MetalTyped
  <2>9. calls'[c].outcome = "running" /\ begun' = begun
    BY <1>0, <2>1, <2>2 DEF Return, Working, CallRow
  <2>10. PICK r : r = calls[c].rental
    OBVIOUS
  <2>11. ASSUME NEW d \in Calls PROVE ~Pending(d, r, "start_rental")'
    <3>1. CASE d = c BY <2>9, <3>1 DEF Pending
    <3>2. CASE d # c
      <4>1. calls'[d] = calls[d]
        BY <2>6, <3>2, CallActKeeps
      <4> QED BY <2>2, <2>10, <3>2, <4>1 DEF Pending, CallInv, Working
    <3> QED BY <3>1, <3>2
  <2>12. ASSUME NEW x \in DOMAIN jobs' PROVE x \in begun' /\ ~Starting(x)'
    <3>1. CASE x = r
      BY <2>2, <2>9, <2>10, <2>11, <3>1 DEF Starting
    <3>2. CASE x # r
      BY <2>4, <2>6, <2>10, <3>2, CallActKeeps DEF JobsInv, NoRestart
    <3> QED BY <3>1, <3>2
  <2> QED BY <2>6, <2>8, <2>12 DEF JobsInv
<1>8. ASSUME Metal!StartFails(c)
      PROVE  CallAct(c) /\ MetalTyped' /\ JobsInv'
  <2>1. /\ calls[c].at \in {"pick", "spawn"} /\ Return(c, "failed")
        /\ UNCHANGED <<jobs, workers>>
    BY <1>8, MetalCalls DEF Metal!StartFails, Metal!At
  <2>2. Working(c) /\ calls[c].cmd = "start_rental"
    BY <1>1, <2>1 DEF StartSteps, CallInv, Working
  <2>3. Known' \in {Known \cup {calls[c].rental},
                        Known \ {calls[c].rental}}
    BY <1>0, <2>1
  <2>4. CallAct(c)
    BY <2>1, <2>2, <2>3 DEF CallAct, StartReturns, Rental
  <2> QED BY <1>2, <2>1, <2>4 DEF MetalTyped
<1>9. ASSUME Metal!TakeJob(c)
      PROVE  CallAct(c) /\ MetalTyped' /\ JobsInv'
  <2>1. /\ calls[c].at = "take"
        /\ calls' = [calls EXCEPT ![c].at = "kill"]
        /\ UNCHANGED <<up, begun, ended, workers>>
        /\ jobs' = [r \in DOMAIN jobs \ {calls[c].rental} |-> jobs[r]]
    BY <1>9 DEF Metal!TakeJob, Metal!Goto, Metal!At, Metal!Rental, Metal!Drop,
       Metal!Restrict
  <2>2. Goes(c)
    BY <1>3, <2>1 DEF StopSteps, Ported
  <2>3. Known' = Known \ {calls[c].rental}
    BY <1>0, <2>1
  <2>4. CallAct(c)
    BY <2>2, <2>3 DEF CallAct, Rental
  <2>5. MetalTyped'
    BY <2>1 DEF MetalTyped
  <2>6. DOMAIN jobs' \subseteq DOMAIN jobs
    BY <2>1
  <2> QED BY <1>2, <2>4, <2>5, <2>6
<1>10. ASSUME Metal!NoJob(c)
       PROVE  CallAct(c) /\ MetalTyped' /\ JobsInv'
  <2>1. /\ calls[c].at = "take" /\ Return(c, "stopped")
        /\ calls[c].rental \notin DOMAIN jobs
        /\ UNCHANGED <<jobs, workers>>
    BY <1>10, MetalCalls DEF Metal!NoJob, Metal!At, Metal!Rental
  <2>2. Working(c) /\ calls[c].cmd = "stop_rental"
    BY <1>1, <2>1 DEF StopSteps, CallInv, Working
  <2>3. Known' = Known \ {calls[c].rental}
    BY <1>0, <2>1
  <2>4. CallAct(c)
    BY <2>1, <2>2, <2>3 DEF CallAct, StopReturns, Rental
  <2> QED BY <1>2, <2>1, <2>4 DEF MetalTyped
<1>11. ASSUME Metal!KillWorker(c)
       PROVE  CallAct(c) /\ MetalTyped' /\ JobsInv'
  <2>1. /\ calls[c].at = "kill" /\ Return(c, "stopped")
        /\ UNCHANGED jobs
        /\ workers' = [r \in DOMAIN workers \ {calls[c].rental} |-> workers[r]]
    BY <1>11, MetalCalls DEF Metal!KillWorker, Metal!At, Metal!Rental,
       Metal!Drop, Metal!Restrict
  <2>2. Working(c) /\ calls[c].cmd = "stop_rental"
    BY <1>1, <2>1 DEF StopSteps, CallInv, Working
  <2>3. Known' = Known \ {calls[c].rental}
    BY <1>0, <2>1
  <2>4. CallAct(c)
    BY <2>1, <2>2, <2>3 DEF CallAct, StopReturns, Rental
  <2>5. MetalTyped'
    BY <2>1 DEF MetalTyped
  <2> QED BY <1>2, <2>1, <2>4, <2>5
<1>12. ASSUME Metal!ReportSent(c), UNCHANGED <<jobs, workers>>
       PROVE  CallAct(c) /\ MetalTyped' /\ JobsInv'
  <2>1. ReportSent(c)
    BY <1>12, MetalCalls
  <2>2. CallAct(c)
    BY <1>0, <1>12, <2>1 DEF CallAct
  <2> QED BY <1>2, <1>12, <2>2 DEF MetalTyped
<1> QED
  BY <1>4, <1>5, <1>6, <1>7, <1>8, <1>9, <1>10, <1>11, <1>12
  DEF Metal!MetalStep
-----------------------------------------------------------------------------
(* The types of the host, and the ports of the containers.                 *)

(* The container a start has created publishes the port the start holds.   *)
PortKept ==
    \A c \in Calls :
        calls[c].at = "start" /\ calls[c].rental \in DOMAIN containers
            => containers[calls[c].rental].port = calls[c].port

TypeInv ==
    /\ CallInv /\ PortInv /\ up \in BOOLEAN
    /\ platform \in Platforms /\ hardware \in Inventories[platform]
    /\ DockerTyped /\ MetalTyped /\ JobsInv
    /\ platform = "docker" => PortKept

(* Only the start that created it holds a container's port: no other call  *)
(* at `create` or `start` is of its rental.                                *)
LEMMA PortKeptStep ==
    ASSUME CallInv, PortInv, PortKept, NEW c \in Calls, DockerAct(c)
    PROVE  PortKept'
<1> SUFFICES ASSUME NEW d \in Calls, calls'[d].at = "start",
                    calls'[d].rental \in DOMAIN containers'
             PROVE  containers'[calls'[d].rental].port = calls'[d].port
  BY DEF PortKept
<1>1. /\ CallInv' /\ \A e \in Calls \ {c} : calls'[e] = calls[e]
  BY CallActKeeps DEF DockerAct
<1>2. PICK x : x = calls'[d].rental
  OBVIOUS
<1>3. \/ x \in DOMAIN containers /\ containers'[x].port = containers[x].port
      \/ /\ calls[c].at = "create" /\ x = calls[c].rental
         /\ containers'[x].port = calls[c].port
  BY <1>2 DEF DockerAct
<1>4. CASE d = c
  <2>1. x \notin DOMAIN containers /\ calls'[c].port = calls[c].port
    BY <1>2, <1>4 DEF DockerAct
  <2> QED BY <1>2, <1>3, <1>4, <2>1
<1>5. CASE d # c
  <2>1. calls'[d] = calls[d]
    BY <1>1, <1>5
  <2>2. calls[c].at = "create" => calls[c].rental # x
    BY <1>2, <1>5, <2>1 DEF CallInv, Unused, StartSteps
  <2> QED BY <1>2, <1>3, <2>1, <2>2 DEF PortKept
<1> QED BY <1>4, <1>5

(* The steps of the host, and what they leave of the workloads.            *)
HostAct ==
    \/ /\ platform = "docker" /\ platform' = "docker" /\ hardware' = hardware
       /\ UNCHANGED <<jobs, workers>>
       /\ \E c \in Calls : DockerAct(c)
    \/ /\ platform = "metal" /\ platform' = "metal" /\ hardware' = hardware
       /\ UNCHANGED containers
       /\ MetalTyped' /\ JobsInv'
       /\ \E c \in Calls : CallAct(c)
    \/ /\ UNCHANGED <<calls, begun, ended, up, platform, hardware>>
       /\ DockerTyped' /\ MetalTyped' /\ JobsInv'
       /\ DOMAIN containers' = DOMAIN containers
       /\ \A r \in DOMAIN containers :
             containers'[r].port = containers[r].port
       /\ \E r \in RentalIds : Known' \in {Known, Known \ {r}}
    \/ /\ up /\ up' = FALSE /\ calls' = [c \in Calls |-> Unused]
       /\ UNCHANGED <<begun, ended, platform, hardware, containers>>
       /\ MetalTyped' /\ JobsInv'
       /\ Known' \in {Known, {}}
    \/ /\ up' \in BOOLEAN /\ (up => up')
       /\ platform' = platform /\ hardware' \in Inventories[platform]
       /\ UNCHANGED <<calls, begun, ended, runtime>>
       /\ Known' = Known

(* In a host where the workers end with the agent, the agent's table misses*)
(* none: a worker has its job, but for the calls that are about to enter it*)
(* or have taken it to kill the worker.                                    *)
LEMMA KnownIsAll == HostInv => Workloads = Known
<1>1. ASSUME HostInv, platform = "metal" PROVE Workloads = Known
  <2>1. CallInv /\ MetalInv
    BY <1>1 DEF HostInv
  <2>2. ASSUME NEW r PROVE Between(r) <=>
           \E c \in Calls : IsAt(c, "insert", r) \/ IsAt(c, "kill", r)
    BY DEF Between, Active, IsAt, At, Rental
  <2>3. ASSUME NEW r \in DOMAIN jobs PROVE ~Between(r)
    <3>1. r \in begun /\ ~Starting(r) /\ r \in RentalIds
      BY <2>1 DEF MetalInv, CallInv
    <3>2. ASSUME NEW c \in Calls, IsAt(c, "insert", r) PROVE FALSE
      BY <2>1, <3>1, <3>2 DEF IsAt, Starting, Pending, CallInv, StartSteps
    <3>3. ASSUME NEW c \in Calls, IsAt(c, "kill", r) PROVE FALSE
      BY <2>1, <3>1, <3>3 DEF MetalInv
    <3> QED BY <2>2, <3>2, <3>3
  <2>4. ASSUME NEW r \in DOMAIN workers, r \notin DOMAIN jobs PROVE Between(r)
    BY <2>1, <2>2, <2>4 DEF MetalInv
  <2> QED BY <1>1, <2>3, <2>4 DEF Workloads, Known, Metal!RunningJobs
<1>2. ASSUME HostInv PROVE Workloads = Known
  <2>1. platform \in {"docker", "metal"}
    BY <1>2 DEF HostInv
  <2>2. CASE platform = "docker"
    BY <2>2 DEF Workloads, Known
  <2> QED BY <1>1, <1>2, <2>1, <2>2
<1> QED BY <1>2

(* Before and after a step.                                                *)
LEMMA KnownStaysAll == (HostInv => Workloads = Known)'
BY KnownIsAll, PTL

(* Every step of the host is one of these five.                            *)
LEMMA HostActs ==
    ASSUME TypeInv, [HostNext]_hostVars
    PROVE  HostAct
<1>0. /\ CallInv /\ PortInv /\ DockerTyped /\ MetalTyped /\ JobsInv
      /\ platform \in {"docker", "metal"}
      /\ up \in BOOLEAN /\ hardware \in Inventories[platform]
  BY PlatformAssumption DEF TypeInv
<1>1. ASSUME UNCHANGED <<calls, begun, jobs>> PROVE JobsInv'
  <2>1. \A r : Starting(r)' <=> Starting(r)
    BY <1>1 DEF Starting, Pending
  <2> QED BY <1>0, <1>1, <2>1 DEF JobsInv
<1>2. ASSUME UNCHANGED <<containers, jobs, workers, platform>>
      PROVE  /\ Known' = Known /\ DockerTyped' /\ MetalTyped'
  BY <1>0, <1>2 DEF Known, Docker!Listed, Metal!RunningJobs, DockerTyped,
     MetalTyped
<1>3. CASE Boot \/ SwapHardware \/ UNCHANGED hostVars
  <2>1. /\ UNCHANGED <<calls, begun, ended, containers, jobs, workers, platform>>
        /\ hardware' \in Inventories[platform]
        /\ up' \in BOOLEAN /\ (up => up')
    BY <1>0, <1>3 DEF Boot, Connect, SwapHardware, hostVars, callVars, host,
       runtime
  <2>2. Known' = Known
    BY <1>2, <2>1
  <2>3. UNCHANGED runtime
    BY <2>1 DEF runtime
  <2> QED BY <2>1, <2>2, <2>3 DEF HostAct
<1>4. ASSUME platform = "docker", UNCHANGED host, UNCHANGED <<jobs, workers>>,
             NEW c \in Calls, Docker!DockerStep(c)
      PROVE  HostAct
  BY <1>0, <1>4, DockerActs DEF HostAct, host
<1>5. ASSUME platform = "docker", UNCHANGED host, UNCHANGED <<jobs, workers>>,
             NEW r \in RentalIds, Docker!ContainerExits(r)
      PROVE  HostAct
  <2>1. /\ UNCHANGED <<calls, begun, ended, up, platform, hardware>>
        /\ r \in DOMAIN containers /\ containers[r].state = "running"
        /\ containers' = [containers EXCEPT ![r].state = "exited"]
    BY <1>5 DEF Docker!ContainerExits, Docker!Listed, Docker!Stopped,
       Docker!callVars, host
  <2>2. /\ DOMAIN containers' = DOMAIN containers
        /\ \A x \in DOMAIN containers \ {r} : containers'[x] = containers[x]
        /\ containers'[r] = [state |-> "exited", port |-> containers[r].port]
    BY <1>0, <2>1 DEF DockerTyped
  <2>3. Alive' = Alive \ {r}
    BY <2>1, <2>2 DEF Alive
  <2>4. Known' = Known \ {r}
    BY <1>5, <2>1, <2>3 DEF Known, Docker!Listed, Alive
  <2>5. DockerTyped'
    BY <1>0, <2>2 DEF DockerTyped
  <2>6. \A x \in DOMAIN containers : containers'[x].port = containers[x].port
    BY <2>2
  <2>7. JobsInv' /\ MetalTyped'
    BY <1>0, <1>1, <1>5, <2>1 DEF MetalTyped
  <2> QED BY <2>1, <2>2, <2>4, <2>5, <2>6, <2>7 DEF HostAct
<1>6. ASSUME platform = "docker", UNCHANGED host, UNCHANGED <<jobs, workers>>,
             Exit, UNCHANGED containers
      PROVE  HostAct
  <2>1. /\ up /\ up' = FALSE /\ calls' = [c \in Calls |-> Unused]
        /\ UNCHANGED <<begun, ended, platform, hardware>>
    BY <1>6 DEF Exit, host
  <2>2. Known' = Known /\ MetalTyped'
    BY <1>2, <1>6, <2>1
  <2>3. CallInv' /\ NoRestart
    BY <1>0, <2>1, EndingKeeps
  <2>4. JobsInv'
    BY <1>0, <1>6, <2>3 DEF JobsInv, NoRestart
  <2> QED BY <1>6, <2>1, <2>2, <2>4 DEF HostAct
<1>7. ASSUME platform = "metal", UNCHANGED host, UNCHANGED containers,
             NEW c \in Calls, Metal!MetalStep(c)
      PROVE  HostAct
  BY <1>0, <1>7, MetalActs DEF HostAct, host
<1>8. ASSUME platform = "metal", UNCHANGED host, UNCHANGED containers,
             NEW r \in RentalIds, Metal!BindPort(r) \/ Metal!WorkerDies(r)
      PROVE  HostAct
  <2>1. /\ UNCHANGED <<calls, begun, ended, up, platform, hardware, jobs>>
        /\ \/ workers' = [workers EXCEPT ![r].serving = TRUE]
           \/ workers' = [x \in DOMAIN workers \ {r} |-> workers[x]]
    BY <1>8 DEF Metal!BindPort, Metal!WorkerDies, Metal!callVars, host,
       Metal!Drop, Metal!Restrict
  <2>2. MetalTyped'
    BY <1>0, <2>1 DEF MetalTyped
  <2>3. DOMAIN workers' \in {DOMAIN workers, DOMAIN workers \ {r}}
    BY <2>1
  <2>4. Known' \in {Known, Known \ {r}}
    BY <1>8, <2>1, <2>3 DEF Known, Metal!RunningJobs
  <2>5. JobsInv' /\ DockerTyped'
    BY <1>0, <1>1, <1>8, <2>1 DEF DockerTyped
  <2>6. /\ DOMAIN containers' = DOMAIN containers
        /\ \A x \in DOMAIN containers : containers'[x].port = containers[x].port
    BY <1>8
  <2> QED BY <2>1, <2>2, <2>4, <2>5, <2>6 DEF HostAct
<1>9. ASSUME platform = "metal", UNCHANGED host, UNCHANGED containers,
             Metal!MetalExit
      PROVE  HostAct
  <2>1. /\ up /\ up' = FALSE /\ calls' = [c \in Calls |-> Unused]
        /\ UNCHANGED <<begun, ended, platform, hardware>>
        /\ DOMAIN jobs' = {}
        /\ workers' = workers \/ DOMAIN workers' = {}
    BY <1>9 DEF Metal!MetalExit, Metal!Exit, Metal!Unused, Unused, host
  <2>2. MetalTyped' /\ JobsInv'
    BY <1>0, <2>1 DEF MetalTyped, JobsInv
  <2>3. Known' = {}
    BY <1>9, <2>1 DEF Known, Metal!RunningJobs
  <2> QED BY <1>9, <2>1, <2>2, <2>3 DEF HostAct
<1> QED
  BY <1>3, <1>4, <1>5, <1>6, <1>7, <1>8, <1>9
  DEF HostNext, DockerNext, MetalNext

(* They keep the types and the ports.                                      *)
LEMMA TypeInvStep ==
    ASSUME TypeInv, [HostNext]_hostVars
    PROVE  TypeInv'
<1>0. /\ CallInv /\ PortInv /\ DockerTyped /\ MetalTyped /\ JobsInv
      /\ platform \in Platforms /\ hardware \in Inventories[platform]
      /\ up \in BOOLEAN /\ (platform = "docker" => PortKept)
  BY DEF TypeInv
<1>1. ASSUME UNCHANGED containers PROVE DockerTyped'
  BY <1>0, <1>1 DEF DockerTyped
<1>2. ASSUME NEW c \in Calls, DockerAct(c), platform = "docker",
             UNCHANGED <<jobs, workers, platform, hardware>>
      PROVE  TypeInv'
  <2>1. /\ CallInv' /\ PortInv' /\ NoRestart /\ up' = up
    BY <1>0, <1>2, CallActKeeps DEF DockerAct
  <2>2. PortKept'
    BY <1>0, <1>2, PortKeptStep
  <2>3. DockerTyped'
    BY <1>2 DEF DockerAct
  <2>4. MetalTyped' /\ JobsInv'
    BY <1>0, <1>2, <2>1 DEF MetalTyped, JobsInv, NoRestart
  <2> QED BY <1>0, <1>2, <2>1, <2>2, <2>3, <2>4 DEF TypeInv
<1>3. ASSUME NEW c \in Calls, CallAct(c), platform = "metal",
             MetalTyped', JobsInv',
             UNCHANGED <<containers, platform, hardware>>
      PROVE  TypeInv'
  <2>1. CallInv' /\ PortInv' /\ up' = up
    BY <1>0, <1>3, CallActKeeps
  <2> QED BY <1>0, <1>1, <1>3, <2>1 DEF TypeInv
<1>4. ASSUME UNCHANGED <<calls, begun, ended>>
      PROVE  CallInv' /\ PortInv'
  BY <1>0, <1>4, CallsEnd DEF PortInv
<1>5. ASSUME UNCHANGED <<calls, begun, ended, up, platform, hardware>>,
             DockerTyped', MetalTyped', JobsInv',
             DOMAIN containers' = DOMAIN containers,
             \A r \in DOMAIN containers :
                containers'[r].port = containers[r].port
      PROVE  TypeInv'
  <2>1. platform = "docker" => PortKept'
    BY <1>0, <1>5 DEF PortKept
  <2> QED BY <1>0, <1>4, <1>5, <2>1 DEF TypeInv
<1>6. ASSUME up' = FALSE, calls' = [c \in Calls |-> Unused], up,
             UNCHANGED <<begun, ended, platform, hardware, containers>>,
             MetalTyped', JobsInv'
      PROVE  TypeInv'
  <2>1. CallInv'
    BY <1>0, <1>6, EndingKeeps
  <2>2. PortInv' /\ PortKept' /\ up' \in BOOLEAN
    BY <1>6 DEF PortInv, PortKept, Unused, Ported
  <2> QED BY <1>0, <1>1, <1>6, <2>1, <2>2 DEF TypeInv
<1>7. ASSUME up' \in BOOLEAN, platform' = platform,
             hardware' \in Inventories[platform],
             UNCHANGED <<calls, begun, ended, runtime>>
      PROVE  TypeInv'
  <2>1. MetalTyped' /\ DockerTyped' /\ (platform = "docker" => PortKept')
    BY <1>0, <1>7 DEF MetalTyped, DockerTyped, PortKept, runtime
  <2>2. \A r : Starting(r)' <=> Starting(r)
    BY <1>7 DEF Starting, Pending
  <2>3. JobsInv'
    BY <1>0, <1>7, <2>2 DEF JobsInv, runtime
  <2> QED BY <1>0, <1>4, <1>7, <2>1, <2>3 DEF TypeInv
<1> QED BY <1>2, <1>3, <1>5, <1>6, <1>7, HostActs DEF HostAct

(* A fresh host has no calls; stale containers have a port of the range.   *)
LEMMA TypeInvInit == HostInit => TypeInv
<1> SUFFICES ASSUME HostInit PROVE TypeInv
  OBVIOUS
<1>1. /\ calls = [c \in Calls |-> Unused] /\ begun = {} /\ ended = {}
      /\ up = FALSE
      /\ DOMAIN jobs = {} /\ DOMAIN workers = {}
      /\ platform \in Platforms /\ hardware \in Inventories[platform]
  BY PlatformAssumption DEF HostInit, CallInit, Docker!DockerInit,
     Docker!CallInit, Metal!MetalInit, Metal!CallInit, Docker!Unused,
     Metal!Unused, Unused
<1>2. CallInv
  BY <1>1 DEF CallInv, CallRow
<1>3. PortInv /\ PortKept /\ MetalTyped /\ JobsInv
  BY <1>1 DEF PortInv, PortKept, MetalTyped, JobsInv, Unused, Ported
<1>4. DockerTyped
  <2>1. CASE platform = "docker"
    <3>1. containers = [r \in Stale |-> [state |-> "running",
                                         port |-> PortStart]]
      BY <2>1 DEF HostInit, Docker!DockerInit
    <3> QED BY <3>1, StaleAssumption, PortsAssumption DEF DockerTyped, Ports
  <2>2. CASE platform # "docker"
    <3>1. DOMAIN containers = {}
      BY <2>2 DEF HostInit
    <3> QED BY <3>1 DEF DockerTyped
  <2> QED BY <2>1, <2>2
<1> QED BY <1>1, <1>2, <1>3, <1>4 DEF TypeInv

(* So the types and the ports hold throughout.                             *)
LEMMA TypeInvAlways == HostSpec => []TypeInv
BY TypeInvInit, TypeInvStep, PTL DEF HostSpec

(* The calls, the containers, the jobs and the workers keep their types on *)
(* both runtimes: every call is at a step of its own, and every container, *)
(* job and worker has a port of the opened range.                          *)
THEOREM HostTyped == HostSpec => []HostTypeOK
<1>1. TypeInv => HostTypeOK
  <2> SUFFICES ASSUME TypeInv PROVE HostTypeOK
    OBVIOUS
  <2>1. CallRow \subseteq Call
    BY DEF CallRow, Call, PortValues, StartSteps, StopSteps
  <2>2. CallTypeOK
    BY <2>1 DEF TypeInv, CallInv, CallTypeOK
  <2>3. Docker!DockerTypeOK
    BY DockerTypedIs DEF TypeInv
  <2>4. Metal!MetalTypeOK
    BY DEF TypeInv, MetalTyped, Metal!MetalTypeOK, Metal!Ports, Ports
  <2> QED BY <2>2, <2>3, <2>4 DEF TypeInv, HostTypeOK
<1> QED BY <1>1, TypeInvAlways, PTL

(* runtime.rs:206-243: although the port is picked from a list of four     *)
(* calls before, the port a Docker start reports is in the opened range    *)
(* and its running container is the only one to publish it.                *)
THEOREM PortIsServed == HostSpec => ReportedPortIsServed
<1> DEFINE Served ==
      \A c \in Calls :
          /\ platform = "docker"
          /\ calls'[c].at = "done" /\ ~At(c, "done")
          /\ calls'[c].outcome = "running"
          => /\ calls'[c].port \in Ports
             /\ {r \in DOMAIN containers' :
                    /\ containers'[r].state = "running"
                    /\ containers'[r].port = calls'[c].port} = {Rental(c)}
<1>1. ASSUME TypeInv, [HostNext]_hostVars PROVE Served
  <2> SUFFICES ASSUME NEW c \in Calls, platform = "docker",
                      calls'[c].at = "done", calls[c].at # "done",
                      calls'[c].outcome = "running"
               PROVE  /\ calls'[c].port \in Ports
                      /\ {r \in DOMAIN containers' :
                             /\ containers'[r].state = "running"
                             /\ containers'[r].port = calls'[c].port}
                            = {calls[c].rental}
    BY DEF At, Rental
  <2>1. \E d \in Calls : DockerAct(d)
    <3>1. calls' # calls /\ calls' # [e \in Calls |-> Unused]
      BY DEF Unused
    <3>2. HostAct
      BY <1>1, HostActs
    <3> QED BY <3>1, <3>2 DEF HostAct
  <2>2. DockerAct(c)
    BY <1>1, <2>1, CallActKeeps DEF DockerAct, TypeInv
  <2>3. Docker!StartContainer(c)
    BY <2>2 DEF DockerAct
  <2>4. PICK r, p : r = calls[c].rental /\ p = calls[c].port
    OBVIOUS
  <2>5. /\ calls[c].at = "start" /\ Return(c, "running")
        /\ r \in DOMAIN containers
        /\ \A s \in Alive \ {r} : containers[s].port # containers[r].port
        /\ containers' = [containers EXCEPT ![r].state = "running"]
    BY <2>3, <2>4, DockerCalls DEF Docker!StartContainer, Docker!At,
       Docker!Startable, Docker!Rental, Docker!Listed, Alive
  <2>6. p \in Ports /\ containers[r].port = p
    BY <1>1, <2>4, <2>5 DEF TypeInv, PortInv, PortKept, Ported
  <2>7. calls'[c].port = p
    BY <1>1, <2>4, <2>5 DEF Return, TypeInv, CallInv, CallRow, Unused
  <2>8. /\ DOMAIN containers' = DOMAIN containers
        /\ \A s \in DOMAIN containers \ {r} : containers'[s] = containers[s]
        /\ containers'[r].state = "running" /\ containers'[r].port = p
    BY <1>1, <2>5, <2>6 DEF TypeInv, DockerTyped
  <2>9. \A s \in DOMAIN containers' :
           containers'[s].state = "running" /\ containers'[s].port = p
               <=> s = r
    BY <2>5, <2>6, <2>8 DEF Alive
  <2> QED BY <2>4, <2>5, <2>6, <2>7, <2>8, <2>9
<1>2. ReportedPortIsServed <=> [][Served]_hostVars
  BY DEF ReportedPortIsServed
<1> HIDE DEF Served
<1>3. TypeInv /\ [HostNext]_hostVars => [Served]_hostVars
  BY <1>1
<1> QED BY <1>2, <1>3, TypeInvAlways, PTL DEF HostSpec
=============================================================================
