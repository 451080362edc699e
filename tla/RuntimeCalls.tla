---------------------------- MODULE RuntimeCalls ----------------------------
(***************************************************************************)
(* The agent process of one host as its runtime sees it: the dispatch      *)
(* tasks, each of which makes one call of the HostRuntime trait and then   *)
(* one report.  DockerHost and MetalHost are the two runtimes; each moves  *)
(* a call through its own steps.                                           *)
(***************************************************************************)
EXTENDS RentalCore

CONSTANTS
    RentalIds,
    Calls,      \* bound: the dispatch tasks alive at once
    PortStart,  \* the range of host ports the provider has opened
    PortEnd

ASSUME PortsAssumption ==
    PortStart \in Int /\ PortEnd \in Int /\ PortStart <= PortEnd

VARIABLES
    up,         \* whether the agent process is running
    calls,      \* per dispatch task, where its call stands
    begun,      \* history: the rentals whose start has been received
    ended       \* history: the rentals a stop has ended for good

callVars == <<up, calls, begun, ended>>

Ports == PortStart..PortEnd
NoPort == PortStart - 1

(* Mutation of Free: the range is one port too long.                       *)
FreeOffByOne(used) == (PortStart..(PortEnd + 1)) \ used

(* pick_free_port: the first port of the range that is not in use.         *)
Free(used) == Ports \ used
PickFreePort(used) ==
    CHOOSE p \in Free(used) : \A q \in Free(used) : p <= q

Unused == [at |-> "unused"]

Call == {Unused} \cup
        [at      : {"pull", "list", "clear", "create", "start",  \* Docker
                    "stop", "remove",
                    "pick", "spawn", "insert", "take", "kill",   \* Metal
                    "done"},
         cmd     : {"start_rental", "stop_rental"},
         rental  : RentalIds,
         port    : Ports \cup {NoPort},
         outcome : {"pending"} \cup ReportStatus]

Active == {c \in Calls : calls[c] # Unused}
At(c, step) == calls[c].at = step
Rental(c) == calls[c].rental

(* The calls of a rental that the runtime is still working on.             *)
InProgress(r, cmd) ==
    {c \in Active : /\ calls[c].rental = r
                    /\ calls[c].cmd = cmd
                    /\ calls[c].outcome = "pending"}

CallInit ==
    /\ up = FALSE
    /\ calls = [c \in Calls |-> Unused]
    /\ begun = {}
    /\ ended = {}

(* The process starts and registers; the runtime is connected, and what it *)
(* already runs is counted for the log.                                    *)
Connect ==
    /\ ~up
    /\ up' = TRUE
    /\ UNCHANGED <<calls, begun, ended>>

(* dispatch: a task of its own for each command.  The control plane never  *)
(* sends the start of a rental twice (Marketplace!AtMostOneStart).         *)
Dispatch(c, cmd, r, step) ==
    /\ up
    /\ calls[c] = Unused
    /\ cmd = "start_rental" => r \notin begun
    /\ calls' = [calls EXCEPT ![c] = [at |-> step, cmd |-> cmd, rental |-> r,
                                      port |-> NoPort, outcome |-> "pending"]]
    /\ begun' = IF cmd = "start_rental" THEN begun \cup {r} ELSE begun
    /\ UNCHANGED <<up, ended>>

Goto(c, step) ==
    /\ calls' = [calls EXCEPT ![c].at = step]
    /\ UNCHANGED <<up, begun, ended>>

GotoWithPort(c, step, port) ==
    /\ calls' = [calls EXCEPT ![c].at = step, ![c].port = port]
    /\ UNCHANGED <<up, begun, ended>>

(* The call returns.  A stop that succeeds when the start is over, and can *)
(* not come again, ends the rental for good.                               *)
Return(c, outcome) ==
    /\ calls' = [calls EXCEPT ![c].at = "done", ![c].outcome = outcome]
    /\ ended' = IF /\ outcome = "stopped"
                   /\ Rental(c) \in begun
                   /\ InProgress(Rental(c), "start_rental") = {}
                THEN ended \cup {Rental(c)}
                ELSE ended
    /\ UNCHANGED <<up, begun>>

(* The report is sent, or lost: either way the task ends.                  *)
ReportSent(c) ==
    /\ At(c, "done")
    /\ calls' = [calls EXCEPT ![c] = Unused]
    /\ UNCHANGED <<up, begun, ended>>

(* The process ends, and every task with it.                               *)
Exit ==
    /\ up
    /\ up' = FALSE
    /\ calls' = [c \in Calls |-> Unused]
    /\ UNCHANGED <<begun, ended>>

CallTypeOK ==
    /\ up \in BOOLEAN
    /\ calls \in [Calls -> Call]
    /\ begun \subseteq RentalIds
    /\ ended \subseteq begun
=============================================================================
