------------------------------ MODULE MetalHost ------------------------------
(***************************************************************************)
(* MetalRuntime: a rental is a child process of the agent, a worker that   *)
(* binds its status port by itself.  The table of jobs lives in the memory *)
(* of the agent; the workers do not.                                       *)
(***************************************************************************)
EXTENDS RuntimeCalls, Functions

CONSTANT ChildrenSurvive  \* whether the workers outlive the agent

VARIABLES
    jobs,     \* MetalRuntime.jobs: by rental, the port it was given
    workers   \* the live worker processes, by rental; a rental has one start

metalVars == <<callVars, jobs, workers>>

MetalInit ==
    /\ CallInit
    /\ jobs = << >>
    /\ workers = << >>

Drop(f, r) == Restrict(f, DOMAIN f \ {r})

(* running_rentals: the jobs whose child has not exited.                   *)
RunningJobs == DOMAIN jobs \cap DOMAIN workers

(* used_ports: the jobs' ports, also those of jobs whose child is dead.    *)
JobPorts == {jobs[r] : r \in DOMAIN jobs}

MetalReceive(c, cmd, r) ==
    /\ Dispatch(c, cmd, r, IF cmd = "start_rental" THEN "pick" ELSE "take")
    /\ UNCHANGED <<jobs, workers>>

(* start_rental: the task is allowed; the ports are read under the lock,   *)
(* which is released again.                                                *)
PickJobPort(c) ==
    /\ At(c, "pick")
    /\ Free(JobPorts) # {}
    /\ GotoWithPort(c, "spawn", PickFreePort(JobPorts))
    /\ UNCHANGED <<jobs, workers>>

(* start_rental: the worker is spawned; it has not bound its port yet.     *)
SpawnWorker(c) ==
    /\ At(c, "spawn")
    /\ workers' = [r \in DOMAIN workers \cup {Rental(c)} |->
                      IF r = Rental(c)
                      THEN [port |-> calls[c].port, serving |-> FALSE]
                      ELSE workers[r]]
    /\ Goto(c, "insert")
    /\ UNCHANGED jobs

(* start_rental: the job is entered under the lock, and that is success.   *)
InsertJob(c) ==
    /\ At(c, "insert")
    /\ jobs' = [r \in DOMAIN jobs \cup {Rental(c)} |->
                   IF r = Rental(c) THEN calls[c].port ELSE jobs[r]]
    /\ Return(c, "running")
    /\ UNCHANGED workers

(* parse_task rejects the image, no port is free, or spawn fails.          *)
StartFails(c) ==
    /\ At(c, "pick") \/ At(c, "spawn")
    /\ Return(c, "failed")
    /\ UNCHANGED <<jobs, workers>>

(* stop_rental: the job is taken out of the table, under the lock.         *)
TakeJob(c) ==
    /\ At(c, "take")
    /\ Rental(c) \in DOMAIN jobs
    /\ jobs' = Drop(jobs, Rental(c))
    /\ Goto(c, "kill")
    /\ UNCHANGED workers

(* stop_rental of an unknown job succeeds at once.                         *)
NoJob(c) ==
    /\ At(c, "take")
    /\ Rental(c) \notin DOMAIN jobs
    /\ Return(c, "stopped")
    /\ UNCHANGED <<jobs, workers>>

(* Mutation of KillWorker: the Child is dropped, which kills nothing.      *)
DropChild(c) ==
    /\ At(c, "kill")
    /\ Return(c, "stopped")
    /\ UNCHANGED <<jobs, workers>>

(* stop_rental: the child is killed and waited for.                        *)
KillWorker(c) ==
    /\ At(c, "kill")
    /\ workers' = Drop(workers, Rental(c))
    /\ Return(c, "stopped")
    /\ UNCHANGED jobs

(* serve_status binds the port, if no other worker holds it.               *)
BindPort(r) ==
    /\ r \in DOMAIN workers
    /\ ~workers[r].serving
    /\ \A s \in DOMAIN workers :
          workers[s].serving => workers[s].port # workers[r].port
    /\ workers' = [workers EXCEPT ![r].serving = TRUE]
    /\ UNCHANGED <<callVars, jobs>>

(* A worker dies: it could not bind its port, or it was killed together    *)
(* with the agent, or by anything else.  Its job stays.                    *)
WorkerDies(r) ==
    /\ r \in DOMAIN workers
    /\ workers' = Drop(workers, r)
    /\ UNCHANGED <<callVars, jobs>>

(* The agent ends and its table goes.  A ctrl-C in its terminal reaches    *)
(* the children too; a crash, or a signal to the agent alone, does not.    *)
MetalExit ==
    /\ Exit
    /\ jobs' = << >>
    /\ workers' = IF ChildrenSurvive THEN workers ELSE << >>

MetalStep(c) ==
    \/ \E cmd \in {"start_rental", "stop_rental"}, r \in RentalIds :
            MetalReceive(c, cmd, r)
    \/ PickJobPort(c) \/ SpawnWorker(c) \/ InsertJob(c) \/ StartFails(c)
    \/ TakeJob(c) \/ NoJob(c) \/ KillWorker(c)
    \/ ReportSent(c) /\ UNCHANGED <<jobs, workers>>

MetalTypeOK ==
    /\ DOMAIN jobs \subseteq RentalIds
    /\ \A r \in DOMAIN jobs : jobs[r] \in Ports
    /\ DOMAIN workers \subseteq RentalIds
    /\ \A r \in DOMAIN workers :
          workers[r] \in [port : Ports, serving : BOOLEAN]
=============================================================================
