--------------------------- MODULE HostAgentProofs ---------------------------
(***************************************************************************)
(* Both runtimes implement HostAgent where no worker outlives its agent:   *)
(* then the workloads there are, are the ones the runtime knows.  The tasks*)
(* of HostAgent are a bag: a call that begins adds the task it stands for, *)
(* one that returns replaces it, and one that has reported takes it out.   *)
(* That the active calls are finitely many, so that they can be counted,   *)
(* is part of the invariant.                                               *)
(***************************************************************************)
EXTENDS HostProofs

(* The bag of the values that f takes on A.                                *)
BagOf(A, f) == [t \in {f[c] : c \in A} |-> Cardinality({c \in A : f[c] = t})]

(* Its elements are the values, each counted as often as it is taken.      *)
LEMMA BagOfIs ==
    ASSUME NEW A, IsFiniteSet(A), NEW f
    PROVE  /\ \A t : t \in DOMAIN BagOf(A, f) <=> \E c \in A : f[c] = t
           /\ \A t \in DOMAIN BagOf(A, f) :
                 /\ BagOf(A, f)[t] = Cardinality({c \in A : f[c] = t})
                 /\ BagOf(A, f)[t] \in Nat \ {0}
<1>1. ASSUME NEW c \in A
      PROVE  Cardinality({d \in A : f[d] = f[c]}) \in Nat \ {0}
  <2>1. PICK S : S = {d \in A : f[d] = f[c]}
    OBVIOUS
  <2>2. S \in SUBSET A /\ S # {}
    BY <2>1
  <2>3. IsFiniteSet(S)
    BY <2>2, FS_Subset
  <2> QED BY <2>1, <2>2, <2>3, FS_CardinalityType, FS_EmptySet
<1> QED BY <1>1 DEF BagOf

(* A new call adds its task to the bag, ...                                *)
LEMMA BagOfAdds ==
    ASSUME NEW A, IsFiniteSet(A), NEW f, NEW c, c \notin A,
           NEW g, \A d \in A : g[d] = f[d]
    PROVE  BagOf(A \cup {c}, g) = Agent!BagAdd(BagOf(A, f), g[c])
<1>1. PICK old, new, B : old = BagOf(A, f) /\ B = A \cup {c} /\ new = BagOf(B, g)
  OBVIOUS
<1>2. IsFiniteSet(B)
  BY <1>1, FS_AddElement
<1>3. \A t : t \in DOMAIN new <=> t \in DOMAIN old \/ t = g[c]
  BY <1>1, <1>2, BagOfIs
<1>4. ASSUME NEW t \in DOMAIN new, t # g[c]
      PROVE  t \in DOMAIN old /\ new[t] = old[t]
  <2>1. {d \in B : g[d] = t} = {d \in A : f[d] = t}
    BY <1>1, <1>4
  <2>2. t \in DOMAIN old
    BY <1>3, <1>4
  <2>3. new[t] = Cardinality({d \in B : g[d] = t})
    BY <1>1, <1>2, <1>4, BagOfIs
  <2>4. old[t] = Cardinality({d \in A : f[d] = t})
    BY <1>1, <2>2, BagOfIs
  <2> QED BY <2>1, <2>2, <2>3, <2>4
<1>5. new[g[c]] = IF g[c] \in DOMAIN old THEN old[g[c]] + 1 ELSE 1
  <2>1. PICK S, T : S = {d \in A : f[d] = g[c]} /\ T = {d \in B : g[d] = g[c]}
    OBVIOUS
  <2>2. T = S \cup {c} /\ c \notin S /\ S \in SUBSET A
    BY <1>1, <2>1
  <2>3. IsFiniteSet(S)
    BY <2>2, FS_Subset
  <2>4. Cardinality(T) = Cardinality(S) + 1
    BY <2>2, <2>3, FS_AddElement
  <2>5. g[c] \in DOMAIN old => old[g[c]] = Cardinality(S)
    BY <1>1, <2>1, BagOfIs
  <2>6. g[c] \notin DOMAIN old => Cardinality(S) = 0
    <3>1. g[c] \notin DOMAIN old => S = {}
      BY <1>1, <2>1, BagOfIs
    <3> QED BY <3>1, FS_EmptySet
  <2>7. new[g[c]] = Cardinality(T)
    BY <1>1, <1>2, <1>3, <2>1, BagOfIs
  <2> QED BY <2>4, <2>5, <2>6, <2>7
<1>6. PICK added : added = Agent!BagAdd(old, g[c])
  OBVIOUS
<1>7. CASE g[c] \in DOMAIN old
  <2>1. added = [e \in DOMAIN old |-> IF e = g[c] THEN old[e] + 1 ELSE old[e]]
    BY <1>6, <1>7 DEF Agent!BagAdd
  <2>2. DOMAIN new = DOMAIN old
    BY <1>3, <1>7
  <2>3. \A t \in DOMAIN new : new[t] = added[t]
    BY <1>4, <1>5, <1>7, <2>1, <2>2
  <2>4. new = [t \in DOMAIN new |-> new[t]]
    BY <1>1 DEF BagOf
  <2> QED BY <1>1, <1>6, <2>1, <2>2, <2>3, <2>4
<1>8. CASE g[c] \notin DOMAIN old
  <2>1. added = [e \in DOMAIN old \cup {g[c]} |-> IF e = g[c] THEN 1 ELSE old[e]]
    BY <1>6, <1>8 DEF Agent!BagAdd
  <2>2. DOMAIN new = DOMAIN old \cup {g[c]}
    BY <1>3
  <2>3. \A t \in DOMAIN new : new[t] = added[t]
    BY <1>4, <1>5, <1>8, <2>1, <2>2
  <2>4. new = [t \in DOMAIN new |-> new[t]]
    BY <1>1 DEF BagOf
  <2> QED BY <1>1, <1>6, <2>1, <2>2, <2>3, <2>4
<1> QED BY <1>7, <1>8

(* ... and one that ends takes it out.                                     *)
LEMMA BagOfRemoves ==
    ASSUME NEW A, IsFiniteSet(A), NEW f, NEW c \in A
    PROVE  BagOf(A \ {c}, f) = Agent!BagRemove(BagOf(A, f), f[c])
<1>1. PICK old, new, B : old = BagOf(A, f) /\ B = A \ {c} /\ new = BagOf(B, f)
  OBVIOUS
<1>2. IsFiniteSet(B)
  BY <1>1, FS_RemoveElement
<1>3. f[c] \in DOMAIN old
  BY <1>1, BagOfIs
<1>4. ASSUME NEW t, t # f[c]
      PROVE  /\ t \in DOMAIN new <=> t \in DOMAIN old
             /\ t \in DOMAIN old => new[t] = old[t]
  <2>1. {d \in B : f[d] = t} = {d \in A : f[d] = t}
    BY <1>1, <1>4
  <2>2. t \in DOMAIN new <=> t \in DOMAIN old
    BY <1>1, <1>2, <1>4, BagOfIs
  <2>3. t \in DOMAIN new => new[t] = Cardinality({d \in B : f[d] = t})
    BY <1>1, <1>2, BagOfIs
  <2>4. t \in DOMAIN old => old[t] = Cardinality({d \in A : f[d] = t})
    BY <1>1, BagOfIs
  <2> QED BY <2>1, <2>2, <2>3, <2>4
<1>5. /\ f[c] \in DOMAIN new <=> old[f[c]] # 1
      /\ f[c] \in DOMAIN new => new[f[c]] = old[f[c]] - 1
  <2>1. PICK S, T : S = {d \in A : f[d] = f[c]} /\ T = {d \in B : f[d] = f[c]}
    OBVIOUS
  <2>2. T = S \ {c} /\ c \in S /\ S \in SUBSET A
    BY <1>1, <2>1
  <2>3. IsFiniteSet(S)
    BY <2>2, FS_Subset
  <2>4. /\ IsFiniteSet(T) /\ Cardinality(T) = Cardinality(S) - 1
        /\ Cardinality(S) \in Nat
    BY <2>2, <2>3, FS_RemoveElement, FS_CardinalityType
  <2>5. old[f[c]] = Cardinality(S)
    BY <1>1, <1>3, <2>1, BagOfIs
  <2>6. f[c] \in DOMAIN new <=> T # {}
    BY <1>1, <1>2, <2>1, BagOfIs
  <2>7. T = {} <=> Cardinality(T) = 0
    BY <2>4, FS_EmptySet
  <2>8. f[c] \in DOMAIN new => new[f[c]] = Cardinality(T)
    BY <1>1, <1>2, <2>1, BagOfIs
  <2> QED BY <2>4, <2>5, <2>6, <2>7, <2>8
<1>6. PICK removed : removed = Agent!BagRemove(old, f[c])
  OBVIOUS
<1>7. new = [t \in DOMAIN new |-> new[t]]
  BY <1>1 DEF BagOf
<1>8. CASE old[f[c]] = 1
  <2>1. removed = [e \in DOMAIN old \ {f[c]} |-> old[e]]
    BY <1>3, <1>6, <1>8 DEF Agent!BagRemove
  <2>2. DOMAIN new = DOMAIN old \ {f[c]}
    BY <1>4, <1>5, <1>8
  <2>3. \A t \in DOMAIN new : new[t] = removed[t]
    BY <1>4, <2>1, <2>2
  <2> QED BY <1>1, <1>6, <1>7, <2>1, <2>2, <2>3
<1>9. CASE old[f[c]] # 1
  <2>1. removed = [e \in DOMAIN old |-> IF e = f[c] THEN old[e] - 1 ELSE old[e]]
    BY <1>3, <1>6, <1>9 DEF Agent!BagRemove
  <2>2. DOMAIN new = DOMAIN old
    BY <1>3, <1>4, <1>5, <1>9
  <2>3. \A t \in DOMAIN new : new[t] = removed[t]
    BY <1>4, <1>5, <2>1, <2>2
  <2> QED BY <1>1, <1>6, <1>7, <2>1, <2>2, <2>3
<1> QED BY <1>8, <1>9
TasksNow == [c \in Calls |-> TaskOf(c)]

(* TaskBag is such a bag, before and after a step.                         *)
LEMMA TaskBagIs ==
    /\ TaskBag = BagOf(Active, TasksNow)
    /\ TaskBag' = BagOf(Active', TasksNow')
BY DEF TaskBag, BagOf, TasksNow, Active

(* What becomes of the tasks when a call begins, goes on, returns or ends. *)
LEMMA TasksOfCalls ==
    ASSUME CallInv, IsFiniteSet(Active), NEW c \in Calls
    PROVE  /\ Goes(c) => IsFiniteSet(Active') /\ TaskBag' = TaskBag
           /\ \A cmd, r, step : Dispatch(c, cmd, r, step) =>
                 /\ IsFiniteSet(Active')
                 /\ TaskBag' = Agent!BagAdd(TaskBag,
                                  [machine |-> "host", cmd |-> cmd,
                                   rental |-> r, outcome |-> "pending"])
           /\ \A outcome : Working(c) /\ Return(c, outcome) =>
                 /\ IsFiniteSet(Active')
                 /\ TaskOf(c) \in DOMAIN TaskBag
                 /\ TaskBag' = Agent!BagAdd(Agent!BagRemove(TaskBag, TaskOf(c)),
                                            [TaskOf(c) EXCEPT !.outcome = outcome])
           /\ ReportSent(c) =>
                 /\ IsFiniteSet(Active')
                 /\ TaskOf(c) \in DOMAIN TaskBag
                 /\ TaskBag' = Agent!BagRemove(TaskBag, TaskOf(c))
<1>1. PICK A, f : A = Active /\ f = TasksNow
  OBVIOUS
<1>2. PICK A2, g : A2 = Active' /\ g = TasksNow'
  OBVIOUS
<1>3. /\ TaskBag = BagOf(A, f) /\ TaskBag' = BagOf(A2, g)
      /\ IsFiniteSet(A)
      /\ calls \in [Calls -> CallRow]
  BY <1>1, <1>2, TaskBagIs DEF CallInv
<1>4. /\ f[c] = TaskOf(c) /\ g[c] = TaskOf(c)'
      /\ A \subseteq Calls /\ A2 \subseteq Calls
      /\ \A d \in Calls : (d \in A <=> calls[d] # Unused)
                          /\ (d \in A2 <=> calls'[d] # Unused)
  BY <1>1, <1>2 DEF TasksNow, Active
<1>5. \A d \in Calls : calls'[d] = calls[d] => f[d] = g[d]
  BY <1>1, <1>2 DEF TasksNow, TaskOf
<1>6. ASSUME Goes(c) PROVE IsFiniteSet(A2) /\ BagOf(A2, g) = BagOf(A, f)
  <2>1. \A d \in Calls \ {c} : calls'[d] = calls[d]
    BY <1>3, <1>6 DEF Goes
  <2>2. calls[c] # Unused /\ calls[c].at # "done"
    BY <1>6 DEF Goes, Unused, StartSteps, StopSteps
  <2>3. /\ calls'[c] # Unused /\ calls'[c].cmd = calls[c].cmd
        /\ calls'[c].rental = calls[c].rental
        /\ calls'[c].outcome = calls[c].outcome
    BY <1>3, <1>6, <2>2 DEF Goes, CallRow, Unused, StartSteps, StopSteps
  <2>4. A2 = A
    BY <1>4, <2>1, <2>2, <2>3
  <2>5. g = f
    <3>1. TaskOf(c)' = TaskOf(c)
      BY <2>3 DEF TaskOf
    <3>2. \A d \in Calls : g[d] = f[d]
      BY <1>4, <1>5, <2>1, <3>1
    <3> QED BY <1>1, <1>2, <3>2 DEF TasksNow
  <2> QED BY <1>3, <2>4, <2>5
<1>7. ASSUME NEW cmd, NEW r, NEW step, Dispatch(c, cmd, r, step)
      PROVE  /\ IsFiniteSet(A2)
             /\ BagOf(A2, g) = Agent!BagAdd(BagOf(A, f),
                                  [machine |-> "host", cmd |-> cmd,
                                   rental |-> r, outcome |-> "pending"])
  <2>1. /\ calls[c] = Unused
        /\ calls'[c] = [at |-> step, cmd |-> cmd, rental |-> r,
                        port |-> NoPort, outcome |-> "pending"]
        /\ \A d \in Calls \ {c} : calls'[d] = calls[d]
    BY <1>3, <1>7 DEF Dispatch
  <2>2. calls'[c] # Unused
    BY <2>1 DEF Unused
  <2>3. A2 = A \cup {c} /\ c \notin A
    BY <1>4, <2>1, <2>2
  <2>4. g[c] = [machine |-> "host", cmd |-> cmd, rental |-> r,
                outcome |-> "pending"]
    BY <1>4, <2>1 DEF TaskOf
  <2>5. \A d \in A : g[d] = f[d]
    BY <1>4, <1>5, <2>1, <2>3
  <2>6. BagOf(A \cup {c}, g) = Agent!BagAdd(BagOf(A, f), g[c])
    BY <1>3, <2>3, <2>5, BagOfAdds
  <2>7. IsFiniteSet(A \cup {c})
    BY <1>3, FS_AddElement
  <2> QED BY <2>3, <2>4, <2>6, <2>7
<1>8. ASSUME NEW outcome, Working(c), Return(c, outcome)
      PROVE  /\ IsFiniteSet(A2) /\ f[c] \in DOMAIN BagOf(A, f)
             /\ BagOf(A2, g) =
                   Agent!BagAdd(Agent!BagRemove(BagOf(A, f), f[c]),
                                [f[c] EXCEPT !.outcome = outcome])
  <2>1. /\ calls[c] # Unused /\ calls[c] \in CallRow
        /\ calls'[c].at = "done" /\ calls'[c].outcome = outcome
        /\ calls'[c].cmd = calls[c].cmd
        /\ calls'[c].rental = calls[c].rental
        /\ \A d \in Calls \ {c} : calls'[d] = calls[d]
    BY <1>3, <1>8 DEF Return, Working, CallRow
  <2>2. calls'[c] # Unused
    BY <2>1 DEF Unused
  <2>3. A2 = A /\ c \in A
    BY <1>4, <2>1, <2>2
  <2>4. g[c] = [f[c] EXCEPT !.outcome = outcome]
    BY <1>4, <2>1 DEF TaskOf
  <2>5. PICK B : B = A \ {c}
    OBVIOUS
  <2>6. /\ IsFiniteSet(B) /\ c \notin B /\ B \cup {c} = A
        /\ \A d \in B : g[d] = f[d]
    BY <1>3, <1>4, <1>5, <2>1, <2>3, <2>5, FS_RemoveElement
  <2>7. BagOf(B, f) = Agent!BagRemove(BagOf(A, f), f[c])
    BY <1>3, <2>3, <2>5, BagOfRemoves
  <2>8. BagOf(B \cup {c}, g) = Agent!BagAdd(BagOf(B, f), g[c])
    BY <2>6, BagOfAdds
  <2>9. f[c] \in DOMAIN BagOf(A, f)
    BY <1>3, <2>3, BagOfIs
  <2> QED BY <1>3, <2>3, <2>4, <2>6, <2>7, <2>8, <2>9
<1>9. ASSUME ReportSent(c)
      PROVE  /\ IsFiniteSet(A2) /\ f[c] \in DOMAIN BagOf(A, f)
             /\ BagOf(A2, g) = Agent!BagRemove(BagOf(A, f), f[c])
  <2>1. /\ calls[c].at = "done" /\ calls'[c] = Unused
        /\ \A d \in Calls \ {c} : calls'[d] = calls[d]
    BY <1>3, <1>9 DEF ReportSent, At
  <2>2. calls[c] # Unused
    BY <2>1 DEF Unused
  <2>3. A2 = A \ {c} /\ c \in A
    BY <1>4, <2>1, <2>2
  <2>4. \A d \in A2 : g[d] = f[d]
    BY <1>4, <1>5, <2>1, <2>3
  <2>5. BagOf(A2, g) = BagOf(A2, f)
    <3>1. {g[d] : d \in A2} = {f[d] : d \in A2}
      BY <2>4
    <3>2. \A t : {d \in A2 : g[d] = t} = {d \in A2 : f[d] = t}
      BY <2>4
    <3> QED BY <3>1, <3>2 DEF BagOf
  <2>6. BagOf(A \ {c}, f) = Agent!BagRemove(BagOf(A, f), f[c])
    BY <1>3, <2>3, BagOfRemoves
  <2>7. IsFiniteSet(A \ {c})
    BY <1>3, FS_RemoveElement
  <2>8. f[c] \in DOMAIN BagOf(A, f)
    BY <1>3, <2>3, BagOfIs
  <2> QED BY <2>3, <2>5, <2>6, <2>7, <2>8
<1> QED BY <1>2, <1>3, <1>4, <1>6, <1>7, <1>8, <1>9
(* A heartbeat's command is received by the agent of the specification.    *)
LEMMA ReceivesOne ==
    ASSUME IsFiniteSet(Active), up, up' = up, Workloads' = Workloads,
           NEW cmd \in {"start_rental", "stop_rental"}, NEW r \in RentalIds,
           TaskBag' = Agent!BagAdd(TaskBag,
                         [machine |-> "host", cmd |-> cmd, rental |-> r,
                          outcome |-> "pending"])
    PROVE  Agent!AgentNext
<1>1. PICK k, t : /\ k = [cmd |-> cmd, rental |-> r]
                  /\ t = [machine |-> "host", cmd |-> cmd, rental |-> r,
                          outcome |-> "pending"]
  OBVIOUS
<1>2. PICK B : B = TaskBag /\ \A u \in DOMAIN B : B[u] \in Nat
  BY TaskBagIs, BagOfIs
<1>3. PICK cmds : cmds = <<k>> /\ DOMAIN cmds = {1} /\ cmds[1] = k
  <2>1. DOMAIN <<k>> = {1} /\ <<k>>[1] = k
    OBVIOUS
  <2> QED BY <2>1
<1>4. Agent!NewTask("host", k) = t
  BY <1>1 DEF Agent!NewTask
<1>5. {Agent!NewTask("host", cmds[n]) : n \in DOMAIN cmds} = {t}
  BY <1>3, <1>4
<1>6. \A u : Agent!Cardinality({n \in DOMAIN cmds :
                              Agent!NewTask("host", cmds[n]) = u})
                = IF u = t THEN 1 ELSE 0
  <2>1. \A u : {n \in DOMAIN cmds : Agent!NewTask("host", cmds[n]) = u}
                  = IF u = t THEN {1} ELSE {}
    BY <1>3, <1>4
  <2>2. Cardinality({1}) = 1 /\ Cardinality({}) = 0
    BY FS_Singleton, FS_EmptySet
  <2>3. \A S : Agent!Cardinality(S) = Cardinality(S)
    BY DEF Agent!Cardinality, Cardinality
  <2> QED BY <2>1, <2>2, <2>3
<1>7. PICK C : C = [u \in DOMAIN B \cup {t} |->
                       (IF u \in DOMAIN B THEN B[u] ELSE 0)
                         + (IF u = t THEN 1 ELSE 0)]
  OBVIOUS
<1>8. Agent!BagAdd(B, t) = C
  <2>1. CASE t \in DOMAIN B
    <3>1. Agent!BagAdd(B, t)
             = [e \in DOMAIN B |-> IF e = t THEN B[e] + 1 ELSE B[e]]
      BY <2>1 DEF Agent!BagAdd
    <3>2. DOMAIN B \cup {t} = DOMAIN B
      BY <2>1
    <3>3. \A e \in DOMAIN B : C[e] = IF e = t THEN B[e] + 1 ELSE B[e]
      BY <1>2, <1>7, <3>2
    <3> QED BY <1>7, <3>1, <3>2, <3>3
  <2>2. CASE t \notin DOMAIN B
    <3>1. Agent!BagAdd(B, t)
             = [e \in DOMAIN B \cup {t} |-> IF e = t THEN 1 ELSE B[e]]
      BY <2>2 DEF Agent!BagAdd
    <3>2. \A e \in DOMAIN B \cup {t} : C[e] = IF e = t THEN 1 ELSE B[e]
      BY <1>2, <1>7, <2>2
    <3> QED BY <1>7, <3>1, <3>2
  <2> QED BY <2>1, <2>2
<1>9. TaskBag' = [u \in DOMAIN TaskBag
                       \cup {Agent!NewTask("host", cmds[n]) : n \in DOMAIN cmds} |->
                     (IF u \in DOMAIN TaskBag THEN TaskBag[u] ELSE 0)
                       + Agent!Cardinality({n \in DOMAIN cmds :
                                         Agent!NewTask("host", cmds[n]) = u})]
  <2>1. PICK D : D = {Agent!NewTask("host", cmds[n]) : n \in DOMAIN cmds}
    OBVIOUS
  <2>2. [u \in DOMAIN B \cup D |->
           (IF u \in DOMAIN B THEN B[u] ELSE 0)
             + Agent!Cardinality({n \in DOMAIN cmds :
                                     Agent!NewTask("host", cmds[n]) = u})] = C
    <3>1. D = {t}
      BY <1>5, <2>1
    <3> QED BY <1>6, <1>7, <3>1
  <2>3. TaskBag' = C
    BY <1>1, <1>2, <1>8
  <2> QED BY <1>2, <2>1, <2>2, <2>3
<1>10. Agent!Receive("host", cmds)
  BY <1>9 DEF Agent!Receive, Agent!Running
<1>11. k \in Agent!Commands(RentalIds)
  BY <1>1 DEF Agent!Commands
<1> QED BY <1>3, <1>10, <1>11 DEF Agent!AgentNext

(* A workload that is gone has ended by itself.                            *)
LEMMA EndsAlone ==
    ASSUME up' = up, TaskBag' = TaskBag, NEW r \in RentalIds,
           Workloads' \in {Workloads, Workloads \ {r}}
    PROVE  [Agent!AgentNext]_(Agent!agentVars)
<1>1. CASE Workloads' = Workloads
  BY <1>1 DEF Agent!agentVars
<1>2. CASE r \in Workloads /\ Workloads' = Workloads \ {r}
  <2>1. Agent!WorkloadEnds("host", r)
    BY <1>2 DEF Agent!WorkloadEnds
  <2> QED BY <2>1 DEF Agent!AgentNext
<1> QED BY <1>1, <1>2

(* A call that returns is a task that finishes, whatever the outcome.      *)
LEMMA ReturnsAsTask ==
    ASSUME CallInv, IsFiniteSet(Active), NEW c \in Calls,
           Workloads = Known, Workloads' = Known',
           StartReturns(c) \/ StopReturns(c)
    PROVE  Agent!AgentNext
<1>1. PICK t, W : /\ t = TaskOf(c) /\ W = Workloads
                  /\ t.cmd = calls[c].cmd /\ t.rental = calls[c].rental
                  /\ t.outcome = calls[c].outcome /\ t.machine = "host"
  <2>1. /\ TaskOf(c).cmd = calls[c].cmd /\ TaskOf(c).rental = calls[c].rental
        /\ TaskOf(c).outcome = calls[c].outcome /\ TaskOf(c).machine = "host"
    BY DEF TaskOf
  <2> QED BY <2>1
<1>2. Working(c) /\ t.outcome = "pending" /\ t \in DOMAIN TaskBag
  BY <1>1, TasksOfCalls DEF StartReturns, StopReturns, Working, CallInv
<1>3. \A outcome : Return(c, outcome) =>
         /\ up' = up
         /\ TaskBag' = Agent!BagAdd(Agent!BagRemove(TaskBag, t),
                                    [t EXCEPT !.outcome = outcome])
  BY <1>1, <1>2, TasksOfCalls DEF Return
<1>4. \A X : Workloads' = X => [m \in {"host"} |-> Workloads]'
         = [[m \in {"host"} |-> Workloads] EXCEPT !["host"] = X]
  OBVIOUS
<1>5. CASE /\ t.cmd = "start_rental" /\ Return(c, "running")
           /\ Workloads' = W
  <2>1. Agent!LaunchDead(t)
    BY <1>1, <1>2, <1>3, <1>5 DEF Agent!LaunchDead, Agent!Finish
  <2> QED BY <1>2, <2>1 DEF Agent!AgentNext, Agent!Running
<1>6. CASE /\ t.cmd = "start_rental" /\ Return(c, "running")
           /\ Workloads' = W \cup {t.rental}
  <2>1. Agent!Launch(t)
    BY <1>1, <1>2, <1>3, <1>6 DEF Agent!Launch, Agent!Finish
  <2> QED BY <1>2, <2>1 DEF Agent!AgentNext, Agent!Running
<1>7. CASE /\ t.cmd = "start_rental" /\ Return(c, "failed")
           /\ Workloads' \in {W \cup {t.rental}, W \ {t.rental}}
  <2>1. PICK left \in {W \cup {t.rental}, W \ {t.rental}} : Workloads' = left
    BY <1>7
  <2>2. [m \in {"host"} |-> Workloads]'
           = [[m \in {"host"} |-> Workloads] EXCEPT !["host"] = left]
    BY <2>1
  <2>3. left \in {[m \in {"host"} |-> Workloads]["host"] \cup {t.rental},
                  [m \in {"host"} |-> Workloads]["host"] \ {t.rental}}
    BY <1>1
  <2>4. \E x \in {[m \in {"host"} |-> Workloads][t.machine] \cup {t.rental},
                 [m \in {"host"} |-> Workloads][t.machine] \ {t.rental}} :
           [m \in {"host"} |-> Workloads]'
              = [[m \in {"host"} |-> Workloads] EXCEPT ![t.machine] = x]
    BY <1>1, <2>2, <2>3
  <2>5. UNCHANGED (IF up THEN {"host"} ELSE {}) /\ Agent!Finish(t, "failed")
    BY <1>3, <1>7 DEF Agent!Finish
  <2>6. Agent!LaunchFails(t)
    BY <1>2, <1>7, <2>4, <2>5 DEF Agent!LaunchFails
  <2> QED BY <1>2, <2>6 DEF Agent!AgentNext, Agent!Running
<1>8. CASE /\ t.cmd = "stop_rental" /\ Return(c, "stopped")
           /\ Workloads' = W \ {t.rental}
  <2>1. Agent!Halt(t)
    BY <1>1, <1>2, <1>3, <1>8 DEF Agent!Halt, Agent!Finish
  <2> QED BY <1>2, <2>1 DEF Agent!AgentNext, Agent!Running
<1>9. CASE /\ t.cmd = "stop_rental" /\ Return(c, "failed")
           /\ Workloads' \in {W, W \ {t.rental}}
  <2>1. PICK gone \in {{}, {t.rental}} : Workloads' = W \ gone
    BY <1>9
  <2>2. [m \in {"host"} |-> Workloads]'
           = [[m \in {"host"} |-> Workloads] EXCEPT !["host"] = @ \ gone]
    BY <1>1, <2>1
  <2>3. \E x \in {{}, {t.rental}} :
           [m \in {"host"} |-> Workloads]'
              = [[m \in {"host"} |-> Workloads] EXCEPT
                    ![t.machine] = [m \in {"host"} |-> Workloads][t.machine]
                                      \ x]
    BY <1>1, <2>2
  <2>4. UNCHANGED (IF up THEN {"host"} ELSE {}) /\ Agent!Finish(t, "failed")
    BY <1>3, <1>9 DEF Agent!Finish
  <2>5. Agent!HaltFails(t)
    BY <1>2, <1>9, <2>3, <2>4 DEF Agent!HaltFails
  <2> QED BY <1>2, <2>5 DEF Agent!AgentNext, Agent!Running
<1> QED BY <1>1, <1>5, <1>6, <1>7, <1>8, <1>9
        DEF StartReturns, StopReturns, Rental

(* Every step of the host is a step of that agent, or changes nothing it   *)
(* sees.                                                                   *)
LEMMA AgentSteps ==
    ASSUME TypeInv, IsFiniteSet(Active), HostAct,
           Workloads = Known, Workloads' = Known'
    PROVE  IsFiniteSet(Active') /\ [Agent!AgentNext]_(Agent!agentVars)
<1>0. CallInv /\ PortInv /\ up \in BOOLEAN
  BY DEF TypeInv
<1>1. ASSUME NEW c \in Calls, CallAct(c)
      PROVE  IsFiniteSet(Active') /\ [Agent!AgentNext]_(Agent!agentVars)
  <2>1. up' = up
    BY <1>0, <1>1, CallActKeeps
  <2>2. CASE Receives(c) /\ Workloads' = Workloads
    <3>1. PICK cmd \in {"start_rental", "stop_rental"}, r \in RentalIds,
               step \in {"pull", "pick", "stop", "take"} :
                  Dispatch(c, cmd, r, step)
      BY <2>2 DEF Receives
    <3>2. up
      BY <3>1 DEF Dispatch
    <3> QED BY <1>0, <2>1, <2>2, <3>1, <3>2, TasksOfCalls, ReceivesOne
  <2>3. CASE Goes(c) /\ Workloads' \in {Workloads, Workloads \ {Rental(c)}}
    <3>1. Rental(c) \in RentalIds
      BY <1>0, <2>3 DEF Goes, CallInv, CallRow, Unused, StartSteps, StopSteps,
         Rental
    <3>2. PICK r \in RentalIds : r = Rental(c)
      BY <3>1
    <3> QED BY <1>0, <2>1, <2>3, <3>2, TasksOfCalls, EndsAlone
  <2>4. CASE StartReturns(c) \/ StopReturns(c)
    <3>1. Working(c) /\ \E outcome : Return(c, outcome)
      BY <2>4 DEF StartReturns, StopReturns
    <3> QED BY <1>0, <2>4, <3>1, TasksOfCalls, ReturnsAsTask
  <2>5. CASE ReportSent(c) /\ Workloads' = Workloads
    <3>1. PICK t : t = TaskOf(c) /\ t.outcome = calls[c].outcome
      <4>1. TaskOf(c).outcome = calls[c].outcome
        BY DEF TaskOf
      <4> QED BY <4>1
    <3>2. /\ IsFiniteSet(Active') /\ t \in DOMAIN TaskBag
          /\ TaskBag' = Agent!BagRemove(TaskBag, t)
      BY <1>0, <2>5, <3>1, TasksOfCalls
    <3>3. t.outcome # "pending"
      BY <1>0, <2>5, <3>1 DEF ReportSent, At, CallInv, Unused
    <3>4. Agent!SendReport(t)
      BY <2>1, <2>5, <3>2, <3>3 DEF Agent!SendReport
    <3> QED BY <3>2, <3>4 DEF Agent!AgentNext, Agent!Running
  <2> QED BY <1>1, <2>2, <2>3, <2>4, <2>5 DEF CallAct
<1>2. ASSUME calls' = calls
      PROVE  Active' = Active /\ TaskBag' = TaskBag
  BY <1>2 DEF Active, TaskBag, TaskOf
<1>3. ASSUME calls' = calls, up' = up, NEW r \in RentalIds,
             Workloads' \in {Workloads, Workloads \ {r}}
      PROVE  IsFiniteSet(Active') /\ [Agent!AgentNext]_(Agent!agentVars)
  BY <1>2, <1>3, EndsAlone
<1>4. ASSUME up, up' = FALSE, calls' = [c \in Calls |-> Unused],
             Workloads' \in {Workloads, {}}
      PROVE  IsFiniteSet(Active') /\ [Agent!AgentNext]_(Agent!agentVars)
  <2>1. Active' = {} /\ IsFiniteSet(Active')
    BY <1>4, FS_EmptySet DEF Active
  <2>2. TaskBag' = [u \in {} |-> 0]
    BY <2>1 DEF TaskBag
  <2>3. \A u \in DOMAIN TaskBag : u.machine = "host"
    BY TaskBagIs DEF TaskBag, TaskOf
  <2>4. TaskBag' = [u \in {v \in DOMAIN TaskBag : v.machine # "host"} |->
                       TaskBag[u]]
    BY <2>2, <2>3
  <2>5. \E left \in {[m \in {"host"} |-> Workloads]["host"], {}} :
           [m \in {"host"} |-> Workloads]'
              = [[m \in {"host"} |-> Workloads] EXCEPT !["host"] = left]
    <3>1. PICK left \in {Workloads, {}} : Workloads' = left
      BY <1>4
    <3>2. [m \in {"host"} |-> Workloads]'
             = [[m \in {"host"} |-> Workloads] EXCEPT !["host"] = left]
      BY <3>1
    <3> QED BY <3>1, <3>2
  <2>6. Agent!Exit("host")
    BY <1>4, <2>4, <2>5 DEF Agent!Exit, Agent!Running
  <2> QED BY <2>1, <2>6 DEF Agent!AgentNext
<1>5. ASSUME up' \in BOOLEAN, up => up', calls' = calls, Workloads' = Workloads
      PROVE  IsFiniteSet(Active') /\ [Agent!AgentNext]_(Agent!agentVars)
  <2>1. CASE up' = up
    BY <1>2, <1>5, <2>1 DEF Agent!agentVars
  <2>2. CASE ~up /\ up'
    <3>1. Agent!Boot("host")
      BY <1>2, <1>5, <2>2 DEF Agent!Boot
    <3> QED BY <1>2, <1>5, <3>1 DEF Agent!AgentNext
  <2> QED BY <1>0, <1>5, <2>1, <2>2
<1> QED BY <1>1, <1>3, <1>4, <1>5 DEF HostAct, DockerAct

(* Both runtimes implement the agent of the marketplace, if the workers end*)
(* with the agent: every workload begins in the step in which its start    *)
(* returns, a stop that reports `stopped` leaves none of its rental, the   *)
(* end of the agent leaves all or none, and a call sends one report.       *)
THEOREM HostIsAgent ==
    ASSUME NoOrphans PROVE HostSpec => ImplementsHostAgent
<1> DEFINE Inv == HostInv /\ TypeInv /\ IsFiniteSet(Active)
<1>1. HostInit => Inv /\ Agent!AgentInit
  <2> SUFFICES ASSUME HostInit PROVE Inv /\ Agent!AgentInit
    OBVIOUS
  <2>1. TypeInv /\ HostInv
    BY TypeInvInit, HostInitOK
  <2>2. up = FALSE /\ calls = [c \in Calls |-> Unused]
    BY PlatformAssumption DEF HostInit, CallInit, Docker!DockerInit,
       Docker!CallInit, Metal!MetalInit, Docker!Unused, Unused
  <2>3. Active = {} /\ IsFiniteSet(Active)
    BY <2>2, FS_EmptySet DEF Active
  <2>4. TaskBag = Agent!NoTasks
    BY <2>3 DEF TaskBag, Agent!NoTasks
  <2>5. Workloads \subseteq RentalIds
    <3>1. Known \subseteq RentalIds
      BY <2>1 DEF TypeInv, DockerTyped, MetalTyped, Known, Docker!Listed,
         Metal!RunningJobs
    <3> QED BY <2>1, <3>1, KnownIsAll
  <2> QED BY <2>1, <2>2, <2>3, <2>4, <2>5 DEF Agent!AgentInit
<1>2. Inv /\ [HostNext]_hostVars
         => Inv' /\ [Agent!AgentNext]_(Agent!agentVars)
  <2> SUFFICES ASSUME Inv, [HostNext]_hostVars
               PROVE  Inv' /\ [Agent!AgentNext]_(Agent!agentVars)
    OBVIOUS
  <2>1. HostInv' /\ TypeInv' /\ HostAct
    BY HostNextKeeps, TypeInvStep, HostActs
  <2>2. Workloads = Known /\ Workloads' = Known'
    BY <2>1, KnownIsAll, KnownStaysAll
  <2> QED BY <2>1, <2>2, AgentSteps
<1>3. ImplementsHostAgent
         <=> Agent!AgentInit /\ [][Agent!AgentNext]_(Agent!agentVars)
  BY DEF ImplementsHostAgent, Agent!AgentSpec
<1> HIDE DEF Inv
<1> QED BY <1>1, <1>2, <1>3, PTL DEF HostSpec
=============================================================================
