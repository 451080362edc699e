--------------------------- MODULE WriteLockProofs ---------------------------
(***************************************************************************)
(* Theorems of WriteLock, for every pool and every number of requests.  All*)
(* rest on one inductive invariant: an open transaction belongs to the     *)
(* handler in its body, or was leaked, and a connection has one user.      *)
(***************************************************************************)
EXTENDS WriteLock, TLAPS

(* OnlyDropsLeak, with the transactions that are in use.                   *)
OpenIsAccounted ==
    \A k \in open : k \in leaked \/ \E q \in Requests : at[q] = "body" /\ held[q] = k

LockInv == LockTypeOK /\ WritersAreAlone /\ OpenIsAccounted

(* A handler that leaves holds nothing, and the others keep what they have.*)
LEMMA Leaving ==
    ASSUME LockTypeOK, NEW q \in Requests, NEW step \in Steps,
           step \notin {"reading", "writing", "body"}, Leave(q, step)
    PROVE  /\ at' \in [Requests -> Steps]
           /\ held' \in [Requests -> Conns \cup {NoConn}]
           /\ at'[q] = step /\ held'[q] = NoConn
           /\ \A p \in Requests \ {q} : at'[p] = at[p] /\ held'[p] = held[p]
           /\ \A p \in Requests : Holding(p)' <=> held'[p] # NoConn
           /\ \A p, r \in Requests : held'[p] = held'[r] /\ p # r => held'[r] = NoConn
BY ConnAssumption DEF Leave, LockTypeOK, Holding

(* The steps by which a handler goes on without a connection.              *)
LEMMA LeavingKeeps ==
    ASSUME LockInv, NEW q \in Requests, NEW step \in Steps,
           step \notin {"reading", "writing", "body"}, Leave(q, step),
           \/ at[q] # "body" /\ UNCHANGED <<open, leaked>>
           \/ open' = open \ {held[q]} /\ UNCHANGED leaked
           \/ /\ leaked' = leaked \cup {held[q]}
              /\ held[q] # NoConn
              /\ \/ UNCHANGED open
                 \/ open = {} /\ open' = {held[q]},
           durable' \subseteq Requests
    PROVE  LockInv'
<1>0. LockTypeOK /\ WritersAreAlone /\ OpenIsAccounted
  BY DEF LockInv
<1>1. open' \subseteq Conns /\ leaked' \subseteq Conns
  BY <1>0 DEF LockTypeOK
<1>2. LockTypeOK'
  BY <1>0, <1>1, Leaving DEF LockTypeOK
<1>3. WritersAreAlone'
  <2> SUFFICES ASSUME NEW p \in Requests, at'[p] = "body"
               PROVE  open' = {held'[p]}
    BY DEF WritersAreAlone
  <2>1. p # q /\ at[p] = "body" /\ held'[p] = held[p]
    BY <1>0, Leaving
  <2>2. open = {held[p]} /\ held[p] # NoConn /\ held[q] # held[p]
    BY <1>0, <2>1 DEF WritersAreAlone, LockTypeOK, Holding
  <2> QED BY <2>1, <2>2
<1>4. OpenIsAccounted'
  BY <1>0, Leaving DEF OpenIsAccounted
<1> QED BY <1>2, <1>3, <1>4 DEF LockInv

(* Each step keeps the invariant.                                          *)
LEMMA LockStep == LockInv /\ [LockNext]_lockVars => LockInv'
<1> SUFFICES ASSUME LockInv, [LockNext]_lockVars PROVE LockInv'
  OBVIOUS
<1>0. /\ LockTypeOK
      /\ WritersAreAlone
      /\ OpenIsAccounted
      /\ {"new", "read", "ok", "error", "gone"} \subseteq Steps
  BY DEF LockInv, Steps
<1>1. CASE UNCHANGED lockVars
  BY <1>1 DEF lockVars, LockInv, LockTypeOK, WritersAreAlone, OpenIsAccounted,
     Holding
<1>2. ASSUME NEW q \in Requests, Acquire(q) PROVE LockInv'
  <2>1. PICK k \in Idle : held' = [held EXCEPT ![q] = k]
    BY <1>2 DEF Acquire
  <2>2. /\ at' = [at EXCEPT ![q] = IF at[q] = "new" THEN "reading"
                                                    ELSE "writing"]
        /\ UNCHANGED <<open, durable, leaked>>
        /\ at[q] \in {"new", "read"}
    BY <1>2 DEF Acquire
  <2>3. k \in Conns /\ k # NoConn /\ \A p \in Requests : held[p] # k
    BY ConnAssumption DEF Idle
  <2>4. LockTypeOK'
    BY <1>0, <2>1, <2>2, <2>3 DEF LockTypeOK, Holding, Steps
  <2>5. WritersAreAlone' /\ OpenIsAccounted'
    BY <1>0, <2>1, <2>2, <2>3 DEF LockTypeOK, WritersAreAlone, OpenIsAccounted
  <2> QED BY <2>4, <2>5 DEF LockInv
<1>3. ASSUME NEW q \in Requests, Begin(q) PROVE LockInv'
  <2>1. /\ at[q] = "writing" /\ held[q] \in Conns
        /\ open = {} /\ open' = {held[q]}
        /\ at' = [at EXCEPT ![q] = "body"]
        /\ UNCHANGED <<held, durable, leaked>>
    BY <1>0, <1>3 DEF Begin, LockTypeOK, Holding
  <2>2. LockTypeOK'
    BY <1>0, <2>1 DEF LockTypeOK, Holding, Steps
  <2>3. \A p \in Requests \ {q} : at'[p] # "body"
    BY <1>0, <2>1 DEF WritersAreAlone, LockTypeOK
  <2>4. WritersAreAlone' /\ OpenIsAccounted'
    BY <1>0, <2>1, <2>3 DEF WritersAreAlone, OpenIsAccounted, LockTypeOK
  <2> QED BY <2>2, <2>4 DEF LockInv
<1>4. ASSUME NEW q \in Requests,
             \/ AcquireTimesOut(q) \/ ReadRow(q) \/ ReadFails(q)
             \/ BeginNested(q) \/ Busy(q) \/ WriteSwallowed(q)
      PROVE  LockInv'
  BY <1>0, <1>4, LeavingKeeps DEF AcquireTimesOut, ReadRow, ReadFails,
     BeginNested, Busy, WriteSwallowed, LockTypeOK
<1>5. ASSUME NEW q \in Requests, WriteAlone(q) PROVE LockInv'
  BY <1>0, <1>5, LeavingKeeps DEF WriteAlone, LockTypeOK
<1>6. ASSUME NEW q \in Requests, Commit(q) PROVE LockInv'
  BY <1>0, <1>6, LeavingKeeps DEF Commit, LockTypeOK
<1>7. ASSUME NEW q \in Requests, Rollback(q) PROVE LockInv'
  BY <1>0, <1>7, LeavingKeeps DEF Rollback, LockTypeOK
<1>8. ASSUME NEW q \in Requests, CommitFails(q) PROVE LockInv'
  BY <1>0, <1>8, LeavingKeeps DEF CommitFails, LockTypeOK, Holding
<1>9. ASSUME NEW q \in Requests, DropHandler(q) PROVE LockInv'
  <2>1. at[q] \in {"writing", "body"} => held[q] # NoConn
    BY <1>0 DEF LockTypeOK, Holding
  <2> QED BY <1>0, <1>9, <2>1, LeavingKeeps DEF DropHandler, LockTypeOK
<1>10. ASSUME NEW k \in Conns, Reap(k) PROVE LockInv'
  <2>1. /\ \A q \in Requests : held[q] # k
        /\ k \in open
        /\ open' = open \ {k}
        /\ leaked' = leaked \ {k}
        /\ UNCHANGED <<at, held, durable>>
    BY <1>10 DEF Reap, Idle
  <2>2. LockTypeOK'
    BY <1>0, <2>1 DEF LockTypeOK, Holding
  <2>3. WritersAreAlone' /\ OpenIsAccounted'
    BY <1>0, <2>1 DEF WritersAreAlone, OpenIsAccounted
  <2> QED BY <2>2, <2>3 DEF LockInv
<1> QED
  BY <1>1, <1>2, <1>3, <1>4, <1>5, <1>6, <1>7, <1>8, <1>9, <1>10
  DEF LockNext, RequestStep

(* LockInv holds throughout.                                               *)
LEMMA LockAlways == LockSpec => []LockInv
<1>1. LockInit => LockInv
  BY DEF LockInit, LockInv, LockTypeOK, WritersAreAlone, OpenIsAccounted,
     Holding, Steps
<1> QED BY <1>1, LockStep, PTL DEF LockSpec

(* A connection is used by one handler at a time.                          *)
THEOREM LockTypeCorrect == LockSpec => []LockTypeOK
<1>1. LockInv => LockTypeOK
  BY DEF LockInv
<1> QED BY <1>1, LockAlways, PTL

(* Whatever was dropped or left open before, a handler inside BEGIN        *)
(* IMMEDIATE is the only one in a transaction.                             *)
THEOREM WriterIsAlone == LockSpec => []WritersAreAlone
<1>1. LockInv => WritersAreAlone
  BY DEF LockInv
<1> QED BY <1>1, LockAlways, PTL

(* Only a dropped handler or a failed COMMIT gives back a connection with  *)
(* an open transaction: no error path of a handler does.                   *)
THEOREM LeaksAreDrops == LockSpec => []OnlyDropsLeak
<1>1. LockInv => OnlyDropsLeak
  BY DEF LockInv, OpenIsAccounted, OnlyDropsLeak, Idle
<1> QED BY <1>1, LockAlways, PTL

(* What is answered `ok` is durable, but for a single statement swallowed  *)
(* by a leaked transaction.                                                *)
THEOREM AnswersAreDurable == LockSpec => AnsweredIsDurable
<1> DEFINE Durable == \A q \in Requests :
              at[q] # "ok" /\ at'[q] = "ok" =>
                  \/ q \in durable'
                  \/ q \in AutoRequests /\ held[q] \in leaked
<1>1. LockInv /\ [LockNext]_lockVars => [Durable]_lockVars
  <2> SUFFICES ASSUME LockInv, LockNext, NEW q \in Requests,
                      at[q] # "ok", at'[q] = "ok"
               PROVE  \/ q \in durable'
                      \/ q \in AutoRequests /\ held[q] \in leaked
    OBVIOUS
  <2>0. at \in [Requests -> Steps] /\ LockTypeOK /\ OpenIsAccounted
    BY DEF LockInv, LockTypeOK
  <2>1. ASSUME NEW p \in Requests, NEW step, step # "ok", at' = [at EXCEPT ![p] = step]
        PROVE  FALSE
    BY <2>0, <2>1
  <2>2. ASSUME NEW p \in Requests,
               \/ Acquire(p) \/ AcquireTimesOut(p) \/ ReadRow(p) \/ ReadFails(p)
               \/ Begin(p) \/ BeginNested(p) \/ Busy(p)
               \/ Rollback(p) \/ CommitFails(p) \/ DropHandler(p)
        PROVE  FALSE
    BY <2>1, <2>2 DEF Acquire, AcquireTimesOut, ReadRow, ReadFails, Begin,
       BeginNested, Busy, Rollback, CommitFails, DropHandler, Leave
  <2>3. ASSUME NEW p \in Requests, WriteAlone(p) \/ Commit(p)
        PROVE  q \in durable'
    BY <2>0, <2>3 DEF WriteAlone, Commit, Leave
  <2>4. ASSUME NEW p \in Requests, WriteSwallowed(p)
        PROVE  q \in AutoRequests /\ held[q] \in leaked
    <3>1. p = q
      BY <2>0, <2>4 DEF WriteSwallowed, Leave
    <3>2. \A r \in Requests : held[r] = held[q] => r = q \/ held[q] = NoConn
      BY <2>0 DEF LockTypeOK
    <3> QED BY <2>0, <2>4, <3>1, <3>2, ConnAssumption
            DEF WriteSwallowed, OpenIsAccounted, LockTypeOK
  <2>5. ASSUME NEW k \in Conns, Reap(k) PROVE FALSE
    BY <2>5 DEF Reap
  <2> QED BY <2>2, <2>3, <2>4, <2>5 DEF LockNext, RequestStep
<1> QED BY <1>1, LockAlways, PTL DEF LockSpec, AnsweredIsDurable
=============================================================================
