------------------------------ MODULE WriteLock ------------------------------
(***************************************************************************)
(* How the handlers share SQLite: a pool of a few connections, and one     *)
(* write lock, taken by a raw BEGIN IMMEDIATE and given up by a COMMIT or  *)
(* ROLLBACK that the handler has to reach.  ControlPlane takes this for    *)
(* granted: there a transaction is one step.                               *)
(*                                                                         *)
(* A request first reads through the pool (authenticate, or the row it is  *)
(* about), then writes: "txn" requests through begin_immediate, "auto"     *)
(* requests (register, rate, deposit, create_account) with one statement   *)
(* on the pool.                                                            *)
(***************************************************************************)
CONSTANTS
    Conns,      \* the connections of the pool
    TxnRequests, AutoRequests,
    NoConn

ASSUME ConnAssumption == NoConn \notin Conns
ASSUME KindAssumption == TxnRequests \cap AutoRequests = {}

Requests == TxnRequests \cup AutoRequests

VARIABLES
    at,       \* per request, where its handler stands
    held,     \* per request, the connection its handler holds
    open,     \* the connections with an open write transaction
    durable,  \* the requests whose write is committed
    leaked    \* history: the connections given back in mid-transaction

lockVars == <<at, held, open, durable, leaked>>

Idle == {k \in Conns : \A q \in Requests : held[q] # k}

LockInit ==
    /\ at = [q \in Requests |-> "new"]
    /\ held = [q \in Requests |-> NoConn]
    /\ open = {}
    /\ durable = {}
    /\ leaked = {}

(* The handler goes on, or answers, without its connection.                *)
Leave(q, step) ==
    /\ at' = [at EXCEPT ![q] = step]
    /\ held' = [held EXCEPT ![q] = NoConn]

(* Mutation of Acquire: a connection is lent while another handler uses it.*)
AcquireShared(q) ==
    /\ at[q] \in {"new", "read"}
    /\ \E k \in Conns : held' = [held EXCEPT ![q] = k]
    /\ at' = [at EXCEPT ![q] = IF at[q] = "new" THEN "reading" ELSE "writing"]
    /\ UNCHANGED <<open, durable, leaked>>

(* Pool::acquire: for the first read, and again for the write.             *)
Acquire(q) ==
    /\ at[q] \in {"new", "read"}
    /\ \E k \in Idle : held' = [held EXCEPT ![q] = k]
    /\ at' = [at EXCEPT ![q] = IF at[q] = "new" THEN "reading" ELSE "writing"]
    /\ UNCHANGED <<open, durable, leaked>>

(* acquire_timeout: nobody returned a connection in time.                  *)
AcquireTimesOut(q) ==
    /\ at[q] \in {"new", "read"}
    /\ Idle = {}
    /\ Leave(q, "error")
    /\ UNCHANGED <<open, durable, leaked>>

(* The row is read, and the connection given back.  A read takes no write  *)
(* lock, inside a transaction that was left open neither.                  *)
ReadRow(q) ==
    /\ at[q] = "reading"
    /\ Leave(q, "read")
    /\ UNCHANGED <<open, durable, leaked>>

(* The `?` of the read: it fails, or there is no such row.                 *)
ReadFails(q) ==
    /\ at[q] = "reading"
    /\ Leave(q, "error")
    /\ UNCHANGED <<open, durable, leaked>>

(* Mutation of Begin: a deferred BEGIN takes no lock.                      *)
BeginDeferred(q) ==
    /\ q \in TxnRequests /\ at[q] = "writing"
    /\ open' = open \cup {held[q]}
    /\ at' = [at EXCEPT ![q] = "body"]
    /\ UNCHANGED <<held, durable, leaked>>

(* begin_immediate, when nobody has the write lock.                        *)
Begin(q) ==
    /\ q \in TxnRequests /\ at[q] = "writing"
    /\ open = {}
    /\ open' = {held[q]}
    /\ at' = [at EXCEPT ![q] = "body"]
    /\ UNCHANGED <<held, durable, leaked>>

(* busy_timeout: another connection kept the lock for five seconds.        *)
Busy(q) ==
    /\ at[q] = "writing"
    /\ open \ {held[q]} # {}
    /\ Leave(q, "error")
    /\ UNCHANGED <<open, durable, leaked>>

(* Mutation of BeginNested: the handler tries again.                       *)
BeginNestedAgain(q) ==
    /\ q \in TxnRequests /\ at[q] = "writing"
    /\ held[q] \in open
    /\ UNCHANGED lockVars

(* BEGIN IMMEDIATE on a connection whose last user left its transaction    *)
(* open: "cannot start a transaction within a transaction".                *)
BeginNested(q) ==
    /\ q \in TxnRequests /\ at[q] = "writing"
    /\ held[q] \in open
    /\ Leave(q, "error")
    /\ UNCHANGED <<open, durable, leaked>>

(* The statements of the transaction, and COMMIT.                          *)
Commit(q) ==
    /\ at[q] = "body"
    /\ open' = open \ {held[q]}
    /\ durable' = durable \cup {q}
    /\ Leave(q, "ok")
    /\ UNCHANGED leaked

(* Mutation of Rollback: the error path of the handler forgets it.         *)
RollbackForgotten(q) ==
    /\ at[q] = "body"
    /\ Leave(q, "error")
    /\ UNCHANGED <<open, durable, leaked>>

(* A statement of the transaction fails, and it is rolled back.            *)
Rollback(q) ==
    /\ at[q] = "body"
    /\ open' = open \ {held[q]}
    /\ Leave(q, "error")
    /\ UNCHANGED <<durable, leaked>>

(* COMMIT itself fails, another connection reading or the disk being full: *)
(* the `?` returns with the transaction open.                              *)
CommitFails(q) ==
    /\ at[q] = "body"
    /\ leaked' = leaked \cup {held[q]}
    /\ Leave(q, "error")
    /\ UNCHANGED <<open, durable>>

(* Mutation of WriteAlone: the write is acknowledged before it is made.    *)
WriteLater(q) ==
    /\ q \in AutoRequests /\ at[q] = "writing"
    /\ open = {}
    /\ Leave(q, "ok")
    /\ UNCHANGED <<open, durable, leaked>>

(* A statement outside any transaction commits by itself.                  *)
WriteAlone(q) ==
    /\ q \in AutoRequests /\ at[q] = "writing"
    /\ open = {}
    /\ durable' = durable \cup {q}
    /\ Leave(q, "ok")
    /\ UNCHANGED <<open, leaked>>

(* The same statement on a connection with an open transaction joins it:   *)
(* it is answered, and nobody will ever commit it.                         *)
WriteSwallowed(q) ==
    /\ q \in AutoRequests /\ at[q] = "writing"
    /\ held[q] \in open
    /\ Leave(q, "ok")
    /\ UNCHANGED <<open, durable, leaked>>

(* The client hangs up and the handler is dropped.  A BEGIN it was waiting *)
(* for may still be executed.                                              *)
DropHandler(q) ==
    /\ at[q] \notin {"ok", "error", "gone"}
    /\ \/ /\ at[q] = "body"
          /\ leaked' = leaked \cup {held[q]}
          /\ UNCHANGED open
       \/ /\ q \in TxnRequests /\ at[q] = "writing" /\ open = {}
          /\ open' = {held[q]}
          /\ leaked' = leaked \cup {held[q]}
       \/ /\ at[q] # "body"
          /\ UNCHANGED <<open, leaked>>
    /\ Leave(q, "gone")
    /\ UNCHANGED durable

(* Mutation of Reap: only a connection without a transaction is closed.    *)
ReapClean(k) ==
    /\ k \in Idle \ open
    /\ UNCHANGED lockVars

(* max_lifetime: the pool closes an idle connection, and SQLite rolls its  *)
(* transaction back.                                                       *)
Reap(k) ==
    /\ k \in Idle \cap open
    /\ open' = open \ {k}
    /\ leaked' = leaked \ {k}
    /\ UNCHANGED <<at, held, durable>>

RequestStep(q) ==
    \/ Acquire(q) \/ AcquireTimesOut(q)
    \/ ReadRow(q) \/ ReadFails(q)
    \/ Begin(q) \/ BeginNested(q) \/ Busy(q)
    \/ WriteAlone(q) \/ WriteSwallowed(q)
    \/ Commit(q) \/ Rollback(q)

LockNext ==
    \/ \E q \in Requests : RequestStep(q) \/ CommitFails(q) \/ DropHandler(q)
    \/ \E k \in Conns : Reap(k)

LockSpec == LockInit /\ [][LockNext]_lockVars

(* The runtime drives every handler, and the two timers and the lifetime   *)
(* of a connection do run out.                                             *)
FairLockSpec ==
    /\ LockSpec
    /\ \A q \in Requests : WF_lockVars(RequestStep(q))
    /\ \A k \in Conns : WF_lockVars(Reap(k))

-----------------------------------------------------------------------------
Steps == {"new", "reading", "read", "writing", "body", "ok", "error", "gone"}
Holding(q) == at[q] \in {"reading", "writing", "body"}

(* Type invariant; a handler holds a connection of its own or none.        *)
LockTypeOK ==
    /\ at \in [Requests -> Steps]
    /\ held \in [Requests -> Conns \cup {NoConn}]
    /\ \A q \in Requests : Holding(q) <=> held[q] # NoConn
    /\ \A p, q \in Requests : held[p] = held[q] /\ p # q => held[q] = NoConn
    /\ open \subseteq Conns
    /\ durable \subseteq Requests
    /\ leaked \subseteq Conns

(* db.rs:39-42: between BEGIN IMMEDIATE and COMMIT a handler is the only   *)
(* one in a write transaction, also next to transactions that were left    *)
(* open, so what it has checked stays true until it commits.               *)
WritersAreAlone == \A q \in Requests : at[q] = "body" => open = {held[q]}

(* What is answered `ok` is durable, whatever was dropped or left open     *)
(* around it, except a single statement on a connection that was given     *)
(* back in mid-transaction.                                                *)
AnsweredIsDurable ==
    [][\A q \in Requests :
          at[q] # "ok" /\ at'[q] = "ok" =>
              \/ q \in durable'
              \/ q \in AutoRequests /\ held[q] \in leaked]_lockVars

(* db.rs:41-42: a connection of the pool has an open transaction only if   *)
(* a handler was dropped inside it or its COMMIT failed.                   *)
OnlyDropsLeak == \A k \in Idle \cap open : k \in leaked

(* Every request is answered or its client has gone, whatever the others   *)
(* leave behind: nobody waits for the pool or the lock for ever.           *)
EveryRequestEnds ==
    \A q \in Requests : <>(at[q] \in {"ok", "error", "gone"})

(* A transaction that was left open is rolled back in the end, so that     *)
(* writers are served again.                                               *)
LockIsFreed == \A k \in Conns : k \in open ~> k \notin open
=============================================================================
