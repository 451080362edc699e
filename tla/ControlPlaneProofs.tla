-------------------------- MODULE ControlPlaneProofs --------------------------
(***************************************************************************)
(* Theorems of ControlPlane, for every set of machines, accounts, rentals, *)
(* invoices, prices and failures, and for every bound.                     *)
(*                                                                         *)
(*   1. TypeCorrect              the type invariant                        *)
(*   2. OneLive                  one live rental per machine               *)
(*   3. NobodyRidesFree          every ended rental was charged            *)
(*   4. BalancesReconcile        each balance is its ledger rows' sum      *)
(*   5. CondemnedStaysOverBudget the ticker evicts on facts that still hold*)
(*   6. OffersAreFree            no machine on offer is held               *)
(*   7. LeasesAreExclusive       the refinement of MachineLease            *)
(*                                                                         *)
(* 2 to 7 build on 1, and reason by writer: a lemma says which actions     *)
(* write a table, another what each of them does to its rows.              *)
(***************************************************************************)
EXTENDS ControlPlane, TLAPS

-----------------------------------------------------------------------------
(* The type invariant.                                                     *)

(* A charge at a price that is not negative is a natural number of sats.   *)
LEMMA AccruedIsNat ==
    ASSUME NEW start \in Nat, NEW end \in Nat, NEW rate \in Nat
    PROVE  AccruedCharge(start, end, rate) \in Nat
<1>1. CASE end > start
  <2>1. (end - start) \in Nat BY <1>1, SMT
  <2>2. (end - start) * rate \in Nat BY <2>1, SMT
  <2>3. \A x \in Nat : Truncated(x, 60) \in Nat BY SMT DEF Truncated
  <2> QED BY <1>1, <2>2, <2>3 DEF AccruedCharge
<1>2. CASE ~(end > start) BY <1>2 DEF AccruedCharge
<1> QED BY <1>1, <1>2

(* At any price it is an integer.                                          *)
LEMMA AccruedIsInt ==
    ASSUME NEW start \in Nat, NEW end \in Nat, NEW rate \in Int
    PROVE  AccruedCharge(start, end, rate) \in Int
<1>1. (end - start) * rate \in Int BY SMT
<1>2. \A x \in Int : Truncated(x, 60) \in Int BY SMT DEF Truncated
<1> QED BY <1>1, <1>2 DEF AccruedCharge

(* What `report` charges is an integer; what it moves is a natural number  *)
(* the account can pay.                                                    *)
LEMMA ChargeIsCapped ==
    ASSUME TypeOK, NEW r \in DOMAIN rentals, NEW at \in Nat
    PROVE  /\ Charge(rentals[r], at) \in Int
           /\ Moved(Charge(rentals[r], at)) \in Nat
           /\ Moved(Charge(rentals[r], at)) <= balance[rentals[r].account]
<1>1. rentals[r] \in RentalRow /\ rentals[r].account \in DOMAIN balance
  BY DEF TypeOK, References
<1>2. balance[rentals[r].account] \in Nat
  BY <1>1 DEF TypeOK
<1>3. AccruedCharge(rentals[r].createdAt, at, rentals[r].rate) \in Int
  BY <1>1, AccruedIsInt DEF RentalRow
<1> QED BY <1>2, <1>3 DEF Charge, Lesser, Moved

(* A slot that holds a report holds all its columns, and its rental        *)
(* exists.                                                                 *)
LEMMA ReportInFlight ==
    ASSUME TypeOK, NEW s \in Slots, requests[s].op = "report"
    PROVE  requests[s] \in Report /\ requests[s].rental \in DOMAIN rentals
<1>1. requests[s] \in Request /\ requests[s].rental \in DOMAIN rentals
  BY DEF TypeOK, References
<1> QED BY <1>1 DEF Request, Report, Payout, Delete, Idle

(* A slot that holds a delete names an existing rental.                    *)
LEMMA DeleteInFlight ==
    ASSUME TypeOK, NEW s \in Slots, requests[s].op = "delete"
    PROVE  requests[s] \in Delete /\ requests[s].rental \in DOMAIN rentals
<1>1. requests[s] \in Request /\ requests[s].rental \in DOMAIN rentals
  BY DEF TypeOK, References
<1> QED BY <1>1 DEF Request, Report, Payout, Delete, Idle

(* A slot that holds a payout names an existing machine and an amount.     *)
LEMMA PayoutInFlight ==
    ASSUME TypeOK, NEW s \in Slots, requests[s].op = "payout"
    PROVE  requests[s] \in Payout /\ requests[s].machine \in DOMAIN machines
<1>1. requests[s] \in Request /\ requests[s].machine \in DOMAIN machines
  BY DEF TypeOK, References
<1> QED BY <1>1 DEF Request, Report, Payout, Delete, Idle

(* What a report transaction moves is a natural number of sats the account *)
(* can pay; what it writes in the row is an integer.                       *)
LEMMA ChargeOfReport ==
    ASSUME TypeOK, NEW s \in Slots, ReportCommit(s)
    PROVE  LET q      == requests[s]
               row    == rentals[q.rental]
               charge == IF q.settle THEN Charge(row, q.at) ELSE 0
           IN  /\ charge \in Int
               /\ Moved(charge) \in Nat
               /\ Moved(charge) <= balance[row.account]
<1> DEFINE q      == requests[s]
           row    == rentals[q.rental]
<1>1. q \in Report /\ q.rental \in DOMAIN rentals
  BY ReportInFlight DEF ReportCommit
<1>2. CASE q.settle
  BY <1>1, <1>2, ChargeIsCapped DEF Report
<1>3. CASE ~q.settle
  <2>1. row.account \in DOMAIN balance
    BY <1>1 DEF TypeOK, References
  <2>2. balance[row.account] \in Nat
    BY <2>1 DEF TypeOK
  <2> QED BY <1>3, <2>2 DEF Moved
<1> QED BY <1>2, <1>3

(* The report transaction writes well-typed rows in four tables, and never *)
(* overdraws the account.                                                  *)
LEMMA ReportCommitType ==
    ASSUME TypeOK, NEW s \in Slots, ReportCommit(s)
    PROVE  TypeOK'
<1> DEFINE q      == requests[s]
           row    == rentals[q.rental]
           charge == IF q.settle THEN Charge(row, q.at) ELSE 0
           sats   == Moved(charge)
<1>1. q \in Report /\ q.rental \in DOMAIN rentals
  BY ReportInFlight DEF ReportCommit
<1>2. row \in RentalRow /\ row.account \in DOMAIN balance
                        /\ row.machine \in DOMAIN machines
  BY <1>1 DEF TypeOK, References
<1>3. /\ charge \in Int
      /\ sats \in Nat /\ sats <= balance[row.account]
  BY ChargeOfReport
<1>4. /\ DOMAIN rentals' = DOMAIN rentals
      /\ rentals' \in [DOMAIN rentals -> RentalRow]
  <2>1. rentals' = [rentals EXCEPT
                 ![q.rental].status      = q.status,
                 ![q.rental].endedAt     = IF IsTerminal(q.status) THEN q.at
                                                                   ELSE @,
                 ![q.rental].satsCharged = IF q.settle THEN charge ELSE @]
    BY DEF ReportCommit
  <2>2. q.status \in RentalStatus /\ q.at \in Nat
    BY <1>1 DEF Report, ReportStatus, RentalStatus
  <2>3. rentals \in [DOMAIN rentals -> RentalRow]
    BY DEF TypeOK
  <2>4. q.rental \in DOMAIN rentals /\ charge \in Int
    BY <1>1, <1>3
  <2> HIDE DEF q, charge
  <2> QED BY <2>1, <2>2, <2>3, <2>4 DEF RentalRow
<1>5. DOMAIN balance' = DOMAIN balance /\ balance' \in [DOMAIN balance -> Nat]
  <2>1. balance' = [balance EXCEPT ![row.account] = @ - sats]
    BY DEF ReportCommit
  <2>2. balance \in [DOMAIN balance -> Nat] /\ row.account \in DOMAIN balance
    BY <1>2 DEF TypeOK
  <2> HIDE DEF row, sats
  <2> QED BY <1>3, <2>1, <2>2
<1>6. /\ DOMAIN machines' = DOMAIN machines
      /\ machines' \in [DOMAIN machines -> MachineRow]
  <2>1. machines' = [machines EXCEPT ![row.machine].payoutBalance = @ + sats]
    BY DEF ReportCommit
  <2>2. /\ machines \in [DOMAIN machines -> MachineRow]
        /\ row.machine \in DOMAIN machines
    BY <1>2 DEF TypeOK
  <2> HIDE DEF row, sats
  <2> QED BY <1>3, <2>1, <2>2 DEF MachineRow
<1>7. ledger' \in LedgerSums
  <2>1. ledger' = [ledger EXCEPT !.account[row.account] = @ - sats,
                             !.machine[row.machine] = @ + sats,
                             !.charged[q.rental] = @ + sats]
    BY DEF ReportCommit, RecordCharge
  <2>2. ledger \in LedgerSums
    BY DEF TypeOK
  <2>3. sats \in Int
    BY <1>3
  <2> DEFINE l1 == [ledger EXCEPT !.account[row.account] = @ - sats]
             l2 == [l1 EXCEPT !.machine[row.machine] = @ + sats]
  <2>4. ledger' = [l2 EXCEPT !.charged[q.rental] = @ + sats]
    BY <2>1, Zenon
  <2> HIDE DEF row, sats, q
  <2>5. l1 \in LedgerSums BY <2>2, <2>3 DEF LedgerSums
  <2> HIDE DEF l1
  <2>6. l2 \in LedgerSums BY <2>5, <2>3 DEF LedgerSums
  <2> HIDE DEF l2
  <2>7. ledger' \in LedgerSums BY <1>3, <2>4, <2>6 DEF LedgerSums
  <2> QED BY <2>7
<1>8. requests' = [requests EXCEPT ![s] = Idle] /\ settled' \subseteq RentalIds
  BY <1>1 DEF ReportCommit, TypeOK
<1>9. \A r \in DOMAIN rentals : /\ rentals'[r].machine = rentals[r].machine
                                /\ rentals'[r].account = rentals[r].account
  BY <1>1 DEF ReportCommit, TypeOK, RentalRow
<1>10. References'
  <2> HIDE DEF q, row, charge, sats
  <2>1. \A r \in DOMAIN rentals' : /\ rentals'[r].machine \in DOMAIN machines'
                                   /\ rentals'[r].account \in DOMAIN balance'
    BY <1>4, <1>5, <1>6, <1>9 DEF TypeOK, References
  <2>2. invoices' = invoices /\ ticker' = ticker
    BY DEF ReportCommit
  <2>3. \A i \in DOMAIN invoices' : invoices'[i].account \in DOMAIN balance'
    BY <1>5, <2>2 DEF TypeOK, References
  <2>4. \A x \in Slots :
          /\ requests'[x].op \in {"report", "delete"} =>
                requests'[x].rental \in DOMAIN rentals'
          /\ requests'[x].op = "payout" =>
                requests'[x].machine \in DOMAIN machines'
    <3> SUFFICES ASSUME NEW x \in Slots
                 PROVE  /\ requests'[x].op \in {"report", "delete"} =>
                              requests'[x].rental \in DOMAIN rentals'
                        /\ requests'[x].op = "payout" =>
                              requests'[x].machine \in DOMAIN machines'
      OBVIOUS
    <3>1. CASE x = s
      <4>1. requests'[x] = Idle
        BY <1>8, <3>1 DEF TypeOK
      <4> QED BY <4>1 DEF Idle
    <3>2. CASE x # s
      <4>1. requests'[x] = requests[x]
        BY <1>8, <3>2 DEF TypeOK
      <4>2. /\ requests[x].op \in {"report", "delete"} =>
                  requests[x].rental \in DOMAIN rentals
            /\ requests[x].op = "payout" =>
                  requests[x].machine \in DOMAIN machines
        BY DEF TypeOK, References
      <4> QED BY <1>4, <1>6, <4>1, <4>2
    <3> QED BY <3>1, <3>2
  <2>5. /\ ticker'.at = "polling" => ticker'.todo \subseteq DOMAIN invoices'
        /\ ticker'.at \in {"checking", "evicting"} =>
              ticker'.todo \subseteq DOMAIN rentals'
        /\ ticker'.at = "evicting" => ticker'.rental \in DOMAIN rentals'
    BY <1>4, <2>2 DEF TypeOK, References
  <2> QED BY <2>1, <2>3, <2>4, <2>5 DEF References
<1> QED BY <1>4, <1>5, <1>6, <1>7, <1>8, <1>10 DEF TypeOK, ReportCommit,
    Request

(* Marking a rental evicting keeps its references and queues a command.    *)
LEMMA MarkEvictingType ==
    ASSUME TypeOK, NEW r \in DOMAIN rentals, MarkEvicting(r)
    PROVE  /\ DOMAIN rentals' = DOMAIN rentals
           /\ rentals' \in [DOMAIN rentals -> RentalRow]
           /\ commands' \in [Machines -> Seq(Commands(RentalIds))]
           /\ \A x \in DOMAIN rentals :
                /\ rentals'[x].machine = rentals[x].machine
                /\ rentals'[x].account = rentals[x].account
<1>1. rentals[r] \in RentalRow
  BY DEF TypeOK
<1>2. StopRental(r) \in Commands(RentalIds)
  BY DEF StopRental, Commands, TypeOK
<1>3. /\ rentals' = [rentals EXCEPT ![r].status = "evicting"]
      /\ rentals \in [DOMAIN rentals -> RentalRow]
  BY DEF MarkEvicting, TypeOK
<1>4. /\ DOMAIN rentals' = DOMAIN rentals
      /\ rentals' \in [DOMAIN rentals -> RentalRow]
      /\ \A x \in DOMAIN rentals :
           /\ rentals'[x].machine = rentals[x].machine
           /\ rentals'[x].account = rentals[x].account
  BY <1>1, <1>3 DEF RentalRow, RentalStatus
<1>5. commands' \in [Machines -> Seq(Commands(RentalIds))]
  BY <1>1, <1>2 DEF MarkEvicting, TypeOK, RentalRow
<1> QED BY <1>4, <1>5

(* create_rental inserts a row whose machine and account exist.            *)
LEMMA CreateRentalType ==
    ASSUME TypeOK, NEW r \in RentalIds, NEW m \in Machines,
           NEW a \in Accounts, CreateRental(r, m, a)
    PROVE  TypeOK'
<1>1. StartRental(r) \in Commands(RentalIds)
  BY DEF StartRental, Commands
<1>2. commands' \in [Machines -> Seq(Commands(RentalIds))]
  BY <1>1 DEF CreateRental, TypeOK
<1>3. /\ DOMAIN rentals' = DOMAIN rentals \cup {r}
      /\ rentals' \in [DOMAIN rentals' -> RentalRow]
  BY DEF CreateRental, Insert, TypeOK, RentalRow, MachineRow, RentalStatus
<1>4. References'
  BY DEF CreateRental, Insert, TypeOK, References
<1> QED BY <1>2, <1>3, <1>4 DEF CreateRental, TypeOK

(* The empty database is well typed.                                       *)
LEMMA InitType == Init => TypeOK
BY RatesAssumption, DepositAssumption, TimeAssumption, QueueAssumption
DEF Init, TypeOK, References, EmptyTable, MachineRow, RentalRow, InvoiceRow,
  Request, Idle, Ticker, Asleep, Null, Commands,
    LedgerSums

(* Every handler, ticker step and failure keeps every table well typed,    *)
(* one step per action.                                                    *)
THEOREM TypeStep == TypeOK /\ [Next]_vars => TypeOK'
<1> SUFFICES ASSUME TypeOK, [Next]_vars PROVE TypeOK' OBVIOUS
<1> USE RatesAssumption, DepositAssumption, TimeAssumption
<1>1. CASE UNCHANGED vars
  BY <1>1 DEF vars, tables, TypeOK, References
<1>2. CASE PassTime
  BY <1>2 DEF PassTime, tables, TypeOK, References
<1>3. ASSUME NEW m \in Machines, NEW rate \in Rates, RegisterNew(m, rate)
      PROVE  TypeOK'
  BY <1>3 DEF RegisterNew, Insert, TypeOK, References, MachineRow
<1>4. ASSUME NEW m \in Machines, NEW rate \in Rates, RegisterAgain(m, rate)
      PROVE  TypeOK'
  <2>1. /\ machines \in [DOMAIN machines -> MachineRow]
        /\ now \in Nat
        /\ m \in DOMAIN machines
    BY <1>4 DEF RegisterAgain, TypeOK
  <2>2. machines' = [machines EXCEPT ![m].online        = TRUE,
                                    ![m].lastHeartbeat = now,
                                    ![m].rate          = rate]
    BY <1>4 DEF RegisterAgain
  <2>3. /\ DOMAIN machines' = DOMAIN machines
        /\ machines' \in [DOMAIN machines -> MachineRow]
    BY <2>1, <2>2 DEF MachineRow
  <2> QED BY <1>4, <2>3 DEF RegisterAgain, TypeOK, References
<1>5. ASSUME NEW m \in Machines, NEW online \in BOOLEAN,
             Heartbeat(m, online)
      PROVE  TypeOK'
  <2>1. /\ machines \in [DOMAIN machines -> MachineRow]
        /\ now \in Nat
        /\ m \in DOMAIN machines
    BY <1>5 DEF Heartbeat, TypeOK
  <2>2. machines' = [machines EXCEPT ![m].online        = online,
                                    ![m].lastHeartbeat = now]
    BY <1>5 DEF Heartbeat
  <2>3. /\ DOMAIN machines' = DOMAIN machines
        /\ machines' \in [DOMAIN machines -> MachineRow]
    BY <2>1, <2>2 DEF MachineRow
  <2> QED BY <1>5, <2>3 DEF Heartbeat, TypeOK, References
<1>6. ASSUME NEW m \in Machines, NEW rate \in Rates, SetRate(m, rate)
      PROVE  TypeOK'
  BY <1>6 DEF SetRate, TypeOK, References, MachineRow
<1>7. ASSUME NEW s \in Slots, NEW r \in RentalIds,
             NEW status \in ReportStatus, ReportRead(s, r, status)
      PROVE  TypeOK'
  BY <1>7 DEF ReportRead, TypeOK, References, Request, Report, tables, Settles
<1>8. ASSUME NEW s \in Slots, ReportCommit(s) PROVE TypeOK'
  BY <1>8, ReportCommitType
<1>9. ASSUME NEW s \in Slots, NEW m \in Machines, PayoutPay(s, m) PROVE TypeOK'
  BY <1>9 DEF PayoutPay, TypeOK, References, Request, Payout, tables,
    MachineRow
<1>10. ASSUME NEW s \in Slots, PayoutCommit(s) PROVE TypeOK'
  <2> DEFINE m == requests[s].machine
             sats == requests[s].sats
  <2>1. m \in DOMAIN machines /\ sats \in Nat
    BY <1>10, PayoutInFlight DEF PayoutCommit, Payout
  <2>2. /\ machines' = [machines EXCEPT ![m].payoutBalance = 0]
        /\ machines \in [DOMAIN machines -> MachineRow]
    BY <1>10 DEF PayoutCommit, TypeOK
  <2>3. ledger' = [ledger EXCEPT !.machine[m] = @ - sats]
    BY <1>10 DEF PayoutCommit, RecordPayout
  <2>4. requests' = [requests EXCEPT ![s] = Idle]
    BY <1>10 DEF PayoutCommit
  <2>5. UNCHANGED <<now, balance, rentals, invoices, commands, paid, ticker,
             settled>>
    BY <1>10 DEF PayoutCommit
  <2> HIDE DEF m, sats
  <2>6. /\ DOMAIN machines' = DOMAIN machines
        /\ machines' \in [DOMAIN machines -> MachineRow]
    BY <2>1, <2>2 DEF MachineRow
  <2>7. ledger' \in LedgerSums
    <3>1. ledger \in LedgerSums
      BY DEF TypeOK
    <3> QED BY <3>1, <2>1, <2>3 DEF LedgerSums
  <2> QED BY <2>4, <2>5, <2>6, <2>7 DEF TypeOK, References, Request, Idle
<1>11. ASSUME NEW a \in Accounts, CreateAccount(a) PROVE TypeOK'
  BY <1>11 DEF CreateAccount, Insert, TypeOK, References
<1>12. ASSUME NEW i \in InvoiceIds, NEW a \in Accounts,
              NEW sats \in DepositSats, Deposit(i, a, sats)
       PROVE  TypeOK'
  BY <1>12 DEF Deposit, Insert, TypeOK, References, InvoiceRow
<1>13. ASSUME NEW r \in RentalIds, NEW m \in Machines, NEW a \in Accounts,
              CreateRental(r, m, a)
       PROVE  TypeOK'
  BY <1>13, CreateRentalType
<1>14. ASSUME NEW s \in Slots, NEW r \in RentalIds, DeleteRead(s, r)
       PROVE  TypeOK'
  BY <1>14 DEF DeleteRead, TypeOK, References, Request, Delete, tables
<1>15. ASSUME NEW s \in Slots, DeleteCommit(s) PROVE TypeOK'
  <2>1. requests[s].rental \in DOMAIN rentals
     BY <1>15, DeleteInFlight DEF DeleteCommit
  <2> QED BY <1>15, <2>1, MarkEvictingType DEF DeleteCommit, TypeOK,
      References, Request, Idle
<1>16. CASE PollInvoices
  BY <1>16 DEF PollInvoices, TypeOK, References, Ticker, tables
<1>17. ASSUME NEW i \in InvoiceIds, SettleInvoice(i) PROVE TypeOK'
  <2> DEFINE row == invoices[i]
  <2>1. /\ i \in DOMAIN invoices
        /\ row \in InvoiceRow
        /\ row.account \in DOMAIN balance
    BY <1>17 DEF SettleInvoice, TypeOK, References
  <2>2. /\ DOMAIN invoices' = DOMAIN invoices
        /\ invoices' \in [DOMAIN invoices -> InvoiceRow]
      /\ \A j \in DOMAIN invoices : invoices'[j].account = invoices[j].account
    <3>1. /\ invoices \in [DOMAIN invoices -> InvoiceRow]
          /\ invoices' = [invoices EXCEPT ![i].settled = TRUE]
      BY <1>17 DEF SettleInvoice, TypeOK
    <3> QED BY <2>1, <3>1 DEF InvoiceRow
  <2>3. balance' = [balance EXCEPT ![row.account] = @ + row.sats]
    BY <1>17 DEF SettleInvoice
  <2>4. ledger' = [ledger EXCEPT !.account[row.account] = @ + row.sats]
    BY <1>17 DEF SettleInvoice, RecordDeposit
  <2>5. row.account \in Accounts /\ row.sats \in Nat
    BY <2>1 DEF InvoiceRow
  <2>6. /\ ticker'.todo = ticker.todo \ {i}
        /\ ticker'.at = "polling"
        /\ ticker' \in Ticker
    BY <1>17 DEF SettleInvoice, TypeOK, Ticker, Asleep
  <2> HIDE DEF row
  <2>7. /\ DOMAIN balance' = DOMAIN balance
        /\ balance' \in [DOMAIN balance -> Nat]
    BY <2>1, <2>3, <2>5 DEF TypeOK
  <2>8. ledger' \in LedgerSums
    <3>1. ledger \in LedgerSums
      BY DEF TypeOK
    <3> QED BY <3>1, <2>4, <2>5 DEF LedgerSums
  <2> QED BY <1>17, <2>2, <2>6, <2>7, <2>8 DEF SettleInvoice, TypeOK,
      References
<1>18. ASSUME NEW i \in InvoiceIds, SkipInvoice(i) PROVE TypeOK'
  BY <1>18 DEF SkipInvoice, TypeOK, References, Ticker, tables, Asleep
<1>19. CASE PollFails
  BY <1>19 DEF PollFails, TypeOK, References, Ticker, tables, Asleep
<1>20. CASE MarkOffline
  BY <1>20 DEF MarkOffline, TypeOK, References, Ticker, MachineRow
<1>21. CASE ListRunning
  BY <1>21 DEF ListRunning, TypeOK, References, Ticker, tables
<1>22. ASSUME NEW r \in RentalIds, KeepRental(r) PROVE TypeOK'
  BY <1>22 DEF KeepRental, TypeOK, References, Ticker, tables, Asleep
<1>23. ASSUME NEW r \in RentalIds, CondemnRental(r) PROVE TypeOK'
  BY <1>23 DEF CondemnRental, TypeOK, References, Ticker, tables, Asleep
<1>24. CASE EvictRental
  <2>1. /\ ticker.rental \in DOMAIN rentals
        /\ ticker.todo \subseteq DOMAIN rentals
     BY <1>24 DEF EvictRental, TypeOK, References
  <2> QED BY <1>24, <2>1, MarkEvictingType DEF EvictRental, TypeOK,
      References, Ticker
<1>25. CASE EndTick
  BY <1>25 DEF EndTick, TypeOK, References, Ticker, tables, Asleep
<1>26. ASSUME NEW i \in InvoiceIds, PayInvoice(i) PROVE TypeOK'
  BY <1>26 DEF PayInvoice, TypeOK, References, tables
<1>27. ASSUME NEW s \in Slots, Abort(s) PROVE TypeOK'
  BY <1>27 DEF Abort, TypeOK, References, Request, Idle, tables
<1>28. CASE Restart
  BY <1>28 DEF Restart, TypeOK, References, Request, Idle, Ticker, Asleep,
    tables
<1> QED
  BY <1>1, <1>2, <1>3, <1>4, <1>5, <1>6, <1>7, <1>8, <1>9, <1>10, <1>11,
    <1>12, <1>13, <1>14, <1>15, <1>16, <1>17,
     <1>18, <1>19, <1>20, <1>21, <1>22, <1>23, <1>24, <1>25, <1>26, <1>27,
                <1>28
  DEF Next, TenantRequest, ProviderRequest, AgentRequest, Commit, TickerStep,
    Fault

(* The tables keep their schema, no balance goes negative and no reference *)
(* dangles, for any machines, accounts, prices and failures.               *)
THEOREM TypeCorrect == Spec => []TypeOK
<1>1. Init => TypeOK
  BY InitType
<1>2. TypeOK /\ [Next]_vars => TypeOK'
  BY TypeStep
<1> QED BY <1>1, <1>2, PTL DEF Spec

-----------------------------------------------------------------------------
(* One live rental per machine.                                            *)

(* What the report transaction does to the rental rows: one row changes,   *)
(* in its status, its end and its charge.                                  *)
LEMMA ReportedRow ==
    ASSUME TypeOK, NEW s \in Slots, ReportCommit(s)
    PROVE  /\ requests[s] \in Report
           /\ requests[s].rental \in DOMAIN rentals
           /\ DOMAIN rentals' = DOMAIN rentals
           /\ \A r \in DOMAIN rentals :
                 IF r = requests[s].rental
                 THEN /\ rentals'[r].status = requests[s].status
                      /\ rentals'[r].endedAt =
                            IF IsTerminal(requests[s].status)
                            THEN requests[s].at ELSE rentals[r].endedAt
                      /\ rentals'[r].machine = rentals[r].machine
                      /\ rentals'[r].account = rentals[r].account
                      /\ rentals'[r].rate = rentals[r].rate
                      /\ rentals'[r].createdAt = rentals[r].createdAt
                 ELSE rentals'[r] = rentals[r]
<1> DEFINE q == requests[s]
           charge == IF q.settle THEN Charge(rentals[q.rental], q.at) ELSE 0
<1>1. q \in Report /\ q.rental \in DOMAIN rentals
  BY ReportInFlight DEF ReportCommit
<1>2. rentals \in [DOMAIN rentals -> RentalRow]
  BY DEF TypeOK
<1>3. rentals' = [rentals EXCEPT
                 ![q.rental].status      = q.status,
                 ![q.rental].endedAt     = IF IsTerminal(q.status) THEN q.at
                                                                   ELSE @,
                 ![q.rental].satsCharged = IF q.settle THEN charge ELSE @]
  BY DEF ReportCommit
<1> HIDE DEF charge
<1> QED BY <1>1, <1>2, <1>3 DEF RentalRow

(* What an eviction does to the rental rows: one row changes its status.   *)
LEMMA EvictedRow ==
    ASSUME TypeOK, NEW x \in DOMAIN rentals, MarkEvicting(x)
    PROVE  /\ DOMAIN rentals' = DOMAIN rentals
           /\ \A r \in DOMAIN rentals :
                 IF r = x
                 THEN /\ rentals'[r].status = "evicting"
                      /\ rentals'[r].endedAt = rentals[r].endedAt
                      /\ rentals'[r].machine = rentals[r].machine
                      /\ rentals'[r].account = rentals[r].account
                      /\ rentals'[r].rate = rentals[r].rate
                      /\ rentals'[r].createdAt = rentals[r].createdAt
                 ELSE rentals'[r] = rentals[r]
<1>1. /\ rentals \in [DOMAIN rentals -> RentalRow]
      /\ rentals' = [rentals EXCEPT ![x].status = "evicting"]
  BY DEF TypeOK, MarkEvicting
<1> QED BY <1>1 DEF RentalRow

(* The rental rows are written by create_rental, by report and by the two  *)
(* callers of MarkEvicting, and by nothing else.                           *)
LEMMA WritersOfRentals ==
    ASSUME TypeOK, [Next]_vars
    PROVE  \/ UNCHANGED rentals
           \/ \E r \in RentalIds, m \in Machines, a \in Accounts :
                 CreateRental(r, m, a)
           \/ \E s \in Slots : ReportCommit(s)
           \/ \E r \in DOMAIN rentals : MarkEvicting(r)
<1>1. ASSUME NEW s \in Slots, DeleteCommit(s)
      PROVE  \E r \in DOMAIN rentals : MarkEvicting(r)
  BY <1>1, DeleteInFlight DEF DeleteCommit
<1>2. ASSUME EvictRental
      PROVE  \E r \in DOMAIN rentals : MarkEvicting(r)
  BY <1>2 DEF EvictRental, TypeOK, References
<1> QED BY <1>1, <1>2
  DEF Next, vars, tables, PassTime, TenantRequest, ProviderRequest,
    AgentRequest, Commit, TickerStep, Fault,
      RegisterNew, RegisterAgain, Heartbeat, SetRate, ReportRead, PayoutPay,
      PayoutCommit, CreateAccount, Deposit,
      DeleteRead, PollInvoices, SettleInvoice, SkipInvoice, PollFails,
      MarkOffline, ListRunning, KeepRental,
      CondemnRental, EndTick, PayInvoice, Abort, Restart

(* The strengthening: create_rental checks for an occupying status, and a  *)
(* rental that has not ended always has one.                               *)
LiveOccupies ==
    \A r \in DOMAIN rentals : ~Ended(r) => OccupiesMachine(rentals[r].status)

(* One step of the invariant, by writer of the rental rows.                *)
LEMMA OneLiveStep ==
    TypeOK /\ LiveOccupies /\ OneLiveRentalPerMachine /\ [Next]_vars
        => LiveOccupies' /\ OneLiveRentalPerMachine'
<1> SUFFICES ASSUME TypeOK, LiveOccupies, OneLiveRentalPerMachine, [Next]_vars
             PROVE  LiveOccupies' /\ OneLiveRentalPerMachine'
  OBVIOUS
<1>1. CASE UNCHANGED rentals
  BY <1>1 DEF LiveOccupies, OneLiveRentalPerMachine, Ended
<1>2. ASSUME NEW r \in RentalIds, NEW m \in Machines, NEW a \in Accounts,
             CreateRental(r, m, a)
      PROVE  LiveOccupies' /\ OneLiveRentalPerMachine'
  <2>1. DOMAIN rentals' = DOMAIN rentals \cup {r} /\ r \notin DOMAIN rentals
        /\ \A x \in DOMAIN rentals : rentals'[x] = rentals[x]
    BY <1>2 DEF CreateRental, Insert
  <2>2. rentals'[r].machine = m /\ rentals'[r].status = "provisioning"
    BY <1>2 DEF CreateRental, Insert
  <2>3. \A x \in DOMAIN rentals : rentals[x].machine = m => Ended(x)
    BY <1>2 DEF CreateRental, Occupied, LiveOccupies
  <2>4. LiveOccupies'
    BY <2>1, <2>2 DEF LiveOccupies, Ended, OccupiesMachine
  <2>5. OneLiveRentalPerMachine'
    BY <2>1, <2>2, <2>3 DEF OneLiveRentalPerMachine, Ended
  <2> QED BY <2>4, <2>5
<1>3. ASSUME NEW s \in Slots, ReportCommit(s)
      PROVE  LiveOccupies' /\ OneLiveRentalPerMachine'
  <2>1. requests[s].status \in ReportStatus /\ requests[s].at # Null
    BY <1>3, ReportedRow DEF Report, Null
  <2>2. \A r \in DOMAIN rentals : Ended(r) => Ended(r)'
    BY <1>3, <2>1, ReportedRow DEF Ended
  <2>3. LiveOccupies'
    BY <1>3, <2>1, ReportedRow DEF LiveOccupies, Ended, IsTerminal,
      OccupiesMachine, ReportStatus
  <2>4. OneLiveRentalPerMachine'
    BY <1>3, <2>2, ReportedRow DEF OneLiveRentalPerMachine
  <2> QED BY <2>3, <2>4
<1>4. ASSUME NEW r \in DOMAIN rentals, MarkEvicting(r)
      PROVE  LiveOccupies' /\ OneLiveRentalPerMachine'
  BY <1>4, EvictedRow DEF LiveOccupies, OneLiveRentalPerMachine, Ended,
    OccupiesMachine
<1> QED BY <1>1, <1>2, <1>3, <1>4, WritersOfRentals

(* A machine never has two rentals that have not ended, however reports,   *)
(* deletes and evictions race.                                             *)
THEOREM OneLive == Spec => []OneLiveRentalPerMachine
<1>1. Init => LiveOccupies /\ OneLiveRentalPerMachine
  BY DEF Init, EmptyTable, LiveOccupies, OneLiveRentalPerMachine
<1>2. TypeOK /\ LiveOccupies /\ OneLiveRentalPerMachine /\ [Next]_vars
         => LiveOccupies' /\ OneLiveRentalPerMachine'
  BY OneLiveStep
<1> QED BY <1>1, <1>2, TypeCorrect, PTL DEF Spec

-----------------------------------------------------------------------------
(* Nobody rides for free.                                                  *)

(* The strengthening: a terminal report that will not charge, because the  *)
(* row it read was terminal already, concerns a rental that was charged.   *)
ReportsSettle ==
    \A s \in Slots :
        /\ requests[s].op = "report"
        /\ IsTerminal(requests[s].status)
        /\ ~requests[s].settle
        => requests[s].rental \in settled

FreeRideInv == NoFreeRide /\ ReportsSettle

(* Only `report` opens a report, and only its commit charges: the charged  *)
(* rentals only grow.                                                      *)
LEMMA WritersOfReports ==
    ASSUME TypeOK, [Next]_vars
    PROVE  /\ settled \subseteq settled'
           /\ \A s \in Slots :
                 \/ requests'[s] = requests[s]
                 \/ requests'[s].op # "report"
                 \/ \E r \in RentalIds, status \in ReportStatus :
                        ReportRead(s, r, status)
<1> DEFINE Goal == /\ settled \subseteq settled'
                   /\ \A s \in Slots :
                         \/ requests'[s] = requests[s]
                         \/ requests'[s].op # "report"
                         \/ \E r \in RentalIds, status \in ReportStatus :
                                ReportRead(s, r, status)
<1>0. requests \in [Slots -> Request]
  BY DEF TypeOK
<1>1. CASE requests' = requests /\ settled' = settled
  BY <1>1
<1>2. ASSUME NEW s \in Slots, NEW r \in RentalIds, NEW status \in ReportStatus,
             ReportRead(s, r, status)
      PROVE  Goal
  <2>1. settled' = settled /\ \A x \in Slots \ {s} : requests'[x] = requests[x]
    BY <1>0, <1>2 DEF ReportRead
  <2> QED BY <1>2, <2>1
<1>3. ASSUME NEW s \in Slots, settled \subseteq settled',
             \E q : /\ q.op # "report"
                    /\ requests' = [requests EXCEPT ![s] = q]
      PROVE  Goal
  BY <1>0, <1>3
<1>4. CASE Restart
  BY <1>4 DEF Restart, Idle
<1>5. ASSUME NEW s \in Slots, Commit(s) \/ Abort(s) PROVE Goal
  <2>1. requests' = [requests EXCEPT ![s] = Idle] /\ settled \subseteq settled'
    BY <1>5 DEF Commit, ReportCommit, PayoutCommit, DeleteCommit, Abort
  <2> QED BY <1>3, <2>1 DEF Idle
<1>6. ASSUME NEW s \in Slots, NEW r \in RentalIds, DeleteRead(s, r) PROVE Goal
  BY <1>3, <1>6 DEF DeleteRead
<1>7. ASSUME NEW s \in Slots, NEW m \in Machines, PayoutPay(s, m) PROVE Goal
  BY <1>3, <1>7 DEF PayoutPay
<1> QED
  BY <1>1, <1>2, <1>4, <1>5, <1>6, <1>7
  DEF Next, vars, PassTime, TenantRequest, ProviderRequest, AgentRequest,
      TickerStep, Fault, RegisterNew, RegisterAgain, Heartbeat, SetRate,
      CreateAccount, Deposit, CreateRental, PollInvoices, SettleInvoice,
      SkipInvoice, PollFails, MarkOffline, ListRunning, KeepRental,
      CondemnRental, EvictRental, EndTick, PayInvoice

(* One step of the invariant.                                              *)
LEMMA FreeRideStep ==
    TypeOK /\ FreeRideInv /\ [Next]_vars => FreeRideInv'
<1> SUFFICES ASSUME TypeOK, FreeRideInv, [Next]_vars PROVE FreeRideInv'
  OBVIOUS
<1>1. settled \subseteq settled'
  BY WritersOfReports
<1>2. ReportsSettle'
  <2> SUFFICES ASSUME NEW s \in Slots,
                      requests'[s].op = "report",
                      IsTerminal(requests'[s].status),
                      ~requests'[s].settle
               PROVE  requests'[s].rental \in settled'
    BY DEF ReportsSettle, IsTerminal
  <2>1. CASE requests'[s] = requests[s]
    BY <1>1, <2>1 DEF FreeRideInv, ReportsSettle
  <2>2. ASSUME NEW r \in RentalIds, NEW status \in ReportStatus,
               ReportRead(s, r, status)
        PROVE  requests'[s].rental \in settled'
    <3>1. /\ requests'[s] = [op |-> "report", rental |-> r, status |-> status,
                             at |-> now,
                             settle |-> Settles(rentals[r], status)]
          /\ r \in DOMAIN rentals
      BY <2>2 DEF ReportRead, TypeOK
    <3>2. requests'[s].settle = Settles(rentals[r], status)
          /\ requests'[s].status = status
      BY <3>1
    <3>3. IsTerminal(status) /\ ~Settles(rentals[r], status)
      BY <3>2
    <3>4. IsTerminal(rentals[r].status)
      BY <3>3 DEF Settles
    <3> QED BY <1>1, <3>1, <3>4 DEF FreeRideInv, NoFreeRide
  <2> QED BY <2>1, <2>2, WritersOfReports
<1>3. NoFreeRide'
  <2>1. CASE UNCHANGED rentals
    BY <1>1, <2>1 DEF FreeRideInv, NoFreeRide, Ended
  <2>2. ASSUME NEW r \in RentalIds, NEW m \in Machines, NEW a \in Accounts,
               CreateRental(r, m, a)
        PROVE  NoFreeRide'
    <3>1. /\ DOMAIN rentals' = DOMAIN rentals \cup {r}
          /\ \A x \in DOMAIN rentals : rentals'[x] = rentals[x]
          /\ rentals'[r].status = "provisioning" /\ rentals'[r].endedAt = Null
      BY <2>2 DEF CreateRental, Insert
    <3> QED BY <1>1, <3>1 DEF FreeRideInv, NoFreeRide, Ended, IsTerminal
  <2>3. ASSUME NEW s \in Slots, ReportCommit(s) PROVE NoFreeRide'
    <3> DEFINE q == requests[s]
    <3>1. IsTerminal(q.status) => q.rental \in settled'
      <4>1. q.settle => q.rental \in settled'
        BY <2>3 DEF ReportCommit
      <4>2. q.op = "report"
        BY <2>3 DEF ReportCommit
      <4> QED BY <1>1, <4>1, <4>2 DEF FreeRideInv, ReportsSettle
    <3>2. \A r \in DOMAIN rentals :
             IsTerminal(rentals'[r].status) \/ Ended(r)' =>
                \/ IsTerminal(rentals[r].status) \/ Ended(r)
                \/ r = q.rental /\ IsTerminal(q.status)
      BY <2>3, ReportedRow DEF Ended
    <3> QED BY <1>1, <2>3, <3>1, <3>2, ReportedRow DEF FreeRideInv, NoFreeRide
  <2>4. ASSUME NEW r \in DOMAIN rentals, MarkEvicting(r) PROVE NoFreeRide'
    BY <1>1, <2>4, EvictedRow DEF FreeRideInv, NoFreeRide, Ended, IsTerminal
  <2> QED BY <2>1, <2>2, <2>3, <2>4, WritersOfRentals
<1> QED BY <1>2, <1>3 DEF FreeRideInv

(* Every rental that is or was terminal has had its stop-time charge       *)
(* applied, although `report` decides to charge from a row it read before  *)
(* its transaction.                                                        *)
THEOREM NobodyRidesFree == Spec => []NoFreeRide
<1>1. Init => FreeRideInv
  BY DEF Init, EmptyTable, FreeRideInv, NoFreeRide, ReportsSettle, Idle
<1>2. TypeOK /\ FreeRideInv /\ [Next]_vars => FreeRideInv'
  BY FreeRideStep
<1>3. FreeRideInv => NoFreeRide
  BY DEF FreeRideInv
<1> QED BY <1>1, <1>2, <1>3, TypeCorrect, PTL DEF Spec

-----------------------------------------------------------------------------
(* Balances reconcile with the ledger.                                     *)

(* The strengthening: an account that does not exist has no ledger rows.   *)
LedgerInv ==
    \A a \in Accounts :
        ledger.account[a] = IF a \in DOMAIN balance THEN balance[a] ELSE 0

(* The accounts' rows and balances are written by three handlers.          *)
LEMMA WritersOfBalances ==
    ASSUME TypeOK, [Next]_vars
    PROVE  \/ UNCHANGED <<balance, ledger>>
           \/ \E a \in Accounts : CreateAccount(a)
           \/ \E i \in InvoiceIds : SettleInvoice(i)
           \/ \E s \in Slots : ReportCommit(s)
           \/ \E s \in Slots : PayoutCommit(s)
BY DEF Next, vars, tables, PassTime, TenantRequest, ProviderRequest,
       AgentRequest, Commit, TickerStep, Fault, RegisterNew, RegisterAgain,
       Heartbeat, SetRate, ReportRead, PayoutPay, Deposit, CreateRental,
       DeleteRead, DeleteCommit, PollInvoices, SkipInvoice, PollFails,
       MarkOffline, ListRunning, KeepRental, CondemnRental, EvictRental,
       EndTick, PayInvoice, Abort, Restart

(* One step of the invariant.                                              *)
LEMMA LedgerStep == TypeOK /\ LedgerInv /\ [Next]_vars => LedgerInv'
<1> SUFFICES ASSUME TypeOK, LedgerInv, [Next]_vars PROVE LedgerInv'
  OBVIOUS
<1>0. /\ ledger \in LedgerSums
      /\ ledger.account \in [Accounts -> Int]
      /\ ledger.machine \in [Machines -> Int]
      /\ ledger.charged \in [RentalIds -> Nat]
      /\ balance \in [DOMAIN balance -> Nat]
      /\ DOMAIN balance \subseteq Accounts
  BY DEF TypeOK, LedgerSums
<1>1. CASE UNCHANGED <<balance, ledger>>
  BY <1>1 DEF LedgerInv
<1>2. ASSUME NEW a \in Accounts, CreateAccount(a) PROVE LedgerInv'
  BY <1>2 DEF CreateAccount, Insert, LedgerInv
<1>3. ASSUME NEW i \in InvoiceIds, SettleInvoice(i) PROVE LedgerInv'
  <2> DEFINE a == invoices[i].account
             sats == invoices[i].sats
  <2>1. /\ balance' = [balance EXCEPT ![a] = @ + sats]
        /\ ledger' = [ledger EXCEPT !.account[a] = @ + sats]
    BY <1>3 DEF SettleInvoice, RecordDeposit
  <2>2. a \in DOMAIN balance /\ sats \in Nat
    BY <1>3 DEF SettleInvoice, TypeOK, References, InvoiceRow
  <2> HIDE DEF a, sats
  <2>3. ledger'.account = [ledger.account EXCEPT ![a] = @ + sats]
    BY <1>0, <2>1 DEF LedgerSums
  <2> QED BY <1>0, <2>1, <2>2, <2>3 DEF LedgerInv
<1>4. ASSUME NEW s \in Slots, ReportCommit(s) PROVE LedgerInv'
  <2> DEFINE q == requests[s]
             row == rentals[q.rental]
             a == row.account
             m == row.machine
             r == q.rental
             sats == Moved(IF q.settle THEN Charge(row, q.at) ELSE 0)
  <2>1. /\ balance' = [balance EXCEPT ![a] = @ - sats]
        /\ ledger' = [ledger EXCEPT !.account[a] = @ - sats,
                                    !.machine[m] = @ + sats,
                                    !.charged[r] = @ + sats]
    BY <1>4 DEF ReportCommit, RecordCharge
  <2>2. q \in Report /\ row \in RentalRow /\ a \in DOMAIN balance
        /\ r \in DOMAIN rentals
    BY <1>4, ReportInFlight DEF ReportCommit, TypeOK, References
  <2>3. sats \in Nat
    BY <1>4, ChargeOfReport
  <2> HIDE DEF q, row, a, m, r, sats
  <2>4. ledger'.account = [ledger.account EXCEPT ![a] = @ - sats]
    BY <1>0, <2>1 DEF LedgerSums
  <2> QED BY <1>0, <2>1, <2>2, <2>3, <2>4 DEF LedgerInv
<1>5. ASSUME NEW s \in Slots, PayoutCommit(s) PROVE LedgerInv'
  <2>1. UNCHANGED balance /\ ledger'.account = ledger.account
    BY <1>0, <1>5 DEF PayoutCommit, RecordPayout, LedgerSums
  <2> QED BY <2>1 DEF LedgerInv
<1> QED BY <1>1, <1>2, <1>3, <1>4, <1>5, WritersOfBalances

(* Each balance is the sum of its account's ledger rows, through every     *)
(* deposit, settlement and payout.                                         *)
THEOREM BalancesReconcile == Spec => []LedgerReconciles
<1>1. Init => LedgerInv
  BY DEF Init, EmptyTable, LedgerInv
<1>2. TypeOK /\ LedgerInv /\ [Next]_vars => LedgerInv'
  BY LedgerStep
<1>3. TypeOK /\ LedgerInv => LedgerReconciles
  BY DEF TypeOK, LedgerInv, LedgerReconciles
<1> QED BY <1>1, <1>2, <1>3, TypeCorrect, PTL DEF Spec

-----------------------------------------------------------------------------
(* What the ticker condemned is over budget.                               *)

(* A longer rental costs more.                                             *)
LEMMA AccruedGrows ==
    ASSUME NEW start \in Nat, NEW end \in Nat, NEW later \in Nat,
           NEW rate \in Nat, end <= later
    PROVE  AccruedCharge(start, end, rate) <= AccruedCharge(start, later, rate)
<1>1. CASE end > start
  <2>1. /\ end - start \in Nat /\ later - start \in Nat
        /\ end - start <= later - start
        /\ later > start
    BY <1>1
  <2>2. \A x, y, z \in Nat : x <= y => x * z <= y * z
    OBVIOUS
  <2>3. /\ (end - start) * rate \in Nat /\ (later - start) * rate \in Nat
        /\ (end - start) * rate <= (later - start) * rate
    BY <2>1, <2>2
  <2>4. \A x, y \in Nat : x <= y => Truncated(x, 60) <= Truncated(y, 60)
    BY DEF Truncated
  <2>5. /\ AccruedCharge(start, end, rate) = Truncated((end - start) * rate, 60)
        /\ AccruedCharge(start, later, rate)
              = Truncated((later - start) * rate, 60)
    BY <1>1, <2>1 DEF AccruedCharge
  <2> QED BY <2>3, <2>4, <2>5
<1>2. CASE ~(end > start)
  <2>1. AccruedCharge(start, end, rate) = 0
    BY <1>2 DEF AccruedCharge
  <2>2. AccruedCharge(start, later, rate) \in Nat
    BY AccruedIsNat
  <2> QED BY <2>1, <2>2
<1> QED BY <1>1, <1>2

(* Nothing accrues at a price below zero.                                  *)
LEMMA OnlyPricesAccrue ==
    ASSUME NEW start \in Nat, NEW end \in Nat, NEW rate \in Int,
           AccruedCharge(start, end, rate) > 0
    PROVE  rate \in Nat
<1> SUFFICES ASSUME rate < 0 PROVE FALSE
  OBVIOUS
<1>1. end > start /\ Truncated((end - start) * rate, 60) > 0
  BY DEF AccruedCharge
<1>2. end - start \in Nat /\ end - start > 0
  BY <1>1
<1>3. \A x \in Nat, z \in Int : x > 0 /\ z < 0 => x * z < 0
  OBVIOUS
<1>4. (end - start) * rate \in Int /\ (end - start) * rate < 0
  BY <1>2, <1>3
<1>5. \A x \in Int : x < 0 => ~(Truncated(x, 60) > 0)
  BY DEF Truncated
<1> QED BY <1>1, <1>4, <1>5

(* A row keeps its machine and what its charge is computed from.           *)
LEMMA TermsAreFixed ==
    ASSUME TypeOK, [Next]_vars, NEW r \in DOMAIN rentals
    PROVE  /\ r \in DOMAIN rentals'
           /\ rentals'[r].machine = rentals[r].machine
           /\ rentals'[r].account = rentals[r].account
           /\ rentals'[r].rate = rentals[r].rate
           /\ rentals'[r].createdAt = rentals[r].createdAt
<1>1. CASE UNCHANGED rentals
  BY <1>1
<1>2. ASSUME NEW x \in RentalIds, NEW m \in Machines, NEW a \in Accounts,
             CreateRental(x, m, a)
      PROVE  r \in DOMAIN rentals' /\ rentals'[r] = rentals[r]
  BY <1>2 DEF CreateRental, Insert
<1>3. CASE \E s \in Slots : ReportCommit(s)
  BY <1>3, ReportedRow
<1>4. CASE \E x \in DOMAIN rentals : MarkEvicting(x)
  BY <1>4, EvictedRow
<1> QED BY <1>1, <1>2, <1>3, <1>4, WritersOfRentals

(* Outside poll_invoices no balance grows.                                 *)
LEMMA BalancesShrink ==
    ASSUME TypeOK, [Next]_vars, ticker'.at = "evicting",
           NEW a \in DOMAIN balance
    PROVE  a \in DOMAIN balance' /\ balance'[a] <= balance[a]
<1>0. balance \in [DOMAIN balance -> Nat]
  BY DEF TypeOK
<1>1. CASE UNCHANGED <<balance, ledger>>
  BY <1>0, <1>1
<1>2. ASSUME NEW x \in Accounts, CreateAccount(x)
      PROVE  a \in DOMAIN balance' /\ balance'[a] <= balance[a]
  BY <1>0, <1>2 DEF CreateAccount, Insert
<1>3. ASSUME NEW i \in InvoiceIds, SettleInvoice(i) PROVE FALSE
  BY <1>3 DEF SettleInvoice, TypeOK, Ticker, Asleep
<1>4. ASSUME NEW s \in Slots, ReportCommit(s)
      PROVE  a \in DOMAIN balance' /\ balance'[a] <= balance[a]
  <2> DEFINE q == requests[s]
             row == rentals[q.rental]
             sats == Moved(IF q.settle THEN Charge(row, q.at) ELSE 0)
  <2>1. balance' = [balance EXCEPT ![row.account] = @ - sats]
    BY <1>4 DEF ReportCommit
  <2>2. sats \in Nat
    BY <1>4, ChargeOfReport
  <2> HIDE DEF sats, row
  <2> QED BY <1>0, <2>1, <2>2
<1>5. ASSUME NEW s \in Slots, PayoutCommit(s)
      PROVE  a \in DOMAIN balance' /\ balance'[a] <= balance[a]
  BY <1>0, <1>5 DEF PayoutCommit
<1> QED BY <1>1, <1>2, <1>3, <1>4, <1>5, WritersOfBalances

(* The ticker is the only process that moves the ticker; the clock never   *)
(* runs backwards.                                                         *)
LEMMA EvictingSince ==
    ASSUME TypeOK, [Next]_vars, ticker'.at = "evicting"
    PROVE  \/ \E r \in RentalIds : CondemnRental(r)
           \/ ticker' = ticker /\ now <= now'
<1>1. now \in Nat /\ TimeStep \in Nat /\ ticker \in Ticker
  BY TimeAssumption DEF TypeOK
<1>2. ASSUME \/ PollInvoices \/ MarkOffline \/ ListRunning \/ EndTick
             \/ EvictRental \/ PollFails \/ Restart
      PROVE  FALSE
  BY <1>2 DEF PollInvoices, MarkOffline, ListRunning, EndTick, EvictRental,
              PollFails, Restart, Asleep
<1>3. ASSUME NEW i \in InvoiceIds, SettleInvoice(i) \/ SkipInvoice(i)
      PROVE  FALSE
  BY <1>1, <1>3 DEF SettleInvoice, SkipInvoice, Ticker, Asleep
<1>4. ASSUME NEW r \in RentalIds, KeepRental(r) PROVE FALSE
  BY <1>1, <1>4 DEF KeepRental, Ticker, Asleep
<1>5. now <= now
  BY <1>1
<1>6. CASE PassTime \/ UNCHANGED vars
  BY <1>1, <1>6 DEF PassTime, vars
<1>7. CASE TenantRequest \/ ProviderRequest
  BY <1>5, <1>7 DEF TenantRequest, ProviderRequest, SetRate, PayoutPay,
     CreateAccount, Deposit, CreateRental, DeleteRead
<1>8. CASE AgentRequest
  BY <1>5, <1>8 DEF AgentRequest, RegisterNew, RegisterAgain, Heartbeat,
     ReportRead
<1>9. CASE \E s \in Slots : Commit(s) \/ Abort(s)
  BY <1>5, <1>9 DEF Commit, ReportCommit, PayoutCommit, DeleteCommit, Abort
<1>10. CASE TickerStep
  BY <1>2, <1>3, <1>4, <1>10 DEF TickerStep
<1>11. CASE \E i \in InvoiceIds : PayInvoice(i)
  BY <1>5, <1>11 DEF PayInvoice
<1> QED
  BY <1>2, <1>6, <1>7, <1>8, <1>9, <1>10, <1>11 DEF Next, Fault

(* One step of the invariant, which is inductive given the types.          *)
LEMMA CondemnedStep ==
    TypeOK /\ CondemnedIsOverBudget /\ [Next]_vars => CondemnedIsOverBudget'
<1> SUFFICES ASSUME TypeOK, CondemnedIsOverBudget, [Next]_vars,
                    ticker'.at = "evicting"
             PROVE  AccruedNow(ticker.rental)'
                      > balance'[rentals'[ticker'.rental].account]
  BY DEF CondemnedIsOverBudget
<1>1. ASSUME NEW r \in RentalIds, CondemnRental(r)
      PROVE  AccruedNow(ticker.rental)'
               > balance'[rentals'[ticker'.rental].account]
  BY <1>1 DEF CondemnRental, tables, OverBudget, AccruedNow
<1>2. CASE ticker' = ticker /\ now <= now'
  <2> DEFINE r == ticker.rental
             a == rentals[r].account
             start == rentals[r].createdAt
             rate == rentals[r].rate
  <2>1. r \in DOMAIN rentals /\ ticker.at = "evicting"
    BY <1>2 DEF TypeOK, References
  <2>2. /\ a \in DOMAIN balance
        /\ balance[a] \in Nat
        /\ start \in Nat
        /\ rate \in Int
        /\ now \in Nat
    BY <2>1 DEF TypeOK, References, RentalRow
  <2>3. TypeOK'
    BY TypeStep
  <2>4. /\ rentals'[r].account = a
        /\ rentals'[r].rate = rate
        /\ rentals'[r].createdAt = start
    BY <2>1, TermsAreFixed
  <2>5. a \in DOMAIN balance' /\ balance'[a] <= balance[a]
    BY <2>2, BalancesShrink
  <2>6. now' \in Nat /\ balance'[a] \in Nat
    BY <2>3, <2>5 DEF TypeOK
  <2>7. AccruedCharge(start, now, rate) > balance[a]
    BY <2>1 DEF CondemnedIsOverBudget, AccruedNow
  <2>8. rate \in Nat
    <3>1. AccruedCharge(start, now, rate) \in Int
      BY <2>2, AccruedIsInt
    <3> HIDE DEF r, a, start, rate
    <3>2. AccruedCharge(start, now, rate) > 0
      BY <2>2, <2>7, <3>1
    <3> QED BY <2>2, <3>2, OnlyPricesAccrue
  <2>9. AccruedCharge(start, now, rate) <= AccruedCharge(start, now', rate)
    BY <1>2, <2>2, <2>6, <2>8, AccruedGrows
  <2>10. AccruedCharge(start, now, rate) \in Nat
         /\ AccruedCharge(start, now', rate) \in Nat
    BY <2>2, <2>6, <2>8, AccruedIsNat
  <2>11. AccruedNow(ticker.rental)' = AccruedCharge(start, now', rate)
    BY <1>2, <2>4 DEF AccruedNow
  <2>12. balance'[rentals'[ticker'.rental].account] = balance'[a]
    BY <1>2, <2>4
  <2> HIDE DEF r, a, start, rate
  <2> QED BY <2>2, <2>5, <2>6, <2>7, <2>9, <2>10, <2>11, <2>12
<1> QED BY <1>1, <1>2, EvictingSince

(* Between the ticker's reads and its eviction transaction nothing can     *)
(* bring the rental back within its budget.                                *)
THEOREM CondemnedStaysOverBudget == Spec => []CondemnedIsOverBudget
<1>1. Init => CondemnedIsOverBudget
  BY DEF Init, Asleep, CondemnedIsOverBudget
<1>2. TypeOK /\ CondemnedIsOverBudget /\ [Next]_vars => CondemnedIsOverBudget'
  BY CondemnedStep
<1> QED BY <1>1, <1>2, TypeCorrect, PTL DEF Spec

-----------------------------------------------------------------------------
(* The leases.  What create_rental and offers look at is the status of a   *)
(* rental; LiveOccupies says that one that has not ended occupies.         *)

(* LiveOccupies, on its own.                                               *)
LEMMA LiveOccupiesAlways == Spec => []LiveOccupies
<1>1. Init => LiveOccupies /\ OneLiveRentalPerMachine
  BY DEF Init, EmptyTable, LiveOccupies, OneLiveRentalPerMachine
<1>2. TypeOK /\ LiveOccupies /\ OneLiveRentalPerMachine /\ [Next]_vars
         => LiveOccupies' /\ OneLiveRentalPerMachine'
  BY OneLiveStep
<1> QED BY <1>1, <1>2, TypeCorrect, PTL DEF Spec

(* A machine on offer is held by nobody, whatever late reports have done   *)
(* to the statuses of its rentals.                                         *)
THEOREM OffersAreFree == Spec => []OfferedIsFree
<1>1. LiveOccupies => OfferedIsFree
  BY DEF LiveOccupies, OfferedIsFree, Offers, Occupied, LiveOn
<1> QED BY <1>1, LiveOccupiesAlways, PTL

(* What ControlPlane holds leased.                                         *)
LiveMap == [m \in Machines |-> LiveOn(m)]

(* Every step grants a lease to a free machine, releases one, or leaves    *)
(* the leases alone.                                                       *)
LEMMA LeaseStep ==
    TypeOK /\ LiveOccupies /\ [Next]_vars => [Lease!LeaseNext]_(Lease!leaseVars)
<1> SUFFICES ASSUME TypeOK, LiveOccupies, [Next]_vars
             PROVE  \/ Lease!LeaseNext
                    \/ LiveMap' = LiveMap /\ (DOMAIN rentals)' = DOMAIN rentals
  BY DEF Lease!leaseVars, LiveMap
<1>0. rentals \in [DOMAIN rentals -> RentalRow]
  BY DEF TypeOK
<1>1. CASE UNCHANGED rentals
  BY <1>1 DEF LiveMap, LiveOn, Ended
<1>2. ASSUME NEW r \in RentalIds, NEW m \in Machines, NEW a \in Accounts,
             CreateRental(r, m, a)
      PROVE  Lease!LeaseNext
  <2>1. /\ r \notin DOMAIN rentals
        /\ DOMAIN rentals' = DOMAIN rentals \cup {r}
        /\ \A x \in DOMAIN rentals : rentals'[x] = rentals[x]
        /\ rentals'[r].machine = m
        /\ rentals'[r].endedAt = Null
    BY <1>2 DEF CreateRental, Insert
  <2>2. LiveOn(m) = {}
    BY <1>2 DEF CreateRental, Occupied, LiveOccupies, LiveOn
  <2>3. LiveOn(m)' = {r}
    BY <2>1, <2>2 DEF LiveOn, Ended
  <2>4. \A x \in Machines \ {m} : LiveOn(x)' = LiveOn(x)
    BY <2>1 DEF LiveOn, Ended
  <2>5. LiveMap' = [LiveMap EXCEPT ![m] = {r}]
    BY <2>3, <2>4 DEF LiveMap
  <2>6. Lease!Grant(m, r)
    BY <2>1, <2>2, <2>5 DEF Lease!Grant, LiveMap
  <2> QED BY <2>6 DEF Lease!LeaseNext
<1>3. ASSUME NEW s \in Slots, ReportCommit(s)
      PROVE  \/ Lease!LeaseNext
             \/ LiveMap' = LiveMap /\ (DOMAIN rentals)' = DOMAIN rentals
  <2>1. PICK q \in DOMAIN rentals : q = requests[s].rental
    BY <1>3, ReportedRow
  <2>2. /\ DOMAIN rentals' = DOMAIN rentals
        /\ \A r \in DOMAIN rentals : rentals'[r].machine = rentals[r].machine
        /\ \A r \in DOMAIN rentals \ {q} : Ended(r)' <=> Ended(r)
    BY <1>3, <2>1, ReportedRow DEF Ended
  <2>3. PICK m \in Machines : m = rentals[q].machine
    BY <2>1 DEF TypeOK, RentalRow
  <2>4. q \in RentalIds /\ (Ended(q) => Ended(q)')
    <3>1. requests[s].at # Null
      BY <1>3, ReportedRow DEF Report, Null
    <3> QED BY <1>3, <2>1, <3>1, ReportedRow DEF Ended, TypeOK
  <2>5. CASE Ended(q)' <=> Ended(q)
    <3>1. \A x \in Machines : LiveOn(x)' = LiveOn(x)
      BY <2>2, <2>5 DEF LiveOn, Ended
    <3> QED BY <2>2, <3>1 DEF LiveMap
  <2>6. CASE ~Ended(q) /\ Ended(q)'
    <3>1. q \in LiveOn(m)
      BY <2>3, <2>6 DEF LiveOn, Ended
    <3>2. LiveOn(m)' = LiveOn(m) \ {q}
      BY <2>2, <2>3, <2>6 DEF LiveOn, Ended
    <3>3. \A x \in Machines \ {m} : LiveOn(x)' = LiveOn(x)
      BY <2>2, <2>3, <2>6 DEF LiveOn, Ended
    <3>4. LiveMap' = [LiveMap EXCEPT ![m] = LiveOn(m) \ {q}]
      BY <3>2, <3>3 DEF LiveMap
    <3>5. Lease!Release(m, q)
      BY <2>2, <3>1, <3>4 DEF Lease!Release, LiveMap
    <3> QED BY <2>4, <3>5 DEF Lease!LeaseNext
  <2> QED BY <2>4, <2>5, <2>6
<1>4. ASSUME NEW r \in DOMAIN rentals, MarkEvicting(r)
      PROVE  LiveMap' = LiveMap /\ (DOMAIN rentals)' = DOMAIN rentals
  BY <1>4, EvictedRow DEF LiveMap, LiveOn, Ended
<1> QED BY <1>1, <1>2, <1>3, <1>4, WritersOfRentals

(* The control plane implements exclusive leases: every step of a handler, *)
(* of the ticker or of a failure grants one lease, releases one, or leaves *)
(* them alone, whatever the statuses say.                                  *)
THEOREM LeasesAreExclusive == Spec => ImplementsLease
<1>1. Init => Lease!LeaseInit
  BY DEF Init, EmptyTable, Lease!LeaseInit, LiveOn
<1> QED
  BY <1>1, LeaseStep, TypeCorrect, LiveOccupiesAlways, PTL
  DEF Spec, ImplementsLease, Lease!LeaseSpec
=============================================================================
