------------------------------ MODULE MoneyProofs ------------------------------
(***************************************************************************)
(* The money of the control plane, as sums over its tables, for any number *)
(* of invoices, accounts, rentals and machines.                            *)
(*                                                                         *)
(*   1. NoSatIsLost          deposits = balances + charges                 *)
(*   2. OwedIsCovered        no host is owed more than its rentals paid    *)
(*   3. RecordedIsPaid       the ledger records no payout without a        *)
(*                           payment, whatever the amount of its invoice   *)
(*                                                                         *)
(* The tables start empty and gain one row at a time, so they are always   *)
(* finite and their sums are what module Sums says.                        *)
(***************************************************************************)
EXTENDS Payouts, ControlPlaneProofs, Sums

-----------------------------------------------------------------------------
(* What the handlers do to the money.                                      *)

(* A report moves its charge from the tenant to the host.                  *)
LEMMA ReportMoves ==
    ASSUME TypeOK, NEW s \in Slots, ReportCommit(s)
    PROVE  \E sats \in Nat, r \in DOMAIN rentals,
              a \in DOMAIN balance, m \in DOMAIN machines :
                /\ rentals[r].account = a /\ rentals[r].machine = m
                /\ balance' = [balance EXCEPT ![a] = @ - sats]
                /\ machines' = [machines EXCEPT ![m].payoutBalance = @ + sats]
                /\ ledger'.machine = [ledger.machine EXCEPT ![m] = @ + sats]
                /\ ledger'.charged = [ledger.charged EXCEPT ![r] = @ + sats]
<1> DEFINE q == requests[s]
           r == q.rental
           a == rentals[r].account
           m == rentals[r].machine
           sats == Moved(IF q.settle THEN Charge(rentals[r], q.at) ELSE 0)
<1>1. /\ balance' = [balance EXCEPT ![a] = @ - sats]
      /\ machines' = [machines EXCEPT ![m].payoutBalance = @ + sats]
      /\ ledger' = [ledger EXCEPT !.account[a] = @ - sats,
                                  !.machine[m] = @ + sats,
                                  !.charged[r] = @ + sats]
  BY DEF ReportCommit, RecordCharge
<1>2. /\ r \in DOMAIN rentals /\ q \in Report
      /\ a \in DOMAIN balance /\ m \in DOMAIN machines
  BY ReportInFlight DEF ReportCommit, TypeOK, References
<1>3. sats \in Nat
  BY ChargeOfReport
<1>4. /\ ledger'.machine = [ledger.machine EXCEPT ![m] = @ + sats]
      /\ ledger'.charged = [ledger.charged EXCEPT ![r] = @ + sats]
  <2>1. ledger \in LedgerSums
    BY DEF TypeOK
  <2> HIDE DEF q, r, a, m, sats
  <2> QED BY <1>1, <2>1 DEF LedgerSums
<1> HIDE DEF sats
<1> QED BY <1>1, <1>2, <1>3, <1>4

(* The invoices' rows are written by two handlers.                         *)
LEMMA WritersOfInvoices ==
    ASSUME [Next]_vars
    PROVE  \/ UNCHANGED invoices
           \/ \E i \in InvoiceIds, a \in Accounts, sats \in DepositSats :
                 Deposit(i, a, sats)
           \/ \E i \in InvoiceIds : SettleInvoice(i)
BY DEF Next, vars, tables, PassTime, TenantRequest, ProviderRequest,
       AgentRequest, Commit, TickerStep, Fault, RegisterNew, RegisterAgain,
       Heartbeat, SetRate, ReportRead, ReportCommit, PayoutPay, PayoutCommit,
       CreateAccount, CreateRental, DeleteRead, DeleteCommit, MarkEvicting,
       PollInvoices, SkipInvoice, PollFails, MarkOffline, ListRunning,
       KeepRental, CondemnRental, EvictRental, EndTick, PayInvoice, Abort,
       Restart

(* Rentals are only ever added, one at a time, and keep their machine.     *)
LEMMA RentalsGrow ==
    ASSUME TypeOK, [Next]_vars
    PROVE  /\ \A r \in DOMAIN rentals : rentals'[r].machine = rentals[r].machine
           /\ \/ DOMAIN rentals' = DOMAIN rentals
              \/ \E r \in RentalIds \ DOMAIN rentals :
                    /\ DOMAIN rentals' = DOMAIN rentals \cup {r}
                    /\ UNCHANGED <<balance, machines, ledger, invoices>>
<1>1. CASE UNCHANGED rentals
  BY <1>1
<1>2. ASSUME NEW r \in RentalIds, NEW m \in Machines, NEW a \in Accounts,
             CreateRental(r, m, a)
      PROVE  /\ \A x \in DOMAIN rentals :
                   rentals'[x].machine = rentals[x].machine
             /\ DOMAIN rentals' = DOMAIN rentals \cup {r}
             /\ r \notin DOMAIN rentals
             /\ UNCHANGED <<balance, machines, ledger, invoices>>
  BY <1>2 DEF CreateRental, Insert
<1>3. ASSUME NEW s \in Slots, ReportCommit(s)
      PROVE  /\ \A x \in DOMAIN rentals :
                   rentals'[x].machine = rentals[x].machine
             /\ DOMAIN rentals' = DOMAIN rentals
  BY <1>3, ReportedRow
<1>4. ASSUME NEW r \in DOMAIN rentals, MarkEvicting(r)
      PROVE  /\ \A x \in DOMAIN rentals :
                   rentals'[x].machine = rentals[x].machine
             /\ DOMAIN rentals' = DOMAIN rentals
  BY <1>4, EvictedRow
<1> QED BY <1>1, <1>2, <1>3, <1>4, WritersOfRentals

-----------------------------------------------------------------------------
(* What the sums rest on.                                                  *)

(* The tables are finite; a rental that does not exist was not charged; an *)
(* invoice that poll_invoices has still to look at is not credited yet.    *)
TablesFinite == /\ IsFiniteSet(DOMAIN rentals)
                /\ IsFiniteSet(DOMAIN balance)
                /\ IsFiniteSet(DOMAIN invoices)

FreshIsUncharged ==
    \A r \in RentalIds \ DOMAIN rentals : ledger.charged[r] = 0

PollsUncredited ==
    ticker.at = "polling" => \A i \in ticker.todo : ~invoices[i].settled

Books == TablesFinite /\ FreshIsUncharged /\ PollsUncredited

(* A step adds at most one row to a table.                                 *)
LEMMA TablesFiniteStep ==
    ASSUME TypeOK, TablesFinite, [Next]_vars PROVE TablesFinite'
<1>1. IsFiniteSet(DOMAIN rentals')
  BY RentalsGrow, FS_AddElement DEF TablesFinite
<1>2. IsFiniteSet(DOMAIN balance')
  <2>1. ASSUME NEW a \in Accounts, CreateAccount(a)
        PROVE  IsFiniteSet(DOMAIN balance')
    <3>1. DOMAIN balance' = DOMAIN balance \cup {a}
      BY <2>1 DEF CreateAccount, Insert
    <3> QED BY <3>1, FS_AddElement DEF TablesFinite
  <2>2. ASSUME \/ UNCHANGED <<balance, ledger>>
               \/ \E i \in InvoiceIds : SettleInvoice(i)
               \/ \E s \in Slots : ReportCommit(s)
               \/ \E s \in Slots : PayoutCommit(s)
        PROVE  IsFiniteSet(DOMAIN balance')
    <3>1. DOMAIN balance' = DOMAIN balance
      BY <2>2 DEF SettleInvoice, ReportCommit, PayoutCommit
    <3> QED BY <3>1 DEF TablesFinite
  <2> QED BY <2>1, <2>2, WritersOfBalances
<1>3. IsFiniteSet(DOMAIN invoices')
  <2>1. ASSUME NEW i \in InvoiceIds, NEW a \in Accounts,
               NEW sats \in DepositSats, Deposit(i, a, sats)
        PROVE  IsFiniteSet(DOMAIN invoices')
    <3>1. DOMAIN invoices' = DOMAIN invoices \cup {i}
      BY <2>1 DEF Deposit, Insert
    <3> QED BY <3>1, FS_AddElement DEF TablesFinite
  <2>2. ASSUME UNCHANGED invoices \/ \E i \in InvoiceIds : SettleInvoice(i)
        PROVE  IsFiniteSet(DOMAIN invoices')
    <3>1. DOMAIN invoices' = DOMAIN invoices
      BY <2>2 DEF SettleInvoice
    <3> QED BY <3>1 DEF TablesFinite
  <2> QED BY <2>1, <2>2, WritersOfInvoices
<1> QED BY <1>1, <1>2, <1>3 DEF TablesFinite

(* Only a report charges, and only a rental that exists.                   *)
LEMMA WritersOfCharges ==
    ASSUME TypeOK, [Next]_vars
    PROVE  ledger'.charged = ledger.charged \/ \E s \in Slots : ReportCommit(s)
<1>1. ledger \in LedgerSums
  BY DEF TypeOK
<1>2. ASSUME NEW i \in InvoiceIds, SettleInvoice(i)
      PROVE  ledger'.charged = ledger.charged
  BY <1>1, <1>2 DEF SettleInvoice, RecordDeposit, LedgerSums
<1>3. ASSUME NEW s \in Slots, PayoutCommit(s)
      PROVE  ledger'.charged = ledger.charged
  BY <1>1, <1>3 DEF PayoutCommit, RecordPayout, LedgerSums
<1>4. ASSUME NEW a \in Accounts, CreateAccount(a)
      PROVE  ledger'.charged = ledger.charged
  BY <1>4 DEF CreateAccount
<1> QED BY <1>2, <1>3, <1>4, WritersOfBalances

(* A report charges a rental that exists.                                  *)
LEMMA FreshStep ==
    ASSUME TypeOK, FreshIsUncharged, [Next]_vars PROVE FreshIsUncharged'
<1>1. DOMAIN rentals \subseteq DOMAIN rentals'
  BY RentalsGrow
<1>2. CASE ledger'.charged = ledger.charged
  BY <1>1, <1>2 DEF FreshIsUncharged
<1>3. ASSUME NEW s \in Slots, ReportCommit(s) PROVE FreshIsUncharged'
  <2>1. PICK charge \in Nat, r \in DOMAIN rentals :
           ledger'.charged = [ledger.charged EXCEPT ![r] = @ + charge]
    BY <1>3, ReportMoves
  <2>2. ledger.charged \in [RentalIds -> Nat]
    BY DEF TypeOK, LedgerSums
  <2> QED BY <1>1, <2>1, <2>2 DEF FreshIsUncharged
<1> QED BY <1>2, <1>3, WritersOfCharges

(* Only the ticker settles an invoice, and takes it off its list.          *)
LEMMA PollsStep ==
    ASSUME TypeOK, PollsUncredited, [Next]_vars PROVE PollsUncredited'
<1> SUFFICES ASSUME ticker'.at = "polling", NEW i \in ticker'.todo
             PROVE  ~invoices'[i].settled
  BY DEF PollsUncredited
<1>0. /\ ticker \in Ticker
      /\ ticker.at = "polling" => ticker.todo \subseteq DOMAIN invoices
      /\ invoices \in [DOMAIN invoices -> InvoiceRow]
  BY DEF TypeOK, References
<1>1. CASE PollInvoices
  BY <1>1 DEF PollInvoices, tables
<1>2. ASSUME NEW x \in InvoiceIds, SettleInvoice(x)
      PROVE  ~invoices'[i].settled
  <2>1. /\ ticker.at = "polling" /\ i \in ticker.todo \ {x}
        /\ invoices' = [invoices EXCEPT ![x].settled = TRUE]
    BY <1>0, <1>2 DEF SettleInvoice, Ticker, Asleep
  <2>2. invoices'[i] = invoices[i]
    BY <1>0, <2>1
  <2> QED BY <2>1, <2>2 DEF PollsUncredited
<1>3. ASSUME NEW x \in InvoiceIds, SkipInvoice(x)
      PROVE  ~invoices'[i].settled
  <2>1. ticker.at = "polling" /\ i \in ticker.todo /\ UNCHANGED invoices
    BY <1>0, <1>3 DEF SkipInvoice, tables, Ticker, Asleep
  <2> QED BY <2>1 DEF PollsUncredited
<1>4. CASE /\ UNCHANGED ticker
           /\ \/ UNCHANGED invoices
              \/ \E x \in InvoiceIds, a \in Accounts, sats \in DepositSats :
                    Deposit(x, a, sats)
  <2>1. ticker.at = "polling" /\ i \in ticker.todo /\ i \in DOMAIN invoices
    BY <1>0, <1>4
  <2>2. invoices'[i] = invoices[i]
    BY <1>4, <2>1 DEF Deposit, Insert
  <2> QED BY <2>1, <2>2 DEF PollsUncredited
<1>5. ASSUME \/ MarkOffline \/ ListRunning \/ EndTick \/ EvictRental
             \/ PollFails \/ Restart
             \/ \E r \in RentalIds : KeepRental(r) \/ CondemnRental(r)
      PROVE  FALSE
  BY <1>0, <1>5 DEF MarkOffline, ListRunning, EndTick, EvictRental, PollFails,
     Restart, KeepRental, CondemnRental, Asleep, Ticker
<1>6. CASE TickerStep
  BY <1>1, <1>2, <1>3, <1>5, <1>6 DEF TickerStep
<1>7. CASE Fault
  <2>1. ASSUME NEW s \in Slots, Abort(s) PROVE UNCHANGED <<ticker, invoices>>
    BY <2>1 DEF Abort, tables
  <2> QED BY <1>4, <1>5, <1>7, <2>1 DEF Fault
<1>8. CASE ~TickerStep /\ ~Fault
  <2>1. UNCHANGED ticker
    BY <1>8 DEF Next, vars, PassTime, TenantRequest, ProviderRequest,
       AgentRequest, Commit, RegisterNew, RegisterAgain, Heartbeat, SetRate,
       ReportRead, ReportCommit, PayoutPay, PayoutCommit, CreateAccount,
       Deposit, CreateRental, DeleteRead, DeleteCommit, PayInvoice
  <2>2. \A x \in InvoiceIds : SettleInvoice(x) => TickerStep
    BY DEF TickerStep
  <2> QED BY <1>4, <1>8, <2>1, <2>2, WritersOfInvoices
<1> QED BY <1>6, <1>7, <1>8

(* So the books hold after every step, ...                                 *)
LEMMA BooksStep == TypeOK /\ Books /\ [Next]_vars => Books'
BY TablesFiniteStep, FreshStep, PollsStep DEF Books

(* ... and they hold of the empty tables.                                  *)
LEMMA InitBooks == Init => Books
<1> SUFFICES ASSUME Init PROVE Books
  OBVIOUS
<1>1. DOMAIN rentals = {} /\ DOMAIN balance = {} /\ DOMAIN invoices = {}
  BY DEF Init, EmptyTable
<1>2. TablesFinite
  BY <1>1, FS_EmptySet DEF TablesFinite
<1> QED
  BY <1>2 DEF Init, Books, FreshIsUncharged, PollsUncredited, Asleep

-----------------------------------------------------------------------------
(* No sat is lost.                                                         *)

CreditedSats == SumFunction([i \in Credited |-> invoices[i].sats])
ChargedSats  == SumFunctionOnSet(ledger.charged, DOMAIN rentals)

(* What the rows of the tables are, for the lemmas about sums.             *)
LEMMA RowsAreSummable ==
    ASSUME TypeOK, TablesFinite
    PROVE  /\ IsFiniteSet(Credited) /\ Credited \subseteq DOMAIN invoices
           /\ \A i \in DOMAIN invoices : invoices[i].sats \in Nat
           /\ \A a \in DOMAIN balance : balance[a] \in Nat
           /\ DOMAIN rentals \subseteq RentalIds
           /\ ledger.charged \in [RentalIds -> Nat]
           /\ ledger.machine \in [Machines -> Int]
<1>1. Credited \in SUBSET DOMAIN invoices
  BY DEF Credited
<1>2. IsFiniteSet(Credited)
  BY <1>1, FS_Subset DEF TablesFinite
<1> QED BY <1>1, <1>2 DEF TypeOK, InvoiceRow, LedgerSums

(* The credited invoices: only poll_invoices adds to them, one at a time,  *)
(* one that was not among them.                                            *)
LEMMA CreditedStep ==
    ASSUME TypeOK, Books, [Next]_vars
    PROVE  /\ \/ CreditedSats' = CreditedSats
              \/ \E i \in InvoiceIds : SettleInvoice(i)
           /\ \A i \in InvoiceIds :
                 SettleInvoice(i) =>
                    CreditedSats' = CreditedSats + invoices[i].sats
<1>0. TablesFinite
  BY DEF Books
<1>1. ASSUME UNCHANGED invoices PROVE CreditedSats' = CreditedSats
  BY <1>1 DEF CreditedSats, Credited
<1>2. ASSUME NEW i \in InvoiceIds, NEW a \in Accounts, NEW sats \in DepositSats,
             Deposit(i, a, sats)
      PROVE  CreditedSats' = CreditedSats
  <2>1. /\ \A x \in DOMAIN invoices : invoices'[x] = invoices[x]
        /\ DOMAIN invoices' = DOMAIN invoices \cup {i}
        /\ ~invoices'[i].settled
    BY <1>2 DEF Deposit, Insert
  <2>2. Credited' = Credited
    BY <1>2, <2>1 DEF Credited, Deposit
  <2>3. [x \in Credited' |-> invoices'[x].sats]
          = [x \in Credited |-> invoices[x].sats]
    BY <2>1, <2>2 DEF Credited
  <2> QED BY <2>3 DEF CreditedSats
<1>3. ASSUME NEW i \in InvoiceIds, SettleInvoice(i)
      PROVE  CreditedSats' = CreditedSats + invoices[i].sats
  <2>1. i \in DOMAIN invoices /\ i \notin Credited
    BY <1>3 DEF SettleInvoice, TypeOK, References, Books, PollsUncredited,
       Credited
  <2>2. /\ DOMAIN invoices' = DOMAIN invoices
        /\ \A x \in DOMAIN invoices :
              /\ invoices'[x].sats = invoices[x].sats
              /\ invoices'[x].settled <=> (x = i \/ invoices[x].settled)
    <3>1. /\ invoices' = [invoices EXCEPT ![i].settled = TRUE]
          /\ invoices \in [DOMAIN invoices -> InvoiceRow]
      BY <1>3 DEF SettleInvoice, TypeOK
    <3>2. ASSUME NEW x \in DOMAIN invoices
          PROVE  /\ invoices'[x].sats = invoices[x].sats
                 /\ invoices'[x].settled <=> (x = i \/ invoices[x].settled)
      <4>1. CASE x = i
        BY <2>1, <3>1, <4>1 DEF InvoiceRow
      <4>2. CASE x # i
        BY <3>1, <4>2
      <4> QED BY <4>1, <4>2
    <3> QED BY <3>1, <3>2
  <2>3. Credited' = Credited \cup {i}
    BY <2>1, <2>2 DEF Credited
  <2>4. PICK f : f = [x \in Credited |-> invoices[x].sats]
    OBVIOUS
  <2>5. PICK g : g = [x \in Credited \cup {i} |-> invoices[x].sats]
    OBVIOUS
  <2>6. g = [x \in Credited' |-> invoices'[x].sats]
    BY <2>1, <2>2, <2>3, <2>5, RowsAreSummable, <1>0
  <2>7. /\ \A x \in Credited \cup {i} : g[x] \in Int
        /\ \A x \in Credited : f[x] \in Int /\ f[x] = g[x]
        /\ g[i] = invoices[i].sats
    BY <1>0, <2>1, <2>4, <2>5, RowsAreSummable
  <2>8. IsFiniteSet(Credited)
    BY <1>0, RowsAreSummable
  <2>9. SumFunctionOnSet(g, Credited \cup {i}) = g[i] + SumFunctionOnSet(g, Credited)
    BY <2>1, <2>7, <2>8, SumInsert
  <2>10. SumFunctionOnSet(f, Credited) = SumFunctionOnSet(g, Credited)
    BY <2>7, <2>8, SumCongruent
  <2>11. CreditedSats = SumFunctionOnSet(f, Credited)
    BY <2>4 DEF CreditedSats, SumFunction
  <2>12. CreditedSats' = SumFunctionOnSet(g, Credited \cup {i})
    BY <2>3, <2>5, <2>6 DEF CreditedSats, SumFunction
  <2>13. SumFunctionOnSet(f, Credited) \in Int
    BY <2>7, <2>8, SumIsInt
  <2> QED BY <2>7, <2>9, <2>10, <2>11, <2>12, <2>13
<1> QED BY <1>1, <1>2, <1>3, WritersOfInvoices

(* The charges, over the rows of a set of rentals.                         *)
LEMMA ChargesOf ==
    ASSUME TypeOK, TablesFinite, NEW S \in SUBSET DOMAIN rentals
    PROVE  /\ IsFiniteSet(S)
           /\ SumFunctionOnSet(ledger.charged, S) \in Nat
           /\ \A r \in RentalIds, charge \in Nat :
                 SumFunctionOnSet([ledger.charged EXCEPT ![r] = @ + charge], S)
                   = SumFunctionOnSet(ledger.charged, S)
                       + IF r \in S THEN charge ELSE 0
<1>1. IsFiniteSet(S)
  BY FS_Subset DEF TablesFinite
<1>2. ledger.charged \in [RentalIds -> Nat] /\ S \subseteq RentalIds
  BY RowsAreSummable
<1>3. SumFunctionOnSet(ledger.charged, S) \in Nat
  BY <1>1, <1>2, SumIsNat
<1>4. ASSUME NEW r \in RentalIds, NEW charge \in Nat
      PROVE  SumFunctionOnSet([ledger.charged EXCEPT ![r] = @ + charge], S)
               = SumFunctionOnSet(ledger.charged, S)
                   + IF r \in S THEN charge ELSE 0
  <2>1. PICK f : f = ledger.charged
    OBVIOUS
  <2>2. PICK g : g = [f EXCEPT ![r] = @ + charge]
    OBVIOUS
  <2>3. CASE r \in S
    <3>1. /\ \A x \in S : f[x] \in Int
          /\ g[r] = f[r] + charge
          /\ \A x \in S \ {r} : g[x] = f[x]
      BY <1>2, <2>1, <2>2
    <3>2. SumFunctionOnSet(g, S) = SumFunctionOnSet(f, S) + charge
      BY <1>1, <2>3, <3>1, SumUpdate
    <3> QED BY <2>1, <2>2, <2>3, <3>2
  <2>4. CASE r \notin S
    <3>1. \A x \in S : f[x] \in Int /\ f[x] = g[x]
      BY <1>2, <2>1, <2>2, <2>4
    <3>2. SumFunctionOnSet(f, S) = SumFunctionOnSet(g, S)
      BY <1>1, <3>1, SumCongruent
    <3> QED BY <1>3, <2>1, <2>2, <2>4, <3>2
  <2> QED BY <2>3, <2>4
<1> QED BY <1>1, <1>3, <1>4

(* A new rental adds nothing to a sum of charges.                          *)
LEMMA FreshAddsNothing ==
    ASSUME TypeOK, Books, NEW S \in SUBSET DOMAIN rentals,
           NEW r \in RentalIds \ DOMAIN rentals
    PROVE  SumFunctionOnSet(ledger.charged, S \cup {r})
             = SumFunctionOnSet(ledger.charged, S)
<1>1. TablesFinite /\ ledger.charged[r] = 0
  BY DEF Books, FreshIsUncharged
<1>2. /\ IsFiniteSet(S)
      /\ SumFunctionOnSet(ledger.charged, S) \in Nat
      /\ r \notin S
      /\ \A x \in S \cup {r} : ledger.charged[x] \in Int
  BY <1>1, ChargesOf, RowsAreSummable
<1>3. SumFunctionOnSet(ledger.charged, S \cup {r})
        = ledger.charged[r] + SumFunctionOnSet(ledger.charged, S)
  BY <1>2, SumInsert
<1> QED BY <1>1, <1>2, <1>3

(* Unless a report charges, the charges add up to the same.                *)
LEMMA ChargedSatsStay ==
    ASSUME TypeOK, Books, [Next]_vars, ledger'.charged = ledger.charged
    PROVE  ChargedSats' = ChargedSats
<1>1. CASE DOMAIN rentals' = DOMAIN rentals
  BY <1>1 DEF ChargedSats
<1>2. ASSUME NEW r \in RentalIds \ DOMAIN rentals,
             DOMAIN rentals' = DOMAIN rentals \cup {r}
      PROVE  ChargedSats' = ChargedSats
  BY <1>2, FreshAddsNothing DEF ChargedSats
<1> QED BY <1>1, <1>2, RentalsGrow

(* One step of the equation, by the writer of the balances.                *)
LEMMA SatsStep ==
    ASSUME TypeOK, Books, SatsConserved, [Next]_vars PROVE SatsConserved'
<1>0. /\ CreditedSats = SumFunctionOnSet(balance, DOMAIN balance) + ChargedSats
      /\ SatsConserved' <=>
           CreditedSats' = SumFunctionOnSet(balance', DOMAIN balance')
                             + ChargedSats'
  BY DEF SatsConserved, CreditedSats, ChargedSats, SumFunction
<1>1. /\ TablesFinite
      /\ IsFiniteSet(DOMAIN balance)
      /\ \A a \in DOMAIN balance : balance[a] \in Int
      /\ ledger.charged \in [RentalIds -> Nat]
  BY RowsAreSummable DEF Books, TablesFinite
<1>2. SumFunctionOnSet(balance, DOMAIN balance) \in Int /\ ChargedSats \in Int
  BY <1>1, SumIsInt, ChargesOf DEF ChargedSats
<1>3. ASSUME UNCHANGED <<balance, ledger>> PROVE SatsConserved'
  <2>1. ChargedSats' = ChargedSats
    BY <1>3, ChargedSatsStay
  <2>2. ASSUME NEW i \in InvoiceIds, SettleInvoice(i) PROVE FALSE
    <3>1. /\ invoices[i].account \in DOMAIN balance
          /\ invoices[i].sats \in Nat \ {0}
          /\ balance' = [balance EXCEPT ![invoices[i].account] =
                                          @ + invoices[i].sats]
      BY <2>2 DEF SettleInvoice, TypeOK, References, InvoiceRow
    <3>2. balance'[invoices[i].account] # balance[invoices[i].account]
      BY <1>1, <3>1
    <3> QED BY <1>3, <3>2
  <2>3. CreditedSats' = CreditedSats
    BY <2>2, CreditedStep
  <2> QED BY <1>0, <1>3, <2>1, <2>3
<1>4. ASSUME NEW a \in Accounts, CreateAccount(a) PROVE SatsConserved'
  <2>1. UNCHANGED <<ledger, rentals, invoices>> /\ a \notin DOMAIN balance
        /\ balance' = Insert(balance, a, 0)
    BY <1>4 DEF CreateAccount
  <2>2. /\ DOMAIN balance' = DOMAIN balance \cup {a}
        /\ \A x \in DOMAIN balance : balance'[x] = balance[x]
        /\ balance'[a] = 0
    BY <2>1 DEF Insert
  <2>3. SumFunctionOnSet(balance', DOMAIN balance \cup {a})
          = balance'[a] + SumFunctionOnSet(balance', DOMAIN balance)
    BY <1>1, <2>1, <2>2, SumInsert
  <2>4. SumFunctionOnSet(balance, DOMAIN balance)
          = SumFunctionOnSet(balance', DOMAIN balance)
    BY <1>1, <2>2, SumCongruent
  <2>5. CreditedSats' = CreditedSats /\ ChargedSats' = ChargedSats
    BY <2>1 DEF CreditedSats, Credited, ChargedSats
  <2> QED BY <1>0, <1>2, <2>2, <2>3, <2>4, <2>5
<1>5. ASSUME NEW i \in InvoiceIds, SettleInvoice(i) PROVE SatsConserved'
  <2>1. PICK a, sats : a = invoices[i].account /\ sats = invoices[i].sats
    OBVIOUS
  <2>2. /\ a \in DOMAIN balance /\ sats \in Nat
        /\ balance' = [balance EXCEPT ![a] = @ + sats]
    BY <1>5, <2>1 DEF SettleInvoice, TypeOK, References, InvoiceRow
  <2>3. SumFunctionOnSet(balance', DOMAIN balance)
          = SumFunctionOnSet(balance, DOMAIN balance) + sats
    <3>1. /\ a \in DOMAIN balance /\ sats \in Int
          /\ balance'[a] = balance[a] + sats
          /\ \A x \in DOMAIN balance \ {a} : balance'[x] = balance[x]
      BY <2>2
    <3> QED BY <1>1, <3>1, SumUpdate
  <2>4. DOMAIN balance' = DOMAIN balance
    BY <2>2
  <2>5. CreditedSats' = CreditedSats + sats
    BY <1>5, <2>1, CreditedStep
  <2>6. ledger'.charged = ledger.charged
    BY <1>5 DEF SettleInvoice, RecordDeposit, TypeOK, LedgerSums
  <2>7. ChargedSats' = ChargedSats
    BY <2>6, ChargedSatsStay
  <2> QED BY <1>0, <1>2, <2>2, <2>3, <2>4, <2>5, <2>7
<1>6. ASSUME NEW s \in Slots, ReportCommit(s) PROVE SatsConserved'
  <2>1. PICK charge \in Nat, r \in DOMAIN rentals, a \in DOMAIN balance :
           /\ balance' = [balance EXCEPT ![a] = @ - charge]
           /\ ledger'.charged = [ledger.charged EXCEPT ![r] = @ + charge]
    BY <1>6, ReportMoves
  <2>2. UNCHANGED invoices /\ DOMAIN rentals' = DOMAIN rentals
    BY <1>6, ReportedRow DEF ReportCommit
  <2>3. CreditedSats' = CreditedSats
    BY <2>2 DEF CreditedSats, Credited
  <2>4. ChargedSats' = ChargedSats + charge
    BY <1>1, <2>1, <2>2, ChargesOf, RowsAreSummable DEF ChargedSats
  <2>5. /\ DOMAIN balance' = DOMAIN balance
        /\ -charge \in Int
        /\ balance'[a] = balance[a] + (-charge)
        /\ \A x \in DOMAIN balance \ {a} : balance'[x] = balance[x]
    BY <1>1, <2>1
  <2>6. SumFunctionOnSet(balance', DOMAIN balance)
          = SumFunctionOnSet(balance, DOMAIN balance) + (-charge)
    BY <1>1, <2>5, SumUpdate
  <2> QED BY <1>0, <1>2, <2>3, <2>4, <2>5, <2>6
<1>7. ASSUME NEW s \in Slots, PayoutCommit(s) PROVE SatsConserved'
  <2>1. UNCHANGED <<balance, invoices>>
    BY <1>7 DEF PayoutCommit
  <2>2. ledger'.charged = ledger.charged
    BY <1>7 DEF PayoutCommit, RecordPayout, TypeOK, LedgerSums
  <2>3. ChargedSats' = ChargedSats
    BY <2>2, ChargedSatsStay
  <2>4. CreditedSats' = CreditedSats
    BY <2>1 DEF CreditedSats, Credited
  <2> QED BY <1>0, <2>1, <2>3, <2>4
<1> QED BY <1>3, <1>4, <1>5, <1>6, <1>7, WritersOfBalances

(* What the settled invoices brought in is what the accounts hold plus     *)
(* what rentals were charged, over every crash, failed poll and repeated   *)
(* tick: no deposit is credited twice and no charge takes what it does not *)
(* record.                                                                 *)
THEOREM NoSatIsLost == Spec => []SatsConserved
<1>1. Init => SatsConserved
  <2> SUFFICES ASSUME Init PROVE SatsConserved
    OBVIOUS
  <2>1. DOMAIN rentals = {} /\ DOMAIN balance = {} /\ Credited = {}
    BY DEF Init, EmptyTable, Credited
  <2>2. DOMAIN [i \in Credited |-> invoices[i].sats] = {}
    BY <2>1
  <2> QED BY <2>1, <2>2, SumEmpty DEF SatsConserved, SumFunction
<1>2. TypeOK /\ Books /\ SatsConserved /\ [Next]_vars => SatsConserved'
  BY SatsStep
<1> QED BY <1>1, <1>2, InitBooks, BooksStep, TypeCorrect, PTL DEF Spec

-----------------------------------------------------------------------------
(* What the hosts are owed.                                                *)

(* A host's balance is kept, cleared, or credited by a report.             *)
LEMMA WritersOfOwed ==
    ASSUME TypeOK, [Next]_vars, NEW m \in DOMAIN machines'
    PROVE  \/ /\ m \in DOMAIN machines
              /\ machines'[m].payoutBalance = machines[m].payoutBalance
           \/ machines'[m].payoutBalance = 0
           \/ \E s \in Slots : ReportCommit(s)
<1> DEFINE Goal == \/ /\ m \in DOMAIN machines
                      /\ machines'[m].payoutBalance = machines[m].payoutBalance
                   \/ machines'[m].payoutBalance = 0
<1>0. machines \in [DOMAIN machines -> MachineRow]
  BY DEF TypeOK
<1>1. CASE UNCHANGED machines
  BY <1>1
<1>2. ASSUME NEW x \in Machines, NEW rate \in Rates, RegisterNew(x, rate)
      PROVE  Goal
  BY <1>2 DEF RegisterNew, Insert
<1>3. ASSUME NEW x \in Machines, NEW rate \in Rates, RegisterAgain(x, rate)
      PROVE  Goal
  BY <1>0, <1>3 DEF RegisterAgain, MachineRow
<1>4. ASSUME NEW x \in Machines, NEW online \in BOOLEAN, Heartbeat(x, online)
      PROVE  Goal
  BY <1>0, <1>4 DEF Heartbeat, MachineRow
<1>5. ASSUME NEW x \in Machines, NEW rate \in Rates, SetRate(x, rate)
      PROVE  Goal
  BY <1>0, <1>5 DEF SetRate, MachineRow
<1>6. CASE MarkOffline
  BY <1>0, <1>6 DEF MarkOffline, MachineRow
<1>7. ASSUME NEW s \in Slots, PayoutCommit(s) PROVE Goal
  <2>1. PICK x : machines' = [machines EXCEPT ![x].payoutBalance = 0]
    BY <1>7 DEF PayoutCommit
  <2> QED BY <1>0, <2>1 DEF MachineRow
<1> QED
  BY <1>1, <1>2, <1>3, <1>4, <1>5, <1>6, <1>7
  DEF Next, vars, tables, PassTime, TenantRequest, ProviderRequest,
      AgentRequest, Commit, TickerStep, Fault, ReportRead, PayoutPay,
      CreateAccount, Deposit, CreateRental, DeleteRead, DeleteCommit,
      PollInvoices, SettleInvoice, SkipInvoice, PollFails, ListRunning,
      KeepRental, CondemnRental, EvictRental, EndTick, PayInvoice, Abort,
      Restart

(* Unless a report charges, each machine's rentals were charged the same.  *)
LEMMA ChargedForStays ==
    ASSUME TypeOK, Books, [Next]_vars, NEW m, ledger'.charged = ledger.charged
    PROVE  ChargedFor(m)' = ChargedFor(m)
<1>0. RentalsOf(m) \in SUBSET DOMAIN rentals
  BY DEF RentalsOf
<1>1. CASE DOMAIN rentals' = DOMAIN rentals
  <2>1. RentalsOf(m)' = RentalsOf(m)
    BY <1>1, RentalsGrow DEF RentalsOf
  <2> QED BY <2>1 DEF ChargedFor
<1>2. ASSUME NEW r \in RentalIds \ DOMAIN rentals,
             DOMAIN rentals' = DOMAIN rentals \cup {r}
      PROVE  ChargedFor(m)' = ChargedFor(m)
  <2>1. \/ RentalsOf(m)' = RentalsOf(m)
        \/ RentalsOf(m)' = RentalsOf(m) \cup {r}
    BY <1>2, RentalsGrow DEF RentalsOf
  <2> QED BY <1>0, <2>1, FreshAddsNothing DEF ChargedFor
<1> QED BY <1>1, <1>2, RentalsGrow

(* A report adds its charge to the machine of its rental.                  *)
LEMMA ChargedForGrows ==
    ASSUME TypeOK, Books, NEW s \in Slots, ReportCommit(s), NEW m,
           NEW charge \in Nat, NEW r \in DOMAIN rentals,
           ledger'.charged = [ledger.charged EXCEPT ![r] = @ + charge]
    PROVE  ChargedFor(m)' = ChargedFor(m) + IF rentals[r].machine = m
                                            THEN charge ELSE 0
<1>1. /\ RentalsOf(m) \in SUBSET DOMAIN rentals
      /\ r \in RentalsOf(m) <=> rentals[r].machine = m
  BY DEF RentalsOf
<1>2. RentalsOf(m)' = RentalsOf(m)
  BY ReportedRow DEF RentalsOf
<1>3. TablesFinite /\ r \in RentalIds
  BY DEF Books, TypeOK
<1>4. PICK c : c = ledger'.charged
  OBVIOUS
<1>5. SumFunctionOnSet(c, RentalsOf(m))
        = SumFunctionOnSet(ledger.charged, RentalsOf(m))
            + IF r \in RentalsOf(m) THEN charge ELSE 0
  BY <1>1, <1>3, <1>4, ChargesOf
<1>6. ChargedFor(m)' = SumFunctionOnSet(c, RentalsOf(m))
  BY <1>2, <1>4 DEF ChargedFor
<1> QED BY <1>1, <1>5, <1>6 DEF ChargedFor

(* One step of the inequality.                                             *)
LEMMA OwedStep ==
    ASSUME TypeOK, Books, OwedWasCharged, [Next]_vars PROVE OwedWasCharged'
<1> SUFFICES ASSUME NEW m \in DOMAIN machines'
             PROVE  machines'[m].payoutBalance <= ChargedFor(m)'
  BY DEF OwedWasCharged
<1>0. /\ TypeOK' /\ Books' /\ TablesFinite'
      /\ machines \in [DOMAIN machines -> MachineRow]
  BY TypeStep, BooksStep DEF Books, TypeOK
<1>1. ChargedFor(m) \in Nat /\ ChargedFor(m)' \in Nat
  <2>1. /\ RentalsOf(m) \in SUBSET DOMAIN rentals
        /\ RentalsOf(m)' \in SUBSET DOMAIN rentals'
    BY DEF RentalsOf
  <2>2. ChargedFor(m) \in Nat
    BY <2>1, ChargesOf DEF ChargedFor, Books
  <2>3. /\ IsFiniteSet(RentalsOf(m)')
        /\ \A r \in RentalsOf(m)' : ledger'.charged[r] \in Nat
    BY <1>0, <2>1, FS_Subset DEF TablesFinite, TypeOK, LedgerSums
  <2>4. ChargedFor(m)' \in Nat
    BY <2>3, SumIsNat DEF ChargedFor
  <2> QED BY <2>2, <2>4
<1>2. CASE machines'[m].payoutBalance = 0
  BY <1>1, <1>2
<1>3. ASSUME NEW s \in Slots, ReportCommit(s)
      PROVE  machines'[m].payoutBalance <= ChargedFor(m)'
  <2>1. PICK charge \in Nat, r \in DOMAIN rentals, x \in DOMAIN machines :
           /\ rentals[r].machine = x
           /\ machines' = [machines EXCEPT ![x].payoutBalance = @ + charge]
           /\ ledger'.charged = [ledger.charged EXCEPT ![r] = @ + charge]
    BY <1>3, ReportMoves
  <2>2. ChargedFor(m)' = ChargedFor(m) + IF x = m THEN charge ELSE 0
    BY <1>3, <2>1, ChargedForGrows
  <2>3. /\ m \in DOMAIN machines
        /\ machines[m].payoutBalance \in Nat
        /\ machines'[m].payoutBalance
             = machines[m].payoutBalance + IF x = m THEN charge ELSE 0
    BY <1>0, <2>1 DEF MachineRow
  <2>4. machines[m].payoutBalance <= ChargedFor(m)
    BY <2>3 DEF OwedWasCharged
  <2> QED BY <1>1, <2>2, <2>3, <2>4
<1>4. CASE /\ m \in DOMAIN machines
           /\ machines'[m].payoutBalance = machines[m].payoutBalance
           /\ ledger'.charged = ledger.charged
  <2>1. ChargedFor(m)' = ChargedFor(m)
    BY <1>4, ChargedForStays
  <2> QED BY <1>4, <2>1 DEF OwedWasCharged
<1> QED BY <1>2, <1>3, <1>4, WritersOfOwed, WritersOfCharges

(* What a host is owed never exceeds what its rentals were charged.        *)
THEOREM OwedIsCovered == Spec => []OwedWasCharged
<1>1. Init => OwedWasCharged
  BY DEF Init, EmptyTable, OwedWasCharged
<1>2. TypeOK /\ Books /\ OwedWasCharged /\ [Next]_vars => OwedWasCharged'
  BY OwedStep
<1> QED BY <1>1, <1>2, InitBooks, BooksStep, TypeCorrect, PTL DEF Spec

-----------------------------------------------------------------------------
(* What was paid out.                                                      *)

InFlight == {s \in Slots : requests[s] # Idle}

(* The handlers in flight are finitely many.                               *)
LEMMA InFlightStep ==
    ASSUME TypeOK, IsFiniteSet(InFlight), [Next]_vars
    PROVE  /\ IsFiniteSet(InFlight')
           /\ \A s \in Slots : \/ requests'[s] = requests[s]
                               \/ requests[s] = Idle
                               \/ requests'[s] = Idle
<1> DEFINE Turns == \A s \in Slots : \/ requests'[s] = requests[s]
                                     \/ requests[s] = Idle
                                     \/ requests'[s] = Idle
<1>0. requests \in [Slots -> Request]
  BY DEF TypeOK
<1>1. ASSUME UNCHANGED requests PROVE IsFiniteSet(InFlight') /\ Turns
  BY <1>1 DEF InFlight
<1>2. ASSUME NEW x \in Slots, NEW q, requests[x] = Idle \/ q = Idle,
             requests' = [requests EXCEPT ![x] = q]
      PROVE  IsFiniteSet(InFlight') /\ Turns
  <2>1. \A s \in Slots \ {x} : requests'[s] = requests[s]
    BY <1>0, <1>2
  <2>2. requests'[x] = q
    BY <1>0, <1>2
  <2>3. InFlight' \in SUBSET (InFlight \cup {x})
    BY <2>1 DEF InFlight
  <2>4. IsFiniteSet(InFlight')
    BY <2>3, FS_AddElement, FS_Subset
  <2>5. Turns
    BY <1>2, <2>1, <2>2
  <2> QED BY <2>4, <2>5
<1>3. ASSUME Restart PROVE IsFiniteSet(InFlight') /\ Turns
  <2>1. \A s \in Slots : requests'[s] = Idle
    BY <1>3 DEF Restart
  <2>2. InFlight' = {}
    BY <2>1 DEF InFlight
  <2> QED BY <2>1, <2>2, FS_EmptySet
<1>4. ASSUME NEW s \in Slots, NEW r \in RentalIds, NEW status \in ReportStatus,
             ReportRead(s, r, status)
      PROVE  IsFiniteSet(InFlight') /\ Turns
  BY <1>2, <1>4 DEF ReportRead
<1>5. ASSUME NEW s \in Slots, Commit(s) \/ Abort(s)
      PROVE  IsFiniteSet(InFlight') /\ Turns
  BY <1>2, <1>5 DEF Commit, ReportCommit, PayoutCommit, DeleteCommit, Abort
<1>6. ASSUME NEW s \in Slots, NEW r \in RentalIds, DeleteRead(s, r)
      PROVE  IsFiniteSet(InFlight') /\ Turns
  BY <1>2, <1>6 DEF DeleteRead
<1>7. ASSUME NEW s \in Slots, NEW m \in Machines, PayoutPay(s, m)
      PROVE  IsFiniteSet(InFlight') /\ Turns
  BY <1>2, <1>7 DEF PayoutPay
<1> HIDE DEF Turns
<1>8. ASSUME TickerStep PROVE UNCHANGED requests
  BY <1>8 DEF TickerStep, PollInvoices, SettleInvoice, SkipInvoice,
     MarkOffline, ListRunning, KeepRental, CondemnRental, EvictRental, EndTick
<1>9. ASSUME TenantRequest PROVE IsFiniteSet(InFlight') /\ Turns
  BY <1>1, <1>6, <1>9 DEF TenantRequest, CreateAccount, Deposit, CreateRental
<1>10. ASSUME ProviderRequest PROVE IsFiniteSet(InFlight') /\ Turns
  BY <1>1, <1>7, <1>10 DEF ProviderRequest, SetRate
<1>11. ASSUME AgentRequest PROVE IsFiniteSet(InFlight') /\ Turns
  BY <1>1, <1>4, <1>11 DEF AgentRequest, RegisterNew, RegisterAgain, Heartbeat
<1>12. ASSUME Fault PROVE IsFiniteSet(InFlight') /\ Turns
  BY <1>1, <1>3, <1>5, <1>12 DEF Fault, PollFails
<1>13. ASSUME UNCHANGED vars \/ PassTime \/ \E i \in InvoiceIds : PayInvoice(i)
       PROVE  UNCHANGED requests
  BY <1>13 DEF vars, PassTime, PayInvoice
<1>14. IsFiniteSet(InFlight') /\ Turns
  BY <1>1, <1>5, <1>8, <1>9, <1>10, <1>11, <1>12, <1>13 DEF Next
<1> QED BY <1>14 DEF Turns

(* The payouts that a set of slots holds, as a sum over one function of    *)
(* all the slots.                                                          *)
LEMMA SatsOfIsSum ==
    ASSUME NEW reqs, NEW T \in SUBSET Slots, IsFiniteSet(T),
           \A s \in T : reqs[s].sats \in Nat
    PROVE  SatsOf(reqs, T)
             = SumFunctionOnSet([s \in Slots |-> reqs[s].sats], T)
<1>1. PICK f : f = [s \in T |-> reqs[s].sats]
  OBVIOUS
<1>2. PICK g : g = [s \in Slots |-> reqs[s].sats]
  OBVIOUS
<1>3. \A s \in T : f[s] \in Int /\ f[s] = g[s]
  BY <1>1, <1>2
<1>4. SumFunctionOnSet(f, T) = SumFunctionOnSet(g, T)
  BY <1>3, SumCongruent
<1>5. SatsOf(reqs, T) = SumFunctionOnSet(f, T)
  BY <1>1 DEF SatsOf, SumFunction
<1> QED BY <1>2, <1>4, <1>5

(* Payouts held before and after a step, when a slot that holds one in     *)
(* both holds the same: the held sats only grow by what was taken up, and  *)
(* dropping one takes away its sats.                                       *)
LEMMA HeldSats ==
    ASSUME NEW reqs, NEW reqs2,
           NEW H \in SUBSET Slots, NEW H2 \in SUBSET Slots,
           IsFiniteSet(H), IsFiniteSet(H2),
           \A s \in H : reqs[s].sats \in Nat,
           \A s \in H2 : reqs2[s].sats \in Nat,
           \A s \in H \cap H2 : reqs2[s] = reqs[s]
    PROVE  /\ SatsOf(reqs, H) \in Nat
           /\ SatsOf(reqs2, H2) \in Nat
           /\ SatsOf(reqs2, H2 \ H) \in Nat
           /\ SatsOf(reqs2, H2) <= SatsOf(reqs, H) + SatsOf(reqs2, H2 \ H)
           /\ \A s \in H \ H2 :
                 SatsOf(reqs2, H2) + reqs[s].sats
                    <= SatsOf(reqs, H) + SatsOf(reqs2, H2 \ H)
<1>1. PICK f : f = [s \in Slots |-> reqs[s].sats]
  OBVIOUS
<1>2. PICK g : g = [s \in Slots |-> reqs2[s].sats]
  OBVIOUS
<1>3. /\ \A s \in H : f[s] \in Nat /\ f[s] = reqs[s].sats
      /\ \A s \in H2 : g[s] \in Nat
      /\ \A s \in H2 \cap H : f[s] = g[s]
  BY <1>1, <1>2
<1>4. /\ IsFiniteSet(H2 \ H) /\ IsFiniteSet(H2 \cap H)
      /\ (H2 \ H) \cap (H2 \cap H) = {}
      /\ (H2 \ H) \cup (H2 \cap H) = H2
  BY FS_Subset
<1>5. /\ SatsOf(reqs, H) = SumFunctionOnSet(f, H)
      /\ SatsOf(reqs2, H2) = SumFunctionOnSet(g, H2)
      /\ SatsOf(reqs2, H2 \ H) = SumFunctionOnSet(g, H2 \ H)
  BY <1>1, <1>2, <1>4, SatsOfIsSum
<1>6. SumFunctionOnSet(g, (H2 \ H) \cup (H2 \cap H))
        = SumFunctionOnSet(g, H2 \ H) + SumFunctionOnSet(g, H2 \cap H)
  BY <1>3, <1>4, SumDisjoint
<1>7. SumFunctionOnSet(f, H2 \cap H) = SumFunctionOnSet(g, H2 \cap H)
  BY <1>3, <1>4, SumCongruent
<1>8. /\ SumFunctionOnSet(f, H) \in Nat
      /\ SumFunctionOnSet(g, H2) \in Nat
      /\ SumFunctionOnSet(g, H2 \ H) \in Nat
      /\ SumFunctionOnSet(g, H2 \cap H) \in Nat
  BY <1>3, <1>4, SumIsNat
<1>9. SumFunctionOnSet(f, H2 \cap H) <= SumFunctionOnSet(f, H)
  BY <1>3, SumOfPart
<1>10. SumFunctionOnSet(g, H2)
         = SumFunctionOnSet(g, H2 \ H) + SumFunctionOnSet(f, H2 \cap H)
  BY <1>4, <1>6, <1>7
<1>11. ASSUME NEW s \in H \ H2
       PROVE  SumFunctionOnSet(f, H2 \cap H) + reqs[s].sats
                <= SumFunctionOnSet(f, H)
  <2>1. SumFunctionOnSet(f, H) = f[s] + SumFunctionOnSet(f, H \ {s})
    BY <1>3, SumRemove
  <2>2. H2 \cap H \in SUBSET (H \ {s}) /\ IsFiniteSet(H \ {s})
    BY FS_Subset
  <2>3. SumFunctionOnSet(f, H2 \cap H) <= SumFunctionOnSet(f, H \ {s})
    BY <1>3, <2>2, SumOfPart
  <2>4. SumFunctionOnSet(f, H \ {s}) \in Nat
    BY <1>3, <2>2, SumIsNat
  <2> QED BY <1>3, <1>7, <1>8, <2>1, <2>3, <2>4
<1>12. SumFunctionOnSet(f, H2 \cap H) \in Nat
  BY <1>7, <1>8
<1>13. SumFunctionOnSet(g, H2)
         <= SumFunctionOnSet(f, H) + SumFunctionOnSet(g, H2 \ H)
  BY <1>8, <1>9, <1>10, <1>12
<1>14. ASSUME NEW s \in H \ H2
       PROVE  SumFunctionOnSet(g, H2) + reqs[s].sats
                <= SumFunctionOnSet(f, H) + SumFunctionOnSet(g, H2 \ H)
  <2>1. SumFunctionOnSet(f, H2 \cap H) + reqs[s].sats
          <= SumFunctionOnSet(f, H)
    BY <1>11
  <2>2. reqs[s].sats \in Nat
    OBVIOUS
  <2> QED BY <1>8, <1>10, <1>12, <2>1, <2>2
<1> QED BY <1>5, <1>8, <1>13, <1>14

(* The strengthening, for every machine, registered or not.                *)
CoveredInv ==
    /\ IsFiniteSet(InFlight)
    /\ covered \in [Machines -> Nat]
    /\ \A m \in Machines :
          RecordedPayouts(m) + SatsOf(requests, Holding(requests, m))
            <= covered[m]

(* The payouts in flight for a machine are finitely many, of natural sats. *)
LEMMA HoldingIs ==
    ASSUME TypeOK, IsFiniteSet(InFlight), NEW m
    PROVE  /\ Holding(requests, m) \in SUBSET Slots
           /\ IsFiniteSet(Holding(requests, m))
           /\ \A s \in Holding(requests, m) :
                 requests[s].sats \in Nat /\ requests[s] # Idle
<1>1. \A s \in Holding(requests, m) :
         s \in Slots /\ requests[s].sats \in Nat /\ requests[s] # Idle
  BY PayoutInFlight DEF Holding, Payout, Idle
<1>2. Holding(requests, m) \in SUBSET InFlight
  BY <1>1 DEF InFlight
<1> QED BY <1>1, <1>2, FS_Subset

(* What the ledger records as paid out grows only with the commit of a     *)
(* payout, by what that payout has read.                                   *)
LEMMA RecordedStep ==
    ASSUME TypeOK, Books, [Next]_vars, NEW m \in Machines
    PROVE  /\ RecordedPayouts(m) \in Int
           /\ \/ RecordedPayouts(m)' = RecordedPayouts(m)
              \/ \E s \in Holding(requests, m) :
                    /\ requests'[s] = Idle
                    /\ RecordedPayouts(m)' = RecordedPayouts(m)
                                               + requests[s].sats
<1>0. /\ ledger \in LedgerSums
      /\ ledger.machine \in [Machines -> Int]
      /\ RentalsOf(m) \in SUBSET DOMAIN rentals
      /\ TablesFinite
  BY DEF TypeOK, LedgerSums, RentalsOf, Books
<1>1. ChargedFor(m) \in Nat
  BY <1>0, ChargesOf DEF ChargedFor
<1>2. RecordedPayouts(m) \in Int
  BY <1>0, <1>1 DEF RecordedPayouts
<1>3. ASSUME ledger'.machine = ledger.machine, ledger'.charged = ledger.charged
      PROVE  RecordedPayouts(m)' = RecordedPayouts(m)
  BY <1>3, ChargedForStays DEF RecordedPayouts
<1>4. ASSUME UNCHANGED <<balance, ledger>> \/ \E a \in Accounts : CreateAccount(a)
      PROVE  RecordedPayouts(m)' = RecordedPayouts(m)
  <2>1. ledger' = ledger
    BY <1>4 DEF CreateAccount
  <2> QED BY <1>3, <2>1
<1>5. ASSUME NEW i \in InvoiceIds, SettleInvoice(i)
      PROVE  RecordedPayouts(m)' = RecordedPayouts(m)
  BY <1>0, <1>3, <1>5 DEF SettleInvoice, RecordDeposit, LedgerSums
<1>6. ASSUME NEW s \in Slots, ReportCommit(s)
      PROVE  RecordedPayouts(m)' = RecordedPayouts(m)
  <2>1. PICK charge \in Nat, r \in DOMAIN rentals, x \in DOMAIN machines :
           /\ rentals[r].machine = x
           /\ ledger'.machine = [ledger.machine EXCEPT ![x] = @ + charge]
           /\ ledger'.charged = [ledger.charged EXCEPT ![r] = @ + charge]
    BY <1>6, ReportMoves
  <2>2. ChargedFor(m)' = ChargedFor(m) + IF x = m THEN charge ELSE 0
    BY <1>6, <2>1, ChargedForGrows
  <2>3. ledger'.machine[m] = ledger.machine[m] + IF x = m THEN charge ELSE 0
    BY <1>0, <2>1
  <2> QED BY <1>0, <1>1, <2>2, <2>3 DEF RecordedPayouts
<1>7. ASSUME NEW s \in Slots, PayoutCommit(s)
      PROVE  \/ RecordedPayouts(m)' = RecordedPayouts(m)
             \/ /\ s \in Holding(requests, m)
                /\ requests'[s] = Idle
                /\ RecordedPayouts(m)' = RecordedPayouts(m) + requests[s].sats
  <2>1. PICK x, sats : x = requests[s].machine /\ sats = requests[s].sats
    OBVIOUS
  <2>2. /\ sats \in Nat /\ x \in Machines
        /\ requests[s].op = "payout"
    BY <1>7, <2>1, PayoutInFlight DEF PayoutCommit, Payout
  <2>3. ledger' = [ledger EXCEPT !.machine[x] = @ - sats]
    BY <1>7, <2>1 DEF PayoutCommit, RecordPayout
  <2>4. /\ ledger'.charged = ledger.charged
        /\ ledger'.machine = [ledger.machine EXCEPT ![x] = @ - sats]
    BY <1>0, <2>3 DEF LedgerSums
  <2>5. ChargedFor(m)' = ChargedFor(m)
    BY <2>4, ChargedForStays
  <2>6. CASE x = m
    <3>1. s \in Holding(requests, m)
      BY <2>1, <2>2, <2>6 DEF Holding
    <3>2. requests'[s] = Idle
      BY <1>7 DEF PayoutCommit, TypeOK
    <3>3. ledger'.machine[m] = ledger.machine[m] - sats
      BY <1>0, <2>4, <2>6
    <3>4. RecordedPayouts(m)' = RecordedPayouts(m) + sats
      BY <1>0, <1>1, <2>2, <2>5, <3>3 DEF RecordedPayouts
    <3> QED BY <2>1, <3>1, <3>2, <3>4
  <2>7. CASE x # m
    <3>1. ledger'.machine[m] = ledger.machine[m]
      BY <1>0, <2>4, <2>7
    <3> QED BY <2>5, <3>1 DEF RecordedPayouts
  <2> QED BY <2>6, <2>7
<1> QED BY <1>2, <1>4, <1>5, <1>6, <1>7, WritersOfBalances

(* One step of the inequality.                                             *)
LEMMA CoveredStep ==
    ASSUME TypeOK, Books, CoveredInv, [PayoutsNext]_payoutVars PROVE CoveredInv'
<1>0. TypeOK' /\ [Next]_vars /\ IsFiniteSet(InFlight')
  BY TypeStep, InFlightStep DEF PayoutsNext, payoutVars, CoveredInv
<1>1. CASE UNCHANGED payoutVars
  BY <1>1 DEF payoutVars, vars, CoveredInv, InFlight, RecordedPayouts, ChargedFor,
     RentalsOf, tables
<1>2. ASSUME PayoutsNext, NEW m \in Machines
      PROVE  /\ covered'[m] \in Nat
             /\ RecordedPayouts(m)' + SatsOf(requests', Holding(requests', m))
                  <= covered'[m]
  <2>1. PICK H, H2 : H = Holding(requests, m) /\ H2 = Holding(requests', m)
    OBVIOUS
  <2>2. /\ H \in SUBSET Slots /\ IsFiniteSet(H)
        /\ \A s \in H : requests[s].sats \in Nat /\ requests[s] # Idle
    BY <2>1, HoldingIs DEF CoveredInv
  <2>3. /\ H2 \in SUBSET Slots /\ IsFiniteSet(H2)
        /\ \A s \in H2 : requests'[s].sats \in Nat /\ requests'[s] # Idle
    <3>1. \A s \in H2 :
             s \in Slots /\ requests'[s].sats \in Nat /\ requests'[s] # Idle
      BY <1>0, <2>1 DEF TypeOK, Request, Holding, Payout, Report, Delete, Idle
    <3>2. H2 \in SUBSET InFlight'
      BY <3>1 DEF InFlight
    <3> QED BY <1>0, <3>1, <3>2, FS_Subset
  <2>4. \A s \in H \cap H2 : requests'[s] = requests[s]
    BY <1>0, <2>2, <2>3, InFlightStep DEF CoveredInv
  <2>5. /\ SatsOf(requests, H) \in Nat
        /\ SatsOf(requests', H2) \in Nat
        /\ SatsOf(requests', H2 \ H) \in Nat
        /\ SatsOf(requests', H2)
             <= SatsOf(requests, H) + SatsOf(requests', H2 \ H)
        /\ \A s \in H \ H2 :
              SatsOf(requests', H2) + requests[s].sats
                <= SatsOf(requests, H) + SatsOf(requests', H2 \ H)
    BY <2>2, <2>3, <2>4, HeldSats
  <2>6. covered'[m] = covered[m] + SatsOf(requests', H2 \ H)
    BY <1>2, <2>1 DEF PayoutsNext, TakenUp
  <2>7. /\ covered[m] \in Nat
        /\ RecordedPayouts(m) + SatsOf(requests, H) <= covered[m]
    BY <2>1 DEF CoveredInv
  <2>8. RecordedPayouts(m) \in Int
    BY <1>0, RecordedStep
  <2>9. CASE RecordedPayouts(m)' = RecordedPayouts(m)
    BY <2>1, <2>5, <2>6, <2>7, <2>8, <2>9
  <2>10. ASSUME NEW s \in H, requests'[s] = Idle,
                RecordedPayouts(m)' = RecordedPayouts(m) + requests[s].sats
         PROVE  RecordedPayouts(m)' + SatsOf(requests', H2) <= covered'[m]
    <3>1. s \in H \ H2 /\ requests[s].sats \in Nat
      BY <2>2, <2>3, <2>10
    <3>2. SatsOf(requests', H2) + requests[s].sats
            <= SatsOf(requests, H) + SatsOf(requests', H2 \ H)
      BY <2>5, <3>1
    <3> QED BY <2>5, <2>6, <2>7, <2>8, <2>10, <3>1, <3>2
  <2>11. covered'[m] \in Nat
    BY <2>5, <2>6, <2>7
  <2> QED BY <1>0, <2>1, <2>9, <2>10, <2>11, RecordedStep
<1>3. PayoutsNext => covered' \in [Machines -> Nat]
  BY <1>2 DEF PayoutsNext
<1> QED BY <1>0, <1>1, <1>2, <1>3 DEF CoveredInv

(* The ledger records no payout without a payment, and none twice, over    *)
(* every abort and restart between the payment and the transaction.        *)
THEOREM RecordedIsPaid == PayoutsSpec => []RecordedWasPaid
<1>1. PayoutsInit => CoveredInv
  <2> SUFFICES ASSUME PayoutsInit PROVE CoveredInv
    OBVIOUS
  <2>1. \A s \in Slots : requests[s] = Idle
    BY DEF PayoutsInit, Init
  <2>2. InFlight = {} /\ \A m : Holding(requests, m) = {}
    BY <2>1 DEF InFlight, Holding, Idle
  <2>3. SatsOf(requests, {}) = 0
    <3>1. DOMAIN [s \in {} |-> requests[s].sats] = {}
      OBVIOUS
    <3> QED BY <3>1, SumEmpty DEF SatsOf, SumFunction
  <2>4. ASSUME NEW m \in Machines PROVE RecordedPayouts(m) = 0
    <3>1. RentalsOf(m) = {} /\ ledger.machine[m] = 0
      BY DEF RentalsOf, PayoutsInit, Init, EmptyTable
    <3> QED BY <3>1, SumEmpty DEF RecordedPayouts, ChargedFor
  <2>5. covered = [m \in Machines |-> 0]
    BY DEF PayoutsInit
  <2> QED BY <2>2, <2>3, <2>4, <2>5, FS_EmptySet DEF CoveredInv
<1>2. PayoutsInit => TypeOK /\ Books
  BY InitType, InitBooks DEF PayoutsInit
<1>3. TypeOK /\ Books /\ CoveredInv /\ [PayoutsNext]_payoutVars
         => (TypeOK /\ Books /\ CoveredInv)'
  <2>1. [PayoutsNext]_payoutVars => [Next]_vars
    BY DEF PayoutsNext, payoutVars
  <2> QED BY <2>1, TypeStep, BooksStep, CoveredStep
<1>4. TypeOK /\ CoveredInv => RecordedWasPaid
  BY DEF TypeOK, CoveredInv, RecordedWasPaid
<1> QED BY <1>1, <1>2, <1>3, <1>4, PTL DEF PayoutsSpec

=============================================================================
