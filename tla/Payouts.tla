------------------------------ MODULE Payouts ------------------------------
(***************************************************************************)
(* The control plane with a history of what the Lightning node has paid    *)
(* out to the hosts.  `payout` pays first and opens its transaction        *)
(* afterwards: what happens in between is seen only in this history.       *)
(*                                                                         *)
(* The invoice is the host's, and nothing compares its amount with the     *)
(* balance that the payout has read and will record.  What a payment sends *)
(* is therefore unknown, and the history keeps the balance that it was     *)
(* made against.                                                           *)
(***************************************************************************)
EXTENDS ControlPlane

CONSTANT
    MaxCovered   \* bound: the balances a machine's payments were made against

VARIABLE
    covered  \* history: per machine, the balances payments were made against

payoutVars == <<vars, covered>>

PayoutsInit == /\ Init
               /\ covered = [m \in Machines |-> 0]

(* The payouts of the machine that a set of slots holds.                   *)
Holding(reqs, m) ==
    {s \in Slots : reqs[s].op = "payout" /\ reqs[s].machine = m}

SatsOf(reqs, slots) == SumFunction([s \in slots |-> reqs[s].sats])

(* The payouts of the machine that a step has taken up.                    *)
TakenUp(m) == Holding(requests', m) \ Holding(requests, m)

(* pay_invoice: a payout that has just been taken up was just paid.        *)
PayoutsNext ==
    /\ Next
    /\ covered' = [m \in Machines |->
                      covered[m] + SatsOf(requests', TakenUp(m))]
    /\ \A m \in Machines : covered'[m] <= MaxCovered

PayoutsSpec == PayoutsInit /\ [][PayoutsNext]_payoutVars

(* What the ledger says was paid out: what was credited and is not there.  *)
RecordedPayouts(m) == ChargedFor(m) - ledger.machine[m]

(* The ledger records no payout without a payment, and none twice, over    *)
(* every abort and restart between the payment and the transaction: what it*)
(* has recorded, with what is still to be recorded, does not exceed the    *)
(* balances that payments were made against.                               *)
RecordedWasPaid ==
    \A m \in DOMAIN machines :
        RecordedPayouts(m) + SatsOf(requests, Holding(requests, m))
            <= covered[m]
=============================================================================
