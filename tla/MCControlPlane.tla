--------------------------- MODULE MCControlPlane ---------------------------
(* Small instances of ControlPlane and Payouts for TLC.                    *)
EXTENDS Payouts, TLC

(* Prices as register stores them.                                         *)
AnyPrices == {-1, 1}

(* Ids, keys and slots are opaque: no handler compares two of them other   *)
(* than for equality.                                                      *)
Symmetric == Permutations(Machines) \cup Permutations(Accounts)
             \cup Permutations(RentalIds) \cup Permutations(InvoiceIds)
             \cup Permutations(Slots)
=============================================================================
