---------------------------- MODULE MCMarketplace ----------------------------
(* Small instances of Marketplace for TLC.                                 *)
EXTENDS Marketplace, TLC

(* Ids, keys and slots are opaque: nothing compares two of them other than *)
(* for equality.                                                           *)
Symmetric == Permutations(Machines) \cup Permutations(Accounts)
             \cup Permutations(RentalIds) \cup Permutations(InvoiceIds)
             \cup Permutations(Slots)
=============================================================================
