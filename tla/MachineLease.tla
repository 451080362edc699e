---------------------------- MODULE MachineLease ----------------------------
(***************************************************************************)
(* What the marketplace promises about its machines, without handlers,     *)
(* statuses or queues: a machine is leased to one rental at a time, and a  *)
(* rental has one lease in its life.                                       *)
(***************************************************************************)
CONSTANTS Machines, Rentals

VARIABLES
    live,     \* per machine, the rentals that hold it
    granted   \* the rentals that were ever given a machine

leaseVars == <<live, granted>>

LeaseInit ==
    /\ live = [m \in Machines |-> {}]
    /\ granted = {}

Grant(m, r) ==
    /\ live[m] = {}
    /\ r \notin granted
    /\ live' = [live EXCEPT ![m] = {r}]
    /\ granted' = granted \cup {r}

Release(m, r) ==
    /\ r \in live[m]
    /\ live' = [live EXCEPT ![m] = @ \ {r}]
    /\ UNCHANGED granted

LeaseNext ==
    \E m \in Machines, r \in Rentals : Grant(m, r) \/ Release(m, r)

LeaseSpec == LeaseInit /\ [][LeaseNext]_leaseVars
=============================================================================
