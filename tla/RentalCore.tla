----------------------------- MODULE RentalCore -----------------------------
(***************************************************************************)
(* The vocabulary the control plane and the host agent share: the rental   *)
(* lifecycle of `core/src/model.rs`, the commands of `core/src/api.rs` and *)
(* the billing arithmetic of `control-plane/src/billing.rs`.               *)
(***************************************************************************)
EXTENDS Integers

(* enum RentalStatus *)
RentalStatus == {"provisioning", "running", "evicting", "stopped", "failed"}

(* Mutation of OccupiesMachine: only a started container counts.           *)
OccupiesOnceStarted(status) == status \in {"running", "evicting"}

(* RentalStatus::occupies_machine *)
OccupiesMachine(status) == status \in {"provisioning", "running", "evicting"}

(* RentalStatus::is_terminal *)
IsTerminal(status) == status \in {"stopped", "failed"}

(* The outcomes `dispatch` reports; an agent sends no other status.        *)
ReportStatus == {"running", "stopped", "failed"}

(* enum Command, without the image and the key the start command carries   *)
StartRental(r) == [cmd |-> "start_rental", rental |-> r]
StopRental(r)  == [cmd |-> "stop_rental",  rental |-> r]

Commands(ids) == [cmd : {"start_rental", "stop_rental"}, rental : ids]

(* Division of i64, which drops the fraction, also of a negative number.   *)
Truncated(x, y) == IF x >= 0 THEN x \div y ELSE -((-x) \div y)

(* billing::accrued_charge: seconds times a per-minute rate, truncated to  *)
(* whole sats; a negative interval counts as zero.                         *)
AccruedCharge(start, end, rate) ==
    IF end > start THEN Truncated((end - start) * rate, 60) ELSE 0
=============================================================================
