--------------------------- MODULE StoreReceipts ----------------------------
(***************************************************************************)
(* SituationStore implements ReceiptContract: the contract's view of the   *)
(* tables situation_delivery_claims, confirmed_delivery_receipts and       *)
(* situation_deliveries, and of what the checks returned.                  *)
(***************************************************************************)
EXTENDS SituationStore

(* A token with claim rows is open; one with neither rows nor a receipt    *)
(* was swept.                                                              *)
OutcomeOf(k) ==
    CASE shown[k] = NoLease -> "unused"
      [] shown[k] # NoLease /\ receipts[k] # 0 -> "delivered"
      [] shown[k] # NoLease /\ receipts[k] = 0 /\ LeaseOf(claims, k) # {} -> "open"
      [] OTHER -> "lapsed"

Contract == INSTANCE ReceiptContract WITH
    Ends <- 0 .. MaxTime + LeaseLength,
    clock <- now,
    promised <- shown,
    outcome <- [k \in Tokens |-> OutcomeOf(k)],
    delivered <- {<<d.situation, d.token>> : d \in deliveries}

(* Whatever refreshes, resolutions, sweeps with old stamps and answers     *)
(* come between, each check and confirmation does what the contract says:  *)
(* it offers what no open token holds, delivers a whole offer in time, or  *)
(* lets offers lapse whose time is over.  (reserve_for_delivery,           *)
(* confirm_delivery, DeliveryReceipts)                                     *)
ImplementsReceiptContract == Contract!Spec
=============================================================================
