------------------------- MODULE AdvertisementState -------------------------
(***************************************************************************)
(* The status table of advertisement campaigns                             *)
(* (AdvertisementState.service.ts), as sets and functions.                 *)
(***************************************************************************)
EXTENDS Naturals

AdStatuses == {"DRAFT", "PAYMENT_PENDING", "PAID", "PENDING_REVIEW", "APPROVED",
               "SCHEDULED", "ACTIVE", "PAUSED", "REJECTED", "CANCELLED", "EXPIRED"}

Allowed == [
  DRAFT           |-> {"PAYMENT_PENDING", "CANCELLED"},
  PAYMENT_PENDING |-> {"PAID", "DRAFT", "CANCELLED"},
  PAID            |-> {"PENDING_REVIEW", "CANCELLED"},
  PENDING_REVIEW  |-> {"APPROVED", "REJECTED", "CANCELLED"},
  APPROVED        |-> {"SCHEDULED", "ACTIVE", "EXPIRED", "CANCELLED"},
  SCHEDULED       |-> {"ACTIVE", "EXPIRED", "CANCELLED"},
  ACTIVE          |-> {"PAUSED", "EXPIRED", "CANCELLED", "PENDING_REVIEW"},
  PAUSED          |-> {"ACTIVE", "EXPIRED", "CANCELLED"},
  REJECTED        |-> {},
  CANCELLED       |-> {},
  EXPIRED         |-> {}]

\* Complimentary campaigns may be published from DRAFT without a payment.
CanTransition(from, to, complimentary) ==
  \/ complimentary /\ from = "DRAFT" /\ to \in {"SCHEDULED", "ACTIVE", "CANCELLED"}
  \/ to \in Allowed[from]

\* assertTransition lets a status be kept.
MayMove(from, to) == from = to \/ CanTransition(from, to, FALSE)

PublishStatus(start, now) == IF start <= now THEN "ACTIVE" ELSE "SCHEDULED"

Terminal == {"REJECTED", "CANCELLED", "EXPIRED"}

\* The campaign has left checkout: it is in review or has been published.
Reviewed == {"PENDING_REVIEW", "APPROVED", "SCHEDULED", "ACTIVE", "PAUSED"}

EntitlementStatuses == {"ABSENT", "PENDING", "ACTIVE", "EXPIRED", "CANCELLED", "REFUNDED"}
=============================================================================
