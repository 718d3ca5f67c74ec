---------------------------- MODULE PaymentModel ----------------------------
(***************************************************************************)
(* The vocabulary of internal/model: payment types and statuses, KYC       *)
(* levels with the cap each gives, and the mapping of a gateway status to  *)
(* a local one.                                                            *)
(***************************************************************************)
EXTENDS Integers

PaymentTypes == {"deposit", "payout", "refund"}

Statuses == {"pending", "processing", "completed", "failed", "cancelled"}

\* Statuses in which Pay still looks after the link of a payment.
OpenStatuses == {"pending", "processing"}

KYCLevels == {"none", "verified"}

MaxAmountNoKYC == 200000

MaxAmountVerified == 1000000

MaxAmountFor(kycLevel) ==
  IF kycLevel = "verified" THEN MaxAmountVerified ELSE MaxAmountNoKYC

\* A status the gateway sends that is not one of ours counts as processing.
normalizeStatus(s) == IF s \in Statuses THEN s ELSE "processing"
=============================================================================
