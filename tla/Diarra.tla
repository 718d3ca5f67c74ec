------------------------------- MODULE Diarra -------------------------------
(***************************************************************************)
(* The DIARRA gateway as its client (internal/gateway) and the callback    *)
(* handler see it: an external service that is asked for a deposit, a      *)
(* payout or a refund under a client_ref, may accept the request at any    *)
(* time after it was sent, even when the caller has already given up, and  *)
(* moves an accepted transaction to a final status once, spelled as DIARRA *)
(* spells it.                                                              *)
(***************************************************************************)
EXTENDS PaymentStore

CONSTANTS
  InitialStatuses,  \* what an accepted transaction starts in
  Outcomes          \* what it ends in; one that is not of Statuses is unknown here

FinalStatuses == {"completed", "failed", "cancelled"}

ASSUME DiarraAssumption ==
  /\ InitialStatuses \subseteq STRING /\ Outcomes \subseteq STRING
  /\ InitialStatuses \cap (FinalStatuses \cup Outcomes) = {}
  /\ {"none", ""} \cap (InitialStatuses \cup Outcomes) = {}

VARIABLES
  asked,   \* the request sent under each client_ref
  tx       \* the status of the gateway transaction of each client_ref

gatewayVars == <<asked, tx>>

\* amount_cfa of a deposit or a payout; a refund names a deposit instead.
Order == [type   : PaymentTypes \cup {"none"},
          amount : Nat,
          of     : Ids \cup {None}]

NoOrder == [type |-> "none", amount |-> 0, of |-> None]

DiarraTypeOK ==
  /\ asked \in [Ids -> Order]
  /\ tx \in [Ids -> {"none"} \cup InitialStatuses \cup Outcomes]

DiarraInit ==
  /\ asked = [r \in Ids |-> NoOrder]
  /\ tx = [r \in Ids |-> "none"]

Asked(r) == asked[r].type # "none"

\* The POST leaves for DIARRA.
CreateDeposit(r, amount) ==
  asked' = [asked EXCEPT ![r] = [type |-> "deposit", amount |-> amount, of |-> None]]

CreatePayout(r, amount) ==
  asked' = [asked EXCEPT ![r] = [type |-> "payout", amount |-> amount, of |-> None]]

CreateRefund(r, of) ==
  asked' = [asked EXCEPT ![r] = [type |-> "refund", amount |-> 0, of |-> of]]

\* DIARRA registers the transaction.
Accept(r) ==
  /\ Asked(r) /\ tx[r] = "none"
  /\ \E s \in InitialStatuses : tx' = [tx EXCEPT ![r] = s]
  /\ UNCHANGED <<asked, payments>>

\* The payer, the operator or DIARRA ends the transaction.
Settle(r) ==
  /\ tx[r] \in InitialStatuses
  /\ \E s \in Outcomes : tx' = [tx EXCEPT ![r] = s]
  /\ UNCHANGED <<asked, payments>>

DiarraNext == \E r \in Ids : Accept(r) \/ Settle(r)
=============================================================================
