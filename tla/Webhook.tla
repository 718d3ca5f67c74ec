------------------------------ MODULE Webhook ------------------------------
(***************************************************************************)
(* POST /webhooks/diarra.  DIARRA reports the final status of a            *)
(* transaction and sends the report again until a 200 reaches it; two      *)
(* deliveries of one report, or of reports on one payment, may overlap.    *)
(***************************************************************************)
EXTENDS Diarra

CONSTANT Deliveries    \* callbacks that may be in progress at one time

VARIABLES
  hook,    \* each callback being handled
  acked    \* references whose report DIARRA has seen answered 200

hookVars == <<hook, acked>>

\* "absent": no row bears the reference; "unread": the lookup failed.
Callback == [pc     : {"idle", "find", "apply", "absent", "unread"},
             ref    : Ids \cup {None},
             status : {"none"} \cup Outcomes,
             row    : Ids \cup {None}]

WebhookTypeOK ==
  /\ hook \in [Deliveries -> Callback]
  /\ \A d \in Deliveries :
       hook[d].pc # "idle" => hook[d].ref \in Ids /\ hook[d].status \in Outcomes
  /\ acked \subseteq Ids

NoCallback == [pc |-> "idle", ref |-> None, status |-> "none", row |-> None]

WebhookInit ==
  /\ hook = [d \in Deliveries |-> NoCallback]
  /\ acked = {}

\* Mutant: the signature is not verified, anyone may post.
DeliverUnverified(d, r) ==
  /\ hook[d].pc = "idle"
  /\ r \notin acked
  /\ \E s \in Outcomes :
       hook' = [hook EXCEPT ![d] = [pc |-> "find", ref |-> r, status |-> s, row |-> None]]
  /\ UNCHANGED <<payments, gatewayVars, acked>>

\* DIARRA posts the final status of r; the signature has been verified.
Deliver(d, r) ==
  /\ hook[d].pc = "idle"
  /\ tx[r] \in Outcomes /\ r \notin acked
  /\ hook' = [hook EXCEPT ![d] = [pc |-> "find", ref |-> r, status |-> tx[r], row |-> None]]
  /\ UNCHANGED <<payments, gatewayVars, acked>>

CallbackFindsPayment(d) ==
  /\ hook[d].pc = "find"
  /\ \E p \in FindPaymentByDiarraRef(hook[d].ref) :
       hook' = [hook EXCEPT ![d].pc = "apply", ![d].row = p]
  /\ UNCHANGED <<payments, gatewayVars, acked>>

\* No payment, or an error of the lookup.
CallbackFindsNothing(d) ==
  /\ hook[d].pc = "find"
  /\ \/ /\ FindPaymentByDiarraRef(hook[d].ref) = {}
        /\ hook' = [hook EXCEPT ![d].pc = "absent"]
     \/ DbFails /\ hook' = [hook EXCEPT ![d].pc = "unread"]
  /\ UNCHANGED <<payments, gatewayVars, acked>>

\* DIARRA forgets the report, unless the 200 is lost on the way.
Answered200(d) == acked' \in {acked, acked \cup {hook[d].ref}}

\* Either is answered 200, whatever has become of the row since.
CallbackDropped(d) ==
  /\ hook[d].pc \in {"absent", "unread"}
  /\ hook' = [hook EXCEPT ![d] = NoCallback]
  /\ Answered200(d)
  /\ UNCHANGED <<payments, gatewayVars>>

\* The status of the report overwrites the one of the row, whatever it was; it
\* is not normalized, and the CHECK of the column admits the local ones only.
CallbackApplied(d) ==
  /\ hook[d].pc = "apply"
  /\ hook[d].status \in Statuses
  /\ UpdatePaymentStatus(hook[d].row, hook[d].status)
  /\ Answered200(d)
  /\ hook' = [hook EXCEPT ![d] = NoCallback]
  /\ UNCHANGED gatewayVars

\* 500: DIARRA will deliver the report again.
CallbackUpdateFails(d) ==
  /\ hook[d].pc = "apply"
  /\ \/ /\ hook[d].status \in Statuses
        /\ FailedWrite(UpdatePaymentStatus(hook[d].row, hook[d].status))
     \/ hook[d].status \notin Statuses /\ UNCHANGED payments
  /\ hook' = [hook EXCEPT ![d] = NoCallback]
  /\ UNCHANGED <<gatewayVars, acked>>

\* The process stops before it answers.
CallbackDies(d) ==
  /\ Crashes
  /\ hook[d].pc \in {"find", "apply", "absent", "unread"}
  /\ hook' = [hook EXCEPT ![d] = NoCallback]
  /\ UNCHANGED <<payments, gatewayVars, acked>>

CallbackStep(d) ==
  \/ CallbackFindsPayment(d) \/ CallbackFindsNothing(d) \/ CallbackDropped(d)
  \/ CallbackApplied(d) \/ CallbackUpdateFails(d)

WebhookNext ==
  \/ \E d \in Deliveries, r \in Ids : Deliver(d, r)
  \/ \E d \in Deliveries : CallbackStep(d) \/ CallbackDies(d)
=============================================================================
