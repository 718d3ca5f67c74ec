---------------------------- MODULE Orchestrator ----------------------------
(***************************************************************************)
(* ABMCY Core between the client applications and DIARRA: deposits,        *)
(* transfers and the webhook, over one payments table, one registry of     *)
(* applications and one gateway.  The steps of all the requests interleave *)
(* freely: the two replicas share nothing but the database.                *)
(***************************************************************************)
EXTENDS Deposits, Transfers, Webhook

ASSUME OrchestratorAssumption == PayReqs \cap XferReqs = {}

vars == <<registryVars, payments, gatewayVars, pay, xfer, hookVars>>

TypeOK ==
  /\ RegistryTypeOK
  /\ StoreTypeOK
  /\ DiarraTypeOK
  /\ DepositsTypeOK
  /\ TransfersTypeOK
  /\ WebhookTypeOK

Init ==
  /\ RegistryInit
  /\ StoreInit
  /\ DiarraInit
  /\ DepositsInit
  /\ TransfersInit
  /\ WebhookInit

Next ==
  \/ RegistryNext  /\ UNCHANGED <<payments, gatewayVars, pay, xfer, hookVars>>
  \/ DiarraNext    /\ UNCHANGED <<registryVars, pay, xfer, hookVars>>
  \/ DepositsNext  /\ UNCHANGED <<registryVars, xfer, hookVars>>
  \/ TransfersNext /\ UNCHANGED <<registryVars, pay, hookVars>>
  \/ WebhookNext   /\ UNCHANGED <<registryVars, pay, xfer>>

Spec == Init /\ [][Next]_vars

\* A handler that runs takes its next step: every wait on DIARRA ends by a
\* reply or by the client's 30 s timeout.
\* DIARRA repeats a report until a 200 reaches it; a callback handler does not
\* die for ever, nor is its 200 lost for ever.  Nothing obliges DIARRA to accept
\* or settle anything.
Fairness ==
  /\ \A q \in PayReqs  : WF_vars(PayStep(q) /\ UNCHANGED <<registryVars, xfer, hookVars>>)
  /\ \A q \in XferReqs : WF_vars(XferStep(q) /\ UNCHANGED <<registryVars, pay, hookVars>>)
  /\ \A r \in Ids :
       SF_vars((\E d \in Deliveries : Deliver(d, r)) /\ UNCHANGED <<registryVars, pay, xfer>>)
  /\ \A d \in Deliveries :
       /\ SF_vars(CallbackFindsPayment(d) /\ UNCHANGED <<registryVars, pay, xfer>>)
       /\ SF_vars(/\ CallbackApplied(d) /\ hook[d].ref \in acked'
                  /\ UNCHANGED <<registryVars, pay, xfer>>)
       /\ WF_vars(CallbackFindsNothing(d) /\ UNCHANGED <<registryVars, pay, xfer>>)
       /\ SF_vars(/\ CallbackDropped(d) /\ hook[d].ref \in acked'
                  /\ UNCHANGED <<registryVars, pay, xfer>>)

FairSpec == Spec /\ Fairness
-----------------------------------------------------------------------------
\* The transaction under r serves payment p: it is a payout of its net amount, a
\* refund of its own, or a deposit of its amount by a request for its row.
Served(p, r) ==
  CASE payments[p].type = "deposit" ->
         r \in PayReqs /\ pay[r].row = p /\ asked[r].amount = payments[p].amount
    [] payments[p].type = "payout" -> r = p /\ asked[r].amount = payments[p].net
    [] OTHER -> r = p

Linked(p, r) == asked[r].type = payments[p].type /\ Served(p, r)

Paid(p) == \E r \in Ids : tx[r] = "completed" /\ Linked(p, r)

\* A payment row marked completed is backed by a DIARRA transaction that
\* completed and that was asked for on behalf of this very payment, for its
\* amount (DiarraCallback attaches a report by reference; Pay, Refund and
\* refreshDepositLink write references and links concurrently).
NoFalseCompletion ==
  \A p \in Ids : Stored(p) /\ payments[p].status = "completed" => Paid(p)

\* However many requests an app repeats under one app_ref, and whatever fails
\* in between, DIARRA is asked for at most one payout and one refund under it
\* (lookup, then unique key of the row, before Payout and Refund call out).
SingleTransfer ==
  \A q, r \in XferReqs :
    /\ Asked(q) /\ Asked(r) /\ asked[q].type = asked[r].type
    /\ xfer[q].app = xfer[r].app /\ xfer[q].appRef = xfer[r].appRef
    => q = r

Answered(q) == pay[q].pc \in {"created", "existing"}

\* A Pay request answered with a payment is answered with the one of its own
\* app and app_ref, and all requests under one app_ref with the same one,
\* however they interleave (lookup, ON CONFLICT DO NOTHING, then reselect).
SameTransaction ==
  \A q \in PayReqs : Answered(q) =>
    /\ payments[pay[q].row].app = pay[q].app
    /\ payments[pay[q].row].appRef = pay[q].appRef
    /\ \A r \in PayReqs :
         Answered(r) /\ pay[q].app = pay[r].app /\ pay[q].appRef = pay[r].appRef
         => pay[q].row = pay[r].row

\* An application that was never verified gets no payment above the cap
\* through the signed API, refunds included, while its neighbours' levels
\* change (MaxAmountFor is read in a step of its own, before the insertion).
CapRespected ==
  \A p \in Ids \ AdminPayouts :
    Stored(p) /\ payments[p].app \notin LevelApps
    => payments[p].amount <= MaxAmountFor("none")

\* A refund asked of DIARRA names a deposit asked under the same app's
\* payment, for the amount of the refund's row, and some transaction of that
\* payment had completed (Refund checks a snapshot of the deposit's row).
RefundBacked ==
  \A q \in XferReqs : asked[q].type = "refund" =>
    LET d == payments[q].of IN
      /\ payments[d].type = "deposit"
      /\ payments[d].app = payments[q].app
      /\ payments[d].amount = payments[q].amount
      /\ asked[q].of \in PayReqs /\ pay[asked[q].of].row = d
      /\ \E r \in PayReqs : pay[r].row = d /\ tx[r] = "completed"

\* The link a row sends the payer to was obtained by a request of the same app
\* for the same app_ref, never by another payment's (UpdatePaymentRedirect and
\* UpdateDiarraRefAndRedirect run on a row read several steps before).
LinkProvenance ==
  \A p \in Ids : payments[p].link # None =>
    LET r == payments[p].link IN
      /\ tx[r] # "none"
      /\ pay[r].app = payments[p].app /\ pay[r].appRef = payments[p].appRef

\* A report that found no row is none of a payment under its first reference,
\* not then and not while it waits for its 200: the row is there before the
\* call goes out and stays, and a renewal that moved the reference away never
\* puts it back (Pay and the transfers insert first, DiarraCallback looks up).
ReportFindsItsPayment ==
  \A d \in Deliveries :
    hook[d].pc = "absent" => payments[hook[d].ref].ref # hook[d].ref

Terms(p) == [type   |-> payments[p].type,   app |-> payments[p].app,
             appRef |-> payments[p].appRef, amount |-> payments[p].amount,
             net    |-> payments[p].net,    of |-> payments[p].of]

\* The terms of a payment are frozen at insertion: no later step of any
\* handler changes whose it is, its amount or the commission, or drops it.
FrozenTerms == [][\A p \in Ids : Stored(p) => Terms(p)' = Terms(p)]_vars

\* Every request is answered, however long DIARRA keeps it waiting, unless
\* the process running it stops (the 30 s timeout of the gateway client is
\* what ends the wait).
EveryRequestAnswered ==
  /\ \A q \in PayReqs  : pay[q].pc \in PaySteps ~> pay[q].pc \in PayAnswers \cup {"dead"}
  /\ \A q \in XferReqs : xfer[q].pc \in XferSteps ~> xfer[q].pc \in XferAnswers \cup {"dead"}

\* A payment whose first transaction completed at DIARRA is eventually marked
\* completed, unless a renewed link takes over its reference: the row is there
\* before the call goes out, so no report comes too early for it, and a report
\* not yet answered 200 comes back, also after a crash of the handler.
PaidIsRecorded ==
  \A p \in Ids :
    payments[p].ref = p /\ tx[p] = "completed" /\ p \notin acked
    ~> payments[p].status = "completed" \/ payments[p].ref # p
-----------------------------------------------------------------------------
(* What the documentation and the comments say, and the code does not do.  *)

\* DiarraCallback: the client_ref of a report is the diarra_client_ref Pay
\* generated, and the report updates its payment.  Once Pay has answered a
\* deposit, with its own reference and link on the row and nobody having paid
\* yet, a report that it was paid finds a payment (else it is answered 200 and
\* never comes again).
CallbackReachesPayment ==
  \A q \in PayReqs :
    [](/\ pay[q].pc = "created"
       /\ payments[pay[q].row].ref = q /\ payments[pay[q].row].link = q
       /\ tx[q] \in InitialStatuses
       => [](\A d \in Deliveries : hook[d].ref = q /\ hook[d].status = "completed"
                                    => hook[d].pc # "absent"))

\* PaymentStatus: the local status is kept up to date by the callbacks.  Once
\* DIARRA's report was answered 200 and no handler is left at work on the
\* payment, the row shows that status.
AtRest(p) ==
  /\ \A q \in PayReqs  : pay[q].row = p => pay[q].pc \in PayAnswers
  /\ \A q \in XferReqs : q = p => xfer[q].pc \in XferAnswers
  /\ \A d \in Deliveries : hook[d].row # p

StatusUpToDate ==
  \A p \in Ids :
    Stored(p) /\ AtRest(p) /\ payments[p].ref \in acked
    => payments[p].status = tx[payments[p].ref]
=============================================================================
