----------------------------- MODULE Transfers -----------------------------
(***************************************************************************)
(* Money leaving: POST /v1/payouts and /v1/refunds, and their console      *)
(* counterparts POST /admin/payouts and /admin/payments/{id}/refund.       *)
(* The four handlers share their second half: insert a row, ask DIARRA,    *)
(* then write the status of the reply, or "failed", over the row.          *)
(***************************************************************************)
EXTENDS Diarra

CONSTANTS
  Payouts, AdminPayouts,   \* requests for a payout, by an app or the console
  Refunds, AdminRefunds,   \* requests for a refund, by an app or the console
  RefundRefOf              \* the default refund_app_ref of each deposit app_ref

XferReqs == Payouts \cup AdminPayouts \cup Refunds \cup AdminRefunds

ASSUME TransfersAssumption ==
  /\ XferReqs \subseteq Ids
  /\ (Payouts \cup AdminPayouts) \cap (Refunds \cup AdminRefunds) = {}
  /\ Payouts \cap AdminPayouts = {} /\ Refunds \cap AdminRefunds = {}
  /\ RefundRefOf \in [AppRefs -> AppRefs]

VARIABLE xfer

XferAnswers == {"created", "existing", "refused", "error"}

XferSteps == {"lookup", "cap", "deposit", "insert", "call", "wait", "note", "fail"}

Transfer == [pc      : {"idle", "dead"} \cup XferSteps \cup XferAnswers,
             app     : Apps \cup {None},
             appRef  : AppRefs \cup {None},
             dref    : AppRefs \cup {None},    \* deposit_app_ref of a refund
             amount  : Amounts \cup {0},
             deposit : Ids \cup {None},        \* the deposit row that was read
             of      : Ids \cup {None},        \* its diarra_client_ref then
             status  : {"none"} \cup InitialStatuses \cup Outcomes]

TransfersTypeOK ==
  /\ xfer \in [XferReqs -> Transfer]
  /\ \A q \in XferReqs :
       xfer[q].pc # "idle" => xfer[q].app \in Apps /\ xfer[q].appRef \in AppRefs

NoTransfer == [pc |-> "idle", app |-> None, appRef |-> None, dref |-> None,
               amount |-> 0, deposit |-> None, of |-> None, status |-> "none"]

TransfersInit == xfer = [q \in XferReqs |-> NoTransfer]

XferGoes(q, from, to) == xfer[q].pc = from /\ xfer' = [xfer EXCEPT ![q].pc = to]

TypeOfXfer(q) == IF q \in Payouts \cup AdminPayouts THEN "payout" ELSE "refund"

PayoutArrive(q, a, ref, amount) ==
  /\ q \in Payouts
  /\ xfer[q].pc = "idle"
  /\ active[a]
  /\ xfer' = [xfer EXCEPT ![q] = [NoTransfer EXCEPT !.pc = "lookup", !.app = a,
                                    !.appRef = ref, !.amount = amount]]
  /\ UNCHANGED <<payments, gatewayVars>>

\* PayoutForAdmin: no lookup and no cap; its app_ref has 8 random digits.
AdminPayoutArrive(q, a, ref, amount) ==
  /\ q \in AdminPayouts
  /\ xfer[q].pc = "idle"
  /\ xfer' = [xfer EXCEPT ![q] = [NoTransfer EXCEPT
                                    !.pc = IF NetOf(amount) <= 0 THEN "refused" ELSE "insert",
                                    !.app = a, !.appRef = ref, !.amount = amount]]
  /\ UNCHANGED <<payments, gatewayVars>>

\* refund_app_ref is the app's choice, or derived from the deposit's.
RefundArrive(q, a, dref, ref) ==
  /\ q \in Refunds
  /\ xfer[q].pc = "idle"
  /\ active[a]
  /\ xfer' = [xfer EXCEPT ![q] = [NoTransfer EXCEPT !.pc = "lookup", !.app = a,
                                    !.appRef = ref, !.dref = dref]]
  /\ UNCHANGED <<payments, gatewayVars>>

\* AdminHandler.RefundPayment reads the row by id; RefundDeposit checks it.
AdminRefundArrive(q, p) ==
  /\ q \in AdminRefunds
  /\ xfer[q].pc = "idle"
  /\ Stored(p)
  /\ LET d == payments[p]
         refundable == d.type = "deposit" /\ d.status = "completed"
     IN  xfer' = [xfer EXCEPT ![q] =
                   [NoTransfer EXCEPT !.pc = IF refundable THEN "lookup" ELSE "refused",
                      !.app = d.app, !.appRef = RefundRefOf[d.appRef], !.dref = d.appRef,
                      !.amount = d.amount, !.deposit = p, !.of = d.ref]]
  /\ UNCHANGED <<payments, gatewayVars>>

\* Mutant: a transfer that failed is sent again.
XferFoundResends(q) ==
  /\ \E p \in Matching(xfer[q].app, xfer[q].appRef, TypeOfXfer(q)) :
       XferGoes(q, "lookup", IF payments[p].status = "failed" THEN "call" ELSE "existing")
  /\ UNCHANGED <<payments, gatewayVars>>

XferFound(q) ==
  /\ XferGoes(q, "lookup", "existing")
  /\ Matching(xfer[q].app, xfer[q].appRef, TypeOfXfer(q)) # {}
  /\ UNCHANGED <<payments, gatewayVars>>

\* Any error of the lookup is taken for an absent row.
XferNotFound(q) ==
  /\ XferGoes(q, "lookup", CASE q \in Payouts -> "cap"
                             [] q \in Refunds -> "deposit"
                             [] OTHER         -> "insert")
  /\ Matching(xfer[q].app, xfer[q].appRef, TypeOfXfer(q)) = {} \/ DbFails
  /\ UNCHANGED <<payments, gatewayVars>>

PayoutCap(q) ==
  LET allowed == /\ xfer[q].amount <= MaxAmountFor(kyc[xfer[q].app])
                 /\ NetOf(xfer[q].amount) > 0
  IN  /\ \/ XferGoes(q, "cap", "insert") /\ allowed
         \/ XferGoes(q, "cap", "refused") /\ ~allowed
         \/ XferGoes(q, "cap", "error") /\ DbFails
      /\ UNCHANGED <<payments, gatewayVars>>

\* The deposit must exist for this app and be completed; the rest of the
\* handler works on this snapshot of it.
RefundReadsDeposit(q) ==
  /\ xfer[q].pc = "deposit"
  /\ \/ \E p \in Matching(xfer[q].app, xfer[q].dref, "deposit") :
          IF payments[p].status = "completed"
            THEN xfer' = [xfer EXCEPT ![q].pc = "insert",
                                      ![q].amount = payments[p].amount,
                                      ![q].deposit = p,
                                      ![q].of = payments[p].ref]
            ELSE xfer' = [xfer EXCEPT ![q].pc = "refused"]
     \/ /\ Matching(xfer[q].app, xfer[q].dref, "deposit") = {} \/ DbFails
        /\ xfer' = [xfer EXCEPT ![q].pc = "refused"]
  /\ UNCHANGED <<payments, gatewayVars>>

XferRow(q) ==
  NewRow(TypeOfXfer(q), xfer[q].app, xfer[q].appRef, q, xfer[q].amount, xfer[q].deposit)

\* Mutant: no unique index stops the insertion.
XferNoIndex(q) == TRUE

XferKeyFree(q) == Matching(xfer[q].app, xfer[q].appRef, TypeOfXfer(q)) = {}

\* INSERT without ON CONFLICT: a taken key is an error.
XferInsert(q) ==
  /\ \/ /\ XferGoes(q, "insert", "call")
        /\ XferKeyFree(q)
        /\ InsertRow(q, XferRow(q))
     \/ /\ XferGoes(q, "insert", "error")
        /\ ~XferKeyFree(q)
        /\ UNCHANGED payments
     \/ /\ XferGoes(q, "insert", "error")
        /\ FailedWrite(XferKeyFree(q) /\ InsertRow(q, XferRow(q)))
  /\ UNCHANGED gatewayVars

\* Mutant: a payout sends the amount before commission.
XferCallGross(q) ==
  /\ XferGoes(q, "call", "wait")
  /\ IF TypeOfXfer(q) = "payout"
       THEN CreatePayout(q, xfer[q].amount)
       ELSE CreateRefund(q, xfer[q].of)
  /\ UNCHANGED <<payments, tx>>

\* Mutant: a refund names itself instead of the deposit.
XferCallOwnRef(q) ==
  /\ XferGoes(q, "call", "wait")
  /\ IF TypeOfXfer(q) = "payout"
       THEN CreatePayout(q, NetOf(xfer[q].amount))
       ELSE CreateRefund(q, q)
  /\ UNCHANGED <<payments, tx>>

\* A payout sends the net amount, a refund names the deposit as it was read.
XferCall(q) ==
  /\ XferGoes(q, "call", "wait")
  /\ IF TypeOfXfer(q) = "payout"
       THEN CreatePayout(q, NetOf(xfer[q].amount))
       ELSE CreateRefund(q, xfer[q].of)
  /\ UNCHANGED <<payments, tx>>

\* The console handlers read the row again and answer it whatever became of
\* the call; the signed API answers 502 when the call failed.
XferEnds(q, from, answer) ==
  \/ q \notin AdminPayouts \cup AdminRefunds /\ XferGoes(q, from, answer)
  \/ q \in AdminPayouts \cup AdminRefunds /\ XferGoes(q, from, "created")
  \/ q \in AdminPayouts \cup AdminRefunds /\ DbFails /\ XferGoes(q, from, "error")

\* The reply carries the status of the transaction at that moment, or none.
XferReply(q) ==
  /\ tx[q] # "none"
  /\ \/ xfer[q].pc = "wait" /\ xfer' = [xfer EXCEPT ![q].pc = "note", ![q].status = tx[q]]
     \/ XferEnds(q, "wait", "created")
  /\ UNCHANGED <<payments, gatewayVars>>

\* Mutant: no timeout on the wait for DIARRA.
XferCallNoTimeout(q) ==
  /\ tx[q] # "none"
  /\ XferGoes(q, "wait", "fail")
  /\ UNCHANGED <<payments, gatewayVars>>

\* Refusal, transport error or the 30 s timeout.
XferCallFails(q) ==
  /\ XferGoes(q, "wait", "fail")
  /\ UNCHANGED <<payments, gatewayVars>>

\* Mutant: the status is written as DIARRA spells it.
XferNoteRaw(q) ==
  /\ XferEnds(q, "note", "created")
  /\ Attempt(UpdatePaymentStatus(q, xfer[q].status))
  /\ UNCHANGED gatewayVars

\* The status of the reply is written, error ignored, and the row answered.
XferNote(q) ==
  /\ XferEnds(q, "note", "created")
  /\ Attempt(UpdatePaymentStatus(q, normalizeStatus(xfer[q].status)))
  /\ UNCHANGED gatewayVars

XferFail(q) ==
  /\ XferEnds(q, "fail", "error")
  /\ Attempt(UpdatePaymentStatus(q, "failed"))
  /\ UNCHANGED gatewayVars

XferStep(q) ==
  \/ XferFound(q) \/ XferNotFound(q) \/ PayoutCap(q) \/ RefundReadsDeposit(q)
  \/ XferInsert(q) \/ XferCall(q) \/ XferReply(q) \/ XferCallFails(q)
  \/ XferNote(q) \/ XferFail(q)

XferDies(q) ==
  /\ Crashes
  /\ xfer[q].pc \in XferSteps
  /\ xfer' = [xfer EXCEPT ![q].pc = "dead"]
  /\ UNCHANGED <<payments, gatewayVars>>

TransfersNext ==
  \/ \E q \in XferReqs, a \in Apps, ref \in AppRefs, amount \in Amounts :
       PayoutArrive(q, a, ref, amount) \/ AdminPayoutArrive(q, a, ref, amount)
  \/ \E q \in XferReqs, a \in Apps, dref, ref \in AppRefs : RefundArrive(q, a, dref, ref)
  \/ \E q \in XferReqs, p \in Ids : AdminRefundArrive(q, p)
  \/ \E q \in XferReqs : XferStep(q) \/ XferDies(q)
=============================================================================
