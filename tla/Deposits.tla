------------------------------ MODULE Deposits ------------------------------
(***************************************************************************)
(* POST /v1/pay and POST /admin/test-pay, one request per identifier.      *)
(* A handler is a sequence of steps, each at most one statement on the     *)
(* database or one exchange with DIARRA; between two steps anything else   *)
(* may happen.  pc names the step the handler takes next, or its answer.   *)
(***************************************************************************)
EXTENDS Diarra

CONSTANTS
  PayReqs,    \* requests that create or fetch a deposit
  TestPays    \* those of them made from the test page, with the admin token

ASSUME DepositsAssumption ==
  /\ PayReqs \subseteq Ids
  /\ TestPays \subseteq PayReqs

VARIABLE pay

PayAnswers == {"created", "existing", "refused", "error"}

PaySteps == {"lookup", "cap", "insert", "reselect", "call", "wait", "link",
             "fail", "recall", "rewait", "relink"}

Visit == [pc     : {"idle", "dead"} \cup PaySteps \cup PayAnswers,
          app    : Apps \cup {None},
          appRef : AppRefs \cup {None},
          amount : Amounts \cup {0},
          row    : Ids \cup {None}]     \* the payment the handler works on

DepositsTypeOK ==
  /\ pay \in [PayReqs -> Visit]
  /\ \A q \in PayReqs : pay[q].pc # "idle" => pay[q].app \in Apps /\ pay[q].appRef \in AppRefs

DepositsInit ==
  pay = [q \in PayReqs |->
           [pc |-> "idle", app |-> None, appRef |-> None, amount |-> 0, row |-> None]]

PayGoes(q, from, to) == pay[q].pc = from /\ pay' = [pay EXCEPT ![q].pc = to]

\* An authenticated, well-formed request: RequireApp only lets active apps in.
PayArrive(q, a, ref, amount) ==
  /\ q \notin TestPays
  /\ pay[q].pc = "idle"
  /\ active[a]
  /\ pay' = [pay EXCEPT ![q] = [pc |-> "lookup", app |-> a, appRef |-> ref,
                                amount |-> amount, row |-> None]]
  /\ UNCHANGED <<payments, gatewayVars>>

\* TestPay draws its own app_ref, of which 8 digits are random: it may collide.
TestPayArrive(q, a, ref, amount) ==
  /\ q \in TestPays
  /\ pay[q].pc = "idle"
  /\ pay' = [pay EXCEPT ![q] = [pc |-> "cap", app |-> a, appRef |-> ref,
                                amount |-> amount, row |-> None]]
  /\ UNCHANGED <<payments, gatewayVars>>

\* Mutant: the link is renewed for the amount of the new request.
PayFoundOwnAmount(q) ==
  /\ pay[q].pc = "lookup"
  /\ \E p \in Matching(pay[q].app, pay[q].appRef, "deposit") :
       pay' = [pay EXCEPT ![q].row = p,
                          ![q].pc = IF payments[p].status \in OpenStatuses
                                         /\ linkLikelyExpired(p)
                                      THEN "recall" ELSE "existing"]
  /\ UNCHANGED <<payments, gatewayVars>>

\* The deposit exists: answer it, or renew its link when it has none or is old.
PayFound(q) ==
  /\ pay[q].pc = "lookup"
  /\ \E p \in Matching(pay[q].app, pay[q].appRef, "deposit") :
       pay' = [pay EXCEPT ![q].row = p,
                          ![q].amount = payments[p].amount,
                          ![q].pc = IF payments[p].status \in OpenStatuses
                                         /\ linkLikelyExpired(p)
                                      THEN "recall" ELSE "existing"]
  /\ UNCHANGED <<payments, gatewayVars>>

\* Any error of the lookup is taken for an absent deposit.
PayNotFound(q) ==
  /\ PayGoes(q, "lookup", "cap")
  /\ Matching(pay[q].app, pay[q].appRef, "deposit") = {} \/ DbFails
  /\ UNCHANGED <<payments, gatewayVars>>

\* Mutant: the cap is read from some application's level.
PayCapAnyApp(q) ==
  /\ \E a \in Apps : \/ /\ PayGoes(q, "cap", "insert")
                       /\ pay[q].amount <= MaxAmountFor(kyc[a])
                    \/ /\ PayGoes(q, "cap", "refused")
                       /\ pay[q].amount > MaxAmountFor(kyc[a])
  /\ UNCHANGED <<payments, gatewayVars>>

PayCap(q) ==
  /\ \/ /\ PayGoes(q, "cap", "insert")
        /\ pay[q].amount <= MaxAmountFor(kyc[pay[q].app])
     \/ /\ PayGoes(q, "cap", "refused")
        /\ pay[q].amount > MaxAmountFor(kyc[pay[q].app])
     \/ DbFails /\ PayGoes(q, "cap", "error")
  /\ UNCHANGED <<payments, gatewayVars>>

PayRow(q) == NewRow("deposit", pay[q].app, pay[q].appRef, q, pay[q].amount, None)

\* Mutant: the index is on the other columns.
PayNoIndex(q) == Matching(pay[q].app, pay[q].appRef, "payout") = {}

PayKeyFree(q) == Matching(pay[q].app, pay[q].appRef, "deposit") = {}

\* Mutant: ON CONFLICT DO UPDATE.
PayUpsert(q) ==
  /\ pay[q].pc = "insert"
  /\ \/ /\ PayKeyFree(q)
        /\ InsertRow(q, PayRow(q))
        /\ pay' = [pay EXCEPT ![q].pc = "call", ![q].row = q]
     \/ \E p \in Matching(pay[q].app, pay[q].appRef, "deposit") :
          /\ payments' = [payments EXCEPT ![p].amount = pay[q].amount]
          /\ pay' = [pay EXCEPT ![q].pc = "call", ![q].row = p]
  /\ UNCHANGED gatewayVars

\* INSERT ... ON CONFLICT DO NOTHING RETURNING.
PayInsert(q) ==
  /\ pay[q].pc = "insert"
  /\ \/ /\ PayKeyFree(q)
        /\ InsertRow(q, PayRow(q))
        /\ pay' = [pay EXCEPT ![q].pc = "call", ![q].row = q]
     \/ /\ ~PayKeyFree(q)
        /\ pay' = [pay EXCEPT ![q].pc = "reselect"]
        /\ UNCHANGED payments
     \/ /\ FailedWrite(PayKeyFree(q) /\ InsertRow(q, PayRow(q)))
        /\ pay' = [pay EXCEPT ![q].pc = "error"]
  /\ UNCHANGED gatewayVars

\* Mutant: the handler carries on with the row it failed to insert.
PayReselectOwn(q) ==
  /\ pay[q].pc = "reselect"
  /\ pay' = [pay EXCEPT ![q].pc = "call", ![q].row = q]
  /\ UNCHANGED <<payments, gatewayVars>>

\* The conflicting row is read back, and the handler carries on with it.
PayReselect(q) ==
  /\ pay[q].pc = "reselect"
  /\ \/ \E p \in Matching(pay[q].app, pay[q].appRef, "deposit") :
          pay' = [pay EXCEPT ![q].pc = "call", ![q].row = p]
     \/ DbFails /\ pay' = [pay EXCEPT ![q].pc = "error"]
  /\ UNCHANGED <<payments, gatewayVars>>

\* CreateDeposit under the handler's own reference, for the amount of the request.
PayCall(q) ==
  /\ PayGoes(q, "call", "wait")
  /\ CreateDeposit(q, pay[q].amount)
  /\ UNCHANGED <<payments, tx>>

PayReply(q) ==
  /\ tx[q] # "none"
  /\ PayGoes(q, "wait", "link")
  /\ UNCHANGED <<payments, gatewayVars>>

\* Refusal, transport error or the 30 s timeout: the deposit may exist or not.
PayCallFails(q) ==
  /\ PayGoes(q, "wait", "fail")
  /\ UNCHANGED <<payments, gatewayVars>>

\* The redirect_url of a reply may be empty, which counts as no link.
RedirectURL(q) == {q, None}

\* The link is recorded and the payment answered; only Pay reports the error.
PayLink(q) ==
  /\ \E l \in RedirectURL(q) :
       \/ /\ PayGoes(q, "link", "created")
          /\ UpdatePaymentRedirect(pay[q].row, l)
       \/ /\ PayGoes(q, "link", IF q \in TestPays THEN "created" ELSE "error")
          /\ FailedWrite(UpdatePaymentRedirect(pay[q].row, l))
  /\ UNCHANGED gatewayVars

\* The row is marked failed, whatever became of that write.
PayFail(q) ==
  /\ PayGoes(q, "fail", "error")
  /\ Attempt(UpdatePaymentStatus(pay[q].row, "failed"))
  /\ UNCHANGED gatewayVars

\* refreshDepositLink: a new deposit, a new reference, the same row.
RefreshCall(q) ==
  /\ PayGoes(q, "recall", "rewait")
  /\ CreateDeposit(q, pay[q].amount)
  /\ UNCHANGED <<payments, tx>>

RefreshReply(q) ==
  /\ tx[q] # "none"
  /\ PayGoes(q, "rewait", "relink")
  /\ UNCHANGED <<payments, gatewayVars>>

\* On any error the caller answers the payment it had read, link included.
RefreshCallFails(q) ==
  /\ PayGoes(q, "rewait", "existing")
  /\ UNCHANGED <<payments, gatewayVars>>

RefreshLink(q) ==
  /\ PayGoes(q, "relink", "existing")
  /\ \E l \in RedirectURL(q) : Attempt(UpdateDiarraRefAndRedirect(pay[q].row, q, l))
  /\ UNCHANGED gatewayVars

PayStep(q) ==
  \/ PayFound(q) \/ PayNotFound(q) \/ PayCap(q) \/ PayInsert(q) \/ PayReselect(q)
  \/ PayCall(q) \/ PayReply(q) \/ PayCallFails(q) \/ PayLink(q) \/ PayFail(q)
  \/ RefreshCall(q) \/ RefreshReply(q) \/ RefreshCallFails(q) \/ RefreshLink(q)

\* The process that runs the handler stops; the client sees a broken connection.
PayDies(q) ==
  /\ Crashes
  /\ pay[q].pc \in PaySteps
  /\ pay' = [pay EXCEPT ![q].pc = "dead"]
  /\ UNCHANGED <<payments, gatewayVars>>

\* 23 hours go by after the request that inserted row p was over.
Expire(p) ==
  /\ payments[p].type = "deposit"
  /\ pay[p].pc \notin PaySteps
  /\ payments[p].status \in OpenStatuses /\ ~payments[p].old
  /\ payments' = [payments EXCEPT ![p].old = TRUE]
  /\ UNCHANGED <<gatewayVars, pay>>

DepositsNext ==
  \/ \E q \in PayReqs, a \in Apps, ref \in AppRefs, amount \in Amounts :
       PayArrive(q, a, ref, amount) \/ TestPayArrive(q, a, ref, amount)
  \/ \E q \in PayReqs : PayStep(q) \/ PayDies(q)
  \/ \E p \in PayReqs : Expire(p)
=============================================================================
