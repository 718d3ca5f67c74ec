--------------------------- MODULE CompletionProofs ---------------------------
(***************************************************************************)
(* A payment marked completed was paid.  A report is attached to a row by  *)
(* its reference, so the invariant says where references come from: a row  *)
(* bears its own, or one that a renewal asked for on its behalf, and a     *)
(* handler that asked never turns to another row.                          *)
(***************************************************************************)
EXTENDS OrchestratorProofs

PayUnasked == PayEarly \cup {"reselect", "call", "recall"}

\* A handler of a deposit asks once.  It asks for the row it inserted, for one
\* that was there before it, or, to renew a link, for the amount of its row,
\* which is never one it inserted itself.
VisitOK(q) ==
  /\ pay[q].pc \in PayUnasked => ~Asked(q)
  /\ pay[q].pc \in {"reselect", "recall", "rewait", "relink"} => ~Stored(q)
  /\ pay[q].pc = "call" /\ Stored(q) => pay[q].row = q /\ pay[q].amount = payments[q].amount
  /\ pay[q].pc = "recall" =>
       LET p == pay[q].row IN
       p \in Ids /\ payments[p].type = "deposit" /\ pay[q].amount = payments[p].amount
  /\ pay[q].pc \in {"rewait", "relink"} =>
       LET p == pay[q].row IN
       p \in Ids /\ payments[p].type = "deposit" /\ Asked(q) /\ Linked(p, q)

\* A handler of a transfer asks once, for the net amount of its own row, and
\* the status it notes is one its own transaction had.
RequestOK(q) ==
  /\ xfer[q].pc \in XferUnasked => ~Asked(q)
  /\ xfer[q].pc = "call" => payments[q].net = NetOf(xfer[q].amount)
  /\ xfer[q].pc \in {"wait", "note"} => Asked(q)
  /\ xfer[q].pc = "note" /\ xfer[q].status = "completed" => tx[q] = "completed"

\* A row is found under its own reference, or under one asked for it.
RefOK(p) ==
  LET r == payments[p].ref IN
  /\ IF payments[p].type = "deposit" THEN p \in PayReqs /\ r \in PayReqs
                                     ELSE p \in XferReqs /\ r = p
  /\ r = p \/ Asked(r)
  /\ Asked(r) => Linked(p, r)

\* A completed row is backed: NoFalseCompletion, row by row.
Backed(p) ==
  payments[p].status = "completed" => \E r \in Ids : tx[r] = "completed" /\ Linked(p, r)

\* A report is final; once it has found its row it is about that row.
ReportOK(d) ==
  /\ hook[d].pc \in {"find", "apply", "absent"} => tx[hook[d].ref] = hook[d].status
  /\ hook[d].pc = "apply" =>
       LET p == hook[d].row IN p \in Ids /\ Stored(p) /\ Linked(p, hook[d].ref)

Known == \A r \in Ids : tx[r] # "none" => Asked(r)

CompletionInv ==
  /\ \A q \in PayReqs : VisitOK(q)
  /\ \A q \in XferReqs : RequestOK(q)
  /\ \A p \in Ids : Stored(p) => RefOK(p) /\ Backed(p)
  /\ \A d \in Deliveries : ReportOK(d)
  /\ Known
-----------------------------------------------------------------------------
(* What a step does to a handler of a deposit.                              *)

VisitSteps(q) ==
  /\ pay[q].pc \notin PayEarly \cup {"reselect"} => pay'[q].row = pay[q].row
  /\ pay[q].pc \notin {"idle", "lookup"} => pay'[q].amount = pay[q].amount
  /\ asked'[q] # asked[q] =>
       /\ pay[q].pc \in {"call", "recall"} /\ pay'[q].pc \notin PayUnasked
       /\ asked'[q].type = "deposit" /\ asked'[q].amount = pay[q].amount
  /\ pay'[q].pc \in PayUnasked => pay[q].pc \in PayUnasked
  /\ pay'[q].pc = "reselect" =>
       pay[q].pc = "reselect" \/ (pay[q].pc = "insert" /\ UNCHANGED payments)
  /\ pay'[q].pc = "call" =>
       \/ pay[q].pc = "call"
       \/ pay[q].pc = "reselect" /\ UNCHANGED payments
       \/ PayInserts(q) /\ pay'[q].row = q
  /\ pay'[q].pc = "recall" =>
       \/ pay[q].pc = "recall"
       \/ /\ pay[q].pc = "lookup" /\ UNCHANGED payments
          /\ LET p == pay'[q].row IN
             p \in Ids /\ payments[p].type = "deposit" /\ pay'[q].amount = payments[p].amount
  /\ pay'[q].pc \in {"rewait", "relink"} =>
       \/ pay[q].pc \in {"rewait", "relink"}
       \/ /\ pay[q].pc = "recall"
          /\ asked'[q].type = "deposit" /\ asked'[q].amount = pay[q].amount

\* A step that moves one handler of a deposit to another point, and no more.
LEMMA VisitMoves ==
  ASSUME TypeOK, NEW q \in PayReqs, NEW r \in PayReqs, NEW pc,
         pay' = [pay EXCEPT ![r].pc = pc], asked' = asked,
         pc \notin {"call", "reselect", "recall"},
         pc \in {"cap", "insert"} => pay[r].pc \in {"lookup", "cap"},
         pc \in {"idle", "lookup"} => FALSE,
         pc \in {"rewait", "relink"} => pay[r].pc \in {"rewait", "relink"}
  PROVE  VisitSteps(q)
<1>1. pay \in [PayReqs -> Visit]
  BY DEF TypeOK, DepositsTypeOK
<1>. QED  BY <1>1 DEF VisitSteps, Visit, PayUnasked, PayEarly

LEMMA DepositsVisits ==
  ASSUME TypeOK, DepositsNext, NEW q \in PayReqs
  PROVE  VisitSteps(q)
<1>0. /\ pay \in [PayReqs -> Visit] /\ asked \in [Ids -> Order]
      /\ PayReqs \subseteq Ids
  BY DepositsAssumption DEF TypeOK, DepositsTypeOK, DiarraTypeOK
<1>1. ASSUME NEW r \in PayReqs, NEW a \in Apps, NEW ref \in AppRefs, NEW amount \in Amounts,
             PayArrive(r, a, ref, amount) \/ TestPayArrive(r, a, ref, amount)
      PROVE  VisitSteps(q)
  BY <1>0, <1>1 DEF PayArrive, TestPayArrive, gatewayVars, VisitSteps, Visit, PayUnasked, PayEarly
<1>2. ASSUME NEW r \in PayReqs, PayFound(r) PROVE VisitSteps(q)
  <2>1. PICK p \in Ids, pc \in {"recall", "existing"} :
          /\ payments[p].type = "deposit"
          /\ pay' = [pay EXCEPT ![r].row = p, ![r].amount = payments[p].amount, ![r].pc = pc]
    BY <1>2 DEF PayFound, Matching
  <2>2. pay[r].pc = "lookup" /\ UNCHANGED <<payments, asked>>
    BY <1>2 DEF PayFound, gatewayVars
  <2>. QED  BY <1>0, <2>1, <2>2 DEF VisitSteps, Visit, PayUnasked, PayEarly
<1>3. ASSUME NEW r \in PayReqs, PayInsert(r) PROVE VisitSteps(q)
  <2>0. pay[r].pc = "insert" /\ asked' = asked
    BY <1>3 DEF PayInsert, gatewayVars
  <2>1. CASE PayKeyFree(r) /\ InsertRow(r, PayRow(r))
             /\ pay' = [pay EXCEPT ![r].pc = "call", ![r].row = r]
    BY <1>0, <2>0, <2>1 DEF VisitSteps, Visit, PayUnasked, PayEarly, PayInserts
  <2>2. CASE pay' = [pay EXCEPT ![r].pc = "reselect"] /\ UNCHANGED payments
    BY <1>0, <2>0, <2>2 DEF VisitSteps, Visit, PayUnasked, PayEarly
  <2>3. CASE pay' = [pay EXCEPT ![r].pc = "error"]
    BY <1>0, <2>0, <2>3 DEF VisitSteps, Visit, PayUnasked, PayEarly
  <2>. QED  BY <1>3, <2>1, <2>2, <2>3 DEF PayInsert
<1>4. ASSUME NEW r \in PayReqs, PayReselect(r) PROVE VisitSteps(q)
  <2>1. pay[r].pc = "reselect" /\ UNCHANGED <<payments, asked>>
    BY <1>4 DEF PayReselect, gatewayVars
  <2>2. ASSUME NEW p \in Ids, pay' = [pay EXCEPT ![r].pc = "call", ![r].row = p]
        PROVE  VisitSteps(q)
    BY <1>0, <2>1, <2>2 DEF VisitSteps, Visit, PayUnasked, PayEarly
  <2>3. CASE pay' = [pay EXCEPT ![r].pc = "error"]
    BY <1>0, <2>1, <2>3 DEF VisitSteps, Visit, PayUnasked, PayEarly
  <2>. QED  BY <1>4, <2>2, <2>3 DEF PayReselect, Matching
<1>5. ASSUME NEW r \in PayReqs, PayCall(r) \/ RefreshCall(r) PROVE VisitSteps(q)
  <2>1. /\ asked' = [asked EXCEPT ![r] = [type |-> "deposit", amount |-> pay[r].amount,
                                          of |-> None]]
        /\ \/ pay[r].pc = "call" /\ pay' = [pay EXCEPT ![r].pc = "wait"]
           \/ pay[r].pc = "recall" /\ pay' = [pay EXCEPT ![r].pc = "rewait"]
    BY <1>5 DEF PayCall, RefreshCall, PayGoes, CreateDeposit
  <2>. QED  BY <1>0, <2>1 DEF VisitSteps, Visit, PayUnasked, PayEarly
<1>6. ASSUME NEW r \in PayReqs,
             \/ PayNotFound(r) \/ PayCap(r) \/ PayReply(r) \/ PayCallFails(r)
             \/ PayLink(r) \/ PayFail(r) \/ RefreshReply(r) \/ RefreshCallFails(r)
             \/ RefreshLink(r) \/ PayDies(r)
      PROVE  VisitSteps(q)
  <2>1. asked' = asked
    BY <1>6 DEF PayNotFound, PayCap, PayReply, PayCallFails, PayLink, PayFail, RefreshReply,
         RefreshCallFails, RefreshLink, PayDies, gatewayVars
  <2>2. PICK pc : /\ pay' = [pay EXCEPT ![r].pc = pc]
                  /\ pc \in {"cap", "insert"} => pay[r].pc \in {"lookup", "cap"}
                  /\ pc \notin {"call", "reselect", "recall", "idle", "lookup", "rewait"}
                  /\ pc = "relink" => pay[r].pc = "rewait"
    BY <1>6 DEF PayNotFound, PayCap, PayReply, PayCallFails, PayLink, PayFail, RefreshReply,
         RefreshCallFails, RefreshLink, PayDies, PayGoes
  <2>. QED  BY <2>1, <2>2, VisitMoves
<1>7. ASSUME NEW p \in PayReqs, Expire(p) PROVE VisitSteps(q)
  BY <1>7 DEF Expire, gatewayVars, VisitSteps
<1>. QED  BY <1>1, <1>2, <1>3, <1>4, <1>5, <1>6, <1>7 DEF DepositsNext, PayStep

LEMMA OthersVisits ==
  ASSUME TypeOK, TransfersNext \/ DiarraNext \/ WebhookNext \/ UNCHANGED gatewayVars,
         UNCHANGED pay, NEW q \in PayReqs
  PROVE  VisitSteps(q)
<1>0. asked \in [Ids -> Order] /\ q \in Ids /\ q \notin XferReqs
  BY DepositsAssumption, OrchestratorAssumption DEF TypeOK, DiarraTypeOK
<1>1. ASSUME TransfersNext PROVE asked'[q] = asked[q]
  <2>1. CASE \E r \in XferReqs : XferCall(r)
    BY <1>0, <2>1 DEF XferCall, CreatePayout, CreateRefund
  <2>2. CASE ~\E r \in XferReqs : XferCall(r)
    BY <1>1, <2>2 DEF TransfersNext, XferStep, PayoutArrive, AdminPayoutArrive, RefundArrive,
       AdminRefundArrive, XferFound, XferNotFound, PayoutCap, RefundReadsDeposit, XferInsert,
       XferReply, XferCallFails, XferNote, XferFail, XferDies, gatewayVars
  <2>. QED  BY <2>1, <2>2
<1>2. ASSUME DiarraNext \/ WebhookNext \/ UNCHANGED gatewayVars PROVE asked'[q] = asked[q]
  BY <1>2 DEF DiarraNext, Accept, Settle, WebhookNext, Deliver, CallbackStep,
     CallbackFindsPayment, CallbackFindsNothing, CallbackDropped, CallbackApplied, CallbackUpdateFails,
     CallbackDies, gatewayVars
<1>. QED  BY <1>1, <1>2 DEF VisitSteps
-----------------------------------------------------------------------------
(* What a step does to a row: it is inserted, or it keeps its type, changes *)
(* its reference by a renewal only, and is completed only by a report or by *)
(* the reply to a transfer.                                                 *)

Inserted(p) == (p \in PayReqs /\ PayInserts(p)) \/ (p \in XferReqs /\ XferInserts(p))

Renewed(p) ==
  \E q \in PayReqs : pay[q].pc = "relink" /\ pay[q].row = p /\ payments'[p].ref = q

Reported(p) ==
  \E d \in Deliveries : /\ hook[d].pc = "apply" /\ hook[d].row = p
                        /\ hook[d].status = "completed"

Noted(p) == p \in XferReqs /\ xfer[p].pc = "note" /\ xfer[p].status = "completed"

RowSteps(p) ==
  \/ Inserted(p)
  \/ /\ payments'[p].type = payments[p].type
     /\ payments'[p].ref = payments[p].ref \/ Renewed(p)
     /\ payments'[p].status = "completed" =>
          payments[p].status = "completed" \/ Reported(p) \/ Noted(p)

LEMMA DepositsRows ==
  ASSUME TypeOK, DepositsNext, NEW p \in Ids
  PROVE  RowSteps(p)
<1>0. payments \in [Ids -> Row]
  BY DEF TypeOK, StoreTypeOK
<1>1. ASSUME UNCHANGED payments PROVE RowSteps(p)
  BY <1>1 DEF RowSteps
<1>2. ASSUME NEW q \in PayReqs, PayInsert(q) PROVE RowSteps(p)
  <2>1. CASE UNCHANGED payments
    BY <1>1, <2>1
  <2>2. CASE PayKeyFree(q) /\ InsertRow(q, PayRow(q)) /\ p # q
    BY <1>0, <2>2 DEF InsertRow, RowSteps
  <2>3. CASE PayKeyFree(q) /\ InsertRow(q, PayRow(q)) /\ p = q
    <3>1. pay[q].pc = "insert" /\ pay'[q].pc \in {"call", "error", "reselect"}
      BY <1>2 DEF PayInsert, TypeOK, DepositsTypeOK, Visit
    <3>. QED  BY <2>3, <3>1 DEF RowSteps, Inserted, PayInserts, PayEarly
  <2>. QED  BY <1>2, <2>1, <2>2, <2>3 DEF PayInsert, FailedWrite
<1>3. ASSUME NEW q \in PayReqs, PayLink(q) \/ PayFail(q) PROVE RowSteps(p)
  <2>1. \/ UNCHANGED payments
        \/ \E l \in {q, None} : UpdatePaymentRedirect(pay[q].row, l)
        \/ UpdatePaymentStatus(pay[q].row, "failed")
    BY <1>3, PayLinkWrites DEF PayFail, Attempt
  <2>2. ASSUME NEW l, UpdatePaymentRedirect(pay[q].row, l) PROVE RowSteps(p)
    BY <1>0, <2>2 DEF UpdatePaymentRedirect, RowSteps, Row
  <2>3. ASSUME UpdatePaymentStatus(pay[q].row, "failed") PROVE RowSteps(p)
    BY <1>0, <2>3 DEF UpdatePaymentStatus, RowSteps, Row
  <2>. QED  BY <1>1, <2>1, <2>2, <2>3
<1>4. ASSUME NEW q \in PayReqs, RefreshLink(q) PROVE RowSteps(p)
  <2>1. CASE UNCHANGED payments
    BY <1>1, <2>1
  <2>2. ASSUME NEW l, UpdateDiarraRefAndRedirect(pay[q].row, q, l), pay[q].pc = "relink"
        PROVE  RowSteps(p)
    BY <1>0, <2>2 DEF UpdateDiarraRefAndRedirect, RowSteps, Renewed, Row
  <2>. QED  BY <1>4, <2>1, <2>2, RefreshLinkWrites
<1>5. ASSUME NEW q \in PayReqs, Expire(q) PROVE RowSteps(p)
  BY <1>0, <1>5 DEF Expire, RowSteps, Row
<1>6. ASSUME NEW q \in PayReqs,
             \/ \E a \in Apps, ref \in AppRefs, amount \in Amounts :
                  PayArrive(q, a, ref, amount) \/ TestPayArrive(q, a, ref, amount)
             \/ PayFound(q) \/ PayNotFound(q) \/ PayCap(q) \/ PayReselect(q) \/ PayCall(q)
             \/ PayReply(q) \/ PayCallFails(q) \/ RefreshCall(q) \/ RefreshReply(q)
             \/ RefreshCallFails(q) \/ PayDies(q)
      PROVE  RowSteps(p)
  <2>1. UNCHANGED payments
    BY <1>6 DEF PayArrive, TestPayArrive, PayFound, PayNotFound, PayCap, PayReselect, PayCall,
       PayReply, PayCallFails, RefreshCall, RefreshReply, RefreshCallFails, PayDies
  <2>. QED  BY <1>1, <2>1
<1>. QED  BY <1>2, <1>3, <1>4, <1>5, <1>6 DEF DepositsNext, PayStep

LEMMA TransfersRows ==
  ASSUME TypeOK, TransfersNext, NEW p \in Ids
  PROVE  RowSteps(p)
<1>0. payments \in [Ids -> Row]
  BY DEF TypeOK, StoreTypeOK
<1>1. ASSUME UNCHANGED payments PROVE RowSteps(p)
  BY <1>1 DEF RowSteps
<1>2. ASSUME NEW q \in XferReqs, XferInsert(q) PROVE RowSteps(p)
  <2>1. CASE UNCHANGED payments
    BY <1>1, <2>1
  <2>2. CASE XferKeyFree(q) /\ InsertRow(q, XferRow(q)) /\ p # q
    BY <1>0, <2>2 DEF InsertRow, RowSteps
  <2>3. CASE XferKeyFree(q) /\ InsertRow(q, XferRow(q)) /\ p = q
    <3>1. xfer[q].pc = "insert" /\ xfer'[q].pc \in {"call", "error"}
      BY <1>2 DEF XferInsert, XferGoes, TypeOK, TransfersTypeOK, Transfer
    <3>. QED  BY <2>3, <3>1 DEF RowSteps, Inserted, XferInserts, XferEarly
  <2>. QED  BY <1>2, <2>1, <2>2, <2>3 DEF XferInsert, FailedWrite
<1>3. ASSUME NEW q \in XferReqs, XferFail(q) \/ XferNote(q) PROVE RowSteps(p)
  <2>1. PICK s : /\ UNCHANGED payments \/ UpdatePaymentStatus(q, s)
                 /\ s = "completed" => xfer[q].pc = "note" /\ xfer[q].status = "completed"
    <3>1. normalizeStatus(xfer[q].status) = "completed" => xfer[q].status = "completed"
      BY DEF normalizeStatus
    <3>. QED  BY <1>3, <3>1 DEF XferFail, XferNote, XferEnds, XferGoes, Attempt
  <2>2. CASE UpdatePaymentStatus(q, s)
    BY <1>0, <2>1, <2>2 DEF UpdatePaymentStatus, RowSteps, Noted, Row
  <2>. QED  BY <1>1, <2>1, <2>2
<1>4. ASSUME NEW q \in XferReqs,
             \/ \E a \in Apps, ref \in AppRefs, amount \in Amounts :
                  PayoutArrive(q, a, ref, amount) \/ AdminPayoutArrive(q, a, ref, amount)
             \/ \E a \in Apps, dref, ref \in AppRefs : RefundArrive(q, a, dref, ref)
             \/ \E r \in Ids : AdminRefundArrive(q, r)
             \/ XferFound(q) \/ XferNotFound(q) \/ PayoutCap(q) \/ RefundReadsDeposit(q)
             \/ XferCall(q) \/ XferReply(q) \/ XferCallFails(q) \/ XferDies(q)
      PROVE  RowSteps(p)
  <2>1. UNCHANGED payments
    BY <1>4 DEF PayoutArrive, AdminPayoutArrive, RefundArrive, AdminRefundArrive, XferFound,
       XferNotFound, PayoutCap, RefundReadsDeposit, XferCall, XferReply, XferCallFails, XferDies
  <2>. QED  BY <1>1, <2>1
<1>. QED  BY <1>2, <1>3, <1>4 DEF TransfersNext, XferStep

LEMMA OthersRows ==
  ASSUME TypeOK, DiarraNext \/ WebhookNext \/ UNCHANGED payments, NEW p \in Ids
  PROVE  RowSteps(p)
<1>0. payments \in [Ids -> Row]
  BY DEF TypeOK, StoreTypeOK
<1>1. ASSUME UNCHANGED payments PROVE RowSteps(p)
  BY <1>1 DEF RowSteps
<1>2. DiarraNext => UNCHANGED payments
  BY DEF DiarraNext, Accept, Settle
<1>3. ASSUME NEW d \in Deliveries, hook[d].pc = "apply",
             UpdatePaymentStatus(hook[d].row, hook[d].status)
      PROVE  RowSteps(p)
  BY <1>0, <1>3 DEF UpdatePaymentStatus, RowSteps, Reported, Row
<1>4. WebhookNext => \/ UNCHANGED payments
                     \/ \E d \in Deliveries :
                          hook[d].pc = "apply" /\ UpdatePaymentStatus(hook[d].row, hook[d].status)
  BY DEF WebhookNext, Deliver, CallbackStep, CallbackFindsPayment, CallbackFindsNothing, CallbackDropped,
     CallbackApplied, CallbackUpdateFails, CallbackDies, FailedWrite
<1>. QED  BY <1>1, <1>2, <1>3, <1>4
-----------------------------------------------------------------------------
(* What a step does to the transactions and to the reports about them.      *)

EndStatuses == FinalStatuses \cup Outcomes

GatewaySteps(r) ==
  /\ tx[r] \in EndStatuses => tx'[r] = tx[r]
  /\ tx'[r] # "none" => tx[r] # "none" \/ Asked(r)
  /\ asked'[r] # asked[r] => r \in PayReqs \cup XferReqs

ReportSteps(d) ==
  \/ hook'[d] = hook[d]
  \/ hook'[d].pc \in {"idle", "unread"}
  \/ /\ hook'[d].pc = "find" /\ hook'[d].ref \in Ids
     /\ hook'[d].status = tx[hook'[d].ref] /\ tx[hook'[d].ref] \in EndStatuses
  \/ /\ UNCHANGED payments
     /\ hook[d].pc = "find" /\ hook'[d].pc = "apply"
     /\ hook'[d].ref = hook[d].ref /\ hook'[d].status = hook[d].status
     /\ hook'[d].row \in FindPaymentByDiarraRef(hook[d].ref)
  \/ /\ UNCHANGED payments
     /\ hook[d].pc = "find" /\ hook'[d].pc = "absent"
     /\ hook'[d].ref = hook[d].ref /\ hook'[d].status = hook[d].status
     /\ FindPaymentByDiarraRef(hook[d].ref) = {}

LEMMA TransactionsStep ==
  ASSUME TypeOK, [Next]_vars, NEW r \in Ids
  PROVE  GatewaySteps(r)
<1>0. /\ asked \in [Ids -> Order]
      /\ tx \in [Ids -> {"none"} \cup InitialStatuses \cup Outcomes]
      /\ PayReqs \subseteq Ids /\ XferReqs \subseteq Ids
  BY DepositsAssumption, TransfersAssumption DEF TypeOK, DiarraTypeOK
<1>1. CASE DiarraNext
  <2>1. PICK x \in Ids : /\ \E s : tx' = [tx EXCEPT ![x] = s]
                         /\ UNCHANGED asked
                         /\ tx[x] \notin EndStatuses
                         /\ tx[x] # "none" \/ Asked(x)
    BY <1>1, DiarraAssumption DEF DiarraNext, Accept, Settle, EndStatuses, FinalStatuses
  <2>. QED  BY <1>0, <2>1 DEF GatewaySteps
<1>2. CASE DepositsNext
  <2>1. \/ UNCHANGED gatewayVars
        \/ UNCHANGED tx /\ \E x \in PayReqs : \E new : asked' = [asked EXCEPT ![x] = new]
    BY <1>2, Zenon DEF DepositsNext, PayStep, PayArrive, TestPayArrive, PayFound, PayNotFound,
       PayCap, PayInsert, PayReselect, PayCall, PayReply, PayCallFails, PayLink, PayFail,
       RefreshCall, RefreshReply, RefreshCallFails, RefreshLink, PayDies, Expire,
       CreateDeposit
  <2>. QED  BY <1>0, <2>1 DEF GatewaySteps, gatewayVars
<1>3. CASE TransfersNext
  <2>1. \/ UNCHANGED gatewayVars
        \/ UNCHANGED tx /\ \E x \in XferReqs : \E new : asked' = [asked EXCEPT ![x] = new]
    BY <1>3, Zenon DEF TransfersNext, XferStep, PayoutArrive, AdminPayoutArrive, RefundArrive,
       AdminRefundArrive, XferFound, XferNotFound, PayoutCap, RefundReadsDeposit, XferInsert,
       XferCall, CreatePayout, CreateRefund, XferReply, XferCallFails, XferNote, XferFail,
       XferDies
  <2>. QED  BY <1>0, <2>1 DEF GatewaySteps, gatewayVars
<1>4. CASE UNCHANGED gatewayVars
  BY <1>4 DEF GatewaySteps, gatewayVars
<1>5. CASE WebhookNext
  BY <1>4, <1>5 DEF WebhookNext, Deliver, CallbackStep, CallbackFindsPayment, CallbackFindsNothing, CallbackDropped,
     CallbackApplied, CallbackUpdateFails, CallbackDies
<1>. QED  BY <1>1, <1>2, <1>3, <1>4, <1>5 DEF Next, vars

LEMMA ReportsStep ==
  ASSUME TypeOK, [Next]_vars, NEW d \in Deliveries
  PROVE  ReportSteps(d)
<1>0. hook \in [Deliveries -> Callback]
  BY DEF TypeOK, WebhookTypeOK
<1>1. CASE UNCHANGED hookVars
  BY <1>1 DEF hookVars, ReportSteps
<1>2. ASSUME NEW c \in Deliveries, NEW r \in Ids, Deliver(c, r) PROVE ReportSteps(d)
  BY <1>0, <1>2 DEF Deliver, ReportSteps, EndStatuses
<1>3. ASSUME NEW c \in Deliveries, CallbackFindsPayment(c) PROVE ReportSteps(d)
  <2>1. PICK p \in FindPaymentByDiarraRef(hook[c].ref) :
          hook' = [hook EXCEPT ![c].pc = "apply", ![c].row = p]
    BY <1>3 DEF CallbackFindsPayment
  <2>2. hook[c].pc = "find" /\ UNCHANGED payments
    BY <1>3 DEF CallbackFindsPayment
  <2>. QED  BY <1>0, <2>1, <2>2 DEF ReportSteps, Callback
<1>4. ASSUME NEW c \in Deliveries, CallbackFindsNothing(c) \/ CallbackDropped(c)
      PROVE  ReportSteps(d)
  BY <1>0, <1>4 DEF CallbackFindsNothing, CallbackDropped, ReportSteps, Callback, NoCallback
<1>5. ASSUME NEW c \in Deliveries,
             CallbackApplied(c) \/ CallbackUpdateFails(c) \/ CallbackDies(c)
      PROVE  ReportSteps(d)
  <2>1. hook' = [hook EXCEPT ![c] = NoCallback]
    BY <1>5 DEF CallbackApplied, CallbackUpdateFails, CallbackDies
  <2>. QED  BY <1>0, <2>1 DEF ReportSteps, NoCallback
<1>. QED  BY <1>1, <1>2, <1>3, <1>4, <1>5 DEF Next, WebhookNext, CallbackStep, vars
-----------------------------------------------------------------------------
LEMMA EveryStep ==
  ASSUME TypeOK, [Next]_vars
  PROVE  /\ \A q \in PayReqs : VisitSteps(q)
         /\ \A q \in XferReqs : RequestSteps(q)
         /\ \A p \in Ids : RowSteps(p)
         /\ \A r \in Ids : GatewaySteps(r)
         /\ \A d \in Deliveries : ReportSteps(d)
<1>1. \A q \in PayReqs : VisitSteps(q)
  BY DepositsVisits, OthersVisits DEF Next, vars
<1>2. \A q \in XferReqs : RequestSteps(q)
  BY TransfersRequests, OthersRequests DEF Next, vars
<1>3. \A p \in Ids : RowSteps(p)
  BY DepositsRows, TransfersRows, OthersRows DEF Next, vars
<1>. QED  BY <1>1, <1>2, <1>3, TransactionsStep, ReportsStep

Sound == KeysOK /\ AskedOwns /\ CompletionInv

\* The lemmas of a step all start from the same facts.
LEMMA SoundStep ==
  ASSUME Sound, [Next]_vars
  PROVE  /\ \A q \in PayReqs : VisitSteps(q) /\ VisitOK(q)
         /\ \A q \in XferReqs : RequestSteps(q) /\ RequestOK(q)
         /\ \A p \in Ids : RowSteps(p)
         /\ \A p \in Ids : Stored(p) => TermsKept(p) /\ RefOK(p) /\ Backed(p)
         /\ \A r \in Ids : GatewaySteps(r)
         /\ \A d \in Deliveries : ReportSteps(d) /\ ReportOK(d)
         /\ Known
BY EveryStep, KeysStep DEF Sound, KeysOK, CompletionInv

\* What was asked under a reference is never asked again.
LEMMA AskedStable ==
  ASSUME Sound, [Next]_vars, NEW r \in Ids, Asked(r)
  PROVE  asked'[r] = asked[r] /\ Asked(r)'
<1>1. /\ asked'[r] # asked[r] => r \in PayReqs \cup XferReqs
      /\ r \in PayReqs => VisitSteps(r) /\ VisitOK(r)
      /\ r \in XferReqs => RequestSteps(r) /\ RequestOK(r)
  BY SoundStep DEF GatewaySteps
<1>2. CASE r \in PayReqs
  BY <1>1, <1>2 DEF VisitSteps, VisitOK, PayUnasked, Asked
<1>3. CASE r \in XferReqs
  BY <1>1, <1>3 DEF RequestSteps, RequestOK, XferUnasked, Asked
<1>. QED  BY <1>1, <1>2, <1>3 DEF Asked

\* A reference asked for on behalf of a row stays so.
LEMMA LinkedStable ==
  ASSUME Sound, [Next]_vars, NEW p \in Ids, NEW r \in Ids, Stored(p), Asked(r), Linked(p, r)
  PROVE  Asked(r)' /\ Linked(p, r)'
<1>1. asked'[r] = asked[r] /\ Asked(r)'
  BY AskedStable
<1>2. r \in PayReqs => pay'[r].row = pay[r].row
  <2>1. r \in PayReqs => VisitSteps(r) /\ VisitOK(r)
    BY SoundStep
  <2>. QED  BY <2>1 DEF VisitSteps, VisitOK, PayUnasked
<1>3. /\ payments'[p].type = payments[p].type /\ payments'[p].amount = payments[p].amount
      /\ payments'[p].net = payments[p].net
  BY SoundStep DEF TermsKept
<1>. QED  BY <1>1, <1>2, <1>3 DEF Linked, Served

LEMMA VisitsStep ==
  ASSUME Sound, [Next]_vars, NEW q \in PayReqs
  PROVE  VisitOK(q)'
<1>0. /\ q \in Ids /\ q \notin XferReqs /\ VisitSteps(q) /\ VisitOK(q) /\ RowSteps(q)
      /\ pay[q].pc \in PayEarly => ~Stored(q)
      /\ \A p \in Ids : Stored(p) => TermsKept(p)
  BY DepositsAssumption, OrchestratorAssumption, SoundStep DEF Sound, KeysOK, NotYetStored
<1>1. Stored(q)' => Stored(q) \/ pay[q].pc = "insert"
  BY <1>0 DEF RowSteps, Inserted, PayInserts, Stored
<1>2. pay'[q].pc \in PayUnasked => ~Asked(q)'
  BY <1>0 DEF VisitSteps, VisitOK, Asked
<1>3. pay'[q].pc \in {"reselect", "recall", "rewait", "relink"} => ~Stored(q)'
  BY <1>0, <1>1 DEF VisitSteps, VisitOK, PayEarly, Stored
<1>4. ASSUME pay'[q].pc = "call", Stored(q)'
      PROVE  pay'[q].row = q /\ pay'[q].amount = payments'[q].amount
  <2>1. CASE pay[q].pc = "call"
    BY <1>0, <1>1, <1>4, <2>1 DEF VisitSteps, VisitOK, PayEarly, TermsKept
  <2>2. CASE pay[q].pc = "reselect" /\ UNCHANGED payments
    BY <1>0, <1>4, <2>2 DEF VisitOK, Stored
  <2>3. CASE PayInserts(q) /\ pay'[q].row = q
    BY <1>0, <2>3 DEF VisitSteps, PayInserts, InsertRow, PayRow, NewRow, Sound, KeysOK,
       TypeOK, StoreTypeOK
  <2>. QED  BY <1>0, <1>4, <2>1, <2>2, <2>3 DEF VisitSteps
<1>5. ASSUME pay'[q].pc = "recall"
      PROVE  LET p == pay'[q].row IN
             p \in Ids /\ payments'[p].type = "deposit" /\ pay'[q].amount = payments'[p].amount
  <2>1. CASE pay[q].pc = "recall"
    BY <1>0, <2>1 DEF VisitSteps, VisitOK, PayEarly, TermsKept, Stored
  <2>. QED  BY <1>0, <1>5, <2>1 DEF VisitSteps
<1>6. ASSUME NEW p, p = pay'[q].row, pay'[q].pc \in {"rewait", "relink"}
      PROVE  p \in Ids /\ payments'[p].type = "deposit" /\ Asked(q)' /\ Linked(p, q)'
  <2>1. pay[q].pc \in {"recall", "rewait", "relink"} /\ pay[q].row = p
    BY <1>0, <1>6 DEF VisitSteps, PayEarly
  <2>2. p \in Ids /\ payments[p].type = "deposit"
    BY <1>0, <2>1 DEF VisitOK
  <2>3. /\ payments'[p].type = "deposit" /\ payments'[p].amount = payments[p].amount
    BY <1>0, <2>2 DEF TermsKept, Stored
  <2>4. CASE pay[q].pc \in {"rewait", "relink"}
    BY <1>0, <2>1, <2>2, <2>3, <2>4, LinkedStable DEF VisitOK, Stored
  <2>5. CASE pay[q].pc = "recall"
    <3>1. asked'[q].type = "deposit" /\ asked'[q].amount = payments[p].amount
      BY <1>0, <1>6, <2>1, <2>5 DEF VisitSteps, VisitOK
    <3>. QED  BY <1>6, <2>2, <2>3, <3>1 DEF Linked, Served, Asked
  <2>. QED  BY <2>1, <2>4, <2>5
<1>. QED  BY <1>2, <1>3, <1>4, <1>5, <1>6 DEF VisitOK, PayUnasked, PayEarly

LEMMA RequestsStep ==
  ASSUME Sound, [Next]_vars, NEW q \in XferReqs
  PROVE  RequestOK(q)'
<1>0. /\ q \in Ids /\ RequestSteps(q) /\ RequestOK(q) /\ GatewaySteps(q)
      /\ Stored(q) => TermsKept(q)
      /\ xfer[q].pc = "call" => OwnRow(q)
  BY TransfersAssumption, SoundStep DEF Sound, AskedOwns
<1>1. xfer'[q].pc \in XferUnasked => ~Asked(q)'
  BY <1>0 DEF RequestSteps, RequestOK, Asked, XferUnasked, XferEarly
<1>2. xfer'[q].pc = "call" => payments'[q].net = NetOf(xfer'[q].amount)
  <2>1. XferInserts(q) => payments'[q].net = NetOf(xfer[q].amount)
    BY <1>0 DEF XferInserts, InsertRow, XferRow, NewRow, Sound, KeysOK, TypeOK, StoreTypeOK
  <2>2. xfer[q].pc = "call" => payments'[q].net = NetOf(xfer[q].amount)
    BY <1>0 DEF RequestOK, OwnRow, Stored, TypeOfXfer, TermsKept
  <2>. QED  BY <1>0, <2>1, <2>2 DEF RequestSteps
<1>3. xfer'[q].pc \in {"wait", "note"} => Asked(q)'
  BY <1>0, AskedStable DEF RequestSteps, RequestOK, Asked, TypeOfXfer
<1>4. xfer'[q].pc = "note" /\ xfer'[q].status = "completed" => tx'[q] = "completed"
  BY <1>0 DEF RequestSteps, RequestOK, GatewaySteps, EndStatuses, FinalStatuses
<1>. QED  BY <1>1, <1>2, <1>3, <1>4 DEF RequestOK, XferUnasked, XferEarly

LEMMA RefsStep ==
  ASSUME Sound, [Next]_vars, NEW p \in Ids, Stored(p)'
  PROVE  RefOK(p)'
<1>0. /\ RowSteps(p)
      /\ Stored(p) => TermsKept(p) /\ RefOK(p)
      /\ p \in PayReqs => VisitSteps(p) /\ VisitOK(p)
      /\ p \in XferReqs => RequestSteps(p) /\ RequestOK(p)
      /\ p \in XferReqs => p \notin PayReqs
  BY SoundStep, OrchestratorAssumption
<1>1. CASE Inserted(p)
  <2>1. p \in PayReqs =>
          payments'[p].type = "deposit" /\ pay[p].pc = "insert" /\ ~Asked(p)'
    BY <1>0, <1>1 DEF Inserted, PayInserts, InsertRow, PayRow, NewRow, VisitSteps, VisitOK,
       PayUnasked, PayEarly, Asked, Sound, KeysOK, TypeOK, StoreTypeOK
  <2>2. p \in XferReqs =>
          payments'[p].type # "deposit" /\ xfer[p].pc = "insert" /\ ~Asked(p)'
    BY <1>0, <1>1 DEF Inserted, XferInserts, InsertRow, XferRow, NewRow, TypeOfXfer, RequestSteps,
       RequestOK, XferUnasked, XferEarly, Asked, Sound, KeysOK, TypeOK, StoreTypeOK
  <2>3. payments'[p].ref = p
    BY <1>1 DEF Inserted, PayInserts, XferInserts, InsertRow, PayRow, XferRow, NewRow,
       Sound, KeysOK, TypeOK, StoreTypeOK
  <2>. QED  BY <1>0, <1>1, <2>1, <2>2, <2>3 DEF RefOK, Inserted
<1>2. ASSUME ~Inserted(p)
      PROVE  RefOK(p)'
  <2>1. /\ Stored(p) /\ payments'[p].type = payments[p].type
        /\ payments'[p].ref = payments[p].ref \/ Renewed(p)
    BY <1>0, <1>2 DEF RowSteps, Stored
  <2>2. CASE payments'[p].ref = payments[p].ref
    <3>1. PICK r \in Ids : r = payments[p].ref
      BY <1>0, <2>1, DepositsAssumption DEF RefOK
    <3>2. CASE Asked(r)
      <4>1. Asked(r)' /\ Linked(p, r)'
        BY <1>0, <2>1, <3>1, <3>2, LinkedStable DEF RefOK
      <4>. QED  BY <1>0, <2>1, <2>2, <3>1, <4>1 DEF RefOK
    <3>3. CASE ~Asked(r) /\ asked'[r] = asked[r]
      BY <1>0, <2>1, <2>2, <3>1, <3>3 DEF RefOK, Asked
    <3>4. CASE ~Asked(r) /\ asked'[r] # asked[r]
      <4>0. r = p
        BY <1>0, <2>1, <3>1, <3>4 DEF RefOK
      <4>1. /\ Asked(p)' /\ asked'[p].type = payments[p].type
            /\ payments[p].type = "deposit" => p \in PayReqs /\ pay'[p].row = p
                                               /\ asked'[p].amount = payments[p].amount
            /\ payments[p].type = "payout" => asked'[p].amount = payments[p].net
        <5>1. CASE payments[p].type = "deposit"
          <6>1. p \in PayReqs /\ pay[p].pc = "call"
            BY <1>0, <2>1, <3>4, <4>0, <5>1 DEF RefOK, VisitSteps, VisitOK
          <6>. QED  BY <1>0, <2>1, <3>4, <4>0, <5>1, <6>1
                       DEF VisitSteps, VisitOK, PayEarly, Asked
        <5>2. CASE payments[p].type # "deposit"
          <6>1. p \in XferReqs /\ xfer[p].pc = "call"
            BY <1>0, <2>1, <3>4, <4>0, <5>2 DEF RefOK, RequestSteps
          <6>2. OwnRow(p)
            BY <6>1 DEF Sound, AskedOwns
          <6>. QED  BY <1>0, <3>4, <4>0, <5>2, <6>1, <6>2
                       DEF OwnRow, RequestSteps, RequestOK, TypeOfXfer, Asked
        <5>. QED  BY <5>1, <5>2
      <4>. QED  BY <1>0, <2>1, <2>2, <3>1, <4>0, <4>1 DEF RefOK, Linked, Served, TermsKept
    <3>. QED  BY <3>2, <3>3, <3>4
  <2>3. CASE Renewed(p)
    <3>1. PICK q \in PayReqs : pay[q].pc = "relink" /\ pay[q].row = p /\ payments'[p].ref = q
      BY <2>3 DEF Renewed
    <3>2. VisitOK(q) /\ q \in Ids
      BY SoundStep, DepositsAssumption
    <3>3. payments[p].type = "deposit" /\ Asked(q) /\ Linked(p, q)
      BY <3>1, <3>2 DEF VisitOK
    <3>4. Asked(q)' /\ Linked(p, q)'
      BY <2>1, <3>2, <3>3, LinkedStable
    <3>. QED  BY <1>0, <2>1, <3>1, <3>3, <3>4 DEF RefOK
  <2>. QED  BY <2>1, <2>2, <2>3
<1>. QED  BY <1>1, <1>2

LEMMA BackedStep ==
  ASSUME Sound, [Next]_vars, NEW p \in Ids, Stored(p)', payments'[p].status = "completed"
  PROVE  \E r \in Ids : tx'[r] = "completed" /\ Linked(p, r)'
<1>1. ~Inserted(p)
  BY DEF Inserted, PayInserts, XferInserts, InsertRow, PayRow, XferRow, NewRow,
     Sound, KeysOK, TypeOK, StoreTypeOK
<1>2. /\ Stored(p) /\ RefOK(p) /\ Backed(p)
      /\ payments[p].status = "completed" \/ Reported(p) \/ Noted(p)
  BY <1>1, SoundStep DEF RowSteps, Stored
<1>3. \E r \in Ids : tx[r] = "completed" /\ Linked(p, r)
  <2>1. CASE payments[p].status = "completed"
    BY <1>2, <2>1 DEF Backed
  <2>2. CASE Reported(p)
    <3>1. PICK d \in Deliveries :
            hook[d].pc = "apply" /\ hook[d].row = p /\ hook[d].status = "completed"
      BY <2>2 DEF Reported
    <3>2. ReportOK(d) /\ hook[d].ref \in Ids
      BY <3>1, SoundStep DEF Sound, KeysOK, TypeOK, WebhookTypeOK
    <3>. QED  BY <3>1, <3>2 DEF ReportOK
  <2>3. CASE Noted(p)
    <3>1. tx[p] = "completed" /\ Asked(p) /\ payments[p].ref = p
      BY <1>2, <2>3, SoundStep, OrchestratorAssumption DEF Noted, RequestOK, RefOK
    <3>. QED  BY <1>2, <3>1 DEF RefOK
  <2>. QED  BY <1>2, <2>1, <2>2, <2>3
<1>4. PICK r \in Ids : tx[r] = "completed" /\ Linked(p, r)
  BY <1>3
<1>5. tx'[r] = "completed" /\ Asked(r)
  BY <1>4, SoundStep DEF GatewaySteps, EndStatuses, FinalStatuses, Known
<1>. QED  BY <1>2, <1>4, <1>5, LinkedStable

LEMMA ReportOKStep ==
  ASSUME Sound, [Next]_vars, NEW d \in Deliveries
  PROVE  ReportOK(d)'
<1>0. /\ ReportSteps(d) /\ ReportOK(d) /\ Known
      /\ \A r \in Ids : tx[r] \in EndStatuses => tx'[r] = tx[r]
      /\ hook[d].pc # "idle" => hook[d].ref \in Ids /\ hook[d].status \in EndStatuses
  BY SoundStep DEF GatewaySteps, Sound, KeysOK, TypeOK, WebhookTypeOK, EndStatuses
<1>1. \A r \in Ids : tx[r] \in EndStatuses => Asked(r)
  BY <1>0, DiarraAssumption DEF Known, EndStatuses, FinalStatuses
<1>2. CASE hook'[d] = hook[d]
  BY <1>0, <1>1, <1>2, SoundStep, LinkedStable DEF ReportOK, Stored, TermsKept
<1>3. CASE hook'[d].pc = "find" /\ hook'[d].ref \in Ids
           /\ hook'[d].status = tx[hook'[d].ref] /\ tx[hook'[d].ref] \in EndStatuses
  BY <1>0, <1>3 DEF ReportOK
<1>4. ASSUME NEW p, NEW r, hook[d].pc = "find", hook'[d].pc = "apply",
             r = hook[d].ref, hook'[d].ref = r, hook'[d].status = hook[d].status,
             p = hook'[d].row, p \in FindPaymentByDiarraRef(r), UNCHANGED payments
      PROVE  ReportOK(d)'
  <2>1. r \in Ids /\ p \in Ids /\ Stored(p) /\ payments[p].ref = r /\ tx[r] \in EndStatuses
        /\ tx[r] = hook[d].status
    BY <1>0, <1>4 DEF FindPaymentByDiarraRef, ReportOK
  <2>2. Linked(p, r)
    BY <1>1, <2>1, SoundStep DEF RefOK
  <2>3. Linked(p, r)' /\ tx'[r] = hook[d].status /\ Stored(p)'
    BY <1>0, <1>1, <1>4, <2>1, <2>2, LinkedStable DEF Stored
  <2>. QED  BY <1>4, <2>1, <2>3 DEF ReportOK
<1>5. CASE hook'[d].pc \in {"idle", "unread"}
  BY <1>5 DEF ReportOK
<1>6. CASE hook[d].pc = "find" /\ hook'[d].pc = "absent" /\ hook'[d].ref = hook[d].ref
           /\ hook'[d].status = hook[d].status
  BY <1>0, <1>6 DEF ReportOK
<1>. QED  BY <1>0, <1>2, <1>3, <1>4, <1>5, <1>6 DEF ReportSteps

LEMMA KnownStep ==
  ASSUME Sound, [Next]_vars
  PROVE  Known'
<1>. SUFFICES ASSUME NEW r \in Ids, tx'[r] # "none" PROVE Asked(r)'
  BY DEF Known
<1>1. Asked(r)
  BY SoundStep DEF GatewaySteps, Known
<1>. QED  BY <1>1, AskedStable

LEMMA CompletionStep == Sound /\ [Next]_vars => CompletionInv'
<1>. SUFFICES ASSUME Sound, [Next]_vars PROVE CompletionInv'
  OBVIOUS
<1>1. \A p \in Ids : Stored(p)' => RefOK(p)' /\ Backed(p)'
  BY RefsStep, BackedStep DEF Backed
<1>. QED  BY <1>1, VisitsStep, RequestsStep, ReportOKStep, KnownStep DEF CompletionInv

LEMMA CompletionStart == Init => CompletionInv
BY DepositsAssumption, TransfersAssumption
   DEF Init, StoreInit, DiarraInit, DepositsInit, TransfersInit, WebhookInit, NoRow, NoOrder,
       NoTransfer, NoCallback, CompletionInv, VisitOK, RequestOK, ReportOK, Known, Stored, Asked

LEMMA SoundHolds == Spec => []Sound
<1>1. Init => CompletionInv
  BY CompletionStart
<1>2. KeysOK /\ AskedOwns /\ CompletionInv /\ [Next]_vars => CompletionInv'
  BY CompletionStep DEF Sound
<1>. QED  BY <1>1, <1>2, KeysHold, AskedOwnsHold, PTL DEF Spec, Sound

\* A payment that was paid stays paid.
LEMMA PaidStays ==
  ASSUME Sound, [Next]_vars, NEW p \in Ids, Stored(p), Paid(p)
  PROVE  Paid(p)'
<1>1. PICK r \in Ids : tx[r] = "completed" /\ Linked(p, r)
  BY DEF Paid
<1>2. tx'[r] = "completed" /\ Asked(r)
  BY <1>1, SoundStep DEF GatewaySteps, EndStatuses, FinalStatuses, Known
<1>. QED  BY <1>1, <1>2, LinkedStable DEF Paid

\* No payment is ever marked completed unless DIARRA completed a transaction
\* asked for on its behalf and for its amount, whatever the order of replies,
\* renewals and reports (DiarraCallback, refreshDepositLink, Payout, Refund).
THEOREM NoFalseCompletionHolds == Spec => []NoFalseCompletion
<1>1. Sound => NoFalseCompletion
  BY DEF Sound, CompletionInv, Backed, Paid, NoFalseCompletion
<1>. QED  BY <1>1, SoundHolds, PTL
-----------------------------------------------------------------------------
(* One payment per app_ref, and its own link.  A Pay handler holds no row, *)
(* or the deposit of its own app and app_ref; with the unique index, all   *)
(* the handlers of one app_ref hold the same.  A row bears a link that a   *)
(* handler holding it obtained.                                            *)

\* The steps from which a handler works on, or answers, a row.
RowPcs == {"call", "wait", "link", "fail", "recall", "rewait", "relink", "created", "existing"}

\* Row p is the deposit of the app and app_ref that request q bears.
Holds(q, p) ==
  /\ p \in Ids /\ payments[p].type = "deposit"
  /\ payments[p].app = pay[q].app /\ payments[p].appRef = pay[q].appRef

\* A handler has the row of its key, or none yet; a link it is about to record
\* is one DIARRA gave it.
HandOK(q) ==
  /\ pay[q].row # None => Holds(q, pay[q].row)
  /\ pay[q].pc \in RowPcs => pay[q].row # None
  /\ pay[q].pc \in {"link", "relink"} => tx[q] # "none"

LinkOK(p) ==
  payments[p].link # None =>
    LET r == payments[p].link IN
    r \in PayReqs /\ pay[r].row = p /\ pay[r].pc \notin PayUnasked /\ tx[r] # "none"

DepositInv == (\A q \in PayReqs : HandOK(q)) /\ (\A p \in Ids : LinkOK(p))
-----------------------------------------------------------------------------
(* What a step does to the row a handler holds.                             *)

HandSteps(q) ==
  /\ \/ /\ pay'[q].row = pay[q].row /\ pay'[q].app = pay[q].app
        /\ pay'[q].appRef = pay[q].appRef
        /\ pay'[q].pc \in RowPcs => pay[q].pc \in RowPcs
     \/ pay'[q].row = None /\ pay'[q].pc \notin RowPcs
     \/ \E p \in Ids : pay'[q].row = p /\ Holds(q, p)'
  /\ pay'[q].pc \in {"link", "relink"} => pay[q].pc \in {"link", "relink"} \/ tx[q] # "none"

LEMMA DepositsHands ==
  ASSUME TypeOK, DepositsNext, NEW q \in PayReqs
  PROVE  HandSteps(q)
<1>0. /\ pay \in [PayReqs -> Visit] /\ payments \in [Ids -> Row]
      /\ PayReqs \subseteq Ids /\ None \notin Ids
  BY DepositsAssumption, StoreAssumption DEF TypeOK, DepositsTypeOK, StoreTypeOK
<1>. USE DEF Visit, RowPcs
<1>1. ASSUME NEW r \in PayReqs, NEW a \in Apps, NEW ref \in AppRefs, NEW amount \in Amounts,
             PayArrive(r, a, ref, amount) \/ TestPayArrive(r, a, ref, amount)
      PROVE  HandSteps(q)
  BY <1>0, <1>1 DEF PayArrive, TestPayArrive, HandSteps
<1>2. ASSUME NEW r \in PayReqs, PayFound(r) PROVE HandSteps(q)
  <2>1. PICK p \in Ids, pc \in {"recall", "existing"} :
          /\ payments[p].type = "deposit" /\ payments[p].app = pay[r].app
          /\ payments[p].appRef = pay[r].appRef
          /\ pay' = [pay EXCEPT ![r].row = p, ![r].amount = payments[p].amount, ![r].pc = pc]
    BY <1>2 DEF PayFound, Matching
  <2>2. UNCHANGED payments
    BY <1>2 DEF PayFound
  <2>3. Holds(r, p)'
    BY <1>0, <2>1, <2>2 DEF Holds
  <2>. QED  BY <1>0, <2>1, <2>3 DEF HandSteps
<1>3. ASSUME NEW r \in PayReqs, PayReselect(r) PROVE HandSteps(q)
  <2>1. CASE pay' = [pay EXCEPT ![r].pc = "error"]
    BY <1>0, <2>1 DEF HandSteps
  <2>2. ASSUME NEW p \in Matching(pay[r].app, pay[r].appRef, "deposit"),
               pay' = [pay EXCEPT ![r].pc = "call", ![r].row = p]
        PROVE  HandSteps(q)
    <3>1. UNCHANGED payments
      BY <1>3 DEF PayReselect
    <3>2. p \in Ids /\ Holds(r, p)'
      BY <1>0, <2>2, <3>1 DEF Holds, Matching
    <3>. QED  BY <1>0, <2>2, <3>2 DEF HandSteps
  <2>. QED  BY <1>3, <2>1, <2>2 DEF PayReselect
<1>4. ASSUME NEW r \in PayReqs, PayInsert(r) PROVE HandSteps(q)
  <2>1. CASE pay' = [pay EXCEPT ![r].pc = "reselect"] \/ pay' = [pay EXCEPT ![r].pc = "error"]
    BY <1>0, <2>1 DEF HandSteps
  <2>2. CASE InsertRow(r, PayRow(r)) /\ pay' = [pay EXCEPT ![r].pc = "call", ![r].row = r]
    <3>1. /\ payments'[r].type = "deposit" /\ payments'[r].app = pay[r].app
          /\ payments'[r].appRef = pay[r].appRef /\ r \in Ids
      BY <1>0, <2>2 DEF InsertRow, PayRow, NewRow
    <3>2. Holds(r, r)'
      BY <1>0, <2>2, <3>1 DEF Holds
    <3>. QED  BY <1>0, <2>2, <3>2 DEF HandSteps
  <2>. QED  BY <1>4, <2>1, <2>2 DEF PayInsert
<1>5. ASSUME NEW r \in PayReqs,
             \/ PayNotFound(r) \/ PayCap(r) \/ PayCall(r) \/ PayReply(r) \/ PayCallFails(r)
             \/ PayLink(r) \/ PayFail(r) \/ RefreshCall(r) \/ RefreshReply(r)
             \/ RefreshCallFails(r) \/ RefreshLink(r) \/ PayDies(r)
      PROVE  HandSteps(q)
  <2>1. PICK pc : /\ pay' = [pay EXCEPT ![r].pc = pc]
                  /\ pc \in RowPcs => pay[r].pc \in RowPcs
                  /\ pc \in {"link", "relink"} => tx[r] # "none"
    BY <1>5 DEF PayNotFound, PayCap, PayCall, PayReply, PayCallFails, PayLink, PayFail,
       RefreshCall, RefreshReply, RefreshCallFails, RefreshLink, PayDies, PayGoes
  <2>. QED  BY <1>0, <2>1 DEF HandSteps
<1>6. ASSUME NEW p \in PayReqs, Expire(p) PROVE HandSteps(q)
  BY <1>6 DEF Expire, HandSteps
<1>. QED  BY <1>1, <1>2, <1>3, <1>4, <1>5, <1>6 DEF DepositsNext, PayStep

LEMMA HandsStep ==
  ASSUME TypeOK, [Next]_vars, NEW q \in PayReqs
  PROVE  HandSteps(q)
<1>1. UNCHANGED pay => HandSteps(q)
  BY DEF HandSteps
<1>. QED  BY <1>1, DepositsHands DEF Next, vars

\* A transaction that DIARRA registered stays so.
LEMMA Registered ==
  ASSUME TypeOK, [Next]_vars, NEW r \in Ids, tx[r] # "none"
  PROVE  tx'[r] # "none"
<1>0. tx \in [Ids -> {"none"} \cup InitialStatuses \cup Outcomes]
  BY DEF TypeOK, DiarraTypeOK
<1>1. CASE UNCHANGED tx
  BY <1>1
<1>2. CASE DiarraNext
  <2>1. PICK x \in Ids, s \in InitialStatuses \cup Outcomes : tx' = [tx EXCEPT ![x] = s]
    BY <1>2 DEF DiarraNext, Accept, Settle
  <2>. QED  BY <1>0, <2>1, DiarraAssumption
<1>3. DepositsNext => UNCHANGED tx
  BY DEF DepositsNext, PayArrive, TestPayArrive, PayStep, PayFound, PayNotFound, PayCap, PayInsert,
     PayReselect, PayCall, PayReply, PayCallFails, PayLink, PayFail, RefreshCall, RefreshReply,
     RefreshCallFails, RefreshLink, PayDies, Expire, gatewayVars
<1>4. TransfersNext => UNCHANGED tx
  BY DEF TransfersNext, PayoutArrive, AdminPayoutArrive, RefundArrive, AdminRefundArrive, XferStep,
     XferFound, XferNotFound, PayoutCap, RefundReadsDeposit, XferInsert, XferCall, XferReply,
     XferCallFails, XferNote, XferFail, XferDies, gatewayVars
<1>5. WebhookNext => UNCHANGED tx
  BY DEF WebhookNext, Deliver, CallbackStep, CallbackFindsPayment, CallbackFindsNothing, CallbackDropped,
     CallbackApplied, CallbackUpdateFails, CallbackDies, gatewayVars
<1>. QED  BY <1>1, <1>2, <1>3, <1>4, <1>5 DEF Next, vars, gatewayVars
-----------------------------------------------------------------------------
(* What a step does to the link of a row.                                   *)

LinkSteps(p) ==
  \/ payments'[p].link \in {payments[p].link, None}
  \/ \E q \in PayReqs : /\ pay[q].pc \in {"link", "relink"} /\ pay[q].row = p
                        /\ payments'[p].link = q

LEMMA LinksStep ==
  ASSUME TypeOK, [Next]_vars, NEW p \in Ids
  PROVE  LinkSteps(p)
<1>0. payments \in [Ids -> Row]
  BY DEF TypeOK, StoreTypeOK
<1>1. UNCHANGED payments => LinkSteps(p)
  BY DEF LinkSteps
<1>2. ASSUME NEW x, NEW s, UpdatePaymentStatus(x, s) PROVE LinkSteps(p)
  BY <1>0, <1>2 DEF UpdatePaymentStatus, LinkSteps, Row
<1>3. ASSUME NEW x, NEW t, NEW a, NEW ref, NEW m, NEW of,
             InsertRow(x, NewRow(t, a, ref, x, m, of))
      PROVE  LinkSteps(p)
  BY <1>0, <1>3 DEF InsertRow, NewRow, LinkSteps
<1>4. ASSUME NEW q \in PayReqs, PayLink(q) \/ RefreshLink(q) PROVE LinkSteps(p)
  <2>1. pay[q].pc \in {"link", "relink"}
    BY <1>4, PayLinkWrites, RefreshLinkWrites
  <2>2. \/ UNCHANGED payments
        \/ \E l \in {q, None} : \/ UpdatePaymentRedirect(pay[q].row, l)
                               \/ UpdateDiarraRefAndRedirect(pay[q].row, q, l)
    BY <1>4, PayLinkWrites, RefreshLinkWrites
  <2>3. \/ UNCHANGED payments
        \/ /\ \A x \in Ids \ {pay[q].row} : payments'[x] = payments[x]
           /\ pay[q].row \in Ids => payments'[pay[q].row].link \in {q, None}
    BY <1>0, <2>2 DEF UpdatePaymentRedirect, UpdateDiarraRefAndRedirect, Row
  <2>. QED  BY <1>1, <2>1, <2>3 DEF LinkSteps
<1>5. ASSUME NEW q \in PayReqs, PayInsert(q) PROVE LinkSteps(p)
  BY <1>1, <1>3, <1>5 DEF PayInsert, FailedWrite, PayRow
<1>6. ASSUME NEW q \in PayReqs, PayFail(q) \/ Expire(q) PROVE LinkSteps(p)
  <2>1. CASE Expire(q)
    BY <1>0, <2>1 DEF Expire, LinkSteps, Row
  <2>. QED  BY <1>1, <1>2, <1>6, <2>1 DEF PayFail, Attempt
<1>7. DepositsNext => LinkSteps(p)
  BY <1>1, <1>4, <1>5, <1>6
     DEF DepositsNext, PayArrive, TestPayArrive, PayStep, PayFound, PayNotFound, PayCap,
         PayReselect, PayCall, PayReply, PayCallFails, RefreshCall, RefreshReply,
         RefreshCallFails, PayDies
<1>8. ASSUME NEW q \in XferReqs, XferInsert(q) \/ XferNote(q) \/ XferFail(q) PROVE LinkSteps(p)
  <2>1. CASE XferInsert(q)
    BY <1>1, <1>3, <2>1 DEF XferInsert, FailedWrite, XferRow
  <2>2. CASE XferNote(q) \/ XferFail(q)
    BY <1>1, <1>2, <2>2 DEF XferNote, XferFail, Attempt
  <2>. QED  BY <1>8, <2>1, <2>2
<1>9. TransfersNext => LinkSteps(p)
  BY <1>1, <1>8
     DEF TransfersNext, PayoutArrive, AdminPayoutArrive, RefundArrive, AdminRefundArrive, XferStep,
         XferFound, XferNotFound, PayoutCap, RefundReadsDeposit, XferCall, XferReply,
         XferCallFails, XferDies
<1>10. WebhookNext => LinkSteps(p)
  BY <1>1, <1>2
     DEF WebhookNext, Deliver, CallbackStep, CallbackFindsPayment, CallbackFindsNothing, CallbackDropped,
         CallbackApplied, CallbackUpdateFails, CallbackDies, FailedWrite
<1>11. DiarraNext => LinkSteps(p)
  BY <1>1 DEF DiarraNext, Accept, Settle
<1>. QED  BY <1>1, <1>7, <1>9, <1>10, <1>11 DEF Next, vars
-----------------------------------------------------------------------------
LEMMA HandOKStep ==
  ASSUME Sound, [Next]_vars, NEW q \in PayReqs, HandOK(q)
  PROVE  HandOK(q)'
<1>0. /\ q \in Ids /\ HandSteps(q) /\ None \notin Ids
      /\ \A p \in Ids : Stored(p) => TermsKept(p)
      /\ tx[q] # "none" => tx'[q] # "none"
  BY DepositsAssumption, StoreAssumption, HandsStep, Registered, SoundStep DEF Sound, KeysOK
<1>2. ASSUME NEW p, p = pay'[q].row, p # None PROVE Holds(q, p)'
  <2>1. CASE pay'[q].row = pay[q].row /\ pay'[q].app = pay[q].app /\ pay'[q].appRef = pay[q].appRef
    BY <1>0, <1>2, <2>1 DEF HandOK, Holds, Stored, TermsKept
  <2>. QED  BY <1>0, <1>2, <2>1 DEF HandSteps
<1>3. pay'[q].pc \in RowPcs => pay'[q].row # None
  BY <1>0 DEF HandSteps, HandOK
<1>4. pay'[q].pc \in {"link", "relink"} => tx'[q] # "none"
  BY <1>0 DEF HandSteps, HandOK
<1>. QED  BY <1>2, <1>3, <1>4 DEF HandOK, Holds

LEMMA LinkOKStep ==
  ASSUME Sound, [Next]_vars, DepositInv, NEW p \in Ids
  PROVE  LinkOK(p)'
<1>0. LinkSteps(p) /\ LinkOK(p)
  BY LinksStep DEF Sound, KeysOK, DepositInv
<1>1. ASSUME NEW r \in PayReqs, pay[r].row = p, pay[r].pc \notin PayUnasked, tx[r] # "none"
      PROVE  pay'[r].row = p /\ pay'[r].pc \notin PayUnasked /\ tx'[r] # "none"
  <2>1. VisitSteps(r) /\ tx'[r] # "none"
    BY <1>1, SoundStep, Registered, DepositsAssumption DEF Sound, KeysOK
  <2>. QED  BY <1>1, <2>1 DEF VisitSteps, PayUnasked
<1>2. CASE payments'[p].link = payments[p].link
  BY <1>0, <1>1, <1>2 DEF LinkOK
<1>3. CASE payments'[p].link = None
  BY <1>3 DEF LinkOK
<1>4. ASSUME NEW q \in PayReqs, pay[q].pc \in {"link", "relink"}, pay[q].row = p,
             payments'[p].link = q
      PROVE  LinkOK(p)'
  <2>1. tx[q] # "none" /\ pay[q].pc \notin PayUnasked
    BY <1>4 DEF DepositInv, HandOK, PayUnasked, PayEarly
  <2>. QED  BY <1>1, <1>4, <2>1 DEF LinkOK
<1>. QED  BY <1>0, <1>2, <1>3, <1>4 DEF LinkSteps

LEMMA DepositsHold == Spec => [](Sound /\ DepositInv)
<1>1. Init => DepositInv
  BY DEF Init, DepositsInit, StoreInit, NoRow, DepositInv, HandOK, LinkOK, RowPcs
<1>2. Sound /\ DepositInv /\ [Next]_vars => DepositInv'
  BY HandOKStep, LinkOKStep DEF DepositInv
<1>. QED  BY <1>1, <1>2, SoundHolds, PTL DEF Spec

\* However many Pay requests race under one app_ref, each that is answered is
\* answered with the one payment of its app and app_ref (the insertion does
\* nothing on a conflict, and the handler takes the row it conflicts with).
THEOREM SameTransactionHolds == Spec => []SameTransaction
<1>1. Sound /\ DepositInv => SameTransaction
  <2>. SUFFICES ASSUME Sound, DepositInv, NEW q \in PayReqs, Answered(q)
                PROVE  /\ Holds(q, pay[q].row)
                       /\ \A r \in PayReqs :
                            /\ Answered(r) /\ pay[q].app = pay[r].app
                            /\ pay[q].appRef = pay[r].appRef
                            => pay[q].row = pay[r].row
    BY DEF SameTransaction, Holds
  <2>1. ASSUME NEW r \in PayReqs, Answered(r) PROVE Holds(r, pay[r].row)
    BY <2>1 DEF Answered, DepositInv, HandOK, RowPcs
  <2>2. ASSUME NEW r \in PayReqs, Answered(r), pay[q].app = pay[r].app,
               pay[q].appRef = pay[r].appRef
        PROVE  pay[q].row = pay[r].row
    <3>1. Holds(q, pay[q].row) /\ Holds(r, pay[r].row)
      BY <2>1, <2>2
    <3>. QED  BY <2>2, <3>1 DEF Holds, Sound, KeysOK, UniqueKey, SameKey, Stored
  <2>. QED  BY <2>1, <2>2
<1>. QED  BY <1>1, DepositsHold, PTL

\* The link a payer is sent to was given by DIARRA to a request of the same
\* application for the same app_ref (UpdatePaymentRedirect and
\* UpdateDiarraRefAndRedirect write a row that was read steps before).
THEOREM LinkProvenanceHolds == Spec => []LinkProvenance
<1>1. DepositInv => LinkProvenance
  <2>. SUFFICES ASSUME DepositInv, NEW p \in Ids, NEW r, r = payments[p].link, r # None
                PROVE  tx[r] # "none" /\ pay[r].app = payments[p].app
                       /\ pay[r].appRef = payments[p].appRef
    BY DEF LinkProvenance
  <2>1. r \in PayReqs /\ pay[r].row = p /\ tx[r] # "none"
    BY DEF DepositInv, LinkOK
  <2>2. Holds(r, p)
    BY <2>1, StoreAssumption DEF DepositInv, HandOK
  <2>. QED  BY <2>1, <2>2 DEF Holds
<1>. QED  BY <1>1, DepositsHold, PTL
-----------------------------------------------------------------------------
(* A handler takes one row at most.  The request whose insertion made a    *)
(* row works on that row, or on none when the insertion reported an error; *)
(* so a reference leads to one row, also after a renewal moved it away.    *)

PayRowless == PayEarly \cup {"reselect"}

RowHand(q) ==
  /\ pay[q].pc \in PayRowless => pay[q].row = None
  /\ Stored(q) => pay[q].row \in {q, None}

TakesRow(q) ==
  \/ pay'[q].row \in {pay[q].row, None}
  \/ pay'[q].pc \notin PayRowless /\ (pay[q].pc = "insert" => pay'[q].row = q)

LEMMA DepositsTakeRow ==
  ASSUME TypeOK, DepositsNext, NEW q \in PayReqs
  PROVE  TakesRow(q)
<1>0. pay \in [PayReqs -> Visit]
  BY DEF TypeOK, DepositsTypeOK
<1>. USE DEF Visit, PayRowless, PayEarly
<1>1. ASSUME NEW r \in PayReqs, NEW a \in Apps, NEW ref \in AppRefs, NEW amount \in Amounts,
             PayArrive(r, a, ref, amount) \/ TestPayArrive(r, a, ref, amount)
      PROVE  TakesRow(q)
  BY <1>0, <1>1 DEF PayArrive, TestPayArrive, TakesRow
<1>2. ASSUME NEW r \in PayReqs, PayFound(r) PROVE TakesRow(q)
  <2>1. PICK p \in Ids, pc \in {"recall", "existing"} :
          pay' = [pay EXCEPT ![r].row = p, ![r].amount = payments[p].amount, ![r].pc = pc]
    BY <1>2 DEF PayFound, Matching
  <2>2. pay[r].pc = "lookup"
    BY <1>2 DEF PayFound
  <2>. QED  BY <1>0, <2>1, <2>2 DEF TakesRow
<1>3. ASSUME NEW r \in PayReqs, PayReselect(r) PROVE TakesRow(q)
  <2>1. /\ pay[r].pc = "reselect"
        /\ \/ pay' = [pay EXCEPT ![r].pc = "error"]
           \/ \E p : pay' = [pay EXCEPT ![r].pc = "call", ![r].row = p]
    BY <1>3 DEF PayReselect
  <2>. QED  BY <1>0, <2>1 DEF TakesRow
<1>4. ASSUME NEW r \in PayReqs, PayInsert(r) PROVE TakesRow(q)
  <2>1. \/ pay' = [pay EXCEPT ![r].pc = "call", ![r].row = r]
        \/ \E pc : pay' = [pay EXCEPT ![r].pc = pc]
    BY <1>4 DEF PayInsert
  <2>. QED  BY <1>0, <2>1 DEF TakesRow
<1>5. ASSUME NEW r \in PayReqs,
             \/ PayNotFound(r) \/ PayCap(r) \/ PayCall(r) \/ PayReply(r) \/ PayCallFails(r)
             \/ PayLink(r) \/ PayFail(r) \/ RefreshCall(r) \/ RefreshReply(r)
             \/ RefreshCallFails(r) \/ RefreshLink(r) \/ PayDies(r)
      PROVE  TakesRow(q)
  <2>1. PICK pc : pay' = [pay EXCEPT ![r].pc = pc]
    BY <1>5 DEF PayNotFound, PayCap, PayCall, PayReply, PayCallFails, PayLink, PayFail,
       RefreshCall, RefreshReply, RefreshCallFails, RefreshLink, PayDies, PayGoes
  <2>. QED  BY <1>0, <2>1 DEF TakesRow
<1>6. ASSUME NEW p \in PayReqs, Expire(p) PROVE TakesRow(q)
  BY <1>6 DEF Expire, TakesRow
<1>. QED  BY <1>1, <1>2, <1>3, <1>4, <1>5, <1>6 DEF DepositsNext, PayStep

LEMMA TakesRowStep ==
  ASSUME TypeOK, [Next]_vars, NEW q \in PayReqs
  PROVE  TakesRow(q) /\ (pay'[q].pc \in PayEarly => pay[q].pc \in PayEarly)
<1>1. UNCHANGED pay => TakesRow(q)
  BY DEF TakesRow
<1>. QED  BY <1>1, DepositsTakeRow, DepositsEffect DEF Next, vars

LEMMA RowHandStep ==
  ASSUME Sound, [Next]_vars, NEW q \in PayReqs, RowHand(q)
  PROVE  /\ RowHand(q)'
         /\ pay[q].row # None => pay'[q].row = pay[q].row
<1>0. /\ q \in Ids /\ q \notin XferReqs /\ VisitSteps(q) /\ VisitOK(q) /\ RowSteps(q)
      /\ TakesRow(q) /\ (pay'[q].pc \in PayEarly => pay[q].pc \in PayEarly)
      /\ pay[q].pc \in PayEarly => ~Stored(q)
  BY DepositsAssumption, OrchestratorAssumption, SoundStep, TakesRowStep
     DEF Sound, KeysOK, NotYetStored
<1>1. pay[q].pc \notin PayRowless => pay'[q].row = pay[q].row
  BY <1>0 DEF VisitSteps, PayRowless
<1>2. pay'[q].pc \in PayRowless => pay[q].pc \in PayRowless
  BY <1>0 DEF VisitSteps, PayRowless, PayEarly
<1>3. pay'[q].pc \in PayRowless => pay'[q].row = None
  BY <1>0, <1>2 DEF RowHand, TakesRow
<1>4. ASSUME Stored(q)' PROVE pay'[q].row \in {q, None}
  <2>1. CASE Stored(q)
    <3>1. pay[q].pc \notin PayRowless
      BY <1>0, <2>1 DEF VisitOK, PayRowless
    <3>. QED  BY <1>1, <2>1, <3>1 DEF RowHand
  <2>2. CASE ~Stored(q)
    <3>1. PayInserts(q)
      BY <1>0, <1>4, <2>2 DEF RowSteps, Inserted, Stored
    <3>2. pay[q].pc = "insert" /\ pay[q].row = None
      BY <3>1 DEF PayInserts, RowHand, PayRowless, PayEarly
    <3>. QED  BY <1>0, <3>2 DEF TakesRow
  <2>. QED  BY <2>1, <2>2
<1>. QED  BY <1>1, <1>3, <1>4 DEF RowHand

\* A name without a row bears no reference.
Unreferenced == \A p \in Ids : ~Stored(p) => payments[p].ref = None

LEMMA UnreferencedStep ==
  ASSUME Sound, [Next]_vars, Unreferenced
  PROVE  Unreferenced'
<1>. SUFFICES ASSUME NEW p \in Ids, ~Stored(p)' PROVE payments'[p].ref = None
  BY DEF Unreferenced
<1>0. RowSteps(p) /\ payments \in [Ids -> Row]
  BY SoundStep DEF Sound, KeysOK, TypeOK, StoreTypeOK
<1>1. ~Inserted(p)
  BY <1>0, TransfersAssumption DEF Inserted, PayInserts, XferInserts, InsertRow, PayRow, XferRow,
     NewRow, TypeOfXfer, Stored
<1>2. ~Stored(p) /\ (payments'[p].ref = payments[p].ref \/ Renewed(p))
  BY <1>0, <1>1 DEF RowSteps, Stored
<1>3. ~Renewed(p)
  BY <1>2, SoundStep DEF Renewed, VisitOK, Stored
<1>. QED  BY <1>2, <1>3 DEF Unreferenced

RowsInv == Unreferenced /\ \A q \in PayReqs : RowHand(q)

LEMMA RowsHold == Spec => [](Sound /\ RowsInv)
<1>1. Init => RowsInv
  BY DepositsAssumption DEF Init, DepositsInit, StoreInit, NoRow, RowsInv, Unreferenced, RowHand,
     Stored
<1>2. Sound /\ RowsInv /\ [Next]_vars => RowsInv'
  BY RowHandStep, UnreferencedStep DEF RowsInv
<1>. QED  BY <1>1, <1>2, SoundHolds, PTL DEF Spec

\* A transaction serves one payment.
LEMMA ServesOne ==
  ASSUME Sound, NEW p \in Ids, NEW d \in Ids, NEW x \in Ids,
         Stored(p), Stored(d), Linked(p, x), Linked(d, x)
  PROVE  p = d
<1>1. payments[p].type = payments[d].type
  BY DEF Linked
<1>2. CASE payments[p].type = "deposit"
  BY <1>1, <1>2 DEF Linked, Served
<1>3. CASE payments[p].type # "deposit"
  BY <1>1, <1>3 DEF Linked, Served
<1>. QED  BY <1>2, <1>3

\* A report that found nothing is none of a row under its own reference.
AbsentOK(d) ==
  hook[d].pc = "absent" => payments[hook[d].ref].ref # hook[d].ref

LEMMA AbsentOKStep ==
  ASSUME Sound, Unreferenced, [Next]_vars, NEW d \in Deliveries, AbsentOK(d),
         hook'[d].pc = "absent"
  PROVE  payments'[hook'[d].ref].ref # hook'[d].ref
<1>0. /\ ReportSteps(d) /\ ReportOK(d) /\ None \notin Ids
      /\ hook[d].pc # "idle" => hook[d].ref \in Ids /\ hook[d].status \in EndStatuses
  BY SoundStep, StoreAssumption DEF Sound, KeysOK, TypeOK, WebhookTypeOK, EndStatuses
<1> DEFINE r == hook[d].ref
<1>1. \/ hook'[d] = hook[d]
      \/ /\ UNCHANGED payments
         /\ hook[d].pc = "find" /\ hook'[d].pc = "absent"
         /\ hook'[d].ref = r /\ hook'[d].status = hook[d].status
         /\ FindPaymentByDiarraRef(r) = {}
  BY <1>0 DEF ReportSteps
<1>2. CASE FindPaymentByDiarraRef(r) = {} /\ UNCHANGED payments /\ hook'[d].ref = r
           /\ hook[d].pc = "find"
  \* It enters: the lookup found no row, and where there is none there is no reference.
  <2>1. r \in Ids
    BY <1>0, <1>2
  <2>. QED  BY <1>0, <1>2, <2>1 DEF FindPaymentByDiarraRef, Unreferenced
<1>3. CASE hook'[d] = hook[d]
  <2>1. /\ hook[d].pc = "absent" /\ r \in Ids /\ hook'[d].ref = r
        /\ payments[r].ref # r /\ tx[r] \in EndStatuses
    BY <1>0, <1>3 DEF ReportOK, AbsentOK
  <2>2. RowSteps(r) /\ Asked(r)
    BY <2>1, SoundStep, DiarraAssumption DEF Known, EndStatuses, FinalStatuses
  \* The row would have been inserted before the reference was asked for.
  <2>3. ~Inserted(r)
    BY <2>1, <2>2, SoundStep DEF Inserted, PayInserts, XferInserts, VisitOK, RequestOK,
       PayUnasked, PayEarly, XferUnasked, XferEarly
  \* A renewal of row r is another request's than r.
  <2>4. payments'[r].ref # r
    <3>1. CASE payments'[r].ref = payments[r].ref
      BY <2>1, <3>1
    <3>2. CASE Renewed(r)
      <4>1. PICK q \in PayReqs : pay[q].pc = "relink" /\ pay[q].row = r /\ payments'[r].ref = q
        BY <3>2 DEF Renewed
      <4>2. ~Stored(q) /\ Stored(r)
        BY <4>1, SoundStep DEF VisitOK, Stored
      <4>. QED  BY <4>1, <4>2
    <3>. QED  BY <2>2, <2>3, <3>1, <3>2 DEF RowSteps
  <2>. QED  BY <2>1, <2>4
<1>. QED  BY <1>1, <1>2, <1>3

\* A report that found no row is none of a payment under its first reference,
\* with every failure and every crash: the row was there before DIARRA was
\* asked, it stays, and a reference that a renewal moved away never comes
\* back (DiarraCallback, CreatePayment, UpdateDiarraRefAndRedirect).
THEOREM ReportFindsItsPaymentHolds == Spec => []ReportFindsItsPayment
<1>1. Init => ReportFindsItsPayment
  BY DEF Init, WebhookInit, NoCallback, ReportFindsItsPayment
<1>2. Sound /\ RowsInv /\ ReportFindsItsPayment /\ [Next]_vars => ReportFindsItsPayment'
  BY AbsentOKStep DEF RowsInv, AbsentOK, ReportFindsItsPayment
<1>. QED  BY <1>1, <1>2, RowsHold, PTL DEF Spec
=============================================================================
