------------------------- MODULE OrchestratorProofs -------------------------
(***************************************************************************)
(* Theorems about Orchestrator for every set of requests, applications,    *)
(* references and amounts, with every database failure and every crash.    *)
(***************************************************************************)
EXTENDS Orchestrator, AmountProofs

LEMMA NetTyped ==
  ASSUME NEW a \in Amounts \cup {0}
  PROVE  a \in Nat /\ NetOf(a) \in Nat /\ NetOf(a) <= a
<1>1. a \in Nat /\ UsdRate \in Int
  BY StoreAssumption
<1>2. NetOf(a) = a - FeeOf(a, UsdRate)
  BY DEF NetOf, Compute
<1>3. FeeOf(a, UsdRate) \in Nat /\ FeeOf(a, UsdRate) <= a
  BY <1>1, FeeBounds
<1>. QED  BY <1>1, <1>2, <1>3

LEMMA normalizeTyped == ASSUME NEW s PROVE normalizeStatus(s) \in Statuses
BY DEF normalizeStatus, Statuses

\* Every row a handler may insert is a row.
LEMMA NewRowTyped ==
  ASSUME NEW t \in PaymentTypes, NEW a \in Apps, NEW ref \in AppRefs, NEW r \in Ids,
         NEW amount \in Amounts \cup {0}, NEW of \in Ids \cup {None}
  PROVE  /\ NewRow(t, a, ref, r, amount, of) \in Row
         /\ NewRow(t, a, ref, r, amount, of).app \in Apps
         /\ NewRow(t, a, ref, r, amount, of).appRef \in AppRefs
BY NetTyped DEF NewRow, Row, Statuses

LEMMA InitTyped == Init => TypeOK
<1>1. RegistryInit => RegistryTypeOK
  BY DEF RegistryInit, RegistryTypeOK, KYCLevels
<1>2. StoreInit => StoreTypeOK
  BY DEF StoreInit, StoreTypeOK, Row, NoRow, Statuses, Stored
<1>3. DiarraInit => DiarraTypeOK
  BY DEF DiarraInit, DiarraTypeOK, Order, NoOrder
<1>4. DepositsInit => DepositsTypeOK
  BY DEF DepositsInit, DepositsTypeOK, Visit
<1>5. TransfersInit => TransfersTypeOK
  BY DEF TransfersInit, TransfersTypeOK, Transfer, NoTransfer
<1>6. WebhookInit => WebhookTypeOK
  BY DEF WebhookInit, WebhookTypeOK, Callback, NoCallback
<1>. QED  BY <1>1, <1>2, <1>3, <1>4, <1>5, <1>6 DEF Init, TypeOK
-----------------------------------------------------------------------------
(* What each statement on payments keeps of its type.                      *)

LEMMA InsertTyped ==
  ASSUME StoreTypeOK, NEW r \in Ids, NEW row \in Row, InsertRow(r, row),
         row.app \in Apps, row.appRef \in AppRefs
  PROVE  StoreTypeOK'
BY DEF StoreTypeOK, InsertRow, Stored

\* A column other than the keys is written.
LEMMA RowTyped ==
  ASSUME StoreTypeOK, NEW p \in Ids, NEW row \in Row,
         payments' = [payments EXCEPT ![p] = row],
         row.type = payments[p].type, row.app = payments[p].app,
         row.appRef = payments[p].appRef
  PROVE  StoreTypeOK'
BY DEF StoreTypeOK, Stored

LEMMA SameStore == ASSUME StoreTypeOK, UNCHANGED payments PROVE StoreTypeOK'
BY DEF StoreTypeOK, Stored

LEMMA StatusTyped ==
  ASSUME StoreTypeOK, NEW p, NEW s \in Statuses, UpdatePaymentStatus(p, s)
  PROVE  StoreTypeOK'
<1> DEFINE row == [payments[p] EXCEPT !.status = s]
<1>1. payments' = [payments EXCEPT ![p] = row]
  BY DEF UpdatePaymentStatus
<1>2. CASE p \in Ids
  <2>1. payments[p] \in Row
    BY <1>2 DEF StoreTypeOK
  <2>2. row \in Row /\ row.type = payments[p].type /\ row.app = payments[p].app
        /\ row.appRef = payments[p].appRef
    BY <2>1 DEF Row
  <2>. QED  BY <1>1, <1>2, <2>2, RowTyped
<1>3. CASE p \notin Ids
  BY <1>1, <1>3, SameStore DEF StoreTypeOK
<1>. QED  BY <1>2, <1>3

\* What the two steps that record a link write.
LEMMA PayLinkWrites ==
  ASSUME NEW q, PayLink(q)
  PROVE  /\ pay[q].pc = "link"
         /\ UNCHANGED payments \/ \E l \in {q, None} : UpdatePaymentRedirect(pay[q].row, l)
BY DEF PayLink, PayGoes, RedirectURL, FailedWrite

LEMMA RefreshLinkWrites ==
  ASSUME NEW q, RefreshLink(q)
  PROVE  /\ pay[q].pc = "relink"
         /\ \/ UNCHANGED payments
            \/ \E l \in {q, None} : UpdateDiarraRefAndRedirect(pay[q].row, q, l)
BY DEF RefreshLink, PayGoes, RedirectURL, Attempt

LEMMA LinkTyped ==
  ASSUME StoreTypeOK, NEW p, NEW l \in Ids \cup {None}, UpdatePaymentRedirect(p, l)
  PROVE  StoreTypeOK'
<1> DEFINE row == [payments[p] EXCEPT !.link = l]
<1>1. payments' = [payments EXCEPT ![p] = row]
  BY DEF UpdatePaymentRedirect
<1>2. CASE p \in Ids
  <2>1. payments[p] \in Row
    BY <1>2 DEF StoreTypeOK
  <2>2. row \in Row /\ row.type = payments[p].type /\ row.app = payments[p].app
        /\ row.appRef = payments[p].appRef
    BY <2>1 DEF Row
  <2>. QED  BY <1>1, <1>2, <2>2, RowTyped
<1>3. CASE p \notin Ids
  BY <1>1, <1>3, SameStore DEF StoreTypeOK
<1>. QED  BY <1>2, <1>3

LEMMA RefTyped ==
  ASSUME StoreTypeOK, NEW p, NEW r \in Ids, NEW l \in Ids \cup {None},
         UpdateDiarraRefAndRedirect(p, r, l)
  PROVE  StoreTypeOK'
<1> DEFINE row == [payments[p] EXCEPT !.ref = r, !.link = l]
<1>1. payments' = [payments EXCEPT ![p] = row]
  BY DEF UpdateDiarraRefAndRedirect
<1>2. CASE p \in Ids
  <2>1. payments[p] \in Row
    BY <1>2 DEF StoreTypeOK
  <2>2. row \in Row /\ row.type = payments[p].type /\ row.app = payments[p].app
        /\ row.appRef = payments[p].appRef
    BY <2>1 DEF Row
  <2>. QED  BY <1>1, <1>2, <2>2, RowTyped
<1>3. CASE p \notin Ids
  BY <1>1, <1>3, SameStore DEF StoreTypeOK
<1>. QED  BY <1>2, <1>3

LEMMA OrderTyped ==
  ASSUME DiarraTypeOK, UNCHANGED tx, NEW r \in Ids, NEW n \in Nat, NEW of \in Ids \cup {None},
         CreateDeposit(r, n) \/ CreatePayout(r, n) \/ CreateRefund(r, of)
  PROVE  DiarraTypeOK'
BY DEF DiarraTypeOK, Order, CreateDeposit, CreatePayout, CreateRefund, PaymentTypes

LEMMA SameGateway == ASSUME DiarraTypeOK, UNCHANGED gatewayVars PROVE DiarraTypeOK'
BY DEF DiarraTypeOK, gatewayVars
-----------------------------------------------------------------------------
LEMMA DepositsStepTyped ==
  ASSUME TypeOK, DepositsNext
  PROVE  DepositsTypeOK' /\ StoreTypeOK' /\ DiarraTypeOK'
<1>. DEFINE Goal == DepositsTypeOK' /\ StoreTypeOK' /\ DiarraTypeOK'
<1>. USE DEF DepositsTypeOK, Visit, PaySteps, PayAnswers, PayGoes
<1>0. /\ DepositsTypeOK /\ StoreTypeOK /\ DiarraTypeOK
      /\ \A q \in PayReqs : q \in Ids
      /\ \A s \in {"failed"} : s \in Statuses
  BY DepositsAssumption DEF TypeOK, Statuses
<1>1. ASSUME NEW q \in PayReqs, NEW a \in Apps, NEW ref \in AppRefs, NEW amount \in Amounts,
             PayArrive(q, a, ref, amount) \/ TestPayArrive(q, a, ref, amount)
      PROVE  Goal
  BY <1>0, <1>1, SameStore, SameGateway DEF PayArrive, TestPayArrive
<1>2. ASSUME NEW q \in PayReqs, PayFound(q) PROVE Goal
  BY <1>0, <1>2, SameStore, SameGateway DEF PayFound, Matching, StoreTypeOK, Row
<1>3. ASSUME NEW q \in PayReqs, PayNotFound(q) \/ PayCap(q) PROVE Goal
  BY <1>0, <1>3, SameStore, SameGateway DEF PayNotFound, PayCap
<1>4. ASSUME NEW q \in PayReqs, PayInsert(q) PROVE Goal
  <2>1. PayRow(q) \in Row /\ PayRow(q).app \in Apps /\ PayRow(q).appRef \in AppRefs
    BY <1>0, <1>4, NewRowTyped DEF PayRow, PayInsert, PaymentTypes
  <2>2. StoreTypeOK'
    BY <1>0, <1>4, <2>1, InsertTyped, SameStore DEF PayInsert, FailedWrite
  <2>3. DepositsTypeOK'
    BY <1>0, <1>4 DEF PayInsert
  <2>. QED  BY <1>0, <1>4, <2>2, <2>3, SameGateway DEF PayInsert
<1>5. ASSUME NEW q \in PayReqs, PayReselect(q) PROVE Goal
  BY <1>0, <1>5, SameStore, SameGateway DEF PayReselect, Matching
<1>6. ASSUME NEW q \in PayReqs, PayCall(q) \/ RefreshCall(q) PROVE Goal
  <2>1. pay[q].amount \in Nat
    BY <1>0, NetTyped
  <2>2. DiarraTypeOK'
    BY <1>0, <1>6, <2>1, OrderTyped DEF PayCall, RefreshCall
  <2>. QED  BY <1>0, <1>6, <2>2, SameStore DEF PayCall, RefreshCall
<1>7. ASSUME NEW q \in PayReqs,
             PayReply(q) \/ PayCallFails(q) \/ RefreshReply(q) \/ RefreshCallFails(q)
      PROVE  Goal
  BY <1>0, <1>7, SameStore, SameGateway
     DEF PayReply, PayCallFails, RefreshReply, RefreshCallFails
<1>8. ASSUME NEW q \in PayReqs, PayLink(q) PROVE Goal
  <2>1. StoreTypeOK'
    BY <1>0, <1>8, PayLinkWrites, LinkTyped, SameStore
  <2>. QED  BY <1>0, <1>8, <2>1, SameGateway DEF PayLink
<1>9. ASSUME NEW q \in PayReqs, PayFail(q) PROVE Goal
  <2>1. StoreTypeOK'
    BY <1>0, <1>9, StatusTyped, SameStore DEF PayFail, Attempt
  <2>. QED  BY <1>0, <1>9, <2>1, SameGateway DEF PayFail
<1>10. ASSUME NEW q \in PayReqs, RefreshLink(q) PROVE Goal
  <2>1. StoreTypeOK'
    BY <1>0, <1>10, RefreshLinkWrites, RefTyped, SameStore
  <2>. QED  BY <1>0, <1>10, <2>1, SameGateway DEF RefreshLink
<1>11. ASSUME NEW q \in PayReqs, PayDies(q) PROVE Goal
  BY <1>0, <1>11, SameStore, SameGateway DEF PayDies
<1>12. ASSUME NEW p \in PayReqs, Expire(p) PROVE Goal
  <2> DEFINE row == [payments[p] EXCEPT !.old = TRUE]
  <2>1. StoreTypeOK'
    <3>1. payments' = [payments EXCEPT ![p] = row]
      BY <1>12 DEF Expire
    <3>2. p \in Ids /\ payments[p] \in Row
      BY <1>0 DEF StoreTypeOK
    <3>3. row \in Row /\ row.type = payments[p].type /\ row.app = payments[p].app
          /\ row.appRef = payments[p].appRef
      BY <3>2 DEF Row
    <3>. QED  BY <1>0, <3>1, <3>2, <3>3, RowTyped
  <2>. QED  BY <1>0, <1>12, <2>1, SameGateway DEF Expire
<1>. QED
  BY <1>1, <1>2, <1>3, <1>4, <1>5, <1>6, <1>7, <1>8, <1>9, <1>10, <1>11, <1>12
     DEF DepositsNext, PayStep

LEMMA TransfersStepTyped ==
  ASSUME TypeOK, TransfersNext
  PROVE  TransfersTypeOK' /\ StoreTypeOK' /\ DiarraTypeOK'
<1>. DEFINE Goal == TransfersTypeOK' /\ StoreTypeOK' /\ DiarraTypeOK'
<1>. USE DEF TransfersTypeOK, Transfer, XferSteps, XferAnswers, XferGoes
<1>0. /\ TransfersTypeOK /\ StoreTypeOK /\ DiarraTypeOK
      /\ \A q \in XferReqs : q \in Ids
      /\ \A s \in {"failed"} : s \in Statuses
  BY TransfersAssumption DEF TypeOK, Statuses
<1>1. ASSUME NEW q \in XferReqs, NEW a \in Apps, NEW ref \in AppRefs, NEW amount \in Amounts,
             PayoutArrive(q, a, ref, amount) \/ AdminPayoutArrive(q, a, ref, amount)
      PROVE  Goal
  <2>1. PICK c \in {"lookup", "insert", "refused"} :
          xfer' = [xfer EXCEPT ![q] = [NoTransfer EXCEPT !.pc = c, !.app = a,
                                         !.appRef = ref, !.amount = amount]]
    BY <1>1 DEF PayoutArrive, AdminPayoutArrive
  <2>2. TransfersTypeOK'
    BY <1>0, <2>1 DEF NoTransfer
  <2>. QED  BY <1>0, <1>1, <2>2, SameStore, SameGateway DEF PayoutArrive, AdminPayoutArrive
<1>2. ASSUME NEW q \in XferReqs, NEW a \in Apps, NEW dref \in AppRefs, NEW ref \in AppRefs,
             RefundArrive(q, a, dref, ref)
      PROVE  Goal
  BY <1>0, <1>2, SameStore, SameGateway DEF RefundArrive, NoTransfer
<1>3. ASSUME NEW q \in XferReqs, NEW p \in Ids, AdminRefundArrive(q, p)
      PROVE  Goal
  <2>1. payments[p] \in Row /\ payments[p].app \in Apps /\ payments[p].appRef \in AppRefs
    BY <1>0, <1>3 DEF StoreTypeOK, AdminRefundArrive
  <2>2. RefundRefOf[payments[p].appRef] \in AppRefs
    BY <2>1, TransfersAssumption
  <2>3. PICK c \in {"lookup", "refused"} :
          xfer' = [xfer EXCEPT ![q] = [NoTransfer EXCEPT !.pc = c,
                     !.app = payments[p].app, !.appRef = RefundRefOf[payments[p].appRef],
                     !.dref = payments[p].appRef, !.amount = payments[p].amount,
                     !.deposit = p, !.of = payments[p].ref]]
    BY <1>3 DEF AdminRefundArrive
  <2>4. TransfersTypeOK'
    BY <1>0, <2>1, <2>2, <2>3 DEF NoTransfer, Row
  <2>. QED  BY <1>0, <1>3, <2>4, SameStore, SameGateway DEF AdminRefundArrive
<1>4. ASSUME NEW q \in XferReqs, XferFound(q) \/ XferNotFound(q) \/ PayoutCap(q)
      PROVE  Goal
  BY <1>0, <1>4, SameStore, SameGateway DEF XferFound, XferNotFound, PayoutCap
<1>5. ASSUME NEW q \in XferReqs, RefundReadsDeposit(q) PROVE Goal
  <2>1. \A p \in Ids : payments[p] \in Row
    BY <1>0 DEF StoreTypeOK
  <2>2. ASSUME xfer' = [xfer EXCEPT ![q].pc = "refused"], xfer[q].pc = "deposit"
        PROVE  TransfersTypeOK'
    BY <1>0, <2>2
  <2>3. ASSUME NEW p \in Ids, xfer[q].pc = "deposit",
               xfer' = [xfer EXCEPT ![q].pc = "insert", ![q].amount = payments[p].amount,
                                    ![q].deposit = p, ![q].of = payments[p].ref]
        PROVE  TransfersTypeOK'
    <3> DEFINE new == [xfer[q] EXCEPT !.pc = "insert", !.amount = payments[p].amount,
                                      !.deposit = p, !.of = payments[p].ref]
    <3>1. payments[p].amount \in Amounts \cup {0} /\ payments[p].ref \in Ids \cup {None}
      BY <2>1 DEF Row
    <3>2. new \in Transfer /\ new.app \in Apps /\ new.appRef \in AppRefs
      BY <1>0, <2>3, <3>1
    <3>3. xfer' = [xfer EXCEPT ![q] = new]
      BY <2>3
    <3>. QED  BY <1>0, <3>2, <3>3
  <2>4. TransfersTypeOK'
    BY <1>5, <2>2, <2>3 DEF RefundReadsDeposit, Matching
  <2>. QED  BY <1>0, <1>5, <2>4, SameStore, SameGateway DEF RefundReadsDeposit
<1>6. ASSUME NEW q \in XferReqs, XferInsert(q) PROVE Goal
  <2>1. XferRow(q) \in Row /\ XferRow(q).app \in Apps /\ XferRow(q).appRef \in AppRefs
    BY <1>0, <1>6, NewRowTyped DEF XferRow, XferInsert, TypeOfXfer, PaymentTypes
  <2>2. StoreTypeOK'
    BY <1>0, <1>6, <2>1, InsertTyped, SameStore DEF XferInsert, FailedWrite
  <2>3. TransfersTypeOK'
    BY <1>0, <1>6 DEF XferInsert
  <2>. QED  BY <1>0, <1>6, <2>2, <2>3, SameGateway DEF XferInsert
<1>7. ASSUME NEW q \in XferReqs, XferCall(q) PROVE Goal
  <2>1. NetOf(xfer[q].amount) \in Nat /\ xfer[q].of \in Ids \cup {None}
    BY <1>0, NetTyped
  <2>2. DiarraTypeOK'
    BY <1>0, <1>7, <2>1, OrderTyped DEF XferCall
  <2>. QED  BY <1>0, <1>7, <2>2, SameStore DEF XferCall
<1>8. ASSUME NEW q \in XferReqs, XferReply(q) PROVE Goal
  <2>1. tx[q] \in {"none"} \cup InitialStatuses \cup Outcomes
    BY <1>0 DEF DiarraTypeOK
  <2>2. CASE xfer[q].pc = "wait" /\ xfer' = [xfer EXCEPT ![q].pc = "note", ![q].status = tx[q]]
    <3>. DEFINE new == [xfer[q] EXCEPT !.pc = "note", !.status = tx[q]]
    <3>0. new \in Transfer
      BY <1>0, <2>1
    <3>1. xfer' = [xfer EXCEPT ![q] = new]
      BY <1>0, <2>2
    <3>4. xfer' \in [XferReqs -> Transfer]
      <4> HIDE DEF new
      <4>. QED  BY <1>0, <3>0, <3>1
    <3>2. \A r \in XferReqs : /\ xfer'[r].app = xfer[r].app /\ xfer'[r].appRef = xfer[r].appRef
                              /\ xfer'[r].pc # "idle" => xfer[r].pc # "idle"
      BY <1>0, <2>2
    <3>3. UNCHANGED <<payments, gatewayVars>>
      BY <1>8 DEF XferReply
    <3>. QED  BY <1>0, <3>4, <3>2, <3>3, SameStore, SameGateway
  <2>3. CASE XferEnds(q, "wait", "created")
    BY <1>0, <1>8, <2>3, SameStore, SameGateway DEF XferReply, XferEnds
  <2>. QED  BY <1>8, <2>2, <2>3 DEF XferReply
<1>9. ASSUME NEW q \in XferReqs, XferCallFails(q) \/ XferDies(q) PROVE Goal
  BY <1>0, <1>9, SameStore, SameGateway DEF XferCallFails, XferDies
<1>10. ASSUME NEW q \in XferReqs, XferNote(q) \/ XferFail(q) PROVE Goal
  <2>1. StoreTypeOK'
    BY <1>0, <1>10, StatusTyped, normalizeTyped, SameStore DEF XferEnds, XferNote, XferFail, Attempt
  <2>. QED  BY <1>0, <1>10, <2>1, SameGateway DEF XferEnds, XferNote, XferFail
<1>. QED
  BY <1>1, <1>2, <1>3, <1>4, <1>5, <1>6, <1>7, <1>8, <1>9, <1>10
     DEF TransfersNext, XferStep

LEMMA WebhookStepTyped ==
  ASSUME TypeOK, WebhookNext
  PROVE  WebhookTypeOK' /\ StoreTypeOK' /\ DiarraTypeOK'
<1>. DEFINE Goal == WebhookTypeOK' /\ StoreTypeOK' /\ DiarraTypeOK'
<1>. USE DEF WebhookTypeOK, Callback, NoCallback
<1>0. WebhookTypeOK /\ StoreTypeOK /\ DiarraTypeOK
  BY DEF TypeOK
<1>1. ASSUME NEW d \in Deliveries, NEW r \in Ids, Deliver(d, r) PROVE Goal
  BY <1>0, <1>1, SameStore, SameGateway DEF Deliver
<1>2. ASSUME NEW d \in Deliveries, CallbackFindsPayment(d) PROVE Goal
  <2>1. PICK p \in Ids : hook' = [hook EXCEPT ![d].pc = "apply", ![d].row = p]
    BY <1>2 DEF CallbackFindsPayment, FindPaymentByDiarraRef
  <2>2. hook[d].ref \in Ids /\ hook[d].status \in Outcomes
    BY <1>0, <1>2 DEF CallbackFindsPayment
  <2>3. WebhookTypeOK'
    BY <1>0, <1>2, <2>1, <2>2 DEF CallbackFindsPayment
  <2>. QED  BY <1>0, <1>2, <2>3, SameStore, SameGateway DEF CallbackFindsPayment
<1>3. ASSUME NEW d \in Deliveries, CallbackFindsNothing(d) \/ CallbackDropped(d) PROVE Goal
  <2>1. hook[d].ref \in Ids /\ UNCHANGED <<payments, gatewayVars>>
    BY <1>0, <1>3 DEF CallbackFindsNothing, CallbackDropped
  <2>2. CASE CallbackFindsNothing(d)
    BY <1>0, <2>1, <2>2, SameStore, SameGateway DEF CallbackFindsNothing
  <2>3. CASE CallbackDropped(d)
    BY <1>0, <2>1, <2>3, SameStore, SameGateway DEF CallbackDropped, Answered200
  <2>. QED  BY <1>3, <2>2, <2>3
<1>4. ASSUME NEW d \in Deliveries, CallbackApplied(d) \/ CallbackUpdateFails(d) PROVE Goal
  <2>1. hook[d].ref \in Ids
    BY <1>0, <1>4 DEF CallbackApplied, CallbackUpdateFails
  <2>2. StoreTypeOK'
    BY <1>0, <1>4, <2>1, StatusTyped, SameStore
       DEF CallbackApplied, CallbackUpdateFails, FailedWrite
  <2>. QED
    BY <1>0, <1>4, <2>1, <2>2, SameGateway DEF CallbackApplied, CallbackUpdateFails, Answered200
<1>5. ASSUME NEW d \in Deliveries, CallbackDies(d) PROVE Goal
  BY <1>0, <1>5, SameStore, SameGateway DEF CallbackDies
<1>. QED  BY <1>1, <1>2, <1>3, <1>4, <1>5 DEF WebhookNext, CallbackStep

LEMMA DiarraStepTyped ==
  ASSUME TypeOK, DiarraNext
  PROVE  StoreTypeOK' /\ DiarraTypeOK'
<1>1. StoreTypeOK /\ DiarraTypeOK
  BY DEF TypeOK
<1>2. UNCHANGED payments
  BY DEF DiarraNext, Accept, Settle
<1>3. DiarraTypeOK'
  BY <1>1, DiarraAssumption DEF DiarraNext, Accept, Settle, DiarraTypeOK
<1>. QED  BY <1>1, <1>2, <1>3, SameStore

LEMMA RegistryStepTyped ==
  ASSUME TypeOK, RegistryNext
  PROVE  RegistryTypeOK'
BY DEF TypeOK, RegistryNext, RegistryTypeOK, SetAppKYC, SetAppActive
-----------------------------------------------------------------------------
LEMMA NextTyped == TypeOK /\ [Next]_vars => TypeOK'
<1> SUFFICES ASSUME TypeOK, [Next]_vars PROVE TypeOK'
  OBVIOUS
<1>. USE DEF TypeOK
<1>1. CASE UNCHANGED <<payments, gatewayVars, pay, xfer, hookVars>> /\ RegistryNext
  BY <1>1, RegistryStepTyped, SameStore, SameGateway
     DEF DepositsTypeOK, TransfersTypeOK, WebhookTypeOK, hookVars
<1>2. CASE DiarraNext /\ UNCHANGED <<registryVars, pay, xfer, hookVars>>
  BY <1>2, DiarraStepTyped
     DEF RegistryTypeOK, DepositsTypeOK, TransfersTypeOK, WebhookTypeOK,
         registryVars, hookVars
<1>3. CASE DepositsNext /\ UNCHANGED <<registryVars, xfer, hookVars>>
  BY <1>3, DepositsStepTyped
     DEF RegistryTypeOK, TransfersTypeOK, WebhookTypeOK, registryVars, hookVars
<1>4. CASE TransfersNext /\ UNCHANGED <<registryVars, pay, hookVars>>
  BY <1>4, TransfersStepTyped
     DEF RegistryTypeOK, DepositsTypeOK, WebhookTypeOK, registryVars, hookVars
<1>5. CASE WebhookNext /\ UNCHANGED <<registryVars, pay, xfer>>
  BY <1>5, WebhookStepTyped
     DEF RegistryTypeOK, DepositsTypeOK, TransfersTypeOK, registryVars
<1>6. CASE UNCHANGED vars
  BY <1>6, SameStore, SameGateway
     DEF vars, RegistryTypeOK, DepositsTypeOK, TransfersTypeOK, WebhookTypeOK,
         registryVars, hookVars
<1>. QED  BY <1>1, <1>2, <1>3, <1>4, <1>5, <1>6 DEF Next

\* Every variable keeps its type, whatever fails and whoever crashes.
THEOREM TypeCorrect == Spec => []TypeOK
BY InitTyped, NextTyped, PTL DEF Spec
-----------------------------------------------------------------------------
(* Keys.  A request owns no row before it inserts one, and the rows keep    *)
(* distinct keys: the unique index, seen from the handlers.                 *)

PayEarly  == {"idle", "lookup", "cap", "insert"}
XferEarly == {"idle", "lookup", "cap", "deposit", "insert"}

NotYetStored ==
  /\ \A q \in PayReqs  : pay[q].pc \in PayEarly => ~Stored(q)
  /\ \A q \in XferReqs : xfer[q].pc \in XferEarly => ~Stored(q)

SameKey(p, r) ==
  /\ payments[p].type = payments[r].type
  /\ payments[p].app = payments[r].app
  /\ payments[p].appRef = payments[r].appRef

UniqueKey == \A p, r \in Ids : Stored(p) /\ SameKey(p, r) => p = r

\* The columns a row is inserted with.
TermsKept(p) ==
  /\ payments'[p].type = payments[p].type
  /\ payments'[p].app = payments[p].app
  /\ payments'[p].appRef = payments[p].appRef
  /\ payments'[p].amount = payments[p].amount
  /\ payments'[p].net = payments[p].net
  /\ payments'[p].of = payments[p].of

AllTermsKept == \A p \in Ids : TermsKept(p)

LEMMA SameTerms == ASSUME UNCHANGED payments PROVE AllTermsKept
BY DEF AllTermsKept, TermsKept

LEMMA RowTerms ==
  ASSUME StoreTypeOK, NEW p, NEW s, NEW r, NEW l,
         \/ UpdatePaymentStatus(p, s)
         \/ UpdatePaymentRedirect(p, l)
         \/ UpdateDiarraRefAndRedirect(p, r, l)
         \/ payments' = [payments EXCEPT ![p].old = TRUE]
  PROVE  AllTermsKept
BY DEF StoreTypeOK, Row, AllTermsKept, TermsKept, UpdatePaymentStatus,
       UpdatePaymentRedirect, UpdateDiarraRefAndRedirect

PayInserts(q) ==
  /\ pay[q].pc = "insert" /\ pay'[q].pc \notin PayEarly
  /\ PayKeyFree(q) /\ InsertRow(q, PayRow(q))

XferInserts(q) ==
  /\ xfer[q].pc = "insert" /\ xfer'[q].pc \notin XferEarly
  /\ XferKeyFree(q) /\ InsertRow(q, XferRow(q))

\* Every step either keeps the terms of all the rows or inserts one.
LEMMA DepositsEffect ==
  ASSUME TypeOK, DepositsNext
  PROVE  /\ AllTermsKept \/ \E q \in PayReqs : PayInserts(q)
         /\ \A q \in PayReqs : pay'[q].pc \in PayEarly => pay[q].pc \in PayEarly
<1>. DEFINE Forward == \A q \in PayReqs : pay'[q].pc \in PayEarly => pay[q].pc \in PayEarly
            Goal == (AllTermsKept \/ \E q \in PayReqs : PayInserts(q)) /\ Forward
<1>0. StoreTypeOK /\ pay \in [PayReqs -> Visit]
  BY DEF TypeOK, DepositsTypeOK
<1>. USE DEF PayEarly, PayGoes, Visit
<1>1. ASSUME NEW q \in PayReqs, NEW a \in Apps, NEW ref \in AppRefs, NEW amount \in Amounts,
             PayArrive(q, a, ref, amount) \/ TestPayArrive(q, a, ref, amount)
      PROVE  Goal
  BY <1>0, <1>1, SameTerms DEF PayArrive, TestPayArrive
<1>2. ASSUME NEW q \in PayReqs,
             \/ PayFound(q) \/ PayNotFound(q) \/ PayCap(q) \/ PayReselect(q) \/ PayCall(q)
             \/ PayReply(q) \/ PayCallFails(q) \/ RefreshCall(q) \/ RefreshReply(q)
             \/ RefreshCallFails(q) \/ PayDies(q)
      PROVE  Goal
  <2>1. UNCHANGED payments
    BY <1>2 DEF PayFound, PayNotFound, PayCap, PayReselect, PayCall, PayReply,
         PayCallFails, RefreshCall, RefreshReply, RefreshCallFails, PayDies
  <2>2. CASE PayFound(q) \/ PayNotFound(q) \/ PayCap(q)
    <3>1. pay[q].pc \in PayEarly /\ \A r \in PayReqs \ {q} : pay'[r] = pay[r]
      BY <1>0, <2>2 DEF PayFound, PayNotFound, PayCap
    <3>. QED  BY <2>1, <3>1, SameTerms
  <2>3. CASE PayReselect(q) \/ PayCall(q) \/ PayReply(q) \/ PayCallFails(q)
    <3>1. Forward
      BY <1>0, <2>3 DEF PayReselect, PayCall, PayReply, PayCallFails
    <3>. QED  BY <2>1, <3>1, SameTerms
  <2>4. CASE RefreshCall(q) \/ RefreshReply(q) \/ RefreshCallFails(q) \/ PayDies(q)
    <3>1. Forward
      BY <1>0, <2>4 DEF RefreshCall, RefreshReply, RefreshCallFails, PayDies
    <3>. QED  BY <2>1, <3>1, SameTerms
  <2>. QED  BY <1>2, <2>2, <2>3, <2>4
<1>3. ASSUME NEW q \in PayReqs, PayInsert(q) PROVE Goal
  <2>1. Forward
    BY <1>0, <1>3 DEF PayInsert
  <2>2. AllTermsKept \/ PayInserts(q)
    BY <1>0, <1>3, SameTerms DEF PayInsert, PayInserts, FailedWrite
  <2>. QED  BY <2>1, <2>2
<1>4. ASSUME NEW q \in PayReqs, PayLink(q) \/ PayFail(q) \/ RefreshLink(q) PROVE Goal
  <2>1. Forward
    BY <1>0, <1>4 DEF PayLink, PayFail, RefreshLink
  <2>2. CASE PayLink(q)
    BY <1>0, <2>1, <2>2, PayLinkWrites, SameTerms, RowTerms
  <2>3. CASE RefreshLink(q)
    BY <1>0, <2>1, <2>3, RefreshLinkWrites, SameTerms, RowTerms
  <2>4. CASE PayFail(q)
    BY <1>0, <2>1, <2>4, SameTerms, RowTerms DEF PayFail, Attempt
  <2>. QED  BY <1>4, <2>2, <2>3, <2>4
<1>5. ASSUME NEW p \in PayReqs, Expire(p) PROVE Goal
  <2>1. payments' = [payments EXCEPT ![p].old = TRUE] /\ UNCHANGED pay
    BY <1>5 DEF Expire
  <2>. QED  BY <1>0, <2>1, RowTerms
<1>. QED  BY <1>1, <1>2, <1>3, <1>4, <1>5 DEF DepositsNext, PayStep

LEMMA TransfersEffect ==
  ASSUME TypeOK, TransfersNext
  PROVE  /\ AllTermsKept \/ \E q \in XferReqs : XferInserts(q)
         /\ \A q \in XferReqs : xfer'[q].pc \in XferEarly => xfer[q].pc \in XferEarly
<1>. DEFINE Forward == \A q \in XferReqs : xfer'[q].pc \in XferEarly => xfer[q].pc \in XferEarly
            Goal == (AllTermsKept \/ \E q \in XferReqs : XferInserts(q)) /\ Forward
<1>0. StoreTypeOK /\ xfer \in [XferReqs -> Transfer]
  BY DEF TypeOK, TransfersTypeOK
<1>. USE DEF XferEarly, XferGoes, Transfer
<1>1. ASSUME NEW q \in XferReqs,
             \/ \E a \in Apps, ref \in AppRefs, amount \in Amounts :
                  PayoutArrive(q, a, ref, amount) \/ AdminPayoutArrive(q, a, ref, amount)
             \/ \E a \in Apps, dref, ref \in AppRefs : RefundArrive(q, a, dref, ref)
             \/ \E p \in Ids : AdminRefundArrive(q, p)
      PROVE  Goal
  <2>1. UNCHANGED payments
    BY <1>1 DEF PayoutArrive, AdminPayoutArrive, RefundArrive, AdminRefundArrive
  <2>2. xfer[q].pc = "idle" /\ \E new : xfer' = [xfer EXCEPT ![q] = new]
    BY <1>1, Zenon DEF PayoutArrive, AdminPayoutArrive, RefundArrive, AdminRefundArrive
  <2>3. xfer[q].pc \in XferEarly /\ \A r \in XferReqs \ {q} : xfer'[r] = xfer[r]
    BY <1>0, <2>2
  <2>4. Forward
    BY <2>3
  <2>. QED  BY <2>1, <2>4, SameTerms
<1>2. ASSUME NEW q \in XferReqs,
             \/ XferFound(q) \/ XferNotFound(q) \/ PayoutCap(q) \/ RefundReadsDeposit(q)
             \/ XferCall(q) \/ XferReply(q) \/ XferCallFails(q) \/ XferDies(q)
      PROVE  Goal
  <2>1. UNCHANGED payments
    BY <1>2 DEF XferFound, XferNotFound, PayoutCap, RefundReadsDeposit, XferCall,
         XferReply, XferEnds, XferCallFails, XferDies
  <2>2. CASE XferFound(q) \/ XferNotFound(q) \/ PayoutCap(q) \/ RefundReadsDeposit(q)
    <3>1. xfer[q].pc \in XferEarly /\ \A r \in XferReqs \ {q} : xfer'[r] = xfer[r]
      BY <1>0, <2>2 DEF XferFound, XferNotFound, PayoutCap, RefundReadsDeposit
    <3>. QED  BY <2>1, <3>1, SameTerms
  <2>3. CASE XferCall(q) \/ XferReply(q) \/ XferCallFails(q) \/ XferDies(q)
    <3>1. Forward
      BY <1>0, <2>3 DEF XferCall, XferReply, XferEnds, XferCallFails, XferDies, XferSteps
    <3>. QED  BY <2>1, <3>1, SameTerms
  <2>. QED  BY <1>2, <2>2, <2>3
<1>3. ASSUME NEW q \in XferReqs, XferInsert(q) PROVE Goal
  <2>1. Forward
    BY <1>0, <1>3 DEF XferInsert
  <2>2. AllTermsKept \/ XferInserts(q)
    BY <1>0, <1>3, SameTerms DEF XferInsert, XferInserts, FailedWrite
  <2>. QED  BY <2>1, <2>2
<1>4. ASSUME NEW q \in XferReqs, XferNote(q) \/ XferFail(q) PROVE Goal
  <2>1. Forward
    BY <1>0, <1>4 DEF XferEnds, XferNote, XferFail
  <2>2. AllTermsKept
    BY <1>0, <1>4, SameTerms, RowTerms DEF XferEnds, XferNote, XferFail, Attempt
  <2>. QED  BY <2>1, <2>2
<1>. QED  BY <1>1, <1>2, <1>3, <1>4 DEF TransfersNext, XferStep

LEMMA KeysStart == Init => NotYetStored /\ UniqueKey
BY DepositsAssumption, TransfersAssumption
   DEF Init, StoreInit, NoRow, NotYetStored, UniqueKey, Stored

LEMMA OtherEffect ==
  ASSUME TypeOK, DiarraNext \/ WebhookNext
  PROVE  AllTermsKept
<1>1. StoreTypeOK
  BY DEF TypeOK
<1>2. DiarraNext => UNCHANGED payments
  BY DEF DiarraNext, Accept, Settle
<1>3. WebhookNext => UNCHANGED payments \/ \E p, s : UpdatePaymentStatus(p, s)
  BY Zenon DEF WebhookNext, Deliver, CallbackStep, CallbackFindsPayment, CallbackFindsNothing,
       CallbackDropped, CallbackApplied, CallbackUpdateFails, CallbackDies, FailedWrite
<1>. QED  BY <1>1, <1>2, <1>3, SameTerms, RowTerms

\* When no terms change, the keys stay as they are.
LEMMA KeysKept ==
  ASSUME NotYetStored, UniqueKey, AllTermsKept,
         \A q \in PayReqs  : pay'[q].pc \in PayEarly => pay[q].pc \in PayEarly,
         \A q \in XferReqs : xfer'[q].pc \in XferEarly => xfer[q].pc \in XferEarly
  PROVE  NotYetStored' /\ UniqueKey'
BY DepositsAssumption, TransfersAssumption
   DEF NotYetStored, UniqueKey, AllTermsKept, TermsKept, Stored, SameKey

\* An insertion under a free key: the row is new and no other has its key.
LEMMA KeysGrow ==
  ASSUME TypeOK, NotYetStored, UniqueKey, NEW q \in Ids, NEW t \in PaymentTypes, NEW a, NEW ref,
         NEW amount, NEW of,
         Matching(a, ref, t) = {}, InsertRow(q, NewRow(t, a, ref, q, amount, of))
  PROVE  UniqueKey'
<1>1. payments \in [Ids -> Row]
  BY DEF TypeOK, StoreTypeOK
<1>2. /\ payments'[q].type = t /\ payments'[q].app = a /\ payments'[q].appRef = ref
      /\ \A p \in Ids \ {q} : payments'[p] = payments[p]
  BY <1>1 DEF InsertRow, NewRow
<1>3. \A p \in Ids : ~(payments[p].type = t /\ payments[p].app = a /\ payments[p].appRef = ref)
  BY DEF Matching
<1>. QED  BY <1>2, <1>3 DEF UniqueKey, SameKey, Stored

LEMMA KeysStep ==
  ASSUME TypeOK, NotYetStored, UniqueKey, [Next]_vars
  PROVE  /\ NotYetStored' /\ UniqueKey'
         /\ \A p \in Ids : Stored(p) => TermsKept(p)
<1>. DEFINE Goal == /\ NotYetStored' /\ UniqueKey'
                    /\ \A p \in Ids : Stored(p) => TermsKept(p)
<1>0. /\ PayReqs \subseteq Ids /\ XferReqs \subseteq Ids /\ PayReqs \cap XferReqs = {}
      /\ payments \in [Ids -> Row]
  BY DepositsAssumption, TransfersAssumption, OrchestratorAssumption DEF TypeOK, StoreTypeOK
<1>1. CASE UNCHANGED <<pay, xfer>> /\ AllTermsKept
  BY <1>1, KeysKept DEF AllTermsKept
<1>2. CASE DepositsNext /\ UNCHANGED xfer
  <2>1. CASE AllTermsKept
    BY <1>2, <2>1, DepositsEffect, KeysKept DEF AllTermsKept
  <2>2. ASSUME NEW q \in PayReqs, PayInserts(q) PROVE Goal
    <3>1. UniqueKey'
      BY <1>0, <2>2, KeysGrow DEF PayInserts, PayKeyFree, PayRow, PaymentTypes
    <3>2. ~Stored(q) /\ \A p \in Ids \ {q} : payments'[p] = payments[p]
      BY <1>0, <2>2 DEF NotYetStored, PayEarly, PayInserts, InsertRow
    <3>3. NotYetStored'
      BY <1>0, <1>2, <2>2, <3>2, DepositsEffect DEF NotYetStored, Stored, PayInserts
    <3>. QED  BY <3>1, <3>2, <3>3 DEF TermsKept
  <2>. QED  BY <1>2, <2>1, <2>2, DepositsEffect
<1>3. CASE TransfersNext /\ UNCHANGED pay
  <2>1. CASE AllTermsKept
    BY <1>3, <2>1, TransfersEffect, KeysKept DEF AllTermsKept
  <2>2. ASSUME NEW q \in XferReqs, XferInserts(q) PROVE Goal
    <3>1. UniqueKey'
      BY <1>0, <2>2, KeysGrow DEF XferInserts, XferKeyFree, XferRow, PaymentTypes, TypeOfXfer
    <3>2. ~Stored(q) /\ \A p \in Ids \ {q} : payments'[p] = payments[p]
      BY <1>0, <2>2 DEF NotYetStored, XferEarly, XferInserts, InsertRow
    <3>3. NotYetStored'
      BY <1>0, <1>3, <2>2, <3>2, TransfersEffect DEF NotYetStored, Stored, XferInserts
    <3>. QED  BY <3>1, <3>2, <3>3 DEF TermsKept
  <2>. QED  BY <1>3, <2>1, <2>2, TransfersEffect
<1>4. CASE UNCHANGED vars
  BY <1>1, <1>4, SameTerms DEF vars
<1>5. CASE RegistryNext /\ UNCHANGED <<payments, gatewayVars, pay, xfer, hookVars>>
  BY <1>1, <1>5, SameTerms
<1>6. CASE (DiarraNext \/ WebhookNext) /\ UNCHANGED <<registryVars, pay, xfer>>
  BY <1>1, <1>6, OtherEffect
<1>. QED  BY <1>2, <1>3, <1>4, <1>5, <1>6 DEF Next

KeysOK == TypeOK /\ NotYetStored /\ UniqueKey

LEMMA KeysHold == Spec => []KeysOK
<1>1. Init => KeysOK
  BY InitTyped, KeysStart DEF KeysOK
<1>2. KeysOK /\ [Next]_vars => NotYetStored' /\ UniqueKey'
  BY KeysStep DEF KeysOK
<1>. QED  BY <1>1, <1>2, TypeCorrect, PTL DEF Spec, KeysOK

\* What a payment was inserted with never changes again.
THEOREM FrozenTermsHold == Spec => FrozenTerms
<1>1. KeysOK /\ [Next]_vars => [\A p \in Ids : Stored(p) => Terms(p)' = Terms(p)]_vars
  <2> SUFFICES ASSUME KeysOK, [Next]_vars, NEW p \in Ids, Stored(p)
               PROVE  Terms(p)' = Terms(p)
    OBVIOUS
  <2>1. TermsKept(p)
    BY KeysStep DEF KeysOK
  <2>. QED  BY <2>1 DEF TermsKept, Terms
<1>. QED  BY <1>1, KeysHold, PTL DEF Spec, FrozenTerms
-----------------------------------------------------------------------------
(* Money leaves once.  A request that asks DIARRA for a transfer owns a row *)
(* under its own key, from before the call and for ever, and the unique     *)
(* index keeps the keys of rows apart.                                      *)

\* Row q bears the key of request q.
OwnRow(q) ==
  /\ payments[q].type = TypeOfXfer(q)
  /\ payments[q].app = xfer[q].app
  /\ payments[q].appRef = xfer[q].appRef

\* The row is there before the call, and what was asked is what q asks for.
AskedOwns ==
  \A q \in XferReqs :
    /\ xfer[q].pc = "call" \/ Asked(q) => OwnRow(q)
    /\ Asked(q) => asked[q].type = TypeOfXfer(q)

XferUnasked == XferEarly \cup {"call"}

\* What a step does to the request of a transfer q.  It keeps its key once it
\* has one, and its amount once it is at the call; it gets there by inserting;
\* DIARRA is asked on its behalf at the call and never again; and it notes a
\* status its transaction had.
RequestSteps(q) ==
  /\ xfer[q].pc # "idle" => /\ xfer'[q].app = xfer[q].app
                            /\ xfer'[q].appRef = xfer[q].appRef
  /\ asked'[q] # asked[q] =>
       /\ xfer[q].pc = "call" /\ xfer'[q].pc = "wait"
       /\ asked'[q].type = TypeOfXfer(q)
       /\ TypeOfXfer(q) = "payout" => asked'[q].amount = NetOf(xfer[q].amount)
  /\ xfer'[q].pc \in XferUnasked => xfer[q].pc \in XferUnasked
  /\ xfer'[q].pc = "call" => /\ xfer[q].pc = "call" \/ XferInserts(q)
                             /\ xfer'[q].amount = xfer[q].amount
  /\ xfer'[q].pc \in {"wait", "note"} =>
       xfer[q].pc \in {"wait", "note"} \/ asked'[q].type = TypeOfXfer(q)
  /\ xfer'[q].pc = "note" =>
       xfer'[q].status = tx[q] \/ (xfer[q].pc = "note" /\ xfer'[q].status = xfer[q].status)

LEMMA TransfersRequests ==
  ASSUME TypeOK, TransfersNext, NEW q \in XferReqs
  PROVE  RequestSteps(q)
<1>0. /\ xfer \in [XferReqs -> Transfer] /\ asked \in [Ids -> Order]
      /\ XferReqs \subseteq Ids
  BY TransfersAssumption DEF TypeOK, TransfersTypeOK, DiarraTypeOK
<1>. USE DEF XferGoes, Transfer, XferUnasked, XferEarly
<1>1. ASSUME NEW r \in XferReqs,
             \/ \E a \in Apps, ref \in AppRefs, amount \in Amounts :
                  PayoutArrive(r, a, ref, amount) \/ AdminPayoutArrive(r, a, ref, amount)
             \/ \E a \in Apps, dref, ref \in AppRefs : RefundArrive(r, a, dref, ref)
             \/ \E p \in Ids : AdminRefundArrive(r, p)
      PROVE  RequestSteps(q)
  <2>1. UNCHANGED asked
    BY <1>1 DEF PayoutArrive, AdminPayoutArrive, RefundArrive, AdminRefundArrive, gatewayVars
  <2>2. PICK new : /\ xfer[r].pc = "idle" /\ new.pc \notin {"call", "wait", "note"}
                   /\ xfer' = [xfer EXCEPT ![r] = new]
    BY <1>1 DEF PayoutArrive, AdminPayoutArrive, RefundArrive, AdminRefundArrive, NoTransfer
  <2>. QED  BY <1>0, <2>1, <2>2 DEF RequestSteps
<1>2. ASSUME NEW r \in XferReqs, XferCall(r) PROVE RequestSteps(q)
  <2>1. /\ xfer[r].pc = "call" /\ xfer' = [xfer EXCEPT ![r].pc = "wait"]
        /\ \E new : /\ new.type = TypeOfXfer(r)
                    /\ TypeOfXfer(r) = "payout" => new.amount = NetOf(xfer[r].amount)
                    /\ asked' = [asked EXCEPT ![r] = new]
    BY <1>2 DEF XferCall, CreatePayout, CreateRefund, TypeOfXfer
  <2>. QED  BY <1>0, <2>1 DEF RequestSteps
<1>3. ASSUME NEW r \in XferReqs, XferInsert(r) PROVE RequestSteps(q)
  BY <1>0, <1>3 DEF XferInsert, XferInserts, XferEarly, FailedWrite, gatewayVars, RequestSteps
<1>4. ASSUME NEW r \in XferReqs,
             \/ XferFound(r) \/ XferNotFound(r) \/ PayoutCap(r) \/ RefundReadsDeposit(r)
             \/ XferReply(r) \/ XferCallFails(r) \/ XferNote(r) \/ XferFail(r) \/ XferDies(r)
      PROVE  RequestSteps(q)
  <2>1. UNCHANGED asked
    BY <1>4 DEF XferFound, XferNotFound, PayoutCap, RefundReadsDeposit, XferReply,
         XferCallFails, XferNote, XferFail, XferDies, gatewayVars
  <2>2. CASE XferFound(r) \/ XferNotFound(r) \/ PayoutCap(r)
    <3>1. PICK pc : /\ pc \notin {"call", "wait", "note"} /\ xfer[r].pc \in XferEarly
                     /\ xfer' = [xfer EXCEPT ![r].pc = pc]
      BY <2>2 DEF XferFound, XferNotFound, PayoutCap
    <3>. QED  BY <1>0, <2>1, <3>1 DEF RequestSteps
  <2>4. CASE RefundReadsDeposit(r)
    <3>0. xfer[r].pc = "deposit"
      BY <2>4 DEF RefundReadsDeposit
    <3>1. CASE xfer' = [xfer EXCEPT ![r].pc = "refused"]
      BY <1>0, <2>1, <3>0, <3>1 DEF RequestSteps
    <3>2. ASSUME NEW p \in Ids,
                 xfer' = [xfer EXCEPT ![r].pc = "insert", ![r].amount = payments[p].amount,
                                      ![r].deposit = p, ![r].of = payments[p].ref]
          PROVE  RequestSteps(q)
      BY <1>0, <2>1, <3>0, <3>2 DEF RequestSteps
    <3>. QED  BY <2>4, <3>1, <3>2 DEF RefundReadsDeposit, Matching
  <2>3. CASE XferReply(r) \/ XferCallFails(r) \/ XferNote(r) \/ XferFail(r) \/ XferDies(r)
    BY <1>0, <2>1, <2>3 DEF XferReply, XferCallFails, XferNote, XferFail, XferDies, XferEnds,
       RequestSteps
  <2>. QED  BY <1>4, <2>2, <2>3, <2>4
<1>. QED  BY <1>1, <1>2, <1>3, <1>4 DEF TransfersNext, XferStep

\* Nobody else asks on behalf of a transfer.
LEMMA OthersRequests ==
  ASSUME TypeOK, DepositsNext \/ DiarraNext \/ WebhookNext \/ UNCHANGED gatewayVars,
         UNCHANGED xfer, NEW q \in XferReqs
  PROVE  RequestSteps(q)
<1>0. asked \in [Ids -> Order] /\ q \in Ids /\ q \notin PayReqs
  BY TransfersAssumption, OrchestratorAssumption DEF TypeOK, DiarraTypeOK
<1>1. ASSUME DepositsNext PROVE asked'[q] = asked[q]
  BY <1>0, <1>1 DEF DepositsNext, PayStep, PayArrive, TestPayArrive, PayFound, PayNotFound,
     PayCap, PayInsert, PayReselect, PayCall, PayReply, PayCallFails, PayLink, PayFail,
     RefreshCall, RefreshReply, RefreshCallFails, RefreshLink, PayDies, Expire,
     CreateDeposit, gatewayVars
<1>2. ASSUME DiarraNext \/ WebhookNext \/ UNCHANGED gatewayVars PROVE asked'[q] = asked[q]
  BY <1>2 DEF DiarraNext, Accept, Settle, WebhookNext, Deliver, CallbackStep,
     CallbackFindsPayment, CallbackFindsNothing, CallbackDropped, CallbackApplied,
     CallbackUpdateFails, CallbackDies, gatewayVars
<1>. QED  BY <1>1, <1>2 DEF RequestSteps

LEMMA AskedOwnsStep ==
  ASSUME KeysOK, AskedOwns, [Next]_vars
  PROVE  AskedOwns'
<1>. SUFFICES ASSUME NEW q \in XferReqs
              PROVE  /\ xfer'[q].pc = "call" \/ Asked(q)' => OwnRow(q)'
                     /\ Asked(q)' => asked'[q].type = TypeOfXfer(q)
  BY DEF AskedOwns, TypeOfXfer
<1>0. q \in Ids
  BY TransfersAssumption
<1>1. RequestSteps(q)
  BY TransfersRequests, OthersRequests DEF KeysOK, Next, vars
<1>2. Stored(q) => TermsKept(q)
  BY <1>0, KeysStep DEF KeysOK
<1>3. OwnRow(q) => Stored(q) /\ xfer[q].pc # "idle"
  BY DEF OwnRow, Stored, TypeOfXfer, KeysOK, NotYetStored, XferEarly
<1>4. OwnRow(q) => OwnRow(q)'
  BY <1>1, <1>2, <1>3 DEF RequestSteps, TermsKept, OwnRow, TypeOfXfer
<1>5. XferInserts(q) => OwnRow(q)'
  BY <1>0, <1>1 DEF KeysOK, TypeOK, StoreTypeOK, XferInserts, InsertRow, XferRow, NewRow,
     OwnRow, RequestSteps, TypeOfXfer
<1>. QED  BY <1>1, <1>4, <1>5 DEF AskedOwns, RequestSteps, Asked

LEMMA AskedOwnsHold == Spec => []AskedOwns
<1>1. Init => AskedOwns
  BY TransfersAssumption DEF Init, TransfersInit, DiarraInit, NoTransfer, NoOrder, AskedOwns, Asked
<1>2. KeysOK /\ AskedOwns /\ [Next]_vars => AskedOwns'
  BY AskedOwnsStep
<1>. QED  BY <1>1, <1>2, KeysHold, PTL DEF Spec

\* At most one payout and one refund are asked of DIARRA under one app_ref,
\* whatever is repeated, fails or dies (Payout, Refund and their console
\* counterparts insert before they call).
THEOREM SingleTransferHolds == Spec => []SingleTransfer
<1>1. KeysOK /\ AskedOwns => SingleTransfer
  <2>. SUFFICES ASSUME KeysOK, AskedOwns, NEW q \in XferReqs, NEW r \in XferReqs,
                       Asked(q), Asked(r), asked[q].type = asked[r].type,
                       xfer[q].app = xfer[r].app, xfer[q].appRef = xfer[r].appRef
                PROVE  q = r
    BY DEF SingleTransfer
  <2>1. q \in Ids /\ r \in Ids
    BY TransfersAssumption
  <2>2. OwnRow(q) /\ OwnRow(r) /\ TypeOfXfer(q) = TypeOfXfer(r)
    BY DEF AskedOwns
  <2>3. Stored(q) /\ SameKey(q, r)
    BY <2>2 DEF OwnRow, Stored, SameKey, TypeOfXfer
  <2>. QED  BY <2>1, <2>3 DEF KeysOK, UniqueKey
<1>. QED  BY <1>1, KeysHold, AskedOwnsHold, PTL
=============================================================================
