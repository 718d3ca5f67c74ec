-------------------------- MODULE BookkeepingProofs --------------------------
(***************************************************************************)
(* The orchestrator implements the ledger, for any requests, references    *)
(* and amounts, with failing statements and crashes.  Refunds come first:  *)
(* the handler of a refund works on a snapshot of the deposit, and what it *)
(* read stays true of that deposit until DIARRA is asked, and after.       *)
(***************************************************************************)
EXTENDS CompletionProofs, Stats

RefIsAsked(p) == Asked(payments[p].ref)

\* A row marked completed, or about to be by a callback, bears a reference that
\* DIARRA was asked for.
RefAsked ==
  /\ \A p \in Ids : Stored(p) /\ payments[p].status = "completed" => RefIsAsked(p)
  /\ \A d \in Deliveries : hook[d].pc = "apply" => RefIsAsked(hook[d].row)

LEMMA RefStaysAsked ==
  ASSUME Sound, [Next]_vars, NEW p \in Ids, Stored(p), RefIsAsked(p)
  PROVE  RefIsAsked(p)'
<1>1. payments[p].ref \in Ids
  BY SoundStep, DepositsAssumption DEF RefOK
<1>2. payments'[p].ref = payments[p].ref \/ Renewed(p)
  <2>1. ~Inserted(p)
    BY DEF Inserted, PayInserts, XferInserts, PayEarly, XferEarly, Sound, KeysOK, NotYetStored
  <2>. QED  BY <2>1, SoundStep DEF RowSteps
<1>3. CASE payments'[p].ref = payments[p].ref
  BY <1>1, <1>3, AskedStable DEF RefIsAsked, Asked
<1>4. CASE Renewed(p)
  <2>1. PICK q \in PayReqs : pay[q].pc = "relink" /\ payments'[p].ref = q
    BY <1>4 DEF Renewed
  <2>2. Asked(q) /\ q \in Ids
    BY <2>1, SoundStep, DepositsAssumption DEF VisitOK
  <2>. QED  BY <2>1, <2>2, AskedStable DEF RefIsAsked, Asked
<1>. QED  BY <1>2, <1>3, <1>4

LEMMA RefAskedStep ==
  ASSUME Sound, RefAsked, [Next]_vars
  PROVE  RefAsked'
<1>1. ASSUME NEW p \in Ids, Stored(p)', payments'[p].status = "completed"
      PROVE  RefIsAsked(p)'
  <2>1. ~Inserted(p)
    BY <1>1 DEF Inserted, PayInserts, XferInserts, InsertRow, PayRow, XferRow, NewRow,
       Sound, KeysOK, TypeOK, StoreTypeOK
  <2>2. /\ Stored(p) /\ RefOK(p)
        /\ payments[p].status = "completed" \/ Reported(p) \/ Noted(p)
    BY <1>1, <2>1, SoundStep DEF RowSteps, Stored
  <2>3. Noted(p) => RefIsAsked(p)
    BY <2>2, SoundStep, OrchestratorAssumption DEF Noted, RequestOK, RefOK, RefIsAsked
  <2>4. RefIsAsked(p)
    BY <2>2, <2>3 DEF RefAsked, Reported
  <2>. QED  BY <2>2, <2>4, RefStaysAsked
<1>2. ASSUME NEW d \in Deliveries, hook'[d].pc = "apply"
      PROVE  RefIsAsked(hook[d].row)'
  <2>1. ReportSteps(d) /\ ReportOK(d)
    BY SoundStep
  <2>2. CASE hook'[d] = hook[d]
    <3>1. PICK p \in Ids : p = hook[d].row /\ Stored(p) /\ RefIsAsked(p)
      BY <1>2, <2>1, <2>2 DEF RefAsked, ReportOK
    <3>2. RefIsAsked(p)'
      BY <3>1, RefStaysAsked
    <3>. QED  BY <2>2, <3>1, <3>2 DEF RefIsAsked
  <2>3. CASE /\ UNCHANGED payments /\ hook[d].pc = "find"
             /\ hook'[d].row \in FindPaymentByDiarraRef(hook[d].ref)
    <3>1. PICK p \in Ids : p = hook'[d].row /\ Stored(p) /\ payments[p].ref = hook[d].ref
      BY <2>3 DEF FindPaymentByDiarraRef
    <3>2. hook[d].ref \in Ids /\ tx[hook[d].ref] # "none"
      BY <2>1, <2>3, DiarraAssumption DEF ReportOK, Sound, KeysOK, TypeOK, WebhookTypeOK
    <3>3. RefIsAsked(p)
      BY <3>1, <3>2, SoundStep DEF Known, RefIsAsked
    <3>4. RefIsAsked(p)'
      BY <3>1, <3>3, RefStaysAsked
    <3>. QED  BY <3>1, <3>4 DEF RefIsAsked
  <2>. QED  BY <1>2, <2>1, <2>2, <2>3 DEF ReportSteps
<1>. QED  BY <1>1, <1>2 DEF RefAsked
-----------------------------------------------------------------------------
(* What the handler of a refund works on.                                   *)

\* What the handler of a refund read of the deposit is true of it.
Snapshot(q) ==
  LET d == xfer[q].deposit IN
  /\ d \in Ids /\ payments[d].type = "deposit" /\ payments[d].app = xfer[q].app
  /\ payments[d].amount = xfer[q].amount
  /\ xfer[q].of \in Ids /\ Asked(xfer[q].of) /\ Linked(d, xfer[q].of)
  /\ Paid(d)

\* The steps of a refund that work on the snapshot.
Armed(q) ==
  \/ xfer[q].pc \in {"insert", "call"}
  \/ xfer[q].pc = "lookup" /\ q \in AdminRefunds

RefundOK(q) ==
  /\ xfer[q].pc # "cap"
  /\ Armed(q) \/ Asked(q) => Snapshot(q)
  /\ xfer[q].pc = "call" \/ Asked(q) =>
       payments[q].of = xfer[q].deposit /\ payments[q].amount = xfer[q].amount
  /\ Asked(q) => asked[q].of = xfer[q].of

RefundReqs == Refunds \cup AdminRefunds

SameSnapshot(q) ==
  /\ xfer'[q].deposit = xfer[q].deposit /\ xfer'[q].of = xfer[q].of
  /\ xfer'[q].amount = xfer[q].amount /\ xfer'[q].app = xfer[q].app

\* The deposit is read, and completed.
Reads(q) ==
  /\ UNCHANGED <<payments, gatewayVars, pay>>
  /\ LET d == xfer'[q].deposit IN
       /\ d \in Ids /\ payments[d].type = "deposit" /\ payments[d].status = "completed"
       /\ xfer'[q].app = payments[d].app /\ xfer'[q].amount = payments[d].amount
       /\ xfer'[q].of = payments[d].ref

RefundSteps(q) ==
  /\ Armed(q)' => (Armed(q) /\ SameSnapshot(q)) \/ Reads(q)
  /\ xfer[q].pc \notin XferEarly => SameSnapshot(q)
  /\ xfer'[q].pc # "cap"
  /\ asked'[q] # asked[q] => xfer[q].pc = "call" /\ asked'[q].of = xfer[q].of

LEMMA TransfersRefunds ==
  ASSUME TypeOK, TransfersNext, UNCHANGED pay, NEW q \in RefundReqs, xfer[q].pc # "cap"
  PROVE  RefundSteps(q)
<1>0. /\ xfer \in [XferReqs -> Transfer] /\ asked \in [Ids -> Order]
      /\ q \in XferReqs /\ XferReqs \subseteq Ids /\ TypeOfXfer(q) = "refund"
      /\ q \notin Payouts \cup AdminPayouts /\ (q \in AdminRefunds => q \notin Refunds)
  BY TransfersAssumption
     DEF TypeOK, TransfersTypeOK, DiarraTypeOK, RefundReqs, XferReqs, TypeOfXfer
<1>. USE DEF XferGoes, Transfer, XferEarly, Armed, SameSnapshot, RefundSteps
<1>1. ASSUME NEW r \in XferReqs,
             \/ \E a \in Apps, ref \in AppRefs, amount \in Amounts :
                  PayoutArrive(r, a, ref, amount) \/ AdminPayoutArrive(r, a, ref, amount)
             \/ \E a \in Apps, dref, ref \in AppRefs : RefundArrive(r, a, dref, ref)
      PROVE  RefundSteps(q)
  <2>1. UNCHANGED asked
    BY <1>1 DEF PayoutArrive, AdminPayoutArrive, RefundArrive, gatewayVars
  <2>2. CASE r # q
    <3>1. xfer'[q] = xfer[q]
      BY <1>0, <1>1, <2>2 DEF PayoutArrive, AdminPayoutArrive, RefundArrive
    <3>. QED  BY <2>1, <3>1
  <2>3. CASE r = q
    <3>1. PICK a \in Apps, dref \in AppRefs, ref \in AppRefs : RefundArrive(q, a, dref, ref)
      BY <1>0, <1>1, <2>3 DEF PayoutArrive, AdminPayoutArrive
    <3>2. /\ q \in Refunds /\ xfer[q].pc = "idle"
          /\ xfer'[q] = [NoTransfer EXCEPT !.pc = "lookup", !.app = a, !.appRef = ref,
                                           !.dref = dref]
      BY <1>0, <3>1 DEF RefundArrive
    <3>3. xfer'[q].pc = "lookup"
      BY <3>2 DEF NoTransfer
    <3>. QED  BY <1>0, <2>1, <3>2, <3>3
  <2>. QED  BY <2>2, <2>3
<1>2. ASSUME NEW r \in XferReqs, NEW p \in Ids, AdminRefundArrive(r, p) PROVE RefundSteps(q)
  <2>1. CASE r # q
    <3>1. xfer'[q] = xfer[q] /\ UNCHANGED asked
      BY <1>0, <1>2, <2>1 DEF AdminRefundArrive, gatewayVars
    <3>. QED  BY <3>1
  <2>2. CASE r = q
    <3>1. /\ xfer'[q].deposit = p /\ xfer'[q].app = payments[p].app
          /\ xfer'[q].amount = payments[p].amount /\ xfer'[q].of = payments[p].ref
          /\ xfer'[q].pc \in {"lookup", "refused"} /\ xfer[q].pc = "idle"
          /\ xfer'[q].pc = "lookup" =>
               payments[p].type = "deposit" /\ payments[p].status = "completed"
          /\ UNCHANGED <<payments, gatewayVars, pay>>
      BY <1>0, <1>2, <2>2 DEF AdminRefundArrive, NoTransfer
    <3>. QED  BY <3>1 DEF Reads, gatewayVars
  <2>. QED  BY <2>1, <2>2
<1>3. ASSUME NEW r \in XferReqs, RefundReadsDeposit(r) PROVE RefundSteps(q)
  <2>0. xfer[r].pc = "deposit" /\ UNCHANGED <<payments, gatewayVars, pay>>
    BY <1>3 DEF RefundReadsDeposit
  <2>1. CASE xfer' = [xfer EXCEPT ![r].pc = "refused"]
    BY <1>0, <2>0, <2>1 DEF gatewayVars
  <2>2. ASSUME NEW d \in Matching(xfer[r].app, xfer[r].dref, "deposit"),
               payments[d].status = "completed",
               xfer' = [xfer EXCEPT ![r].pc = "insert", ![r].amount = payments[d].amount,
                                    ![r].deposit = d, ![r].of = payments[d].ref]
        PROVE  RefundSteps(q)
    <3>1. d \in Ids /\ payments[d].type = "deposit" /\ payments[d].app = xfer[r].app
      BY <2>2 DEF Matching
    <3>2. CASE r # q
      BY <1>0, <2>0, <2>2, <3>2 DEF gatewayVars
    <3>3. CASE r = q
      BY <1>0, <2>0, <2>2, <3>1, <3>3 DEF Reads, gatewayVars
    <3>. QED  BY <3>2, <3>3
  <2>. QED  BY <1>3, <2>1, <2>2 DEF RefundReadsDeposit
<1>4. ASSUME NEW r \in XferReqs, XferCall(r) PROVE RefundSteps(q)
  <2>1. CASE r # q
    BY <1>0, <1>4, <2>1 DEF XferCall, CreatePayout, CreateRefund
  <2>2. CASE r = q
    BY <1>0, <1>4, <2>2 DEF XferCall, CreateRefund
  <2>. QED  BY <2>1, <2>2
<1>5. ASSUME NEW r \in XferReqs,
             \/ XferFound(r) \/ XferNotFound(r) \/ PayoutCap(r) \/ XferInsert(r)
             \/ XferReply(r) \/ XferCallFails(r) \/ XferNote(r) \/ XferFail(r) \/ XferDies(r)
      PROVE  RefundSteps(q)
  <2>1. UNCHANGED asked
    BY <1>5 DEF XferFound, XferNotFound, PayoutCap, XferInsert, XferReply,
         XferCallFails, XferNote, XferFail, XferDies, gatewayVars
  <2>2. SameSnapshot(q)
    BY <1>0, <1>5 DEF XferFound, XferNotFound, PayoutCap, XferInsert, XferReply,
         XferCallFails, XferNote, XferFail, XferDies, XferEnds
  <2>3. CASE XferFound(r) \/ XferNotFound(r)
    <3>1. (Armed(q)' => Armed(q)) /\ xfer'[q].pc # "cap"
      BY <1>0, <2>3 DEF XferFound, XferNotFound, RefundReqs
    <3>. QED  BY <2>1, <2>2, <3>1
  <2>4. CASE PayoutCap(r)
    <3>1. xfer'[q] = xfer[q]
      BY <1>0, <2>4 DEF PayoutCap
    <3>. QED  BY <2>1, <3>1
  <2>5. CASE \/ XferInsert(r) \/ XferReply(r) \/ XferCallFails(r) \/ XferNote(r) \/ XferFail(r)
             \/ XferDies(r)
    <3>1. (Armed(q)' => Armed(q)) /\ xfer'[q].pc # "cap"
      BY <1>0, <2>5 DEF XferInsert, XferReply, XferCallFails, XferNote, XferFail, XferDies,
         XferEnds
    <3>. QED  BY <2>1, <2>2, <3>1
  <2>. QED  BY <1>5, <2>3, <2>4, <2>5
<1>. QED  BY <1>1, <1>2, <1>3, <1>4, <1>5 DEF TransfersNext, XferStep

LEMMA RefundsStep ==
  ASSUME TypeOK, [Next]_vars, NEW q \in RefundReqs, xfer[q].pc # "cap"
  PROVE  RefundSteps(q)
<1>0. q \in XferReqs
  BY DEF RefundReqs, XferReqs
<1>1. ASSUME UNCHANGED xfer, DepositsNext \/ DiarraNext \/ WebhookNext \/ UNCHANGED gatewayVars
      PROVE  RefundSteps(q)
  <2>1. RequestSteps(q)
    BY <1>0, <1>1, OthersRequests
  <2>. QED  BY <1>1, <2>1 DEF RequestSteps, RefundSteps, Armed, SameSnapshot
<1>. QED  BY <1>1, TransfersRefunds DEF Next, vars

LEMMA SnapshotStays ==
  ASSUME Sound, [Next]_vars, NEW q \in RefundReqs, Snapshot(q), SameSnapshot(q)
  PROVE  Snapshot(q)'
<1>1. PICK d \in Ids, r \in Ids : d = xfer[q].deposit /\ r = xfer[q].of
  BY DEF Snapshot
<1>2. /\ payments[d].type = "deposit" /\ Stored(d) /\ TermsKept(d)
      /\ Asked(r) /\ Linked(d, r) /\ Paid(d)
  BY <1>1, SoundStep DEF Snapshot, Stored
<1>3. Asked(r)' /\ Linked(d, r)' /\ Paid(d)'
  BY <1>2, LinkedStable, PaidStays
<1>. QED  BY <1>1, <1>2, <1>3
             DEF Snapshot, SameSnapshot, TermsKept, Asked, Linked, Served, Paid

LEMMA SnapshotRead ==
  ASSUME Sound, RefAsked, [Next]_vars, NEW q \in RefundReqs, Reads(q)
  PROVE  Snapshot(q)'
<1>1. PICK d \in Ids : /\ d = xfer'[q].deposit /\ payments[d].type = "deposit"
                       /\ payments[d].status = "completed"
                       /\ xfer'[q].app = payments[d].app /\ xfer'[q].amount = payments[d].amount
                       /\ xfer'[q].of = payments[d].ref
  BY DEF Reads
<1>2. /\ payments[d].ref \in Ids /\ Asked(payments[d].ref) /\ Linked(d, payments[d].ref)
      /\ Paid(d)
  BY <1>1, SoundStep, DepositsAssumption DEF RefAsked, RefIsAsked, RefOK, Backed, Paid, Stored
<1>3. UNCHANGED <<payments, asked, tx, pay>>
  BY DEF Reads, gatewayVars
<1>4. Asked(payments[d].ref)' /\ Linked(d, payments[d].ref)' /\ Paid(d)'
  BY <1>2, <1>3 DEF Asked, Linked, Served, Paid
<1>. QED  BY <1>1, <1>2, <1>3, <1>4 DEF Snapshot, Asked, Linked, Served, Paid

LEMMA RefundOKStep ==
  ASSUME Sound, RefAsked, [Next]_vars, NEW q \in RefundReqs, RefundOK(q)
  PROVE  RefundOK(q)'
<1>0. /\ q \in XferReqs /\ q \in Ids /\ TypeOfXfer(q) = "refund"
      /\ RefundSteps(q) /\ RequestSteps(q) /\ RequestOK(q)
      /\ xfer[q].pc = "call" \/ Asked(q) => OwnRow(q)
      /\ Stored(q) => TermsKept(q)
  BY RefundsStep, SoundStep, TransfersAssumption
     DEF RefundReqs, XferReqs, TypeOfXfer, Sound, KeysOK, AskedOwns, RefundOK
<1>1. Asked(q) => SameSnapshot(q)
  BY <1>0 DEF RefundSteps, RequestOK, XferUnasked
<1>2. xfer[q].pc = "call" => SameSnapshot(q) /\ Armed(q)
  BY <1>0 DEF RefundSteps, XferEarly, Armed
<1>3. Asked(q)' => Asked(q) \/ (xfer[q].pc = "call" /\ asked'[q].of = xfer[q].of)
  BY <1>0 DEF RefundSteps, Asked
<1>4. Armed(q)' \/ Asked(q)' => Snapshot(q)'
  BY <1>0, <1>1, <1>2, <1>3, SnapshotStays, SnapshotRead DEF RefundOK, RefundSteps
<1>5. ASSUME xfer'[q].pc = "call" \/ Asked(q)'
      PROVE  payments'[q].of = xfer'[q].deposit /\ payments'[q].amount = xfer'[q].amount
  <2>1. CASE xfer[q].pc = "call" \/ Asked(q)
    <3>1. Stored(q)
      BY <1>0, <2>1 DEF OwnRow, Stored
    <3>. QED  BY <1>0, <1>1, <1>2, <2>1, <3>1 DEF RefundOK, SameSnapshot, TermsKept
  <2>2. CASE xfer'[q].pc = "call" /\ XferInserts(q)
    <3>1. /\ payments'[q] = XferRow(q) /\ payments'[q].type = "refund"
          /\ ~Stored(q)
      BY <1>0, <2>2 DEF XferInserts, InsertRow, XferRow, NewRow, XferEarly, Sound, KeysOK,
         NotYetStored, TypeOK, StoreTypeOK
    <3>2. SameSnapshot(q)
      BY <1>0, <2>2, <3>1 DEF RefundSteps, Armed, Reads, Stored
    <3>. QED  BY <3>1, <3>2 DEF XferRow, NewRow, SameSnapshot
  <2>. QED  BY <1>0, <1>3, <1>5, <2>1, <2>2 DEF RequestSteps
<1>6. Asked(q)' => asked'[q].of = xfer'[q].of
  <2>1. Asked(q) => asked'[q] = asked[q]
    BY <1>0, AskedStable
  <2>. QED  BY <1>1, <1>2, <1>3, <2>1 DEF RefundOK, SameSnapshot
<1>7. xfer'[q].pc # "cap"
  BY <1>0 DEF RefundSteps
<1>. QED  BY <1>4, <1>5, <1>6, <1>7 DEF RefundOK

RefundInv == RefAsked /\ \A q \in RefundReqs : RefundOK(q)

LEMMA RefundsHold == Spec => [](Sound /\ RefundInv)
<1>1. Init => RefundInv
  BY TransfersAssumption
     DEF Init, StoreInit, DiarraInit, TransfersInit, WebhookInit, NoRow, NoOrder, NoTransfer,
         NoCallback, RefundInv, RefAsked, RefundOK, RefundReqs, XferReqs, Armed, Asked, Stored
<1>2. Sound /\ RefundInv /\ [Next]_vars => RefundInv'
  BY RefAskedStep, RefundOKStep DEF RefundInv
<1>. QED  BY <1>1, <1>2, SoundHolds, PTL DEF Spec

\* Every refund asked of DIARRA is backed by a deposit of the same application
\* and amount that was paid, under a reference asked for that deposit, though
\* the handler checked a snapshot of the row (Refund, RefundDeposit) and a
\* renewal may have changed its reference since.
THEOREM RefundBackedHolds == Spec => []RefundBacked
<1>1. Sound /\ RefundInv => RefundBacked
  <2>. SUFFICES ASSUME Sound, RefundInv, NEW q \in XferReqs, asked[q].type = "refund",
                       NEW d, d = payments[q].of
                PROVE  /\ payments[d].type = "deposit" /\ payments[d].app = payments[q].app
                       /\ payments[d].amount = payments[q].amount
                       /\ asked[q].of \in PayReqs /\ pay[asked[q].of].row = d
                       /\ \E r \in PayReqs : pay[r].row = d /\ tx[r] = "completed"
    BY DEF RefundBacked
  <2>1. Asked(q) /\ OwnRow(q) /\ TypeOfXfer(q) = "refund"
    BY DEF Asked, Sound, AskedOwns
  <2>2. q \in RefundReqs
    BY <2>1 DEF TypeOfXfer, RefundReqs, XferReqs
  <2>3. /\ Snapshot(q) /\ xfer[q].deposit = d /\ xfer[q].amount = payments[q].amount
        /\ asked[q].of = xfer[q].of /\ xfer[q].app = payments[q].app
    BY <2>1, <2>2 DEF RefundInv, RefundOK, OwnRow
  <2>4. PICK r \in Ids : tx[r] = "completed" /\ Linked(d, r)
    BY <2>3 DEF Snapshot, Paid
  <2>. QED  BY <2>3, <2>4 DEF Snapshot, Linked, Served
<1>. QED  BY <1>1, RefundsHold, PTL
-----------------------------------------------------------------------------
(* The four kinds of steps, seen from the ledger: a row is inserted, one is *)
(* written and no terms change, DIARRA is asked, a transaction moves.       *)

Insertion == \/ \E q \in PayReqs : PayInserts(q)
             \/ \E q \in XferReqs : XferInserts(q)

OneRow == \E x : \A p \in Ids \ {x} : payments'[p] = payments[p]

Writes == UNCHANGED gatewayVars /\ OneRow

Asks ==
  /\ UNCHANGED <<payments, tx>>
  /\ \E x \in PayReqs \cup XferReqs : \E new : asked' = [asked EXCEPT ![x] = new]

Moves == /\ UNCHANGED <<payments, asked, pay>>
         /\ \E x \in Ids : Accept(x) \/ Settle(x)

LEMMA StatementOneRow ==
  ASSUME StoreTypeOK, NEW p, NEW s, NEW r, NEW row,
         \/ UNCHANGED payments
         \/ UpdatePaymentStatus(p, s)
         \/ UpdatePaymentRedirect(p, r)
         \/ UpdateDiarraRefAndRedirect(p, s, r)
         \/ InsertRow(p, row)
         \/ payments' = [payments EXCEPT ![p].old = TRUE]
  PROVE  OneRow
<1>1. \E new : payments' = [payments EXCEPT ![p] = new]
  <2>1. UNCHANGED payments => payments' = [payments EXCEPT ![p] = payments[p]]
    BY DEF StoreTypeOK
  <2>. QED  BY <2>1 DEF UpdatePaymentStatus, UpdatePaymentRedirect, UpdateDiarraRefAndRedirect,
                InsertRow
<1>. QED  BY <1>1 DEF OneRow, StoreTypeOK

LEMMA StepKinds ==
  ASSUME TypeOK, [Next]_vars
  PROVE  /\ Writes \/ Asks \/ Moves
         /\ Insertion \/ AllTermsKept
<1>0. StoreTypeOK
  BY DEF TypeOK
<1>1. Insertion \/ AllTermsKept
  BY DepositsEffect, TransfersEffect, OtherEffect, SameTerms DEF Next, vars, Insertion
<1>2. UNCHANGED payments => OneRow
  BY DEF OneRow
<1>3. CASE DepositsNext
  <2>1. \/ \E x \in PayReqs : PayCall(x) \/ RefreshCall(x)
        \/ /\ UNCHANGED gatewayVars
           /\ \/ UNCHANGED payments
              \/ \E p : InsertRow(p, PayRow(p))
              \/ \E p, r, l : \/ UpdatePaymentRedirect(p, l)
                             \/ UpdateDiarraRefAndRedirect(p, r, l)
              \/ \E p : UpdatePaymentStatus(p, "failed")
              \/ \E p : payments' = [payments EXCEPT ![p].old = TRUE]
    BY <1>3, Zenon DEF DepositsNext, PayStep, PayArrive, TestPayArrive, PayFound, PayNotFound,
       PayCap, PayInsert, PayReselect, PayReply, PayCallFails, PayLink, PayFail,
       RefreshReply, RefreshCallFails, RefreshLink, PayDies, Expire, FailedWrite, Attempt
  <2>2. (\E x \in PayReqs : PayCall(x) \/ RefreshCall(x)) => Asks
    BY DEF PayCall, RefreshCall, CreateDeposit, Asks
  <2>3. OneRow /\ UNCHANGED gatewayVars => Writes
    BY DEF Writes
  <2>. QED  BY <1>0, <1>1, <2>1, <2>2, <2>3, StatementOneRow
<1>4. CASE TransfersNext
  <2>1. \/ \E x \in XferReqs : XferCall(x)
        \/ /\ UNCHANGED gatewayVars
           /\ \/ UNCHANGED payments
              \/ \E p : InsertRow(p, XferRow(p))
              \/ \E p, s : UpdatePaymentStatus(p, s)
    BY <1>4, Zenon DEF TransfersNext, XferStep, PayoutArrive, AdminPayoutArrive, RefundArrive,
       AdminRefundArrive, XferFound, XferNotFound, PayoutCap, RefundReadsDeposit, XferInsert,
       XferReply, XferCallFails, XferNote, XferFail, XferDies, FailedWrite, Attempt
  <2>2. (\E x \in XferReqs : XferCall(x)) => Asks
    BY DEF XferCall, CreatePayout, CreateRefund, Asks
  <2>3. OneRow /\ UNCHANGED gatewayVars => Writes
    BY DEF Writes
  <2>. QED  BY <1>0, <1>1, <2>1, <2>2, <2>3, StatementOneRow
<1>5. CASE WebhookNext
  <2>1. UNCHANGED gatewayVars /\ (UNCHANGED payments \/ \E p, s : UpdatePaymentStatus(p, s))
    BY <1>5, Zenon DEF WebhookNext, Deliver, CallbackStep, CallbackFindsPayment,
       CallbackFindsNothing, CallbackDropped, CallbackApplied, CallbackUpdateFails, CallbackDies,
       FailedWrite
  <2>. QED  BY <1>0, <1>1, <2>1, StatementOneRow DEF Writes
<1>6. CASE DiarraNext /\ UNCHANGED pay
  BY <1>1, <1>6 DEF DiarraNext, Accept, Settle, Moves
<1>7. CASE UNCHANGED <<payments, gatewayVars>>
  BY <1>1, <1>2, <1>7 DEF Writes
<1>. QED  BY <1>3, <1>4, <1>5, <1>6, <1>7 DEF Next, vars
-----------------------------------------------------------------------------
\* A name without a row has no terms.
Blank == \A p \in Ids : ~Stored(p) => Terms(p) = BookBlank

LEMMA BlankStep ==
  ASSUME TypeOK, Blank, [Next]_vars
  PROVE  Blank'
<1>0. payments \in [Ids -> Row]
  BY DEF TypeOK, StoreTypeOK
<1>1. CASE AllTermsKept
  BY <1>1 DEF Blank, AllTermsKept, TermsKept, Terms, Stored
<1>2. ASSUME NEW q \in PayReqs, PayInserts(q) PROVE Blank'
  BY <1>0, <1>2 DEF PayInserts, PayRow, NewRow, InsertRow, Blank, Terms, Stored
<1>3. ASSUME NEW q \in XferReqs, XferInserts(q) PROVE Blank'
  BY <1>0, <1>3 DEF XferInserts, XferRow, NewRow, InsertRow, TypeOfXfer, Blank, Terms, Stored
<1>. QED  BY <1>1, <1>2, <1>3, StepKinds DEF Insertion

\* What is stored is what the book holds.
LEMMA RowEntry ==
  ASSUME NEW row \in Row, row.type # "none", row.app \in Apps, row.appRef \in AppRefs
  PROVE  [type |-> row.type, app |-> row.app, appRef |-> row.appRef, amount |-> row.amount,
          net |-> row.net, of |-> row.of] \in BookEntry
<1>1. /\ row.type \in PaymentTypes \cup {"none"} /\ row.net \in Nat
      /\ row.amount \in Amounts \cup {0} /\ row.of \in Ids \cup {None}
  BY DEF Row
<1>2. row.amount \in Nat
  BY <1>1, NetTyped
<1>. QED  BY <1>1, <1>2 DEF BookEntry

LEMMA EntryTyped ==
  ASSUME TypeOK
  PROVE  L!Entered = {p \in Ids : Stored(p)}
<1>1. ASSUME NEW p \in Ids, Stored(p) PROVE Terms(p) \in BookEntry
  BY <1>1, RowEntry DEF TypeOK, StoreTypeOK, Stored, Terms
<1>2. ASSUME NEW p \in Ids, ~Stored(p) PROVE Terms(p) \notin BookEntry
  <2>1. Terms(p).type \notin PaymentTypes
    BY <1>2 DEF Stored, Terms, PaymentTypes
  <2>. QED  BY <2>1 DEF BookEntry
<1>. QED  BY <1>1, <1>2 DEF L!Entered

\* A payment is not paid by a step that moves no transaction.
LEMMA PaidKept ==
  ASSUME Sound, [Next]_vars, UNCHANGED tx, NEW p \in Ids, Stored(p)
  PROVE  Paid(p)' <=> Paid(p)
<1>1. Paid(p) => Paid(p)'
  BY PaidStays
<1>2. ASSUME Paid(p)' PROVE Paid(p)
  <2>1. PICK r \in Ids : tx[r] = "completed" /\ Linked(p, r)'
    BY <1>2 DEF Paid
  <2>2. Asked(r) /\ asked'[r] = asked[r] /\ TermsKept(p)
    BY <2>1, SoundStep, AskedStable DEF Known
  <2>3. r \in PayReqs => pay'[r].row = pay[r].row
    <3>1. r \in PayReqs => VisitSteps(r) /\ VisitOK(r)
      BY SoundStep
    <3>. QED  BY <2>2, <3>1 DEF VisitSteps, VisitOK, PayUnasked
  <2>4. Linked(p, r)
    BY <2>1, <2>2, <2>3 DEF Linked, Served, TermsKept
  <2>. QED  BY <2>1, <2>4 DEF Paid
<1>. QED  BY <1>1, <1>2
-----------------------------------------------------------------------------
(* Each kind of step is one of the ledger.                                  *)

LedgerInv == Sound /\ DepositInv /\ RefundInv /\ Blank

\* The row that is inserted: its terms, and nothing of it was there before.
LEMMA NewEntry ==
  ASSUME LedgerInv, [Next]_vars, UNCHANGED gatewayVars, NEW q \in Ids,
         (q \in PayReqs /\ PayInserts(q)) \/ (q \in XferReqs /\ XferInserts(q))
  PROVE  /\ ~Stored(q) /\ Stored(q)' /\ payments'[q].status = "pending" /\ ~Paid(q)'
         /\ \A p \in Ids \ {q} : payments'[p] = payments[p]
         /\ Matching(payments'[q].app, payments'[q].appRef, payments'[q].type) = {}
<1>0. payments \in [Ids -> Row] /\ TypeOK
  BY DEF LedgerInv, Sound, KeysOK, TypeOK, StoreTypeOK
<1>1. /\ Stored(q)' /\ payments'[q].status = "pending"
      /\ \A p \in Ids \ {q} : payments'[p] = payments[p]
      /\ Matching(payments'[q].app, payments'[q].appRef, payments'[q].type) = {}
      /\ payments'[q].type = "deposit" <=> q \in PayReqs
  BY <1>0, OrchestratorAssumption
     DEF PayInserts, XferInserts, PayKeyFree, XferKeyFree, PayRow, XferRow, NewRow, InsertRow,
         TypeOfXfer, Stored
<1>2. ~Stored(q) /\ ~Asked(q)
  <2>1. CASE q \in PayReqs /\ PayInserts(q)
    BY <2>1, SoundStep DEF PayInserts, VisitOK, PayUnasked, PayEarly, LedgerInv, Sound, KeysOK,
       NotYetStored
  <2>2. CASE q \in XferReqs /\ XferInserts(q)
    BY <2>2, SoundStep DEF XferInserts, RequestOK, XferUnasked, XferEarly, LedgerInv, Sound, KeysOK,
       NotYetStored
  <2>. QED  BY <2>1, <2>2
<1>3. ASSUME NEW r \in Ids, tx'[r] = "completed", Linked(q, r)' PROVE FALSE
  <2>1. Asked(r) /\ r # q
    BY <1>2, <1>3, SoundStep DEF LedgerInv, Known, gatewayVars
  <2>2. r \in PayReqs /\ q \in PayReqs /\ pay'[r].row = q
    BY <1>1, <1>3, <2>1 DEF Linked, Served
  <2>3. pay[r].row = q
    <3>1. VisitSteps(r) /\ VisitOK(r)
      BY <2>2, SoundStep DEF LedgerInv
    <3>. QED  BY <2>1, <2>2, <3>1 DEF VisitSteps, VisitOK, PayUnasked
  <2>4. payments[q].type = "deposit"
    BY <2>2, <2>3, StoreAssumption DEF LedgerInv, DepositInv, HandOK, Holds
  <2>. QED  BY <1>2, <2>4 DEF Stored
<1>. QED  BY <1>1, <1>2, <1>3 DEF Paid

\* A refund is inserted on the snapshot of a paid deposit.
LEMMA RefundEntry ==
  ASSUME LedgerInv, [Next]_vars, NEW q \in Ids,
         (q \in PayReqs /\ PayInserts(q)) \/ (q \in XferReqs /\ XferInserts(q)),
         payments'[q].type = "refund", NEW d, d = payments'[q].of
  PROVE  /\ d \in Ids /\ Stored(d) /\ Paid(d) /\ payments[d].type = "deposit"
         /\ payments[d].app = payments'[q].app /\ payments[d].amount = payments'[q].amount
<1>0. payments \in [Ids -> Row]
  BY DEF LedgerInv, Sound, KeysOK, TypeOK, StoreTypeOK
<1>1. /\ q \in XferReqs /\ XferInserts(q) /\ payments'[q] = XferRow(q)
      /\ TypeOfXfer(q) = "refund"
  <2>1. q \in PayReqs /\ PayInserts(q) => payments'[q].type = "deposit"
    BY <1>0 DEF PayInserts, PayRow, NewRow, InsertRow
  <2>2. q \in XferReqs /\ XferInserts(q) => payments'[q] = XferRow(q)
    BY <1>0 DEF XferInserts, InsertRow
  <2>. QED  BY <2>1, <2>2 DEF XferRow, NewRow
<1>2. q \in RefundReqs
  BY <1>1 DEF TypeOfXfer, RefundReqs, XferReqs
<1>3. Snapshot(q)
  BY <1>1, <1>2 DEF LedgerInv, RefundInv, RefundOK, Armed, XferInserts
<1>. QED  BY <1>1, <1>3 DEF Snapshot, XferRow, NewRow, Stored

LEMMA EnterStep ==
  ASSUME LedgerInv, [Next]_vars, UNCHANGED gatewayVars, NEW q \in Ids,
         (q \in PayReqs /\ PayInserts(q)) \/ (q \in XferReqs /\ XferInserts(q))
  PROVE  L!Enter(q, Terms(q)')
<1>0. TypeOK /\ TypeOK'
  <2>1. TypeOK /\ [Next]_vars => TypeOK'
    BY NextTyped
  <2>. QED  BY <2>1 DEF LedgerInv, Sound, KeysOK
<1>1. /\ ~Stored(q) /\ Stored(q)' /\ payments'[q].status = "pending" /\ ~Paid(q)'
      /\ \A p \in Ids \ {q} : payments'[p] = payments[p]
      /\ Matching(payments'[q].app, payments'[q].appRef, payments'[q].type) = {}
  BY NewEntry
<1>2. Terms(q) = BookBlank /\ Terms(q)' \in BookEntry
  <2>1. payments'[q] \in Row /\ payments'[q].app \in Apps /\ payments'[q].appRef \in AppRefs
    BY <1>0, <1>1 DEF TypeOK, StoreTypeOK
  <2>2. payments'[q].type # "none"
    BY <1>1 DEF Stored
  <2>. QED  BY <1>1, <2>1, <2>2, RowEntry DEF LedgerInv, Blank, Terms
<1>3. L!Entered = {p \in Ids : Stored(p)}
  BY <1>0, EntryTyped
<1>4. \A p \in Ids : Stored(p) => Paid(p)' <=> Paid(p)
  BY PaidKept DEF LedgerInv, gatewayVars
<1>. DEFINE book == [p \in Ids |-> Terms(p)]
<1>5. \A x \in L!Entered : L!Key(book[x]) # L!Key(Terms(q)')
  BY <1>1, <1>3 DEF L!Key, Terms, Matching
<1>6. Terms(q)'.type = "refund" => L!Backing(Terms(q)', Terms(q)'.of)
  BY <1>3, RefundEntry DEF L!Backing, Terms
<1>7. book' = [book EXCEPT ![q] = Terms(q)']
  BY <1>1 DEF Terms
<1>8. {p \in Ids : Stored(p) /\ Paid(p)}' = {p \in Ids : Stored(p) /\ Paid(p)}
  BY <1>1, <1>4 DEF Stored
<1>9. {p \in Ids : Stored(p) /\ payments[p].status = "completed"}'
      = {p \in Ids : Stored(p) /\ payments[p].status = "completed"}
  BY <1>1 DEF Stored
<1>10. {x \in XferReqs : Asked(x)}' = {x \in XferReqs : Asked(x)}
  BY DEF Asked, gatewayVars
<1>11. book[q] = BookBlank
  BY <1>2
<1>. QED  BY <1>2, <1>5, <1>6, <1>7, <1>8, <1>9, <1>10, <1>11 DEF L!Enter

\* The ledger after a step that leaves the terms, the requests sent and the
\* transactions as they are.
LEMMA SameLedger ==
  ASSUME LedgerInv, [Next]_vars, AllTermsKept, UNCHANGED tx
  PROVE  /\ UNCHANGED [p \in Ids |-> Terms(p)]
         /\ UNCHANGED {p \in Ids : Stored(p) /\ Paid(p)}
<1>1. UNCHANGED [p \in Ids |-> Terms(p)]
  BY DEF AllTermsKept, TermsKept, Terms
<1>2. \A p \in Ids : Stored(p)' <=> Stored(p)
  BY DEF AllTermsKept, TermsKept, Stored
<1>3. \A p \in Ids : Stored(p) => (Paid(p)' <=> Paid(p))
  BY PaidKept DEF LedgerInv
<1>. QED  BY <1>1, <1>2, <1>3

LEMMA WriteStep ==
  ASSUME LedgerInv, [Next]_vars, Writes, AllTermsKept
  PROVE  [L!LNext]_(L!lvars)
<1>. DEFINE shown == {p \in Ids : Stored(p) /\ payments[p].status = "completed"}
<1>1. /\ UNCHANGED [p \in Ids |-> Terms(p)]
      /\ UNCHANGED {p \in Ids : Stored(p) /\ Paid(p)}
  BY SameLedger DEF Writes, gatewayVars
<1>2. UNCHANGED {x \in XferReqs : Asked(x)}
  BY DEF Writes, Asked, gatewayVars
<1>3. PICK x : \A p \in Ids \ {x} : payments'[p] = payments[p]
  BY DEF Writes, OneRow
<1>4. \A p \in Ids : Stored(p)' <=> Stored(p)
  BY DEF AllTermsKept, TermsKept, Stored
<1>5. CASE x \in Ids /\ Stored(x) /\ payments'[x].status = "completed"
  <2>1. shown' = shown \cup {x}
    BY <1>3, <1>4, <1>5
  <2>2. \E r \in Ids : tx'[r] = "completed" /\ Linked(x, r)'
    BY <1>4, <1>5, BackedStep DEF LedgerInv
  <2>3. Paid(x)
    BY <1>5, <2>2, PaidKept DEF Writes, gatewayVars, LedgerInv, Paid
  <2>4. L!Mark(x)
    BY <1>1, <1>2, <1>5, <2>1, <2>3 DEF L!Mark
  <2>. QED  BY <1>5, <2>4 DEF L!LNext
<1>6. CASE x \in Ids /\ ~(Stored(x) /\ payments'[x].status = "completed")
  <2>1. shown' = shown \ {x}
    BY <1>3, <1>4, <1>6
  <2>2. L!Unmark(x)
    BY <1>1, <1>2, <2>1 DEF L!Unmark
  <2>. QED  BY <1>6, <2>2 DEF L!LNext
<1>7. CASE x \notin Ids
  <2>1. shown' = shown
    BY <1>3, <1>4, <1>7
  <2>. QED  BY <1>1, <1>2, <2>1 DEF L!lvars
<1>. QED  BY <1>5, <1>6, <1>7

LEMMA AskStep ==
  ASSUME LedgerInv, [Next]_vars, Asks
  PROVE  [L!LNext]_(L!lvars)
<1>. DEFINE ordered == {x \in XferReqs : Asked(x)}
<1>0. asked \in [Ids -> Order] /\ XferReqs \subseteq Ids /\ PayReqs \cap XferReqs = {}
  BY TransfersAssumption, OrchestratorAssumption
     DEF LedgerInv, Sound, KeysOK, TypeOK, DiarraTypeOK
<1>1. /\ UNCHANGED [p \in Ids |-> Terms(p)]
      /\ UNCHANGED {p \in Ids : Stored(p) /\ Paid(p)}
  BY SameLedger, SameTerms DEF Asks
<1>2. UNCHANGED {p \in Ids : Stored(p) /\ payments[p].status = "completed"}
  BY DEF Asks, Stored
<1>3. PICK x \in PayReqs \cup XferReqs : \A r \in Ids \ {x} : asked'[r] = asked[r]
  BY <1>0 DEF Asks
<1>4. CASE x \in PayReqs \/ asked'[x] = asked[x]
  <2>1. ordered' = ordered
    BY <1>0, <1>3, <1>4 DEF Asked
  <2>. QED  BY <1>1, <1>2, <2>1 DEF L!lvars
<1>5. CASE x \in XferReqs /\ asked'[x] # asked[x]
  <2>1. /\ OwnRow(x) /\ ~Asked(x) /\ asked'[x].type = TypeOfXfer(x)
    BY <1>5, SoundStep DEF RequestSteps, RequestOK, XferUnasked, LedgerInv, Sound, AskedOwns
  <2>2. Stored(x) /\ payments[x].type # "deposit" /\ Asked(x)'
    BY <2>1 DEF OwnRow, TypeOfXfer, Stored, Asked
  <2>3. ordered' = ordered \cup {x}
    BY <1>0, <1>3, <1>5, <2>2 DEF Asked
  <2>4. x \in L!Entered \ ordered
    BY <1>0, <1>5, <2>1, <2>2, EntryTyped DEF LedgerInv, Sound, KeysOK
  <2>5. [p \in Ids |-> Terms(p)][x].type # "deposit"
    BY <1>0, <1>5, <2>2 DEF Terms
  <2>6. L!Order(x)
    BY <1>1, <1>2, <2>3, <2>4, <2>5 DEF L!Order
  <2>. QED  BY <1>0, <1>5, <2>6 DEF L!LNext
<1>. QED  BY <1>4, <1>5

LEMMA MoveStep ==
  ASSUME LedgerInv, [Next]_vars, Moves
  PROVE  [L!LNext]_(L!lvars)
<1>. DEFINE settled == {p \in Ids : Stored(p) /\ Paid(p)}
<1>1. /\ UNCHANGED [p \in Ids |-> Terms(p)]
      /\ UNCHANGED {p \in Ids : Stored(p) /\ payments[p].status = "completed"}
      /\ UNCHANGED {x \in XferReqs : Asked(x)}
      /\ \A p \in Ids : Stored(p)' <=> Stored(p)
      /\ \A p, r \in Ids : Linked(p, r)' <=> Linked(p, r)
  BY DEF Moves, Terms, Stored, Asked, Linked, Served
<1>2. PICK x \in Ids : /\ tx[x] # "completed"
                       /\ \A r \in Ids \ {x} : tx'[r] = tx[r]
  BY DiarraAssumption
     DEF Moves, Accept, Settle, FinalStatuses, LedgerInv, Sound, KeysOK, TypeOK, DiarraTypeOK
<1>3. \A p \in Ids : Paid(p)' <=> Paid(p) \/ (tx'[x] = "completed" /\ Linked(p, x))
  BY <1>1, <1>2 DEF Paid
<1>4. CASE \E p \in Ids : Stored(p) /\ ~Paid(p) /\ tx'[x] = "completed" /\ Linked(p, x)
  <2>1. PICK p \in Ids : Stored(p) /\ ~Paid(p) /\ tx'[x] = "completed" /\ Linked(p, x)
    BY <1>4
  <2>2. \A d \in Ids : Stored(d) /\ Linked(d, x) => d = p
    BY <2>1, ServesOne DEF LedgerInv
  <2>3. settled' = settled \cup {p}
    BY <1>1, <1>3, <2>1, <2>2
  <2>4. p \in L!Entered \ settled
    BY <2>1, EntryTyped DEF LedgerInv, Sound, KeysOK
  <2>5. payments[p].type # "deposit" => p \in XferReqs /\ Asked(p)
    <3>1. RefOK(p)
      BY <2>1, SoundStep DEF LedgerInv
    <3>. QED  BY <2>1, <3>1 DEF RefOK, Linked, Served, Asked, Stored
  <2>6. [q \in Ids |-> Terms(q)][p].type # "deposit" => p \in {q \in XferReqs : Asked(q)}
    BY <2>5 DEF Terms
  <2>7. L!Settle(p)
    BY <1>1, <2>3, <2>4, <2>6 DEF L!Settle
  <2>. QED  BY <2>7 DEF L!LNext
<1>5. CASE ~\E p \in Ids : Stored(p) /\ ~Paid(p) /\ tx'[x] = "completed" /\ Linked(p, x)
  <2>1. settled' = settled
    BY <1>1, <1>3, <1>5
  <2>. QED  BY <1>1, <2>1 DEF L!lvars
<1>. QED  BY <1>4, <1>5

LEMMA LedgerStep ==
  ASSUME LedgerInv, [Next]_vars
  PROVE  [L!LNext]_(L!lvars)
<1>1. ASSUME Writes, NEW q \in Ids,
             (q \in PayReqs /\ PayInserts(q)) \/ (q \in XferReqs /\ XferInserts(q))
      PROVE  L!LNext
  <2>1. L!Enter(q, Terms(q)')
    BY <1>1, EnterStep DEF Writes
  <2>2. [p \in Ids |-> Terms(p)]'[q] = Terms(q)'
    BY DEF Terms
  <2>. QED  BY <2>1, <2>2 DEF L!LNext
<1>2. CASE Writes /\ Insertion
  BY <1>1, <1>2, DepositsAssumption, TransfersAssumption DEF Insertion
<1>. QED  BY <1>2, StepKinds, WriteStep, AskStep, MoveStep DEF LedgerInv, Sound, KeysOK

LEMMA LedgerHolds == Spec => []LedgerInv
<1>1. Init => Blank
  BY DEF Init, StoreInit, NoRow, Blank, BookBlank, Terms, Stored
<1>2. LedgerInv /\ [Next]_vars => Blank'
  BY BlankStep DEF LedgerInv, Sound, KeysOK
<1>3. Sound /\ DepositInv /\ RefundInv /\ Blank <=> LedgerInv
  BY DEF LedgerInv
<1>. QED  BY <1>1, <1>2, <1>3, DepositsHold, RefundsHold, PTL DEF Spec

\* The orchestrator keeps the ledger: whatever the requests, their order and
\* what fails, each step of the handlers, of the callbacks and of DIARRA enters
\* a payment, orders a transfer, settles or marks a payment, or none of these.
THEOREM LedgerImplemented == Spec => ImplementsLedger
<1>1. Init => L!LInit
  BY TransfersAssumption
     DEF Init, StoreInit, DiarraInit, NoRow, NoOrder, BookBlank, Terms, Stored, Asked, L!LInit
<1>2. LedgerInv /\ [Next]_vars => [L!LNext]_(L!lvars)
  BY LedgerStep
<1>. QED  BY <1>1, <1>2, LedgerHolds, PTL DEF Spec, ImplementsLedger, L!LSpec
-----------------------------------------------------------------------------
(* What the ledger promises, proved of it, holds of the orchestrator.       *)

LEMMA BookStep ==
  ASSUME L!BookSound, [L!LNext]_(L!lvars)
  PROVE  L!BookSound'
<1>. USE DEF L!BookSound, L!Entered, L!Key, L!Backing
<1>0. BookBlank \notin BookEntry
  BY DEF BookBlank, BookEntry, PaymentTypes
<1>1. ASSUME NEW p \in Ids, NEW e, L!Enter(p, e) PROVE L!BookSound'
  <2>. DEFINE book    == [x \in Ids |-> Terms(x)]
              ordered == {x \in XferReqs : Asked(x)}
              settled == {x \in Ids : Stored(x) /\ Paid(x)}
              shown   == {x \in Ids : Stored(x) /\ payments[x].status = "completed"}
  <2>1. /\ book' = [book EXCEPT ![p] = e] /\ book[p] \notin BookEntry /\ e \in BookEntry
        /\ \A x \in L!Entered : L!Key(book[x]) # L!Key(e)
        /\ e.type = "refund" => L!Backing(e, e.of)
        /\ UNCHANGED <<ordered, settled, shown>>
    BY <1>0, <1>1 DEF L!Enter
  <2>2. /\ L!Entered' = L!Entered \cup {p} /\ p \notin L!Entered
        /\ book'[p] = e /\ \A x \in L!Entered : book'[x] = book[x]
    BY <2>1
  <2>3. \A x, y \in L!Entered' : L!Key(book[x])' = L!Key(book[y])' => x = y
    BY <2>1, <2>2
  <2>4. shown' \subseteq settled' /\ settled' \subseteq L!Entered'
    BY <2>1, <2>2
  <2>5. \A x \in settled' : book'[x].type # "deposit" => x \in ordered'
    BY <2>1, <2>2
  <2>6. \A x \in L!Entered' : book'[x].type = "refund" => L!Backing(book[x], book[x].of)'
    <3>1. ASSUME NEW d \in L!Entered, d \in settled
          PROVE  d \in L!Entered' /\ d \in settled' /\ book'[d] = book[d]
      BY <2>1, <2>2, <3>1
    <3>2. ASSUME e.type = "refund" PROVE L!Backing(book[p], book[p].of)'
      BY <2>1, <2>2, <3>1, <3>2
    <3>3. ASSUME NEW x \in L!Entered, book[x].type = "refund"
          PROVE  L!Backing(book[x], book[x].of)'
      <4>1. PICK d \in L!Entered : /\ d = book[x].of /\ d \in settled
                                   /\ book[d].type = "deposit" /\ book[d].app = book[x].app
                                   /\ book[d].amount = book[x].amount
        BY <3>3
      <4>2. book'[x] = book[x] /\ book'[d] = book[d] /\ d \in L!Entered' /\ d \in settled'
        BY <2>2, <3>1, <4>1
      <4>. QED  BY <4>1, <4>2
    <3>4. ASSUME NEW x \in L!Entered', book'[x].type = "refund"
          PROVE  L!Backing(book[x], book[x].of)'
      <4>1. CASE x = p
        BY <2>2, <3>2, <3>4, <4>1
      <4>2. CASE x \in L!Entered
        BY <2>2, <3>3, <3>4, <4>2
      <4>. QED  BY <2>2, <4>1, <4>2
    <3>. QED  BY <3>4
  <2>. QED  BY <2>3, <2>4, <2>5, <2>6
<1>2. ASSUME NEW p \in Ids, L!Order(p) PROVE L!BookSound'
  BY <1>2 DEF L!Order
<1>3. ASSUME NEW p \in Ids, L!Settle(p) PROVE L!BookSound'
  BY <1>3 DEF L!Settle
<1>4. ASSUME NEW p \in Ids, L!Mark(p) \/ L!Unmark(p) PROVE L!BookSound'
  BY <1>4 DEF L!Mark, L!Unmark
<1>5. CASE UNCHANGED L!lvars
  BY <1>5 DEF L!lvars
<1>. QED  BY <1>1, <1>2, <1>3, <1>4, <1>5 DEF L!LNext

\* The book is sound at any time: one payment per key, completed only if paid,
\* transfers paid only if ordered, refunds against paid deposits.
THEOREM BookIsSoundHolds == Spec => []BookIsSound
<1>1. Init => L!BookSound
  BY DEF Init, StoreInit, NoRow, Stored, Terms, L!BookSound, L!Entered, BookEntry, PaymentTypes
<1>2. L!BookSound /\ [L!LNext]_(L!lvars) => L!BookSound'
  BY BookStep
<1>. QED  BY <1>1, <1>2, LedgerImplemented, PTL DEF Spec, ImplementsLedger, L!LSpec, BookIsSound
-----------------------------------------------------------------------------
(* The cap.  It is read in one step and relied on in the next; a refund has *)
(* none of its own, but gives back no more than its deposit.                *)

Capped(a, amount) == a \notin LevelApps => amount <= MaxAmountFor("none")

CapInv ==
  /\ \A a \in Apps \ LevelApps : kyc[a] = "none"
  /\ \A q \in PayReqs : pay[q].pc = "insert" => Capped(pay[q].app, pay[q].amount)
  /\ \A q \in Payouts : /\ xfer[q].pc # "deposit"
                        /\ xfer[q].pc = "insert" => Capped(xfer[q].app, xfer[q].amount)
  /\ \A p \in Ids \ AdminPayouts : Stored(p) => Capped(payments[p].app, payments[p].amount)

\* A handler gets to its insertion by the cap.
LEMMA PaysCapped ==
  ASSUME TypeOK, [Next]_vars, NEW q \in PayReqs, pay'[q].pc = "insert"
  PROVE  /\ pay'[q].app = pay[q].app /\ pay'[q].amount = pay[q].amount
         /\ pay[q].pc = "insert" \/ (/\ pay[q].pc = "cap" /\ pay[q].app \in Apps
                                     /\ pay[q].amount <= MaxAmountFor(kyc[pay[q].app]))
<1>0. pay \in [PayReqs -> Visit] /\ (pay[q].pc # "idle" => pay[q].app \in Apps)
  BY DEF TypeOK, DepositsTypeOK
<1>. DEFINE Goal == /\ pay'[q].app = pay[q].app /\ pay'[q].amount = pay[q].amount
                    /\ pay[q].pc = "insert" \/ (/\ pay[q].pc = "cap" /\ pay[q].app \in Apps
                                     /\ pay[q].amount <= MaxAmountFor(kyc[pay[q].app]))
<1>. USE DEF Visit, PayGoes
<1>1. ASSUME NEW r \in PayReqs, NEW a \in Apps, NEW ref \in AppRefs, NEW amount \in Amounts,
             PayArrive(r, a, ref, amount) \/ TestPayArrive(r, a, ref, amount)
      PROVE  Goal
  BY <1>0, <1>1 DEF PayArrive, TestPayArrive
<1>2. ASSUME NEW r \in PayReqs, PayCap(r) PROVE Goal
  BY <1>0, <1>2 DEF PayCap
<1>3. ASSUME NEW r \in PayReqs, PayFound(r) \/ PayInsert(r) \/ PayReselect(r) PROVE Goal
  <2>1. CASE PayFound(r)
    <3>1. PICK p \in Matching(pay[r].app, pay[r].appRef, "deposit") :
            pay' = [pay EXCEPT ![r].row = p, ![r].amount = payments[p].amount,
                               ![r].pc = IF payments[p].status \in OpenStatuses
                                              /\ linkLikelyExpired(p)
                                           THEN "recall" ELSE "existing"]
      BY <2>1, Zenon DEF PayFound
    <3>. QED  BY <1>0, <3>1
  <2>2. CASE PayInsert(r)
    <3>1. CASE pay' = [pay EXCEPT ![r].pc = "call", ![r].row = r]
      BY <1>0, <3>1
    <3>2. CASE pay' = [pay EXCEPT ![r].pc = "reselect"]
      BY <1>0, <3>2
    <3>3. CASE pay' = [pay EXCEPT ![r].pc = "error"]
      BY <1>0, <3>3
    <3>. QED  BY <2>2, <3>1, <3>2, <3>3 DEF PayInsert
  <2>3. CASE PayReselect(r)
    <3>1. CASE \E p \in Matching(pay[r].app, pay[r].appRef, "deposit") :
                 pay' = [pay EXCEPT ![r].pc = "call", ![r].row = p]
      BY <1>0, <3>1
    <3>2. CASE pay' = [pay EXCEPT ![r].pc = "error"]
      BY <1>0, <3>2
    <3>. QED  BY <2>3, <3>1, <3>2 DEF PayReselect
  <2>. QED  BY <1>3, <2>1, <2>2, <2>3
<1>4. ASSUME NEW r \in PayReqs,
             \/ PayNotFound(r) \/ PayCall(r) \/ PayReply(r) \/ PayCallFails(r) \/ PayLink(r)
             \/ PayFail(r) \/ RefreshCall(r) \/ RefreshReply(r) \/ RefreshCallFails(r)
             \/ RefreshLink(r) \/ PayDies(r)
      PROVE  Goal
  <2>1. PICK pc : pay' = [pay EXCEPT ![r].pc = pc] /\ pc # "insert"
    BY <1>4 DEF PayNotFound, PayCall, PayReply, PayCallFails, PayLink, PayFail, RefreshCall,
       RefreshReply, RefreshCallFails, RefreshLink, PayDies
  <2>. QED  BY <1>0, <2>1
<1>5. CASE UNCHANGED pay
  BY <1>5
<1>. QED  BY <1>1, <1>2, <1>3, <1>4, <1>5 DEF Next, vars, DepositsNext, PayStep, Expire

LEMMA PayoutsCapped ==
  ASSUME TypeOK, [Next]_vars, NEW q \in Payouts, xfer[q].pc # "deposit"
  PROVE  /\ xfer'[q].pc # "deposit"
         /\ xfer'[q].pc = "insert" =>
              /\ xfer'[q].app = xfer[q].app /\ xfer'[q].amount = xfer[q].amount
              /\ \/ xfer[q].pc = "insert"
                 \/ /\ xfer[q].pc = "cap" /\ xfer[q].app \in Apps
                    /\ xfer[q].amount <= MaxAmountFor(kyc[xfer[q].app])
<1>0. /\ xfer \in [XferReqs -> Transfer] /\ q \in XferReqs
      /\ q \notin AdminPayouts \cup Refunds \cup AdminRefunds
      /\ xfer[q].pc # "idle" => xfer[q].app \in Apps
  BY TransfersAssumption DEF TypeOK, TransfersTypeOK, XferReqs
<1>. DEFINE Goal == /\ xfer'[q].pc # "deposit"
                    /\ xfer'[q].pc = "insert" =>
                         /\ xfer'[q].app = xfer[q].app /\ xfer'[q].amount = xfer[q].amount
                         /\ \/ xfer[q].pc = "insert"
                            \/ /\ xfer[q].pc = "cap" /\ xfer[q].app \in Apps
                               /\ xfer[q].amount <= MaxAmountFor(kyc[xfer[q].app])
<1>. USE DEF Transfer, XferGoes
<1>1. CASE UNCHANGED xfer
  BY <1>1
<1>2. ASSUME NEW r \in XferReqs, NEW new, xfer' = [xfer EXCEPT ![r] = new], r # q PROVE Goal
  BY <1>0, <1>2
<1>3. ASSUME NEW a \in Apps, NEW ref \in AppRefs, NEW amount \in Amounts,
             PayoutArrive(q, a, ref, amount)
      PROVE  Goal
  BY <1>0, <1>3 DEF PayoutArrive, NoTransfer
<1>4. ASSUME NEW r \in XferReqs,
             \/ \E a \in Apps, ref \in AppRefs, amount \in Amounts :
                  PayoutArrive(r, a, ref, amount) \/ AdminPayoutArrive(r, a, ref, amount)
             \/ \E a \in Apps, dref, ref \in AppRefs : RefundArrive(r, a, dref, ref)
             \/ \E p \in Ids : AdminRefundArrive(r, p)
             \/ RefundReadsDeposit(r)
      PROVE  Goal
  <2>1. \E new : xfer' = [xfer EXCEPT ![r] = new]
    BY <1>4, Zenon DEF PayoutArrive, AdminPayoutArrive, RefundArrive, AdminRefundArrive,
       RefundReadsDeposit
  <2>2. CASE r = q
    BY <1>0, <1>3, <1>4, <2>2 DEF AdminPayoutArrive, RefundArrive, AdminRefundArrive,
       RefundReadsDeposit
  <2>. QED  BY <1>2, <2>1, <2>2
<1>5. ASSUME NEW r \in XferReqs, PayoutCap(r) PROVE Goal
  BY <1>0, <1>5 DEF PayoutCap
<1>6. ASSUME NEW r \in XferReqs, XferNotFound(r) PROVE Goal
  BY <1>0, <1>6 DEF XferNotFound
<1>7. ASSUME NEW r \in XferReqs,
             \/ XferFound(r) \/ XferInsert(r) \/ XferCall(r) \/ XferReply(r)
             \/ XferCallFails(r) \/ XferNote(r) \/ XferFail(r) \/ XferDies(r)
      PROVE  Goal
  BY <1>0, <1>7 DEF XferFound, XferInsert, XferCall, XferReply, XferCallFails, XferNote, XferFail,
     XferDies, XferEnds
<1>. QED  BY <1>1, <1>4, <1>5, <1>6, <1>7 DEF Next, vars, TransfersNext, XferStep

LEMMA CapStep ==
  ASSUME LedgerInv, CapInv, [Next]_vars
  PROVE  CapInv'
<1>0. /\ TypeOK /\ payments \in [Ids -> Row] /\ kyc \in [Apps -> KYCLevels]
      /\ PayReqs \subseteq Ids \ AdminPayouts /\ Payouts \subseteq Ids \ AdminPayouts
  BY DepositsAssumption, TransfersAssumption, OrchestratorAssumption
     DEF LedgerInv, Sound, KeysOK, TypeOK, StoreTypeOK, RegistryTypeOK, XferReqs
<1>1. \A a \in Apps \ LevelApps : kyc'[a] = "none"
  <2>1. UNCHANGED kyc \/ \E a \in LevelApps, level \in KYCLevels : SetAppKYC(a, level)
    BY DEF Next, vars, registryVars, RegistryNext, SetAppActive
  <2>. QED  BY <1>0, <2>1 DEF CapInv, SetAppKYC
<1>2. ASSUME NEW q \in PayReqs, pay'[q].pc = "insert" PROVE Capped(pay'[q].app, pay'[q].amount)
  BY <1>0, <1>2, PaysCapped DEF CapInv, Capped
<1>3. ASSUME NEW q \in Payouts
      PROVE  /\ xfer'[q].pc # "deposit"
             /\ xfer'[q].pc = "insert" => Capped(xfer'[q].app, xfer'[q].amount)
  BY <1>0, <1>3, PayoutsCapped DEF CapInv, Capped
<1>4. ASSUME NEW p \in Ids \ AdminPayouts, Stored(p)'
      PROVE  Capped(payments'[p].app, payments'[p].amount)
  <2>1. CASE AllTermsKept
    BY <1>4, <2>1 DEF CapInv, AllTermsKept, TermsKept, Stored
  <2>2. ASSUME NEW q \in PayReqs, PayInserts(q)
        PROVE  Capped(payments'[p].app, payments'[p].amount)
    BY <1>0, <1>4, <2>2 DEF PayInserts, InsertRow, PayRow, NewRow, CapInv, Stored
  <2>3. ASSUME NEW q \in XferReqs, XferInserts(q)
        PROVE  Capped(payments'[p].app, payments'[p].amount)
    <3>1. CASE p # q
      BY <1>0, <1>4, <2>3, <3>1 DEF XferInserts, InsertRow, CapInv, Stored
    <3>2. /\ payments'[q].app = xfer[q].app /\ payments'[q].amount = xfer[q].amount
      BY <1>0, <2>3, TransfersAssumption DEF XferInserts, InsertRow, XferRow, NewRow
    <3>3. CASE p = q /\ q \in Payouts
      BY <1>0, <2>3, <3>2, <3>3 DEF XferInserts, CapInv
    <3>4. CASE p = q /\ q \in RefundReqs
      <4>1. PICK d \in Ids : /\ payments[d].type = "deposit" /\ payments[d].app = xfer[q].app
                             /\ payments[d].amount = xfer[q].amount
        BY <2>3, <3>4 DEF LedgerInv, RefundInv, RefundOK, Armed, XferInserts, Snapshot
      <4>2. Stored(d) /\ d \notin AdminPayouts
        <5>1. RefOK(d)
          BY <4>1, SoundStep DEF LedgerInv, Stored
        <5>. QED  BY <1>0, <4>1, <5>1 DEF RefOK, Stored
      <4>. QED  BY <3>2, <3>4, <4>1, <4>2 DEF CapInv
    <3>. QED  BY <1>4, <3>1, <3>3, <3>4 DEF XferReqs, RefundReqs
  <2>. QED  BY <1>0, <2>1, <2>2, <2>3, StepKinds DEF Insertion
<1>. QED  BY <1>1, <1>2, <1>3, <1>4 DEF CapInv

\* No payment of an application whose level was never raised is above the cap,
\* the payouts of the console apart, though the level is read in one step and
\* the row inserted in another, and though Refund checks no cap.
THEOREM CapRespectedHolds == Spec => []CapRespected
<1>1. Init => CapInv
  BY TransfersAssumption
     DEF Init, RegistryInit, StoreInit, DepositsInit, TransfersInit, NoRow, NoTransfer, CapInv,
         Stored, XferReqs
<1>2. LedgerInv /\ CapInv /\ [Next]_vars => CapInv'
  BY CapStep
<1>3. CapInv => CapRespected
  BY DEF CapInv, Capped, CapRespected
<1>. QED  BY <1>1, <1>2, <1>3, LedgerHolds, PTL DEF Spec
-----------------------------------------------------------------------------
(* The dashboard reads, so the orchestrator under it does what it did.  It *)
(* shows successes counted some steps before: the payments counted then    *)
(* are among those paid now, of which there are finitely many, because a   *)
(* step inserts one row at most.                                           *)

LEMMA DashboardStepIsNext == [SNext]_svars => [Next]_vars
BY DEF SNext, svars

\* Four SELECTs at a time: whatever is proved of the orchestrator, the ledger
\* it keeps included, stands while dashboards are being read.
THEOREM DashboardReadsOnly == SSpec => Spec /\ ImplementsLedger
<1>1. SInit => Init
  BY DEF SInit
<1>2. SSpec => Spec
  BY <1>1, DashboardStepIsNext, PTL DEF SSpec, Spec
<1>. QED  BY <1>2, LedgerImplemented, PTL

FewRows == IsFiniteSet({p \in Ids : Stored(p)})

LEMMA FewRowsStep ==
  ASSUME TypeOK, [Next]_vars, FewRows
  PROVE  FewRows'
<1>1. OneRow
  BY StepKinds DEF Writes, Asks, Moves, OneRow
<1>2. PICK x : \A p \in Ids \ {x} : payments'[p] = payments[p]
  BY <1>1 DEF OneRow
<1>. DEFINE S == {p \in Ids : Stored(p)}
            T == {p \in Ids : Stored(p)'}
<1>3. T \in SUBSET (S \cup {x})
  BY <1>2 DEF Stored
<1>. HIDE DEF S, T
<1>4. IsFiniteSet(S \cup {x})
  BY FS_AddElement DEF FewRows, S
<1>5. IsFiniteSet(T)
  BY <1>3, <1>4, FS_Subset
<1>. QED  BY <1>5 DEF FewRows, T

PaidOf(a) == {p \in Ids : payments[p].app = a /\ Paid(p)}

LEMMA PaidIsStored ==
  ASSUME Known, NEW p \in Ids, Paid(p)
  PROVE  Stored(p)
<1>1. PICK r \in Ids : tx[r] = "completed" /\ Linked(p, r)
  BY DEF Paid
<1>2. asked[r].type # "none"
  BY <1>1 DEF Known, Asked
<1>. QED  BY <1>1, <1>2 DEF Linked, Stored

LEMMA FewPaid ==
  ASSUME Known, FewRows, NEW a
  PROVE  /\ IsFiniteSet(PaidOf(a)) /\ Cardinality(PaidOf(a)) \in Nat
         /\ \A S \in SUBSET PaidOf(a) : Cardinality(S) \in Nat
                                        /\ Cardinality(S) <= Cardinality(PaidOf(a))
<1>1. PaidOf(a) \in SUBSET {p \in Ids : Stored(p)}
  BY PaidIsStored DEF PaidOf
<1>2. IsFiniteSet(PaidOf(a))
  BY <1>1, FS_Subset DEF FewRows
<1>3. ASSUME NEW S \in SUBSET PaidOf(a)
      PROVE  Cardinality(S) \in Nat /\ Cardinality(S) <= Cardinality(PaidOf(a))
  BY <1>2, FS_Subset, FS_CardinalityType
<1>. QED  BY <1>2, <1>3, FS_CardinalityType

\* The paid payments of an application are never fewer than they were.
LEMMA PaidOfGrows ==
  ASSUME Sound, [Next]_vars, NEW a
  PROVE  PaidOf(a) \in SUBSET PaidOf(a)'
<1>. SUFFICES ASSUME NEW p \in Ids, payments[p].app = a, Paid(p)
              PROVE  payments'[p].app = a /\ Paid(p)'
  BY DEF PaidOf
<1>1. Stored(p)
  BY PaidIsStored DEF Sound, CompletionInv
<1>2. TermsKept(p)
  BY <1>1, SoundStep
<1>. QED  BY <1>1, <1>2, PaidStays DEF TermsKept

LEMMA FiguresCompleted ==
  ASSUME NEW ps
  PROVE  Figures(ps).completed = Cardinality({p \in ps : payments[p].status = "completed"})
BY DEF Figures

LEMMA LineOfApp ==
  ASSUME NEW a \in Apps
  PROVE  Grouped(Apps, [p \in Ids |-> payments[p].app])[a].completed
           = Cardinality({p \in Ids : /\ Stored(p) /\ payments[p].app = a
                                      /\ payments[p].status = "completed"})
<1>. DEFINE S == {p \in Ids : Stored(p) /\ payments[p].app = a}
<1>1. {p \in Ids : Stored(p) /\ [x \in Ids |-> payments[x].app][p] = a} = S
  OBVIOUS
<1>2. Grouped(Apps, [p \in Ids |-> payments[p].app])[a] = Figures(S)
  BY <1>1 DEF Grouped
<1>3. {p \in S : payments[p].status = "completed"}
        = {p \in Ids : Stored(p) /\ payments[p].app = a /\ payments[p].status = "completed"}
  OBVIOUS
<1>. QED  BY <1>2, <1>3, FiguresCompleted

LEMMA SamePaidOf ==
  ASSUME UNCHANGED vars, NEW a
  PROVE  PaidOf(a)' = PaidOf(a)
BY DEF vars, gatewayVars, PaidOf, Paid, Linked, Served

FinitePaid == \A a \in Apps : IsFiniteSet(PaidOf(a))

CountInv ==
  dash.pc = "by_operator" =>
    \A a \in Apps : /\ dash.lines[a].completed \in Nat
                    /\ dash.lines[a].completed <= Cardinality(PaidOf(a))

LEMMA CountStep ==
  ASSUME Sound, FewRows, FinitePaid, FinitePaid', CountInv, [SNext]_svars
  PROVE  CountInv'
<1>1. CASE Next /\ UNCHANGED dash
  <2>. SUFFICES ASSUME dash.pc = "by_operator", NEW a \in Apps
                PROVE  dash.lines[a].completed <= Cardinality(PaidOf(a)')
    BY <1>1 DEF CountInv, PaidOf
  <2>1. PaidOf(a) \in SUBSET PaidOf(a)'
    BY <1>1, PaidOfGrows
  <2>2. Cardinality(PaidOf(a)') \in Nat /\ Cardinality(PaidOf(a)) \in Nat
        /\ Cardinality(PaidOf(a)) <= Cardinality(PaidOf(a)')
    <3>1. IsFiniteSet(PaidOf(a)) /\ IsFiniteSet(PaidOf(a)')
      BY DEF FinitePaid
    <3>. QED  BY <2>1, <3>1, FS_Subset, FS_CardinalityType
  <2>. QED  BY <2>2 DEF CountInv
<1>2. CASE ReadByApp /\ UNCHANGED vars
  <2>. SUFFICES ASSUME NEW a \in Apps
                PROVE  LET n == dash'.lines[a].completed
                       IN  n \in Nat /\ n <= Cardinality(PaidOf(a)')
    BY DEF CountInv
  <2>1. PaidOf(a)' = PaidOf(a)
    BY <1>2, SamePaidOf
  <2>. DEFINE S == {p \in Ids : /\ Stored(p) /\ payments[p].app = a
                                /\ payments[p].status = "completed"}
  <2>2. dash'.lines[a].completed = Cardinality(S)
    BY <1>2, LineOfApp DEF ReadByApp, Query
  <2>3. S \in SUBSET PaidOf(a)
    BY DEF Sound, CompletionInv, Backed, Paid, PaidOf
  <2>. HIDE DEF S
  <2>. QED  BY <2>1, <2>2, <2>3, FewPaid DEF Sound, CompletionInv
<1>3. CASE AskDashboard \/ ReadTotals \/ ReadByType \/ ReadByOperator \/ DashboardFails
  <2>1. dash'.pc # "by_operator"
    BY <1>3 DEF AskDashboard, ReadTotals, ReadByType, ReadByOperator, DashboardFails, Query
  <2>. QED  BY <2>1 DEF CountInv
<1>4. CASE UNCHANGED svars
  <2>1. UNCHANGED vars /\ UNCHANGED dash
    BY <1>4 DEF svars
  <2>2. \A a \in Apps : PaidOf(a)' = PaidOf(a)
    BY <2>1, SamePaidOf
  <2>. QED  BY <2>1, <2>2 DEF CountInv
<1>. QED  BY <1>1, <1>2, <1>3, <1>4 DEF SNext, DashboardNext

\* The successes the dashboard counts for an application are at most the
\* payments of that application whose money moved, however many statuses
\* changed between the query and the page (Stats, the four SELECTs).
THEOREM CountedCompletedIsPaidHolds == SSpec => []CountedCompletedIsPaid
<1>1. SInit => FewRows /\ CountInv
  <2>. SUFFICES ASSUME SInit PROVE FewRows /\ CountInv
    OBVIOUS
  <2>1. {p \in Ids : Stored(p)} = {}
    BY DEF SInit, Init, StoreInit, NoRow, Stored
  <2>2. dash.pc = "idle"
    BY DEF SInit, DashboardInit
  <2>. QED  BY <2>1, <2>2, FS_EmptySet DEF FewRows, CountInv
<1>2. Sound /\ FewRows /\ [SNext]_svars => FewRows'
  BY DashboardStepIsNext, FewRowsStep DEF Sound, KeysOK
<1>3. Sound /\ FewRows /\ FinitePaid /\ FinitePaid' /\ CountInv /\ [SNext]_svars => CountInv'
  BY CountStep
<1>4. Sound /\ FewRows => FinitePaid
  BY FewPaid DEF FinitePaid, Sound, CompletionInv
<1>5. SSpec => []Sound
  BY DashboardReadsOnly, SoundHolds, PTL
<1>6. CountInv => CountedCompletedIsPaid
  BY DEF CountInv, CountedCompletedIsPaid, PaidOf
<1>. QED  BY <1>1, <1>2, <1>3, <1>4, <1>5, <1>6, PTL DEF SSpec
-----------------------------------------------------------------------------
(* The figures of one answer.  Each is a sum over the rows stored when its *)
(* query ran, whatever the groups; and what is summed of a row is frozen.  *)

Fields == {"count", "amount", "fee"}

\* What a row adds to a figure.
Adds(field) ==
  [p \in Ids |-> CASE field = "count" -> 1
                   [] field = "amount" -> payments[p].amount
                   [] field = "fee" -> payments[p].amount - payments[p].net]

StoredRows == {p \in Ids : Stored(p)}

SumNow(field) == SumFunctionOnSet(Adds(field), StoredRows)

\* A commission is not negative.
NetWithin == \A p \in Ids : payments[p].net <= payments[p].amount

LEMMA NetWithinStep ==
  ASSUME TypeOK, NetWithin, [Next]_vars
  PROVE  NetWithin'
<1>0. payments \in [Ids -> Row]
  BY DEF TypeOK, StoreTypeOK
<1>1. CASE AllTermsKept
  BY <1>1 DEF NetWithin, AllTermsKept, TermsKept
<1>2. ASSUME NEW q \in PayReqs, PayInserts(q) PROVE NetWithin'
  <2>1. pay[q].amount \in Amounts \cup {0}
    BY DEF TypeOK, DepositsTypeOK, Visit
  <2>2. NetOf(pay[q].amount) <= pay[q].amount
    BY <2>1, NetTyped
  <2>. QED  BY <1>0, <1>2, <2>2 DEF PayInserts, PayRow, NewRow, InsertRow, NetWithin
<1>3. ASSUME NEW q \in XferReqs, XferInserts(q) PROVE NetWithin'
  <2>1. xfer[q].amount \in Amounts \cup {0}
    BY DEF TypeOK, TransfersTypeOK, Transfer
  <2>2. NetOf(xfer[q].amount) <= xfer[q].amount
    BY <2>1, NetTyped
  <2>. QED  BY <1>0, <1>3, <2>2 DEF XferInserts, XferRow, NewRow, InsertRow, NetWithin
<1>. QED  BY <1>1, <1>2, <1>3, StepKinds DEF Insertion

LEMMA AddsNat ==
  ASSUME TypeOK, NetWithin, NEW field \in Fields, NEW p \in Ids
  PROVE  Adds(field)[p] \in Nat
<1>1. /\ payments[p].amount \in Nat /\ payments[p].net \in Nat
      /\ payments[p].net <= payments[p].amount
  BY NetTyped DEF TypeOK, StoreTypeOK, Row, NetWithin
<1>. QED  BY <1>1 DEF Adds, Fields

\* The three figures of a line are sums over its rows.
LEMMA FigureIsSum ==
  ASSUME NEW ps \in SUBSET Ids, IsFiniteSet(ps), NEW field \in Fields
  PROVE  Figures(ps)[field] = SumFunctionOnSet(Adds(field), ps)
<1>1. CASE field = "count"
  <2>1. \A p \in ps : Adds(field)[p] = 1
    BY <1>1 DEF Adds
  <2>2. Figures(ps)[field] = Cardinality(ps)
    BY <1>1 DEF Figures
  <2>. QED  BY <2>1, <2>2, SumCounts
<1>2. CASE field = "amount"
  <2>. DEFINE f == [p \in ps |-> payments[p].amount]
  <2>1. \A p \in ps : f[p] = Adds(field)[p]
    BY <1>2 DEF Adds
  <2>2. Figures(ps)[field] = SumFunctionOnSet(f, ps)
    BY <1>2 DEF Figures, SumFunction
  <2>. QED  BY <2>1, <2>2, SumSame
<1>3. CASE field = "fee"
  <2>. DEFINE f == [p \in ps |-> payments[p].amount - payments[p].net]
  <2>1. \A p \in ps : f[p] = Adds(field)[p]
    BY <1>3 DEF Adds
  <2>2. Figures(ps)[field] = SumFunctionOnSet(f, ps)
    BY <1>3 DEF Figures, SumFunction
  <2>. QED  BY <2>1, <2>2, SumSame
<1>. QED  BY <1>1, <1>2, <1>3 DEF Fields

\* However the rows are grouped, the lines add up to the whole.
LEMMA GroupsAddUp ==
  ASSUME TypeOK, NetWithin, FewRows, NEW groups, IsFiniteSet(groups),
         NEW of, \A p \in StoredRows : of[p] \in groups, NEW field \in Fields
  PROVE  Total(Grouped(groups, of), field) = SumNow(field)
<1>. DEFINE all == Grouped(groups, of)
            lines == [g \in groups |-> all[g][field]]
            rows == [g \in groups |-> {p \in StoredRows : of[p] = g}]
<1>1. IsFiniteSet(StoredRows) /\ StoredRows \subseteq Ids
  BY DEF FewRows, StoredRows
<1>2. Total(all, field) = SumFunctionOnSet(lines, groups)
  BY DEF Total, SumFunction, Grouped
<1>3. ASSUME NEW g \in groups
      PROVE  lines[g] = SumFunctionOnSet(Adds(field), rows[g])
  <2>1. {p \in Ids : Stored(p) /\ of[p] = g} = rows[g]
    BY DEF StoredRows
  <2>2. all[g] = Figures(rows[g])
    BY <2>1 DEF Grouped
  <2>3. rows[g] \in SUBSET Ids /\ IsFiniteSet(rows[g])
    BY <1>1, FS_Subset
  <2>4. Figures(rows[g])[field] = SumFunctionOnSet(Adds(field), rows[g])
    BY <2>3, FigureIsSum
  <2>. QED  BY <2>2, <2>4
<1>4. \A p \in StoredRows : Adds(field)[p] \in Nat
  BY <1>1, AddsNat
<1>. DEFINE fun == Adds(field)
<1>5. \A g \in groups : rows[g] = {p \in StoredRows : of[p] = g}
  OBVIOUS
<1>. HIDE DEF all, lines, fun, rows
<1>6. SumFunctionOnSet(lines, groups) = SumFunctionOnSet(Adds(field), StoredRows)
  <2>1. /\ \A g \in groups : lines[g] = SumFunctionOnSet(fun, rows[g])
        /\ \A p \in StoredRows : fun[p] \in Nat
    BY <1>3, <1>4 DEF fun
  <2>2. SumFunctionOnSet(lines, groups) = SumFunctionOnSet(fun, StoredRows)
    BY <1>1, <1>5, <2>1, SumByGroups
  <2>. QED  BY <2>2 DEF fun
<1>. QED  BY <1>2, <1>6 DEF all, SumNow

LEMMA SumNowNat ==
  ASSUME TypeOK, NetWithin, FewRows, NEW field \in Fields
  PROVE  SumNow(field) \in Nat
BY AddsNat, SumNat DEF SumNow, FewRows, StoredRows

\* Rows are only added, and keep their terms.
LEMMA SumNowGrows ==
  ASSUME Sound, NetWithin, FewRows, TypeOK', NetWithin', FewRows', [Next]_vars,
         NEW field \in Fields
  PROVE  SumNow(field) <= SumNow(field)'
<1>1. StoredRows \subseteq StoredRows' /\ IsFiniteSet(StoredRows')
  BY SoundStep DEF StoredRows, Stored, TermsKept, FewRows
<1>2. \A p \in StoredRows : Adds(field)[p] = Adds(field)'[p]
  BY SoundStep DEF StoredRows, TermsKept, Adds
<1>3. \A p \in StoredRows' : Adds(field)'[p] \in Nat
  <2>. SUFFICES ASSUME NEW p \in Ids PROVE Adds(field)'[p] \in Nat
    BY DEF StoredRows
  <2>1. /\ payments'[p].amount \in Nat /\ payments'[p].net \in Nat
        /\ payments'[p].net <= payments'[p].amount
    BY NetTyped DEF TypeOK, StoreTypeOK, Row, NetWithin
  <2>. QED  BY <2>1 DEF Adds, Fields
<1>. QED  BY <1>1, <1>2, <1>3, SumGrows DEF SumNow

\* Each of the three queries counts every row there is.
LEMMA QueryCountsAll ==
  ASSUME IsFiniteSet(Apps), TypeOK, NetWithin, FewRows, ReadTotals \/ ReadByType \/ ReadByApp,
         NEW field \in Fields
  PROVE  Total(dash'.lines, field) = SumNow(field)
<1>. DEFINE all == [p \in Ids |-> "all"]
            type == [p \in Ids |-> payments[p].type]
            app == [p \in Ids |-> payments[p].app]
<1>1. \A p \in StoredRows : /\ p \in Ids /\ payments[p].type \in PaymentTypes
                            /\ payments[p].app \in Apps
  BY DEF StoredRows, Stored, TypeOK, StoreTypeOK, Row
<1>2. CASE ReadTotals
  <2>1. dash'.lines = Grouped({"all"}, all)
    BY <1>2 DEF ReadTotals, Query
  <2>2. IsFiniteSet({"all"}) /\ \A p \in StoredRows : all[p] \in {"all"}
    BY <1>1, FS_Singleton
  <2>. HIDE DEF all
  <2>. QED  BY <2>1, <2>2, GroupsAddUp
<1>3. CASE ReadByType
  <2>1. dash'.lines = Grouped(PaymentTypes, type)
    BY <1>3 DEF ReadByType, Query
  <2>2. IsFiniteSet(PaymentTypes)
    <3>1. IsFiniteSet({"deposit"}) /\ IsFiniteSet({"payout"}) /\ IsFiniteSet({"refund"})
      BY FS_Singleton
    <3>2. PaymentTypes = ({"deposit"} \cup {"payout"}) \cup {"refund"}
      BY DEF PaymentTypes
    <3>. QED  BY <3>1, <3>2, FS_Union
  <2>3. \A p \in StoredRows : type[p] \in PaymentTypes
    BY <1>1
  <2>. HIDE DEF type
  <2>. QED  BY <2>1, <2>2, <2>3, GroupsAddUp
<1>4. CASE ReadByApp
  <2>1. dash'.lines = Grouped(Apps, app)
    BY <1>4 DEF ReadByApp, Query
  <2>2. \A p \in StoredRows : app[p] \in Apps
    BY <1>1
  <2>. HIDE DEF app
  <2>. QED  BY <2>1, <2>2, GroupsAddUp
<1>. QED  BY <1>2, <1>3, <1>4

LEMMA SameSums == ASSUME UNCHANGED vars, NEW field PROVE SumNow(field)' = SumNow(field)
BY DEF vars, SumNow, Adds, StoredRows, Stored

\* The figures read so far are those of fewer rows, or of as many.
SumsInv ==
  dash.pc \in {"by_type", "by_app"} =>
    \A field \in Fields : /\ Total(dash.lines, field) \in Nat
                          /\ Total(dash.lines, field) <= SumNow(field)

RowsFew == TypeOK /\ NetWithin /\ FewRows

LEMMA RowsFewSum == RowsFew => \A field \in Fields : SumNow(field) \in Nat
BY SumNowNat DEF RowsFew

LEMMA SumsStep ==
  ASSUME IsFiniteSet(Apps), Sound, RowsFew, RowsFew', SumsInv, [SNext]_svars
  PROVE  SumsInv'
<1>1. \A field \in Fields : SumNow(field) \in Nat /\ SumNow(field)' \in Nat
  <2>1. RowsFew' => (\A field \in Fields : SumNow(field) \in Nat)'
    BY RowsFewSum, PTL
  <2>. QED  BY <2>1, RowsFewSum
<1>2. CASE Next /\ UNCHANGED dash
  BY <1>1, <1>2, SumNowGrows DEF RowsFew, SumsInv
<1>3. CASE (ReadTotals \/ ReadByType) /\ UNCHANGED vars
  BY <1>1, <1>3, QueryCountsAll, SameSums DEF RowsFew, SumsInv
<1>4. CASE AskDashboard \/ ReadByApp \/ ReadByOperator \/ DashboardFails
  BY <1>4 DEF AskDashboard, ReadByApp, ReadByOperator, DashboardFails, Query, SumsInv
<1>5. CASE UNCHANGED svars
  BY <1>5, SameSums DEF svars, SumsInv
<1>. QED  BY <1>2, <1>3, <1>4, <1>5 DEF SNext, DashboardNext

\* The lines by type add up to no less than the totals, and those by
\* application to no less than those by type, in every figure: the queries of
\* one answer run one after the other while rows are added (Stats).  A table
\* has finitely many applications.
THEOREM FiguresGrowHolds ==
  ASSUME IsFiniteSet(Apps)
  PROVE  SSpec => FiguresGrow
<1>1. SInit => RowsFew /\ SumsInv
  <2>. SUFFICES ASSUME SInit PROVE RowsFew /\ SumsInv
    OBVIOUS
  <2>1. {p \in Ids : Stored(p)} = {} /\ NetWithin
    BY DEF SInit, Init, StoreInit, NoRow, Stored, NetWithin
  <2>2. dash.pc = "idle" /\ TypeOK
    BY InitTyped DEF SInit, DashboardInit
  <2>. QED  BY <2>1, <2>2, FS_EmptySet DEF RowsFew, FewRows, SumsInv
<1>2. Sound /\ Sound' /\ RowsFew /\ [SNext]_svars => RowsFew'
  BY DashboardStepIsNext, FewRowsStep, NetWithinStep DEF Sound, KeysOK, RowsFew
<1>3. Sound /\ RowsFew /\ RowsFew' /\ SumsInv /\ [SNext]_svars => SumsInv'
  BY SumsStep
<1>4. SSpec => []Sound
  BY DashboardReadsOnly, SoundHolds, PTL
<1>5. ASSUME RowsFew, SumsInv, [SNext]_svars
      PROVE  [dash.pc \in Whole /\ dash'.pc \in Whole \ {dash.pc}
              => \A field \in Fields : Total(dash.lines, field) <= Total(dash'.lines, field)]_svars
  <2>. SUFFICES ASSUME dash.pc \in Whole, dash'.pc \in Whole \ {dash.pc}, NEW field \in Fields
                PROVE  Total(dash.lines, field) <= Total(dash'.lines, field)
    OBVIOUS
  <2>1. ReadByType \/ ReadByApp
    BY <1>5 DEF SNext, DashboardNext, AskDashboard, ReadTotals, ReadByOperator, DashboardFails,
       Query, Whole, svars
  <2>2. dash.pc \in {"by_type", "by_app"}
    BY <2>1 DEF ReadByType, ReadByApp, Query
  <2>. QED  BY <1>5, <2>1, <2>2, QueryCountsAll DEF RowsFew, SumsInv
<1>6. SSpec => [](RowsFew /\ SumsInv)
  BY <1>1, <1>2, <1>3, <1>4, PTL DEF SSpec
<1>. QED  BY <1>5, <1>6, PTL DEF SSpec, FiguresGrow, Fields
=============================================================================
