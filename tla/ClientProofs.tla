---------------------------- MODULE ClientProofs ----------------------------
(***************************************************************************)
(* What leaves the orchestrator: the relay tells the application, and the  *)
(* hosted page tells the payer and the shop.  Both leave the orchestrator  *)
(* as it is, so what is proved of it holds with any number of relays, of   *)
(* windows and of widgets; and what they tell is true of the payment.      *)
(***************************************************************************)
EXTENDS Relay, HostedPay, BookkeepingProofs

LEMMA CoreStepIsNext == CoreStep => Next
  BY DEF CoreStep, Next, WebhookNext, CallbackStep

LEMMA CallbackRelaysIsNext ==
  ASSUME NEW d \in Deliveries, NEW g \in Relays, CallbackRelays(d, g)
  PROVE  Next
  BY DEF CallbackRelays, Next, WebhookNext, CallbackStep

\* A relay reads rows and writes none of the columns the core reads.
LEMMA RelayLeavesPayments ==
  ASSUME NEW g \in Relays,
         (\E p \in Ids : AdminRelays(g, p)) \/ RelayStep(g) \/ RelayDies(g)
  PROVE  UNCHANGED payments
  BY DEF AdminRelays, RelayStep, RelayDies, RelaySigns, RelayAccepted, RelayRefused,
         RelayLost, RelayRecords, AdminReloads

LEMMA RelayStepIsNext == [RNext]_rvars => [Next]_vars
<1>1. CASE CoreStep /\ UNCHANGED relayVars
  BY <1>1, CoreStepIsNext
<1>2. CASE \E d \in Deliveries, g \in Relays : CallbackRelays(d, g)
  BY <1>2, CallbackRelaysIsNext
<1>3. ASSUME NEW g \in Relays,
             (\E p \in Ids : AdminRelays(g, p)) \/ RelayStep(g) \/ RelayDies(g),
             UNCHANGED coreVars
      PROVE  UNCHANGED vars
  <2>1. UNCHANGED payments
    BY <1>3, RelayLeavesPayments
  <2>. QED  BY <1>3, <2>1 DEF coreVars, vars
<1>4. CASE UNCHANGED rvars
  BY <1>4 DEF rvars
<1>. QED  BY <1>1, <1>2, <1>3, <1>4 DEF RNext

\* Every step of the relays is a step of the orchestrator or leaves it alone:
\* RelayPayment and SetRelayResult never move a payment.
THEOREM RelayImplements == RSpec => CoreUndisturbed
<1>1. RInit => Init
  BY DEF RInit
<1>2. [RNext]_rvars => [Next]_vars
  BY RelayStepIsNext
<1> QED
  BY <1>1, <1>2, PTL DEF RSpec, CoreUndisturbed

\* The types of the orchestrator hold with relays in progress.
THEOREM TypeCorrectWithRelays == RSpec => []TypeOK
  BY RelayImplements, TypeCorrect, PTL DEF CoreUndisturbed, Spec

\* So do the frozen terms of a payment.
THEOREM FrozenTermsWithRelays == RSpec => FrozenTerms
  BY RelayImplements, FrozenTermsHold, PTL DEF CoreUndisturbed, Spec

\* Money leaves once, and only paid payments are marked completed, with relays
\* in progress (the worker and the callback handler run side by side).
THEOREM CompletionWithRelays == RSpec => [](SingleTransfer /\ NoFalseCompletion)
  BY RelayImplements, SingleTransferHolds, NoFalseCompletionHolds, PTL DEF CoreUndisturbed, Spec

\* The ledger is kept, each request is answered with the payment of its own
\* key, links stay with their payment and refunds with a paid deposit.
THEOREM LedgerWithRelays ==
  RSpec => ImplementsLedger /\ [](SameTransaction /\ LinkProvenance /\ RefundBacked)
  BY RelayImplements, LedgerImplemented, SameTransactionHolds, LinkProvenanceHolds,
     RefundBackedHolds, PTL DEF CoreUndisturbed, Spec
-----------------------------------------------------------------------------
(* What the application is told.  A relay holds a status that was true of  *)
(* its payment when the relay began, and payments that were paid stay so.  *)

\* What a relay in progress has in hand.
TaskOK(g) ==
  relay[g].pc # "idle" =>
    LET p == relay[g].row IN
    /\ p \in Ids /\ Stored(p)
    /\ relay[g].status = "completed" => Paid(p)
    /\ relay[g].pc \in {"sign", "post"} => relay[g].outcome = "failed" /\ callback[p] # "none"
    /\ relay[g].outcome = "skipped" <=> callback[p] = "none"
    /\ relay[g].outcome = "delivered" => accepted[p] # {}

ToldOK == \A p \in Ids : "completed" \in heard[p] => Stored(p) /\ Paid(p)

RelayInv ==
  /\ RelayTypeOK
  /\ \A g \in Relays : TaskOK(g)
  /\ ToldOK
  /\ RecordedAsItWent

LEMMA CorePaid ==
  ASSUME Sound, [Next]_vars, NEW p \in Ids, Stored(p)
  PROVE  Stored(p)' /\ (Paid(p) => Paid(p)')
<1>1. Stored(p)'
  BY SoundStep DEF TermsKept, Stored
<1>. QED  BY <1>1, PaidStays

\* A relay starts on the status of a report that found its row, or on the
\* status of the row.
LEMMA RelayStarts ==
  ASSUME Sound, NEW g \in Relays,
         (\E d \in Deliveries : CallbackRelays(d, g)) \/ (\E p \in Ids : AdminRelays(g, p))
  PROVE  \E p \in Ids, s \in Statuses, by \in {"callback", "console"} :
           Stored(p) /\ (s = "completed" => Paid(p)) /\ StartRelay(g, p, s, by)
<1>1. ASSUME NEW d \in Deliveries, CallbackRelays(d, g)
      PROVE  LET p == hook[d].row  s == hook[d].status IN
             /\ p \in Ids /\ s \in Statuses /\ Stored(p) /\ (s = "completed" => Paid(p))
             /\ StartRelay(g, p, s, "callback")
  <2>1. /\ hook[d].pc = "apply" /\ hook[d].status \in Statuses /\ ReportOK(d)
        /\ hook[d].ref \in Ids /\ StartRelay(g, hook[d].row, hook[d].status, "callback")
    BY <1>1 DEF CallbackRelays, CallbackApplied, Sound, KeysOK, TypeOK, WebhookTypeOK,
                CompletionInv
  <2>. QED  BY <2>1 DEF ReportOK, Paid
<1>2. ASSUME NEW p \in Ids, AdminRelays(g, p)
      PROVE  LET s == payments[p].status IN
             /\ s \in Statuses /\ Stored(p) /\ (s = "completed" => Paid(p))
             /\ StartRelay(g, p, s, "console")
  BY <1>2 DEF AdminRelays, Sound, KeysOK, TypeOK, StoreTypeOK, Row, CompletionInv, Backed, Paid
<1>. QED  BY <1>1, <1>2

LEMMA NoTaskTyped == NoTask \in Task /\ NoTask.pc = "idle"
  BY DEF NoTask, Task, Statuses

LEMMA MovedTask ==
  ASSUME NEW t \in Task, NEW pc \in {"reload", "post", "record"}
  PROVE  LET u == [t EXCEPT !.pc = pc] IN
         /\ u \in Task /\ u.pc = pc /\ u.row = t.row /\ u.status = t.status
         /\ u.outcome = t.outcome
  BY DEF Task

\* The relays in progress, and the columns and the application, one by one.
LEMMA RelayMoves ==
  ASSUME Sound, RelayInv, [Next]_vars, NEW g \in Relays,
         \/ \E d \in Deliveries : CallbackRelays(d, g)
         \/ \E p \in Ids : AdminRelays(g, p)
         \/ RelayStep(g) \/ RelayDies(g)
  PROVE  RelayInv'
<1>0. /\ relay \in [Relays -> Task] /\ callback' = callback
      /\ \A p \in Ids : Stored(p) => Stored(p)' /\ (Paid(p) => Paid(p)')
  BY CorePaid DEF RelayInv, RelayTypeOK, AdminRelays, CallbackRelays, StartRelay, RelayStep,
                  RelaySigns, RelayAccepted, RelayRefused, RelayLost, RelayRecords, AdminReloads,
                  RelayDies
<1>. DEFINE Still == UNCHANGED <<relayed, heard, accepted>>
<1>1. ASSUME NEW t \in Task, relay' = [relay EXCEPT ![g] = t], Still,
             t.pc # "idle" => t.row \in Ids, TaskOK(g)'
      PROVE  RelayInv'
  BY <1>0, <1>1 DEF RelayInv, RelayTypeOK, TaskOK, ToldOK, RecordedAsItWent
<1>2. CASE (\E d \in Deliveries : CallbackRelays(d, g)) \/ (\E p \in Ids : AdminRelays(g, p))
  <2>1. PICK p \in Ids, s \in Statuses, by \in {"callback", "console"} :
          Stored(p) /\ (s = "completed" => Paid(p)) /\ StartRelay(g, p, s, by)
    BY <1>2, RelayStarts
  <2>. DEFINE t == [pc      |-> IF callback[p] = "none" THEN "record" ELSE "sign",
                    by      |-> by,
                    row     |-> p,
                    status  |-> s,
                    outcome |-> IF callback[p] = "none" THEN "skipped" ELSE "failed"]
  <2>2. t \in Task /\ relay' = [relay EXCEPT ![g] = t] /\ Still
    BY <2>1 DEF StartRelay, Task
  <2>3. relay'[g] = t
    BY <1>0, <2>2
  <2>4. TaskOK(g)'
    BY <1>0, <2>1, <2>3 DEF TaskOK
  <2>. QED  BY <1>1, <2>2, <2>4
<1>3. CASE RelaySigns(g)
  <2>1. /\ Still /\ relay[g].pc = "sign" /\ relay[g] \in Task /\ TaskOK(g)
        /\ \/ relay' = [relay EXCEPT ![g] = NoTask]
           \/ \E pc \in {"reload", "post", "record"} :
                relay' = [relay EXCEPT ![g] = [relay[g] EXCEPT !.pc = pc]]
    BY <1>0, <1>3 DEF RelaySigns, After, Task, RelayInv
  <2>2. CASE relay' = [relay EXCEPT ![g] = NoTask]
    BY <1>0, <1>1, <2>1, <2>2, NoTaskTyped DEF TaskOK
  <2>3. ASSUME NEW pc \in {"reload", "post", "record"},
               relay' = [relay EXCEPT ![g] = [relay[g] EXCEPT !.pc = pc]]
        PROVE  RelayInv'
    <3>. DEFINE u == [relay[g] EXCEPT !.pc = pc]
    <3>1. /\ u \in Task /\ u.pc = pc /\ u.row = relay[g].row /\ u.status = relay[g].status
          /\ u.outcome = relay[g].outcome
      BY <2>1, MovedTask
    <3>2. relay'[g] = u
      BY <1>0, <2>3
    <3>. HIDE DEF u
    <3>3. TaskOK(g)'
      BY <1>0, <2>1, <3>1, <3>2 DEF TaskOK
    <3>4. relay' = [relay EXCEPT ![g] = u]
      BY <2>3 DEF u
    <3>. QED  BY <1>1, <2>1, <3>1, <3>3, <3>4 DEF TaskOK
  <2>. QED  BY <2>1, <2>2, <2>3
<1>4. CASE RelayAccepted(g)
  BY <1>0, <1>4 DEF RelayAccepted, Hear, Task, RelayInv, RelayTypeOK, TaskOK, ToldOK,
                    RecordedAsItWent
<1>5. CASE RelayRefused(g)
  BY <1>0, <1>5 DEF RelayRefused, Hear, Task, RelayInv, RelayTypeOK, TaskOK, ToldOK,
                    RecordedAsItWent
<1>6. CASE RelayLost(g)
  <2>1. relay' = [relay EXCEPT ![g].pc = "record"] /\ relay[g].pc = "post" /\ UNCHANGED relayed
    BY <1>6 DEF RelayLost
  <2>2. /\ heard' \in [Ids -> SUBSET Statuses] /\ accepted' \in [Ids -> SUBSET Statuses]
        /\ ToldOK' /\ (\A p \in Ids : accepted[p] # {} => accepted'[p] # {})
    <3>1. /\ relay[g].row \in Ids /\ relay[g].status \in Statuses /\ Stored(relay[g].row)
          /\ relay[g].status = "completed" => Paid(relay[g].row)
      BY <1>0, <2>1 DEF TaskOK, RelayInv, Task
    <3>2. /\ heard' = heard \/ heard' = [heard EXCEPT ![relay[g].row] = @ \cup {relay[g].status}]
          /\ \/ accepted' = accepted
             \/ accepted' = [accepted EXCEPT ![relay[g].row] = @ \cup {relay[g].status}]
      BY <1>6 DEF RelayLost, Hear
    <3>3. /\ heard' \in [Ids -> SUBSET Statuses]
          /\ \A p \in Ids : "completed" \in heard'[p] =>
               "completed" \in heard[p] \/ (p = relay[g].row /\ relay[g].status = "completed")
      BY <3>1, <3>2 DEF RelayInv, RelayTypeOK
    <3>4. /\ accepted' \in [Ids -> SUBSET Statuses]
          /\ \A p \in Ids : accepted[p] # {} => accepted'[p] # {}
      BY <3>1, <3>2 DEF RelayInv, RelayTypeOK
    <3>. QED  BY <1>0, <3>1, <3>3, <3>4 DEF RelayInv, ToldOK
  <2>3. /\ relay' \in [Relays -> Task]
        /\ \A k \in Relays : TaskOK(k)'
        /\ \A k \in Relays : relay'[k].pc # "idle" => relay'[k].row \in Ids
    <3>1. relay' \in [Relays -> Task]
      BY <1>0, <2>1 DEF Task
    <3>2. \A k \in Relays : /\ relay'[k].row = relay[k].row /\ relay'[k].status = relay[k].status
                           /\ relay'[k].outcome = relay[k].outcome
                           /\ (relay'[k].pc = relay[k].pc \/ relay'[k].pc = "record")
      BY <1>0, <2>1 DEF Task
    <3>. QED  BY <1>0, <2>1, <2>2, <3>1, <3>2 DEF TaskOK, RelayInv, RelayTypeOK
  <2>4. RecordedAsItWent'
    BY <1>0, <2>1, <2>2 DEF RelayInv, RecordedAsItWent
  <2>. QED  BY <1>0, <2>1, <2>2, <2>3, <2>4 DEF RelayInv, RelayTypeOK
<1>7. CASE RelayRecords(g)
  <2>1. /\ relay[g].pc = "record" /\ relay[g] \in Task /\ TaskOK(g) /\ relay[g].row \in Ids
        /\ UNCHANGED <<heard, accepted>>
        /\ \/ relay' = [relay EXCEPT ![g] = NoTask]
           \/ relay' = [relay EXCEPT ![g] = [relay[g] EXCEPT !.pc = "reload"]]
    BY <1>0, <1>7 DEF RelayRecords, After, RelayInv, TaskOK
  <2>2. /\ relay' \in [Relays -> Task]
        /\ \A k \in Relays : TaskOK(k)'
        /\ \A k \in Relays : relay'[k].pc # "idle" => relay'[k].row \in Ids
    <3>1. CASE relay' = [relay EXCEPT ![g] = NoTask]
      BY <1>0, <2>1, <3>1, NoTaskTyped DEF TaskOK, RelayInv, RelayTypeOK
    <3>2. CASE relay' = [relay EXCEPT ![g].pc = "reload"]
      BY <1>0, <2>1, <3>2 DEF Task, TaskOK, RelayInv, RelayTypeOK
    <3>3. [relay EXCEPT ![g] = [relay[g] EXCEPT !.pc = "reload"]]
          = [relay EXCEPT ![g].pc = "reload"]
      OBVIOUS
    <3>. QED  BY <2>1, <3>1, <3>2, <3>3
  <2>3. /\ relayed' \in [Ids -> [status   : {"pending", "delivered", "failed", "skipped"},
                                attempts : Nat]]
        /\ RecordedAsItWent'
    <3>1. CASE UNCHANGED relayed
      BY <1>0, <2>1, <3>1 DEF RelayInv, RelayTypeOK, RecordedAsItWent
    <3>2. CASE SetRelayResult(relay[g].row, relay[g].outcome)
      BY <1>0, <2>1, <3>2 DEF SetRelayResult, Task, TaskOK, RelayInv, RelayTypeOK, RecordedAsItWent
    <3>. QED  BY <1>7, <3>1, <3>2 DEF RelayRecords
  <2>. QED  BY <1>0, <2>1, <2>2, <2>3 DEF RelayInv, RelayTypeOK, ToldOK
<1>8. CASE AdminReloads(g) \/ RelayDies(g)
  <2>1. relay' = [relay EXCEPT ![g] = NoTask] /\ Still
    BY <1>8 DEF AdminReloads, RelayDies
  <2>. QED  BY <1>0, <1>1, <2>1, NoTaskTyped DEF TaskOK
<1>. QED  BY <1>2, <1>3, <1>4, <1>5, <1>6, <1>7, <1>8 DEF RelayStep

LEMMA RelaysHold == RSpec => [](Sound /\ RelayInv)
<1>1. RInit => RelayInv
  BY DEF RInit, RelayInit, RelayInv, RelayTypeOK, NoTask, Task, TaskOK, ToldOK, RecordedAsItWent,
         Statuses
<1>2. Sound /\ RelayInv /\ [RNext]_rvars => RelayInv'
  <2>. SUFFICES ASSUME Sound, RelayInv, [RNext]_rvars PROVE RelayInv'
    OBVIOUS
  <2>0. [Next]_vars
    BY RelayStepIsNext
  <2>1. CASE UNCHANGED relayVars
    <3>1. \A p \in Ids : Stored(p) => Stored(p)' /\ (Paid(p) => Paid(p)')
      BY <2>0, CorePaid
    <3>. QED  BY <2>1, <3>1 DEF relayVars, RelayInv, RelayTypeOK, TaskOK, ToldOK, RecordedAsItWent
  <2>. QED  BY <2>0, <2>1, RelayMoves DEF RNext, rvars
<1>3. RSpec => []Sound
  BY RelayImplements, SoundHolds, PTL DEF CoreUndisturbed, Spec
<1>. QED  BY <1>1, <1>2, <1>3, PTL DEF RSpec

\* The relays and what they record have their types, with any number of
\* relays, resends from the console and crashes.
THEOREM RelayTypeCorrect == RSpec => []RelayTypeOK
  BY RelaysHold, PTL DEF RelayInv

\* An application is told "completed" of a payment only if it was paid, though
\* each relay posts the status its caller read several steps before.
THEOREM ToldCompletedIsPaidHolds == RSpec => []ToldCompletedIsPaid
<1>1. RelayInv => ToldCompletedIsPaid
  BY DEF RelayInv, ToldOK, ToldCompletedIsPaid
<1>. QED  BY <1>1, RelaysHold, PTL

\* The outcome recorded of a relay is one that came to pass: "delivered" means
\* that the application answered 2xx, "skipped" that it has no callback_url.
THEOREM RecordedAsItWentHolds == RSpec => []RecordedAsItWent
  BY RelaysHold, PTL DEF RelayInv
-----------------------------------------------------------------------------
(* The hosted page.  A reference in an address leads to one row only: the  *)
(* row of the answer that gave the address, however often that row is      *)
(* renewed.  So a window never shows another payment than its own.         *)

LEMMA BrowserLeavesCore == [HNext]_hvars => [Next]_vars
BY DEF HNext, hvars

\* The page and the widget only read: with any number of browsers the
\* orchestrator is the one proved about, and the ledger is kept.
THEOREM HostedPayReadsOnly == HSpec => Spec /\ ImplementsLedger
<1>1. HInit => Init
  BY DEF HInit
<1>2. HSpec => Spec
  BY <1>1, BrowserLeavesCore, PTL DEF HSpec, Spec
<1>. QED  BY <1>2, LedgerImplemented, PTL

\* Reference r was drawn for row p: by its own request, or by one that renewed.
Owner(p, r) == r = p \/ (r \in PayReqs /\ pay[r].row = p)

\* The address in an answer bears a reference of the row answered.
AnswerOK(q) ==
  pay[q].row # None => url[q] \in Ids /\ Owner(pay[q].row, url[q])

\* The widget was given a payment.
Shown(w, q) == widget[w][q] \in WidgetStates \ {"none", "error"}

ShownPaid(w) == \E r \in PayReqs : Shown(w, r) /\ Paid(pay[r].row)

\* What is true of a window of page w that stands as v.
Fits(w, v) ==
  /\ v.pc # "none" =>
       LET q == v.order IN
       /\ q \in PayReqs /\ pay[q].row # None
       /\ InWidget(w) => Shown(w, q)
       /\ v.ref # None => Owner(pay[q].row, v.ref)
       /\ v.link # None => Owner(pay[q].row, v.link)
       /\ v.pc = "shop" => Paid(pay[q].row)
  /\ v.mail = "completed" => ShownPaid(w)

WindowOK(w) ==
  /\ Fits(w, window[w])
  /\ \A q \in PayReqs : Shown(w, q) => pay[q].row # None
  /\ \A q \in PayReqs : widget[w][q] = "success" => ShownPaid(w)

PageInv ==
  /\ HostedPayTypeOK
  /\ \A q \in PayReqs : AnswerOK(q)
  /\ \A w \in Windows : WindowOK(w)

CoreInv == Sound /\ DepositInv /\ RowsInv

\* The row a reference of payment p is found on is p's.
LEMMA OwnerFinds ==
  ASSUME Sound, RowsInv, NEW p \in Ids, payments[p].type = "deposit", NEW r, Owner(p, r),
         NEW x \in FindPaymentByDiarraRef(r)
  PROVE  x = p
<1>1. /\ x \in Ids /\ Stored(x) /\ payments[x].ref = r /\ RefOK(x)
      /\ Stored(p) /\ RefOK(p) /\ p \in PayReqs
      /\ None \notin Ids /\ PayReqs \subseteq Ids /\ PayReqs \cap XferReqs = {}
  BY StoreAssumption, DepositsAssumption, OrchestratorAssumption
     DEF FindPaymentByDiarraRef, Stored, Sound, CompletionInv, RefOK
<1>2. r \in PayReqs /\ payments[x].type = "deposit" /\ x \in PayReqs
  BY <1>1 DEF RefOK, Owner
<1>3. r = x \/ pay[r].row = x
  BY <1>1, <1>2 DEF RefOK, Linked, Served
<1>4. CASE r = x /\ r # p
  BY <1>1, <1>4 DEF RowsInv, RowHand, Owner
<1>5. CASE pay[r].row = x /\ r = p
  BY <1>1, <1>5 DEF RowsInv, RowHand
<1>. QED  BY <1>3, <1>4, <1>5 DEF Owner

\* The row an answered request holds.
LEMMA AnsweredRow ==
  ASSUME DepositInv, NEW q \in PayReqs, pay[q].row # None
  PROVE  pay[q].row \in Ids /\ payments[pay[q].row].type = "deposit"
BY DEF DepositInv, HandOK, Holds

LEMMA AnsweredHasRow ==
  ASSUME DepositInv, NEW q \in PayReqs, Answered(q)
  PROVE  pay[q].row # None
BY DEF DepositInv, HandOK, Answered, RowPcs

\* A page that finds a payment finds its own.
LEMMA PageFinds ==
  ASSUME CoreInv, PageInv, NEW w \in Windows, window[w].pc # "none", NEW p \in Rows(w)
  PROVE  /\ p = pay[window[w].order].row /\ p \in Ids /\ Stored(p)
         /\ payments[p].status = "completed" => Paid(p)
<1>1. /\ p \in Ids /\ Stored(p) /\ payments[p].ref = window[w].ref /\ RefOK(p)
      /\ None \notin Ids /\ PayReqs \subseteq Ids /\ XferReqs \subseteq Ids
  BY StoreAssumption, DepositsAssumption, TransfersAssumption
     DEF Rows, FindPaymentByDiarraRef, CoreInv, Sound, CompletionInv
<1>2. window[w].ref # None
  BY <1>1 DEF RefOK
<1>. DEFINE q == window[w].order
<1>3. q \in PayReqs /\ pay[q].row # None /\ Owner(pay[q].row, window[w].ref)
  BY <1>2 DEF PageInv, WindowOK, Fits
<1>4. p = pay[q].row
  BY <1>3, AnsweredRow, OwnerFinds DEF CoreInv, Rows
<1>. QED  BY <1>1, <1>4 DEF CoreInv, Sound, CompletionInv, Backed, Paid
-----------------------------------------------------------------------------
(* A step of the orchestrator, seen from the pages.                         *)

LEMMA OwnerStays ==
  ASSUME Sound, RowsInv, [Next]_vars, NEW p \in Ids, NEW r, Owner(p, r)
  PROVE  Owner(p, r)'
<1>1. r \in PayReqs /\ pay[r].row = p => pay'[r].row = p
  BY RowHandStep, StoreAssumption DEF RowsInv
<1>. QED  BY <1>1 DEF Owner

LEMMA UrlStep ==
  ASSUME Sound, RowsInv, DepositInv, Sound', DepositInv', [Next]_vars, HostedPayTypeOK,
         hostedPayURL, NEW q \in PayReqs, AnswerOK(q)
  PROVE  url'[q] \in Ids \cup {None} /\ AnswerOK(q)'
<1>0. /\ q \in Ids /\ None \notin Ids /\ PayReqs \subseteq Ids
      /\ IF pay'[q].row # pay[q].row THEN url'[q] = payments'[pay'[q].row].ref
         ELSE \/ url'[q] = url[q]
              \/ url'[q] = q /\ pay[q].pc = "relink"
  <2>1. PICK told \in {TRUE, ~DbFails} :
          url'[q] = CASE pay'[q].row # pay[q].row -> payments'[pay'[q].row].ref
                      [] pay[q].pc = "relink" /\ pay'[q].pc = "existing"
                         /\ payments'[pay[q].row].ref = q /\ told -> q
                      [] OTHER -> url[q]
    BY DEF hostedPayURL
  <2>2. CASE pay'[q].row # pay[q].row
    <3>1. ~(pay[q].pc = "relink")
      BY <2>2, RowHandStep, SoundStep, StoreAssumption DEF RowsInv, VisitOK
    <3>. QED  BY <2>1, <2>2, <3>1, DepositsAssumption, StoreAssumption
  <2>3. CASE pay'[q].row = pay[q].row
    BY <2>1, <2>3, DepositsAssumption, StoreAssumption
  <2>. QED  BY <2>2, <2>3
<1>1. ASSUME NEW p, p = pay'[q].row, NEW r, r = url'[q], p # None
      PROVE  r \in Ids /\ Owner(p, r)'
  <2>1. CASE p # pay[q].row
    <3>1. p \in Ids /\ payments'[p].type = "deposit"
      BY <1>1 DEF DepositInv, HandOK, Holds
    <3>2. r = payments'[p].ref
      <4>1. pay[q].row = None
        BY <1>1, <2>1, RowHandStep DEF RowsInv
      <4>2. pay[q].pc # "relink"
        BY <4>1 DEF DepositInv, HandOK, RowPcs
      <4>. QED  BY <1>0, <1>1, <2>1, <4>2
    <3>3. RefOK(p)'
      BY <3>1 DEF Sound, CompletionInv, Stored
    <3>. QED  BY <1>0, <3>1, <3>2, <3>3 DEF RefOK, Linked, Served, Owner
  <2>2. CASE p = pay[q].row
    <3>1. p \in Ids /\ url[q] \in Ids /\ Owner(p, url[q])
      BY <1>1, <2>2, AnsweredRow DEF AnswerOK
    <3>2. r = q \/ r = url[q]
      BY <1>0, <1>1, <2>2
    <3>. QED  BY <1>0, <1>1, <3>1, <3>2, OwnerStays DEF Owner
  <2>. QED  BY <2>1, <2>2
<1>2. CASE pay'[q].row = None
  <2>1. pay[q].row = None
    BY <1>2, RowHandStep DEF RowsInv
  <2>2. pay[q].pc # "relink"
    BY <2>1 DEF DepositInv, HandOK, RowPcs
  <2>. QED  BY <1>0, <1>2, <2>1, <2>2 DEF AnswerOK, HostedPayTypeOK
<1>. QED  BY <1>1, <1>2 DEF AnswerOK

\* A handler keeps its row, and what was paid for it stays paid.
LEMMA RowStays ==
  ASSUME CoreInv, [Next]_vars, NEW q \in PayReqs, NEW p, p = pay[q].row, p # None
  PROVE  p \in Ids /\ pay'[q].row = p /\ (Paid(p) => Paid(p)')
<1>1. p \in Ids /\ Stored(p)
  BY AnsweredRow DEF CoreInv, Stored
<1>2. pay'[q].row = p
  BY RowHandStep DEF CoreInv, RowsInv
<1>. QED  BY <1>1, <1>2, PaidStays DEF CoreInv

LEMMA ShownPaidStays ==
  ASSUME CoreInv, [Next]_vars, UNCHANGED widget, NEW w,
         \A q \in PayReqs : Shown(w, q) => pay[q].row # None,
         ShownPaid(w)
  PROVE  ShownPaid(w)'
<1>1. PICK r \in PayReqs : Shown(w, r) /\ Paid(pay[r].row)
  BY DEF ShownPaid
<1>. DEFINE p == pay[r].row
<1>2. pay'[r].row = p /\ (Paid(p) => Paid(p)')
  BY <1>1, RowStays
<1>3. Shown(w, r)'
  BY <1>1 DEF Shown
<1>. QED  BY <1>1, <1>2, <1>3 DEF ShownPaid, Paid, Linked, Served

LEMMA WindowStays ==
  ASSUME CoreInv, [Next]_vars, UNCHANGED <<window, widget>>, NEW w \in Windows, WindowOK(w)
  PROVE  WindowOK(w)'
<1>1. ShownPaid(w) => ShownPaid(w)'
  BY ShownPaidStays DEF WindowOK
<1>2. \A q \in PayReqs : Shown(w, q)' => pay'[q].row # None
  <2>1. \A q \in PayReqs : Shown(w, q)' => Shown(w, q)
    BY DEF Shown
  <2>. QED  BY <2>1, RowStays DEF WindowOK
<1>3. ASSUME window[w].pc # "none", NEW q, q = window[w].order
      PROVE  /\ q \in PayReqs /\ pay'[q].row # None
             /\ InWidget(w)' => Shown(w, q)'
             /\ \A r \in {window[w].ref, window[w].link} \ {None} :
                  r = pay'[q].row \/ (r \in PayReqs /\ pay'[r].row = pay'[q].row)
             /\ window[w].pc = "shop" => \A p : p = pay'[q].row => Paid(p)'
  <2>1. q \in PayReqs /\ pay[q].row # None
    BY <1>3 DEF WindowOK, Fits
  <2>. DEFINE p == pay[q].row
  <2>2. p \in Ids /\ pay'[q].row = p /\ (Paid(p) => Paid(p)')
    BY <2>1, RowStays
  <2>3. InWidget(w)' => Shown(w, q)'
    BY <1>3 DEF WindowOK, Fits, InWidget, Shown
  <2>4. ASSUME NEW r \in {window[w].ref, window[w].link} \ {None}
        PROVE  r = p \/ (r \in PayReqs /\ pay'[r].row = p)
    <3>1. Owner(p, r)
      BY <1>3 DEF WindowOK, Fits
    <3>. QED  BY <2>2, <3>1, OwnerStays DEF CoreInv, Owner
  <2>5. window[w].pc = "shop" => Paid(p)
    BY <1>3 DEF WindowOK, Fits
  <2>. QED  BY <2>1, <2>2, <2>3, <2>4, <2>5, StoreAssumption
<1>4. Fits(w, window[w])'
  BY <1>1, <1>3 DEF WindowOK, Fits, Owner
<1>. QED  BY <1>1, <1>2, <1>4 DEF WindowOK

LEMMA CorePages ==
  ASSUME CoreInv, CoreInv', PageInv, [Next]_vars, UNCHANGED <<window, widget>>,
         hostedPayURL \/ UNCHANGED <<vars, url>>
  PROVE  PageInv'
<1>1. \A w \in Windows : WindowOK(w)'
  BY WindowStays DEF PageInv
<1>2. CASE hostedPayURL
  <2>1. \A q \in PayReqs : url'[q] \in Ids \cup {None} /\ AnswerOK(q)'
    BY <1>2, UrlStep DEF CoreInv, PageInv
  <2>2. HostedPayTypeOK'
    BY <1>2, <2>1 DEF PageInv, HostedPayTypeOK, hostedPayURL
  <2>. QED  BY <1>1, <2>1, <2>2 DEF PageInv
<1>3. CASE UNCHANGED <<vars, url>>
  BY <1>1, <1>3 DEF vars, PageInv, HostedPayTypeOK, AnswerOK, Owner
<1>. QED  BY <1>2, <1>3
-----------------------------------------------------------------------------
(* A step of a browser.  A window that moves keeps its payment, or turns   *)
(* to one that an answer gave; a widget only ever learns of a message.     *)

LEMMA CoreSame ==
  ASSUME UNCHANGED vars
  PROVE  /\ pay' = pay
         /\ \A p : Paid(p)' <=> Paid(p)
         /\ \A p, r : Owner(p, r)' <=> Owner(p, r)
BY DEF vars, gatewayVars, Paid, Linked, Served, Owner

\* The window turns into v, and the widgets stay.
LEMMA WindowMoves ==
  ASSUME PageInv, UNCHANGED <<vars, url, widget>>, NEW w \in Windows, NEW v \in Window,
         window' = [window EXCEPT ![w] = v], Fits(w, v)
  PROVE  PageInv'
<1>1. HostedPayTypeOK' /\ \A q \in PayReqs : AnswerOK(q)'
  BY CoreSame DEF PageInv, HostedPayTypeOK, AnswerOK, Owner
<1>2. ASSUME NEW x \in Windows PROVE WindowOK(x)'
  <2>1. WindowOK(x) /\ \A q : Shown(x, q)' <=> Shown(x, q)
    BY DEF PageInv, Shown
  <2>2. (InWidget(x)' <=> InWidget(x)) /\ (ShownPaid(x)' <=> ShownPaid(x))
    BY <2>1, CoreSame DEF InWidget, ShownPaid
  <2>3. Fits(x, window'[x])
    BY <2>1 DEF PageInv, HostedPayTypeOK, WindowOK
  <2>4. Fits(x, window[x])'
    BY <2>1, <2>2, <2>3, CoreSame DEF Fits
  <2>. QED  BY <2>1, <2>2, <2>4, CoreSame DEF WindowOK
<1>. QED  BY <1>1, <1>2 DEF PageInv

\* A window that goes on with its payment: by an address it had, or by the link
\* of the row its page found.
LEMMA WindowGoesOn ==
  ASSUME PageInv, UNCHANGED <<vars, url, widget>>, NEW w \in Windows, window[w].pc # "none",
         NEW v \in Window, window' = [window EXCEPT ![w] = v],
         v.order = window[w].order,
         v.ref \in {window[w].ref, window[w].link, None},
         v.link \in {window[w].link, None} \/ Owner(pay[v.order].row, v.link),
         v.mail \in {window[w].mail, "none"} \/ (v.mail = "completed" => ShownPaid(w)),
         v.pc = "shop" => window[w].pc = "shop" \/ Paid(pay[v.order].row)
  PROVE  PageInv'
<1>1. Fits(w, window[w])
  BY DEF PageInv, WindowOK
<1>2. Fits(w, v)
  BY <1>1 DEF Fits
<1>. QED  BY <1>2, WindowMoves

\* The button of a page leads to a transaction of the payment it shows.
LEMMA ButtonIsOwn ==
  ASSUME CoreInv, NEW p \in Ids, payments[p].link # None
  PROVE  Owner(p, payments[p].link)
BY DEF CoreInv, DepositInv, LinkOK, Owner

LEMMA LoadKeeps ==
  ASSUME CoreInv, PageInv, UNCHANGED <<vars, url>>, NEW w \in Windows, Load(w)
  PROVE  PageInv'
<1>1. /\ window[w] \in Window /\ window[w].pc = "loading" /\ window[w].mail = "none"
      /\ UNCHANGED widget
  BY DEF Load, PageInv, HostedPayTypeOK
<1>2. PICK p \in Rows(w) :
        IF payments[p].status = "completed" /\ p \in returnURL
          THEN Left(w, "shop")
          ELSE window' = [window EXCEPT ![w].pc = PageFor(w, p),
                                        ![w].link = IF PageFor(w, p) = "payable"
                                                      THEN payments[p].link ELSE None,
                                        ![w].tries = 0,
                                        ![w].mail = IF InWidget(w) THEN payments[p].status
                                                    ELSE "none"]
  BY DEF Load
<1>3. /\ p = pay[window[w].order].row /\ p \in Ids
      /\ payments[p].status = "completed" => Paid(p)
  BY <1>1, <1>2, PageFinds
<1>4. payments[p].link \in Ids \cup {None} /\ payments[p].status \in Statuses
  BY <1>3 DEF CoreInv, Sound, KeysOK, TypeOK, StoreTypeOK, Row
<1>5. payments[p].link # None => Owner(p, payments[p].link)
  BY <1>3, ButtonIsOwn
<1>6. CASE payments[p].status = "completed" /\ p \in returnURL
  <2>. DEFINE v == [NoWindow EXCEPT !.pc = "shop", !.order = window[w].order,
                                    !.mail = window[w].mail]
  <2>1. v \in Window
    BY <1>1 DEF Window, NoWindow
  <2>. QED  BY <1>1, <1>2, <1>3, <1>6, <2>1, WindowGoesOn DEF Left, NoWindow
<1>7. CASE ~(payments[p].status = "completed" /\ p \in returnURL)
  <2>. DEFINE to == PageFor(w, p)
              v == [window[w] EXCEPT !.pc = to,
                                     !.link = IF to = "payable" THEN payments[p].link ELSE None,
                                     !.tries = 0,
                                     !.mail = IF InWidget(w) THEN payments[p].status ELSE "none"]
  <2>1. to \in {"ending", "still", "polling", "payable"} /\ (to = "payable" => payments[p].link # None)
    BY <1>1, <1>4 DEF PageFor, Window, Statuses, FinalStatuses
  <2>2. v \in Window
    BY <1>1, <1>4, <2>1 DEF Window
  <2>3. window' = [window EXCEPT ![w] = v]
    BY <1>2, <1>7
  <2>4. v.mail = "completed" => ShownPaid(w)
    <3>1. window[w].order \in PayReqs /\ (InWidget(w) => Shown(w, window[w].order))
      BY <1>1 DEF PageInv, WindowOK, Fits
    <3>. QED  BY <1>1, <1>3, <3>1 DEF ShownPaid, Window
  <2>5. /\ v.order = window[w].order /\ v.ref = window[w].ref /\ v.pc # "shop"
        /\ v.link = None \/ Owner(pay[v.order].row, v.link)
    BY <1>1, <1>3, <1>5, <2>1 DEF Window
  <2>. HIDE DEF v
  <2>. QED  BY <1>1, <2>2, <2>3, <2>4, <2>5, WindowGoesOn
<1>. QED  BY <1>6, <1>7

\* A poll sends the payer to the shop only of a payment it found completed.
LEMMA PollKeeps ==
  ASSUME CoreInv, PageInv, UNCHANGED <<vars, url>>, NEW w \in Windows, Poll(w)
  PROVE  PageInv'
<1>1. /\ window[w] \in Window /\ window[w].pc = "polling" /\ UNCHANGED widget
  BY DEF Poll, PageInv, HostedPayTypeOK
<1>2. PICK to \in {PollOutcome(w, p) : p \in Rows(w)} \cup {"polling"} :
        IF to = "polling" /\ window[w].tries < MaxTries
          THEN window' = [window EXCEPT ![w].tries = @ + 1]
          ELSE window' = [window EXCEPT ![w].tries = 0,
                                        ![w].pc = IF to = "polling" THEN "still" ELSE to]
  BY DEF Poll
<1>3. /\ to \in {"shop", "loading", "polling"}
      /\ to = "shop" => Paid(pay[window[w].order].row)
  BY <1>1, <1>2, PageFinds DEF PollOutcome
<1>4. CASE to = "polling" /\ window[w].tries < MaxTries
  <2>. DEFINE v == [window[w] EXCEPT !.tries = @ + 1]
  <2>1. v \in Window
    BY <1>1 DEF Window
  <2>. QED  BY <1>1, <1>2, <1>4, <2>1, WindowGoesOn DEF Window
<1>5. CASE ~(to = "polling" /\ window[w].tries < MaxTries)
  <2>. DEFINE v == [window[w] EXCEPT !.tries = 0, !.pc = IF to = "polling" THEN "still" ELSE to]
  <2>1. v \in Window
    BY <1>1, <1>3 DEF Window
  <2>2. v.pc = "shop" => Paid(pay[v.order].row)
    BY <1>1, <1>3 DEF Window
  <2>. QED  BY <1>1, <1>2, <1>5, <2>1, <2>2, WindowGoesOn DEF Window
<1>. QED  BY <1>4, <1>5

\* Leaving, reloading and the gateway's button change no payment of a window.
LEMMA MovesKeep ==
  ASSUME PageInv, UNCHANGED <<vars, url>>, NEW w \in Windows,
         LoadMissing(w) \/ PayNow(w) \/ BackFromGateway(w) \/ BackToShop(w) \/ Reload(w)
           \/ Close(w) \/ CloseItself(w)
  PROVE  PageInv'
<1>1. window[w] \in Window /\ UNCHANGED widget
  BY DEF PageInv, HostedPayTypeOK, LoadMissing, PayNow, BackFromGateway, BackToShop, Reload,
         Close, CloseItself
<1>2. ASSUME NEW to \in {"missing", "gateway", "loading"},
             window' = [window EXCEPT ![w].pc = to], window[w].pc # "none"
      PROVE  PageInv'
  <2>. DEFINE v == [window[w] EXCEPT !.pc = to]
  <2>1. v \in Window
    BY <1>1 DEF Window
  <2>. QED  BY <1>1, <1>2, <2>1, WindowGoesOn DEF Window
<1>3. ASSUME NEW to \in {"back", "closed"}, Left(w, to), window[w].pc # "none"
      PROVE  PageInv'
  <2>. DEFINE v == [NoWindow EXCEPT !.pc = to, !.order = window[w].order, !.mail = window[w].mail]
  <2>1. v \in Window
    BY <1>1 DEF Window, NoWindow
  <2>. QED  BY <1>1, <1>3, <2>1, WindowGoesOn DEF Left, NoWindow
<1>4. CASE BackFromGateway(w)
  <2>. DEFINE v == [window[w] EXCEPT !.pc = "loading", !.done = TRUE, !.ref = window[w].link,
                                     !.link = None]
  <2>1. v \in Window /\ window' = [window EXCEPT ![w] = v] /\ window[w].pc # "none"
    BY <1>1, <1>4 DEF Window, BackFromGateway
  <2>2. /\ v.order = window[w].order /\ v.ref = window[w].link /\ v.link = None
        /\ v.mail = window[w].mail /\ v.pc = "loading"
    BY <1>1 DEF Window
  <2>. HIDE DEF v
  <2>. QED  BY <1>1, <2>1, <2>2, WindowGoesOn
<1>5. CASE LoadMissing(w) \/ PayNow(w) \/ Reload(w)
  BY <1>2, <1>5 DEF LoadMissing, PayNow, Reload, Goes
<1>6. CASE BackToShop(w) \/ Close(w) \/ CloseItself(w)
  BY <1>3, <1>6 DEF BackToShop, Close, CloseItself
<1>. QED  BY <1>4, <1>5, <1>6

\* The address an answer gave leads to the payment it answered.
LEMMA VisitFits ==
  ASSUME CoreInv, PageInv, NEW w \in Windows, NEW q \in PayReqs, Answered(q), Visits(w, q)
  PROVE  /\ window' = [window EXCEPT ![w] = window'[w]] /\ window'[w] \in Window
         /\ window'[w].pc = "loading" /\ window'[w].order = q /\ window'[w].link = None
         /\ window'[w].mail = window[w].mail
         /\ pay[q].row # None /\ Owner(pay[q].row, window'[w].ref)
<1>1. window \in [Windows -> Window] /\ window[w] \in Window
  BY DEF PageInv, HostedPayTypeOK
<1>2. pay[q].row # None
  BY AnsweredHasRow DEF CoreInv
<1>3. url[q] \in Ids /\ Owner(pay[q].row, url[q])
  BY <1>2 DEF PageInv, AnswerOK
<1>. DEFINE v == [window[w] EXCEPT !.pc = "loading", !.order = q, !.ref = url[q],
                                   !.done = FALSE, !.link = None, !.tries = 0]
<1>4. window' = [window EXCEPT ![w] = v]
  BY DEF Visits
<1>5. /\ v \in Window /\ v.pc = "loading" /\ v.order = q /\ v.link = None /\ v.ref = url[q]
      /\ v.mail = window[w].mail
  BY <1>1, <1>3 DEF Window
<1>. HIDE DEF v
<1>6. window'[w] = v
  BY <1>1, <1>4
<1>. QED  BY <1>2, <1>3, <1>4, <1>5, <1>6

\* A widget becomes f[q] for each answer q, and the window v.  What was shown
\* stays shown.
LEMMA WidgetsTurn ==
  ASSUME PageInv, UNCHANGED <<vars, url>>, NEW w \in Windows, NEW v \in Window,
         NEW f \in [PayReqs -> WidgetStates],
         window' = [window EXCEPT ![w] = v], widget' = [widget EXCEPT ![w] = f],
         \A q \in PayReqs : f[q] \notin {"none", "error"} => pay[q].row # None,
         \A q \in PayReqs : Shown(w, q) => f[q] \notin {"none", "error"},
         \A q \in PayReqs : f[q] = "success" => ShownPaid(w),
         v.pc # "none" => /\ v.order \in PayReqs /\ pay[v.order].row # None
                          /\ InWidget(w)' => f[v.order] \notin {"none", "error"},
         v.pc # "none" /\ v.ref # None => Owner(pay[v.order].row, v.ref),
         v.pc # "none" /\ v.link # None => Owner(pay[v.order].row, v.link),
         v.pc = "shop" => Paid(pay[v.order].row),
         v.mail = "completed" => ShownPaid(w)
  PROVE  PageInv'
<1>1. HostedPayTypeOK' /\ \A q \in PayReqs : AnswerOK(q)'
  BY CoreSame DEF PageInv, HostedPayTypeOK, AnswerOK, Owner
<1>2. window'[w] = v /\ widget'[w] = f
  BY DEF PageInv, HostedPayTypeOK
<1>3. \A q \in PayReqs : Shown(w, q)' <=> f[q] \notin {"none", "error"}
  BY <1>2 DEF Shown
<1>4. ShownPaid(w) => ShownPaid(w)'
  BY <1>3, CoreSame DEF ShownPaid
<1>5. WindowOK(w)'
  <2>1. Fits(w, window[w])'
    BY <1>2, <1>3, <1>4, CoreSame DEF Fits
  <2>. QED  BY <1>2, <1>3, <1>4, <2>1, CoreSame DEF WindowOK
<1>6. ASSUME NEW x \in Windows, x # w PROVE WindowOK(x)'
  <2>1. WindowOK(x) /\ window'[x] = window[x] /\ widget'[x] = widget[x]
    BY <1>6 DEF PageInv, HostedPayTypeOK
  <2>2. \A q : Shown(x, q)' <=> Shown(x, q)
    BY <2>1 DEF Shown
  <2>3. (InWidget(x)' <=> InWidget(x)) /\ (ShownPaid(x)' <=> ShownPaid(x))
    BY <2>1, <2>2, CoreSame DEF InWidget, ShownPaid
  <2>4. Fits(x, window[x])'
    BY <2>1, <2>2, <2>3, CoreSame DEF WindowOK, Fits
  <2>. QED  BY <2>1, <2>2, <2>3, <2>4, CoreSame DEF WindowOK
<1>. QED  BY <1>1, <1>5, <1>6 DEF PageInv

\* The widgets of the page change, and its window stays.
LEMMA WidgetsKeep ==
  ASSUME PageInv, UNCHANGED <<vars, url>>, NEW w \in Windows, NEW f \in [PayReqs -> WidgetStates],
         NEW m \in {window[w].mail, "none"}, window' = [window EXCEPT ![w].mail = m],
         widget' = [widget EXCEPT ![w] = f],
         \A q \in PayReqs : f[q] \notin {"none", "error"} => pay[q].row # None,
         \A q \in PayReqs : Shown(w, q) => f[q] \notin {"none", "error"},
         \A q \in PayReqs : f[q] = "success" => ShownPaid(w),
         window[w].pc = "none" \/ InWidget(w) \/ \A q \in PayReqs : f[q] = "none"
  PROVE  PageInv'
<1>. DEFINE v == [window[w] EXCEPT !.mail = m]
<1>1. window[w] \in Window /\ WindowOK(w)
  BY DEF PageInv, HostedPayTypeOK
<1>2. v \in Window /\ window' = [window EXCEPT ![w] = v]
  BY <1>1 DEF Window
<1>3. /\ v.pc = window[w].pc /\ v.order = window[w].order /\ v.ref = window[w].ref
      /\ v.link = window[w].link /\ v.mail \in {window[w].mail, "none"}
  BY <1>1 DEF Window
<1>. HIDE DEF v
<1>4. Fits(w, window[w])
  BY <1>1 DEF WindowOK
<1>5. v.pc # "none" => /\ v.order \in PayReqs /\ pay[v.order].row # None
                       /\ InWidget(w)' => f[v.order] \notin {"none", "error"}
  <2>1. widget'[w] = f
    BY DEF PageInv, HostedPayTypeOK
  <2>. QED  BY <1>3, <1>4, <2>1 DEF Fits, InWidget
<1>6. /\ v.pc # "none" /\ v.ref # None => Owner(pay[v.order].row, v.ref)
      /\ v.pc # "none" /\ v.link # None => Owner(pay[v.order].row, v.link)
      /\ v.pc = "shop" => Paid(pay[v.order].row)
      /\ v.mail = "completed" => ShownPaid(w)
  BY <1>3, <1>4 DEF Fits
<1>. QED  BY <1>2, <1>5, <1>6, WidgetsTurn

LEMMA RedirectKeeps ==
  ASSUME CoreInv, PageInv, UNCHANGED <<vars, url>>, NEW w \in Windows, NEW q \in PayReqs,
         Redirect(w, q)
  PROVE  PageInv'
<1>1. ~InWidget(w) /\ Answered(q) /\ Visits(w, q) /\ UNCHANGED widget
  BY DEF Redirect, InWidget
<1>2. Fits(w, window'[w])
  BY <1>1, VisitFits DEF Fits, PageInv, WindowOK
<1>. QED  BY <1>1, <1>2, VisitFits, WindowMoves

LEMMA OpenKeeps ==
  ASSUME CoreInv, PageInv, UNCHANGED <<vars, url>>, NEW w \in Windows, NEW q \in PayReqs,
         Open(w, q)
  PROVE  PageInv'
<1>. DEFINE f == [r \in PayReqs |->
                    CASE r = q -> "waiting"
                      [] r # q /\ widget[w][r] = "waiting" /\ window[w].pc = "closed" -> "left"
                      [] OTHER -> widget[w][r]]
<1>1. /\ Answered(q) /\ Visits(w, q) /\ widget' = [widget EXCEPT ![w] = f]
      /\ widget[w] \in [PayReqs -> WidgetStates] /\ widget[w][q] = "none"
  BY DEF Open, MayStart, PageInv, HostedPayTypeOK
<1>2. f \in [PayReqs -> WidgetStates] /\ f[q] = "waiting"
  BY <1>1 DEF WidgetStates
<1>3. \A r \in PayReqs : \/ r = q
                         \/ f[r] = widget[w][r]
                         \/ widget[w][r] = "waiting" /\ f[r] = "left"
  OBVIOUS
<1>. HIDE DEF f
<1>4. \A r \in PayReqs : Shown(w, r) => f[r] \notin {"none", "error"}
  BY <1>2, <1>3 DEF Shown
<1>5. \A r \in PayReqs : f[r] \notin {"none", "error"} => r = q \/ Shown(w, r)
  BY <1>1, <1>2, <1>3 DEF Shown
<1>6. \A r \in PayReqs : f[r] = "success" => ShownPaid(w)
  BY <1>2, <1>3 DEF PageInv, WindowOK
<1>7. \A r \in PayReqs : f[r] \notin {"none", "error"} => pay[r].row # None
  BY <1>1, <1>5, VisitFits DEF PageInv, WindowOK
<1>8. window[w].mail = "completed" => ShownPaid(w)
  BY DEF PageInv, WindowOK, Fits
<1>9. PICK v \in Window :
        /\ window' = [window EXCEPT ![w] = v] /\ v.pc = "loading" /\ v.order = q
        /\ v.link = None /\ v.mail = window[w].mail
        /\ pay[q].row # None /\ Owner(pay[q].row, v.ref)
  BY <1>1, VisitFits
<1>. QED  BY <1>1, <1>2, <1>4, <1>6, <1>7, <1>8, <1>9, WidgetsTurn

\* A widget without a window: the browser refused it, or there is no address.
LEMMA NoWindowKeeps ==
  ASSUME CoreInv, PageInv, UNCHANGED <<vars, url>>, NEW w \in Windows, NEW q \in PayReqs,
         OpenBlocked(w, q) \/ CreatePaymentFails(w, q)
  PROVE  PageInv'
<1>1. PICK to \in {"blind", "error"} :
        /\ Tells(w, q, to) /\ MayStart(w, q) /\ UNCHANGED window
        /\ to = "blind" => Answered(q)
  BY DEF OpenBlocked, CreatePaymentFails
<1>. DEFINE f == [widget[w] EXCEPT ![q] = to]
<1>2. /\ widget' = [widget EXCEPT ![w] = f] /\ widget[w][q] = "none"
      /\ widget[w] \in [PayReqs -> WidgetStates]
      /\ window[w].pc = "none" \/ InWidget(w)
  BY <1>1 DEF Tells, MayStart, PageInv, HostedPayTypeOK
<1>3. f \in [PayReqs -> WidgetStates] /\ f[q] = to /\ \A r \in PayReqs \ {q} : f[r] = widget[w][r]
  BY <1>2 DEF WidgetStates
<1>4. window' = [window EXCEPT ![w].mail = window[w].mail]
  BY <1>1 DEF PageInv, HostedPayTypeOK, Window
<1>5. to = "blind" => pay[q].row # None
  BY <1>1, AnsweredHasRow DEF CoreInv
<1>. HIDE DEF f
<1>6. \A r \in PayReqs : f[r] \notin {"none", "error"} => pay[r].row # None
  BY <1>3, <1>5 DEF PageInv, WindowOK, Shown, WidgetStates
<1>7. \A r \in PayReqs : Shown(w, r) => f[r] \notin {"none", "error"}
  BY <1>2, <1>3 DEF Shown
<1>8. \A r \in PayReqs : f[r] = "success" => ShownPaid(w)
  BY <1>3 DEF PageInv, WindowOK
<1>. QED  BY <1>2, <1>3, <1>4, <1>6, <1>7, <1>8, WidgetsKeep

\* A widget that finishes was shown a payment, and is told of a success only
\* by a message that says so.
LEMMA FinishKeeps ==
  ASSUME CoreInv, PageInv, UNCHANGED <<vars, url>>, NEW w \in Windows,
         onMsg(w) \/ WidgetPolls(w)
  PROVE  PageInv'
<1>1. PICK S \in SUBSET {"waiting", "left", "blind"}, s \in {window[w].mail, "cancelled"},
         m \in {window[w].mail, "none"} :
        /\ finish(w, S, s) /\ window' = [window EXCEPT ![w].mail = m]
        /\ s = "completed" => window[w].mail = "completed"
  <2>1. CASE onMsg(w)
    BY <2>1 DEF onMsg, Listening
  <2>2. CASE WidgetPolls(w)
    <3>1. window' = [window EXCEPT ![w].mail = window[w].mail]
      BY <2>2 DEF WidgetPolls, PageInv, HostedPayTypeOK, Window
    <3>2. finish(w, Deserted(w), "cancelled") /\ Deserted(w) \in SUBSET {"waiting", "left", "blind"}
      BY <2>2 DEF WidgetPolls, Deserted
    <3>3. window[w].mail \in {window[w].mail, "none"} /\ "cancelled" # "completed"
      OBVIOUS
    <3>. QED  BY <3>1, <3>2, <3>3
  <2>. QED  BY <2>1, <2>2
<1>. DEFINE f == [q \in PayReqs |-> IF widget[w][q] \notin S THEN widget[w][q]
                                   ELSE IF s = "completed" THEN "success" ELSE "cancel"]
<1>2. widget' = [widget EXCEPT ![w] = f] /\ widget[w] \in [PayReqs -> WidgetStates]
  BY <1>1 DEF finish, PageInv, HostedPayTypeOK
<1>3. f \in [PayReqs -> WidgetStates]
  BY <1>2 DEF WidgetStates
<1>4. \A q \in PayReqs : \/ f[q] = widget[w][q]
                         \/ Shown(w, q) /\ f[q] = "cancel"
                         \/ Shown(w, q) /\ f[q] = "success" /\ window[w].mail = "completed"
  BY <1>1 DEF Shown, WidgetStates
<1>5. (\A q \in PayReqs : f[q] = "none") \/ InWidget(w)
  BY <1>4 DEF Shown, InWidget
<1>. HIDE DEF f
<1>6. \A q \in PayReqs : Shown(w, q) <=> f[q] \notin {"none", "error"}
  BY <1>2, <1>4 DEF Shown
<1>7. \A q \in PayReqs : f[q] = "success" => ShownPaid(w)
  BY <1>4 DEF PageInv, WindowOK, Fits
<1>8. \A q \in PayReqs : f[q] \notin {"none", "error"} => pay[q].row # None
  BY <1>6 DEF PageInv, WindowOK
<1>. QED  BY <1>1, <1>2, <1>3, <1>5, <1>6, <1>7, <1>8, WidgetsKeep
-----------------------------------------------------------------------------

LEMMA PageStart == HInit => PageInv
<1>. SUFFICES ASSUME HInit PROVE PageInv
  OBVIOUS
<1>1. /\ \A q \in PayReqs : pay[q].row = None /\ url[q] = None
      /\ \A w \in Windows : /\ window[w].pc = "none" /\ window[w].mail = "none"
                            /\ \A q \in PayReqs : widget[w][q] = "none"
  BY DEF HInit, Init, DepositsInit, HostedPayInit, NoWindow
<1>2. HostedPayTypeOK
  BY DEF HInit, HostedPayInit, HostedPayTypeOK, NoWindow, Window, WidgetStates
<1>. QED  BY <1>1, <1>2 DEF PageInv, AnswerOK, WindowOK, Fits, Shown

LEMMA PageStep == CoreInv /\ CoreInv' /\ PageInv /\ [HNext]_hvars => PageInv'
<1>. SUFFICES ASSUME CoreInv, CoreInv', PageInv, [HNext]_hvars PROVE PageInv'
  OBVIOUS
<1>1. [Next]_vars
  BY BrowserLeavesCore
<1>2. CASE Next /\ hostedPayURL /\ UNCHANGED <<window, widget>>
  BY <1>1, <1>2, CorePages
<1>3. CASE UNCHANGED hvars
  BY <1>1, <1>3, CorePages DEF hvars, browserVars
<1>4. ASSUME NEW w \in Windows, BrowserStep(w), UNCHANGED <<vars, url>>
      PROVE  PageInv'
  <2>1. CASE Load(w)                      BY <1>4, <2>1, LoadKeeps
  <2>2. CASE Poll(w)                      BY <1>4, <2>2, PollKeeps
  <2>3. CASE onMsg(w) \/ WidgetPolls(w)   BY <1>4, <2>3, FinishKeeps
  <2>4. CASE LoadMissing(w) \/ CloseItself(w)   BY <1>4, <2>4, MovesKeep
  <2>. QED  BY <1>4, <2>1, <2>2, <2>3, <2>4 DEF BrowserStep
<1>5. ASSUME NEW w \in Windows, PayerStep(w), UNCHANGED <<vars, url>>
      PROVE  PageInv'
  <2>1. CASE \E q \in PayReqs : Redirect(w, q)   BY <1>5, <2>1, RedirectKeeps
  <2>2. CASE \E q \in PayReqs : Open(w, q)       BY <1>5, <2>2, OpenKeeps
  <2>3. CASE \E q \in PayReqs : CreatePaymentFails(w, q) \/ OpenBlocked(w, q)
    BY <1>5, <2>3, NoWindowKeeps
  <2>4. CASE PayNow(w) \/ BackFromGateway(w) \/ BackToShop(w) \/ Reload(w) \/ Close(w)
    BY <1>5, <2>4, MovesKeep
  <2>. QED  BY <1>5, <2>1, <2>2, <2>3, <2>4 DEF PayerStep
<1>. QED  BY <1>2, <1>3, <1>4, <1>5 DEF HNext

LEMMA PagesHold == HSpec => [](CoreInv /\ PageInv)
<1>1. HSpec => [](Sound /\ DepositInv) /\ [](Sound /\ RowsInv)
  BY HostedPayReadsOnly, DepositsHold, RowsHold, PTL
<1>2. (Sound /\ DepositInv) /\ (Sound /\ RowsInv) => CoreInv
  BY DEF CoreInv
<1>3. HSpec => []CoreInv
  BY <1>1, <1>2, PTL
<1>. QED  BY <1>3, PageStart, PageStep, PTL DEF HSpec

\* Pages, polls and widgets stay in the states the handler and the script know.
THEOREM HostedPayTypeCorrect == HSpec => []HostedPayTypeOK
<1>1. PageInv => HostedPayTypeOK
  BY DEF PageInv
<1>. QED  BY <1>1, PagesHold, PTL

\* The widget calls onSuccess only in a page that was shown a payment that was
\* paid, with any number of windows, of widgets and of renewals in between.
THEOREM SuccessIsPaidHolds == HSpec => []SuccessIsPaid
<1>1. CoreInv /\ PageInv => SuccessIsPaid
  BY DEF PageInv, WindowOK, ShownPaid, Shown, SuccessIsPaid
<1>. QED  BY <1>1, PagesHold, PTL

\* The page and its polling lead to the return_url with status=completed only
\* for an order that was paid, whatever reference the window came by.
THEOREM ShopToldPaidHolds == HSpec => []ShopToldPaid
<1>1. CoreInv /\ PageInv => ShopToldPaid
  BY DEF PageInv, WindowOK, Fits, ShopToldPaid
<1>. QED  BY <1>1, PagesHold, PTL
=============================================================================
