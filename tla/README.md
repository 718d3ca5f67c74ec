# ABMCY Core: specification, model checking and proofs

ABMCY Core sits between client applications (shops, booking sites) and the
DIARRA payment gateway. An application asks for a deposit, a payout or a
refund under its own `app_ref`; ABMCY Core keeps one row per operation, asks
DIARRA for a transaction under a reference of its own, and learns the outcome
from the reply and from signed callbacks. Two replicas of the Go server run
over one PostgreSQL database and share nothing else. This directory models that
program in TLA+, checks it with TLC on small instances and proves what matters
most with TLAPS for every instance.

## Inventory

| part of the system | state it keeps | operations | modules | hard behaviour |
|---|---|---|---|---|
| commission (`internal/fees`) | none | `Compute` | `Fees`, `FeesCheck` | rounding to the dollar begun, cap at the amount, absent rate |
| vocabulary (`internal/model`) | constants | `MaxAmountFor`, `normalizeStatus` (in the handler) | `PaymentModel` | statuses that are not ours |
| store (`internal/repository/app_repo.go`, migrations 001, 004, 006, 007) | table `payments` | insert, three lookups, three updates | `PaymentStore` | each statement is atomic, a handler is not; a statement may fail before or after it commits |
| registry (`apps` table, admin handlers, `RequireApp`) | `kyc_level`, `is_active` | `SetAppKYC`, `SetAppActive` | `AppRegistry` | the level changes between the check of the cap and the insertion |
| DIARRA (external; client in `internal/gateway`) | orders received, transactions | accept, settle | `Diarra` | accepts after the client's 30 s timeout, or never |
| deposits (`Pay`, `refreshDepositLink`, `TestPay`) | one handler per request | lookup, cap, insert, reselect, call, link, fail, renew | `Deposits` | concurrent requests under one `app_ref`; renewal replaces the reference of the row |
| transfers (`Payout`, `PayoutForAdmin`, `Refund`, `RefundDeposit`) | one handler per request | lookup, cap, snapshot of the deposit, insert, call, note, fail | `Transfers` | sending money twice; a reply older than a callback |
| callback (`DiarraCallback`) | one handler per delivery; reports DIARRA saw answered 200 | deliver, find or find nothing, apply, drop | `Webhook` | a 200 that is lost, duplicate and overlapping deliveries; a report that finds no row, or comes before it can |
| the whole (`cmd/server`) | all of the above | all of the above | `Orchestrator`, `Ledger`, `Bookkeeping` | any interleaving of the above, crashes |
| relay to the application (`RelayPayment`, the relay button of the console) | `relay_status`, `relay_attempts`; goroutines | start, sign, post, record, reload | `Relay` | goroutines out of order, a lost answer, an outcome not recorded |
| hosted page and widget (`HostedPay`, `HostedPayStatus`, `widget.go`) | browser windows and their openers | open, load, pay, return, poll, go back to the shop, post a message, listen, close | `HostedPay` | an address whose reference left the row; widgets that share a window and hear one another; polling that gives up |
| signups (`signup_handler.go`, `signup_repo.go`, the page of the console) | `signup_requests`, the list and the keys on display | form, load, approve, reject, hide | `Signups` | concurrent reviews of one request; an approval is three statements |
| migrations (`cmd/migrate`, `docker-entrypoint.sh`, `internal/db`) | `schema_migrations`, one process per replica | create the table, check, apply, record, commit, serve, restart | `Migrate` | replicas of two images migrate at once; a stop between two statements |
| dashboard (`stats_repo.go`, `GET /admin/stats`) | the answer under construction | four queries | `Stats` | figures of one answer read at four moments |
| authentication, listings, console, landing, docs, manifests | | | not modelled | cryptography, presentation, static text |

### How the parts interact

A handler of `/v1` runs after `RequireApp` found an active application. It
reads and writes `payments` one statement at a time and calls DIARRA
synchronously in between, with no transaction and no lock around the whole. The
only thing that orders two requests under one `app_ref` is the unique index
`(app_id, app_ref, type)` of migration 006. DIARRA answers the call, and later
posts the final status to `/webhooks/diarra` until it is answered 200. The
callback finds the row by `diarra_client_ref` and overwrites its status without
looking at the old one; so do the reply of a payout or a refund, and the
`failed` that follows an error of the call. A report that finds no row, or
whose lookup fails, is answered 200 all the same. A deposit whose link is missing or
older than 23 hours is given a new transaction, whose reference replaces the
old one on the row.

A callback that updated its row starts a goroutine that posts the status to the
application's `callback_url` and records the outcome on the same row; the
console starts the same relay by hand, synchronously. The payer's browser opens
`/pay/{ref}` from the answer of `Pay`, in the shop's window or in one the widget
opened; the page reads the row by that reference, sends the payer to DIARRA,
polls when the payer is back, and posts its status to its opener. All the
widgets of a shop's page open the window `abmcy_pay`: a second one takes it
over, and every listener hears every message. Signups touch none of this but
the creation of an application.

The console's dashboard reads `payments` with four `SELECT`s outside any
transaction, while all of the above goes on. Each replica runs `./migrate`
before its server; replicas that start together meet in `schema_migrations`
only.

## Modules

    PaymentModel   Fees
         |           |
    AppRegistry      |
         \          /
         PaymentStore
              |
            Diarra
          /   |    \
    Deposits Transfers Webhook
          \   |    /
         Orchestrator ------------ Bookkeeping --- MCPay
          |      |   \              (L == Ledger)  \
          |      |    OrchestratorProofs    |     Stats --- MCStats
          |      |      | (+ AmountProofs)  |       |
          |      |    CompletionProofs -- BookkeepingProofs
          |      |                          |
     HostedPay  Relay --------------- ClientProofs
          |      |                   (+ HostedPay)
    MCHostedPay MCRelay

    Fees ---- FeesCheck - MCFees       Signups - MCSignups       Migrate - MCMigrate
      \           \                        \                         \
    AmountProofs - CommissionProofs      SignupsProofs             MigrateProofs

`Relay` and `HostedPay` extend `Orchestrator` with state of their own and leave
its actions as they are; `Relay` replaces the step that applies a callback by
the same step and the start of a goroutine. `Stats` adds the dashboard, which
only reads.

**Identifiers.** An HTTP request has an identifier in `Ids`. It makes at most
one row, one `diarra_client_ref` and one gateway transaction, and they carry
its identifier: `payments[q]` is the row request `q` inserted, `tx[q]` the
transaction DIARRA keeps under the reference `q` drew. This states that UUIDs do not
collide. A renewal writes `ref = q` on a row that is not row `q`: what is
found under `q` then is another request's payment, and that is where the
interesting errors are.

**Handlers.** `pay[q]`, `xfer[q]` and `hook[d]` hold the program counter and the
local variables of a handler. Each action is one statement or one exchange.
The names of the actions follow the handlers:

| step of `Pay` | lines | action |
|---|---|---|
| lookup | 113-122 | `PayFound`, `PayNotFound` (any error counts as absent) |
| cap | 124-143 | `PayCap` |
| `INSERT .. ON CONFLICT DO NOTHING` | 160-176 | `PayInsert` |
| reselect the conflicting row | app_repo.go 170-173 | `PayReselect` |
| `CreateDeposit` | 181-189 | `PayCall`, then `PayReply` or `PayCallFails` |
| failure | 189-195 | `PayFail` |
| record the link | 196-203 | `PayLink` |
| `refreshDepositLink` | 218-248 | `RefreshCall`, `RefreshReply`, `RefreshCallFails`, `RefreshLink` |

The four transfer handlers share their second half, so one set of actions
(`XferInsert`, `XferCall`, `XferReply`, `XferCallFails`, `XferNote`,
`XferFail`) serves them; what differs before it is in `PayoutArrive`,
`AdminPayoutArrive`, `RefundArrive`, `AdminRefundArrive`, `PayoutCap` and
`RefundReadsDeposit`, and what differs after it in `XferEnds`.

`hook[d]` is a callback being handled: it finds its row, or nothing (`absent` for
no row, `unread` for a lookup that failed), and only then, in a step of its own,
answers 200 (`CallbackApplied`, `CallbackDropped`). `acked` holds the references
for which a 200 reached DIARRA; one that is lost on the way (`Answered200`) makes
DIARRA deliver the report again. The `redirect_url` of a reply may be empty,
which leaves the row without a link (`RedirectURL`).

**Relay.** `relay[g]` is one run of `RelayPayment`: a goroutine, or a handler
of the console. It works on a snapshot of the payment (`row`, `status`).
`heard[p]` and `accepted[p]` are what the application received and what it
answered 2xx. A payment may have no `callback_url`, one no request can be made
for (line 697 returns without recording anything), or one of the application.

**Ledger.** `Ledger` is what ABMCY Core promises, with no request, reference,
reply or callback in it: a payment is entered once under its key and on terms
that never change, a transfer is ordered from DIARRA at most once, a refund is
entered against a deposit that was paid, and a payment is shown as completed
only when its money moved. `Bookkeeping` says how the orchestrator keeps it
(`L == INSTANCE Ledger WITH ...`): the book is the frozen terms of the rows, the
orders are the transfers `asked` of DIARRA, a payment is settled when a
transaction linked to it completed (`Paid`), and shown when its row says so.

**Dashboard.** `dash` is the query under way and the lines of the one answered
before it. Rows of a run are younger than the window of the request, so the
date filter lets them through. The operators of payouts are taken together.

**Start of a replica.** `replica[r]` is the container of a replica: where
`./migrate` is in its loop, and on which file, or the server behind it.
`Files[r]` is how many files its image has; names are sorted, so a file is a
number. `applied` counts how often the statements of a file were committed. A
transaction waits for another that has inserted the same name (`Inserting`) and
fails on the primary key once that one is committed. `log.Fatal` and `set -e`
end the container, and Kubernetes restarts it. The SQL of a file is one step:
what it does before `COMMIT` nobody sees.

**Page and widget.** `window[w]` is a window of a payer and `widget[w][q]` what
the widget started for the answer to Pay request `q` in the shop's page behind
that window has told the shop. The widgets of a page share the window and each
has a listener; one whose window was closed, and whose name another window has
since, is `left`; one the browser refused a window is `blind`, and hears the
others' messages all the same. `url[q]` is the reference in the
`hosted_pay_url` of the answer to Pay request `q`: that of the row when the
handler read or inserted it, or the new one after a renewal the handler was told
of: when the update of a renewal commits but reports an error, the answer holds
the old reference (`told`). The page posts its
status before its script may close the window 2 s later, so a message is
delivered before a window that closes itself is closed; the payer may close it
at any moment. `window.opener` survives the visit to DIARRA's page.

**Signups.** A request keeps the address as the visitor wrote it, and `Lower` is
what the index makes of it; `mail.ParseAddress` accepts a name before the
address, which the index takes for another one. `calls[k]` is a handler of an
approval or a rejection, and the application it creates bears its name. `page[c]` is a page of the console: the
rows it last loaded, the one row whose buttons are disabled, the keys on
display. It may keep a list for as long as it likes: the reload that follows an
answer is `load`, at any later moment or never.

**Failures.** `DbFails` lets any statement report an error: a read returns
nothing, a write may have committed all the same (`FailedWrite`, `Attempt`).
`Crashes` stops a handler between two steps (`PayDies`, `XferDies`,
`CallbackDies`). The wait on DIARRA may end in `PayCallFails` at any moment, before or
after `Accept`: refusal, lost answer and timeout look alike to the client.

**Abstractions.** Links are the identifiers of the transactions they open.
Descriptions, phone numbers, providers and failure reasons are left out. `old`
stands for "created more than 23 hours ago" and becomes true once no handler of the request
that inserted the row is running, which is what 23 hours mean against a 30 s
timeout. A transaction may end in a status that is not one of ours (`expired` in
run `payouts`): the callback's update is then refused by the `CHECK` of the
table. Signatures are verified. The default `refund-<app_ref>`
is the function `RefundRefOf`.

## Runs

| run | instance | what it shows |
|---|---|---|
| `fees` | amounts -2..260, nine rates | `FeeIsCeiling`, `FeeCountsDollars`, `FeeSteps` |
| `pay_race` | two requests (one from the test page), two applications, one `app_ref`, 600 and 300000 F, failures, crashes | `NoFalseCompletion`, `SameTransaction`, `LinkProvenance`, `CapRespected`, `ReportFindsItsPayment`, `FrozenTerms`, `ImplementsLedger` |
| `payouts` | two requests of an application for a payout and one of the console under one `app_ref`, 40 F (less than the commission) and 600 F, the foreign statuses `submitted` and `expired`, failures, dashboards | `TypeOK`, `SingleTransfer`, `ImplementsLedger`, `FiguresGrow`, `CountedCompletedIsPaid` |
| `refunds` | a deposit, one refund by the application, one by the console, crashes, fairness | `SingleTransfer`, `RefundBacked`, `EveryRequestAnswered`, `PaidIsRecorded`, `ImplementsLedger` |
| `relay` | a deposit with every kind of `callback_url`, two deliveries, two relays at a time | `RelayTypeOK`, `ToldCompletedIsPaid`, `RecordedAsItWent`, `CoreUndisturbed`, `OutcomeTraced` |
| `hosted` | one window, two Pay requests for one order or two, one `return_url`, renewals, widgets that share the window, fairness of the timers | `HostedPayTypeOK`, `SuccessIsPaid`, `ShopToldPaid`, `PollingEnds`, `WidgetAnswers` |
| `migrate` | two replicas with three files, one with two, two failures or stops | `TypeOK`, `AppliedOnceIffRecorded`, `RecordedInOrder`, `ServesOnItsSchema`, `EveryReplicaServes` |
| `signups` | two requests, three spellings of one address, two pages, three calls, failures, crashes | `TypeOK`, `ApprovedOwnsApp`, `OrphansExplained`, `ShownKeysOfReviewed` |
| `callback_lost` | two requests for one deposit, fair callbacks | violates `CallbackReachesPayment` |
| `status_payout` | one payout that fails | violates `StatusUpToDate` |
| `widget_cancel` | one deposit, one window | violates `CancelIsFinal` |
| `approved_twice` | one request, two pages, two calls | violates `OneAppPerRequest` |

Deadlock is not checked: a finite set of requests, all answered, is a proper
end, and so is a set of windows all closed, of requests all reviewed or of
replicas that all serve.

**Bounds.** The hazards are races of two handlers of one key with the gateway
and the callback, so two requests per key are enough for each of them to
happen: lookup-lookup-insert-conflict, renewal against callback, late failure
against callback, refund against renewal. Two amounts, one above the lower cap,
separate the amount of a request from the amount of the row it ends up with.
One delivery in progress at a time (`Deliveries`) still lets a report be
delivered again and again, and be overtaken by every other step; `relay` has
two, so that two relays of one report may overlap.
`Relays` bounds the relays in progress. `MaxAttempts` bounds the attempts
recorded on a row: at that number the console no longer resends, and one above
it a callback no longer starts a relay, although a lost 200 lets DIARRA repeat
its report without end. `MaxTries` is 40 in the code; nothing depends on its size but the number of polls without an answer,
so that one poll more than the bound is enough. In `payouts`, which only checks
safety, no process stops: a handler that is never scheduled again leaves the
same rows and orders behind; crashes are in `pay_race` and `refunds`, and in
the proofs. Its two requests of the application are
interchangeable (`PayoutSymmetry`), and as they share a key with the console's,
a dashboard there counts one payment or none: what the figures may do while a
row appears, moves and its application is turned off is all in that. `refunds`
has one deposit request, so no renewal changes the reference a refund names; the
theorem covers it. `MaxStops` bounds the failures of `migrate`: with two, each
of two replicas may lose a race, or one may fail twice. With three calls on two
requests a request may be approved twice and rejected in between.

**What the properties say.** `NoFalseCompletion` is the one that matters most:
a row marked completed is backed by a transaction that completed, of the same
type, asked for on behalf of this very row and for its amount. It relates the
row, the gateway and the request that called it, and survives a renewal in the
middle of a callback only because a renewal asks for the amount of the row.
`SingleTransfer` says money leaves once per `app_ref`. `RefundBacked` ties a
refund to a deposit of the same application that some transaction paid.
`LinkProvenance` and `SameTransaction` keep two applications, and two orders,
apart. `ReportFindsItsPayment` is what protects the callback from its own 200: a
report that found no row is none of a payment under its first reference, because
Pay and the transfers insert before they call DIARRA. It says no more than the
code keeps: a reference that a renewal draws is on the row only after DIARRA was
asked, and a report that comes in between finds nothing and is dropped.
`ToldCompletedIsPaid`, `SuccessIsPaid` and `ShopToldPaid` carry the same truth
to the three parties outside: the application, the widget of the shop, the
shop's `return_url`. `SuccessIsPaid` says less than one would like: a page that
reports a success was shown a payment of its own that was paid, and when the
page started two, it need not be the one that is named, because the widget does
not look at the `ref` of the message. `CancelIsFinal` is stated of pages with
one widget, where no other explanation is left. `CoreUndisturbed` is a refinement: hide the relay, and
every step is one of the orchestrator's. `ImplementsLedger` hides everything but
the book: each step of each handler, callback and transaction is a step of the
ledger or none. `FiguresGrow` says that the totals, then the lines by type, then
those by application, add up to more and more and never to less, and
`CountedCompletedIsPaid` that a success counted for an application is a payment
whose money moved, although its row may since say otherwise (`status_payout`).
`ServesOnItsSchema` ties what a server needs to what other replicas have
committed, and `EveryReplicaServes` says that losing a race costs a restart and
no more. `OrphansExplained` lists the only ways in
which an application may exist that its request does not name.

**Findings.** The four violating runs quote what the documentation or a comment
promises; the traces are short and realistic.

- `callback_lost`: a deposit is answered with its link; a request that had read
  the row before the link was on it takes it for expired and renews it, and the
  report that the first link was paid names a reference that is not on the row
  any more: it is answered 200 and the deposit stays `pending`.
- `status_payout`: a payout that ended goes back to `pending` for ever. The
  callback wrote its status, then the handler wrote that of the older reply.
- `widget_cancel`: the widget calls `onCancel` as soon as its window shows a
  pending payment; the success that follows is ignored.
- `approved_twice`: two approvals of one request that overlap create two
  applications.

Seen on the way and left without a run of their own. Reports are lost in three
other ways: a renewal's transaction ends at once and its report is looked up
before the reference is on the row; a lookup that fails is taken for an unknown
reference; and the reference of a request that lost the race of the insertion is
never written. That request also puts its own link over the first one, although
`INTEGRATION.md` line 142 promises that a link never differs. A payout that
completed may show `failed`, when the timeout fires, the callback writes
`completed` and the handler then writes the failure. An approval that fails after
it created the application is tried again and creates another. `awa@x` and
`Awa <awa@x>` may wait at the same time, although migration 005 promises one
pending request by address. Moreover a refund may name a reference nobody paid, when a
renewal and a callback cross; a retry after `502 payment_init_failed` is
answered the failed payment without a link; the comment on `Dashboard`
(`stats_repo.go` line 55) says that payments which never left are excluded, and
no query has such a condition, so that payments DIARRA was never asked for count
in the volumes and in the commission; a payout of the console that is submitted
again after a lost answer has a new `app_ref` and is paid twice.

**Fairness.** In `refunds`, a handler that can take a step takes it
(weak fairness of `PayStep`, `XferStep`): the only waits are the database and
DIARRA, and `http.Client.Timeout` ends the second. DIARRA repeats a report
until a 200 reaches it; a callback handler does not die every time, nor is its
200 lost every time (strong fairness of `Deliver`, `CallbackFindsPayment`, and
of `CallbackApplied` and `CallbackDropped` with an answer that arrives).
DIARRA need not accept or settle anything.
In `relay` (`RFairSpec`) a goroutine takes its next step: its waits are the
database and the application, and a context of 10 s ends the second; the
application need not answer. In `hosted` (`HFairSpec`) a page that loads ends
loading, a page that polls polls again (`setInterval`), and the widget handles
messages and looks at its window (`setInterval` again); payer, shop and server
need not do anything. In `migrate` (`FairSpec`) a process that runs goes on
(its only waits are for locks of transactions that end) and Kubernetes restarts
a container that ended; failures are bounded by `MaxStops`, since a migration
that always fails never lets a server start.

## Proofs

| theorem | module | says |
|---|---|---|
| `CommissionIsCeiling`, `CommissionCountsDollars`, `CommissionSteps` | `CommissionProofs` | `FeeIsCeiling`, `FeeCountsDollars` and `FeeSteps` for every range of amounts and every set of rates |
| `FeeBounds` | `AmountProofs` | `0 <= fee <= amount` |
| `TypeCorrect` | `OrchestratorProofs` | `Spec => []TypeOK` |
| `FrozenTermsHold` | `OrchestratorProofs` | `Spec => FrozenTerms` |
| `SingleTransferHolds` | `OrchestratorProofs` | `Spec => []SingleTransfer` |
| `NoFalseCompletionHolds` | `CompletionProofs` | `Spec => []NoFalseCompletion` |
| `SameTransactionHolds`, `LinkProvenanceHolds` | `CompletionProofs` | `Spec => []SameTransaction`, `Spec => []LinkProvenance` |
| `ReportFindsItsPaymentHolds` | `CompletionProofs` | `Spec => []ReportFindsItsPayment` |
| `RefundBackedHolds`, `CapRespectedHolds` | `BookkeepingProofs` | `Spec => []RefundBacked`, `Spec => []CapRespected` |
| `LedgerImplemented`, `BookIsSoundHolds` | `BookkeepingProofs` | `Spec => ImplementsLedger`, and the ledger's invariant of the rows |
| `DashboardReadsOnly`, `CountedCompletedIsPaidHolds` | `BookkeepingProofs` | `SSpec => Spec /\ ImplementsLedger`: dashboards change nothing; `SSpec => []CountedCompletedIsPaid` |
| `FiguresGrowHolds` | `BookkeepingProofs` | `SSpec => FiguresGrow`, for finitely many applications |
| `RelayImplements` | `ClientProofs` | `RSpec => CoreUndisturbed`: with relays, still an orchestrator |
| `TypeCorrectWithRelays`, `FrozenTermsWithRelays`, `CompletionWithRelays`, `LedgerWithRelays` | `ClientProofs` | what was proved of `Spec`, of `RSpec` |
| `RelayTypeCorrect`, `ToldCompletedIsPaidHolds`, `RecordedAsItWentHolds` | `ClientProofs` | the invariants of run `relay` |
| `HostedPayReadsOnly` | `ClientProofs` | `HSpec => Spec /\ ImplementsLedger`: with pages and widgets, still an orchestrator |
| `HostedPayTypeCorrect`, `SuccessIsPaidHolds`, `ShopToldPaidHolds` | `ClientProofs` | the invariants of run `hosted` |
| `SignupsTypeCorrect`, `ApprovedOwnsAppHolds`, `OrphansExplainedHolds`, `ShownKeysHold` | `SignupsProofs` | the invariants of run `signups` |
| `MigrateTypeCorrect`, `AppliedOnceHolds`, `RecordedInOrderHolds`, `ServesOnItsSchemaHolds` | `MigrateProofs` | the invariants of run `migrate` |

`AmountProofs` holds the lemmas about amounts that the others use. The commission
rests on one lemma about `\div` (`DivBounds`) from which `DollarsCeil` gives the
ceiling. `FeeCountsDollars` counts: the dollars that cost
less than the amount are an interval (`BegunIsInterval`), and `FS_Interval` says how
many members an interval has. `TypeCorrect` is inductive as it stands once
the type invariant says that a stored row has an application and an `app_ref`
and that a handler that left `idle` has them too; it needs `FeeBounds` for the
net amount to be a natural number.

`FrozenTerms` is not inductive: an insertion could overwrite a row. The
strengthening is `NotYetStored` (a handler that has not inserted yet owns no
row) and `UniqueKey` (the unique index). The proof goes through the *effect* of
a step (`DepositsEffect`, `TransfersEffect`, `OtherEffect`): it keeps the terms
of every row, or it inserts one row under a free key; everything after that
argues about effects and never opens an action again.

`SingleTransfer` adds one invariant, `AskedOwns`: a request that stands at the
call to DIARRA, or has asked, owns a row under its own key. The row was inserted
before the call and its terms are frozen, so it stays; two requests that asked
under one key would own two rows with it.

`NoFalseCompletion` needs to know where references come from, because a report
is attached to a row by reference. `CompletionInv` says that a row bears the
reference it was inserted with or one a renewal asked for on its behalf
(`RefOK`, `Linked`); that a handler that asked never turns to another row, and
one that lost the race at the insertion has no row of its own (`VisitOK`); that
a noted status is one the transaction of this very request had (`RequestOK`);
that a report in progress is final and about the row it found (`ReportOK`); and
that DIARRA knows only what it was asked (`Known`). As before, the proof goes
through effects: `VisitSteps`, `RequestSteps`, `RowSteps`, `GatewaySteps` and
`ReportSteps` say what any step of the system does to one handler, one row, one
transaction and one report, and the preservation of the invariant is argued
from these alone.

`SameTransaction` and `LinkProvenance` rest on `DepositInv`: a handler that holds
a row holds one of its own application, `app_ref` and type (`HandOK`), so two
answers under one key hold the same row by `UniqueKey`; and a link on a row
belongs to a transaction whose request had the key of the row (`LinkOK`).

`ReportFindsItsPayment` must hold for as long as the report waits for its 200,
while rows are inserted and references written. `RowsInv` says that a request with a
row of its own holds that row and no other (`RowHand`), and that a name without a
row bears no reference (`Unreferenced`): a lookup that finds nothing is then one
of a reference its row, if there is one, does not bear. The transaction was asked
for, so that row is inserted before or never (`VisitOK`, `RequestOK`); and the
only step that writes a reference is a renewal, whose handler has no row of its
own, so it never puts a first reference back. `RowsInv` is also what
`SuccessIsPaid` rests on.

`RefundBacked` needs `RefundInv`: what the handler of a refund read of the
deposit stays true of it (`Snapshot`), because terms are frozen and a deposit
that was paid stays paid (`PaidStays`); and a row marked completed bears a
reference DIARRA was asked for (`RefAsked`), so the snapshot names a
transaction of the deposit even when a renewal crossed it. `CapRespected`
carries the cap from the handler that checked it to the row (`CapInv`); a refund
has the amount of a deposit, which is why it needs `RefundInv` as well.

`LedgerImplemented` sorts the steps of the orchestrator into the kinds that
matter to the book (`StepKinds`): an insertion is `Enter`, a call to DIARRA is
`Order` (a transfer) or nothing (a deposit), the end of a transaction is
`Settle` or nothing, a write of one row is `Mark`, `Unmark` or nothing, and all
else leaves the book alone. The guards of the ledger's actions are what
`LedgerInv`, the invariants above together, provides. A row that is not stored
has the terms `BookBlank` (`Blank`), so that an insertion starts from
`NoEntry`. `BookIsSoundHolds` then takes the ledger's own invariant back to the
rows.

`CountedCompletedIsPaid` compares a number read long ago with payments as they
are. `CountInv` says that the lines under construction count no more than the paid
payments of an application; a query counts stored rows shown as completed, which
`NoFalseCompletion` makes paid payments, and paid payments stay paid
(`PaidOfGrows`). Cardinalities only compare for finite sets, and `Ids` may be
infinite: `FewRows` says that finitely many rows are stored, because each step
inserts one at most.

`FiguresGrow` compares sums over sets, and a sum is a recursive fold of the
library. `AmountProofs` proves what that fold computes, without the library's
induction theorems, which take an operator as a parameter: a set of finite sets
has a smallest member (`SmallestSet`), hence induction over a finite set, stated
with a set in place of the predicate (`FiniteSetInduction`). From it follow that
the recursive function exists (`SumsExist`) and unfolds (`SumUnfolds`), that the
order of the fold does not matter (`SumAdds`), that sums over sets apart add up,
and that a sum by groups is the sum of the whole (`SumByGroups`). Each of the three
queries then answers lines that add up to `SumNow`, what all the rows of that
moment add up to (`QueryCountsAll`); `SumNow` never falls, since rows are only
added, their terms are frozen and no commission is negative (`NetWithin`); and
`SumsInv` carries the lines read so far from one query to the next. The theorem
assumes that there are finitely many applications, one line of an answer each.

`RelayImplements` shows that every disjunct of `RNext` is a step of the
orchestrator or leaves all its variables alone; the corollaries follow in
temporal logic alone. The invariants of the relay rest on `RelayInv`: a task
that posts `completed` was started by a step that read or wrote `completed` on
a row, which by `NoFalseCompletion` was paid, and what was paid stays paid
(`PaidStays`); an outcome under way is one the application gave (`TaskOK`).

`HostedPayReadsOnly` is the same argument for the browser. `SuccessIsPaid` and
`ShopToldPaid` are not inductive: a window knows its payment by a reference only,
and a renewal may have taken that reference off the row, or put another's on it.
`PageInv` says that the reference in an answer was drawn for the row the answer
was about (`AnswerOK`, `Owner`), and, of each window, that its address and its
button bear references of the payment it was opened for, which was shown to a
widget if the page has any, and that a message `completed` on its way comes from
a page that was shown a paid payment (`Fits`). `OwnerFinds` is the heart of it:
by `RowsInv` a row found under a reference of payment `p` is `p`, however many
renewals crossed. So a page shows its own payment or none (`PageFinds`), and
`NoFalseCompletion` does the rest. What a step of the orchestrator does to a page
is argued once (`CorePages`), and the steps of a browser through two lemmas:
the window moves (`WindowMoves`), or the widgets turn with it (`WidgetsTurn`).

`Migrate` has one inductive invariant, `IInv`: at each point of the loop a
replica has every earlier file recorded (`ReplicaOK`), and of two transactions
that inserted the same name at most one is not over (`OneHolder`), so a commit
never applies a file twice.

The invariants of `Signups` rest on one inductive invariant, `IInv`. What it
adds is `Handlers` (an application exists only for the call that created it,
and an answered approval left a reviewed request with an application),
`Unmade` (a request nobody made names no application) and `ShownDone` (keys on
display come from an answered approval). `OrphansExplained` needs the first:
without it a call could create its application a second time.

The proofs assume only what the modules' `ASSUME`s say of the constants, and
finitely many `Apps` in `FiguresGrowHolds`. Any number of requests, applications, amounts, deliveries,
relays, windows and widgets is covered, with failures and crashes.

Every invariant and every action property a passing run checks is proved, and so
are both refinements. Only model-checked are the liveness properties
(`EveryRequestAnswered`, `PaidIsRecorded`, `OutcomeTraced`, `PollingEnds`,
`WidgetAnswers`, `EveryReplicaServes`), because the provers do not reason about
fairness and `ENABLED`.

## Not modelled

The listings of the console are read-only queries that nothing depends on. The
signature check and the five minutes' window of `RequireApp` are cryptography
and a clock. The landing page, the test page, the integration sheet and most of
the console are presentation. `GetDeposit`, `GetPayout` and `GetRefund` of the
client are never called. Of the deployment, the probes, the ingress and the
`preStop` pause are left out. What the SQL of a migration does to the tables is
not modelled, nor the window of days of the dashboard.

Hazards that no property covers, because the code has nothing to state: a row
left pending by a crash is never taken up again; a relay whose process stops is
started again by the console only; a `callback_url` that does not parse ends a
relay without a trace; a completed payment redirected before the script runs
never calls `onSuccess`; a level lowered between the check of the cap and the
insertion; a payout of the console that is submitted twice.

## Plan

1. Done: the core (`Orchestrator` and what it is made of), the ledger it
   implements, `Relay`, `HostedPay`, `Signups`, `Stats`, `Migrate`, and the
   proofs above.
2. Done: the invariants of the browser and of the commission, both properties of
   the dashboard and `ReportFindsItsPayment`, proved as well.
