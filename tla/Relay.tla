-------------------------------- MODULE Relay --------------------------------
(***************************************************************************)
(* What the application hears.  A callback that was applied starts a       *)
(* goroutine that posts the status to the callback_url of the payment and  *)
(* records the outcome; the console starts the same relay by hand.  The    *)
(* status posted is the one its caller had in hand.  Added to the          *)
(* orchestrator, whose steps it leaves as they are.                        *)
(***************************************************************************)
EXTENDS Orchestrator

CONSTANTS
  Relays,       \* relays that may be in progress at one time
  MaxAttempts   \* bound: no relay of the console begins once as many attempts are
                \* recorded, and none of a callback once there are more

ASSUME RelayAssumption == MaxAttempts \in Nat

VARIABLES
  callback,   \* callback_url of each payment: none, one no request can be made
              \* for, or one of the application
  relay,      \* each relay in progress
  relayed,    \* columns relay_status and relay_attempts of each row
  heard,      \* statuses the application was sent for each payment
  accepted    \* those it answered 2xx

relayVars == <<callback, relay, relayed, heard, accepted>>

Task == [pc      : {"idle", "sign", "post", "record", "reload"},
         by      : {"callback", "console"},
         row     : Ids \cup {None},
         status  : Statuses,                            \* the snapshot it posts
         outcome : {"delivered", "failed", "skipped"}]

RelayTypeOK ==
  /\ callback \in [Ids -> {"none", "unusable", "url"}]
  /\ relay \in [Relays -> Task]
  /\ \A g \in Relays : relay[g].pc # "idle" => relay[g].row \in Ids
  /\ relayed \in [Ids -> [status   : {"pending", "delivered", "failed", "skipped"},
                          attempts : Nat]]
  /\ heard \in [Ids -> SUBSET Statuses]
  /\ accepted \in [Ids -> SUBSET Statuses]

NoTask == [pc |-> "idle", by |-> "callback", row |-> None, status |-> "pending",
           outcome |-> "failed"]

\* The application chooses a callback_url with the payment, for good.
RelayInit ==
  /\ callback \in [Ids -> {"none", "unusable", "url"}]
  /\ relay = [g \in Relays |-> NoTask]
  /\ relayed = [p \in Ids |-> [status |-> "pending", attempts |-> 0]]
  /\ heard = [p \in Ids |-> {}]
  /\ accepted = [p \in Ids |-> {}]

\* RelayPayment(p) begins, for a payment whose status was read as s.
StartRelay(g, p, s, by) ==
  /\ relay[g].pc = "idle"
  /\ relay' = [relay EXCEPT ![g] =
                 [pc      |-> IF callback[p] = "none" THEN "record" ELSE "sign",
                  by      |-> by,
                  row     |-> p,
                  status  |-> s,
                  outcome |-> IF callback[p] = "none" THEN "skipped" ELSE "failed"]]
  /\ UNCHANGED <<callback, relayed, heard, accepted>>

\* The callback is applied and its relay started before the answer 200.
CallbackRelays(d, g) ==
  /\ CallbackApplied(d)
  /\ relayed[hook[d].row].attempts <= MaxAttempts
  /\ StartRelay(g, hook[d].row, hook[d].status, "callback")
  /\ UNCHANGED <<registryVars, pay, xfer>>

\* POST /admin/payments/{id}/relay reads the row and relays what it read.
AdminRelays(g, p) ==
  /\ Stored(p) /\ relayed[p].attempts < MaxAttempts
  /\ StartRelay(g, p, payments[p].status, "console")
  /\ UNCHANGED payments

\* What the handler of the console answers is of no consequence to the rows.
After(g) == IF relay[g].by = "console" THEN [relay[g] EXCEPT !.pc = "reload"] ELSE NoTask

\* The application is read for its secret; then the request is made.  An
\* error of the second ends the relay there.
RelaySigns(g) ==
  /\ relay[g].pc = "sign"
  /\ \/ relay' = [relay EXCEPT ![g] = IF callback[relay[g].row] = "unusable"
                                        THEN After(g) ELSE [relay[g] EXCEPT !.pc = "post"]]
     \/ DbFails /\ relay' = [relay EXCEPT ![g].pc = "record"]
  /\ UNCHANGED <<payments, callback, relayed, heard, accepted>>

Hear(g) == heard' = [heard EXCEPT ![relay[g].row] = @ \cup {relay[g].status}]

\* The application answers 2xx.
RelayAccepted(g) ==
  /\ relay[g].pc = "post"
  /\ Hear(g)
  /\ accepted' = [accepted EXCEPT ![relay[g].row] = @ \cup {relay[g].status}]
  /\ relay' = [relay EXCEPT ![g].pc = "record", ![g].outcome = "delivered"]
  /\ UNCHANGED <<payments, callback, relayed>>

\* Mutant: any answer counts as delivered.
RelayRefusedUnchecked(g) ==
  /\ relay[g].pc = "post"
  /\ Hear(g)
  /\ relay' = [relay EXCEPT ![g].pc = "record", ![g].outcome = "delivered"]
  /\ UNCHANGED <<payments, callback, relayed, accepted>>

\* It answers 300 or more.
RelayRefused(g) ==
  /\ relay[g].pc = "post"
  /\ Hear(g)
  /\ relay' = [relay EXCEPT ![g].pc = "record"]
  /\ UNCHANGED <<payments, callback, relayed, accepted>>

\* Mutant: a relay that was not answered is forgotten.
RelayLostSilent(g) ==
  /\ relay[g].pc = "post"
  /\ Hear(g) \/ UNCHANGED heard
  /\ relay' = [relay EXCEPT ![g] = After(g)]
  /\ UNCHANGED <<payments, callback, relayed, accepted>>

\* Mutant: the outcome is a word the column does not admit.
RelayLostTimeout(g) ==
  /\ relay[g].pc = "post"
  /\ Hear(g) \/ UNCHANGED heard
  /\ relay' = [relay EXCEPT ![g].pc = "record", ![g].outcome = "timeout"]
  /\ UNCHANGED <<payments, callback, relayed, accepted>>

\* No answer within 10 s: the application may have taken the message.
RelayLost(g) ==
  /\ relay[g].pc = "post"
  /\ \/ UNCHANGED <<heard, accepted>>
     \/ Hear(g) /\ UNCHANGED accepted
     \/ /\ Hear(g)
        /\ accepted' = [accepted EXCEPT ![relay[g].row] = @ \cup {relay[g].status}]
  /\ relay' = [relay EXCEPT ![g].pc = "record"]
  /\ UNCHANGED <<payments, callback, relayed>>

SetRelayResult(p, outcome) ==
  relayed' = [relayed EXCEPT ![p] = [status |-> outcome, attempts |-> @.attempts + 1]]

\* Mutant: the payment the relay was given is saved as a whole.
RelaySavesRow(g) ==
  /\ relay[g].pc = "record"
  /\ SetRelayResult(relay[g].row, relay[g].outcome)
  /\ UpdatePaymentStatus(relay[g].row, relay[g].status)
  /\ relay' = [relay EXCEPT ![g] = After(g)]
  /\ UNCHANGED <<callback, heard, accepted>>

RelayRecords(g) ==
  /\ relay[g].pc = "record"
  /\ \/ SetRelayResult(relay[g].row, relay[g].outcome)
     \/ DbFails /\ UNCHANGED relayed
  /\ relay' = [relay EXCEPT ![g] = After(g)]
  /\ UNCHANGED <<payments, callback, heard, accepted>>

\* The console is answered the row as it is by now.
AdminReloads(g) ==
  /\ relay[g].pc = "reload"
  /\ relay' = [relay EXCEPT ![g] = NoTask]
  /\ UNCHANGED <<payments, callback, relayed, heard, accepted>>

\* The process stops, or the page of the console is left: its context ends.
RelayDies(g) ==
  /\ relay[g].pc # "idle"
  /\ Crashes \/ relay[g].by = "console"
  /\ relay' = [relay EXCEPT ![g] = NoTask]
  /\ UNCHANGED <<payments, callback, relayed, heard, accepted>>

RelayStep(g) ==
  \/ RelaySigns(g) \/ RelayAccepted(g) \/ RelayRefused(g) \/ RelayLost(g)
  \/ RelayRecords(g) \/ AdminReloads(g)

CoreStep ==
  \/ RegistryNext  /\ UNCHANGED <<payments, gatewayVars, pay, xfer, hookVars>>
  \/ DiarraNext    /\ UNCHANGED <<registryVars, pay, xfer, hookVars>>
  \/ DepositsNext  /\ UNCHANGED <<registryVars, xfer, hookVars>>
  \/ TransfersNext /\ UNCHANGED <<registryVars, pay, hookVars>>
  \/ /\ \/ \E d \in Deliveries, r \in Ids : Deliver(d, r)
        \/ \E d \in Deliveries :
             \/ CallbackFindsPayment(d) \/ CallbackFindsNothing(d) \/ CallbackDropped(d)
             \/ CallbackUpdateFails(d) \/ CallbackDies(d)
     /\ UNCHANGED <<registryVars, pay, xfer>>

\* What a relay never touches.
coreVars == <<registryVars, gatewayVars, pay, xfer, hookVars>>

RInit == Init /\ RelayInit

RNext ==
  \/ CoreStep /\ UNCHANGED relayVars
  \/ \E d \in Deliveries, g \in Relays : CallbackRelays(d, g)
  \/ \E g \in Relays :
       /\ (\E p \in Ids : AdminRelays(g, p)) \/ RelayStep(g) \/ RelayDies(g)
       /\ UNCHANGED coreVars

rvars == <<vars, relayVars>>

RSpec == RInit /\ [][RNext]_rvars

\* A goroutine that runs takes its next step: its two waits, on the database
\* and on the application, both end (10 s timeout).
RFairSpec == RSpec /\ \A g \in Relays : WF_rvars(RelayStep(g) /\ UNCHANGED coreVars)
-----------------------------------------------------------------------------
\* An application is told that a payment completed only if a DIARRA transaction
\* asked for on its behalf did, whoever relays and however late.
ToldCompletedIsPaid ==
  \A p \in Ids : "completed" \in heard[p] => Paid(p)

\* relay_status "delivered" means that the application answered 2xx to a
\* message on this payment; "skipped" that it has no callback_url.
RecordedAsItWent ==
  \A p \in Ids :
    /\ relayed[p].status = "delivered" => accepted[p] # {}
    /\ relayed[p].status = "skipped" <=> callback[p] = "none" /\ relayed[p].attempts > 0

\* Relaying never moves a payment: seen without the relay's own columns, every
\* step is one of the orchestrator's (SetRelayResult writes three columns of a
\* row that callbacks and replies write at the same time).
CoreUndisturbed == Init /\ [][Next]_vars

\* RelayPayment: the outcome is always traced.  A relay the callback started
\* ends with a recorded outcome, if the callback_url can be posted to, the
\* database answers and the process lives.
OutcomeTraced ==
  \A g \in Relays, p \in Ids :
    callback[p] # "unusable" /\ relay[g].pc # "idle" /\ relay[g].by = "callback" /\ relay[g].row = p
    ~> relayed[p].status # "pending"
=============================================================================
