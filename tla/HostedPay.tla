----------------------------- MODULE HostedPay -----------------------------
(***************************************************************************)
(* The payer's browser: the page /pay/{ref} ABMCY Core serves, its         *)
(* polling, and the widgets of the shop's page, one for each payment it    *)
(* starts.  All the widgets of a page share one window, by its name, and   *)
(* one message listener each.  A window knows its payment by the reference *)
(* in its address, which a renewal may take off the row.  Added to the     *)
(* orchestrator, of which it only reads the rows.                          *)
(***************************************************************************)
EXTENDS Orchestrator

CONSTANTS
  Windows,    \* windows of payers, each with the shop's page it was opened from
  returnURL,  \* payments with a return_url
  MaxTries    \* polls of the page before it gives up (40 in the code)

ASSUME HostedPayAssumption == returnURL \subseteq Ids /\ MaxTries \in Nat

VARIABLES
  url,         \* reference in the hosted_pay_url each Pay request answers
  window,      \* each window
  widget       \* for each answer of Pay, the widget of the page that shows it

browserVars == <<url, window, widget>>

\* "left": its window was closed, and another opened under the name; "blind":
\* the browser refused it the window.
WidgetStates == {"none", "waiting", "left", "blind", "success", "cancel", "error"}

Window == [pc     : {"none", "loading", "payable", "gateway", "polling", "still", "ending",
                     "missing", "shop", "back", "closed"},
           order  : PayReqs \cup {None},              \* answer that gave the address
           ref    : Ids \cup {None},                  \* {ref} of the address
           done   : BOOLEAN,                          \* ?done
           link   : Ids \cup {None},                  \* where the button leads
           tries  : Nat,
           mail   : Statuses \cup {"none"}]           \* message posted to the opener

HostedPayTypeOK ==
  /\ url \in [PayReqs -> Ids \cup {None}]
  /\ window \in [Windows -> Window]
  /\ widget \in [Windows -> [PayReqs -> WidgetStates]]

NoWindow == [pc |-> "none", order |-> None, ref |-> None, done |-> FALSE,
             link |-> None, tries |-> 0, mail |-> "none"]

HostedPayInit ==
  /\ url = [q \in PayReqs |-> None]
  /\ window = [w \in Windows |-> NoWindow]
  /\ widget = [w \in Windows |-> [q \in PayReqs |-> "none"]]

\* The reference a Pay handler holds: that of the row it read or inserted, then
\* its own once it was told that the renewed link is on the row.
hostedPayURL ==
  \E told \in {TRUE, ~DbFails} :
    url' = [q \in PayReqs |->
              CASE pay'[q].row # pay[q].row -> payments'[pay'[q].row].ref
                [] pay[q].pc = "relink" /\ pay'[q].pc = "existing"
                   /\ payments'[pay[q].row].ref = q /\ told -> q
                [] OTHER -> url[q]]

\* The page is left for good; a message it posted is still on its way.
Left(w, pc) ==
  window' = [window EXCEPT ![w] = [NoWindow EXCEPT !.pc = pc, !.order = window[w].order,
                                                   !.mail = window[w].mail]]

Goes(w, from, to) == window[w].pc = from /\ window' = [window EXCEPT ![w].pc = to]

\* The window goes to the address an answer gave.
Visits(w, q) ==
  window' = [window EXCEPT ![w].pc = "loading", ![w].order = q, ![w].ref = url[q],
                           ![w].done = FALSE, ![w].link = None, ![w].tries = 0]

\* The shop sends the payer to hosted_pay_url, in its own window.
Redirect(w, q) ==
  /\ window[w].pc = "none" /\ \A r \in PayReqs : widget[w][r] = "none"
  /\ Answered(q)
  /\ Visits(w, q)
  /\ UNCHANGED widget

\* The window was opened by widgets of the page.
InWidget(w) == \E q \in PayReqs : widget[w][q] # "none"

\* AbmcyPay.open, for a new answer of the shop's backend.
MayStart(w, q) == widget[w][q] = "none" /\ (window[w].pc = "none" \/ InWidget(w))

\* The window named abmcy_pay is taken over from the widget before, or opened.
Open(w, q) ==
  /\ MayStart(w, q) /\ Answered(q)
  /\ Visits(w, q)
  /\ widget' = [widget EXCEPT ![w] =
                  [r \in PayReqs |->
                     CASE r = q -> "waiting"
                       [] r # q /\ @[r] = "waiting" /\ window[w].pc = "closed" -> "left"
                       [] OTHER -> @[r]]]

Tells(w, q, state) == widget' = [widget EXCEPT ![w][q] = state]

\* The browser refuses the window of the widget: w.open answers null.
OpenBlocked(w, q) ==
  /\ MayStart(w, q) /\ Answered(q)
  /\ Tells(w, q, "blind")
  /\ UNCHANGED window

\* The shop's backend was not given a hosted_pay_url: onError, and no window.
CreatePaymentFails(w, q) ==
  /\ MayStart(w, q)
  /\ pay[q].pc \in PayAnswers \cup {"dead"} /\ ~Answered(q)
  /\ Tells(w, q, "error")
  /\ UNCHANGED window

Rows(w) == FindPaymentByDiarraRef(window[w].ref)

\* What the page becomes once its script has run: a final page closes its
\* window in 2 s if a widget opened it; back from the gateway it polls.
PageFor(w, p) ==
  LET s == payments[p].status IN
  CASE s \in FinalStatuses -> IF InWidget(w) THEN "ending" ELSE "still"
    [] s \notin FinalStatuses /\ window[w].done -> "polling"
    [] s \notin FinalStatuses /\ ~window[w].done ->
         IF payments[p].link # None THEN "payable" ELSE "still"

\* HostedPay.  A completed payment with a return_url goes straight to the shop;
\* any other page posts its status to the opener and goes on.  The message of
\* the page before was handled by then.
Load(w) ==
  /\ window[w].pc = "loading" /\ window[w].mail = "none"
  /\ \E p \in Rows(w) :
       IF payments[p].status = "completed" /\ p \in returnURL
         THEN Left(w, "shop")
         ELSE window' = [window EXCEPT ![w].pc = PageFor(w, p),
                                       ![w].link = IF PageFor(w, p) = "payable"
                                                     THEN payments[p].link ELSE None,
                                       ![w].tries = 0,
                                       ![w].mail = IF InWidget(w) THEN payments[p].status
                                                   ELSE "none"]
  /\ UNCHANGED widget

LoadMissing(w) ==
  /\ Goes(w, "loading", "missing")
  /\ Rows(w) = {} \/ DbFails
  /\ UNCHANGED widget

\* The payer follows the button, pays or not, and is sent back to the address
\* given with the deposit.
PayNow(w) == Goes(w, "payable", "gateway") /\ UNCHANGED widget

BackFromGateway(w) ==
  /\ window[w].pc = "gateway"
  /\ window' = [window EXCEPT ![w].pc = "loading", ![w].done = TRUE, ![w].ref = window[w].link,
                              ![w].link = None]
  /\ UNCHANGED widget

\* Mutant: every final status sends the payer to the shop as completed.
PollToShopAnyway(w, p) ==
  CASE payments[p].status \in FinalStatuses -> IF p \in returnURL THEN "shop" ELSE "loading"
    [] OTHER -> "polling"

\* What a poll that finds its payment does.
PollOutcome(w, p) ==
  CASE payments[p].status = "completed" -> IF p \in returnURL THEN "shop" ELSE "loading"
    [] payments[p].status \in {"failed", "cancelled"} -> "loading"
    [] OTHER -> "polling"

\* Mutant: an answer without a status does not count as a try.
PollUncounted(w) ==
  /\ window[w].pc = "polling"
  /\ \E to \in {PollOutcome(w, p) : p \in Rows(w)} \cup
               (IF Rows(w) = {} \/ DbFails THEN {"polling"} ELSE {}) :
       LET n == IF Rows(w) = {} THEN window[w].tries ELSE window[w].tries + 1 IN
       window' = [window EXCEPT ![w].tries = IF to = "polling" THEN n ELSE 0,
                                ![w].pc = IF to = "polling" /\ n > MaxTries
                                            THEN "still" ELSE to]
  /\ UNCHANGED widget

\* One poll of /pay/{ref}/status: a 404 or an error changes nothing, a final
\* status leaves the page, and after MaxTries the polling stops.
Poll(w) ==
  /\ window[w].pc = "polling"
  /\ \E to \in {PollOutcome(w, p) : p \in Rows(w)} \cup
               (IF Rows(w) = {} \/ DbFails THEN {"polling"} ELSE {}) :
       IF to = "polling" /\ window[w].tries < MaxTries
         THEN window' = [window EXCEPT ![w].tries = @ + 1]
         ELSE window' = [window EXCEPT ![w].tries = 0, ![w].pc = IF to = "polling" THEN "still"
                                                                  ELSE to]
  /\ UNCHANGED widget

\* The buttons that lead back to the shop, with no status.
BackToShop(w) ==
  /\ window[w].pc \in {"payable", "polling", "still", "ending"}
  /\ pay[window[w].order].row \in returnURL
  /\ Left(w, "back")
  /\ UNCHANGED widget

\* The payer reloads, or closes the window; a final page closes its own,
\* long after its message was handled.
Reload(w) ==
  /\ window[w].pc \in {"payable", "polling", "still", "missing"}
  /\ window' = [window EXCEPT ![w].pc = "loading"]
  /\ UNCHANGED widget

Close(w) ==
  /\ window[w].pc \notin {"none", "closed"}
  /\ Left(w, "closed")
  /\ UNCHANGED widget

CloseItself(w) ==
  /\ window[w].pc = "ending" /\ window[w].mail = "none"
  /\ Left(w, "closed")
  /\ UNCHANGED widget

Listening == {"waiting", "left", "blind"}

\* Mutant: the shop's callback is looked up by the name of the status.
finishByName(w, states, status) ==
  widget' = [widget EXCEPT ![w] =
               [q \in PayReqs |-> IF @[q] \notin states THEN @[q]
                                 ELSE IF status = "completed" THEN "success" ELSE status]]

\* finish(status), in each widget of the page that is in one of the states.
finish(w, states, status) ==
  widget' = [widget EXCEPT ![w] =
               [q \in PayReqs |-> IF @[q] \notin states THEN @[q]
                                 ELSE IF status = "completed" THEN "success" ELSE "cancel"]]

\* Mutant: whatever is not a failure is a success.
onMsgLenient(w) ==
  /\ window[w].mail # "none"
  /\ finish(w, Listening, IF window[w].mail \in {"failed", "cancelled"} THEN "failed"
                          ELSE "completed")
  /\ window' = [window EXCEPT ![w].mail = "none"]

\* Every widget of the page hears the message, and takes it for its own,
\* whatever status it bears.
onMsg(w) ==
  /\ window[w].mail # "none"
  /\ finish(w, Listening, window[w].mail)
  /\ window' = [window EXCEPT ![w].mail = "none"]

\* The states of widgets whose own window is closed.
Deserted(w) == {"left"} \cup (IF window[w].pc = "closed" THEN {"waiting"} ELSE {})

\* Mutant: the widget looks at the window its page has by now.
WidgetPollsLastWindow(w) ==
  /\ window[w].pc = "closed" /\ \E q \in PayReqs : widget[w][q] = "waiting"
  /\ finish(w, {"waiting"}, "cancelled")
  /\ UNCHANGED window

\* Every 600 ms: a window closed without a message counts as a cancellation.
WidgetPolls(w) ==
  /\ \E q \in PayReqs : widget[w][q] \in Deserted(w)
  /\ finish(w, Deserted(w), "cancelled")
  /\ UNCHANGED window

BrowserStep(w) ==
  \/ Load(w) \/ LoadMissing(w) \/ Poll(w) \/ CloseItself(w) \/ onMsg(w) \/ WidgetPolls(w)

PayerStep(w) ==
  \/ \E q \in PayReqs :
       Redirect(w, q) \/ Open(w, q) \/ CreatePaymentFails(w, q) \/ OpenBlocked(w, q)
  \/ PayNow(w) \/ BackFromGateway(w) \/ BackToShop(w) \/ Reload(w) \/ Close(w)

HInit == Init /\ HostedPayInit

HNext ==
  \/ Next /\ hostedPayURL /\ UNCHANGED <<window, widget>>
  \/ \E w \in Windows : /\ BrowserStep(w) \/ PayerStep(w)
                        /\ UNCHANGED <<vars, url>>

hvars == <<vars, browserVars>>

HSpec == HInit /\ [][HNext]_hvars

\* Timers of a page and of the widget go off.
HFairSpec ==
  /\ HSpec
  /\ \A w \in Windows :
       /\ WF_hvars((Load(w) \/ LoadMissing(w)) /\ UNCHANGED <<vars, url>>)
       /\ WF_hvars(Poll(w) /\ UNCHANGED <<vars, url>>)
       /\ WF_hvars((onMsg(w) \/ WidgetPolls(w)) /\ UNCHANGED <<vars, url>>)
-----------------------------------------------------------------------------
\* onSuccess is called only in a page that was shown a payment of its own that
\* was paid: across the callback, the reference in the address, a renewal of
\* the link, the message and the polling.  Which payment onSuccess names is
\* another matter when the page started two.
SuccessIsPaid ==
  \A w \in Windows, q \in PayReqs : widget[w][q] = "success" =>
    \E r \in PayReqs : widget[w][r] \in WidgetStates \ {"none", "error"} /\ Paid(pay[r].row)

\* The return_url is reached with status=completed only for an order that was paid.
ShopToldPaid ==
  \A w \in Windows : window[w].pc = "shop" => Paid(pay[window[w].order].row)

\* A page that polls stops: it reaches a final status, or gives up after
\* MaxTries, also when a renewal took its reference off the row.
PollingEnds == \A w \in Windows : []<>(window[w].pc # "polling")

\* No widget waits for ever once its own window is closed: whatever page the
\* window stood on, also when another was opened in its place, a callback of
\* the shop is called in the end.
WidgetAnswers ==
  \A w \in Windows, q \in PayReqs :
    []<>~(widget[w][q] = "left" \/ (widget[w][q] = "waiting" /\ window[w].pc = "closed"))

\* The page's script tells the opener of a final status: onCancel is called for
\* a payment that failed or was cancelled, or when the window was closed.  (Of
\* the first widget of a page, before any other.)
CancelIsFinal ==
  \A w \in Windows, q \in PayReqs :
    widget[w][q] = "cancel" /\ (\A r \in PayReqs \ {q} : widget[w][r] = "none") =>
      window[w].pc = "closed" \/ payments[pay[q].row].status \in FinalStatuses
=============================================================================
