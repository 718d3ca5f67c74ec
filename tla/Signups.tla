------------------------------- MODULE Signups -------------------------------
(***************************************************************************)
(* Requests for an application, from the public form to the back office.   *)
(* A visitor leaves a request; administrators, each in front of a page of  *)
(* the console that shows the list as it was when it was last loaded,      *)
(* approve or reject it.  An approval is three statements (read, create    *)
(* the application, mark the request) with no transaction around them.     *)
(***************************************************************************)
EXTENDS Naturals

CONSTANTS
  Requests,   \* identifiers of requests
  Emails,     \* addresses as visitors write them
  Lower,      \* lower(email)
  Consoles,   \* pages of the console, one administrator each
  Calls,      \* calls to approve or reject; an application bears its call's name
  None,
  DbFails,    \* TRUE when a statement may fail, before or after it commits
  Crashes     \* TRUE when the process may stop in the middle of a handler

ASSUME SignupsAssumption ==
  /\ None \notin Requests \cup Calls \cup Consoles \cup Emails
  /\ DOMAIN Lower = Emails
  /\ DbFails \in BOOLEAN /\ Crashes \in BOOLEAN

VARIABLES
  signups,   \* table signup_requests
  apps,      \* the request each application was created for
  calls,     \* handlers ApproveSignup and RejectSignup
  page       \* state of each page of the console

vars == <<signups, apps, calls, page>>

Signup == [status : {"none", "pending", "approved", "rejected"},
           email  : Emails \cup {None},
           app    : Calls \cup {None}]       \* app_id

Call == [pc      : {"idle", "find", "create", "mark", "done", "refused", "error",
                    "dead"},
         action  : {"approve", "reject"},
         request : Requests \cup {None},
         by      : Consoles \cup {None}]     \* the page that waits for the answer

Page == [rows  : SUBSET Requests,            \* pending ones, with their buttons
         busy  : Requests \cup {None},       \* busyId
         shown : Calls \cup {None}]          \* approved: the keys on display

TypeOK ==
  /\ signups \in [Requests -> Signup]
  /\ apps \in [Calls -> Requests \cup {None}]
  /\ calls \in [Calls -> Call]
  /\ page \in [Consoles -> Page]

Init ==
  /\ signups = [s \in Requests |-> [status |-> "none", email |-> None, app |-> None]]
  /\ apps = [k \in Calls |-> None]
  /\ calls = [k \in Calls |->
                [pc |-> "idle", action |-> "approve", request |-> None, by |-> None]]
  /\ page = [c \in Consoles |-> [rows |-> {}, busy |-> None, shown |-> None]]

Pending(s) == signups[s].status = "pending"

\* The partial unique index on lower(email), which is what was written.
EmailFree(e) == \A s \in Requests : Pending(s) => Lower[signups[s].email] # Lower[e]

\* PublicSignup.  An address with a pending request is answered 409.
PublicSignup(s, e) ==
  /\ signups[s].status = "none"
  /\ EmailFree(e)
  /\ signups' = [signups EXCEPT ![s] = [status |-> "pending", email |-> e, app |-> None]]
  /\ UNCHANGED <<apps, calls, page>>

\* The page loads the pending requests.
load(c) ==
  /\ page' = [page EXCEPT ![c].rows = {s \in Requests : Pending(s)}]
  /\ UNCHANGED <<signups, apps, calls>>

\* A click on one of the buttons of a row: only the row last clicked is disabled.
act(c, k, s, action) ==
  /\ calls[k].pc = "idle"
  /\ s \in page[c].rows /\ page[c].busy # s
  /\ calls' = [calls EXCEPT ![k] = [pc |-> "find", action |-> action, request |-> s, by |-> c]]
  /\ page' = [page EXCEPT ![c].busy = s]
  /\ UNCHANGED <<signups, apps>>

\* FindByID, then the check of the status just read.
CallFinds(k) ==
  /\ calls[k].pc = "find"
  /\ calls' = [calls EXCEPT ![k].pc =
                 IF ~Pending(calls[k].request) THEN "refused"
                 ELSE IF calls[k].action = "approve" THEN "create" ELSE "mark"]
  /\ UNCHANGED <<signups, apps, page>>

CreateApp(k) == apps' = [apps EXCEPT ![k] = calls[k].request]

\* Mutant: the error of the creation is not looked at.
CallCreatesUnchecked(k) ==
  /\ calls[k].pc = "create"
  /\ CreateApp(k) \/ (DbFails /\ UNCHANGED apps)
  /\ calls' = [calls EXCEPT ![k].pc = "mark"]
  /\ UNCHANGED <<signups, page>>

CallCreates(k) ==
  /\ calls[k].pc = "create"
  /\ \/ CreateApp(k) /\ calls' = [calls EXCEPT ![k].pc = "mark"]
     \/ /\ DbFails
        /\ CreateApp(k) \/ UNCHANGED apps
        /\ calls' = [calls EXCEPT ![k].pc = "error"]
  /\ UNCHANGED <<signups, page>>

MarkApproved(s, a) ==
  signups' = [signups EXCEPT ![s].status = "approved", ![s].app = a]

\* Mutant: a status the CHECK of the column does not admit.
MarkRefused(s) == signups' = [signups EXCEPT ![s].status = "refused"]

\* Mutant: a rejection clears app_id.
MarkRejectedClean(s) ==
  signups' = [signups EXCEPT ![s].status = "rejected", ![s].app = None]

MarkRejected(s) == signups' = [signups EXCEPT ![s].status = "rejected"]

Mark(k) ==
  IF calls[k].action = "approve" THEN MarkApproved(calls[k].request, k)
                                 ELSE MarkRejected(calls[k].request)

\* Mutant: the keys are answered whatever became of the request.
CallMarksUnchecked(k) ==
  /\ calls[k].pc = "mark"
  /\ Mark(k) \/ (DbFails /\ UNCHANGED signups)
  /\ calls' = [calls EXCEPT ![k].pc = "done"]
  /\ UNCHANGED <<apps, page>>

\* The request is marked, whatever its status is by now.
CallMarks(k) ==
  /\ calls[k].pc = "mark"
  /\ \/ Mark(k) /\ calls' = [calls EXCEPT ![k].pc = "done"]
     \/ /\ DbFails
        /\ Mark(k) \/ UNCHANGED signups
        /\ calls' = [calls EXCEPT ![k].pc = "error"]
  /\ UNCHANGED <<apps, page>>

\* A lookup that fails is answered 404.
CallNotFound(k) ==
  /\ DbFails /\ calls[k].pc = "find"
  /\ calls' = [calls EXCEPT ![k].pc = "error"]
  /\ UNCHANGED <<signups, apps, page>>

CallDies(k) ==
  /\ Crashes /\ calls[k].pc \in {"find", "create", "mark"}
  /\ calls' = [calls EXCEPT ![k].pc = "dead"]
  /\ UNCHANGED <<signups, apps, page>>

\* The answer reaches the page: keys replace the ones on display, and busyId
\* is cleared whichever row it names.
Answer(k) ==
  LET c == calls[k].by IN
  /\ c # None
  /\ calls[k].pc \in {"done", "refused", "error", "dead"}
  /\ page' = [page EXCEPT ![c].busy = None,
                          ![c].shown = IF calls[k].pc = "done" /\ calls[k].action = "approve"
                                         THEN k ELSE page[c].shown]
  /\ calls' = [calls EXCEPT ![k].by = None]
  /\ UNCHANGED <<signups, apps>>

\* The administrator has sent the keys and hides them.
hide(c) ==
  /\ page[c].shown # None
  /\ page' = [page EXCEPT ![c].shown = None]
  /\ UNCHANGED <<signups, apps, calls>>

Next ==
  \/ \E s \in Requests, e \in Emails : PublicSignup(s, e)
  \/ \E c \in Consoles : load(c) \/ hide(c)
  \/ \E c \in Consoles, k \in Calls, s \in Requests, action \in {"approve", "reject"} :
       act(c, k, s, action)
  \/ \E k \in Calls : \/ CallFinds(k) \/ CallCreates(k) \/ CallMarks(k)
                      \/ CallNotFound(k) \/ CallDies(k) \/ Answer(k)

Spec == Init /\ [][Next]_vars
-----------------------------------------------------------------------------
\* An approved request has an application, and the application of a request is
\* one that was created for it, however approvals and rejections overlap and
\* fail (app_id references a row ApproveSignup inserted one statement earlier).
ApprovedOwnsApp ==
  \A s \in Requests :
    /\ signups[s].status = "approved" => signups[s].app # None
    /\ signups[s].app # None => apps[signups[s].app] = s

\* No application is lost without a reason: one its request does not name is
\* being approved, or its approval failed or was cut short, or a second
\* approval of the same request took its place (ApproveSignup creates first and
\* links afterwards; RejectSignup may overwrite an approval).
OrphansExplained ==
  \A k \in Calls :
    LET s == apps[k] IN
    s # None /\ signups[s].app # k =>
      \/ calls[k].pc \in {"mark", "error", "dead"} /\ signups[s].app = None
      \/ signups[s].app # None

\* Keys on display open an application created for a request that nobody will
\* be asked to review again.
ShownKeysOfReviewed ==
  \A c \in Consoles :
    LET k == page[c].shown IN
    k # None => /\ apps[k] = calls[k].request
                /\ ~Pending(apps[k]) /\ signups[apps[k]].app # None

-----------------------------------------------------------------------------
(* What the documentation and the comments say, and the code does not do.  *)

\* ApproveSignup creates the application of the request, once: a request
\* already reviewed is answered 409.
OneAppPerRequest ==
  \A k, l \in Calls : apps[k] # None /\ apps[k] = apps[l] => k = l
=============================================================================
