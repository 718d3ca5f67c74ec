---------------------------- MODULE SignupsProofs ----------------------------
(***************************************************************************)
(* The review of requests is safe for any number of visitors, pages and    *)
(* calls, whatever fails: one inductive invariant, one step per action.    *)
(***************************************************************************)
EXTENDS Signups, TLAPS

\* What a handler knows of the application it creates: none before the
\* creation, its own request's after it, and an approval that has been
\* answered left a request that is reviewed and has an application.
Handler(k) ==
  LET s == calls[k].request IN
  /\ calls[k].pc # "idle" => s \in Requests
  /\ calls[k].pc = "create" => calls[k].action = "approve"
  /\ apps[k] # None => apps[k] = s /\ calls[k].action = "approve"
                       /\ calls[k].pc \in {"mark", "done", "error", "dead"}
  /\ calls[k].action = "approve" /\ calls[k].pc \in {"mark", "done"} => apps[k] = s
  /\ calls[k].action = "approve" /\ calls[k].pc = "done" =>
       signups[s].status \in {"approved", "rejected"} /\ signups[s].app # None

Handlers == \A k \in Calls : Handler(k)

\* A request nobody has made names no application.
Unmade == \A s \in Requests : signups[s].status = "none" => signups[s].app = None

\* The keys on display are those of an approval answered with success.
ShownDone ==
  \A c \in Consoles : page[c].shown # None =>
    calls[page[c].shown].pc = "done" /\ calls[page[c].shown].action = "approve"

IInv ==
  /\ TypeOK
  /\ Handlers
  /\ Unmade
  /\ ShownDone
  /\ ApprovedOwnsApp
  /\ OrphansExplained

LEMMA InitIInv == Init => IInv
  BY SignupsAssumption DEF Init, IInv, TypeOK, Signup, Call, Page, Handlers, Handler, Unmade,
     ShownDone, ApprovedOwnsApp, OrphansExplained

LEMMA PublicSignupIInv ==
  ASSUME IInv, NEW s \in Requests, NEW e \in Emails, PublicSignup(s, e)
  PROVE  IInv'
<1> USE SignupsAssumption DEF IInv, PublicSignup
<1>1. TypeOK'
  BY DEF TypeOK, Signup
<1>2. /\ \A r \in Requests \ {s} : signups'[r] = signups[r]
      /\ signups'[s] = [status |-> "pending", email |-> e, app |-> None]
      /\ signups[s].app = None
  BY DEF TypeOK, Unmade
<1>3. Handlers'
  BY <1>2 DEF TypeOK, Handlers, Handler
<1>4. Unmade' /\ ShownDone'
  BY <1>2 DEF Unmade, ShownDone
<1>5. ApprovedOwnsApp'
  BY <1>2 DEF ApprovedOwnsApp
<1>6. OrphansExplained'
  BY <1>2 DEF TypeOK, OrphansExplained
<1> QED
  BY <1>1, <1>3, <1>4, <1>5, <1>6

\* Pages do not touch the tables: what they do is loading, clicking, hiding.
LEMMA PageIInv ==
  ASSUME IInv, NEW c \in Consoles, load(c) \/ hide(c)
  PROVE  IInv'
<1> USE SignupsAssumption DEF IInv, load, hide
<1>1. TypeOK'
  BY DEF TypeOK, Page
<1>2. ShownDone'
  BY DEF TypeOK, Page, ShownDone
<1>3. Handlers' /\ Unmade'
  BY DEF Handlers, Handler, Unmade
<1>4. ApprovedOwnsApp' /\ OrphansExplained'
  BY DEF ApprovedOwnsApp, OrphansExplained
<1> QED
  BY <1>1, <1>2, <1>3, <1>4

LEMMA ActIInv ==
  ASSUME IInv, NEW c \in Consoles, NEW k \in Calls, NEW s \in Requests,
         NEW action \in {"approve", "reject"}, act(c, k, s, action)
  PROVE  IInv'
<1> USE SignupsAssumption DEF IInv, act
<1>1. TypeOK'
  BY DEF TypeOK, Call, Page
<1>2. /\ \A l \in Calls \ {k} : calls'[l] = calls[l]
      /\ calls'[k] = [pc |-> "find", action |-> action, request |-> s, by |-> c]
      /\ apps[k] = None
  BY DEF TypeOK, Handlers, Handler
<1>3. Handlers'
  BY <1>2 DEF Handlers, Handler
<1>4. ShownDone'
  BY <1>2 DEF TypeOK, Page, ShownDone
<1>5. Unmade' /\ ApprovedOwnsApp'
  BY DEF Unmade, ApprovedOwnsApp
<1>6. OrphansExplained'
  BY <1>2 DEF OrphansExplained
<1> QED
  BY <1>1, <1>3, <1>4, <1>5, <1>6

\* A handler that only moves on, between statements or to its end.
LEMMA MovesIInv ==
  ASSUME IInv, NEW k \in Calls,
         CallFinds(k) \/ CallNotFound(k) \/ CallDies(k)
  PROVE  IInv'
<1> USE SignupsAssumption DEF IInv, CallFinds, CallNotFound, CallDies
<1>1. TypeOK'
  BY DEF TypeOK, Call
<1>2. PICK pc \in {"refused", "create", "mark", "error", "dead"} :
        /\ calls' = [calls EXCEPT ![k].pc = pc]
        /\ calls[k].pc \in {"find", "create", "mark"}
        /\ pc = "create" => calls[k].action = "approve"
        /\ pc = "mark" => calls[k].action = "reject"
        /\ pc \in {"refused", "create", "mark", "error"} => calls[k].pc = "find"
  BY DEF TypeOK, Call
<1>3. Handlers'
  BY <1>2 DEF TypeOK, Call, Handlers, Handler
<1>4. ShownDone'
  BY <1>2 DEF TypeOK, Call, ShownDone
<1>5. Unmade' /\ ApprovedOwnsApp'
  BY DEF Unmade, ApprovedOwnsApp
<1>6. OrphansExplained'
  BY <1>2 DEF TypeOK, Call, OrphansExplained, Handlers, Handler
<1> QED
  BY <1>1, <1>3, <1>4, <1>5, <1>6

\* The creation, answered or not.
LEMMA CallCreatesIInv ==
  ASSUME IInv, NEW k \in Calls, CallCreates(k)
  PROVE  IInv'
<1> USE SignupsAssumption DEF IInv, CallCreates, CreateApp
<1>2. PICK pc \in {"mark", "error"}, a \in {None, calls[k].request} :
        /\ calls' = [calls EXCEPT ![k].pc = pc]
        /\ apps' = [apps EXCEPT ![k] = a]
        /\ pc = "mark" => a = calls[k].request
  BY DEF TypeOK, Call, Handlers, Handler
<1>3. /\ calls[k].pc = "create" /\ calls[k].action = "approve"
      /\ calls[k].request \in Requests /\ apps[k] = None
  BY DEF Handlers, Handler
<1>1. TypeOK'
  <2>1. apps' \in [Calls -> Requests \cup {None}]
    BY <1>2, <1>3 DEF TypeOK
  <2>2. calls' \in [Calls -> Call]
    BY <1>2 DEF TypeOK, Call
  <2> QED
    BY <2>1, <2>2 DEF TypeOK
<1>4. Handlers'
  BY <1>2, <1>3 DEF TypeOK, Call, Handlers, Handler
<1>5. ShownDone'
  BY <1>2, <1>3 DEF TypeOK, Call, ShownDone
<1>6. Unmade'
  BY DEF Unmade
<1>7. ApprovedOwnsApp'
  BY <1>2, <1>3 DEF TypeOK, Signup, ApprovedOwnsApp
<1>8. OrphansExplained'
  BY <1>2, <1>3 DEF TypeOK, Call, OrphansExplained
<1> QED
  BY <1>1, <1>4, <1>5, <1>6, <1>7, <1>8

\* The marking, answered or not.
LEMMA CallMarksIInv ==
  ASSUME IInv, NEW k \in Calls, CallMarks(k)
  PROVE  IInv'
<1> USE SignupsAssumption DEF IInv, CallMarks, Mark, MarkApproved, MarkRejected
<1> DEFINE s == calls[k].request
<1>2. PICK pc \in {"done", "error"} :
        /\ calls' = [calls EXCEPT ![k].pc = pc]
        /\ pc = "done" => Mark(k)
        /\ Mark(k) \/ UNCHANGED signups
  OBVIOUS
<1>3. /\ calls[k].pc = "mark" /\ s \in Requests
      /\ IF calls[k].action = "approve" THEN apps[k] = s ELSE apps[k] = None
  BY DEF Handlers, Handler
<1>4. /\ \A r \in Requests \ {s} : signups'[r] = signups[r]
      /\ signups'[s].email = signups[s].email
      /\ UNCHANGED signups \/ signups'[s].status \in {"approved", "rejected"}
      /\ pc = "done" => signups'[s].status \in {"approved", "rejected"}
      /\ signups[s].app # None => signups'[s].app # None
      /\ signups'[s].app \in {signups[s].app} \cup
                             (IF calls[k].action = "approve" THEN {k} ELSE {})
      /\ pc = "done" /\ calls[k].action = "approve" => signups'[s].app = k
      /\ UNCHANGED signups \/ (signups'[s].status = "approved" => signups'[s].app = k)
  BY <1>2, <1>3 DEF TypeOK, Signup
<1>1. TypeOK'
  <2>1. signups' \in [Requests -> Signup]
    BY <1>2, <1>3 DEF TypeOK, Signup
  <2>2. calls' \in [Calls -> Call]
    BY <1>2 DEF TypeOK, Call
  <2> QED
    BY <2>1, <2>2 DEF TypeOK
<1>5. Handlers'
  <2>1. \A r \in Requests :
          /\ signups[r].status \in {"approved", "rejected"} =>
               signups'[r].status \in {"approved", "rejected"}
          /\ signups[r].app # None => signups'[r].app # None
    BY <1>4
  <2>2. ASSUME NEW l \in Calls, l # k PROVE Handler(l)'
    <3>1. calls'[l] = calls[l] /\ apps'[l] = apps[l]
      BY <1>2, <2>2 DEF TypeOK
    <3> QED
      BY <2>1, <3>1 DEF Handlers, Handler
  <2>3. Handler(k)'
    <3>1. /\ calls'[k].pc = pc /\ calls'[k].request = s
          /\ calls'[k].action = calls[k].action
      BY <1>2 DEF TypeOK, Call
    <3> QED
      BY <1>3, <1>4, <3>1, SignupsAssumption DEF Handlers, Handler
  <2> QED
    BY <2>2, <2>3 DEF Handlers
<1>6. ShownDone'
  BY <1>2, <1>3 DEF TypeOK, Call, ShownDone
<1>7. Unmade'
  BY <1>4 DEF Unmade
<1>8. ApprovedOwnsApp'
  BY <1>3, <1>4 DEF ApprovedOwnsApp
<1>9. OrphansExplained'
  BY <1>2, <1>3, <1>4 DEF TypeOK, Call, OrphansExplained
<1> QED
  BY <1>1, <1>5, <1>6, <1>7, <1>8, <1>9

LEMMA AnswerIInv ==
  ASSUME IInv, NEW k \in Calls, Answer(k)
  PROVE  IInv'
<1> DEFINE c == calls[k].by
<1>1. /\ UNCHANGED <<signups, apps>>
      /\ calls' = [calls EXCEPT ![k].by = None]
      /\ c \in Consoles
  BY DEF IInv, TypeOK, Call, Answer
<1>2. PICK n \in Calls \cup {None} :
        /\ page' = [page EXCEPT ![c] = [page[c] EXCEPT !.busy = None, !.shown = n]]
        /\ \/ n = page[c].shown
           \/ n = k /\ calls[k].pc = "done" /\ calls[k].action = "approve"
  BY <1>1 DEF IInv, TypeOK, Call, Page, Answer
<1>3. TypeOK'
  <2>1. \A b \in Consoles : page'[b] \in Page
    BY <1>1, <1>2 DEF IInv, TypeOK, Page
  <2>2. page' \in [Consoles -> Page]
    BY <1>2, <2>1 DEF IInv, TypeOK
  <2>3. calls' \in [Calls -> Call]
    BY <1>1 DEF IInv, TypeOK, Call
  <2> QED
    BY <1>1, <2>2, <2>3 DEF IInv, TypeOK
<1>4. \A l \in Calls : /\ calls'[l].pc = calls[l].pc
                       /\ calls'[l].action = calls[l].action
                       /\ calls'[l].request = calls[l].request
  BY <1>1 DEF IInv, TypeOK, Call
<1>5. ASSUME NEW b \in Consoles, page'[b].shown # None
      PROVE  /\ calls'[page'[b].shown].pc = "done"
             /\ calls'[page'[b].shown].action = "approve"
  <2>1. CASE page'[b].shown = page[b].shown
    <3>1. page[b].shown \in Calls
      BY <1>5, <2>1 DEF IInv, TypeOK, Page
    <3> QED
      BY <1>4, <1>5, <2>1, <3>1 DEF IInv, ShownDone
  <2>2. CASE page'[b].shown # page[b].shown
    <3>1. b = c /\ page'[b].shown = n
      BY <1>1, <1>2, <2>2 DEF IInv, TypeOK, Page
    <3> QED
      BY <1>2, <1>4, <2>2, <3>1
  <2> QED
    BY <2>1, <2>2
<1>6. Handlers'
  BY <1>1, <1>4 DEF IInv, Handlers, Handler
<1>7. Unmade' /\ ApprovedOwnsApp'
  BY <1>1 DEF IInv, Unmade, ApprovedOwnsApp
<1>8. OrphansExplained'
  BY <1>1, <1>4 DEF IInv, OrphansExplained
<1> QED
  BY <1>3, <1>5, <1>6, <1>7, <1>8 DEF IInv, ShownDone

LEMMA NextIInv ==
  ASSUME IInv, [Next]_vars
  PROVE  IInv'
<1>1. CASE \E s \in Requests, e \in Emails : PublicSignup(s, e)
  BY <1>1, PublicSignupIInv
<1>2. CASE \E c \in Consoles : load(c) \/ hide(c)
  BY <1>2, PageIInv
<1>3. CASE \E c \in Consoles, k \in Calls, s \in Requests, action \in {"approve", "reject"} :
             act(c, k, s, action)
  BY <1>3, ActIInv
<1>4. CASE \E k \in Calls : \/ CallFinds(k) \/ CallCreates(k) \/ CallMarks(k)
                            \/ CallNotFound(k) \/ CallDies(k) \/ Answer(k)
  BY <1>4, MovesIInv, CallCreatesIInv, CallMarksIInv, AnswerIInv
<1>5. CASE UNCHANGED vars
  BY <1>5 DEF vars, IInv, TypeOK, Handlers, Handler, Unmade, ShownDone, ApprovedOwnsApp,
              OrphansExplained
<1> QED
  BY <1>1, <1>2, <1>3, <1>4, <1>5 DEF Next

LEMMA AlwaysIInv == Spec => []IInv
  BY InitIInv, NextIInv, PTL DEF Spec

\* Requests, applications, handlers and pages keep their types.
THEOREM SignupsTypeCorrect == Spec => []TypeOK
<1>1. IInv => TypeOK
  BY DEF IInv
<1> QED
  BY <1>1, AlwaysIInv, PTL

\* An approved request names an application created for it (ApproveSignup
\* creates before it marks, and RejectSignup leaves app_id alone).
THEOREM ApprovedOwnsAppHolds == Spec => []ApprovedOwnsApp
<1>1. IInv => ApprovedOwnsApp
  BY DEF IInv
<1> QED
  BY <1>1, AlwaysIInv, PTL

\* An application that its request does not name comes from an approval under
\* way, one that failed, or one that another approval replaced.
THEOREM OrphansExplainedHolds == Spec => []OrphansExplained
<1>1. IInv => OrphansExplained
  BY DEF IInv
<1> QED
  BY <1>1, AlwaysIInv, PTL

\* The keys an administrator reads open an application created for a request
\* that is reviewed (the answer of ApproveSignup outlives later rejections).
THEOREM ShownKeysHold == Spec => []ShownKeysOfReviewed
<1>1. IInv => ShownKeysOfReviewed
  BY SignupsAssumption
     DEF IInv, TypeOK, Page, Handlers, Handler, ShownDone, ShownKeysOfReviewed, Pending
<1> QED
  BY <1>1, AlwaysIInv, PTL
=============================================================================
