---------------------------- MODULE PaymentStore ----------------------------
(***************************************************************************)
(* The payments table and the statements app_repo.go runs on it.           *)
(*                                                                         *)
(* An HTTP request is known by an identifier in Ids.  A request makes at   *)
(* most one row, one diarra_client_ref and one gateway transaction; they   *)
(* all carry the identifier of the request, which says that the UUIDs      *)
(* abmcyUUID and gen_random_uuid draw never collide.  A statement is       *)
(* atomic; two statements of one handler are two steps.                    *)
(***************************************************************************)
EXTENDS AppRegistry, Fees

CONSTANTS
  Ids,       \* requests, and the rows and references they generate
  None,      \* no row, no link, no reference
  AppRefs,   \* the applications' own references (orders)
  Amounts,   \* amounts in francs that requests carry
  UsdRate,   \* francs per dollar the process was started with
  DbFails,   \* TRUE when a statement may fail, before or after it commits
  Crashes    \* TRUE when the process may stop in the middle of a handler

ASSUME StoreAssumption ==
  /\ None \notin Ids \cup Apps \cup AppRefs
  /\ Amounts \subseteq Nat \ {0}
  /\ UsdRate \in Int
  /\ DbFails \in BOOLEAN /\ Crashes \in BOOLEAN

VARIABLE payments   \* the row each identifier names, NoRow when there is none

\* A row, or the absence of one: then type is "none" and the rest is blank.
Row == [type   : PaymentTypes \cup {"none"},
        app    : Apps \cup {None},
        appRef : AppRefs \cup {None},
        ref    : Ids \cup {None},    \* diarra_client_ref
        status : Statuses,
        amount : Amounts \cup {0},
        net    : Nat,                \* amount minus the fee, both frozen
        link   : Ids \cup {None},    \* gateway transaction redirect_url opens
        old    : BOOLEAN,            \* created more than 23 hours ago
        of     : Ids \cup {None}]    \* refund_of_payment_id

NoRow == [type |-> "none", app |-> None, appRef |-> None, ref |-> None,
          status |-> "pending", amount |-> 0, net |-> 0, link |-> None,
          old |-> FALSE, of |-> None]

StoreInit == payments = [p \in Ids |-> NoRow]

Stored(p) == payments[p].type # "none"

StoreTypeOK ==
  /\ payments \in [Ids -> Row]
  /\ \A p \in Ids : Stored(p) => payments[p].app \in Apps /\ payments[p].appRef \in AppRefs

\* The rows a SELECT by (app_id, app_ref, type) returns: UNIQUE leaves one.
Matching(app, appRef, type) ==
  {p \in Ids : /\ payments[p].type = type
               /\ payments[p].app = app
               /\ payments[p].appRef = appRef}

\* Mutant: only deposits are looked up.
FindDepositByDiarraRef(r) == {p \in Ids : payments[p].type = "deposit" /\ payments[p].ref = r}

\* The row a SELECT by diarra_client_ref returns.
FindPaymentByDiarraRef(r) == {p \in Ids : Stored(p) /\ payments[p].ref = r}

NetOf(amount) == Compute(amount, UsdRate).net

\* What the columns of a freshly inserted row hold.
NewRow(type, app, appRef, r, amount, of) ==
  [type |-> type, app |-> app, appRef |-> appRef, ref |-> r,
   status |-> "pending", amount |-> amount,
   net |-> NetOf(amount),
   link |-> None, old |-> FALSE, of |-> of]

\* INSERT, once the unique key is known to be free.
InsertRow(r, row) == payments' = [payments EXCEPT ![r] = row]

UpdatePaymentStatus(p, s) == payments' = [payments EXCEPT ![p].status = s]

\* Mutant: the row is named by its app_ref alone.
UpdateRedirectByAppRef(p, l) ==
  payments' = [x \in Ids |-> IF Stored(x) /\ payments[x].appRef = payments[p].appRef
                               THEN [payments[x] EXCEPT !.link = l] ELSE payments[x]]

\* Mutant: the reference is written along with the link.
UpdateRefWithRedirect(p, l) ==
  payments' = [payments EXCEPT ![p].link = l, ![p].ref = IF l = None THEN @ ELSE l]

UpdatePaymentRedirect(p, l) == payments' = [payments EXCEPT ![p].link = l]

UpdateDiarraRefAndRedirect(p, r, l) ==
  payments' = [payments EXCEPT ![p].ref = r, ![p].link = l]

\* A write that reported an error: it may have committed all the same.
FailedWrite(A) == DbFails /\ (A \/ UNCHANGED payments)

\* A write whose error the handler throws away.
Attempt(A) == A \/ (DbFails /\ UNCHANGED payments)

linkLikelyExpired(p) == payments[p].link = None \/ payments[p].old
=============================================================================
