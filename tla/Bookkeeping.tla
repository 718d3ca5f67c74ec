----------------------------- MODULE Bookkeeping -----------------------------
(***************************************************************************)
(* The orchestrator keeps the ledger: its rows are the book, the requests  *)
(* sent to DIARRA are the orders, and a payment is settled once one of the *)
(* transactions asked for on its behalf completed.                         *)
(***************************************************************************)
EXTENDS Orchestrator

BookEntry == [type : PaymentTypes, app : Apps, appRef : AppRefs, amount : Nat,
              net : Nat, of : Ids \cup {None}]

BookBlank == [type |-> "none", app |-> None, appRef |-> None, amount |-> 0,
              net |-> 0, of |-> None]

L == INSTANCE Ledger WITH
       Payments <- Ids,
       Entry    <- BookEntry,
       NoEntry  <- BookBlank,
       book     <- [p \in Ids |-> Terms(p)],
       ordered  <- {q \in XferReqs : Asked(q)},
       settled  <- {p \in Ids : Stored(p) /\ Paid(p)},
       shown    <- {p \in Ids : Stored(p) /\ payments[p].status = "completed"}

\* Every step of every handler, callback and transaction, in any order, with
\* failing statements and crashes, is a step of the ledger or changes nothing
\* in it.
ImplementsLedger == L!LSpec

\* So the book is sound in every state: one payment per key, no completed
\* payment that was not paid, no transfer paid without being ordered once, and
\* behind each refund, from its insertion on, the deposit that was paid.
BookIsSound == L!BookSound
=============================================================================
