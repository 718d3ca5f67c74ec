------------------------------- MODULE Ledger -------------------------------
(***************************************************************************)
(* What ABMCY Core promises its applications, with no request, reference,  *)
(* reply or callback in it: a book of payments.  A payment is entered once *)
(* under its key, on terms that never change; a transfer is ordered from   *)
(* DIARRA at most once; a refund is only entered against a deposit that    *)
(* was paid; and a payment is shown as completed only when its money moved.*)
(***************************************************************************)
CONSTANTS
  Payments,   \* names of payments
  Entry,      \* the terms a payment may be entered on
  NoEntry     \* those of a name no payment has yet, not among them

VARIABLES
  book,      \* the terms of each payment
  ordered,   \* transfers that DIARRA was asked for
  settled,   \* payments whose money moved
  shown      \* payments that are marked completed

lvars == <<book, ordered, settled, shown>>

LInit ==
  /\ book = [p \in Payments |-> NoEntry]
  /\ ordered = {}
  /\ settled = {}
  /\ shown = {}

Entered == {p \in Payments : book[p] \in Entry}

\* The unique index of the payments table.
Key(e) == <<e.app, e.appRef, e.type>>

\* A refund gives back the whole of a deposit of the same application.
Backing(e, d) ==
  /\ d \in Entered \cap settled
  /\ book[d].type = "deposit" /\ book[d].app = e.app /\ book[d].amount = e.amount

Enter(p, e) ==
  /\ book[p] = NoEntry /\ e \in Entry
  /\ \A x \in Entered : Key(book[x]) # Key(e)
  /\ e.type = "refund" => Backing(e, e.of)
  /\ book' = [book EXCEPT ![p] = e]
  /\ UNCHANGED <<ordered, settled, shown>>

Order(p) ==
  /\ p \in Entered \ ordered /\ book[p].type # "deposit"
  /\ ordered' = ordered \cup {p}
  /\ UNCHANGED <<book, settled, shown>>

Settle(p) ==
  /\ p \in Entered \ settled
  /\ book[p].type # "deposit" => p \in ordered
  /\ settled' = settled \cup {p}
  /\ UNCHANGED <<book, ordered, shown>>

Mark(p) ==
  /\ p \in settled
  /\ shown' = shown \cup {p}
  /\ UNCHANGED <<book, ordered, settled>>

\* A later report or reply, of a renewed link for one, may say otherwise.
Unmark(p) ==
  /\ shown' = shown \ {p}
  /\ UNCHANGED <<book, ordered, settled>>

\* The terms of an entry are those the step writes.
LNext ==
  \E p \in Payments :
    Enter(p, book'[p]) \/ Order(p) \/ Settle(p) \/ Mark(p) \/ Unmark(p)

LSpec == LInit /\ [][LNext]_lvars
-----------------------------------------------------------------------------
\* One payment per key, completed only if paid, transfers paid only if ordered,
\* and every refund entered against a deposit that was paid.
BookSound ==
  /\ \A p, x \in Entered : Key(book[p]) = Key(book[x]) => p = x
  /\ shown \subseteq settled /\ settled \subseteq Entered
  /\ \A p \in settled : book[p].type # "deposit" => p \in ordered
  /\ \A p \in Entered : book[p].type = "refund" => Backing(book[p], book[p].of)
=============================================================================
