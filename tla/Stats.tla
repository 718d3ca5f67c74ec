-------------------------------- MODULE Stats --------------------------------
(***************************************************************************)
(* The console's dashboard, GET /admin/stats: four SELECTs over payments,  *)
(* one after the other and outside any transaction, each of which sees the *)
(* rows of its own moment while requests and callbacks go on.  The rows of *)
(* a run are younger than the window of the request (30 days unless it     *)
(* says otherwise), so the date filter lets every one of them through.     *)
(* Of the Dashboard under construction, the model keeps the lines of the   *)
(* query answered last.                                                    *)
(***************************************************************************)
EXTENDS Bookkeeping, FiniteSets, Functions

VARIABLE dash   \* the query under way, and the lines of the one before it

svars == <<vars, dash>>

\* Mutant: what did not fail is taken for completed.
FiguresNotFailed(ps) ==
  [count     |-> Cardinality(ps),
   amount    |-> SumFunction([p \in ps |-> payments[p].amount]),
   fee       |-> SumFunction([p \in ps |-> payments[p].amount - payments[p].net]),
   completed |-> Cardinality({p \in ps : payments[p].status # "failed"}),
   finished  |-> Cardinality(ps)]

\* COUNT(*), SUM(amount_cfa), SUM(fee_cfa), and what the success rate divides.
Figures(ps) ==
  [count     |-> Cardinality(ps),
   amount    |-> SumFunction([p \in ps |-> payments[p].amount]),
   fee       |-> SumFunction([p \in ps |-> payments[p].amount - payments[p].net]),
   completed |-> Cardinality({p \in ps : payments[p].status = "completed"}),
   finished  |-> Cardinality({p \in ps : payments[p].status \in {"completed", "failed"}})]

NoLines == [t \in {} |-> Figures({})]

DashboardInit == dash = [pc |-> "idle", lines |-> NoLines]

\* GROUP BY: a group without rows counts nothing, as if it had no line.
Grouped(groups, groupOf) ==
  [g \in groups |-> Figures({p \in Ids : Stored(p) /\ groupOf[p] = g})]

Query(from, to, lines) == dash.pc = from /\ dash' = [pc |-> to, lines |-> lines]

AskDashboard == dash.pc \in {"idle", "shown"} /\ dash' = [pc |-> "totals", lines |-> NoLines]

ReadTotals == Query("totals", "by_type", Grouped({"all"}, [p \in Ids |-> "all"]))

ReadByType ==
  Query("by_type", "by_app", Grouped(PaymentTypes, [p \in Ids |-> payments[p].type]))

\* Mutant: only the active applications are joined.
ReadByActiveApp ==
  LET seen(p) == Stored(p) /\ active[payments[p].app]
  IN  Query("by_app", "by_operator",
            Grouped(Apps, [p \in Ids |-> IF seen(p) THEN payments[p].app ELSE None]))

\* JOIN apps: no application is ever deleted.
ReadByApp ==
  Query("by_app", "by_operator", Grouped(Apps, [p \in Ids |-> payments[p].app]))

\* Every payout names an operator; the operators are taken together.
ReadByOperator ==
  Query("by_operator", "shown", Grouped({"payout"}, [p \in Ids |-> payments[p].type]))

\* stats_failed: one query that fails fails the answer.
DashboardFails ==
  /\ DbFails
  /\ dash.pc \in {"totals", "by_type", "by_app", "by_operator"}
  /\ dash' = [pc |-> "idle", lines |-> NoLines]

DashboardNext ==
  \/ AskDashboard \/ ReadTotals \/ ReadByType \/ ReadByApp \/ ReadByOperator
  \/ DashboardFails

SInit == Init /\ DashboardInit

SNext ==
  \/ Next /\ UNCHANGED dash
  \/ DashboardNext /\ UNCHANGED vars

SSpec == SInit /\ [][SNext]_svars
-----------------------------------------------------------------------------
Total(lines, field) == SumFunction([g \in DOMAIN lines |-> lines[g][field]])

Whole == {"by_type", "by_app", "by_operator"}

\* The figures of one answer come from different moments, but in order: the
\* totals, then the lines by type, then those by application add up to more
\* and more payments, amounts and commissions, never to less (rows are only
\* added, on terms that never change, whatever becomes of their status, and an
\* application that is turned off keeps its payments in the count).
FiguresGrow ==
  [][dash.pc \in Whole /\ dash'.pc \in Whole \ {dash.pc}
     => \A field \in {"count", "amount", "fee"} :
          Total(dash.lines, field) <= Total(dash'.lines, field)]_svars

\* A dashboard never credits an application with more successes than it has
\* payments whose money moved, although the row counted may since say
\* otherwise (the status of a reply is written over that of a callback).
CountedCompletedIsPaid ==
  dash.pc = "by_operator"
  => \A a \in Apps :
       dash.lines[a].completed <= Cardinality({p \in Ids : payments[p].app = a /\ Paid(p)})
==============================================================================
