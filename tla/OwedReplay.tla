------------------------------ MODULE OwedReplay ------------------------------
(***************************************************************************)
(* What the wealth page makes of the owed ledger: the total owed now, read *)
(* from the item rows, and the total owed at a past date, replayed from    *)
(* the event log (WealthService.get_monthly_totals).  A date of the model  *)
(* is a date the chart values: the end of a month, or today.               *)
(***************************************************************************)
EXTENDS OwedLedger

\* The last event of item i dated d or earlier, for the items that have one.
KnownOn(d) == {i \in DOMAIN log : \E e \in DOMAIN log[i] : e <= d}

LastEventOn(i, d) == log[i][Max({e \in DOMAIN log[i] : e <= d})]

CountedOn(d) ==
    {i \in KnownOn(d) : /\ LastEventOn(i, d).type # "deleted"
                        /\ LastEventOn(i, d).status \in OpenStatuses}

OwedOn(d) == SumFunction([i \in CountedOn(d) |-> LastEventOn(i, d).remaining])

ActiveItems ==
    {i \in DOMAIN items : Live(i) /\ items[i].status \in OpenStatuses}

ActiveRemainingTotal == RemainingIn(ActiveItems)

MonthlyTotal(d) == IF d = today THEN ActiveRemainingTotal ELSE OwedOn(d)

-----------------------------------------------------------------------------
(* Properties                                                              *)

\* Only entries that carry their own date, a new item, a new repayment or a
\* repair, may change what the chart says of a past date: edits, deletions,
\* reversals and renames happen today and leave the past as it was told.
PastKeepsValue ==
    [][items' # items /\ DOMAIN items' = DOMAIN items
           /\ DOMAIN payments' \subseteq DOMAIN payments =>
       \A d \in Dates : d < today => OwedOn(d)' = OwedOn(d)]_vars

\* When the integrity check lists nothing and no item has been deleted, the
\* replay of the whole log is the total read from the rows: comparing the
\* latest events' remaining amount and status is enough.
CleanLogReplaysToday ==
    IntegrityIssues = {} /\ (\A i \in DOMAIN items : Live(i)) =>
        OwedOn(MaxDate) = ActiveRemainingTotal

=============================================================================
