---------------------------- MODULE MCAutoClose ----------------------------
(***************************************************************************)
(* A finite instance of AutoClose for TLC: limits from the shortest one    *)
(* that is warned of (3 days).                                             *)
(***************************************************************************)
EXTENDS AutoClose

MCDaysInput == {3, 4}

MCCap == 5

\* Of the runs that show a pause too short: the server has not been down, no
\* day passes before the janitor has done what was due.
JanitorKeepsUp ==
    Tick => \A a \in Appeals : /\ ~WarningDue(a, days)
                               /\ ~(/\ status[a] \in Waiting
                                    /\ Overdue(a, days)
                                    /\ HasWarning(a))
=============================================================================
