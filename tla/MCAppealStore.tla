--------------------------- MODULE MCAppealStore ---------------------------
(***************************************************************************)
(* Finite instance of AppealStore for TLC.  One appeal: no action reads or *)
(* writes the rows of two.  Two experts: enough for a reassignment and for *)
(* a contributor next to the responsible expert.                           *)
(***************************************************************************)
EXTENDS AppealStore

\* 0 is accepted from the admin and stands for the default (2).
MCMaxReturnsInput == {0, 1, 3}

\* One more rework than any limit, so that the counter passes every limit.
MCReturnBound == 4
=============================================================================
