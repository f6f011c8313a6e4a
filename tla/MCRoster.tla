------------------------------ MODULE MCRoster ------------------------------
(***************************************************************************)
(* A finite instance of Roster for TLC.  Two groups, so that an expert can *)
(* leave one; the returns of an appeal are cut after the first, since      *)
(* nothing here looks at their number.                                     *)
(***************************************************************************)
EXTENDS Roster, TLC

MCMaxReturnsInput == {}

MCReturnBound == 1

\* Neither the actions nor the properties tell experts, groups or desks apart.
Symmetry == Permutations(Experts) \cup Permutations(Groups) \cup Permutations(Desks)

\* What the history of an appeal lists last matters to no step and no property.
View == <<appeals, participants, helped, limits, overridden, byApplicant, users, errands,
          stranded>>
=============================================================================
