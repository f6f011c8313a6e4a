------------------------- MODULE MCApplicantAccess -------------------------
(***************************************************************************)
(* Finite instances of ApplicantAccess for TLC.                            *)
(***************************************************************************)
EXTENDS ApplicantAccess, TLC

\* Neither actions nor properties tell two requests, numbers or tokens apart.
Symmetry ==
    Permutations(Workers) \cup Permutations(Tracks) \cup Permutations(Tokens)

\* Filings race with each other, requests under a session do too; what they
\* share is the appeal: either many filings and no session, or one appeal.
FilingsOrSessions ==
    \/ \A s \in Tokens : sessions[s].state = "unused"
    \/ /\ \A w \in Pending : requests[w].step \notin {"insert", "filed"}
       /\ Cardinality({t \in Tracks : filed[t].state # "free"}) = 1
       /\ repeated = {}
=============================================================================
