---------------------------- MODULE AppealDomain ----------------------------
(***************************************************************************)
(* The vocabulary of internal/domain/domain.go: the statuses of an appeal, *)
(* the archive (terminal) statuses, the table of legal status changes and  *)
(* the priorities; and the appeals themselves.  No state.                  *)
(***************************************************************************)

CONSTANT Appeals  \* identifiers of appeals, never reused (gen_random_uuid)

Status ==
    {"new", "assigned", "in_progress", "needs_clarification", "answer_ready",
     "completed", "returned", "rejected", "closed_no_response"}

TerminalStatus == {"completed", "rejected", "closed_no_response"}

Terminal(s) == s \in TerminalStatus

OpenStatus == Status \ TerminalStatus

\* The map Transitions: a status that is not a key has no way out.
Transitions ==
    [new                 |-> {"assigned", "rejected", "completed"},
     assigned            |-> {"in_progress"},
     in_progress         |-> {"needs_clarification", "answer_ready"},
     needs_clarification |-> {"in_progress", "closed_no_response"},
     answer_ready        |-> {"completed", "returned", "closed_no_response"},
     returned            |-> {"assigned", "rejected"}]

CanTransition(from, to) ==
    /\ from # to
    /\ to \in Status
    /\ from \in DOMAIN Transitions
    /\ to \in Transitions[from]

Priority == {"low", "normal", "urgent"}

PartRole == {"none", "contributor", "responsible"}
=============================================================================
