-------------------------- MODULE MCAppealHandlers --------------------------
(***************************************************************************)
(* Finite instances of AppealHandlers for TLC.  The handlers add the state *)
(* of the pending requests to that of the store, so the store is kept      *)
(* small: the return limits are AppealStore's own run.                     *)
(***************************************************************************)
EXTENDS AppealHandlers, TLC

MCReturnBound == 1

MCMaxReturnsInput == {}

\* The first round of an appeal, up to its first return; normal or urgent.
FirstRound ==
    \A a \in Appeals : appeals[a].returns = 0 /\ appeals[a].priority # "low"

Pending == {w \in Workers : Busy(w)}

\* Two requests at a time, of the kinds that compete for an answer.
AnswerKinds == {"take", "clarify", "publish", "message", "append", "close"}

AnswerRace ==
    /\ \A a \in Appeals : appeals[a].priority = "normal" /\ ~overridden[a]
    /\ \A w \in Pending : requests[w].kind \in AnswerKinds /\ ~requests[w].crisis

\* One request of any kind, everybody else in between; or two that race.
OneRequestOrRace == FirstRound /\ (Cardinality(Pending) <= 1 \/ AnswerRace)

\* Neither the actions nor the properties tell two workers, or two experts, apart.
Symmetry == Permutations(Workers) \cup Permutations(Experts)

\* How the last request ended, and what the history lists last, matter to the
\* step that writes them, and to no other.
View ==
    <<appeals, participants, helped, limits, overridden, byApplicant, writers, moments,
      [w \in Workers |-> IF Busy(w) THEN requests[w] ELSE Done("ok")]>>
=============================================================================
