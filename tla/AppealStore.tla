---------------------------- MODULE AppealStore ----------------------------
(***************************************************************************)
(* The database side of an appeal (internal/store).  Every operation that  *)
(* runs under withAppealLock is one transaction holding the row of the     *)
(* appeal FOR UPDATE, so it is one action here; an operation that takes no *)
(* row lock is a single INSERT or UPDATE statement, again one action.      *)
(*                                                                         *)
(* The parameters of an action are those of the Go method, restricted to   *)
(* the values its callers in internal/httpapi and the janitor can pass.    *)
(* What the callers check before they call (who the caller is, what the    *)
(* row looked like a moment ago) is not repeated here: module              *)
(* AppealHandlers adds it, as a separate step, around these same actions.  *)
(*                                                                         *)
(* A definition named ..._Fault is no part of the model: it is the         *)
(* definition after it with one plausible mistake, and PROJECT.json names  *)
(* the property that the mistake must break.                               *)
(***************************************************************************)
EXTENDS Integers, AppealDomain

CONSTANTS
    Experts,          \* users with the role expert
    Nobody,           \* the NULL of assigned_expert_id
    MaxReturnsInput,  \* values the admin enters for max_returns (0..10 in the code)
    ReturnBound       \* bound of the model: ReturnForRework has no limit in the code

DefaultMaxReturns == 2

ASSUME ConstantsAssumption ==
    /\ Nobody \notin Experts
    /\ MaxReturnsInput \subseteq Nat
    /\ ReturnBound \in Nat

VARIABLES
    appeals,       \* table appeals: the row of each appeal
    participants,  \* table appeal_participants: role of an expert in an appeal
    helped,        \* table feedback, column helped
    statusLog,     \* table appeal_events: new_value of the 'status' event listed last
    limits,        \* values of MaxReturns that GetSettings has had to answer so far
    \* History variables: read by no action, only by properties.
    overridden,    \* the admin has set the status by hand at least once
    byApplicant    \* how many of return_count the applicant asked for

vars == <<appeals, participants, helped, statusLog, limits, overridden, byApplicant>>

\* "none": not yet filed; "erased": deleted by the retention purge.
RowStatus == Status \cup {"none", "erased"}

Row == [status: RowStatus, priority: Priority, crisis: BOOLEAN,
        assigned: Experts \cup {Nobody}, transfer: BOOLEAN,
        returns: Nat, recommended: BOOLEAN]

NoRow(s) == [status |-> s, priority |-> "normal", crisis |-> FALSE,
             assigned |-> Nobody, transfer |-> FALSE,
             returns |-> 0, recommended |-> FALSE]

NoParticipants == [e \in Experts |-> "none"]

Live(a) == appeals[a].status \in Status

Open_Fault(a) ==  \* one terminal status is forgotten
    appeals[a].status \in OpenStatus \cup {"closed_no_response"}

Open(a) == appeals[a].status \in OpenStatus

\* One type invariant for the tables.
TypeOK ==
    /\ appeals \in [Appeals -> Row]
    /\ participants \in [Appeals -> [Experts -> PartRole]]
    /\ helped \in [Appeals -> {"unset", "yes", "no"}]
    /\ statusLog \in [Appeals -> RowStatus]
    /\ limits \subseteq Nat
    /\ overridden \in [Appeals -> BOOLEAN]
    /\ byApplicant \in [Appeals -> Nat]

Init ==
    /\ appeals = [a \in Appeals |-> NoRow("none")]
    /\ participants = [a \in Appeals |-> NoParticipants]
    /\ helped = [a \in Appeals |-> "unset"]
    /\ statusLog = [a \in Appeals |-> "none"]
    /\ limits = {DefaultMaxReturns}
    /\ overridden = [a \in Appeals |-> FALSE]
    /\ byApplicant = [a \in Appeals |-> 0]

\* UPDATE appeals SET ... WHERE id = a (or its INSERT): the row of one appeal.
Update(a, row) == appeals' = [appeals EXCEPT ![a] = row]

(***************************************************************************)
(* addEvent with event_type 'status'.  An event bears the time its         *)
(* transaction began at (created_at DEFAULT now()) and the events are      *)
(* listed by it: one whose transaction began before that of the event      *)
(* listed last, and waited for the lock of the row, does not become the    *)
(* last.                                                                   *)
(***************************************************************************)
LogStatus(a, s) ==
    \/ statusLog' = [statusLog EXCEPT ![a] = s]
    \/ statusLog[a] # "none" /\ UNCHANGED statusLog

-----------------------------------------------------------------------------
(* The applicant                                                           *)

\* CreateAppeal past its idempotency pre-check: one transaction.
CreateAppeal(a, crisis) ==
    /\ appeals[a].status = "none"
    /\ Update(a, [NoRow("new") EXCEPT
                    !.crisis = crisis,
                    !.priority = IF crisis THEN "urgent" ELSE "normal"])
    /\ LogStatus(a, "new")
    /\ UNCHANGED <<participants, helped, limits, overridden, byApplicant>>

AppendDescription_Fault(a, crisisHit) ==  \* forgets the priority
    /\ Open(a)
    /\ Update(a, [appeals[a] EXCEPT !.crisis = @ \/ crisisHit])
    /\ UNCHANGED <<participants, helped, statusLog, limits, overridden, byApplicant>>

\* AppendDescription: a guarded UPDATE; a non-matching row is a conflict.
AppendDescription(a, crisisHit) ==
    /\ Open(a)
    /\ Update(a, [appeals[a] EXCEPT
                    !.crisis = @ \/ crisisHit,
                    !.priority = IF appeals[a].crisis \/ crisisHit THEN "urgent" ELSE @])
    /\ UNCHANGED <<participants, helped, statusLog, limits, overridden, byApplicant>>

\* FlagCrisisFromMessage does not look at the status.
FlagCrisisFromMessage(a) ==
    /\ Live(a)
    /\ ~appeals[a].crisis
    /\ Update(a, [appeals[a] EXCEPT !.crisis = TRUE, !.priority = "urgent"])
    /\ UNCHANGED <<participants, helped, statusLog, limits, overridden, byApplicant>>

(***************************************************************************)
(* ApplicantResult reads the settings before its transaction: limit is any *)
(* value GetSettings may have answered by now, however old.                *)
(***************************************************************************)
ApplicantHelped(a) ==
    /\ appeals[a].status = "answer_ready"
    /\ Update(a, [appeals[a] EXCEPT !.status = "completed"])
    /\ helped' = [helped EXCEPT ![a] = "yes"]
    /\ LogStatus(a, "completed")
    /\ UNCHANGED <<participants, limits, overridden, byApplicant>>

ApplicantReturned_Fault(a, limit) ==  \* <= for <
    /\ appeals[a].status = "answer_ready"
    /\ appeals[a].returns <= limit
    /\ Update(a, [appeals[a] EXCEPT !.status = "returned", !.returns = @ + 1])
    /\ helped' = [helped EXCEPT ![a] = "no"]
    /\ LogStatus(a, "returned")
    /\ byApplicant' = [byApplicant EXCEPT ![a] = @ + 1]
    /\ UNCHANGED <<participants, limits, overridden>>

ApplicantReturned(a, limit) ==
    /\ appeals[a].status = "answer_ready"
    /\ appeals[a].returns < limit
    /\ Update(a, [appeals[a] EXCEPT !.status = "returned", !.returns = @ + 1])
    /\ helped' = [helped EXCEPT ![a] = "no"]
    /\ LogStatus(a, "returned")
    /\ byApplicant' = [byApplicant EXCEPT ![a] = @ + 1]
    /\ UNCHANGED <<participants, limits, overridden>>

-----------------------------------------------------------------------------
(* Staff                                                                   *)

(***************************************************************************)
(* TransitionStatus: the caller names the status it expects to find; the   *)
(* four call sites pass the pairs below.  The version test of the UPDATE   *)
(* compares the row with itself, under the lock, and is left out.          *)
(***************************************************************************)
TransitionCalls ==
    {<<"assigned", "in_progress">>,                \* handleTakeInProgress
     <<"in_progress", "needs_clarification">>,     \* handleClarify
     <<"needs_clarification", "in_progress">>,     \* the applicant answered
     <<"needs_clarification", "closed_no_response">>,  \* handleCloseNoResponse,
     <<"answer_ready", "closed_no_response">>}         \* AutoCloseNoResponse

TransitionStatus(a, expectedFrom, to) ==
    /\ appeals[a].status = expectedFrom
    /\ CanTransition(expectedFrom, to)
    /\ Update(a, [appeals[a] EXCEPT !.status = to])
    /\ LogStatus(a, to)
    /\ UNCHANGED <<participants, helped, limits, overridden, byApplicant>>

MadeResponsible_Fault(roles, e) ==  \* the old entry stays
    [roles EXCEPT ![e] = "responsible"]

\* "Exactly one responsible": the old entry is deleted, the new one created or,
\* if the expert is a contributor already, promoted.
MadeResponsible(roles, e) ==
    [x \in Experts |-> IF x = e THEN "responsible"
                       ELSE IF roles[x] = "responsible" THEN "none" ELSE roles[x]]

AssignExpert_Fault(a, e, byAdmin) ==  \* a transfer leaves the status as it is
    /\ \/ appeals[a].status \in {"new", "returned"}
       \/ appeals[a].transfer
       \/ byAdmin
    /\ Open(a)
    /\ participants' = [participants EXCEPT ![a] = MadeResponsible(@, e)]
    /\ Update(a, [appeals[a] EXCEPT !.status = IF appeals[a].transfer THEN @
                                               ELSE "assigned",
                                    !.assigned = e, !.transfer = FALSE])
    /\ UNCHANGED <<helped, statusLog, limits, overridden, byApplicant>>

\* AssignExpert writes the status itself and logs an 'assign' event only.
AssignExpert(a, e, byAdmin) ==
    /\ \/ appeals[a].status \in {"new", "returned"}
       \/ appeals[a].transfer
       \/ byAdmin
    /\ Open(a)
    /\ participants' = [participants EXCEPT ![a] = MadeResponsible(@, e)]
    /\ Update(a, [appeals[a] EXCEPT !.status = "assigned", !.assigned = e,
                                    !.transfer = FALSE])
    /\ UNCHANGED <<helped, statusLog, limits, overridden, byApplicant>>

Reject(a) ==
    /\ appeals[a].status \in {"new", "returned"}
    /\ Update(a, [appeals[a] EXCEPT !.status = "rejected"])
    /\ LogStatus(a, "rejected")
    /\ UNCHANGED <<participants, helped, limits, overridden, byApplicant>>

CompleteByOperator(a) ==
    /\ appeals[a].status = "new"
    /\ Update(a, [appeals[a] EXCEPT !.status = "completed", !.recommended = TRUE])
    /\ LogStatus(a, "completed")
    /\ UNCHANGED <<participants, helped, limits, overridden, byApplicant>>

ReturnForRework(a) ==
    /\ appeals[a].status = "answer_ready"
    /\ CanTransition("answer_ready", "returned")
    /\ appeals[a].returns < ReturnBound     \* bound of the model
    /\ Update(a, [appeals[a] EXCEPT !.status = "returned", !.returns = @ + 1])
    /\ LogStatus(a, "returned")
    /\ UNCHANGED <<participants, helped, limits, overridden, byApplicant>>

PublishRecommendation_Fault(a) ==  \* the text is not stored
    /\ appeals[a].status = "in_progress"
    /\ Update(a, [appeals[a] EXCEPT !.status = "answer_ready"])
    /\ LogStatus(a, "answer_ready")
    /\ UNCHANGED <<participants, helped, limits, overridden, byApplicant>>

PublishRecommendation(a) ==
    /\ appeals[a].status = "in_progress"
    /\ Update(a, [appeals[a] EXCEPT !.status = "answer_ready", !.recommended = TRUE])
    /\ LogStatus(a, "answer_ready")
    /\ UNCHANGED <<participants, helped, limits, overridden, byApplicant>>

RequestTransfer_Fault(a) ==  \* the expert is let go at once
    /\ Open(a)
    /\ Update(a, [appeals[a] EXCEPT !.transfer = TRUE, !.assigned = Nobody])
    /\ UNCHANGED <<participants, helped, statusLog, limits, overridden, byApplicant>>

RequestTransfer(a) ==
    /\ Open(a)
    /\ Update(a, [appeals[a] EXCEPT !.transfer = TRUE])
    /\ UNCHANGED <<participants, helped, statusLog, limits, overridden, byApplicant>>

\* AddContributor takes no row lock and tests no status: INSERT ... DO NOTHING.
AddContributor(a, e) ==
    /\ Live(a)
    /\ participants' = [participants EXCEPT ![a][e] =
                            IF @ = "none" THEN "contributor" ELSE @]
    /\ UNCHANGED <<appeals, helped, statusLog, limits, overridden, byApplicant>>

\* SetCrisisFlag(detected): clearing it takes an urgent appeal back to normal.
SetCrisisFlag(a, detected) ==
    /\ Open(a)
    /\ appeals[a].crisis # detected
    /\ Update(a, [appeals[a] EXCEPT
                    !.crisis = detected,
                    !.priority = IF detected THEN "urgent"
                                 ELSE IF @ = "urgent" THEN "normal" ELSE @])
    /\ UNCHANGED <<participants, helped, statusLog, limits, overridden, byApplicant>>

SetPriority(a, p) ==
    /\ Open(a)
    /\ appeals[a].crisis => p = "urgent"
    /\ Update(a, [appeals[a] EXCEPT !.priority = p])
    /\ UNCHANGED <<participants, helped, statusLog, limits, overridden, byApplicant>>

\* AdminSetStatus passes over the transition table but not out of the archive.
AdminSetStatus(a, to) ==
    /\ Open(a)
    /\ appeals[a].status # to
    /\ Update(a, [appeals[a] EXCEPT !.status = to])
    /\ LogStatus(a, to)
    /\ overridden' = [overridden EXCEPT ![a] = TRUE]
    /\ UNCHANGED <<participants, helped, limits, byApplicant>>

-----------------------------------------------------------------------------
(* Settings and retention                                                  *)

\* GetSettings skips a stored value that is not positive.
EffectiveMaxReturns(n) == IF n <= 0 THEN DefaultMaxReturns ELSE n

SetMaxReturns(n) ==
    /\ limits' = limits \cup {EffectiveMaxReturns(n)}
    /\ UNCHANGED <<appeals, participants, helped, statusLog, overridden, byApplicant>>

PurgeAppeal_Fault(a) ==  \* the status is not tested again
    /\ Live(a)
    /\ Update(a, NoRow("erased"))
    /\ participants' = [participants EXCEPT ![a] = NoParticipants]
    /\ helped' = [helped EXCEPT ![a] = "unset"]
    /\ statusLog' = [statusLog EXCEPT ![a] = "erased"]
    /\ UNCHANGED <<limits, overridden, byApplicant>>

\* The DELETE of PurgeTerminalAppeals; the other tables cascade.
PurgeAppeal(a) ==
    /\ appeals[a].status \in TerminalStatus
    /\ Update(a, NoRow("erased"))
    /\ participants' = [participants EXCEPT ![a] = NoParticipants]
    /\ helped' = [helped EXCEPT ![a] = "unset"]
    /\ statusLog' = [statusLog EXCEPT ![a] = "erased"]
    /\ UNCHANGED <<limits, overridden, byApplicant>>

-----------------------------------------------------------------------------
ApplicantNext(a) ==
    \/ \E crisis \in BOOLEAN : CreateAppeal(a, crisis)
    \/ \E hit \in BOOLEAN : AppendDescription(a, hit)
    \/ FlagCrisisFromMessage(a)
    \/ ApplicantHelped(a)
    \/ \E limit \in limits : ApplicantReturned(a, limit)

StaffNext(a) ==
    \/ \E call \in TransitionCalls : TransitionStatus(a, call[1], call[2])
    \/ \E e \in Experts, byAdmin \in BOOLEAN : AssignExpert(a, e, byAdmin)
    \/ Reject(a)
    \/ CompleteByOperator(a)
    \/ ReturnForRework(a)
    \/ PublishRecommendation(a)
    \/ RequestTransfer(a)
    \/ \E e \in Experts : AddContributor(a, e)
    \/ \E detected \in BOOLEAN : SetCrisisFlag(a, detected)
    \/ \E p \in Priority : SetPriority(a, p)
    \/ \E to \in OpenStatus : AdminSetStatus(a, to)

Next ==
    \/ \E a \in Appeals : ApplicantNext(a) \/ StaffNext(a) \/ PurgeAppeal(a)
    \/ \E n \in MaxReturnsInput : SetMaxReturns(n)

Spec == Init /\ [][Next]_vars

-----------------------------------------------------------------------------
(* Safety                                                                  *)

\* "A crisis appeal is always urgent" (SetPriority): whatever order the
\* applicant's texts, the operator's review and priority changes come in.
CrisisIsUrgent ==
    \A a \in Appeals : appeals[a].crisis => appeals[a].priority = "urgent"

\* "Exactly one responsible expert" (AssignExpert): the column
\* assigned_expert_id and the table appeal_participants, written by separate
\* statements, name the same expert, and contributors never blur it.
OneResponsible ==
    \A a \in Appeals, e \in Experts :
        participants[a][e] = "responsible" <=> appeals[a].assigned = e

\* An appeal in work has an expert to work on it; a path from 'new' into work
\* that skips the assignment exists only through the admin's override.
WorkHasResponsible ==
    \A a \in Appeals :
        /\ appeals[a].status \in OpenStatus \ {"new"}
        /\ ~overridden[a]
        => appeals[a].assigned \in Experts

\* The applicant is told an answer is ready, or that the appeal is completed,
\* only when a recommendation has been stored, override aside.
AnswerHasRecommendation ==
    \A a \in Appeals :
        /\ appeals[a].status \in {"answer_ready", "returned", "completed"}
        /\ ~overridden[a]
        => appeals[a].recommended

\* The feedback table, the return counter and the status tell one story:
\* 'helped' closes for good, 'did not help' has cost a return.
HelpedMatchesOutcome ==
    \A a \in Appeals :
        /\ helped[a] = "yes" => appeals[a].status = "completed"
        /\ helped[a] = "no" => appeals[a].returns > 0

\* Tables written by separate statements of some fifteen operations: the
\* expert of the row and the participants, the verdict and the outcome agree.
RecordsAgree == OneResponsible /\ HelpedMatchesOutcome

\* What the status promises is there: somebody to do the work that is under
\* way, a text for the answer that is announced.
WorkIsBacked == WorkHasResponsible /\ AnswerHasRecommendation

\* "The number of returns is limited" (ApplicantResult): the applicant never
\* gets more returns than a limit that was in force, and the operator's
\* reworks use up the same counter.
ApplicantReturnsWithinLimit ==
    \A a \in Appeals :
        Live(a) => /\ byApplicant[a] <= appeals[a].returns
                   /\ \E limit \in limits : byApplicant[a] <= limit

-----------------------------------------------------------------------------
(* What a step may never do                                                *)

\* "A terminal status is the archive" (AdminSetStatus): the outcome of an
\* archived appeal never changes again; only the purge removes it.
Outcome(a) ==
    <<appeals[a].status, appeals[a].assigned, appeals[a].transfer,
      appeals[a].returns, appeals[a].recommended, helped[a], statusLog[a]>>

ArchiveIsFinal ==
    [][\A a \in Appeals :
           appeals[a].status \in TerminalStatus =>
               Outcome(a)' = Outcome(a) \/ appeals'[a].status = "erased"]_vars

-----------------------------------------------------------------------------
(* The abstract life of an appeal                                          *)

Phase(s) ==
    CASE s = "none" -> "absent"
      [] s = "erased" -> "erased"
      [] s \in TerminalStatus -> "archived"
      [] OTHER -> "open"

Lifecycle == INSTANCE AppealLifecycle WITH
    phase <- [a \in Appeals |-> Phase(appeals[a].status)],
    owner <- [a \in Appeals |-> appeals[a].assigned]

\* The tables implement the promised life of an appeal.
ImplementsLifecycle == Lifecycle!Spec
=============================================================================
