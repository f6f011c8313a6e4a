------------------------- MODULE AppealStoreProofs -------------------------
(***************************************************************************)
(* Proofs about AppealStore, for any sets of appeals and experts, any      *)
(* return limits and any bound on reworks.                                 *)
(***************************************************************************)
EXTENDS AppealStore, TLAPS

USE ConstantsAssumption

-----------------------------------------------------------------------------
(* Lemmas about rows                                                       *)

\* The status words the actions write.
LEMMA StatusNames ==
    /\ OpenStatus \subseteq RowStatus
    /\ TerminalStatus \subseteq RowStatus
    /\ {"new", "assigned", "in_progress", "needs_clarification", "answer_ready",
        "returned"} = OpenStatus
    /\ TerminalStatus = {"completed", "rejected", "closed_no_response"}
    /\ OpenStatus \cap TerminalStatus = {}
    /\ Status = OpenStatus \cup TerminalStatus
    /\ "none" \notin Status /\ "erased" \notin Status
    /\ "none" \in RowStatus /\ "erased" \in RowStatus
BY DEF OpenStatus, TerminalStatus, Status, RowStatus

\* Update writes one row of the table and no other.
LEMMA RowWrite ==
    ASSUME NEW a \in Appeals, NEW row \in Row, appeals \in [Appeals -> Row],
           Update(a, row)
    PROVE  /\ appeals' \in [Appeals -> Row]
           /\ appeals'[a] = row
           /\ \A b \in Appeals \ {a} : appeals'[b] = appeals[b]
BY DEF Update

\* A blank row is a row.
LEMMA BlankRow ==
    ASSUME NEW s \in RowStatus PROVE NoRow(s) \in Row
BY DEF NoRow, Row, Priority

\* Rewriting columns of a row with values of their types leaves a row.
LEMMA RowStatusSet ==
    ASSUME NEW r \in Row, NEW s \in RowStatus
    PROVE  /\ [r EXCEPT !.status = s] \in Row
           /\ [r EXCEPT !.status = s, !.recommended = TRUE] \in Row
BY DEF Row

\* A returned row is a row.
LEMMA RowReturned ==
    ASSUME NEW r \in Row, NEW s \in RowStatus
    PROVE  [r EXCEPT !.status = s, !.returns = @ + 1] \in Row
<1>1. r.returns + 1 \in Nat
  BY DEF Row
<1>2. QED
  BY <1>1 DEF Row

\* An assigned row is a row.
LEMMA RowAssigned ==
    ASSUME NEW r \in Row, NEW s \in RowStatus, NEW e \in Experts
    PROVE  [r EXCEPT !.status = s, !.assigned = e, !.transfer = FALSE] \in Row
BY DEF Row

-----------------------------------------------------------------------------
(* Type correctness                                                        *)

\* The empty tables are well typed.
LEMMA TypeInit == Init => TypeOK
BY BlankRow, StatusNames
   DEF Init, TypeOK, NoParticipants, PartRole, DefaultMaxReturns

\* No transaction leaves the tables ill typed.
LEMMA TypeStep == TypeOK /\ [Next]_vars => TypeOK'
<1> SUFFICES ASSUME TypeOK, [Next]_vars PROVE TypeOK'
  OBVIOUS
<1>0. Status \subseteq RowStatus /\ OpenStatus \subseteq RowStatus
      /\ "completed" \in RowStatus /\ "returned" \in RowStatus /\ "assigned" \in RowStatus
      /\ "rejected" \in RowStatus /\ "answer_ready" \in RowStatus
  BY StatusNames
<1>1. ASSUME NEW a \in Appeals, ApplicantNext(a) PROVE TypeOK'
  <2>0. appeals[a] \in Row
    BY DEF TypeOK
  <2>1. ASSUME NEW crisis \in BOOLEAN, CreateAppeal(a, crisis) PROVE TypeOK'
    <3>1. [NoRow("new") EXCEPT !.crisis = crisis,
                   !.priority = IF crisis THEN "urgent" ELSE "normal"] \in Row
      BY StatusNames DEF NoRow, Row, Priority
    <3>2. QED
      BY <2>1, <3>1, RowWrite, StatusNames DEF TypeOK, LogStatus, CreateAppeal
  <2>2. ASSUME NEW hit \in BOOLEAN, AppendDescription(a, hit) PROVE TypeOK'
    <3>1. [appeals[a] EXCEPT
              !.crisis = @ \/ hit,
              !.priority = IF appeals[a].crisis \/ hit THEN "urgent" ELSE @] \in Row
      BY <2>0 DEF Row, Priority
    <3>2. QED
      BY <2>2, <3>1, RowWrite DEF TypeOK, AppendDescription
  <2>3. ASSUME FlagCrisisFromMessage(a) PROVE TypeOK'
    <3>1. [appeals[a] EXCEPT !.crisis = TRUE, !.priority = "urgent"] \in Row
      BY <2>0 DEF Row, Priority
    <3>2. QED
      BY <2>3, <3>1, RowWrite DEF TypeOK, FlagCrisisFromMessage
  <2>4. ASSUME ApplicantHelped(a) PROVE TypeOK'
    <3>1. [appeals[a] EXCEPT !.status = "completed"] \in Row
      BY <2>0, <1>0, RowStatusSet
    <3>2. QED
      BY <2>4, <3>1, RowWrite, StatusNames DEF TypeOK, LogStatus, ApplicantHelped
  <2>5. ASSUME NEW limit \in limits, ApplicantReturned(a, limit) PROVE TypeOK'
    <3>1. [appeals[a] EXCEPT !.status = "returned", !.returns = @ + 1] \in Row
      BY <2>0, <1>0, RowReturned
    <3>2. QED
      BY <2>5, <3>1, RowWrite, StatusNames DEF TypeOK, LogStatus, ApplicantReturned
  <2>6. QED
    BY <1>1, <2>1, <2>2, <2>3, <2>4, <2>5 DEF ApplicantNext
<1>2. ASSUME NEW a \in Appeals, StaffNext(a) PROVE TypeOK'
  <2>0. appeals[a] \in Row
    BY DEF TypeOK
  <2>1. ASSUME NEW call \in TransitionCalls, TransitionStatus(a, call[1], call[2])
        PROVE TypeOK'
    <3>1. call[2] \in RowStatus
      BY StatusNames DEF TransitionCalls
    <3>2. [appeals[a] EXCEPT !.status = call[2]] \in Row
      BY <2>0, <3>1, RowStatusSet
    <3>3. QED
      BY <2>1, <3>1, <3>2, RowWrite DEF TypeOK, LogStatus, TransitionStatus
  <2>2. ASSUME NEW e \in Experts, NEW byAdmin \in BOOLEAN, AssignExpert(a, e, byAdmin)
        PROVE TypeOK'
    <3>1. [appeals[a] EXCEPT !.status = "assigned", !.assigned = e, !.transfer = FALSE]
             \in Row
      BY <2>0, <1>0, RowAssigned
    <3>2. MadeResponsible(participants[a], e) \in [Experts -> PartRole]
      BY DEF TypeOK, MadeResponsible, PartRole
    <3>3. participants' \in [Appeals -> [Experts -> PartRole]]
      BY <2>2, <3>2 DEF TypeOK, AssignExpert
    <3>4. QED
      BY <2>2, <3>1, <3>3, RowWrite DEF TypeOK, AssignExpert
  <2>3. ASSUME Reject(a) PROVE TypeOK'
    <3>1. [appeals[a] EXCEPT !.status = "rejected"] \in Row
      BY <2>0, <1>0, RowStatusSet
    <3>2. QED
      BY <2>3, <3>1, RowWrite, StatusNames DEF TypeOK, LogStatus, Reject
  <2>4. ASSUME CompleteByOperator(a) PROVE TypeOK'
    <3>1. [appeals[a] EXCEPT !.status = "completed", !.recommended = TRUE] \in Row
      BY <2>0, <1>0, RowStatusSet
    <3>2. QED
      BY <2>4, <3>1, RowWrite, StatusNames DEF TypeOK, LogStatus, CompleteByOperator
  <2>5. ASSUME ReturnForRework(a) PROVE TypeOK'
    <3>1. [appeals[a] EXCEPT !.status = "returned", !.returns = @ + 1] \in Row
      BY <2>0, <1>0, RowReturned
    <3>2. QED
      BY <2>5, <3>1, RowWrite, StatusNames DEF TypeOK, LogStatus, ReturnForRework
  <2>6. ASSUME PublishRecommendation(a) PROVE TypeOK'
    <3>1. [appeals[a] EXCEPT !.status = "answer_ready", !.recommended = TRUE] \in Row
      BY <2>0, <1>0, RowStatusSet
    <3>2. QED
      BY <2>6, <3>1, RowWrite, StatusNames DEF TypeOK, LogStatus, PublishRecommendation
  <2>7. ASSUME RequestTransfer(a) PROVE TypeOK'
    <3>1. [appeals[a] EXCEPT !.transfer = TRUE] \in Row
      BY <2>0 DEF Row
    <3>2. QED
      BY <2>7, <3>1, RowWrite, StatusNames DEF TypeOK, LogStatus, RequestTransfer
  <2>8. ASSUME NEW e \in Experts, AddContributor(a, e) PROVE TypeOK'
    BY <2>8 DEF TypeOK, PartRole, AddContributor
  <2>9. ASSUME NEW detected \in BOOLEAN, SetCrisisFlag(a, detected) PROVE TypeOK'
    <3>1. [appeals[a] EXCEPT
              !.crisis = detected,
              !.priority = IF detected THEN "urgent"
                           ELSE IF @ = "urgent" THEN "normal" ELSE @] \in Row
      BY <2>0 DEF Row, Priority
    <3>2. QED
      BY <2>9, <3>1, RowWrite DEF TypeOK, SetCrisisFlag
  <2>10. ASSUME NEW p \in Priority, SetPriority(a, p) PROVE TypeOK'
    <3>1. [appeals[a] EXCEPT !.priority = p] \in Row
      BY <2>0 DEF Row
    <3>2. QED
      BY <2>10, <3>1, RowWrite DEF TypeOK, SetPriority
  <2>11. ASSUME NEW to \in OpenStatus, AdminSetStatus(a, to) PROVE TypeOK'
    <3>1. [appeals[a] EXCEPT !.status = to] \in Row
      BY <2>0, <1>0, RowStatusSet
    <3>2. QED
      BY <2>11, <3>1, RowWrite, StatusNames DEF TypeOK, LogStatus, AdminSetStatus
  <2>12. QED
    BY <1>2, <2>1, <2>2, <2>3, <2>4, <2>5, <2>6, <2>7, <2>8, <2>9, <2>10, <2>11
    DEF StaffNext
<1>3. ASSUME NEW a \in Appeals, PurgeAppeal(a) PROVE TypeOK'
  <2>1. NoParticipants \in [Experts -> PartRole]
    BY DEF NoParticipants, PartRole
  <2>2. QED
    BY <1>3, <2>1, BlankRow, StatusNames, RowWrite DEF TypeOK, LogStatus, PurgeAppeal
<1>4. ASSUME NEW n \in MaxReturnsInput, SetMaxReturns(n) PROVE TypeOK'
  BY <1>4 DEF TypeOK, SetMaxReturns, EffectiveMaxReturns, DefaultMaxReturns
<1>5. CASE UNCHANGED vars
  BY <1>5 DEF TypeOK, vars
<1>6. QED
  BY <1>1, <1>2, <1>3, <1>4, <1>5 DEF Next

\* The tables always hold rows of their declared types, whatever the order of
\* the handlers' transactions.
THEOREM TypeCorrect == Spec => []TypeOK
BY TypeInit, TypeStep, PTL DEF Spec
-----------------------------------------------------------------------------
(* The inductive invariant                                                 *)

\* What the tables say about one appeal: the invariants of AppealStore, and
\* the emptiness of an appeal not yet filed, without which filing it would
\* not be seen to start a clean record.
Consistent(a) ==
    /\ appeals[a].crisis => appeals[a].priority = "urgent"
    /\ \A e \in Experts :
           participants[a][e] = "responsible" <=> appeals[a].assigned = e
    /\ appeals[a].status \in OpenStatus \ {"new"} /\ ~overridden[a]
           => appeals[a].assigned \in Experts
    /\ appeals[a].status \in {"answer_ready", "returned", "completed"} /\ ~overridden[a]
           => appeals[a].recommended
    /\ helped[a] = "yes" => appeals[a].status = "completed"
    /\ helped[a] = "no" => appeals[a].returns > 0
    /\ Live(a) => /\ byApplicant[a] <= appeals[a].returns
                  /\ \E limit \in limits : byApplicant[a] <= limit
    /\ appeals[a].status = "none" => /\ appeals[a] = NoRow("none")
                                     /\ byApplicant[a] = 0
                                     /\ helped[a] = "unset"
                                     /\ ~overridden[a]

IInv ==
    /\ TypeOK
    /\ limits # {}
    /\ \A a \in Appeals : Consistent(a)

\* The inductive invariant is strong enough for every invariant of the run.
LEMMA IInvImplies ==
    IInv => /\ CrisisIsUrgent /\ OneResponsible /\ WorkHasResponsible
            /\ AnswerHasRecommendation /\ HelpedMatchesOutcome
            /\ ApplicantReturnsWithinLimit
BY DEF IInv, Consistent, CrisisIsUrgent, OneResponsible, WorkHasResponsible,
       AnswerHasRecommendation, HelpedMatchesOutcome, ApplicantReturnsWithinLimit

\* IInv holds of the empty tables.
LEMMA IInvInit == Init => IInv
<1> SUFFICES ASSUME Init PROVE IInv
  OBVIOUS
<1>1. TypeOK
  BY TypeInit
<1>2. limits # {}
  BY DEF Init
<1>3. ASSUME NEW a \in Appeals PROVE Consistent(a)
  <2>1. appeals[a] = NoRow("none") /\ statusLog[a] = "none" /\ byApplicant[a] = 0
        /\ helped[a] = "unset" /\ ~overridden[a]
        /\ \A e \in Experts : participants[a][e] = "none"
    BY DEF Init, NoParticipants
  <2>2. QED
    BY <2>1 DEF Consistent, NoRow, Live, Status, OpenStatus, TerminalStatus
<1>4. QED
  BY <1>1, <1>2, <1>3 DEF IInv

\* No transaction about one appeal writes a row of another.
Untouched(b) ==
    /\ appeals'[b] = appeals[b]
    /\ participants'[b] = participants[b]
    /\ helped'[b] = helped[b]
    /\ statusLog'[b] = statusLog[b]
    /\ overridden'[b] = overridden[b]
    /\ byApplicant'[b] = byApplicant[b]

\* A transaction on one appeal writes the tables of that appeal only.
LEMMA OthersUntouched ==
    ASSUME TypeOK, NEW a \in Appeals,
           ApplicantNext(a) \/ StaffNext(a) \/ PurgeAppeal(a),
           NEW b \in Appeals \ {a}
    PROVE  Untouched(b)
<1>1. CASE ApplicantNext(a)
  BY <1>1 DEF ApplicantNext, CreateAppeal, AppendDescription, FlagCrisisFromMessage,
              ApplicantHelped, ApplicantReturned, Update, LogStatus, TypeOK, Untouched
<1>2. CASE StaffNext(a)
  BY <1>2 DEF StaffNext, TransitionStatus, AssignExpert, Reject, CompleteByOperator,
              ReturnForRework, PublishRecommendation, RequestTransfer, AddContributor,
              SetCrisisFlag, SetPriority, AdminSetStatus, Update, LogStatus, TypeOK,
              Untouched
<1>3. CASE PurgeAppeal(a)
  BY <1>3 DEF PurgeAppeal, Update, TypeOK, Untouched
<1>4. QED
  BY <1>1, <1>2, <1>3

\* A limit once in force stays on record.
LEMMA LimitsGrow == [Next]_vars => limits \subseteq limits'
BY DEF Next, vars, ApplicantNext, CreateAppeal, AppendDescription, FlagCrisisFromMessage,
       ApplicantHelped, ApplicantReturned, StaffNext, TransitionStatus, AssignExpert,
       Reject, CompleteByOperator, ReturnForRework, PublishRecommendation,
       RequestTransfer, AddContributor, SetCrisisFlag, SetPriority, AdminSetStatus,
       PurgeAppeal, SetMaxReturns

\* What no transaction touches stays consistent.
LEMMA UntouchedStaysConsistent ==
    ASSUME NEW b \in Appeals, Consistent(b), Untouched(b), limits \subseteq limits'
    PROVE  Consistent(b)'
BY DEF Consistent, Untouched, Live

-----------------------------------------------------------------------------
(* The appeal a step is about                                              *)

\* No request of an applicant leaves the tables contradicting each other.
LEMMA ApplicantConsistent ==
    ASSUME IInv, NEW a \in Appeals, ApplicantNext(a)
    PROVE  Consistent(a)'
<1> USE DEF Consistent, Live, Update, Status, OpenStatus, TerminalStatus
<1>0. TypeOK /\ Consistent(a) /\ appeals[a] \in Row
  BY DEF IInv, TypeOK
<1>1. ASSUME NEW crisis \in BOOLEAN, CreateAppeal(a, crisis) PROVE Consistent(a)'
  BY <1>0, <1>1 DEF CreateAppeal, NoRow, LogStatus, IInv, TypeOK, Row
<1>2. ASSUME NEW hit \in BOOLEAN, AppendDescription(a, hit) PROVE Consistent(a)'
  BY <1>0, <1>2 DEF AppendDescription, Open, TypeOK, Row
<1>3. ASSUME FlagCrisisFromMessage(a) PROVE Consistent(a)'
  BY <1>0, <1>3 DEF FlagCrisisFromMessage, TypeOK, Row
<1>4. ASSUME ApplicantHelped(a) PROVE Consistent(a)'
  BY <1>0, <1>4 DEF ApplicantHelped, LogStatus, TypeOK, Row
<1>5. ASSUME NEW limit \in limits, ApplicantReturned(a, limit) PROVE Consistent(a)'
  BY <1>0, <1>5 DEF ApplicantReturned, LogStatus, TypeOK, Row
<1>6. QED
  BY <1>1, <1>2, <1>3, <1>4, <1>5 DEF ApplicantNext

\* Nor does a request of the staff or of the janitor.
LEMMA StaffConsistent ==
    ASSUME IInv, NEW a \in Appeals, StaffNext(a)
    PROVE  Consistent(a)'
<1> USE DEF Consistent, Live, Update, Status, OpenStatus, TerminalStatus
<1>0. TypeOK /\ Consistent(a) /\ appeals[a] \in Row
  BY DEF IInv, TypeOK
<1>1. ASSUME NEW call \in TransitionCalls, TransitionStatus(a, call[1], call[2]) PROVE Consistent(a)'
  BY <1>0, <1>1 DEF TransitionStatus, LogStatus, TransitionCalls, CanTransition, Transitions, TypeOK, Row
<1>2. ASSUME NEW e \in Experts, NEW byAdmin \in BOOLEAN, AssignExpert(a, e, byAdmin) PROVE Consistent(a)'
  BY <1>0, <1>2 DEF AssignExpert, MadeResponsible, Open, TypeOK, Row
<1>3. ASSUME Reject(a) PROVE Consistent(a)'
  BY <1>0, <1>3 DEF Reject, LogStatus, TypeOK, Row
<1>4. ASSUME CompleteByOperator(a) PROVE Consistent(a)'
  BY <1>0, <1>4 DEF CompleteByOperator, LogStatus, TypeOK, Row
<1>5. ASSUME ReturnForRework(a) PROVE Consistent(a)'
  BY <1>0, <1>5 DEF ReturnForRework, LogStatus, TypeOK, Row
<1>6. ASSUME PublishRecommendation(a) PROVE Consistent(a)'
  BY <1>0, <1>6 DEF PublishRecommendation, LogStatus, TypeOK, Row
<1>7. ASSUME RequestTransfer(a) PROVE Consistent(a)'
  BY <1>0, <1>7 DEF RequestTransfer, Open, TypeOK, Row
<1>8. ASSUME NEW e \in Experts, AddContributor(a, e) PROVE Consistent(a)'
  BY <1>0, <1>8 DEF AddContributor, TypeOK, Row
<1>9. ASSUME NEW detected \in BOOLEAN, SetCrisisFlag(a, detected) PROVE Consistent(a)'
  BY <1>0, <1>9 DEF SetCrisisFlag, Open, TypeOK, Row
<1>10. ASSUME NEW p \in Priority, SetPriority(a, p) PROVE Consistent(a)'
  BY <1>0, <1>10 DEF SetPriority, Open, TypeOK, Row
<1>11. ASSUME NEW to \in OpenStatus, AdminSetStatus(a, to) PROVE Consistent(a)'
  BY <1>0, <1>11 DEF AdminSetStatus, LogStatus, Open, TypeOK, Row
<1>12. QED
  BY <1>1, <1>2, <1>3, <1>4, <1>5, <1>6, <1>7, <1>8, <1>9, <1>10, <1>11 DEF StaffNext

\* Nor does the retention purge.
LEMMA PurgeConsistent ==
    ASSUME IInv, NEW a \in Appeals, PurgeAppeal(a)
    PROVE  Consistent(a)'
<1>1. TypeOK /\ appeals'[a] = NoRow("erased") /\ statusLog'[a] = "erased"
      /\ participants'[a] = NoParticipants /\ helped'[a] = "unset"
  BY DEF IInv, TypeOK, PurgeAppeal, Update
<1>2. QED
  BY <1>1 DEF NoRow, NoParticipants, Consistent, Live, Status, OpenStatus, TerminalStatus

\* Every step preserves IInv: its appeal by the lemmas above, the others untouched.
LEMMA IInvStep == IInv /\ [Next]_vars => IInv'
<1> SUFFICES ASSUME IInv, [Next]_vars PROVE IInv'
  OBVIOUS
<1>1. TypeOK'
  BY TypeStep DEF IInv
<1>2. limits \subseteq limits' /\ limits' # {}
  BY LimitsGrow DEF IInv
<1>3. ASSUME NEW b \in Appeals PROVE Consistent(b)'
  <2>1. ASSUME NEW a \in Appeals, ApplicantNext(a) \/ StaffNext(a) \/ PurgeAppeal(a)
        PROVE  Consistent(b)'
    <3>1. CASE b = a
      BY <2>1, <3>1, ApplicantConsistent, StaffConsistent, PurgeConsistent
    <3>2. CASE b # a
      BY <2>1, <3>2, <1>2, OthersUntouched, UntouchedStaysConsistent DEF IInv
    <3>3. QED
      BY <3>1, <3>2
  <2>2. CASE (\E n \in MaxReturnsInput : SetMaxReturns(n)) \/ UNCHANGED vars
    <3>1. Untouched(b)
      BY <2>2 DEF SetMaxReturns, vars, Untouched
    <3>2. QED
      BY <3>1, <1>2, UntouchedStaysConsistent DEF IInv
  <2>3. QED
    BY <2>1, <2>2 DEF Next
<1>4. QED
  BY <1>1, <1>2, <1>3 DEF IInv

\* IInv holds in every reachable state.
THEOREM Inductive == Spec => []IInv
BY IInvInit, IInvStep, PTL DEF Spec

\* A crisis appeal is urgent in every reachable state: no order of texts,
\* reviews and priority changes separates the two columns.
THEOREM CrisisStaysUrgent == Spec => []CrisisIsUrgent
BY Inductive, IInvImplies, PTL

\* assigned_expert_id and appeal_participants always name the same expert,
\* and never two of them.
THEOREM OneResponsibleAlways == Spec => []OneResponsible
BY Inductive, IInvImplies, PTL

\* Short of the admin's override, an appeal past 'new' has an expert.
THEOREM WorkIsEntrusted == Spec => []WorkHasResponsible
BY Inductive, IInvImplies, PTL

\* Short of the override, an answer is announced only after it was stored.
THEOREM AnswersAreStored == Spec => []AnswerHasRecommendation
BY Inductive, IInvImplies, PTL

\* The applicant's verdict and the outcome of the appeal always agree.
THEOREM FeedbackFits == Spec => []HelpedMatchesOutcome
BY Inductive, IInvImplies, PTL

\* Hence expert and participants, verdict and outcome agree whatever order the
\* transactions come in.
COROLLARY RecordsAlwaysAgree == Spec => []RecordsAgree
BY OneResponsibleAlways, FeedbackFits, PTL DEF RecordsAgree

\* Hence, short of the override, nothing is in work that nobody works on, and
\* nothing announced that is not there.
COROLLARY WorkIsAlwaysBacked == Spec => []WorkIsBacked
BY WorkIsEntrusted, AnswersAreStored, PTL DEF WorkIsBacked

\* Applicants never get more returns than a limit that was in force.
THEOREM ReturnsAreLimited == Spec => []ApplicantReturnsWithinLimit
BY Inductive, IInvImplies, PTL

-----------------------------------------------------------------------------
(* The archive                                                             *)

OutcomeKept(a) ==
    appeals[a].status \in TerminalStatus =>
        Outcome(a)' = Outcome(a) \/ appeals'[a].status = "erased"

\* No request of an applicant changes the outcome of an archived appeal.
LEMMA ApplicantKeepsArchive ==
    ASSUME TypeOK, NEW a \in Appeals, ApplicantNext(a)
    PROVE  OutcomeKept(a)
<1> USE DEF OutcomeKept, Outcome, Live, Update, Status, OpenStatus, TerminalStatus
<1>0. TypeOK /\ appeals[a] \in Row
  BY DEF IInv, TypeOK, Consistent
<1>1. ASSUME NEW crisis \in BOOLEAN, CreateAppeal(a, crisis) PROVE OutcomeKept(a)
  BY <1>0, <1>1 DEF CreateAppeal, NoRow, LogStatus, IInv, TypeOK, Row
<1>2. ASSUME NEW hit \in BOOLEAN, AppendDescription(a, hit) PROVE OutcomeKept(a)
  BY <1>0, <1>2 DEF AppendDescription, Open, TypeOK, Row
<1>3. ASSUME FlagCrisisFromMessage(a) PROVE OutcomeKept(a)
  BY <1>0, <1>3 DEF FlagCrisisFromMessage, TypeOK, Row
<1>4. ASSUME ApplicantHelped(a) PROVE OutcomeKept(a)
  BY <1>0, <1>4 DEF ApplicantHelped, LogStatus, TypeOK, Row
<1>5. ASSUME NEW limit \in limits, ApplicantReturned(a, limit) PROVE OutcomeKept(a)
  BY <1>0, <1>5 DEF ApplicantReturned, LogStatus, TypeOK, Row
<1>6. QED
  BY <1>1, <1>2, <1>3, <1>4, <1>5 DEF ApplicantNext

\* Nor does a request of the staff.
LEMMA StaffKeepsArchive ==
    ASSUME TypeOK, NEW a \in Appeals, StaffNext(a)
    PROVE  OutcomeKept(a)
<1> USE DEF OutcomeKept, Outcome, Live, Update, Status, OpenStatus, TerminalStatus
<1>0. TypeOK /\ appeals[a] \in Row
  BY DEF IInv, TypeOK, Consistent
<1>1. ASSUME NEW call \in TransitionCalls, TransitionStatus(a, call[1], call[2]) PROVE OutcomeKept(a)
  BY <1>0, <1>1 DEF TransitionStatus, LogStatus, TransitionCalls, CanTransition, Transitions, TypeOK, Row
<1>2. ASSUME NEW e \in Experts, NEW byAdmin \in BOOLEAN, AssignExpert(a, e, byAdmin) PROVE OutcomeKept(a)
  BY <1>0, <1>2 DEF AssignExpert, MadeResponsible, Open, TypeOK, Row
<1>3. ASSUME Reject(a) PROVE OutcomeKept(a)
  BY <1>0, <1>3 DEF Reject, LogStatus, TypeOK, Row
<1>4. ASSUME CompleteByOperator(a) PROVE OutcomeKept(a)
  BY <1>0, <1>4 DEF CompleteByOperator, LogStatus, TypeOK, Row
<1>5. ASSUME ReturnForRework(a) PROVE OutcomeKept(a)
  BY <1>0, <1>5 DEF ReturnForRework, LogStatus, TypeOK, Row
<1>6. ASSUME PublishRecommendation(a) PROVE OutcomeKept(a)
  BY <1>0, <1>6 DEF PublishRecommendation, LogStatus, TypeOK, Row
<1>7. ASSUME RequestTransfer(a) PROVE OutcomeKept(a)
  BY <1>0, <1>7 DEF RequestTransfer, Open, TypeOK, Row
<1>8. ASSUME NEW e \in Experts, AddContributor(a, e) PROVE OutcomeKept(a)
  BY <1>0, <1>8 DEF AddContributor, TypeOK, Row
<1>9. ASSUME NEW detected \in BOOLEAN, SetCrisisFlag(a, detected) PROVE OutcomeKept(a)
  BY <1>0, <1>9 DEF SetCrisisFlag, Open, TypeOK, Row
<1>10. ASSUME NEW p \in Priority, SetPriority(a, p) PROVE OutcomeKept(a)
  BY <1>0, <1>10 DEF SetPriority, Open, TypeOK, Row
<1>11. ASSUME NEW to \in OpenStatus, AdminSetStatus(a, to) PROVE OutcomeKept(a)
  BY <1>0, <1>11 DEF AdminSetStatus, LogStatus, Open, TypeOK, Row
<1>12. QED
  BY <1>1, <1>2, <1>3, <1>4, <1>5, <1>6, <1>7, <1>8, <1>9, <1>10, <1>11 DEF StaffNext

\* The outcome of an archived appeal is final: only the purge touches it.
THEOREM ArchiveStays == Spec => ArchiveIsFinal
<1>1. TypeOK /\ [Next]_vars => [\A a \in Appeals : OutcomeKept(a)]_vars
  <2> SUFFICES ASSUME TypeOK, Next, NEW b \in Appeals PROVE OutcomeKept(b)
    OBVIOUS
  <2>1. ASSUME NEW a \in Appeals, ApplicantNext(a) \/ StaffNext(a) \/ PurgeAppeal(a)
        PROVE  OutcomeKept(b)
    <3>1. CASE b # a
      BY <2>1, <3>1, OthersUntouched DEF Untouched, OutcomeKept, Outcome
    <3>2. CASE b = a /\ (ApplicantNext(a) \/ StaffNext(a))
      BY <3>2, ApplicantKeepsArchive, StaffKeepsArchive
    <3>3. CASE b = a /\ PurgeAppeal(a)
      BY <3>3 DEF PurgeAppeal, Update, NoRow, OutcomeKept, TypeOK
    <3>4. QED
      BY <2>1, <3>1, <3>2, <3>3
  <2>2. ASSUME NEW n \in MaxReturnsInput, SetMaxReturns(n) PROVE OutcomeKept(b)
    BY <2>2 DEF SetMaxReturns, OutcomeKept, Outcome
  <2>3. QED
    BY <2>1, <2>2 DEF Next
<1>2. QED
  BY <1>1, TypeCorrect, PTL DEF Spec, ArchiveIsFinal, OutcomeKept

-----------------------------------------------------------------------------
(* The tables implement the abstract life of an appeal                     *)

\* What a step about appeal a is in AppealLifecycle.
Lived(a) ==
    LET before == Phase(appeals[a].status)
        after == Phase(appeals'[a].status)
        keepsOwner == appeals'[a].assigned = appeals[a].assigned
    IN  \/ after = before /\ keepsOwner
        \/ before = "absent" /\ after = "open" /\ keepsOwner
        \/ before = "open" /\ after = "open" /\ appeals'[a].assigned \in Experts
        \/ before = "open" /\ after = "archived" /\ keepsOwner
        \/ before = "archived" /\ after = "erased" /\ appeals'[a].assigned = Nobody

\* A request of an applicant is a step, or a stutter, of the abstract life.
LEMMA ApplicantLives ==
    ASSUME IInv, NEW a \in Appeals, ApplicantNext(a)
    PROVE  Lived(a)
<1> USE DEF Lived, Phase, Live, Update, Status, OpenStatus, TerminalStatus
<1>0. TypeOK /\ appeals[a] \in Row
      /\ (appeals[a].status = "none" => appeals[a] = NoRow("none"))
  BY DEF IInv, TypeOK, Consistent
<1>1. ASSUME NEW crisis \in BOOLEAN, CreateAppeal(a, crisis) PROVE Lived(a)
  BY <1>0, <1>1 DEF CreateAppeal, NoRow, LogStatus, IInv, TypeOK, Row
<1>2. ASSUME NEW hit \in BOOLEAN, AppendDescription(a, hit) PROVE Lived(a)
  BY <1>0, <1>2 DEF AppendDescription, Open, TypeOK, Row
<1>3. ASSUME FlagCrisisFromMessage(a) PROVE Lived(a)
  BY <1>0, <1>3 DEF FlagCrisisFromMessage, TypeOK, Row
<1>4. ASSUME ApplicantHelped(a) PROVE Lived(a)
  BY <1>0, <1>4 DEF ApplicantHelped, LogStatus, TypeOK, Row
<1>5. ASSUME NEW limit \in limits, ApplicantReturned(a, limit) PROVE Lived(a)
  BY <1>0, <1>5 DEF ApplicantReturned, LogStatus, TypeOK, Row
<1>6. QED
  BY <1>1, <1>2, <1>3, <1>4, <1>5 DEF ApplicantNext

\* So is a request of the staff.
LEMMA StaffLives ==
    ASSUME IInv, NEW a \in Appeals, StaffNext(a)
    PROVE  Lived(a)
<1> USE DEF Lived, Phase, Live, Update, Status, OpenStatus, TerminalStatus
<1>0. TypeOK /\ appeals[a] \in Row
      /\ (appeals[a].status = "none" => appeals[a] = NoRow("none"))
  BY DEF IInv, TypeOK, Consistent
<1>1. ASSUME NEW call \in TransitionCalls, TransitionStatus(a, call[1], call[2]) PROVE Lived(a)
  BY <1>0, <1>1 DEF TransitionStatus, LogStatus, TransitionCalls, CanTransition, Transitions, TypeOK, Row
<1>2. ASSUME NEW e \in Experts, NEW byAdmin \in BOOLEAN, AssignExpert(a, e, byAdmin) PROVE Lived(a)
  BY <1>0, <1>2 DEF AssignExpert, MadeResponsible, Open, TypeOK, Row
<1>3. ASSUME Reject(a) PROVE Lived(a)
  BY <1>0, <1>3 DEF Reject, LogStatus, TypeOK, Row
<1>4. ASSUME CompleteByOperator(a) PROVE Lived(a)
  BY <1>0, <1>4 DEF CompleteByOperator, LogStatus, TypeOK, Row
<1>5. ASSUME ReturnForRework(a) PROVE Lived(a)
  BY <1>0, <1>5 DEF ReturnForRework, LogStatus, TypeOK, Row
<1>6. ASSUME PublishRecommendation(a) PROVE Lived(a)
  BY <1>0, <1>6 DEF PublishRecommendation, LogStatus, TypeOK, Row
<1>7. ASSUME RequestTransfer(a) PROVE Lived(a)
  BY <1>0, <1>7 DEF RequestTransfer, Open, TypeOK, Row
<1>8. ASSUME NEW e \in Experts, AddContributor(a, e) PROVE Lived(a)
  BY <1>0, <1>8 DEF AddContributor, TypeOK, Row
<1>9. ASSUME NEW detected \in BOOLEAN, SetCrisisFlag(a, detected) PROVE Lived(a)
  BY <1>0, <1>9 DEF SetCrisisFlag, Open, TypeOK, Row
<1>10. ASSUME NEW p \in Priority, SetPriority(a, p) PROVE Lived(a)
  BY <1>0, <1>10 DEF SetPriority, Open, TypeOK, Row
<1>11. ASSUME NEW to \in OpenStatus, AdminSetStatus(a, to) PROVE Lived(a)
  BY <1>0, <1>11 DEF AdminSetStatus, LogStatus, Open, TypeOK, Row
<1>12. QED
  BY <1>1, <1>2, <1>3, <1>4, <1>5, <1>6, <1>7, <1>8, <1>9, <1>10, <1>11 DEF StaffNext

\* A purge erases an archived appeal, its expert included.
LEMMA PurgeLives ==
    ASSUME TypeOK, NEW a \in Appeals, PurgeAppeal(a)
    PROVE  Lived(a)
BY DEF PurgeAppeal, Update, NoRow, TypeOK, Lived, Phase, TerminalStatus

\* A step of one row is a step, or a stutter, of the abstract life.
LEMMA LifecycleStep ==
    ASSUME TypeOK, NEW a \in Appeals, Lived(a),
           \A b \in Appeals \ {a} : appeals'[b] = appeals[b]
    PROVE  [Lifecycle!Next]_(Lifecycle!lifecycleVars)
<1>1. [x \in Appeals |-> Phase(appeals'[x].status)] =
          [[x \in Appeals |-> Phase(appeals[x].status)]
              EXCEPT ![a] = Phase(appeals'[a].status)]
  OBVIOUS
<1>2. [x \in Appeals |-> appeals'[x].assigned] =
          [[x \in Appeals |-> appeals[x].assigned] EXCEPT ![a] = appeals'[a].assigned]
  OBVIOUS
<1>3. CASE Phase(appeals'[a].status) = Phase(appeals[a].status)
           /\ appeals'[a].assigned = appeals[a].assigned
  BY <1>1, <1>2, <1>3 DEF Lifecycle!lifecycleVars
<1>4. CASE Phase(appeals[a].status) = "absent" /\ Phase(appeals'[a].status) = "open"
           /\ appeals'[a].assigned = appeals[a].assigned
  BY <1>1, <1>2, <1>4 DEF Lifecycle!Next, Lifecycle!File
<1>5. CASE Phase(appeals[a].status) = "open" /\ Phase(appeals'[a].status) = "open"
           /\ appeals'[a].assigned \in Experts
  BY <1>1, <1>2, <1>5 DEF Lifecycle!Next, Lifecycle!Entrust
<1>6. CASE Phase(appeals[a].status) = "open" /\ Phase(appeals'[a].status) = "archived"
           /\ appeals'[a].assigned = appeals[a].assigned
  BY <1>1, <1>2, <1>6 DEF Lifecycle!Next, Lifecycle!Archive
<1>7. CASE Phase(appeals[a].status) = "archived" /\ Phase(appeals'[a].status) = "erased"
           /\ appeals'[a].assigned = Nobody
  BY <1>1, <1>2, <1>7 DEF Lifecycle!Next, Lifecycle!Erase
<1>8. QED
  BY <1>3, <1>4, <1>5, <1>6, <1>7 DEF Lived

\* The store implements AppealLifecycle: filed once, entrusted only while open,
\* archived once, erased only from the archive.
THEOREM StoreImplementsLifecycle == Spec => ImplementsLifecycle
<1>1. Init => Lifecycle!Init
  <2>1. Phase("none") = "absent"
    BY DEF Phase, TerminalStatus
  <2>2. Init => \A a \in Appeals : /\ appeals[a].status = "none"
                                   /\ appeals[a].assigned = Nobody
    <3>1. NoRow("none").status = "none" /\ NoRow("none").assigned = Nobody
      BY DEF NoRow
    <3>2. Init => \A a \in Appeals : appeals[a] = NoRow("none")
      BY DEF Init
    <3>3. QED
      BY <3>1, <3>2
  <2>3. QED
    BY <2>1, <2>2 DEF Lifecycle!Init
<1>2. IInv /\ [Next]_vars => [Lifecycle!Next]_(Lifecycle!lifecycleVars)
  <2> SUFFICES ASSUME IInv, [Next]_vars
               PROVE  [Lifecycle!Next]_(Lifecycle!lifecycleVars)
    OBVIOUS
  <2>1. ASSUME NEW a \in Appeals, ApplicantNext(a) \/ StaffNext(a) \/ PurgeAppeal(a)
        PROVE  [Lifecycle!Next]_(Lifecycle!lifecycleVars)
    <3>1. \A b \in Appeals \ {a} : appeals'[b] = appeals[b]
      BY <2>1, OthersUntouched DEF IInv, Untouched
    <3>2. Lived(a)
      BY <2>1, ApplicantLives, StaffLives, PurgeLives DEF IInv
    <3>3. QED
      BY <3>1, <3>2, LifecycleStep DEF IInv
  <2>2. CASE (\E n \in MaxReturnsInput : SetMaxReturns(n)) \/ UNCHANGED vars
    BY <2>2 DEF SetMaxReturns, vars, Lifecycle!lifecycleVars
  <2>3. QED
    BY <2>1, <2>2 DEF Next
<1>3. QED
  BY <1>1, <1>2, Inductive, PTL DEF Spec, ImplementsLifecycle, Lifecycle!Spec
=============================================================================
