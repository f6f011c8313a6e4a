--------------------------- MODULE AppealHandlers ---------------------------
(***************************************************************************)
(* The request handlers of internal/httpapi around the transactions of     *)
(* AppealStore.  A handler that reads before it writes is split where the  *)
(* code lets other requests in: the first read, then each store call.      *)
(* Handlers that do no such read are the store's actions themselves.       *)
(*                                                                         *)
(* The client may hang up at any time, which cancels r.Context() and so    *)
(* the rest of the handler: every pending request may fail between two     *)
(* steps.  A crash of the server is that, for all requests.                *)
(*                                                                         *)
(* A definition named ..._Fault is no part of the model: see AppealStore.  *)
(***************************************************************************)
EXTENDS AppealStore, FiniteSets

CONSTANTS
    Workers,    \* requests the server is serving at one time (bound of the model)
    Applicant   \* the author of the applicant's messages

ASSUME HandlersAssumption == Applicant \notin Experts \cup {Nobody}

VARIABLES
    requests,   \* the request each worker is serving
    writers,    \* table messages: who has written in the chat of an appeal
    \* History variable: read by no action, only by properties.
    moments     \* what has held, or been done, at some moment of a pending request

handlerVars == <<requests, writers, moments>>
allVars == <<vars, handlerVars>>

ExpertCalls == {"take", "clarify", "publish", "transfer", "contribute"}
Kinds == ExpertCalls \cup {"chat", "message", "append", "close"}

\* What a handler has still to do: read its own update back, end the waiting for
\* a clarification, make its store call, raise the crisis flag.
Steps == {"read", "lift", "store", "flag"}

\* by: the caller; about: the expert invited; crisis: the text has a crisis
\* marker; seen, sawCrisis: the columns of the row the handler met last.
Request ==
    [step: Steps, kind: Kinds, appeal: Appeals,
     by: Experts \cup {Nobody, Applicant}, about: Experts \cup {Nobody},
     crisis: BOOLEAN, seen: Status, sawCrisis: BOOLEAN]

Done(outcome) == [step |-> outcome]
Outcomes == {Done("ok"), Done("failed")}

Busy(w) == requests[w] \notin Outcomes

Moment == {"flagged", "lifted", "handedOver"}

HandlersTypeOK ==
    /\ TypeOK
    /\ requests \in [Workers -> Request \cup Outcomes]
    /\ writers \in [Appeals -> SUBSET (Experts \cup {Applicant})]
    /\ moments \in [Workers -> SUBSET Moment]

HandlersInit ==
    /\ Init
    /\ requests = [w \in Workers |-> Done("ok")]
    /\ writers = [a \in Appeals |-> {}]
    /\ moments = [w \in Workers |-> {}]

Become(w, r) == requests' = [requests EXCEPT ![w] = r]

-----------------------------------------------------------------------------
(* First reads: what a handler looks at before its first store call        *)

RequireResponsible(a, e) == participants[a][e] = "responsible"

\* loadAppealWithAccess, for an expert.
HasAccess(a, e) == participants[a][e] # "none"

Received(kind, a, by, about, crisis, step) ==
    [step |-> step, kind |-> kind, appeal |-> a, by |-> by, about |-> about,
     crisis |-> crisis, seen |-> appeals[a].status, sawCrisis |-> appeals[a].crisis]

\* handleTakeInProgress, handleClarify, handlePublishRecommendation,
\* handleRequestTransfer and handleAddContributor up to the store call; an
\* expert cannot invite herself.
ExpertAsks(w, a, e, kind, about) ==
    /\ ~Busy(w)
    /\ Live(a)
    /\ RequireResponsible(a, e)
    /\ (about # Nobody) <=> (kind = "contribute")
    /\ about # e
    /\ Become(w, Received(kind, a, e, about, FALSE, "store"))
    /\ UNCHANGED <<vars, writers>>

\* handleStaffPostMessage up to CreateMessage.
ExpertWrites(w, a, e) ==
    /\ ~Busy(w)
    /\ HasAccess(a, e)
    /\ Open(a)
    /\ Become(w, Received("chat", a, e, Nobody, FALSE, "store"))
    /\ UNCHANGED <<vars, writers>>

\* handleCloseNoResponse up to TransitionStatus.
OperatorCloses(w, a) ==
    /\ ~Busy(w)
    /\ appeals[a].status \in {"needs_clarification", "answer_ready"}
    /\ Become(w, Received("close", a, Nobody, Nobody, FALSE, "store"))
    /\ UNCHANGED <<vars, writers>>

AfterLook_Fault(s) == "store"  \* an answer does not end the waiting

\* An applicant's answer ends the waiting for a clarification.
AfterLook(s) == IF s = "needs_clarification" THEN "lift" ELSE "store"

\* handleApplicantPostMessage up to its first store call.
ApplicantWrites(w, a, crisis) ==
    /\ ~Busy(w)
    /\ Open(a)
    /\ Become(w, Received("message", a, Applicant, Nobody, crisis,
                          AfterLook(appeals[a].status)))
    /\ UNCHANGED <<vars, writers>>

\* handleApplicantAppend up to the UPDATE of AppendDescription, which returns
\* no more than the id of the row it has changed.
ApplicantAppends(w, a, crisis) ==
    /\ ~Busy(w)
    /\ AppendDescription(a, crisis)
    /\ Become(w, Received("append", a, Applicant, Nobody, crisis, "read"))
    /\ UNCHANGED writers

-----------------------------------------------------------------------------
(* Store calls of a request that has looked                                *)

\* The store call of an expert's request.
ExpertCall(r) ==
    \/ r.kind = "take" /\ TransitionStatus(r.appeal, "assigned", "in_progress")
    \/ /\ r.kind = "clarify"
       /\ TransitionStatus(r.appeal, "in_progress", "needs_clarification")
    \/ r.kind = "publish" /\ PublishRecommendation(r.appeal)
    \/ r.kind = "transfer" /\ RequestTransfer(r.appeal)
    \/ r.kind = "contribute" /\ AddContributor(r.appeal, r.about)

\* The GetAppealByID at the end of AppendDescription: the handler goes by the
\* status of now, not by the one its UPDATE met.
ReadBack(w) ==
    /\ Busy(w) /\ requests[w].step = "read"
    /\ LET now == appeals[requests[w].appeal].status
       IN  /\ Live(requests[w].appeal)
           /\ Become(w, IF AfterLook(now) = "lift"
                        THEN [requests[w] EXCEPT !.step = "lift", !.seen = now]
                        ELSE Done("ok"))
    /\ UNCHANGED <<vars, writers>>

ExpertCommits(w) ==
    /\ Busy(w) /\ requests[w].step = "store"
    /\ requests[w].kind \in ExpertCalls
    /\ ExpertCall(requests[w])
    /\ Become(w, Done("ok"))
    /\ UNCHANGED writers

CloseCommits(w) ==
    /\ Busy(w) /\ requests[w].kind = "close"
    /\ TransitionStatus(requests[w].appeal, requests[w].seen, "closed_no_response")
    /\ Become(w, Done("ok"))
    /\ UNCHANGED writers

\* TransitionStatus needs_clarification -> in_progress; a conflict is ignored,
\* an appeal erased meanwhile is an error.
LiftWaiting(w) ==
    /\ Busy(w) /\ requests[w].step = "lift"
    /\ LET a == requests[w].appeal
       IN  \/ TransitionStatus(a, "needs_clarification", "in_progress")
           \/ /\ Live(a)
              /\ appeals[a].status # "needs_clarification"
              /\ UNCHANGED vars
    /\ Become(w, IF requests[w].kind = "message"
                 THEN [requests[w] EXCEPT !.step = "store"]
                 ELSE Done("ok"))
    /\ UNCHANGED writers

NeedsFlag_Fault(r) == r.crisis /\ r.sawCrisis  \* inverted test

\* The crisis column is the one read before the message was stored.
NeedsFlag(r) == r.crisis /\ ~r.sawCrisis

\* CreateMessage: an INSERT, which only needs the appeal to exist.
StoreMessage(w) ==
    /\ Busy(w) /\ requests[w].step = "store"
    /\ requests[w].kind \in {"message", "chat"}
    /\ Live(requests[w].appeal)
    /\ writers' = [writers EXCEPT ![requests[w].appeal] = @ \cup {requests[w].by}]
    /\ Become(w, IF requests[w].kind = "message" /\ NeedsFlag(requests[w])
                 THEN [requests[w] EXCEPT !.step = "flag"]
                 ELSE Done("ok"))
    /\ UNCHANGED vars

\* FlagCrisisFromMessage, which has nothing to do if the flag is up by now.
FlagMessage(w) ==
    /\ Busy(w) /\ requests[w].step = "flag"
    /\ LET a == requests[w].appeal
       IN  \/ FlagCrisisFromMessage(a)
           \/ Live(a) /\ appeals[a].crisis /\ UNCHANGED vars
    /\ Become(w, Done("ok"))
    /\ UNCHANGED writers

\* The client hung up, the store answers a conflict or an error, or a message is
\* empty or too long (which is looked at after LiftWaiting): the handler ends
\* where it is, nothing done so far is undone.
Fail(w) ==
    /\ Busy(w)
    /\ Become(w, Done("failed"))
    /\ UNCHANGED <<vars, writers>>

Begin(w) ==
    \E a \in Appeals :
        \/ \E e \in Experts, kind \in ExpertCalls, about \in Experts \cup {Nobody} :
               ExpertAsks(w, a, e, kind, about)
        \/ \E e \in Experts : ExpertWrites(w, a, e)
        \/ OperatorCloses(w, a)
        \/ \E crisis \in BOOLEAN : ApplicantWrites(w, a, crisis)
        \/ \E crisis \in BOOLEAN : ApplicantAppends(w, a, crisis)

Continue(w) ==
    \/ ReadBack(w)
    \/ ExpertCommits(w)
    \/ CloseCommits(w)
    \/ LiftWaiting(w)
    \/ StoreMessage(w)
    \/ FlagMessage(w)
    \/ Fail(w)

-----------------------------------------------------------------------------
(* Requests that are one transaction, and the janitor                      *)

AtOnce(a) ==
    \/ \E crisis \in BOOLEAN : CreateAppeal(a, crisis)
    \/ ApplicantHelped(a)
    \/ \E limit \in limits : ApplicantReturned(a, limit)
    \/ \E e \in Experts, byAdmin \in BOOLEAN : AssignExpert(a, e, byAdmin)
    \/ Reject(a)
    \/ CompleteByOperator(a)
    \/ ReturnForRework(a)
    \/ \E detected \in BOOLEAN : SetCrisisFlag(a, detected)
    \/ \E p \in Priority : SetPriority(a, p)
    \/ \E to \in OpenStatus : AdminSetStatus(a, to)

\* AutoCloseNoResponse on one appeal (its dates: module AutoClose)
\* and the retention purge, which takes the chat along.
Janitor(a) ==
    \/ /\ \E from \in {"needs_clarification", "answer_ready"} :
              TransitionStatus(a, from, "closed_no_response")
       /\ UNCHANGED writers
    \/ /\ PurgeAppeal(a)
       /\ writers' = [writers EXCEPT ![a] = {}]

-----------------------------------------------------------------------------
\* The calls by which an expert addresses the applicant.
AsksOrAnswers(r) == r.kind \in {"clarify", "publish"}

\* Another expert, or nobody, is responsible now in the place of the caller.
Replaced(r) == ~RequireResponsible(r.appeal, r.by)

\* What holds now of the appeal of a request.
HoldsNow(r) ==
    {m \in Moment :
        \/ m = "flagged" /\ r.crisis /\ appeals[r.appeal].crisis
        \/ m = "lifted" /\ r.seen = "needs_clarification"
             /\ appeals[r.appeal].status # "needs_clarification"
        \/ m = "handedOver" /\ AsksOrAnswers(r) /\ Replaced(r)
             /\ appeals[r.appeal].status = "assigned"}

\* Bookkeeping of the history variable, in every step.
Witness ==
    moments' = [w \in Workers |->
                   IF requests'[w] \in Outcomes THEN {}
                   ELSE HoldsNow(requests[w])'
                        \cup (IF Busy(w) THEN moments[w] ELSE {})]

HandlersNext ==
    /\ \/ \E w \in Workers : Begin(w) \/ Continue(w)
       \/ \E a \in Appeals : AtOnce(a) /\ UNCHANGED <<requests, writers>>
       \/ \E a \in Appeals : Janitor(a) /\ UNCHANGED requests
       \/ \E n \in MaxReturnsInput : SetMaxReturns(n) /\ UNCHANGED <<requests, writers>>
    /\ Witness

HandlersSpec == HandlersInit /\ [][HandlersNext]_allVars

-----------------------------------------------------------------------------
(* What holds whatever the interleaving                                    *)

Ends(w) == Busy(w) /\ requests'[w] \in Outcomes
Answers(w) == Busy(w) /\ requests'[w] = Done("ok")

\* "Markers in the text flag the appeal", as far as the code delivers it: a
\* crisis text in the chat is not passed over, the appeal bore the flag at some
\* moment before the applicant is answered, or bears it then.
AnsweredCrisisIsFlagged ==
    [][\A w \in Workers :
           Answers(w) /\ requests[w].kind = "message" /\ requests[w].crisis =>
               "flagged" \in moments[w] \/ appeals'[requests[w].appeal].crisis]_allVars

\* An answer to a clarification request ends the waiting (comment in
\* handleApplicantPostMessage), be it by message or by addition: what was
\* waiting when the answer met it waits no longer, at some moment before the
\* applicant learns that the answer was received, or then.
AnswerLiftsWaiting ==
    [][\A w \in Workers :
           /\ Answers(w)
           /\ requests[w].kind \in {"message", "append"}
           /\ requests[w].seen = "needs_clarification"
           => \/ "lifted" \in moments[w]
              \/ appeals'[requests[w].appeal].status # "needs_clarification"]_allVars

\* "Only the responsible expert can do this" (requireResponsible), as far as the
\* code delivers it: it asks before the transaction, and the operator may assign
\* somebody else in between.  An expert who was replaced that way still asks or
\* answers the applicant only after the appeal was handed over, in status
\* 'assigned', and taken up again: while nobody has taken it up, what the
\* predecessor still had on its way reaches nobody.
ReplacedWaitsForTakeUp ==
    [][\A w \in Workers :
           /\ Ends(w)
           /\ AsksOrAnswers(requests[w])
           /\ vars' # vars
           /\ Replaced(requests[w])
           => "handedOver" \in moments[w]]_allVars
=============================================================================
