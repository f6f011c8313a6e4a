---------------------------- MODULE RequestProofs ----------------------------
(***************************************************************************)
(* Proofs about the requests around the store, those of AppealHandlers and *)
(* those of Roster: both implement AppealStore, so that every theorem of   *)
(* AppealStoreProofs holds of the server; and what a look taken before a   *)
(* transaction is worth after it, for any number of concurrent requests.   *)
(***************************************************************************)
EXTENDS AppealHandlers, Roster, AppealStoreProofs

USE ConstantsAssumption, HandlersAssumption

\* What the first reads have established about a pending request r.
Sound(r) ==
    /\ r.kind \in {"message", "chat"} => r.by \in Experts \cup {Applicant}
    /\ r.kind = "contribute" => r.about \in Experts
    /\ r.kind = "close" => /\ r.seen \in {"needs_clarification", "answer_ready"}
                           /\ r.step = "store"

HInv ==
    /\ HandlersTypeOK
    /\ \A w \in Workers : Busy(w) => Sound(requests[w])

-----------------------------------------------------------------------------
(* Requests and outcomes                                                   *)

\* A pending request is told from a finished one by its fields.
LEMMA RequestsAreNotOutcomes == Request \cap Outcomes = {}
BY DEF Request, Outcomes, Done

\* What a handler has read makes a well-typed request.
LEMMA ReceivedIsRequest ==
    ASSUME NEW kind \in Kinds, NEW a \in Appeals, appeals[a].status \in Status,
           appeals[a] \in Row, NEW by \in Experts \cup {Nobody, Applicant},
           NEW about \in Experts \cup {Nobody}, NEW crisis \in BOOLEAN,
           NEW step \in Steps
    PROVE  /\ Received(kind, a, by, about, crisis, step) \in Request
           /\ Received(kind, a, by, about, crisis, step) \notin Outcomes
<1>1. Received(kind, a, by, about, crisis, step) \in Request
  BY DEF Received, Request, Row
<1>2. QED
  BY <1>1, RequestsAreNotOutcomes

\* A request that goes on to its next step stays well typed.
LEMMA NextStepIsRequest ==
    ASSUME NEW r \in Request, NEW s \in Steps
    PROVE  /\ [r EXCEPT !.step = s] \in Request
           /\ \A t \in Status : [r EXCEPT !.step = s, !.seen = t] \in Request
BY DEF Request

\* A busy worker serves a well-typed request.
LEMMA BusyIsRequest ==
    ASSUME HandlersTypeOK, NEW w \in Workers, Busy(w)
    PROVE  requests[w] \in Request
BY DEF HandlersTypeOK, Busy

\* However a handler ends, it ends.
LEMMA DoneIsOutcome == Done("ok") \in Outcomes /\ Done("failed") \in Outcomes
BY DEF Outcomes

-----------------------------------------------------------------------------
(* The handlers implement the store                                        *)

\* The store call of a pending expert request is one AppealStore allows.
LEMMA ExpertCallIsStoreStep ==
    ASSUME NEW r \in Request, ExpertCall(r), r.kind = "contribute" => r.about \in Experts
    PROVE  StaffNext(r.appeal)
<1>1. /\ <<"assigned", "in_progress">> \in TransitionCalls
      /\ <<"in_progress", "needs_clarification">> \in TransitionCalls
  BY DEF TransitionCalls
<1>2. CASE TransitionStatus(r.appeal, "assigned", "in_progress")
  BY <1>1, <1>2 DEF StaffNext
<1>3. CASE TransitionStatus(r.appeal, "in_progress", "needs_clarification")
  BY <1>1, <1>3 DEF StaffNext
<1>4. CASE PublishRecommendation(r.appeal) \/ RequestTransfer(r.appeal)
  BY <1>4 DEF StaffNext
<1>5. CASE r.kind = "contribute" /\ AddContributor(r.appeal, r.about)
  BY <1>5 DEF StaffNext
<1>6. QED
  BY <1>2, <1>3, <1>4, <1>5 DEF ExpertCall

\* The first part of a handler changes no table, or appends a description.
LEMMA BeginIsStoreStep ==
    ASSUME NEW w \in Workers, Begin(w)
    PROVE  [Next]_vars
<1>1. CASE UNCHANGED vars
  BY <1>1
<1>2. ASSUME NEW a \in Appeals, NEW crisis \in BOOLEAN, AppendDescription(a, crisis)
      PROVE  Next
  BY <1>2 DEF Next, ApplicantNext
<1>3. QED
  BY <1>1, <1>2 DEF Begin, ExpertAsks, ExpertWrites, OperatorCloses, ApplicantWrites,
                    ApplicantAppends

\* Every later part of a handler is a step of the store, or changes no table.
LEMMA ContinueIsStoreStep ==
    ASSUME HInv, NEW w \in Workers, Continue(w)
    PROVE  [Next]_vars
<1>0. /\ requests[w] \in Request
      /\ requests[w].appeal \in Appeals
      /\ Sound(requests[w])
  <2>1. Busy(w)
    BY DEF Continue, ExpertCommits, CloseCommits, ReadBack, LiftWaiting, StoreMessage,
           FlagMessage, Fail
  <2>2. QED
    BY <2>1, BusyIsRequest DEF HInv, Request
<1>1. /\ <<"needs_clarification", "in_progress">> \in TransitionCalls
      /\ <<"needs_clarification", "closed_no_response">> \in TransitionCalls
      /\ <<"answer_ready", "closed_no_response">> \in TransitionCalls
  BY DEF TransitionCalls
<1>2. CASE UNCHANGED vars
  BY <1>2
<1>3. CASE ExpertCall(requests[w])
  BY <1>0, <1>3, ExpertCallIsStoreStep DEF Next, Sound
<1>4. CASE /\ requests[w].kind = "close"
           /\ TransitionStatus(requests[w].appeal, requests[w].seen, "closed_no_response")
  <2>1. <<requests[w].seen, "closed_no_response">> \in TransitionCalls
    BY <1>0, <1>1, <1>4 DEF Sound
  <2>2. StaffNext(requests[w].appeal)
    BY <2>1, <1>4 DEF StaffNext
  <2>3. QED
    BY <1>0, <2>2 DEF Next
<1>5. CASE TransitionStatus(requests[w].appeal, "needs_clarification", "in_progress")
  <2>1. StaffNext(requests[w].appeal)
    BY <1>1, <1>5 DEF StaffNext
  <2>2. QED
    BY <1>0, <2>1 DEF Next
<1>6. CASE FlagCrisisFromMessage(requests[w].appeal)
  BY <1>0, <1>6 DEF Next, ApplicantNext
<1>7. QED
  BY <1>2, <1>3, <1>4, <1>5, <1>6
  DEF Continue, ExpertCommits, CloseCommits, ReadBack, LiftWaiting, StoreMessage, FlagMessage, Fail

\* A handler that is one transaction is a step of the store.
LEMMA AtOnceIsStoreStep ==
    ASSUME NEW a \in Appeals, AtOnce(a)
    PROVE  Next
BY DEF AtOnce, Next, ApplicantNext, StaffNext

\* So is what the janitor does to an appeal.
LEMMA JanitorIsStoreStep ==
    ASSUME NEW a \in Appeals, Janitor(a)
    PROVE  Next
<1>1. /\ <<"needs_clarification", "closed_no_response">> \in TransitionCalls
      /\ <<"answer_ready", "closed_no_response">> \in TransitionCalls
  BY DEF TransitionCalls
<1>2. CASE TransitionStatus(a, "needs_clarification", "closed_no_response")
  BY <1>1, <1>2 DEF Next, StaffNext
<1>3. CASE TransitionStatus(a, "answer_ready", "closed_no_response")
  BY <1>1, <1>3 DEF Next, StaffNext
<1>4. CASE PurgeAppeal(a)
  BY <1>4 DEF Next
<1>5. QED
  BY <1>2, <1>3, <1>4 DEF Janitor

\* Every step of the handlers is a step of the store or leaves the tables alone.
LEMMA HandlersStepIsStoreStep ==
    ASSUME HInv, [HandlersNext]_allVars
    PROVE  [Next]_vars
<1>1. CASE HandlersNext
  <2>1. ASSUME NEW n \in MaxReturnsInput, SetMaxReturns(n) PROVE Next
    BY <2>1 DEF Next
  <2>2. QED
    BY <1>1, <2>1, BeginIsStoreStep, ContinueIsStoreStep, AtOnceIsStoreStep,
       JanitorIsStoreStep DEF HandlersNext
<1>2. CASE UNCHANGED allVars
  BY <1>2 DEF allVars
<1>3. QED
  BY <1>1, <1>2

-----------------------------------------------------------------------------
(* The pending requests                                                    *)

\* What one step does to the request of worker w: it is over, it stays, it goes
\* on with the same caller and purpose, or it has just passed its first read.
GoesOn(w) ==
    /\ Busy(w)
    /\ requests'[w] \in Request
    /\ requests'[w].kind = requests[w].kind
    /\ requests'[w].by = requests[w].by
    /\ requests'[w].about = requests[w].about
    /\ requests'[w].kind = "close" => /\ requests'[w].seen = requests[w].seen
                                      /\ requests'[w].step = "store"

Served(w) ==
    \/ requests'[w] \in Outcomes
    \/ requests'[w] = requests[w]
    \/ GoesOn(w)
    \/ requests'[w] \in Request /\ Sound(requests'[w])

\* Only the worker whose step it is has its request changed.
LEMMA OneRequest ==
    ASSUME HandlersTypeOK, NEW w \in Workers, NEW r \in Request \cup Outcomes,
           Become(w, r)
    PROVE  /\ requests' \in [Workers -> Request \cup Outcomes]
           /\ requests'[w] = r
           /\ \A v \in Workers \ {w} : requests'[v] = requests[v]
BY DEF Become, HandlersTypeOK

\* A request that has just been received rests on the check its handler made.
LEMMA BeginServes ==
    ASSUME HInv, NEW w \in Workers, Begin(w)
    PROVE  /\ requests' \in [Workers -> Request \cup Outcomes]
           /\ writers' = writers
           /\ \A v \in Workers : Served(v)
<1>0. HandlersTypeOK /\ TypeOK
  BY DEF HInv, HandlersTypeOK
<1>1. \E r \in Request : Become(w, r) /\ Sound(r)
  <2>1. ASSUME NEW a \in Appeals, NEW e \in Experts, NEW kind \in ExpertCalls,
               NEW about \in Experts \cup {Nobody}, ExpertAsks(w, a, e, kind, about)
        PROVE  \E r \in Request : Become(w, r) /\ Sound(r)
    <3> DEFINE r == Received(kind, a, e, about, FALSE, "store")
    <3>1. r \in Request
      BY <1>0, <2>1, ReceivedIsRequest DEF ExpertAsks, Live, Kinds, Steps, TypeOK
    <3>2. Become(w, r) /\ Sound(r)
      BY <2>1 DEF ExpertAsks, Sound, Received, ExpertCalls
    <3>3. QED
      BY <3>1, <3>2
  <2>2. ASSUME NEW a \in Appeals, NEW e \in Experts, ExpertWrites(w, a, e)
        PROVE  \E r \in Request : Become(w, r) /\ Sound(r)
    <3> DEFINE r == Received("chat", a, e, Nobody, FALSE, "store")
    <3>1. r \in Request
      BY <1>0, <2>2, ReceivedIsRequest
      DEF ExpertWrites, Open, OpenStatus, Status, Kinds, Steps, TypeOK
    <3>2. Become(w, r) /\ Sound(r)
      BY <2>2 DEF ExpertWrites, Sound, Received
    <3>3. QED
      BY <3>1, <3>2
  <2>3. ASSUME NEW a \in Appeals, OperatorCloses(w, a)
        PROVE  \E r \in Request : Become(w, r) /\ Sound(r)
    <3> DEFINE r == Received("close", a, Nobody, Nobody, FALSE, "store")
    <3>1. r \in Request
      BY <1>0, <2>3, ReceivedIsRequest
      DEF OperatorCloses, OpenStatus, Status, Kinds, Steps, TypeOK
    <3>2. Become(w, r) /\ Sound(r)
      BY <2>3 DEF OperatorCloses, Sound, Received
    <3>3. QED
      BY <3>1, <3>2
  <2>4. ASSUME NEW a \in Appeals, NEW crisis \in BOOLEAN, ApplicantWrites(w, a, crisis)
        PROVE  \E r \in Request : Become(w, r) /\ Sound(r)
    <3> DEFINE r == Received("message", a, Applicant, Nobody, crisis,
                             AfterLook(appeals[a].status))
    <3>1. r \in Request
      BY <1>0, <2>4, ReceivedIsRequest
      DEF ApplicantWrites, Open, OpenStatus, Status, Kinds, Steps, AfterLook, TypeOK
    <3>2. Become(w, r) /\ Sound(r)
      BY <2>4 DEF ApplicantWrites, Sound, Received
    <3>3. QED
      BY <3>1, <3>2
  <2>5. ASSUME NEW a \in Appeals, NEW crisis \in BOOLEAN, ApplicantAppends(w, a, crisis)
        PROVE  \E r \in Request : Become(w, r) /\ Sound(r)
    <3> DEFINE r == Received("append", a, Applicant, Nobody, crisis, "read")
    <3>1. r \in Request
      BY <1>0, <2>5, ReceivedIsRequest
      DEF ApplicantAppends, AppendDescription, Open, OpenStatus, Status, Kinds, Steps, TypeOK
    <3>2. Become(w, r) /\ Sound(r)
      BY <2>5 DEF ApplicantAppends, Sound, Received
    <3>3. QED
      BY <3>1, <3>2
  <2>6. QED
    BY <2>1, <2>2, <2>3, <2>4, <2>5 DEF Begin
<1>2. writers' = writers
  BY DEF Begin, ExpertAsks, ExpertWrites, OperatorCloses, ApplicantWrites, ApplicantAppends
<1>3. QED
  BY <1>0, <1>1, <1>2, OneRequest DEF Served

\* A request that goes on keeps the facts it rests on.
LEMMA ContinueServes ==
    ASSUME HInv, NEW w \in Workers, Continue(w)
    PROVE  /\ requests' \in [Workers -> Request \cup Outcomes]
           /\ writers' \in [Appeals -> SUBSET (Experts \cup {Applicant})]
           /\ \A v \in Workers : Served(v)
<1>0. HandlersTypeOK /\ TypeOK /\ Busy(w)
  BY DEF HInv, HandlersTypeOK, Continue, ExpertCommits, CloseCommits, ReadBack,
         LiftWaiting, StoreMessage, FlagMessage, Fail
<1>1. requests[w] \in Request /\ Sound(requests[w]) /\ requests[w].appeal \in Appeals
  BY <1>0, BusyIsRequest DEF HInv, Request
<1>2. writers' \in [Appeals -> SUBSET (Experts \cup {Applicant})]
  <2>1. CASE StoreMessage(w)
    <3>1. requests[w].by \in Experts \cup {Applicant}
      BY <1>1, <2>1 DEF StoreMessage, Sound
    <3>2. QED
      BY <1>0, <2>1, <3>1 DEF StoreMessage, HandlersTypeOK
  <2>2. CASE writers' = writers
    BY <1>0, <2>2 DEF HandlersTypeOK
  <2>3. QED
    BY <2>1, <2>2 DEF Continue, ExpertCommits, CloseCommits, ReadBack, LiftWaiting,
                      FlagMessage, Fail
<1>3. CASE /\ requests[w].kind # "close"
           /\ \E s \in Steps : Become(w, [requests[w] EXCEPT !.step = s])
  <2>1. PICK s \in Steps : Become(w, [requests[w] EXCEPT !.step = s])
    BY <1>3
  <2>2. [requests[w] EXCEPT !.step = s] \in Request
    BY <1>1, NextStepIsRequest
  <2>3. requests'[w] = [requests[w] EXCEPT !.step = s]
    BY <1>0, <2>1, <2>2, OneRequest
  <2>4. GoesOn(w)
    BY <1>0, <1>1, <1>3, <2>2, <2>3 DEF GoesOn, Request
  <2>5. QED
    BY <1>0, <1>2, <2>1, <2>2, <2>4, OneRequest DEF Served
<1>4. CASE \E r \in Outcomes : Become(w, r)
  BY <1>0, <1>2, <1>4, OneRequest DEF Served
<1>5. CASE ReadBack(w) /\ requests'[w] \notin Outcomes
  <2> DEFINE now == appeals[requests[w].appeal].status
             r == [requests[w] EXCEPT !.step = "lift", !.seen = now]
  <2>1. now \in Status /\ Become(w, r)
    <3>1. ASSUME Become(w, Done("ok")) PROVE FALSE
      BY <1>0, <1>5, <3>1, DoneIsOutcome, OneRequest
    <3>2. QED
      BY <1>5, <3>1 DEF ReadBack, Live
  <2>2. r \in Request
    BY <1>1, <2>1, NextStepIsRequest DEF Steps
  <2>3. requests'[w] = r
    BY <1>0, <2>1, <2>2, OneRequest
  <2>4. requests[w].kind # "close"
    BY <1>1, <1>5 DEF ReadBack, Sound
  <2>5. GoesOn(w)
    BY <1>0, <1>1, <2>2, <2>3, <2>4 DEF GoesOn, Request
  <2>6. QED
    BY <1>0, <1>2, <2>1, <2>2, <2>5, OneRequest DEF Served
<1>6. CASE ReadBack(w) /\ requests'[w] \in Outcomes
  <2>1. Become(w, Done("ok"))
    <3>1. ASSUME NEW r \in Request, Become(w, r) PROVE FALSE
      BY <1>0, <1>6, <3>1, RequestsAreNotOutcomes, OneRequest
    <3>2. appeals[requests[w].appeal].status \in Status
      BY <1>6 DEF ReadBack, Live
    <3>3. [requests[w] EXCEPT !.step = "lift", !.seen = appeals[requests[w].appeal].status]
             \in Request
      BY <1>1, <3>2, NextStepIsRequest DEF Steps
    <3>4. QED
      BY <1>6, <3>1, <3>3 DEF ReadBack
  <2>2. QED
    BY <1>4, <2>1, DoneIsOutcome
<1>7. QED
  BY <1>3, <1>4, <1>5, <1>6, DoneIsOutcome
  DEF Continue, ExpertCommits, CloseCommits, LiftWaiting, StoreMessage,
      FlagMessage, Fail, Steps

-----------------------------------------------------------------------------
(* The inductive invariant                                                 *)

\* HInv holds when no request is pending.
LEMMA HInvInit == HandlersInit => HInv
BY TypeInit, DoneIsOutcome DEF HandlersInit, HInv, HandlersTypeOK, Busy

\* Steps of others serve no request and, but for the purge, write no message.
LEMMA OthersServe ==
    ASSUME HInv, requests' = requests,
           \/ UNCHANGED writers
           \/ \E a \in Appeals : writers' = [writers EXCEPT ![a] = {}]
    PROVE  /\ requests' \in [Workers -> Request \cup Outcomes]
           /\ writers' \in [Appeals -> SUBSET (Experts \cup {Applicant})]
           /\ \A v \in Workers : Served(v)
BY DEF HInv, HandlersTypeOK, Served

\* Every step of any handler, or of the janitor, preserves HInv.
LEMMA HInvStep == HInv /\ [HandlersNext]_allVars => HInv'
<1> SUFFICES ASSUME HInv, [HandlersNext]_allVars PROVE HInv'
  OBVIOUS
<1>1. TypeOK'
  BY HandlersStepIsStoreStep, TypeStep DEF HInv, HandlersTypeOK
<1>2. CASE HandlersNext
  <2>1. /\ requests' \in [Workers -> Request \cup Outcomes]
        /\ writers' \in [Appeals -> SUBSET (Experts \cup {Applicant})]
        /\ \A v \in Workers : Served(v)
    <3>1. CASE \E w \in Workers : Begin(w)
      BY <3>1, BeginServes DEF HInv, HandlersTypeOK
    <3>2. CASE \E w \in Workers : Continue(w)
      BY <3>2, ContinueServes
    <3>3. CASE requests' = requests
      BY <1>2, <3>3, OthersServe, BeginServes, ContinueServes
      DEF HandlersNext, Janitor, HInv, HandlersTypeOK
    <3>4. QED
      BY <1>2, <3>1, <3>2, <3>3 DEF HandlersNext
  <2>2. moments' \in [Workers -> SUBSET Moment]
    BY <1>2 DEF HandlersNext, Witness, HInv, HandlersTypeOK, HoldsNow, Moment
  <2>3. ASSUME NEW w \in Workers, Busy(w)' PROVE Sound(requests[w])'
    <3>1. requests'[w] \notin Outcomes
      BY <2>3 DEF Busy
    <3>2. CASE requests'[w] = requests[w]
      BY <3>1, <3>2 DEF HInv, Busy
    <3>3. CASE GoesOn(w)
      BY <3>3 DEF GoesOn, HInv, Sound
    <3>4. QED
      BY <2>1, <3>1, <3>2, <3>3 DEF Served
  <2>4. QED
    BY <1>1, <2>1, <2>2, <2>3 DEF HInv, HandlersTypeOK
<1>3. CASE UNCHANGED allVars
  BY <1>1, <1>3 DEF allVars, handlerVars, HInv, HandlersTypeOK, Busy
<1>4. QED
  BY <1>2, <1>3

\* Pending requests always rest on the check their handler made.
THEOREM HandlersInductive == HandlersSpec => []HInv
BY HInvInit, HInvStep, PTL DEF HandlersSpec

\* The handlers' tables and pending requests are always well typed.
THEOREM HandlersTypeCorrect == HandlersSpec => []HandlersTypeOK
BY HandlersInductive, PTL DEF HInv

\* What the handlers do to the tables, however interleaved and cut short, are
\* steps of AppealStore.
LEMMA HandlersImplementStore == HandlersSpec => Spec
<1>1. HandlersInit => Init
  BY DEF HandlersInit
<1>2. HInv /\ [HandlersNext]_allVars => [Next]_vars
  BY HandlersStepIsStoreStep
<1>3. QED
  BY <1>1, <1>2, HandlersInductive, PTL DEF HandlersSpec, Spec

\* So the store's invariants hold of the server.
COROLLARY ServerKeepsOneResponsible == HandlersSpec => []OneResponsible
BY HandlersImplementStore, OneResponsibleAlways, PTL

\* And the archive of the server is final.
COROLLARY ServerKeepsArchive == HandlersSpec => ArchiveIsFinal
BY HandlersImplementStore, ArchiveStays, PTL

\* And, the two refinements put together, an appeal lives with the server the
\* life that AppealLifecycle promises.
COROLLARY ServerKeepsPromise == HandlersSpec => ImplementsLifecycle
BY HandlersImplementStore, StoreImplementsLifecycle, PTL

-----------------------------------------------------------------------------
(* The course of a request: at which step it can be, and what the moments  *)
(* it has lived through tell of the row it saw.                            *)

Course(r, m) ==
    /\ r.kind = "append" => r.step \in {"read", "lift"}
    /\ r.step = "read" => r.kind = "append"
    /\ r.step = "flag" => r.kind = "message"
    /\ r.step = "lift" => r.kind \in {"message", "append"}
    /\ r.kind = "message" /\ r.seen = "needs_clarification"
          => r.step = "lift" \/ "lifted" \in m
    /\ r.kind = "message" /\ r.crisis /\ r.sawCrisis => "flagged" \in m

OnCourse == \A w \in Workers : Busy(w) => Course(requests[w], moments[w])

\* A handler that has looked goes on to the step the row it saw calls for.
LEMMA BeginSetsCourse ==
    ASSUME HInv, NEW w \in Workers, Begin(w), requests'[w] \notin Outcomes
    PROVE  Course(requests'[w], HoldsNow(requests[w])')
<1>0. requests \in [Workers -> Request \cup Outcomes]
  BY DEF HInv, HandlersTypeOK
<1>1. ASSUME NEW a \in Appeals, NEW e \in Experts, NEW kind \in ExpertCalls,
             NEW about \in Experts \cup {Nobody}, ExpertAsks(w, a, e, kind, about)
      PROVE  Course(requests'[w], HoldsNow(requests[w])')
  <2>1. requests'[w] = Received(kind, a, e, about, FALSE, "store")
    BY <1>0, <1>1 DEF ExpertAsks, Become
  <2>2. QED
    BY <2>1 DEF Course, Received, ExpertCalls
<1>2. ASSUME NEW a \in Appeals, NEW e \in Experts, ExpertWrites(w, a, e)
      PROVE  Course(requests'[w], HoldsNow(requests[w])')
  <2>1. requests'[w] = Received("chat", a, e, Nobody, FALSE, "store")
    BY <1>0, <1>2 DEF ExpertWrites, Become
  <2>2. QED
    BY <2>1 DEF Course, Received
<1>3. ASSUME NEW a \in Appeals, OperatorCloses(w, a)
      PROVE  Course(requests'[w], HoldsNow(requests[w])')
  <2>1. requests'[w] = Received("close", a, Nobody, Nobody, FALSE, "store")
    BY <1>0, <1>3 DEF OperatorCloses, Become
  <2>2. QED
    BY <2>1 DEF Course, Received
<1>4. ASSUME NEW a \in Appeals, NEW crisis \in BOOLEAN, ApplicantWrites(w, a, crisis)
      PROVE  Course(requests'[w], HoldsNow(requests[w])')
  <2> DEFINE r == Received("message", a, Applicant, Nobody, crisis,
                         AfterLook(appeals[a].status))
  <2>1. requests'[w] = r
    BY <1>0, <1>4 DEF ApplicantWrites, Become
  <2>2. /\ r.kind = "message" /\ r.appeal = a /\ r.crisis = crisis
        /\ r.seen = appeals[a].status /\ r.sawCrisis = appeals[a].crisis
        /\ r.step = AfterLook(appeals[a].status)
    BY DEF Received
  <2>3. r.crisis /\ r.sawCrisis => "flagged" \in HoldsNow(requests[w])'
    <3>1. appeals' = appeals
      BY <1>4 DEF ApplicantWrites, vars
    <3>2. QED
      BY <2>1, <2>2, <3>1 DEF HoldsNow, Moment
  <2>4. /\ r.seen = "needs_clarification" => r.step = "lift"
        /\ r.step # "flag"
    BY <2>2 DEF AfterLook
  <2>5. r.step # "read"
    BY <2>2 DEF AfterLook
  <2>6. QED
    BY <2>1, <2>2, <2>3, <2>4, <2>5 DEF Course
<1>5. ASSUME NEW a \in Appeals, NEW crisis \in BOOLEAN, ApplicantAppends(w, a, crisis)
      PROVE  Course(requests'[w], HoldsNow(requests[w])')
  <2>1. requests'[w] = Received("append", a, Applicant, Nobody, crisis, "read")
    BY <1>0, <1>5 DEF ApplicantAppends, Become
  <2>2. QED
    BY <2>1 DEF Course, Received
<1>6. QED
  BY <1>1, <1>2, <1>3, <1>4, <1>5 DEF Begin

\* A message that goes on to be stored has seen the waiting lifted; one that goes
\* on to flag the appeal stays what it was.
LEMMA ContinueKeepsCourse ==
    ASSUME HInv, NEW w \in Workers, Continue(w), Course(requests[w], moments[w]),
           requests'[w] \notin Outcomes
    PROVE  Course(requests'[w], HoldsNow(requests[w])' \cup moments[w])
<1>0. Busy(w) /\ requests[w] \in Request
  <2>1. Busy(w)
    BY DEF Continue, ExpertCommits, CloseCommits, ReadBack, LiftWaiting, StoreMessage,
           FlagMessage, Fail
  <2>2. QED
    BY <2>1, BusyIsRequest DEF HInv
<1>1. ASSUME NEW r, Become(w, r) PROVE requests'[w] = r
  BY <1>1 DEF Become, HInv, HandlersTypeOK
<1>2. CASE LiftWaiting(w)
  <2> DEFINE a == requests[w].appeal
  <2>1. /\ requests'[w] = [requests[w] EXCEPT !.step = "store"]
        /\ requests[w].kind = "message"
    BY <1>1, <1>2, DoneIsOutcome DEF LiftWaiting
  <2>2. appeals'[a].status # "needs_clarification"
    <3>1. CASE TransitionStatus(a, "needs_clarification", "in_progress")
      BY <1>0, <3>1 DEF TransitionStatus, Update, HInv, HandlersTypeOK, TypeOK, Request, Row
    <3>2. CASE appeals[a].status # "needs_clarification" /\ UNCHANGED vars
      BY <3>2 DEF vars
    <3>3. QED
      BY <1>2, <3>1, <3>2 DEF LiftWaiting
  <2>3. /\ requests'[w].kind = "message" /\ requests'[w].step = "store"
        /\ requests'[w].seen = requests[w].seen /\ requests'[w].appeal = a
        /\ requests'[w].crisis = requests[w].crisis
        /\ requests'[w].sawCrisis = requests[w].sawCrisis
    BY <1>0, <2>1 DEF Request
  <2>4. requests'[w].seen = "needs_clarification" => "lifted" \in HoldsNow(requests[w])'
    BY <2>2, <2>3 DEF HoldsNow, Moment
  <2>5. QED
    BY <2>1, <2>3, <2>4 DEF Course
<1>3. CASE StoreMessage(w)
  <2>1. /\ requests'[w] = [requests[w] EXCEPT !.step = "flag"]
        /\ requests[w].kind = "message" /\ requests[w].step = "store"
    BY <1>1, <1>3, DoneIsOutcome DEF StoreMessage
  <2>2. /\ requests'[w].kind = "message" /\ requests'[w].step = "flag"
        /\ requests'[w].seen = requests[w].seen
        /\ requests'[w].crisis = requests[w].crisis
        /\ requests'[w].sawCrisis = requests[w].sawCrisis
    BY <1>0, <2>1 DEF Request
  <2>3. QED
    BY <2>1, <2>2 DEF Course
<1>4. CASE ReadBack(w)
  <2>1. requests'[w] = [requests[w] EXCEPT !.step = "lift",
                           !.seen = appeals[requests[w].appeal].status]
    BY <1>1, <1>4, DoneIsOutcome DEF ReadBack
  <2>2. requests[w].kind = "append"
    BY <1>4 DEF ReadBack, Course
  <2>3. requests'[w].kind = "append" /\ requests'[w].step = "lift"
    BY <1>0, <2>1, <2>2 DEF Request
  <2>4. QED
    BY <2>3 DEF Course
<1>5. QED
  BY <1>1, <1>2, <1>3, <1>4, DoneIsOutcome
  DEF Continue, ExpertCommits, CloseCommits, FlagMessage, Fail

\* Facts about a request's past are never lost.
LEMMA CourseGrows ==
    ASSUME NEW r, NEW m, NEW n, m \subseteq n, Course(r, m)
    PROVE  Course(r, n)
BY DEF Course

\* Every step keeps every pending request on its course.
LEMMA OnCourseStep == HInv /\ OnCourse /\ [HandlersNext]_allVars => OnCourse'
<1> SUFFICES ASSUME HInv, OnCourse, [HandlersNext]_allVars, NEW w \in Workers, Busy(w)'
             PROVE  Course(requests[w], moments[w])'
  BY DEF OnCourse
<1>0. requests'[w] \notin Outcomes
  BY DEF Busy
<1>1. CASE UNCHANGED allVars
  BY <1>0, <1>1 DEF OnCourse, Busy, allVars, handlerVars
<1>2. CASE HandlersNext
  <2>1. /\ HoldsNow(requests[w])' \subseteq moments'[w]
        /\ Busy(w) => moments[w] \subseteq moments'[w]
    BY <1>0, <1>2 DEF HandlersNext, Witness
  <2>2. CASE requests'[w] = requests[w]
    <3>1. Busy(w)
      BY <1>0, <2>2 DEF Busy
    <3>2. Course(requests[w], moments[w]) /\ moments[w] \subseteq moments'[w]
      BY <2>1, <3>1 DEF OnCourse
    <3>3. QED
      BY <2>2, <3>2, CourseGrows
  <2>3. CASE Begin(w)
    <3>1. Course(requests'[w], HoldsNow(requests[w])')
      BY <1>0, <2>3, BeginSetsCourse
    <3>2. HoldsNow(requests[w])' \subseteq moments'[w]
      BY <2>1
    <3>3. QED
      BY <3>1, <3>2, CourseGrows
  <2>4. CASE Continue(w)
    <3>1. Busy(w)
      BY <2>4 DEF Continue, ExpertCommits, CloseCommits, ReadBack, LiftWaiting, StoreMessage,
                  FlagMessage, Fail
    <3>2. Course(requests'[w], HoldsNow(requests[w])' \cup moments[w])
      BY <1>0, <2>4, <3>1, ContinueKeepsCourse DEF OnCourse
    <3>3. HoldsNow(requests[w])' \cup moments[w] \subseteq moments'[w]
      BY <2>1, <3>1
    <3>4. QED
      BY <3>2, <3>3, CourseGrows
  <2>5. ASSUME NEW v \in Workers, v # w, Begin(v) \/ Continue(v)
        PROVE  requests'[w] = requests[w]
    <3>1. \E r : Become(v, r)
      BY <2>5 DEF Begin, ExpertAsks, ExpertWrites, OperatorCloses, ApplicantWrites,
                  ApplicantAppends, Continue, ExpertCommits, CloseCommits, ReadBack, LiftWaiting,
                  StoreMessage, FlagMessage, Fail
    <3>2. QED
      BY <2>5, <3>1 DEF Become, HInv, HandlersTypeOK
  <2>6. QED
    BY <1>2, <2>2, <2>3, <2>4, <2>5 DEF HandlersNext
<1>3. QED
  BY <1>1, <1>2

\* Every pending request is always on its course.
THEOREM AlwaysOnCourse == HandlersSpec => []OnCourse
<1>1. HandlersInit => OnCourse
  BY DoneIsOutcome DEF HandlersInit, OnCourse, Busy
<1>2. QED
  BY <1>1, OnCourseStep, HandlersInductive, PTL DEF HandlersSpec

\* A request comes to its end by a step of its own worker's handler.
LEMMA EndsByItself ==
    ASSUME HInv, HandlersNext, NEW w \in Workers, Ends(w)
    PROVE  Continue(w)
<1>1. Busy(w) /\ requests'[w] # requests[w]
  BY DEF Ends, Busy
<1>2. ASSUME NEW v \in Workers, v # w, Begin(v) \/ Continue(v)
      PROVE  requests'[w] = requests[w]
  <2>1. \E r : Become(v, r)
    BY <1>2 DEF Begin, ExpertAsks, ExpertWrites, OperatorCloses, ApplicantWrites,
                ApplicantAppends, Continue, ExpertCommits, CloseCommits, ReadBack, LiftWaiting,
                StoreMessage, FlagMessage, Fail
  <2>2. QED
    BY <1>2, <2>1 DEF Become, HInv, HandlersTypeOK
<1>3. ~Begin(w)
  BY <1>1 DEF Begin, ExpertAsks, ExpertWrites, OperatorCloses, ApplicantWrites,
              ApplicantAppends
<1>4. QED
  BY <1>1, <1>2, <1>3 DEF HandlersNext

\* Raising the flag leaves it up.
LEMMA FlagIsUp ==
    ASSUME TypeOK, NEW a \in Appeals, FlagCrisisFromMessage(a)
    PROVE  appeals'[a].crisis
<1>1. appeals' = [appeals EXCEPT ![a] = [appeals[a] EXCEPT !.crisis = TRUE,
                                                         !.priority = "urgent"]]
  BY DEF FlagCrisisFromMessage, Update
<1>2. appeals[a] \in Row
  BY DEF FlagCrisisFromMessage, Live, TypeOK
<1>3. QED
  BY <1>1, <1>2 DEF TypeOK, Row

\* A crisis text the applicant was answered for met the flag, or raised it.
THEOREM CrisisIsNotPassedOver == HandlersSpec => AnsweredCrisisIsFlagged
<1>1. HInv /\ OnCourse /\ [HandlersNext]_allVars =>
          [\A w \in Workers :
              Answers(w) /\ requests[w].kind = "message" /\ requests[w].crisis =>
                  "flagged" \in moments[w]
                      \/ appeals'[requests[w].appeal].crisis]_allVars
  <2> SUFFICES ASSUME HInv, OnCourse, HandlersNext, NEW w \in Workers, Answers(w),
                      requests[w].kind = "message", requests[w].crisis
               PROVE  "flagged" \in moments[w] \/ appeals'[requests[w].appeal].crisis
    OBVIOUS
  <2>0. Ends(w) /\ Busy(w) /\ requests'[w] = Done("ok")
    BY DoneIsOutcome DEF Answers, Ends
  <2>1. Continue(w) /\ Course(requests[w], moments[w]) /\ requests[w] \in Request
    BY <2>0, EndsByItself, BusyIsRequest DEF OnCourse, HInv
  <2>2. ASSUME NEW r, Become(w, r) PROVE requests'[w] = r
    BY <2>2 DEF Become, HInv, HandlersTypeOK
  <2>3. CASE FlagMessage(w)
    <3>1. TypeOK /\ requests[w].appeal \in Appeals
      BY <2>1 DEF HInv, HandlersTypeOK, Request
    <3>2. QED
      BY <2>3, <3>1, FlagIsUp DEF FlagMessage, vars
  <2>4. CASE StoreMessage(w)
    <3>1. [requests[w] EXCEPT !.step = "flag"] \notin Outcomes
      BY <2>1, NextStepIsRequest, RequestsAreNotOutcomes DEF Steps
    <3>2. ~NeedsFlag(requests[w])
      BY <2>0, <2>2, <2>4, <3>1, DoneIsOutcome DEF StoreMessage
    <3>3. QED
      BY <2>1, <3>2 DEF NeedsFlag, Course, Request
  <2>5. CASE LiftWaiting(w)
    <3>1. [requests[w] EXCEPT !.step = "store"] \notin Outcomes
      BY <2>1, NextStepIsRequest, RequestsAreNotOutcomes DEF Steps
    <3>2. QED
      BY <2>0, <2>2, <2>5, <3>1, DoneIsOutcome DEF LiftWaiting
  <2>6. CASE Fail(w)
    BY <2>0, <2>2, <2>6 DEF Fail, Done
  <2>7. ~ReadBack(w)
    BY <2>1 DEF ReadBack, Course
  <2>8. QED
    BY <2>1, <2>3, <2>4, <2>5, <2>6, <2>7
    DEF Continue, ExpertCommits, CloseCommits, ExpertCalls
<1>2. QED
  BY <1>1, AlwaysOnCourse, HandlersInductive, PTL
  DEF HandlersSpec, AnsweredCrisisIsFlagged

\* An answer to a clarification request, by message or by addition, has ended the
\* waiting by the time the applicant learns that it was received.
THEOREM AnswersEndTheWait == HandlersSpec => AnswerLiftsWaiting
<1>1. HInv /\ OnCourse /\ [HandlersNext]_allVars =>
          [\A w \in Workers :
              /\ Answers(w)
              /\ requests[w].kind \in {"message", "append"}
              /\ requests[w].seen = "needs_clarification"
              => \/ "lifted" \in moments[w]
                 \/ appeals'[requests[w].appeal].status
                        # "needs_clarification"]_allVars
  <2> SUFFICES ASSUME HInv, OnCourse, HandlersNext, NEW w \in Workers, Answers(w),
                      requests[w].kind \in {"message", "append"},
                      requests[w].seen = "needs_clarification"
               PROVE  \/ "lifted" \in moments[w]
                      \/ appeals'[requests[w].appeal].status # "needs_clarification"
    OBVIOUS
  <2>0. Ends(w) /\ Busy(w) /\ requests'[w] = Done("ok")
    BY DoneIsOutcome DEF Answers, Ends
  <2>1. Continue(w) /\ Course(requests[w], moments[w]) /\ requests[w] \in Request
    BY <2>0, EndsByItself, BusyIsRequest DEF OnCourse, HInv
  <2>2. ASSUME NEW r, Become(w, r) PROVE requests'[w] = r
    BY <2>2 DEF Become, HInv, HandlersTypeOK
  <2>3. CASE LiftWaiting(w)
    <3>1. CASE TransitionStatus(requests[w].appeal, "needs_clarification", "in_progress")
      BY <2>1, <3>1
      DEF TransitionStatus, Update, HInv, HandlersTypeOK, TypeOK, Request, Row
    <3>2. CASE appeals[requests[w].appeal].status # "needs_clarification" /\ UNCHANGED vars
      BY <3>2 DEF vars
    <3>3. QED
      BY <2>3, <3>1, <3>2 DEF LiftWaiting
  <2>4. CASE ReadBack(w)
    <3>1. ASSUME appeals[requests[w].appeal].status = "needs_clarification" PROVE FALSE
      <4>1. [requests[w] EXCEPT !.step = "lift", !.seen = "needs_clarification"]
                \notin Outcomes
        BY <2>1, NextStepIsRequest, RequestsAreNotOutcomes DEF Steps, Status, OpenStatus
      <4>2. QED
        BY <2>0, <2>2, <2>4, <3>1, <4>1, DoneIsOutcome DEF ReadBack, AfterLook
    <3>2. QED
      BY <2>4, <3>1 DEF ReadBack, vars
  <2>5. CASE requests[w].kind = "message" /\ requests[w].step # "lift"
    BY <2>1, <2>5 DEF Course
  <2>6. CASE Fail(w)
    BY <2>0, <2>2, <2>6 DEF Fail, Done
  <2>7. CASE StoreMessage(w) \/ FlagMessage(w)
    <3>1. requests[w].kind = "message" /\ requests[w].step # "lift"
      BY <2>1, <2>7 DEF StoreMessage, FlagMessage, Course
    <3>2. QED
      BY <2>5, <3>1
  <2>8. ~ExpertCommits(w) /\ ~CloseCommits(w)
    BY DEF ExpertCommits, CloseCommits, ExpertCalls
  <2>9. QED
    BY <2>1, <2>3, <2>4, <2>6, <2>7, <2>8 DEF Continue
<1>2. QED
  BY <1>1, AlwaysOnCourse, HandlersInductive, PTL DEF HandlersSpec, AnswerLiftsWaiting

-----------------------------------------------------------------------------
(* A request of an expert who has been replaced                            *)

\* The responsible expert of an appeal is replaced by handing the appeal over,
\* or goes with the appeal when it is erased.
LEMMA HandingOverReplaces ==
    ASSUME TypeOK, [Next]_vars, NEW a \in Appeals, NEW e \in Experts,
           participants[a][e] = "responsible", participants'[a][e] # "responsible"
    PROVE  appeals'[a].status \in {"assigned", "erased"}
<1>1. ASSUME NEW b \in Appeals, NEW x \in Experts, NEW byAdmin \in BOOLEAN,
             AssignExpert(b, x, byAdmin)
      PROVE  appeals'[a].status = "assigned"
  <2>1. b = a
    BY <1>1 DEF AssignExpert, TypeOK
  <2>2. QED
    BY <1>1, <2>1 DEF AssignExpert, Update, TypeOK, Row
<1>2. ASSUME NEW b \in Appeals, PurgeAppeal(b)
      PROVE  appeals'[a].status = "erased"
  <2>1. b = a
    BY <1>2 DEF PurgeAppeal, TypeOK
  <2>2. QED
    BY <1>2, <2>1 DEF PurgeAppeal, Update, TypeOK, Row, NoRow
<1>3. ASSUME NEW b \in Appeals, NEW x \in Experts, AddContributor(b, x)
      PROVE  FALSE
  BY <1>3 DEF AddContributor, TypeOK
<1>4. CASE participants' = participants
  BY <1>4
<1>5. QED
  BY <1>1, <1>2, <1>3, <1>4
  DEF Next, vars, ApplicantNext, StaffNext, CreateAppeal, AppendDescription,
      FlagCrisisFromMessage, ApplicantHelped, ApplicantReturned, TransitionStatus,
      Reject, CompleteByOperator, ReturnForRework, PublishRecommendation,
      RequestTransfer, SetCrisisFlag, SetPriority, AdminSetStatus, SetMaxReturns

\* No transaction of the store finds an erased appeal.
LEMMA ErasedStays ==
    ASSUME TypeOK, [Next]_vars, NEW a \in Appeals, appeals[a].status = "erased"
    PROVE  appeals'[a].status = "erased"
<1>1. ASSUME NEW b \in Appeals, NEW row, Update(b, row), b # a
      PROVE  appeals'[a] = appeals[a]
  BY <1>1 DEF Update, TypeOK
<1>2. /\ "erased" \notin OpenStatus \cup TerminalStatus \cup Status
      /\ \A call \in TransitionCalls : call[1] # "erased"
  BY DEF OpenStatus, TerminalStatus, Status, TransitionCalls
<1>3. ASSUME NEW b \in Appeals, ApplicantNext(b)
      PROVE  appeals'[a].status = "erased"
  BY <1>1, <1>2, <1>3
  DEF ApplicantNext, CreateAppeal, AppendDescription, FlagCrisisFromMessage,
      ApplicantHelped, ApplicantReturned, Open, Live
<1>4. ASSUME NEW b \in Appeals, StaffNext(b)
      PROVE  appeals'[a].status = "erased"
  BY <1>1, <1>2, <1>4
  DEF StaffNext, TransitionStatus, AssignExpert, Reject, CompleteByOperator,
      ReturnForRework, PublishRecommendation, RequestTransfer, AddContributor,
      SetCrisisFlag, SetPriority, AdminSetStatus, Open, Live
<1>5. ASSUME NEW b \in Appeals, PurgeAppeal(b)
      PROVE  appeals'[a].status = "erased"
  BY <1>1, <1>2, <1>5 DEF PurgeAppeal
<1>6. CASE appeals' = appeals
  BY <1>6
<1>7. QED
  BY <1>3, <1>4, <1>5, <1>6 DEF Next, vars, SetMaxReturns

\* Whoever asks or answers the applicant without being responsible any more has
\* seen the appeal handed over, or erased, since her handler looked.
Waits(r, m) ==
    AsksOrAnswers(r) =>
        /\ r.by \in Experts
        /\ Replaced(r) => "handedOver" \in m \/ appeals[r.appeal].status = "erased"

AllWait == \A w \in Workers : Busy(w) => Waits(requests[w], moments[w])

\* A pending call of that kind has just been received, or stands as it was.
LEMMA CallStands ==
    ASSUME HInv, OnCourse, HandlersNext, NEW w \in Workers, Busy(w)',
           AsksOrAnswers(requests'[w])
    PROVE  requests'[w] = requests[w] \/ Begin(w)
<1>0. requests'[w] \notin Outcomes
  BY DEF Busy
<1>1. ASSUME NEW r, Become(w, r) PROVE requests'[w] = r
  BY <1>1 DEF Become, HInv, HandlersTypeOK
<1>2. ASSUME Continue(w) PROVE FALSE
  <2>1. Busy(w)
    BY <1>2 DEF Continue, ExpertCommits, CloseCommits, ReadBack, LiftWaiting,
                StoreMessage, FlagMessage, Fail
  <2>2. requests[w] \in Request /\ Course(requests[w], moments[w])
    BY <2>1, BusyIsRequest DEF HInv, OnCourse
  <2>3. /\ requests[w].kind \in {"message", "append"}
        /\ requests'[w].kind = requests[w].kind
    <3>1. CASE ReadBack(w)
      <4>1. requests'[w] = [requests[w] EXCEPT !.step = "lift",
                               !.seen = appeals[requests[w].appeal].status]
        BY <1>0, <1>1, <3>1, DoneIsOutcome DEF ReadBack
      <4>2. QED
        BY <2>2, <3>1, <4>1 DEF ReadBack, Course, Request
    <3>2. CASE LiftWaiting(w)
      <4>1. requests'[w] = [requests[w] EXCEPT !.step = "store"]
        BY <1>0, <1>1, <3>2, DoneIsOutcome DEF LiftWaiting
      <4>2. QED
        BY <2>2, <3>2, <4>1 DEF LiftWaiting, Course, Request
    <3>3. CASE StoreMessage(w)
      <4>1. requests'[w] = [requests[w] EXCEPT !.step = "flag"]
        BY <1>0, <1>1, <3>3, DoneIsOutcome DEF StoreMessage
      <4>2. requests[w].kind = "message"
        BY <1>0, <1>1, <3>3, DoneIsOutcome DEF StoreMessage
      <4>3. QED
        BY <2>2, <4>1, <4>2 DEF Request
    <3>4. QED
      BY <1>0, <1>1, <1>2, <3>1, <3>2, <3>3, DoneIsOutcome
      DEF Continue, ExpertCommits, CloseCommits, FlagMessage, Fail
  <2>4. QED
    BY <2>3 DEF AsksOrAnswers
<1>3. ASSUME NEW v \in Workers, v # w, Begin(v) \/ Continue(v)
      PROVE  requests'[w] = requests[w]
  <2>1. \E r : Become(v, r)
    BY <1>3 DEF Begin, ExpertAsks, ExpertWrites, OperatorCloses, ApplicantWrites,
                ApplicantAppends, Continue, ExpertCommits, CloseCommits, ReadBack,
                LiftWaiting, StoreMessage, FlagMessage, Fail
  <2>2. QED
    BY <1>3, <2>1 DEF Become, HInv, HandlersTypeOK
<1>4. QED
  BY <1>2, <1>3 DEF HandlersNext

\* A call has found its caller responsible when it is received.
LEMMA CallerIsResponsible ==
    ASSUME HInv, NEW w \in Workers, Begin(w), AsksOrAnswers(requests'[w])
    PROVE  Waits(requests[w], HoldsNow(requests[w]))'
<1>1. ASSUME NEW a \in Appeals, NEW e \in Experts, NEW kind \in ExpertCalls,
             NEW about \in Experts \cup {Nobody}, ExpertAsks(w, a, e, kind, about)
      PROVE  Waits(requests[w], HoldsNow(requests[w]))'
  <2>1. requests'[w] = Received(kind, a, e, about, FALSE, "store")
    BY <1>1 DEF ExpertAsks, Become, HInv, HandlersTypeOK
  <2>2. requests'[w].by = e /\ requests'[w].appeal = a
    BY <2>1 DEF Received
  <2>3. participants'[a][e] = "responsible"
    BY <1>1 DEF ExpertAsks, RequireResponsible, vars
  <2>4. QED
    BY <2>2, <2>3 DEF Waits, Replaced, RequireResponsible
<1>2. QED
  BY <1>1 DEF Begin, ExpertWrites, OperatorCloses, ApplicantWrites, ApplicantAppends,
              Become, Received, AsksOrAnswers, HInv, HandlersTypeOK

\* What a request waits for is not forgotten.
LEMMA WaitsGrow ==
    ASSUME NEW r, NEW m, NEW n, m \subseteq n, Waits(r, m)
    PROVE  Waits(r, n)
BY DEF Waits

\* A call that stands while its caller is replaced has seen the handing over.
LEMMA StandsAndSees ==
    ASSUME HInv, HandlersNext, NEW w \in Workers, Busy(w), Waits(requests[w], moments[w]),
           requests'[w] = requests[w]
    PROVE  Waits(requests[w], moments[w])'
<1> DEFINE r == requests[w]
<1>0. r \in Request /\ TypeOK /\ [Next]_vars
  BY BusyIsRequest, HandlersStepIsStoreStep DEF HInv, HandlersTypeOK
<1>1. HoldsNow(requests[w])' \subseteq moments'[w] /\ moments[w] \subseteq moments'[w]
  BY DEF HandlersNext, Witness, Busy
<1> SUFFICES ASSUME AsksOrAnswers(r), Replaced(r)'
             PROVE  "handedOver" \in moments'[w] \/ appeals'[r.appeal].status = "erased"
  BY DEF Waits, AsksOrAnswers
<1>2. r.appeal \in Appeals /\ r.by \in Experts
  BY <1>0 DEF Request, Waits
<1>3. CASE Replaced(r)
  <2>1. "handedOver" \in moments[w] \/ appeals[r.appeal].status = "erased"
    BY <1>3 DEF Waits
  <2>2. QED
    BY <1>0, <1>1, <1>2, <2>1, ErasedStays
<1>4. CASE ~Replaced(r)
  <2>1. appeals'[r.appeal].status \in {"assigned", "erased"}
    BY <1>0, <1>2, <1>4, HandingOverReplaces DEF Replaced, RequireResponsible
  <2>2. CASE appeals'[r.appeal].status = "assigned"
    <3>1. "handedOver" \in HoldsNow(requests[w])'
      BY <2>2 DEF HoldsNow, Moment, AsksOrAnswers
    <3>2. QED
      BY <1>1, <3>1
  <2>3. QED
    BY <2>1, <2>2
<1>5. QED
  BY <1>3, <1>4

\* Every step leaves every pending call waiting.
LEMMA AllWaitStep == HInv /\ OnCourse /\ AllWait /\ [HandlersNext]_allVars => AllWait'
<1> SUFFICES ASSUME HInv, OnCourse, AllWait, [HandlersNext]_allVars,
                    NEW w \in Workers, Busy(w)'
             PROVE  Waits(requests[w], moments[w])'
  BY DEF AllWait
<1>0. requests'[w] \notin Outcomes
  BY DEF Busy
<1>1. CASE UNCHANGED allVars
  BY <1>0, <1>1 DEF AllWait, Waits, Replaced, RequireResponsible, Busy, allVars,
                    handlerVars, vars
<1>2. CASE HandlersNext
  <2>1. CASE ~AsksOrAnswers(requests'[w])
    BY <2>1 DEF Waits
  <2>2. CASE requests'[w] = requests[w]
    <3>1. Busy(w)
      BY <1>0, <2>2 DEF Busy
    <3>2. QED
      BY <1>2, <2>2, <3>1, StandsAndSees DEF AllWait
  <2>3. CASE AsksOrAnswers(requests'[w]) /\ Begin(w)
    <3>1. Waits(requests[w], HoldsNow(requests[w]))'
      BY <2>3, CallerIsResponsible
    <3>2. HoldsNow(requests[w])' \subseteq moments'[w]
      BY <1>0, <1>2 DEF HandlersNext, Witness
    <3>3. QED
      BY <3>1, <3>2 DEF Waits
  <2>4. QED
    BY <1>2, <2>1, <2>2, <2>3, CallStands
<1>3. QED
  BY <1>1, <1>2

\* An expert replaced between her handler's look and its transaction asks or
\* answers the applicant only after the appeal was handed over.
THEOREM ReplacedExpertsWait == HandlersSpec => ReplacedWaitsForTakeUp
<1>1. HandlersInit => AllWait
  BY DoneIsOutcome DEF HandlersInit, AllWait, Busy
<1>2. HInv /\ OnCourse /\ AllWait /\ [HandlersNext]_allVars =>
          [\A w \in Workers :
              /\ Ends(w)
              /\ AsksOrAnswers(requests[w])
              /\ vars' # vars
              /\ Replaced(requests[w])
              => "handedOver" \in moments[w]]_allVars
  <2> SUFFICES ASSUME HInv, OnCourse, AllWait, HandlersNext, NEW w \in Workers,
                      Ends(w), AsksOrAnswers(requests[w]), vars' # vars,
                      Replaced(requests[w])
               PROVE  "handedOver" \in moments[w]
    OBVIOUS
  <2>1. Busy(w) /\ Continue(w)
    BY EndsByItself DEF Ends
  <2>2. "handedOver" \in moments[w] \/ appeals[requests[w].appeal].status = "erased"
    BY <2>1 DEF AllWait, Waits
  <2>3. ExpertCall(requests[w])
    <3>1. Course(requests[w], moments[w])
      BY <2>1 DEF OnCourse
    <3>2. ~LiftWaiting(w) /\ ~FlagMessage(w) /\ ~CloseCommits(w)
      BY <3>1 DEF Course, LiftWaiting, FlagMessage, CloseCommits, AsksOrAnswers
    <3>3. CASE ReadBack(w) \/ StoreMessage(w) \/ Fail(w)
      BY <3>3 DEF ReadBack, StoreMessage, Fail
    <3>4. QED
      BY <2>1, <3>2, <3>3 DEF Continue, ExpertCommits
  <2>4. appeals[requests[w].appeal].status = "in_progress"
    BY <2>3 DEF ExpertCall, AsksOrAnswers, TransitionStatus, PublishRecommendation
  <2>5. QED
    BY <2>2, <2>4
<1>3. QED
  BY <1>1, <1>2, AllWaitStep, AlwaysOnCourse, HandlersInductive, PTL
  DEF HandlersSpec, ReplacedWaitsForTakeUp

-----------------------------------------------------------------------------
(* Roster: its requests and the admin keep to the store                    *)

\* A desk without an errand is told from one with an errand by its fields.
LEMMA IdleIsNoErrand == Idle \notin Errand
BY DEF Idle, Errand

\* What a handler notes down when it has read is a well-typed errand.
LEMMA ErrandsAreTyped ==
    ASSUME NEW step \in {"asked", "found"}, NEW kind \in {"assign", "contribute"},
           NEW a \in Appeals, NEW e \in Experts, NEW byAdmin \in BOOLEAN
    PROVE  [step |-> step, kind |-> kind, appeal |-> a, about |-> e,
            byAdmin |-> byAdmin] \in Errand
BY DEF Errand

\* A desk at work is on a well-typed errand.
LEMMA OnTypedErrand ==
    ASSUME RosterTypeOK, NEW d \in Desks, OnErrand(d)
    PROVE  errands[d] \in Errand
BY DEF RosterTypeOK, OnErrand

\* What happens to the errand of a desk leaves the types.
LEMMA ContinuesTyped ==
    ASSUME RosterTypeOK, NEW d \in Desks, NEW r \in Errand \cup {Idle}, Continues(d, r)
    PROVE  errands' \in [Desks -> Errand \cup {Idle}]
BY DEF RosterTypeOK, Continues

\* Rows of users and the errands stay well typed.
LEMMA ServeTyped ==
    ASSUME RosterTypeOK, NEW d \in Desks, Serve(d)
    PROVE  /\ errands' \in [Desks -> Errand \cup {Idle}]
           /\ users' = users
<1>1. ASSUME NEW a \in Appeals, NEW e \in Experts, NEW byAdmin \in BOOLEAN,
             AssignLooks(d, a, e, byAdmin)
      PROVE  /\ errands' \in [Desks -> Errand \cup {Idle}]
             /\ users' = users
  BY <1>1, ErrandsAreTyped, ContinuesTyped DEF AssignLooks
<1>2. ASSUME NEW a \in Appeals, NEW e \in Experts, NEW by \in Experts,
             ContributeAsks(d, a, by, e)
      PROVE  /\ errands' \in [Desks -> Errand \cup {Idle}]
             /\ users' = users
  BY <1>2, ErrandsAreTyped, ContinuesTyped DEF ContributeAsks
<1>3. CASE ContributeLooks(d)
  <2>1. errands[d] \in Errand
    BY <1>3, OnTypedErrand DEF ContributeLooks
  <2>2. [errands[d] EXCEPT !.step = "found"] \in Errand
    BY <2>1 DEF Errand
  <2>3. QED
    BY <1>3, <2>2, ContinuesTyped DEF ContributeLooks
<1>4. CASE Entrust(d)
  BY <1>4, ContinuesTyped DEF Entrust
<1>5. CASE GivesUp(d)
  BY <1>5, ContinuesTyped DEF GivesUp
<1>6. QED
  BY <1>1, <1>2, <1>3, <1>4, <1>5 DEF Serve

\* The admin leaves the errands alone and the rows of users well typed.
LEMMA PatchTyped ==
    ASSUME RosterTypeOK, Patch
    PROVE  /\ errands' = errands
           /\ users' \in [Experts -> User]
<1>1. ASSUME NEW e \in Experts, NEW active \in BOOLEAN, SetUserActive(e, active)
      PROVE  /\ errands' = errands
             /\ users' \in [Experts -> User]
  BY <1>1 DEF RosterTypeOK, SetUserActive, User
<1>2. ASSUME NEW e \in Experts, NEW role \in {"expert", "other"}, NEW group \in Groups,
             UpdateUser(e, role, group)
      PROVE  /\ errands' = errands
             /\ users' \in [Experts -> User]
  BY <1>2 DEF RosterTypeOK, UpdateUser, User
<1>3. QED
  BY <1>1, <1>2 DEF Patch

\* The first rows of users are those of active experts, and nobody is served.
LEMMA RosterTypeInit == RosterInit => RosterTypeOK
BY DEF RosterInit, RosterTypeOK, User

\* Every step keeps the types of users, errands and the history.
LEMMA RosterTypeStep == RosterTypeOK /\ [RosterNext]_rosterVars => RosterTypeOK'
<1> SUFFICES ASSUME RosterTypeOK, [RosterNext]_rosterVars PROVE RosterTypeOK'
  OBVIOUS
<1>1. CASE UNCHANGED rosterVars
  BY <1>1 DEF rosterVars, RosterTypeOK
<1>2. CASE RosterNext
  <2>1. stranded' \subseteq Appeals \X Experts
    BY <1>2 DEF RosterNext, Strands
  <2>2. /\ errands' \in [Desks -> Errand \cup {Idle}]
        /\ users' \in [Experts -> User]
    <3>1. ASSUME NEW d \in Desks, Serve(d)
          PROVE  /\ errands' \in [Desks -> Errand \cup {Idle}]
                 /\ users' \in [Experts -> User]
      BY <3>1, ServeTyped DEF RosterTypeOK
    <3>2. CASE Patch
      BY <3>2, PatchTyped DEF RosterTypeOK
    <3>3. CASE UNCHANGED <<users, errands>>
      BY <3>3 DEF RosterTypeOK
    <3>4. QED
      BY <1>2, <3>1, <3>2, <3>3 DEF RosterNext
  <2>3. QED
    BY <2>1, <2>2 DEF RosterTypeOK
<1>3. QED
  BY <1>1, <1>2

\* The tables of users and of the requests being served are well typed.
THEOREM RosterTypeCorrect == RosterSpec => []RosterTypeOK
BY RosterTypeInit, RosterTypeStep, PTL DEF RosterSpec

\* What an errand does to the tables of AppealStore is one of its transactions.
LEMMA ServeIsStoreStep ==
    ASSUME RosterTypeOK, NEW d \in Desks, Serve(d)
    PROVE  [Next]_vars
<1>1. CASE Entrust(d)
  <2> DEFINE r == errands[d]
  <2>1. r \in Errand
    BY <1>1, OnTypedErrand DEF Entrust
  <2>2. r.appeal \in Appeals /\ r.about \in Experts /\ r.byAdmin \in BOOLEAN
    BY <2>1 DEF Errand
  <2>3. StaffNext(r.appeal)
    BY <1>1, <2>2 DEF Entrust, StaffNext
  <2>4. QED
    BY <2>2, <2>3 DEF Next
<1>2. CASE ~Entrust(d)
  BY <1>2 DEF Serve, AssignLooks, ContributeAsks, ContributeLooks, GivesUp
<1>3. QED
  BY <1>1, <1>2

\* What else moves an appeal is one of the store's transactions by definition.
LEMMA MoveIsStoreStep ==
    ASSUME NEW a \in Appeals, Move(a)
    PROVE  Next
<1>1. ApplicantNext(a) \/ StaffNext(a) \/ PurgeAppeal(a)
  BY DEF Move, ApplicantNext, StaffNext
<1>2. QED
  BY <1>1 DEF Next

\* Requests that look an expert up and entrust later, and an admin who sends
\* experts away meanwhile, do to the appeals what AppealStore allows.
THEOREM RosterImplementsStore == RosterSpec => Spec
<1>1. RosterInit => Init
  BY DEF RosterInit
<1>2. RosterTypeOK /\ [RosterNext]_rosterVars => [Next]_vars
  <2> SUFFICES ASSUME RosterTypeOK, [RosterNext]_rosterVars PROVE [Next]_vars
    OBVIOUS
  <2>1. CASE UNCHANGED rosterVars
    BY <2>1 DEF rosterVars
  <2>2. CASE Patch
    BY <2>2 DEF Patch, SetUserActive, UpdateUser
  <2>3. QED
    BY <2>1, <2>2, ServeIsStoreStep, MoveIsStoreStep DEF RosterNext
<1>3. QED
  BY <1>1, <1>2, RosterTypeCorrect, PTL DEF RosterSpec, Spec

-----------------------------------------------------------------------------
(* Whose hands an appeal is in                                             *)

\* OnlyDeparturesStrand counts the appeals an expert has; to be inductive, it
\* must count those on their way to her as well.
HandsAccounted ==
    \A a \in Appeals, e \in Experts :
        InHand(a, e) /\ ~Fit(users[e]) => <<a, e>> \in stranded

\* A transaction of the store puts nobody in charge of an appeal, or next to
\* whoever is, but AssignExpert and AddContributor.
LEMMA MoveHandsToNobody ==
    ASSUME TypeOK, NEW a \in Appeals, Move(a), NEW b \in Appeals, NEW e \in Experts,
           participants'[b][e] # "none"
    PROVE  participants[b][e] # "none"
<1>1. CASE PurgeAppeal(a)
  BY <1>1 DEF TypeOK, PurgeAppeal, NoParticipants
<1>2. CASE ~PurgeAppeal(a)
  <2>1. participants' = participants
    BY <1>2 DEF Move, CreateAppeal, ApplicantHelped, ApplicantReturned, TransitionStatus,
         Reject, CompleteByOperator, ReturnForRework, PublishRecommendation,
         RequestTransfer, AdminSetStatus
  <2>2. QED
    BY <2>1
<1>3. QED
  BY <1>1, <1>2

\* Entrusting gives an appeal to the expert it was on its way to, and nothing
\* to anybody else.
LEMMA EntrustHandsOver ==
    ASSUME TypeOK, RosterTypeOK, NEW d \in Desks, Entrust(d),
           NEW a \in Appeals, NEW e \in Experts, InHand(a, e)'
    PROVE  InHand(a, e)
<1> DEFINE r == errands[d]
<1>1. r \in Errand
  BY OnTypedErrand DEF Entrust
<1>2. r.appeal \in Appeals /\ r.about \in Experts
  BY <1>1 DEF Errand
<1>3. CASE participants'[a][e] # "none"
  <2>1. CASE r.appeal = a /\ r.about = e
    BY <2>1 DEF Entrust, InHand
  <2>2. CASE ~(r.appeal = a /\ r.about = e)
    <3>1. participants[a][e] # "none"
      BY <1>2, <1>3, <2>2 DEF TypeOK, Entrust, AssignExpert, AddContributor, MadeResponsible
    <3>2. QED
      BY <3>1 DEF InHand
  <2>3. QED
    BY <2>1, <2>2
<1>4. CASE participants'[a][e] = "none"
  <2>1. PICK c \in Desks : /\ errands'[c] # Idle /\ errands'[c].step = "found"
                           /\ errands'[c].appeal = a /\ errands'[c].about = e
    BY <1>4 DEF InHand, OnErrand
  <2>2. errands'[c] = errands[c]
    BY <2>1 DEF RosterTypeOK, Entrust, Continues
  <2>3. QED
    BY <2>1, <2>2 DEF InHand, OnErrand
<1>5. QED
  BY <1>3, <1>4

\* An appeal gets into the hands of an expert who had nothing to do with it only
\* by a look at her that finds her fit.
LEMMA OnlyTheFitAreFound ==
    ASSUME TypeOK, RosterTypeOK, RosterNext, NEW a \in Appeals, NEW e \in Experts,
           InHand(a, e)', ~InHand(a, e)
    PROVE  Fit(users'[e])
<1>1. ASSUME NEW d \in Desks, NEW r, Continues(d, r), UNCHANGED <<vars, users>>,
             r # Idle /\ r.step = "found" /\ r.about \in Experts => Fit(users[r.about])
      PROVE  Fit(users'[e])
  <2>1. participants'[a][e] = "none"
    BY <1>1 DEF InHand, vars
  <2>2. PICK c \in Desks : /\ errands'[c] # Idle /\ errands'[c].step = "found"
                           /\ errands'[c].appeal = a /\ errands'[c].about = e
    BY <2>1 DEF InHand, OnErrand
  <2>3. c = d
    BY <1>1, <2>2 DEF RosterTypeOK, Continues, InHand, OnErrand
  <2>4. errands'[c] = r
    BY <1>1, <2>3 DEF RosterTypeOK, Continues
  <2>5. QED
    BY <1>1, <2>2, <2>4
<1>2. ASSUME NEW d \in Desks, Serve(d)
      PROVE  Fit(users'[e])
  <2>1. ASSUME NEW b \in Appeals, NEW x \in Experts, NEW byAdmin \in BOOLEAN,
               AssignLooks(d, b, x, byAdmin)
        PROVE  Fit(users'[e])
    BY <1>1, <2>1 DEF AssignLooks
  <2>2. ASSUME NEW b \in Appeals, NEW x \in Experts, NEW by \in Experts,
               ContributeAsks(d, b, by, x)
        PROVE  Fit(users'[e])
    BY <1>1, <2>2 DEF ContributeAsks
  <2>3. CASE ContributeLooks(d)
    <3>1. errands[d] \in Errand
      BY <2>3, OnTypedErrand DEF ContributeLooks
    <3>2. [errands[d] EXCEPT !.step = "found"].about = errands[d].about
      BY <3>1 DEF Errand
    <3>3. QED
      BY <1>1, <2>3, <3>2 DEF ContributeLooks
  <2>4. CASE Entrust(d)
    BY <2>4, EntrustHandsOver
  <2>5. CASE GivesUp(d)
    BY <1>1, <2>5 DEF GivesUp
  <2>6. QED
    BY <1>2, <2>1, <2>2, <2>3, <2>4, <2>5 DEF Serve
<1>3. Patch => FALSE
  BY DEF Patch, SetUserActive, UpdateUser, InHand, OnErrand, vars
<1>4. ASSUME NEW b \in Appeals, Move(b), UNCHANGED <<users, errands>>
      PROVE  FALSE
  BY <1>4, MoveHandsToNobody DEF InHand, OnErrand
<1>5. QED
  BY <1>2, <1>3, <1>4 DEF RosterNext

\* Nobody has been sent away at the start.
LEMMA HandsInit == RosterInit => HandsAccounted
BY DEF RosterInit, HandsAccounted, Fit

\* Every step keeps the account: what gets into the hands of an expert does so
\* while she is fit, and what she has when she goes is written down then.
LEMMA HandsStep ==
    TypeOK /\ RosterTypeOK /\ HandsAccounted /\ [RosterNext]_rosterVars => HandsAccounted'
<1> SUFFICES ASSUME TypeOK, RosterTypeOK, HandsAccounted, [RosterNext]_rosterVars,
                    NEW a \in Appeals, NEW e \in Experts, InHand(a, e)', ~Fit(users'[e])
             PROVE  <<a, e>> \in stranded'
  BY DEF HandsAccounted
<1>1. CASE UNCHANGED rosterVars
  BY <1>1 DEF rosterVars, vars, HandsAccounted, InHand, OnErrand
<1>2. CASE RosterNext
  <2>1. InHand(a, e)
    BY <1>2, OnlyTheFitAreFound
  <2>2. Fit(users[e]) \/ <<a, e>> \in stranded
    BY <2>1 DEF HandsAccounted
  <2>3. QED
    BY <1>2, <2>1, <2>2 DEF RosterNext, Strands
<1>3. QED
  BY <1>1, <1>2

\* What an expert who was sent away still has, she was given before she went, or
\* by a request that had found her fit before.
THEOREM SentAwayGetNoMore == RosterSpec => []OnlyDeparturesStrand
<1>1. HandsAccounted => OnlyDeparturesStrand
  BY DEF HandsAccounted, OnlyDeparturesStrand, InHand
<1>2. RosterSpec => []TypeOK
  BY RosterImplementsStore, TypeCorrect, PTL
<1>3. QED
  BY <1>1, <1>2, HandsInit, HandsStep, RosterTypeCorrect, PTL DEF RosterSpec
=============================================================================
