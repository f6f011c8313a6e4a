--------------------------- MODULE JanitorProofs ---------------------------
(***************************************************************************)
(* Proofs about the two things the janitor of cmd/server/main.go does to   *)
(* an applicant who is silent: closing (AutoClose), for any set of         *)
(* appeals, any limits of days and any bound on ages; and notifying        *)
(* (PushDelivery), for any endpoints, senders and times.                   *)
(***************************************************************************)
EXTENDS AutoClose, PushDelivery, TLAPS

USE AutoCloseAssumption

\* The initial state is well typed.
LEMMA TypeInit == Init => TypeOK
BY DEF Init, TypeOK, AppealStatus, InHand, Never, Idle, Run

\* An age stays an age.
LEMMA OlderAge ==
    /\ \A age \in 0..Cap : Older(age) \in 0..Cap
    /\ \A age \in 0..Never : Older(age) \in 0..Never /\ (age # Never => Older(age) # Never)
    /\ Older(Never) = Never
BY DEF Older, Never

\* Neither staff, applicants, time nor the janitor leaves a variable ill typed.
LEMMA TypeStep == TypeOK /\ [Next]_vars => TypeOK'
<1> SUFFICES ASSUME TypeOK, [Next]_vars PROVE TypeOK'
  OBVIOUS
<1> USE DEF TypeOK
<1>1. ASSUME NEW a \in Appeals, NEW s \in AppealStatus, StaffMoves(a, s) PROVE TypeOK'
  BY <1>1 DEF StaffMoves
<1>2. ASSUME NEW a \in Appeals, ApplicantAnswers(a) PROVE TypeOK'
  BY <1>2 DEF ApplicantAnswers, AppealStatus, InHand
<1>3. ASSUME NEW a \in Appeals, MessageStored(a) \/ AnswerFails(a) PROVE TypeOK'
  BY <1>3 DEF MessageStored, AnswerFails
<1>4. ASSUME NEW d \in DaysInput, SetNoResponseDays(d) PROVE TypeOK'
  BY <1>4 DEF SetNoResponseDays
<1>5. ASSUME Tick PROVE TypeOK'
  BY <1>5, OlderAge DEF Tick
<1>6. ASSUME JanitorWarns PROVE TypeOK'
  BY <1>6 DEF JanitorWarns, Run
<1>7. ASSUME JanitorLooks PROVE TypeOK'
  BY <1>7 DEF JanitorLooks, Run
<1>8. ASSUME JanitorCloses PROVE TypeOK'
  <2>1. Idle \in Run
    BY DEF Idle, Run
  <2>2. 0 \in 0..Never
    BY DEF Never
  <2>3. QED
    BY <1>8, <2>1, <2>2 DEF JanitorCloses, AppealStatus
<1>9. ASSUME RollsBack PROVE TypeOK'
  BY <1>9 DEF RollsBack, Idle, Run
<1>10. CASE UNCHANGED vars
  BY <1>10 DEF vars
<1>11. QED
  BY <1>1, <1>2, <1>3, <1>4, <1>5, <1>6, <1>7, <1>8, <1>9, <1>10 DEF Next

\* The model is well typed for every bound.
THEOREM TypeCorrect == Spec => []TypeOK
BY TypeInit, TypeStep, PTL DEF Spec

-----------------------------------------------------------------------------
(* No closing without a warning: the inductive part is what the janitor's  *)
(* second query knows of its victims while others go on.                   *)

VictimsAreWarned ==
    \A a \in janitor.victims : warned[a] # Never \/ a \in janitor.warns

WInv == TypeOK /\ ClosedWasWarned /\ VictimsAreWarned

\* Every step keeps: what is closed, or about to be, has been warned.
LEMMA WInvStep == WInv /\ [Next]_vars => WInv'
<1> SUFFICES ASSUME WInv, [Next]_vars PROVE ClosedWasWarned' /\ VictimsAreWarned'
  BY TypeStep DEF WInv
<1> USE DEF WInv, TypeOK, ClosedWasWarned, VictimsAreWarned
<1>1. ASSUME NEW a \in Appeals, NEW s \in AppealStatus, StaffMoves(a, s)
      PROVE  ClosedWasWarned' /\ VictimsAreWarned'
  BY <1>1 DEF StaffMoves, InHand, Waiting
<1>2. ASSUME NEW a \in Appeals,
             ApplicantAnswers(a) \/ MessageStored(a) \/ AnswerFails(a)
      PROVE  ClosedWasWarned' /\ VictimsAreWarned'
  BY <1>2 DEF ApplicantAnswers, MessageStored, AnswerFails
<1>3. ASSUME NEW d \in DaysInput, SetNoResponseDays(d)
      PROVE  ClosedWasWarned' /\ VictimsAreWarned'
  BY <1>3 DEF SetNoResponseDays
<1>4. ASSUME Tick PROVE ClosedWasWarned' /\ VictimsAreWarned'
  BY <1>4, OlderAge DEF Tick, Idle
<1>5. ASSUME JanitorWarns PROVE ClosedWasWarned' /\ VictimsAreWarned'
  BY <1>5 DEF JanitorWarns
<1>6. ASSUME JanitorLooks PROVE ClosedWasWarned' /\ VictimsAreWarned'
  BY <1>6 DEF JanitorLooks, HasWarning, Run
<1>7. ASSUME JanitorCloses PROVE ClosedWasWarned' /\ VictimsAreWarned'
  BY <1>7 DEF JanitorCloses, Idle, Never
<1>8. ASSUME RollsBack PROVE ClosedWasWarned' /\ VictimsAreWarned'
  BY <1>8 DEF RollsBack, Idle
<1>9. CASE UNCHANGED vars
  BY <1>9 DEF vars
<1>10. QED
  BY <1>1, <1>2, <1>3, <1>4, <1>5, <1>6, <1>7, <1>8, <1>9 DEF Next

\* No appeal is ever closed by the janitor whose chat does not hold the warning.
THEOREM NeverClosedUnwarned == Spec => []ClosedWasWarned
<1>1. Init => WInv
  BY TypeInit DEF Init, WInv, ClosedWasWarned, VictimsAreWarned, Idle
<1>2. QED
  BY <1>1, WInvStep, PTL DEF Spec, WInv

\* What staff or applicant have moved on while the janitor ran, it leaves alone.
THEOREM OnlyWaitingAreClosed == Spec => ClosesOnlyWaiting
<1>1. TypeOK /\ [Next]_vars => [\A a \in Appeals : Closing(a) => status[a] \in Waiting]_vars
  <2> SUFFICES ASSUME TypeOK, Next, NEW b \in Appeals, Closing(b)
               PROVE  status[b] \in Waiting
    OBVIOUS
  <2>1. ASSUME NEW a \in Appeals, NEW s \in AppealStatus, StaffMoves(a, s)
        PROVE  status[b] \in Waiting
    BY <2>1 DEF StaffMoves, TypeOK, Closing, InHand, Waiting
  <2>2. ASSUME NEW a \in Appeals, ApplicantAnswers(a) PROVE status[b] \in Waiting
    BY <2>2 DEF ApplicantAnswers, TypeOK, Closing
  <2>3. CASE JanitorCloses
    BY <2>3 DEF JanitorCloses, TypeOK, Closing
  <2>4. CASE UNCHANGED status
    BY <2>4 DEF Closing
  <2>5. QED
    BY <2>1, <2>2, <2>3, <2>4
    DEF Next, MessageStored, AnswerFails, SetNoResponseDays, Tick, JanitorWarns,
        JanitorLooks, RollsBack
<1>2. QED
  BY <1>1, TypeCorrect, PTL DEF Spec, ClosesOnlyWaiting

-----------------------------------------------------------------------------
(* No closing before its time: the setting is read once, no day passes     *)
(* while the janitor runs, and a message can only make an age zero.        *)

VictimsWereOverdue ==
    \A a \in janitor.victims : silent[a] > janitor.days \/ silent[a] = 0

\* Every step keeps: a victim was overdue, or has written since.
LEMMA OverdueStep == TypeOK /\ VictimsWereOverdue /\ [Next]_vars => VictimsWereOverdue'
<1> SUFFICES ASSUME TypeOK, VictimsWereOverdue, [Next]_vars PROVE VictimsWereOverdue'
  OBVIOUS
<1> USE DEF VictimsWereOverdue, TypeOK
<1>1. ASSUME NEW a \in Appeals, MessageStored(a) PROVE VictimsWereOverdue'
  BY <1>1 DEF MessageStored, Run
<1>2. CASE Tick
  BY <1>2 DEF Tick, Idle
<1>3. CASE JanitorWarns
  BY <1>3 DEF JanitorWarns
<1>4. CASE JanitorLooks
  BY <1>4 DEF JanitorLooks, Overdue, Run
<1>5. CASE JanitorCloses \/ RollsBack
  BY <1>5 DEF JanitorCloses, RollsBack, Idle
<1>6. CASE UNCHANGED <<silent, janitor>>
  BY <1>6
<1>7. QED
  BY <1>1, <1>2, <1>3, <1>4, <1>5, <1>6
  DEF Next, StaffMoves, ApplicantAnswers, AnswerFails, SetNoResponseDays, vars

\* A raised setting or a late message never gets an appeal closed too soon: what
\* is closed had been silent for the days the run of the janitor began with.
THEOREM NeverClosedEarly == Spec => NotBeforeTime
<1>1. Init => VictimsWereOverdue
  <2>1. Idle.victims = {}
    BY DEF Idle
  <2>2. QED
    BY <2>1 DEF Init, VictimsWereOverdue
<1>2. VictimsWereOverdue /\ TypeOK /\ [Next]_vars
      => [\A a \in Appeals :
            Closing(a) => silent[a] > janitor.days \/ silent[a] = 0]_vars
  <2> SUFFICES ASSUME VictimsWereOverdue, TypeOK, Next, NEW b \in Appeals, Closing(b)
               PROVE  silent[b] > janitor.days \/ silent[b] = 0
    OBVIOUS
  <2>1. ASSUME NEW a \in Appeals, NEW s \in AppealStatus, StaffMoves(a, s) PROVE FALSE
    BY <2>1 DEF StaffMoves, TypeOK, Closing, InHand, Waiting
  <2>2. ASSUME NEW a \in Appeals, ApplicantAnswers(a) PROVE FALSE
    BY <2>2 DEF ApplicantAnswers, TypeOK, Closing
  <2>3. CASE JanitorCloses
    BY <2>3 DEF JanitorCloses, TypeOK, Closing, VictimsWereOverdue
  <2>4. CASE UNCHANGED status
    BY <2>4 DEF Closing
  <2>5. QED
    BY <2>1, <2>2, <2>3, <2>4
    DEF Next, MessageStored, AnswerFails, SetNoResponseDays, Tick, JanitorWarns,
        JanitorLooks, RollsBack
<1>3. QED
  BY <1>1, <1>2, OverdueStep, TypeCorrect, PTL DEF Spec, NotBeforeTime

-----------------------------------------------------------------------------
(* Notifying                                                               *)

USE PushAssumption

SenderState == [appeal : Appeals \cup {Nowhere}, todo : SUBSET Endpoints,
                dead : SUBSET Endpoints, left : 0..Round]

Tried == [began : 0..Round, slow : SUBSET Endpoints, late : SUBSET Endpoints]

\* Only the sender whose step it is changes its state.
LEMMA OneSender ==
    ASSUME PushTypeOK, NEW s \in Senders, NEW state \in SenderState, Become(s, state)
    PROVE  /\ senders' \in [Senders -> SenderState]
           /\ senders'[s] = state
           /\ \A x \in Senders \ {s} : senders'[x] = senders[x]
BY DEF PushTypeOK, Become, SenderState

\* What a try costs is no more than is left.
LEMMA CostIsLeft ==
    ASSUME PushTypeOK, NEW s \in Senders, NEW cost \in 0..CostsAtMost(s)
    PROVE  /\ cost \in Nat /\ cost <= senders[s].left /\ cost <= Timeout
           /\ senders[s].left - cost \in 0..Round
           /\ s = Janitor => cost = 0
<1>1. senders[s].left \in 0..Round
  BY DEF PushTypeOK
<1>2. QED
  BY <1>1 DEF CostsAtMost

\* A try takes its endpoint off the list and its cost off the time.
LEMMA OneTry ==
    ASSUME PushTypeOK, NEW s \in Senders, NEW ep \in Endpoints, NEW cost \in Nat,
           NEW gone \in SUBSET Endpoints, Tries(s, ep, cost, gone)
    PROVE  /\ cost <= Timeout /\ (s = Janitor => cost = 0)
           /\ senders' \in [Senders -> SenderState]
           /\ tried' \in [Senders -> Tried]
           /\ senders'[s].appeal = senders[s].appeal
           /\ senders'[s].todo = senders[s].todo \ {ep}
           /\ senders'[s].left = senders[s].left - cost
           /\ senders'[s].dead = senders[s].dead \cup gone
           /\ tried'[s].began = tried[s].began
           /\ tried'[s].slow = tried[s].slow \cup Slow(ep, cost)
           /\ tried'[s].late = tried[s].late
           /\ \A x \in Senders \ {s} : senders'[x] = senders[x] /\ tried'[x] = tried[x]
<1>0. senders[s] \in SenderState /\ tried[s] \in Tried
  BY DEF PushTypeOK, SenderState, Tried
<1>1. /\ cost \in Nat /\ cost <= Timeout /\ (s = Janitor => cost = 0)
      /\ senders[s].left - cost \in 0..Round
  BY CostIsLeft DEF Tries
<1> DEFINE state == [appeal |-> senders[s].appeal, todo |-> senders[s].todo \ {ep},
                     dead |-> senders[s].dead \cup gone, left |-> senders[s].left - cost]
           record == [tried[s] EXCEPT !.slow = @ \cup Slow(ep, cost)]
<1>2. /\ state \in SenderState
      /\ state.appeal = senders[s].appeal /\ state.todo = senders[s].todo \ {ep}
      /\ state.left = senders[s].left - cost /\ state.dead = senders[s].dead \cup gone
  BY <1>0, <1>1 DEF SenderState
<1>3. /\ record \in Tried
      /\ record.began = tried[s].began /\ record.late = tried[s].late
      /\ record.slow = tried[s].slow \cup Slow(ep, cost)
  BY <1>0 DEF Tried, Slow
<1>4. Become(s, state) /\ tried' = [tried EXCEPT ![s] = record]
  BY DEF Tries
<1> HIDE DEF state, record
<1>5. /\ tried' \in [Senders -> Tried] /\ tried'[s] = record
      /\ \A x \in Senders \ {s} : tried'[x] = tried[x]
  BY <1>3, <1>4 DEF PushTypeOK, Tried
<1>6. QED
  BY <1>1, <1>2, <1>3, <1>4, <1>5, OneSender

\* No step of a browser, a sender or the purge leaves a variable ill typed.
LEMMA PushTypeStep ==
    ASSUME PushTypeOK, [PushNext]_pushVars
    PROVE  PushTypeOK'
<1> USE DEF PushTypeOK
<1>0. NotSending \in SenderState /\ NothingTried \in Tried
  BY DEF NotSending, NothingTried, SenderState, Tried
<1>1. ASSUME NEW a \in Appeals, NEW ep \in Endpoints,
             Subscribe(a, ep) \/ Unsubscribe(a, ep)
      PROVE  PushTypeOK'
  <2>1. CASE Subscribe(a, ep)
    BY <2>1 DEF Subscribe
  <2>2. CASE Unsubscribe(a, ep)
    BY <2>2 DEF Unsubscribe, Deleted
  <2>3. QED
    BY <1>1, <2>1, <2>2
<1>2. ASSUME NEW ep \in Endpoints, Revoke(ep) PROVE PushTypeOK'
  BY <1>2 DEF Revoke
<1>3. ASSUME NEW a \in Appeals, Erase(a) PROVE PushTypeOK'
  BY <1>3 DEF Erase
<1>4. ASSUME NEW s \in Senders, Send(s) PROVE PushTypeOK'
  <2>0. senders[s] \in SenderState /\ tried[s] \in Tried
    BY DEF SenderState, Tried
  <2>1. ASSUME NEW a \in Appeals, NEW time \in 1..Round, Starts(s, a, time)
        PROVE  PushTypeOK'
    BY <2>1 DEF Starts, Become, NothingTried
  <2>2. ASSUME NEW ep \in Endpoints, NEW cost \in Nat, NEW gone \in SUBSET Endpoints,
               Tries(s, ep, cost, gone)
        PROVE  PushTypeOK'
    BY <2>2, OneTry DEF Tries, SenderState, Tried
  <2>3. ASSUME NEW ep \in Endpoints, NEW cost \in 0..Round,
               SaysGone(s, ep, cost) \/ IsSentOrFails(s, ep, cost)
        PROVE  PushTypeOK'
    BY <2>2, <2>3 DEF SaysGone, IsSentOrFails
  <2>4. ASSUME NEW ep \in Endpoints, TooLate(s, ep) PROVE PushTypeOK'
    <3>1. [senders[s] EXCEPT !.todo = @ \ {ep}] \in SenderState
      BY <2>0 DEF SenderState
    <3>2. [tried[s] EXCEPT !.late = @ \cup {ep}] \in Tried
      BY <2>0 DEF Tried
    <3>3. QED
      BY <2>4, <3>1, <3>2, OneSender DEF TooLate, SenderState, Tried
  <2>5. ASSUME NEW ep \in Endpoints, DeletesDead(s, ep) PROVE PushTypeOK'
    <3>1. [senders[s] EXCEPT !.dead = @ \ {ep}] \in SenderState
      BY <2>0 DEF SenderState
    <3>2. rows' \in [Endpoints -> Appeals \cup {Nowhere}]
      BY <2>5 DEF DeletesDead, Deleted
    <3>3. QED
      BY <2>5, <3>1, <3>2, OneSender DEF DeletesDead, SenderState
  <2>6. CASE Ends(s) \/ Dies(s)
    <3>1. Become(s, NotSending) /\ tried' = [tried EXCEPT ![s] = NothingTried]
          /\ UNCHANGED <<rows, erased, revoked, wanted>>
      BY <2>6 DEF Ends, Dies
    <3>2. senders' \in [Senders -> SenderState]
      BY <1>0, <3>1, OneSender
    <3>3. tried' \in [Senders -> Tried]
      BY <1>0, <3>1 DEF Tried
    <3>4. QED
      BY <3>1, <3>2, <3>3 DEF SenderState, Tried
  <2>7. QED
    BY <1>4, <2>1, <2>3, <2>4, <2>5, <2>6 DEF Send
<1>5. CASE UNCHANGED pushVars
  BY <1>5 DEF pushVars
<1>6. QED
  BY <1>1, <1>2, <1>3, <1>4, <1>5 DEF PushNext

\* The initial state is well typed.
LEMMA PushTypeInit ==
    ASSUME PushInit
    PROVE  PushTypeOK
BY DEF PushInit, PushTypeOK, NotSending, NothingTried

\* A sender works on its own list and its own record only.
LEMMA OthersSend ==
    ASSUME PushTypeOK, NEW s \in Senders, Send(s), NEW x \in Senders \ {s}
    PROVE  senders'[x] = senders[x] /\ tried'[x] = tried[x]
BY DEF PushTypeOK, Send, Starts, SaysGone, IsSentOrFails, Tries, TooLate,
       DeletesDead, Ends, Dies, Become

\* Whom a sender counts as gone has given its registration up, for good.
DeadAreRevoked == \A s \in Senders : senders[s].dead \subseteq revoked

\* Every step keeps: no sender takes a reachable browser for one that is gone.
LEMMA DeadAreRevokedStep ==
    ASSUME PushTypeOK, DeadAreRevoked, [PushNext]_pushVars
    PROVE  DeadAreRevoked'
<1> USE DEF DeadAreRevoked
<1>1. ASSUME NEW s \in Senders, Send(s) PROVE DeadAreRevoked'
  <2>1. revoked' = revoked
    BY <1>1 DEF Send, Starts, SaysGone, IsSentOrFails, Tries, TooLate,
                DeletesDead, Ends, Dies
  <2>2. ASSUME NEW x \in Senders PROVE senders'[x].dead \subseteq revoked
    <3>1. CASE x # s
      BY <1>1, <3>1, OthersSend
    <3>2. ASSUME x = s, NEW ep \in Endpoints, NEW cost \in 0..Round,
                 SaysGone(s, ep, cost) \/ IsSentOrFails(s, ep, cost)
          PROVE  senders'[x].dead \subseteq revoked
      <4>1. \E gone \in SUBSET Endpoints : gone \subseteq revoked /\ Tries(s, ep, cost, gone)
        BY <3>2 DEF SaysGone, IsSentOrFails
      <4>2. ASSUME NEW gone \in SUBSET Endpoints, gone \subseteq revoked,
                   Tries(s, ep, cost, gone)
            PROVE  senders'[s].dead \subseteq revoked
        <5>1. senders'[s].dead = senders[s].dead \cup gone
          BY <4>2, OneTry
        <5>2. QED
          BY <4>2, <5>1
      <4>3. QED
        BY <3>2, <4>1, <4>2
    <3>3. ASSUME x = s, NEW ep \in Endpoints, TooLate(s, ep) \/ DeletesDead(s, ep)
          PROVE  senders'[x].dead \subseteq revoked
      <4>1. CASE TooLate(s, ep)
        BY <3>3, <4>1 DEF TooLate, Become, PushTypeOK
      <4>2. CASE DeletesDead(s, ep)
        BY <3>3, <4>2 DEF DeletesDead, Become, PushTypeOK
      <4>3. QED
        BY <3>3, <4>1, <4>2
    <3>4. CASE x = s /\ (Ends(s) \/ Dies(s)
                         \/ \E a \in Appeals, time \in 1..Round : Starts(s, a, time))
      BY <3>4 DEF Ends, Dies, Starts, Become, NotSending, PushTypeOK
    <3>5. QED
      BY <1>1, <3>1, <3>2, <3>3, <3>4 DEF Send
  <2>3. QED
    BY <2>1, <2>2
<1>2. CASE senders' = senders /\ revoked \subseteq revoked'
  BY <1>2
<1>3. QED
  BY <1>1, <1>2 DEF PushNext, Subscribe, Unsubscribe, Revoke, Erase,
                    pushVars

\* Every step keeps: a reachable browser is subscribed where it last asked to be.
LEMMA ReachableStep ==
    ASSUME PushTypeOK, DeadAreRevoked, ReachableStaySubscribed,
           [PushNext]_pushVars
    PROVE  ReachableStaySubscribed'
<1> USE DEF ReachableStaySubscribed, PushTypeOK
<1>1. ASSUME NEW a \in Appeals, NEW ep \in Endpoints, Subscribe(a, ep)
      PROVE  ReachableStaySubscribed'
  BY <1>1 DEF Subscribe
<1>2. ASSUME NEW a \in Appeals, NEW ep \in Endpoints, Unsubscribe(a, ep)
      PROVE  ReachableStaySubscribed'
  BY <1>2 DEF Unsubscribe, Deleted
<1>3. ASSUME NEW ep \in Endpoints, Revoke(ep)
      PROVE  ReachableStaySubscribed'
  BY <1>3 DEF Revoke
<1>4. ASSUME NEW a \in Appeals, Erase(a) PROVE ReachableStaySubscribed'
  BY <1>4 DEF Erase
<1>5. ASSUME NEW s \in Senders, NEW ep \in Endpoints, DeletesDead(s, ep)
      PROVE  ReachableStaySubscribed'
  <2>1. ep \in revoked
    BY <1>5 DEF DeletesDead, DeadAreRevoked
  <2>2. \A x \in Endpoints \ {ep} : rows'[x] = rows[x]
    <3>1. CASE rows' = Deleted(senders[s].appeal, ep)
      BY <3>1 DEF Deleted
    <3>2. CASE rows' = rows
      BY <3>2
    <3>3. QED
      BY <1>5, <3>1, <3>2 DEF DeletesDead
  <2>3. QED
    BY <1>5, <2>1, <2>2 DEF DeletesDead
<1>6. CASE UNCHANGED <<rows, revoked, wanted>>
  BY <1>6
<1>7. QED
  BY <1>1, <1>2, <1>3, <1>4, <1>5, <1>6
  DEF PushNext, Send, Starts, SaysGone, IsSentOrFails, Tries, TooLate,
      Ends, Dies, pushVars

\* Subscriptions and senders are well typed for every number of them.
THEOREM PushTypeCorrect == PushSpec => []PushTypeOK
<1>1. PushInit => PushTypeOK
  BY PushTypeInit
<1>2. PushTypeOK /\ [PushNext]_pushVars => PushTypeOK'
  BY PushTypeStep
<1>3. QED
  BY <1>1, <1>2, PTL DEF PushSpec

\* Neither another appeal's session, nor a sender with an old list, nor the purge
\* of another appeal unsubscribes a browser that can be reached.
THEOREM ReachableAreNeverDropped ==
    PushSpec => []ReachableStaySubscribed
<1>1. PushInit => PushTypeOK /\ DeadAreRevoked /\ ReachableStaySubscribed
  BY PushTypeInit DEF PushInit, DeadAreRevoked, ReachableStaySubscribed, NotSending
<1>2. PushTypeOK /\ DeadAreRevoked /\ ReachableStaySubscribed
          /\ [PushNext]_pushVars
      => PushTypeOK' /\ DeadAreRevoked' /\ ReachableStaySubscribed'
  BY PushTypeStep, DeadAreRevokedStep, ReachableStep
<1>3. QED
  BY <1>1, <1>2, PTL DEF PushSpec

-----------------------------------------------------------------------------
(* The time of a round: as long as one endpoint at most has been slow, what *)
(* is left of it is what it began with less one timeout; the janitor's is  *)
(* never used up.                                                          *)

InRound(s) ==
    /\ senders[s].appeal = Nowhere => senders[s] = NotSending /\ tried[s] = NothingTried
    /\ tried[s].slow \cap senders[s].todo = {}
    /\ senders[s].appeal # Nowhere =>
           /\ s = Janitor => senders[s].left > 0
           /\ tried[s].slow = {} => senders[s].left = tried[s].began
           /\ (\A x, y \in tried[s].slow : x = y)
                  => senders[s].left >= tried[s].began - Timeout
    /\ tried[s].late # {} => senders[s].appeal # Nowhere /\ senders[s].left = 0

\* Every step of a sender keeps the account of its time.
LEMMA SendInRound ==
    ASSUME PushTypeOK, NEW s \in Senders, InRound(s), Send(s)
    PROVE  InRound(s)'
<1>0. senders[s] \in SenderState /\ tried[s] \in Tried
  BY DEF PushTypeOK, SenderState, Tried
<1>1. ASSUME NEW a \in Appeals, NEW time \in 1..Round, Starts(s, a, time)
      PROVE  InRound(s)'
  <2>1. /\ senders'[s].appeal = a /\ senders'[s].left = time
        /\ tried'[s].began = time /\ tried'[s].slow = {} /\ tried'[s].late = {}
    BY <1>1 DEF Starts, Become, PushTypeOK, NothingTried
  <2>2. QED
    BY <2>1 DEF InRound
<1>2. ASSUME NEW ep \in Endpoints, NEW cost \in Nat, NEW gone \in SUBSET Endpoints,
             Tries(s, ep, cost, gone)
      PROVE  InRound(s)'
  <2>1. /\ cost \in Nat /\ cost <= Timeout /\ (s = Janitor => cost = 0)
        /\ senders'[s].appeal = senders[s].appeal
        /\ senders'[s].todo = senders[s].todo \ {ep}
        /\ senders'[s].left = senders[s].left - cost
        /\ tried'[s].began = tried[s].began
        /\ tried'[s].slow = tried[s].slow \cup Slow(ep, cost)
        /\ tried'[s].late = tried[s].late
    BY <1>2, OneTry
  <2>2. /\ senders[s].appeal # Nowhere /\ senders[s].left > 0
        /\ ep \in senders[s].todo /\ tried[s].late = {} /\ ep \notin tried[s].slow
    BY <1>2 DEF Tries, InRound, NotSending
  <2>3. senders[s].left \in Nat /\ tried[s].began \in Nat
    BY <1>0 DEF SenderState, Tried
  <2>4. tried'[s].slow \cap senders'[s].todo = {}
    BY <2>1 DEF InRound, Slow
  <2>5. CASE cost = 0
    BY <2>1, <2>2, <2>3, <2>4, <2>5 DEF InRound, Slow
  <2>6. CASE cost > 0
    <3>1. tried'[s].slow # {} /\ s # Janitor
      BY <2>1, <2>6 DEF Slow
    <3>2. ASSUME \A x, y \in tried'[s].slow : x = y
          PROVE  senders'[s].left >= tried'[s].began - Timeout
      <4>1. tried[s].slow = {}
        BY <2>1, <2>2, <2>6, <3>2 DEF Slow
      <4>2. QED
        BY <2>1, <2>2, <2>3, <4>1 DEF InRound
    <3>3. QED
      BY <2>1, <2>2, <2>4, <3>1, <3>2 DEF InRound
  <2>7. QED
    BY <2>1, <2>5, <2>6
<1>3. ASSUME NEW ep \in Endpoints, TooLate(s, ep) \/ DeletesDead(s, ep)
      PROVE  InRound(s)'
  <2>1. /\ senders'[s].appeal = senders[s].appeal
        /\ senders'[s].left = senders[s].left
        /\ senders'[s].todo \subseteq senders[s].todo
        /\ tried'[s].began = tried[s].began /\ tried'[s].slow = tried[s].slow
        /\ tried'[s].late = tried[s].late \/ senders[s].left = 0
    <3>1. CASE TooLate(s, ep)
      BY <1>0, <3>1 DEF TooLate, Become, PushTypeOK, SenderState, Tried
    <3>2. CASE DeletesDead(s, ep)
      BY <1>0, <3>2 DEF DeletesDead, Become, PushTypeOK, SenderState
    <3>3. QED
      BY <1>3, <3>1, <3>2
  <2>2. senders[s].appeal # Nowhere
    BY <1>3 DEF TooLate, DeletesDead, InRound, NotSending
  <2>3. QED
    BY <2>1, <2>2 DEF InRound
<1>4. CASE Ends(s) \/ Dies(s)
  <2>1. senders'[s] = NotSending /\ tried'[s] = NothingTried
    BY <1>4 DEF Ends, Dies, Become, PushTypeOK
  <2>2. QED
    BY <2>1 DEF InRound, NotSending, NothingTried
<1>5. ASSUME NEW ep \in Endpoints, NEW cost \in 0..Round,
             SaysGone(s, ep, cost) \/ IsSentOrFails(s, ep, cost)
      PROVE  InRound(s)'
  <2>1. \E gone \in SUBSET Endpoints : Tries(s, ep, cost, gone)
    BY <1>5 DEF SaysGone, IsSentOrFails
  <2>2. QED
    BY <1>2, <2>1
<1>6. QED
  BY <1>1, <1>3, <1>4, <1>5 DEF Send

\* Every step keeps the account of every sender's time.
LEMMA InRoundStep ==
    ASSUME PushTypeOK, \A s \in Senders : InRound(s), [PushNext]_pushVars
    PROVE  \A s \in Senders : InRound(s)'
<1> SUFFICES ASSUME NEW x \in Senders PROVE InRound(x)'
  OBVIOUS
<1>1. ASSUME NEW s \in Senders, Send(s) PROVE InRound(x)'
  <2>1. CASE x = s
    BY <1>1, <2>1, SendInRound
  <2>2. CASE x # s
    BY <1>1, <2>2, OthersSend DEF InRound
  <2>3. QED
    BY <2>1, <2>2
<1>2. CASE UNCHANGED <<senders, tried>>
  BY <1>2 DEF InRound
<1>3. QED
  BY <1>1, <1>2 DEF PushNext, Subscribe, Unsubscribe, Revoke, Erase, pushVars

\* Nobody is given up untried on one endpoint's account, however long it takes, and
\* nobody ever by the janitor.
THEOREM OneEndpointCostsOneTimeout == PushSpec => []OneEndpointBlocksNobody
<1>1. PushInit => PushTypeOK /\ \A s \in Senders : InRound(s)
  BY PushTypeInit DEF PushInit, InRound, NotSending, NothingTried
<1>2. PushTypeOK /\ (\A s \in Senders : InRound(s)) /\ [PushNext]_pushVars
      => PushTypeOK' /\ (\A s \in Senders : InRound(s))'
  BY PushTypeStep, InRoundStep
<1>3. PushTypeOK /\ (\A s \in Senders : InRound(s)) => OneEndpointBlocksNobody
  <2> SUFFICES ASSUME PushTypeOK, NEW s \in Senders, InRound(s), tried[s].late # {}
               PROVE  /\ s # Janitor
                      /\ tried[s].began > Timeout => \E x, y \in tried[s].slow : x # y
    BY DEF OneEndpointBlocksNobody
  <2>1. senders[s].appeal # Nowhere /\ senders[s].left = 0
    BY DEF InRound
  <2>2. tried[s].began \in Nat
    BY DEF PushTypeOK
  <2>3. QED
    BY <2>1, <2>2 DEF InRound
<1>4. QED
  BY <1>1, <1>2, <1>3, PTL DEF PushSpec
=============================================================================
