----------------------------- MODULE AutoClose -----------------------------
(***************************************************************************)
(* AutoCloseNoResponse (internal/store/janitor.go), run every hour by the  *)
(* janitor of cmd/server/main.go: it warns the applicant of a waiting      *)
(* appeal in the chat and closes the appeal, all in one transaction, while *)
(* applicants and staff go on.                                             *)
(*                                                                         *)
(* Time is counted in days, as ages that stop growing at Cap, so that time *)
(* itself never stops.  A run of the janitor takes no time: it is short    *)
(* against a day, but long enough for other transactions to slip in.       *)
(* Statuses the janitor does not look at are one status, "working".        *)
(*                                                                         *)
(* A definition named ..._Fault is no part of the model: see AppealStore.  *)
(***************************************************************************)
EXTENDS Integers, AppealDomain

CONSTANTS
    DaysInput,   \* values the admin gives no_response_days (1..90 in the code)
    Cap          \* bound of the model: the age at which ages stop growing

ASSUME AutoCloseAssumption ==
    /\ DaysInput \subseteq Nat \ {0}
    /\ DaysInput # {}
    /\ Cap \in Nat
    /\ \A d \in DaysInput : d < Cap

Never == Cap + 1

VARIABLES
    status,     \* appeals.status
    silent,     \* days since the applicant's last message, or since creation
    warned,     \* days since the first auto-close warning in the chat, or Never
    answering,  \* message handlers between their status change and their INSERT
    days,       \* setting no_response_days
    janitor     \* the janitor's transaction

vars == <<status, silent, warned, answering, days, janitor>>

Waiting == {"needs_clarification", "answer_ready"}
InHand == Waiting \cup {"working"}
AppealStatus == InHand \cup {"closed_no_response", "archived"}

Idle == [step |-> "idle", days |-> 1, warns |-> {}, victims |-> {}]

\* warns: the appeals it has locked and warned; victims: those its second
\* query has found, as of the start of that query.
Run == [step: {"idle", "warned", "looked"}, days: Nat \ {0},
        warns: SUBSET Appeals, victims: SUBSET Appeals]

TypeOK ==
    /\ status \in [Appeals -> AppealStatus]
    /\ silent \in [Appeals -> 0..Cap]
    /\ warned \in [Appeals -> 0..Never]
    /\ answering \subseteq Appeals
    /\ days \in DaysInput
    /\ janitor \in Run

Init ==
    /\ status = [a \in Appeals |-> "working"]
    /\ silent = [a \in Appeals |-> 0]
    /\ warned = [a \in Appeals |-> Never]
    /\ answering = {}
    /\ days \in DaysInput
    /\ janitor = Idle

\* SELECT ... FOR UPDATE of the warning query: until the transaction ends the
\* row can be neither updated nor referred to by a new message.
Locked(a) == janitor.step # "idle" /\ a \in janitor.warns

-----------------------------------------------------------------------------
(* Everybody else                                                          *)

\* Experts, operators, the admin and the applicant's verdict move the appeal
\* between the statuses the janitor looks at and the others.
StaffMoves(a, s) ==
    /\ ~Locked(a)
    /\ status[a] \in InHand
    /\ s \in InHand \cup {"archived"}
    /\ s # status[a]
    /\ status' = [status EXCEPT ![a] = s]
    /\ UNCHANGED <<silent, warned, answering, days, janitor>>

\* handleApplicantPostMessage: needs_clarification -> in_progress first ...
ApplicantAnswers(a) ==
    /\ ~Locked(a)
    /\ status[a] = "needs_clarification"
    /\ status' = [status EXCEPT ![a] = "working"]
    /\ answering' = answering \cup {a}
    /\ UNCHANGED <<silent, warned, days, janitor>>

\* ... and then CreateMessage.  A handler that read another status, perhaps
\* no longer the status by now, has nothing but this to do.
MessageStored(a) ==
    /\ ~Locked(a)
    /\ a \in answering \/ status[a] \in InHand
    /\ silent' = [silent EXCEPT ![a] = 0]
    /\ answering' = answering \ {a}
    /\ UNCHANGED <<status, warned, days, janitor>>

\* The text is invalid, or the client has gone: no message is stored.
AnswerFails(a) ==
    /\ a \in answering
    /\ answering' = answering \ {a}
    /\ UNCHANGED <<status, silent, warned, days, janitor>>

\* handleAdminUpdateSettings, SetNoResponseDays.
SetNoResponseDays(d) ==
    /\ days' = d
    /\ UNCHANGED <<status, silent, warned, answering, janitor>>

Older(age) == IF age >= Cap THEN age ELSE age + 1

\* One day passes; no handler and no run of the janitor takes that long.
Tick ==
    /\ janitor = Idle
    /\ answering = {}
    /\ silent' = [a \in Appeals |-> Older(silent[a])]
    /\ warned' = [a \in Appeals |-> Older(warned[a])]
    /\ UNCHANGED <<status, answering, days, janitor>>

-----------------------------------------------------------------------------
(* One run of the janitor                                                  *)

Overdue_Fault(a, d) == silent[a] > d - 2  \* the warning's cutoff

\* "older than the cutoff".
Overdue(a, d) == silent[a] > d

WarningDue(a, d) ==
    /\ d >= 3
    /\ status[a] \in Waiting
    /\ silent[a] > d - 2
    /\ warned[a] = Never

JanitorWarns_Fault ==  \* no warning due: the run is over
    /\ janitor = Idle
    /\ \E a \in Appeals : WarningDue(a, days)
    /\ janitor' = [step |-> "warned", days |-> days, victims |-> {},
                   warns |-> {a \in Appeals : WarningDue(a, days)}]
    /\ UNCHANGED <<status, silent, warned, answering, days>>

\* GetSettings, then the first half of the transaction.
JanitorWarns ==
    /\ janitor = Idle
    /\ janitor' = [step |-> "warned", days |-> days, victims |-> {},
                   warns |-> {a \in Appeals : WarningDue(a, days)}]
    /\ UNCHANGED <<status, silent, warned, answering, days>>

HasWarning_Fault(a) == TRUE

\* The transaction sees its own warnings.
HasWarning(a) == warned[a] # Never \/ a \in janitor.warns

JanitorLooks ==
    /\ janitor.step = "warned"
    /\ janitor' = [janitor EXCEPT
                     !.step = "looked",
                     !.victims = {a \in Appeals : /\ status[a] \in Waiting
                                                  /\ Overdue(a, janitor.days)
                                                  /\ HasWarning(a)}]
    /\ UNCHANGED <<status, silent, warned, answering, days>>

JanitorCloses_Fault ==  \* the locked row's status is not looked at again
    /\ janitor.step = "looked"
    /\ status' = [a \in Appeals |->
                    IF a \in janitor.victims THEN "closed_no_response" ELSE status[a]]
    /\ warned' = [a \in Appeals |-> IF a \in janitor.warns THEN 0 ELSE warned[a]]
    /\ janitor' = Idle
    /\ UNCHANGED <<silent, answering, days>>

\* Each row the query found is locked, its status looked at again (its
\* messages are not), updated; then the commit shows it all.
JanitorCloses ==
    /\ janitor.step = "looked"
    /\ status' = [a \in Appeals |->
                    IF a \in janitor.victims /\ status[a] \in Waiting
                    THEN "closed_no_response" ELSE status[a]]
    /\ warned' = [a \in Appeals |-> IF a \in janitor.warns THEN 0 ELSE warned[a]]
    /\ janitor' = Idle
    /\ UNCHANGED <<silent, answering, days>>

\* An error, or the server stops: the transaction is rolled back.
RollsBack ==
    /\ janitor # Idle
    /\ janitor' = Idle
    /\ UNCHANGED <<status, silent, warned, answering, days>>

Next ==
    \/ \E a \in Appeals :
           \/ \E s \in AppealStatus : StaffMoves(a, s)
           \/ ApplicantAnswers(a)
           \/ MessageStored(a)
           \/ AnswerFails(a)
    \/ \E d \in DaysInput : SetNoResponseDays(d)
    \/ Tick
    \/ JanitorWarns
    \/ JanitorLooks
    \/ JanitorCloses
    \/ RollsBack

Spec == Init /\ [][Next]_vars

\* Days pass; the ticker starts a run every hour, and not every run fails;
\* a message handler comes to its end.
Fairness ==
    /\ WF_vars(Tick)
    /\ WF_vars(JanitorWarns)
    /\ SF_vars(JanitorLooks)
    /\ SF_vars(JanitorCloses)
    /\ \A a \in Appeals : WF_vars(AnswerFails(a))

FairSpec == Spec /\ Fairness

-----------------------------------------------------------------------------
(* Properties                                                              *)

Closing(a) == status[a] # "closed_no_response" /\ status'[a] = "closed_no_response"

\* Nobody is closed out without a word: the chat of an appeal the janitor has
\* closed holds the warning.
ClosedWasWarned ==
    \A a \in Appeals : status[a] = "closed_no_response" => warned[a] # Never

\* The janitor closes no appeal before its time, be the setting raised, or a
\* message written, while it runs: only a message of the same day can be missed.
NotBeforeTime ==
    [][\A a \in Appeals :
           Closing(a) => silent[a] > janitor.days \/ silent[a] = 0]_vars

\* It closes nothing that staff or applicant have moved on meanwhile.
ClosesOnlyWaiting ==
    [][\A a \in Appeals : Closing(a) => status[a] \in Waiting]_vars

\* An applicant who never comes back is not waited for for ever.
NotWaitedForEver ==
    \A a \in Appeals : []<>~(status[a] \in Waiting /\ silent[a] = Cap)

-----------------------------------------------------------------------------
(* A claim of the code's comments that does not hold                        *)

\* "... guarantees a pause of at least 2 days between warning and closing".
TwoDaysNotice ==
    [][\A a \in Appeals : Closing(a) => warned[a] \in 2..Cap]_vars
=============================================================================
