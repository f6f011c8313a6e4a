------------------------------- MODULE Roster -------------------------------
(***************************************************************************)
(* The experts next to the appeals: which of them the admin lets work, and *)
(* how an appeal comes to one (handleAssign, handleAddContributor).  The   *)
(* advice the operator is given about whom to choose changes no state and  *)
(* is left out.                                                            *)
(*                                                                         *)
(* A handler looks an expert up in the table users and entrusts the appeal *)
(* to her in a later transaction, which does not look again.  The other    *)
(* transactions on an appeal are those of AppealStore that change where it *)
(* stands; who may call them is the business of AppealHandlers.            *)
(*                                                                         *)
(* A definition named ..._Fault is no part of the model: see AppealStore.  *)
(***************************************************************************)
EXTENDS AppealStore, FiniteSets

CONSTANTS
    Desks,      \* requests of this kind served at one time (bound of the model)
    Groups      \* values of specialist_group

VARIABLES
    users,      \* table users: the rows of the experts
    errands,    \* what the request of each desk is about, and how far it is
    \* History variable: read by no action, only by properties.
    stranded    \* <<a, e>>: e was sent away with a in her hands, or on its way

rosterVars == <<vars, users, errands, stranded>>

User == [active : BOOLEAN, role : {"expert", "other"}, group : Groups]

Errand == [step : {"asked", "found"}, kind : {"assign", "contribute"},
           appeal : Appeals, about : Experts, byAdmin : BOOLEAN]

Idle == [step |-> "idle"]

OnErrand(d) == errands[d] # Idle

RosterTypeOK ==
    /\ users \in [Experts -> User]
    /\ errands \in [Desks -> Errand \cup {Idle}]
    /\ stranded \subseteq Appeals \X Experts

RosterInit ==
    /\ Init
    /\ users \in [Experts -> [active : {TRUE}, role : {"expert"}, group : Groups]]
    /\ errands = [d \in Desks |-> Idle]
    /\ stranded = {}

Continues(d, r) == errands' = [errands EXCEPT ![d] = r]

-----------------------------------------------------------------------------
(* Looking an expert up, and entrusting an appeal to her                   *)

\* The test of handleAssign and of handleAddContributor.
Fit(u) == u.role = "expert" /\ u.active

AssignLooks_Fault(d, a, e, byAdmin) ==  \* also one who was deactivated
    /\ ~OnErrand(d)
    /\ Live(a)
    /\ users[e].role = "expert"
    /\ Continues(d, [step |-> "found", kind |-> "assign", appeal |-> a,
                     about |-> e, byAdmin |-> byAdmin])
    /\ UNCHANGED <<vars, users>>

\* handleAssign up to the end of GetUserByID.
AssignLooks(d, a, e, byAdmin) ==
    /\ ~OnErrand(d)
    /\ Live(a)
    /\ Fit(users[e])
    /\ Continues(d, [step |-> "found", kind |-> "assign", appeal |-> a,
                     about |-> e, byAdmin |-> byAdmin])
    /\ UNCHANGED <<vars, users>>

\* handleAddContributor up to the end of requireResponsible; by is the caller,
\* whom her session vouches for, and nobody invites herself.
ContributeAsks(d, a, by, e) ==
    /\ ~OnErrand(d)
    /\ Fit(users[by])
    /\ participants[a][by] = "responsible"
    /\ e # by
    /\ Continues(d, [step |-> "asked", kind |-> "contribute", appeal |-> a,
                     about |-> e, byAdmin |-> FALSE])
    /\ UNCHANGED <<vars, users>>

ContributeLooks(d) ==
    /\ OnErrand(d) /\ errands[d].step = "asked"
    /\ Fit(users[errands[d].about])
    /\ Continues(d, [errands[d] EXCEPT !.step = "found"])
    /\ UNCHANGED <<vars, users>>

Entrust(d) ==
    /\ OnErrand(d) /\ errands[d].step = "found"
    /\ LET r == errands[d]
       IN  \/ r.kind = "assign" /\ AssignExpert(r.appeal, r.about, r.byAdmin)
           \/ r.kind = "contribute" /\ AddContributor(r.appeal, r.about)
    /\ Continues(d, Idle)
    /\ UNCHANGED users

\* Refused, in conflict with another, or the client has hung up.
GivesUp(d) ==
    /\ OnErrand(d)
    /\ Continues(d, Idle)
    /\ UNCHANGED <<vars, users>>

Serve(d) ==
    \/ \E a \in Appeals, e \in Experts :
          \/ \E byAdmin \in BOOLEAN : AssignLooks(d, a, e, byAdmin)
          \/ \E by \in Experts : ContributeAsks(d, a, by, e)
    \/ ContributeLooks(d)
    \/ Entrust(d)
    \/ GivesUp(d)

-----------------------------------------------------------------------------
(* The admin: handleAdminPatchUser makes up to two calls, and may end      *)
(* after the first; nothing it does looks at the appeals of the expert.    *)

SetUserActive(e, active) ==
    /\ users' = [users EXCEPT ![e].active = active]
    /\ UNCHANGED <<vars, errands>>

UpdateUser(e, role, group) ==
    /\ users' = [users EXCEPT ![e].role = role, ![e].group = group]
    /\ UNCHANGED <<vars, errands>>

Patch ==
    \E e \in Experts :
        \/ \E active \in BOOLEAN : SetUserActive(e, active)
        \/ \E role \in {"expert", "other"}, group \in Groups : UpdateUser(e, role, group)

-----------------------------------------------------------------------------
(* The other transactions that change where an appeal stands               *)

Move(a) ==
    \/ CreateAppeal(a, FALSE)
    \/ ApplicantHelped(a)
    \/ \E limit \in limits : ApplicantReturned(a, limit)
    \/ \E call \in TransitionCalls : TransitionStatus(a, call[1], call[2])
    \/ Reject(a)
    \/ CompleteByOperator(a)
    \/ ReturnForRework(a)
    \/ PublishRecommendation(a)
    \/ RequestTransfer(a)
    \/ \E to \in OpenStatus : AdminSetStatus(a, to)
    \/ PurgeAppeal(a)

InHand(a, e) ==
    \/ participants[a][e] # "none"
    \/ \E d \in Desks : /\ OnErrand(d) /\ errands[d].step = "found"
                        /\ errands[d].appeal = a /\ errands[d].about = e

\* Bookkeeping of the history variable, in every step.
Strands ==
    stranded' =
        {ae \in Appeals \X Experts :
            /\ ~Fit(users'[ae[2]])
            /\ InHand(ae[1], ae[2]) /\ InHand(ae[1], ae[2])'
            /\ Fit(users[ae[2]]) \/ ae \in stranded}

RosterNext ==
    /\ \/ \E d \in Desks : Serve(d)
       \/ Patch
       \/ \E a \in Appeals : Move(a) /\ UNCHANGED <<users, errands>>
    /\ Strands

RosterSpec == RosterInit /\ [][RosterNext]_rosterVars

-----------------------------------------------------------------------------
\* An appeal in the hands of someone who is no active expert was given to her
\* before the admin sent her away, or by a request that had found her fit
\* before: once she has no appeal and no such request, she gets no more.
OnlyDeparturesStrand ==
    \A a \in Appeals, e \in Experts :
        participants[a][e] # "none" /\ ~Fit(users[e]) => <<a, e>> \in stranded
=============================================================================
