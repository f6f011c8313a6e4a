-------------------------- MODULE AppealLifecycle --------------------------
(***************************************************************************)
(* What the service promises about an appeal, without statuses, queues or  *)
(* handlers: it is filed once, may be entrusted to experts while it is     *)
(* open, is archived once, keeps its last expert in the archive and is     *)
(* erased only from the archive.                                           *)
(***************************************************************************)
CONSTANTS Appeals, Experts, Nobody

VARIABLES
    phase,   \* absent, open, archived or erased
    owner    \* the expert who answers for the appeal, or Nobody

lifecycleVars == <<phase, owner>>

Init ==
    /\ phase = [a \in Appeals |-> "absent"]
    /\ owner = [a \in Appeals |-> Nobody]

File(a) ==
    /\ phase[a] = "absent"
    /\ phase' = [phase EXCEPT ![a] = "open"]
    /\ UNCHANGED owner

Entrust(a, e) ==
    /\ phase[a] = "open"
    /\ owner' = [owner EXCEPT ![a] = e]
    /\ UNCHANGED phase

Archive(a) ==
    /\ phase[a] = "open"
    /\ phase' = [phase EXCEPT ![a] = "archived"]
    /\ UNCHANGED owner

Erase(a) ==
    /\ phase[a] = "archived"
    /\ phase' = [phase EXCEPT ![a] = "erased"]
    /\ owner' = [owner EXCEPT ![a] = Nobody]

Next ==
    \E a \in Appeals :
        \/ File(a)
        \/ \E e \in Experts : Entrust(a, e)
        \/ Archive(a)
        \/ Erase(a)

Spec == Init /\ [][Next]_lifecycleVars
=============================================================================
