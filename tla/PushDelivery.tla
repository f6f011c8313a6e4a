---------------------------- MODULE PushDelivery ----------------------------
(***************************************************************************)
(* Web Push: the table push_subscriptions (store/push.go), the requests of *)
(* the browsers that write it and the goroutines that send                 *)
(* (httpapi/push_endpoints.go, push/push.go, the janitor in main.go).      *)
(*                                                                         *)
(* A sender reads the subscriptions of an appeal, tries them one by one,   *)
(* and afterwards deletes those the push service called gone.  No lock     *)
(* spans this, and all of it happens under one deadline, that of the       *)
(* handlers' senders, or until the process stops, for the janitor.  Time   *)
(* is counted in ticks; a request takes any of it up to its own timeout.   *)
(*                                                                         *)
(* An endpoint is what one browser has registered at its push service:     *)
(* once given up it never comes back.  Encryption and the token of the     *)
(* server are pure computation and left out.                               *)
(*                                                                         *)
(* A definition named ..._Fault is no part of the model: see AppealStore.  *)
(***************************************************************************)
EXTENDS Integers, FiniteSets, AppealDomain

CONSTANTS
    Endpoints,
    Nowhere,     \* no appeal
    Senders,     \* sending goroutines (bound of the model)
    Janitor,     \* the one of them that is the janitor's
    Round,       \* ticks a handler's sender has, the 30 s of its context
    Timeout      \* ticks a single request may take, the 15 s of send

ASSUME PushAssumption ==
    /\ Nowhere \notin Appeals
    /\ Janitor \in Senders
    /\ Round \in Nat /\ Timeout \in Nat

VARIABLES
    rows,     \* table push_subscriptions: the appeal of each endpoint
    erased,   \* appeals that the retention purge has deleted
    revoked,  \* endpoints the push service answers 404 or 410 for
    senders,  \* what each goroutine is doing
    \* History variables: read by no action, only by properties.
    wanted,   \* the appeal a browser has last asked to be told about
    tried     \* per sender: the time its round began with, the endpoints that
              \* took some of it, and those it has given up untried

pushVars == <<rows, erased, revoked, senders, wanted, tried>>

NotSending == [appeal |-> Nowhere, todo |-> {}, dead |-> {}, left |-> 0]

NothingTried == [began |-> 0, slow |-> {}, late |-> {}]

\* todo: subscriptions read and not tried; dead: those found gone; left: ticks
\* until the deadline.
PushTypeOK ==
    /\ rows \in [Endpoints -> Appeals \cup {Nowhere}]
    /\ erased \subseteq Appeals
    /\ revoked \subseteq Endpoints
    /\ senders \in [Senders -> [appeal : Appeals \cup {Nowhere}, todo : SUBSET Endpoints,
                                dead : SUBSET Endpoints, left : 0..Round]]
    /\ wanted \in [Endpoints -> Appeals \cup {Nowhere}]
    /\ tried \in [Senders -> [began : 0..Round, slow : SUBSET Endpoints,
                              late : SUBSET Endpoints]]

PushInit ==
    /\ rows = [ep \in Endpoints |-> Nowhere]
    /\ erased = {}
    /\ revoked = {}
    /\ senders = [s \in Senders |-> NotSending]
    /\ wanted = [ep \in Endpoints |-> Nowhere]
    /\ tried = [s \in Senders |-> NothingTried]

-----------------------------------------------------------------------------
(* The browsers                                                            *)

\* SavePushSubscription: an endpoint has one row; it moves to the appeal that
\* asked last.  The foreign key refuses an erased appeal.
Subscribe(a, ep) ==
    /\ a \notin erased
    /\ rows' = [rows EXCEPT ![ep] = a]
    /\ wanted' = [wanted EXCEPT ![ep] = a]
    /\ UNCHANGED <<erased, revoked, senders, tried>>

Deleted_Fault(a, ep) == [rows EXCEPT ![ep] = Nowhere]  \* whosever it is

\* DeletePushSubscription: by endpoint and appeal.
Deleted(a, ep) == [rows EXCEPT ![ep] = IF @ = a THEN Nowhere ELSE @]

\* handlePushUnsubscribe under a session of appeal a.
Unsubscribe(a, ep) ==
    /\ rows' = Deleted(a, ep)
    /\ wanted' = [wanted EXCEPT ![ep] = IF @ = a THEN Nowhere ELSE @]
    /\ UNCHANGED <<erased, revoked, senders, tried>>

\* The browser gives its registration up, which only the push service learns.
Revoke(ep) ==
    /\ ep \notin revoked
    /\ revoked' = revoked \cup {ep}
    /\ UNCHANGED <<rows, erased, senders, wanted, tried>>

\* The retention purge; the rows cascade.
Erase(a) ==
    /\ a \notin erased
    /\ erased' = erased \cup {a}
    /\ rows' = [ep \in Endpoints |-> IF rows[ep] = a THEN Nowhere ELSE rows[ep]]
    /\ wanted' = [ep \in Endpoints |-> IF wanted[ep] = a THEN Nowhere ELSE wanted[ep]]
    /\ UNCHANGED <<revoked, senders, tried>>

-----------------------------------------------------------------------------
(* The senders                                                             *)

Become(s, state) == senders' = [senders EXCEPT ![s] = state]

\* notifyApplicant, after an answer or a message, or notifyAppeal, after a
\* warning: PushSubscriptionsForAppeal, which may itself have taken time.
Starts(s, a, time) ==
    /\ senders[s].appeal = Nowhere
    /\ s = Janitor => time = Round
    /\ LET subs == {ep \in Endpoints : rows[ep] = a}
       IN  /\ subs # {}
           /\ Become(s, [appeal |-> a, todo |-> subs, dead |-> {}, left |-> time])
    /\ tried' = [tried EXCEPT ![s] = [NothingTried EXCEPT !.began = time]]
    /\ UNCHANGED <<rows, erased, revoked, wanted>>

CostsAtMost_Fault(s) == senders[s].left  \* no timeout of the single request

\* What a request can take of the time: its own timeout, and never more than is
\* left.  The janitor's senders have no deadline, so nothing of theirs is used up.
CostsAtMost(s) ==
    IF s = Janitor THEN 0
    ELSE IF senders[s].left < Timeout THEN senders[s].left ELSE Timeout

Slow(ep, cost) == IF cost > 0 THEN {ep} ELSE {}

\* One turn of Notify's loop that took some of the time and, if it found the
\* endpoint gone, put it on the list of the dead.
Tries(s, ep, cost, gone) ==
    /\ ep \in senders[s].todo
    /\ senders[s].left > 0
    /\ cost \in 0..CostsAtMost(s)
    /\ Become(s, [appeal |-> senders[s].appeal, todo |-> senders[s].todo \ {ep},
                  dead |-> senders[s].dead \cup gone, left |-> senders[s].left - cost])
    /\ tried' = [tried EXCEPT ![s].slow = @ \cup Slow(ep, cost)]
    /\ UNCHANGED <<rows, erased, revoked, wanted>>

\* The answer is 404 or 410: errGone.
SaysGone(s, ep, cost) == ep \in revoked /\ Tries(s, ep, cost, {ep})

\* The message is taken, or send fails in another way: no connection, another
\* status, no answer before the timeout or the deadline.  A revoked endpoint can
\* fail so too.
IsSentOrFails(s, ep, cost) == Tries(s, ep, cost, {})

\* The context is done: what is left fails without having been sent.
TooLate(s, ep) ==
    /\ ep \in senders[s].todo
    /\ senders[s].left = 0
    /\ Become(s, [senders[s] EXCEPT !.todo = @ \ {ep}])
    /\ tried' = [tried EXCEPT ![s].late = @ \cup {ep}]
    /\ UNCHANGED <<rows, erased, revoked, wanted>>

\* After the round.  A statement that fails is logged, and the next is tried;
\* under a context that is done every statement fails.
DeletesDead(s, ep) ==
    /\ ep \in senders[s].dead
    /\ senders[s].todo = {}
    /\ Become(s, [senders[s] EXCEPT !.dead = @ \ {ep}])
    /\ \/ senders[s].left > 0 /\ rows' = Deleted(senders[s].appeal, ep)
       \/ rows' = rows
    /\ UNCHANGED <<erased, revoked, wanted, tried>>

Ends(s) ==
    /\ senders[s].appeal # Nowhere
    /\ senders[s].todo = {} /\ senders[s].dead = {}
    /\ Become(s, NotSending)
    /\ tried' = [tried EXCEPT ![s] = NothingTried]
    /\ UNCHANGED <<rows, erased, revoked, wanted>>

\* The process stops, and main does not wait for senders: it is gone without
\* having ended.
Dies(s) ==
    /\ senders[s].appeal # Nowhere
    /\ Become(s, NotSending)
    /\ tried' = [tried EXCEPT ![s] = NothingTried]
    /\ UNCHANGED <<rows, erased, revoked, wanted>>

Send(s) ==
    \/ \E a \in Appeals, time \in 1..Round : Starts(s, a, time)
    \/ \E ep \in Endpoints :
          \/ \E cost \in 0..Round : SaysGone(s, ep, cost) \/ IsSentOrFails(s, ep, cost)
          \/ TooLate(s, ep)
          \/ DeletesDead(s, ep)
    \/ Ends(s)
    \/ Dies(s)

PushNext ==
    \/ \E a \in Appeals, ep \in Endpoints : Subscribe(a, ep) \/ Unsubscribe(a, ep)
    \/ \E ep \in Endpoints : Revoke(ep)
    \/ \E a \in Appeals : Erase(a)
    \/ \E s \in Senders : Send(s)

PushSpec == PushInit /\ [][PushNext]_pushVars

-----------------------------------------------------------------------------
\* "A session of one appeal cannot unsubscribe another's" (store/push.go), and
\* nor can a sender on its way with an old list: a browser that can be reached
\* stays subscribed where it last asked to be.
ReachableStaySubscribed ==
    \A ep \in Endpoints :
        wanted[ep] # Nowhere /\ ep \notin revoked => rows[ep] = wanted[ep]

\* "One dead endpoint does not block the others" (push.go, Notify): a sender that
\* has more time than one request can take when its round begins gives up nobody
\* untried unless two others have cost it time; the janitor gives up nobody.
OneEndpointBlocksNobody ==
    \A s \in Senders :
        tried[s].late # {} =>
            /\ s # Janitor
            /\ tried[s].began > Timeout =>
                   \E x, y \in tried[s].slow : x # y
=============================================================================
