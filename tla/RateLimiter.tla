----------------------------- MODULE RateLimiter -----------------------------
(***************************************************************************)
(* The counter of attempts behind every form that can be guessed at: wrong *)
(* passwords, one-time codes, track numbers, new appeals (rateLimiter in   *)
(* internal/httpapi/server.go).  Each of the two HTTP servers has its own. *)
(*                                                                         *)
(* allow and reset hold the mutex from end to end, one action each.  The   *)
(* sweeper does not take it: it copies the slice of a key, filters it in   *)
(* place and stores it back, so its visit of a key is two actions, and     *)
(* what happens to that key in between is a data race.  Go leaves the      *)
(* result open: the process may be stopped ("concurrent map iteration and  *)
(* map write", here Restart), or times may be lost, copied twice or mixed  *)
(* (RacedCopy).                                                            *)
(*                                                                         *)
(* A key stands for "login:<ip>", "totp:<login>" and so on.  Time is       *)
(* counted in steps of Tick; two hits of one key never bear the same time. *)
(*                                                                         *)
(* A definition named ..._Fault or ..._Unswept is no part of the model:    *)
(* see AppealStore.                                                        *)
(***************************************************************************)
EXTENDS Integers, FiniteSets

CONSTANTS
    Key,          \* the keys that come up
    NoKey,        \* no key: the sweeper is between two keys
    Limit,        \* per key: the n its callers pass to allow
    Window,       \* per key: the window its callers pass to allow
    SweepWindow,  \* time.Hour, the longest of the windows
    MaxKeys,      \* rlMaxKeys
    MaxRaced,     \* bound of the model: keys raced between two restarts
    MaxTime       \* bound of the model on the clock

ASSUME RateAssumption ==
    /\ IsFiniteSet(Key) /\ NoKey \notin Key
    /\ MaxKeys \in Nat \ {0} /\ MaxTime \in Nat /\ MaxRaced \in Nat
    /\ SweepWindow \in Nat \ {0}
    /\ Limit \in [Key -> Nat \ {0}]
    /\ Window \in [Key -> 1..SweepWindow]

VARIABLES
    now,      \* time.Now()
    hits,     \* rl.hits: the times of each key; a key without times is absent
    sweep,    \* the sweeper: on, the now it began with, the keys still to
              \* come, the key it is at with the slice it copied, and whether
              \* that key has been touched since
    \* History variables: read by no action, only by properties.
    raced,    \* keys that a request has written while the sweeper was at them
    granted   \* of every other key: the hits that allow has let through within
              \* its window, since the key was last reset or evicted

vars == <<now, hits, sweep, raced, granted>>

Time == 0..MaxTime

Resting == [on |-> FALSE, now |-> 0, todo |-> {}, key |-> NoKey,
            slice |-> {}, torn |-> FALSE]

TypeOK ==
    /\ now \in Time
    /\ hits \in [Key -> SUBSET Time]
    /\ sweep \in [on : BOOLEAN, now : Time, todo : SUBSET Key,
                  key : Key \cup {NoKey}, slice : SUBSET Time, torn : BOOLEAN]
    /\ granted \in [Key -> SUBSET Time]
    /\ raced \subseteq Key

Init ==
    /\ now = 0
    /\ hits = [k \in Key |-> {}]
    /\ sweep = Resting
    /\ granted = [k \in Key |-> {}]
    /\ raced = {}

Present == {k \in Key : hits[k] # {}}

\* The filter at the head of allow.
Fresh(k, S, at) == {t \in S : at - t < Window[k]}

\* What two filters of one slice at once may come to: either writes only times
\* it has found fresh, but each of them may be lost.  (One copied twice counts
\* twice in the code; the key counts as raced anyway.)
RacedCopy(S) == SUBSET {t \in S : sweep.now - t < SweepWindow}

\* The slice allow filters: that of the key, unless the sweeper is at it.
Kept(k) ==
    IF sweep.key = k THEN RacedCopy(hits[k] \cup sweep.slice)
    ELSE {Fresh(k, hits[k], now)}

\* Requests have written the keys K; the sweeper may be at one of them.
Touched(K) ==
    /\ sweep' = [sweep EXCEPT !.torn = @ \/ sweep.key \in K]
    /\ raced' = raced \cup (K \cap {sweep.key})
    /\ Cardinality(raced') <= MaxRaced     \* bound of the model

\* f with nothing left for the keys K.
Emptied(f, K) == [j \in Key |-> IF j \in K THEN {} ELSE f[j]]

-----------------------------------------------------------------------------
\* allow, answering false: nothing is added.
Refuse(k) ==
    \E kept \in Kept(k) :
        /\ Cardinality(kept) >= Limit[k]
        /\ hits' = [hits EXCEPT ![k] = kept]
        /\ Touched({k})
        /\ granted' = Emptied(granted, raced')
        /\ UNCHANGED now

\* The keys one of which makes room for k: the last hit is no later than any
\* other key's (the map is walked in no fixed order).
Stalest(k) ==
    {j \in Present \ {k} :
        \A i \in Present \ {k} : \E t \in hits[i] : \A u \in hits[j] : u <= t}

Room_Fault(k, kept) ==  \* makes room one key too late
    kept # {} \/ Cardinality(Present \ {k}) <= MaxKeys

\* A key that is there already needs no room, a new one does.
Room(k, kept) ==
    kept # {} \/ Cardinality(Present \ {k}) < MaxKeys

\* allow, answering true; victim is NoKey when nobody has to make room.
Grant(k, victim) ==
    \E kept \in Kept(k) :
        /\ Cardinality(kept) < Limit[k]
        /\ now \notin hits[k]
        /\ IF Room(k, kept) THEN victim = NoKey ELSE victim \in Stalest(k)
        /\ hits' = [Emptied(hits, {victim}) EXCEPT ![k] = kept \cup {now}]
        /\ Touched({k, victim} \cap Key)
        /\ granted' = Emptied([granted EXCEPT ![k] = @ \cup {now}], raced' \cup {victim})
        /\ UNCHANGED now

Reset_Fault(k) ==  \* the last attempt is kept
    /\ hits' = [hits EXCEPT ![k] = {t \in @ : \A u \in hits[k] : u <= t}]
    /\ Touched({k})
    /\ granted' = Emptied(granted, raced' \cup {k})
    /\ UNCHANGED now

\* reset, after the right password or track number.
Reset(k) ==
    /\ hits' = [hits EXCEPT ![k] = {}]
    /\ Touched({k})
    /\ granted' = Emptied(granted, raced' \cup {k})
    /\ UNCHANGED now

-----------------------------------------------------------------------------
\* The ticker of sweeper.  The keys of the map are taken in any order, each at
\* most once; one created on the way may be taken or passed over.
SweepStarts ==
    /\ ~sweep.on
    /\ \E created \in SUBSET (Key \ Present) :
          sweep' = [Resting EXCEPT !.on = TRUE, !.now = now,
                                   !.todo = Present \cup created]
    /\ UNCHANGED <<now, hits, granted, raced>>

SweepReads(k) ==
    /\ sweep.on /\ sweep.key = NoKey
    /\ k \in sweep.todo \cap Present
    /\ sweep' = [sweep EXCEPT !.key = k, !.slice = hits[k], !.torn = FALSE,
                              !.todo = @ \ {k}]
    /\ UNCHANGED <<now, hits, granted, raced>>

SweptSlice_Fault ==  \* a minute for the hour
    {t \in sweep.slice : sweep.now - t < 1}

SweptSlice_Unswept == sweep.slice  \* nothing is ever dropped

SweptSlice == {t \in sweep.slice : sweep.now - t < SweepWindow}

\* rl.hits[k] = fresh, or the delete of a key none of whose times is fresh:
\* whatever has become of the key since it was read.
SweepWrites ==
    /\ sweep.key # NoKey
    /\ \E S \in IF sweep.torn THEN RacedCopy(hits[sweep.key] \cup sweep.slice)
                ELSE {SweptSlice} :
            hits' = [hits EXCEPT ![sweep.key] = S]
    /\ sweep' = [sweep EXCEPT !.key = NoKey, !.slice = {}, !.torn = FALSE]
    /\ UNCHANGED <<now, granted, raced>>

SweepEnds ==
    /\ sweep.on /\ sweep.key = NoKey
    /\ sweep.todo \cap Present = {}
    /\ sweep' = Resting
    /\ UNCHANGED <<now, hits, granted, raced>>

Tick ==
    /\ now < MaxTime     \* bound of the model
    /\ now' = now + 1
    /\ granted' = [k \in Key |-> Fresh(k, granted[k], now + 1)]
    /\ UNCHANGED <<hits, sweep, raced>>

\* The process ends, of itself or by the runtime's check for concurrent map
\* access, and is started again: the map is kept nowhere.
Restart ==
    /\ hits' = [k \in Key |-> {}]
    /\ granted' = [k \in Key |-> {}]
    /\ sweep' = Resting
    /\ raced' = {}
    /\ UNCHANGED now

Next ==
    \/ \E k \in Key : \/ Refuse(k) \/ Reset(k) \/ SweepReads(k)
                      \/ \E victim \in Key \cup {NoKey} : Grant(k, victim)
    \/ SweepStarts \/ SweepWrites \/ SweepEnds
    \/ Tick \/ Restart

Spec == Init /\ [][Next]_vars

(***************************************************************************)
(* The ticker fires for ever and the range over the map ends; it passes    *)
(* every key that stays in the map, hence the strong fairness per key.     *)
(***************************************************************************)
FairSpec ==
    /\ Spec
    /\ WF_vars(SweepStarts) /\ WF_vars(SweepWrites) /\ WF_vars(SweepEnds)
    /\ \A k \in Key : SF_vars(SweepReads(k))

-----------------------------------------------------------------------------
\* "10 a minute", "20 an hour": from a reset, eviction or restart on, allow
\* lets no more through in any window than its callers asked for, whatever the
\* sweeper drops meanwhile.  Only a key written under the sweeper is excepted.
LimitHolds ==
    \A k \in Key \ raced : Cardinality(granted[k]) <= Limit[k]

Blocked(k) == Cardinality(Fresh(k, hits[k], now)) >= Limit[k]

\* "Past mistypings must not keep the rightful owner blocked" (reset): who would
\* be refused now has been let through n times in this very window since the
\* last success.  A refusal costs nothing, and no expired time counts.
BlockedForCause ==
    \A k \in Key \ raced : Blocked(k) => Cardinality(granted[k]) = Limit[k]

\* "The map cannot grow for ever" (rlMaxKeys): as long as the sweeper has put
\* back no key that was deleted under it, the map keeps its bound.
MapIsBounded == raced = {} => Cardinality(Present) <= MaxKeys

Cold(k) == hits[k] # {} /\ \A t \in hits[k] : now - t >= SweepWindow

\* "Deletes keys that have gone cold" (sweeper): a key nobody uses any more
\* leaves the map, though other keys come and go while the map is walked.
ColdKeysLeave == \A k \in Key : Cold(k) ~> ~Cold(k)
=============================================================================
