-------------------------- MODULE ApplicantAccess --------------------------
(***************************************************************************)
(* How an applicant gets to her appeal: filing under an idempotency key,   *)
(* the track number, the session it is exchanged for, and the session's    *)
(* refresh, end and purge (applicant_intake.go, auth.go, authMW of         *)
(* server.go, internal/store).  An appeal is named by its track number,    *)
(* hashes stand for what they hash, and random numbers and tokens never    *)
(* come up twice.  The answer to a request may be lost on its way.         *)
(*                                                                         *)
(* A definition named ..._Fault is no part of the model: see AppealStore.  *)
(***************************************************************************)
EXTENDS Integers, FiniteSets

CONSTANTS
    Clients,   \* browsers of applicants
    Workers,   \* requests the server is serving at one time (bound of the model)
    Tracks,    \* track numbers
    Tokens,    \* session tokens
    Keys,      \* idempotency keys
    None       \* no key, no token, no track number

ASSUME AccessAssumption == None \notin Keys \cup Tokens \cup Tracks

VARIABLES
    filed,     \* table appeals: the row under each track number
    hmac,      \* TRACK_HMAC_KEY is set
    sessions,  \* table applicant_sessions: the row under each token
    requests,  \* the request each worker is serving
    cookie,    \* the session cookie of each browser
    numbers,   \* the track numbers each applicant has been answered
    \* History variables: read by no action, only by properties.
    repeated,  \* numbers answered to a filing whose key had an appeal already
    ended      \* tokens that expired, were logged out, or whose successor was lost

access == <<filed, hmac, sessions, requests, cookie, numbers, repeated, ended>>

\* hmac: how the number of the row is hashed.
FiledRow == [state: {"free", "filed", "erased"}, key: Keys \cup {None}, hmac: BOOLEAN]

NoAppeal(s) == [state |-> s, key |-> None, hmac |-> FALSE]

\* age: less than half of the time to live has passed, more than half, all.  The
\* appeal of a session, handed on by a refresh, is left out: nothing here reads it.
SessionRow == [state: {"unused", "live", "gone"}, age: 0..2]

NoSession(s) == [state |-> s, age |-> 0]

NewSession == [state |-> "live", age |-> 0]

Expired == 2

Idle == [step |-> "idle"]

\* A filing that has found no appeal under its key.
Filing(c, t, k) == [step |-> "insert", client |-> c, track |-> t, key |-> k]

\* A filing whose answer is on its way.
Filed(c, t) == [step |-> "filed", client |-> c, track |-> t]

\* A track number that has been exchanged for a session.
Entered(c, fresh) == [step |-> "entered", client |-> c, fresh |-> fresh]

\* A request under a session.  sent: the cookie it came with; fresh: the
\* cookie its answer sets; logout: the request is session/end.
Step(s, c, sent, fresh, logout) ==
    [step |-> s, client |-> c, sent |-> sent, fresh |-> fresh, logout |-> logout]

Request ==
    {Idle} \cup {Filing(c, t, k) : c \in Clients, t \in Tracks, k \in Keys \cup {None}}
           \cup {Filed(c, t) : c \in Clients, t \in Tracks}
           \cup {Step(s, c, sent, fresh, logout) :
                    s \in {"rotate", "retire", "serve", "answer"}, c \in Clients,
                    sent \in Tokens, fresh \in Tokens \cup {None}, logout \in BOOLEAN}
           \cup {Entered(c, fresh) : c \in Clients, fresh \in Tokens}

TypeOK ==
    /\ filed \in [Tracks -> FiledRow]
    /\ hmac \in BOOLEAN
    /\ sessions \in [Tokens -> SessionRow]
    /\ requests \in [Workers -> Request]
    /\ cookie \in [Clients -> Tokens \cup {None}]
    /\ numbers \in [Clients -> SUBSET Tracks]
    /\ repeated \subseteq Tracks
    /\ ended \subseteq Tokens

Init ==
    /\ filed = [t \in Tracks |-> NoAppeal("free")]
    /\ hmac \in BOOLEAN
    /\ sessions = [s \in Tokens |-> NoSession("unused")]
    /\ requests = [w \in Workers |-> Idle]
    /\ cookie = [c \in Clients |-> None]
    /\ numbers = [c \in Clients |-> {}]
    /\ repeated = {}
    /\ ended = {}

Become(w, r) == requests' = [requests EXCEPT ![w] = r]

Pending == {w \in Workers : requests[w] # Idle}

At(w, s) == requests[w].step = s

-----------------------------------------------------------------------------
(* Filing                                                                  *)

\* GenerateTrackNumber, checked against the numbers in use.
FreshTrack(t) ==
    /\ filed[t].state = "free"
    /\ \A c \in Clients : t \notin numbers[c]
    /\ \A w \in Workers :
           requests[w].step \in {"insert", "filed"} => requests[w].track # t

KeyTaken(k) == k # None /\ \E t \in Tracks : filed[t].state = "filed" /\ filed[t].key = k

\* handleCreateAppeal up to the look for the key in CreateAppeal.  A key that
\* has an appeal is answered with that appeal, and with the number just made.
FileAppeal(w, c, t, k) ==
    /\ requests[w] = Idle
    /\ FreshTrack(t)
    /\ IF KeyTaken(k)
       THEN /\ Become(w, Filed(c, t))
            /\ repeated' = repeated \cup {t}
       ELSE /\ Become(w, Filing(c, t, k))
            /\ UNCHANGED repeated
    /\ UNCHANGED <<filed, hmac, sessions, cookie, numbers, ended>>

InsertAppeal_Fault(w) ==  \* the look for the key is trusted
    /\ At(w, "insert")
    /\ LET r == requests[w]
       IN  /\ filed' = [filed EXCEPT ![r.track] =
                           [state |-> "filed", key |-> r.key, hmac |-> hmac]]
           /\ Become(w, Filed(r.client, r.track))
    /\ UNCHANGED <<hmac, sessions, cookie, numbers, repeated, ended>>

\* The transaction of CreateAppeal: idempotency_key is UNIQUE.
InsertAppeal(w) ==
    /\ At(w, "insert")
    /\ LET r == requests[w]
       IN  /\ ~KeyTaken(r.key)
           /\ filed' = [filed EXCEPT ![r.track] =
                           [state |-> "filed", key |-> r.key, hmac |-> hmac]]
           /\ Become(w, Filed(r.client, r.track))
    /\ UNCHANGED <<hmac, sessions, cookie, numbers, repeated, ended>>

\* The applicant is told her number.
AnswerFiled(w) ==
    /\ At(w, "filed")
    /\ LET r == requests[w]
       IN  numbers' = [numbers EXCEPT ![r.client] = @ \cup {r.track}]
    /\ Become(w, Idle)
    /\ UNCHANGED <<filed, hmac, sessions, cookie, repeated, ended>>

-----------------------------------------------------------------------------
(* Sessions                                                                *)

LookupTrack_Fault(t) == filed[t].state = "filed" /\ filed[t].hmac = hmac

\* lookupTrackHash: with the key if one is set, and then without.
LookupTrack(t) ==
    /\ filed[t].state = "filed"
    /\ hmac \/ ~filed[t].hmac

Unused(s) == sessions[s].state = "unused"

Live(s) == sessions[s].state = "live"

Valid(s) == Live(s) /\ sessions[s].age # Expired

\* handleVerifyTrack.
VerifyTrack(w, c, t, s) ==
    /\ requests[w] = Idle
    /\ t \in numbers[c]
    /\ LookupTrack(t)
    /\ Unused(s)
    /\ sessions' = [sessions EXCEPT ![s] = NewSession]
    /\ Become(w, Entered(c, s))
    /\ UNCHANGED <<filed, hmac, cookie, numbers, repeated, ended>>

AnswerEntered(w) ==
    /\ At(w, "entered")
    /\ cookie' = [cookie EXCEPT ![requests[w].client] = requests[w].fresh]
    /\ Become(w, Idle)
    /\ UNCHANGED <<filed, hmac, sessions, numbers, repeated, ended>>

\* A number that opens nothing.
VerifyRefused(w, t) ==
    /\ requests[w] = Idle
    /\ ~LookupTrack(t)
    /\ UNCHANGED access

\* authMW reads the session of the cookie; past half of its time it is to be
\* refreshed.  A request whose session is not valid is refused, session/end too.
UseSession(w, c, logout) ==
    /\ requests[w] = Idle
    /\ cookie[c] # None
    /\ Valid(cookie[c])
    /\ Become(w, Step(IF sessions[cookie[c]].age = 0 THEN "serve" ELSE "rotate",
                      c, cookie[c], None, logout))
    /\ UNCHANGED <<filed, hmac, sessions, cookie, numbers, repeated, ended>>

RotateSession_Fault(w, s) ==  \* the old session first
    /\ At(w, "rotate") /\ Unused(s)
    /\ sessions' = [sessions EXCEPT ![requests[w].sent] = NoSession("gone")]
    /\ Become(w, [requests[w] EXCEPT !.step = "serve"])
    /\ UNCHANGED <<filed, hmac, cookie, numbers, repeated, ended>>

\* rotateApplicantSession: the new session is created first ...
RotateSession(w, s) ==
    /\ At(w, "rotate")
    /\ Unused(s)
    /\ LET r == requests[w]
       IN  /\ sessions' = [sessions EXCEPT ![s] = NewSession]
           /\ Become(w, Step("retire", r.client, r.sent, s, r.logout))
    /\ UNCHANGED <<filed, hmac, cookie, numbers, repeated, ended>>

\* ... or not, which is only logged ...
RotateFails(w) ==
    /\ At(w, "rotate")
    /\ Become(w, [requests[w] EXCEPT !.step = "serve"])
    /\ UNCHANGED <<filed, hmac, sessions, cookie, numbers, repeated, ended>>

Delete(s) ==
    sessions' = IF Live(s) THEN [sessions EXCEPT ![s] = NoSession("gone")] ELSE sessions

\* ... and the old one is deleted after it, errors ignored.
RetireSession(w) ==
    /\ At(w, "retire")
    /\ Delete(requests[w].sent) \/ UNCHANGED sessions
    /\ Become(w, [requests[w] EXCEPT !.step = "serve"])
    /\ UNCHANGED <<filed, hmac, cookie, numbers, repeated, ended>>

\* The handler behind authMW.  handleApplicantLogout deletes the session of
\* the cookie the request came with, errors ignored.
Serve(w) ==
    /\ At(w, "serve")
    /\ LET r == requests[w]
       IN  IF r.logout
           THEN /\ Delete(r.sent) \/ UNCHANGED sessions
                /\ ended' = ended \cup {r.sent}
           ELSE UNCHANGED <<sessions, ended>>
    /\ Become(w, [requests[w] EXCEPT !.step = "answer"])
    /\ UNCHANGED <<filed, hmac, cookie, numbers, repeated>>

\* The browser takes the cookies of the answer in their order: a fresh one,
\* then the empty one of a logout.
Answer(w) ==
    /\ At(w, "answer")
    /\ LET r == requests[w]
       IN  cookie' = [cookie EXCEPT ![r.client] =
                         IF r.logout THEN None ELSE IF r.fresh # None THEN r.fresh ELSE @]
    /\ Become(w, Idle)
    /\ UNCHANGED <<filed, hmac, sessions, numbers, repeated, ended>>

\* The client is gone, a statement fails, the server dies, the answer is lost.
Lose(w) ==
    /\ requests[w] # Idle
    /\ ended' = IF requests[w].step \in {"serve", "answer"} /\ requests[w].fresh # None
                THEN ended \cup {requests[w].sent} ELSE ended
    /\ Become(w, Idle)
    /\ UNCHANGED <<filed, hmac, sessions, cookie, numbers, repeated>>

-----------------------------------------------------------------------------
(* Time, the janitor, the configuration                                    *)

\* Half of the time to live passes.
Age(s) ==
    /\ Valid(s)
    /\ sessions' = [sessions EXCEPT ![s].age = @ + 1]
    /\ ended' = IF sessions'[s].age = Expired THEN ended \cup {s} ELSE ended
    /\ UNCHANGED <<filed, hmac, requests, cookie, numbers, repeated>>

\* The janitor's hourly look at applicant_sessions.
PurgeExpiredSessions ==
    /\ \E s \in Tokens : Live(s) /\ sessions[s].age = Expired
    /\ sessions' = [s \in Tokens |->
                       IF Live(s) /\ sessions[s].age = Expired
                       THEN NoSession("gone") ELSE sessions[s]]
    /\ UNCHANGED <<filed, hmac, requests, cookie, numbers, repeated, ended>>

\* PurgeTerminalAppeals: applicant_sessions has no foreign key to cascade along.
PurgeAppeal(t) ==
    /\ filed[t].state = "filed"
    /\ filed' = [filed EXCEPT ![t] = NoAppeal("erased")]
    /\ UNCHANGED <<hmac, sessions, requests, cookie, numbers, repeated, ended>>

\* TRACK_HMAC_KEY is set on a running database: a restart between requests.
EnableHmac ==
    /\ ~hmac
    /\ Pending = {}
    /\ hmac' = TRUE
    /\ UNCHANGED <<filed, sessions, requests, cookie, numbers, repeated, ended>>

-----------------------------------------------------------------------------
FilingNext(w) ==
    \/ \E c \in Clients, t \in Tracks, k \in Keys \cup {None} : FileAppeal(w, c, t, k)
    \/ InsertAppeal(w)
    \/ AnswerFiled(w)

SessionNext(w) ==
    \/ \E c \in Clients, t \in Tracks, s \in Tokens : VerifyTrack(w, c, t, s)
    \/ AnswerEntered(w)
    \/ \E t \in Tracks : VerifyRefused(w, t)
    \/ \E c \in Clients, logout \in BOOLEAN : UseSession(w, c, logout)
    \/ \E s \in Tokens : RotateSession(w, s)
    \/ RotateFails(w)
    \/ RetireSession(w)
    \/ Serve(w)
    \/ Answer(w)

Next ==
    \/ \E w \in Workers : FilingNext(w) \/ SessionNext(w) \/ Lose(w)
    \/ \E s \in Tokens : Age(s)
    \/ PurgeExpiredSessions
    \/ \E t \in Tracks : PurgeAppeal(t)
    \/ EnableHmac

Spec == Init /\ [][Next]_access

-----------------------------------------------------------------------------
(* Safety                                                                  *)

\* "A repetition with the same idempotency key returns the existing appeal"
\* (CreateAppeal): requests that all found the key unused, retries after a lost
\* answer and any number of clients leave one appeal per key.
OneAppealPerKey ==
    \A t, u \in Tracks :
        /\ filed[t].state = "filed" /\ filed[u].state = "filed"
        /\ filed[t].key = filed[u].key /\ filed[t].key # None
        => t = u

\* The track number "is the only way in" (handleCreateAppeal) and must work, also
\* after TRACK_HMAC_KEY is set (lookupTrackHash), as far as the code delivers it:
\* it does as long as the appeal exists, if it was the answer of the filing that
\* created the appeal and not of a repetition.
NumberOpensAppeal ==
    \A c \in Clients : \A t \in numbers[c] \ repeated :
        LookupTrack(t) \/ filed[t].state = "erased"

\* The refresh of a session keeps an active applicant in (authMW): whatever the
\* order of concurrent requests and their answers, her cookie is good unless it
\* expired, she logged out or an answer was lost, or its successor is on its way.
RefreshKeepsClientIn ==
    \A c \in Clients :
        cookie[c] # None /\ ~Valid(cookie[c]) =>
            \/ cookie[c] \in ended
            \/ \E w \in Pending :
                   /\ requests[w].step \in {"serve", "answer"}
                   /\ requests[w].client = c /\ requests[w].sent = cookie[c]
                   /\ requests[w].fresh # None
=============================================================================
