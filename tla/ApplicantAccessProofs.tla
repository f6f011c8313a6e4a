----------------------- MODULE ApplicantAccessProofs -----------------------
(***************************************************************************)
(* Proofs about ApplicantAccess, for any sets of browsers, requests,       *)
(* numbers, tokens and keys.                                               *)
(***************************************************************************)
EXTENDS ApplicantAccess, TLAPS

USE AccessAssumption

InSession(w) == requests[w].step \in {"rotate", "retire", "serve", "answer"}

\* What a request at each step looks like.
LEMMA RequestShape ==
    ASSUME NEW r \in Request
    PROVE  /\ r.step \in {"idle", "insert", "filed", "entered", "rotate", "retire", "serve",
                         "answer"}
           /\ r.step = "idle" <=> r = Idle
           /\ r.step = "insert" =>
                 /\ r.client \in Clients /\ r.track \in Tracks /\ r.key \in Keys \cup {None}
           /\ r.step = "filed" => r.client \in Clients /\ r.track \in Tracks
           /\ r.step = "entered" => r.client \in Clients /\ r.fresh \in Tokens
           /\ r.step \in {"rotate", "retire", "serve", "answer"} =>
                 /\ r.client \in Clients
                 /\ r.sent \in Tokens
                 /\ r.fresh \in Tokens \cup {None}
                 /\ r.logout \in BOOLEAN
                 /\ r = Step(r.step, r.client, r.sent, r.fresh, r.logout)
<1>1. CASE r = Idle
  BY <1>1 DEF Idle
<1>2. ASSUME NEW c \in Clients, NEW t \in Tracks, NEW k \in Keys \cup {None},
             r = Filing(c, t, k) \/ r = Filed(c, t)
      PROVE  /\ r.step \in {"insert", "filed"} /\ r # Idle
             /\ r.client \in Clients /\ r.track \in Tracks
             /\ r.step = "insert" => r.key \in Keys \cup {None}
  BY <1>2 DEF Idle, Filing, Filed
<1>3. ASSUME NEW s \in {"rotate", "retire", "serve", "answer"}, NEW c \in Clients,
             NEW sent \in Tokens, NEW fresh \in Tokens \cup {None}, NEW logout \in BOOLEAN,
             r = Step(s, c, sent, fresh, logout)
      PROVE  /\ r.step = s /\ r # Idle
             /\ r.client = c /\ r.sent = sent /\ r.fresh = fresh /\ r.logout = logout
  BY <1>3 DEF Idle, Step
<1>4. \/ r = Idle
      \/ \E c \in Clients, t \in Tracks, k \in Keys \cup {None} : r = Filing(c, t, k)
      \/ \E c \in Clients, t \in Tracks : r = Filed(c, t)
      \/ \E s \in {"rotate", "retire", "serve", "answer"}, c \in Clients, sent \in Tokens,
            fresh \in Tokens \cup {None}, logout \in BOOLEAN :
               r = Step(s, c, sent, fresh, logout)
      \/ \E c \in Clients, fresh \in Tokens : r = Entered(c, fresh)
  BY DEF Request
<1>5. ASSUME NEW c \in Clients, NEW fresh \in Tokens, r = Entered(c, fresh)
      PROVE  r.step = "entered" /\ r # Idle /\ r.client = c /\ r.fresh = fresh
  BY <1>5 DEF Idle, Entered
<1>6. QED
  BY <1>1, <1>2, <1>3, <1>4, <1>5

\* A made-up request is one.
LEMMA RequestMade ==
    /\ Idle \in Request
    /\ \A c \in Clients, t \in Tracks, k \in Keys \cup {None} : Filing(c, t, k) \in Request
    /\ \A c \in Clients, t \in Tracks : Filed(c, t) \in Request
    /\ \A s \in {"rotate", "retire", "serve", "answer"}, c \in Clients,
          sent \in Tokens, fresh \in Tokens \cup {None}, logout \in BOOLEAN :
              Step(s, c, sent, fresh, logout) \in Request
    /\ \A c \in Clients, fresh \in Tokens : Entered(c, fresh) \in Request
BY DEF Request

\* Moving a request under a session on.
LEMMA RequestMoves ==
    ASSUME NEW r \in Request, r.step \in {"rotate", "retire", "serve"},
           NEW s \in {"rotate", "retire", "serve", "answer"}
    PROVE  /\ [r EXCEPT !.step = s] = Step(s, r.client, r.sent, r.fresh, r.logout)
           /\ [r EXCEPT !.step = s] \in Request
<1>1. /\ r.client \in Clients /\ r.sent \in Tokens
      /\ r.fresh \in Tokens \cup {None} /\ r.logout \in BOOLEAN
      /\ r = Step(r.step, r.client, r.sent, r.fresh, r.logout)
  BY RequestShape
<1>2. [r EXCEPT !.step = s] = Step(s, r.client, r.sent, r.fresh, r.logout)
  BY <1>1 DEF Step
<1>3. QED
  BY <1>1, <1>2, RequestMade

\* A session row that is made up is one.
LEMMA SessionMade ==
    /\ NewSession \in SessionRow
    /\ NoSession("unused") \in SessionRow /\ NoSession("gone") \in SessionRow
BY DEF NewSession, NoSession, SessionRow

\* The initial state is well typed.
LEMMA TypeInit == Init => TypeOK
<1>1. NoAppeal("free") \in FiledRow
  BY DEF NoAppeal, FiledRow
<1>2. QED
  BY <1>1, RequestMade, SessionMade DEF Init, TypeOK

\* Filing keeps the types.
LEMMA FilingTyped ==
    ASSUME TypeOK, NEW w \in Workers, FilingNext(w)
    PROVE  TypeOK'
<1> USE DEF TypeOK, Become, At
<1>1. ASSUME NEW c \in Clients, NEW t \in Tracks, NEW k \in Keys \cup {None},
             FileAppeal(w, c, t, k)
      PROVE  TypeOK'
  BY <1>1, RequestMade DEF FileAppeal
<1>2. ASSUME InsertAppeal(w) PROVE TypeOK'
  <2>1. /\ requests[w].client \in Clients /\ requests[w].track \in Tracks
        /\ requests[w].key \in Keys \cup {None}
    BY <1>2, RequestShape DEF InsertAppeal
  <2>2. Filed(requests[w].client, requests[w].track) \in Request
    BY <2>1, RequestMade
  <2>3. [state |-> "filed", key |-> requests[w].key, hmac |-> hmac] \in FiledRow
    BY <2>1 DEF FiledRow
  <2>4. QED
    BY <1>2, <2>2, <2>3 DEF InsertAppeal
<1>3. ASSUME AnswerFiled(w) PROVE TypeOK'
  BY <1>3, RequestMade, RequestShape DEF AnswerFiled
<1>4. QED
  BY <1>1, <1>2, <1>3 DEF FilingNext

\* Requests under a session keep the types.
LEMMA SessionTyped ==
    ASSUME TypeOK, NEW w \in Workers, SessionNext(w)
    PROVE  TypeOK'
<1> USE DEF TypeOK, Become, At
<1>0. requests[w] \in Request
  OBVIOUS
<1>1. ASSUME NEW c \in Clients, NEW t \in Tracks, NEW s \in Tokens, VerifyTrack(w, c, t, s)
      PROVE  TypeOK'
  BY <1>1, RequestMade, SessionMade DEF VerifyTrack
<1>2. ASSUME NEW c \in Clients, NEW logout \in BOOLEAN, UseSession(w, c, logout)
      PROVE  TypeOK'
  BY <1>2, RequestMade DEF UseSession
<1>4. ASSUME NEW s \in Tokens, RotateSession(w, s) PROVE TypeOK'
  <2> DEFINE r == requests[w]
  <2>1. /\ r.client \in Clients /\ r.sent \in Tokens /\ r.logout \in BOOLEAN
    BY <1>0, <1>4, RequestShape DEF RotateSession
  <2>2. Step("retire", r.client, r.sent, s, r.logout) \in Request
    BY <2>1, RequestMade
  <2>3. QED
    BY <1>4, <2>2, SessionMade DEF RotateSession
<1>5. ASSUME RotateFails(w) PROVE TypeOK'
  BY <1>0, <1>5, RequestMoves DEF RotateFails
<1>6. ASSUME RetireSession(w) PROVE TypeOK'
  BY <1>0, <1>6, RequestMoves, SessionMade DEF RetireSession, Delete
<1>7. ASSUME Serve(w) PROVE TypeOK'
  <2>1. [requests[w] EXCEPT !.step = "answer"] \in Request /\ requests[w].sent \in Tokens
    BY <1>0, <1>7, RequestMoves, RequestShape DEF Serve
  <2>2. sessions' \in [Tokens -> SessionRow]
    BY <1>7, SessionMade DEF Serve, Delete
  <2>3. ended' \subseteq Tokens
    BY <1>7, <2>1 DEF Serve
  <2>4. QED
    BY <1>7, <2>1, <2>2, <2>3 DEF Serve
<1>8. ASSUME Answer(w) PROVE TypeOK'
  BY <1>0, <1>8, RequestMade, RequestShape DEF Answer
<1>9. ASSUME AnswerEntered(w) PROVE TypeOK'
  BY <1>0, <1>9, RequestMade, RequestShape DEF AnswerEntered
<1>10. ASSUME UNCHANGED access PROVE TypeOK'
  BY <1>10 DEF access
<1>11. QED
  BY <1>1, <1>2, <1>4, <1>5, <1>6, <1>7, <1>8, <1>9, <1>10
     DEF SessionNext, VerifyRefused

\* Answers, time, the janitor and the configuration keep the types as well.
LEMMA TypeStep == TypeOK /\ [Next]_access => TypeOK'
<1> SUFFICES ASSUME TypeOK, [Next]_access PROVE TypeOK'
  OBVIOUS
<1>1. ASSUME NEW w \in Workers, FilingNext(w) \/ SessionNext(w) PROVE TypeOK'
  BY <1>1, FilingTyped, SessionTyped
<1>2. ASSUME NEW w \in Workers, Lose(w) PROVE TypeOK'
  <2>1. requests[w].step \in {"serve", "answer"} => requests[w].sent \in Tokens
    BY RequestShape DEF TypeOK
  <2>2. ended' \subseteq Tokens
    BY <1>2, <2>1 DEF Lose, TypeOK
  <2>3. QED
    BY <1>2, <2>2, RequestMade DEF Lose, TypeOK, Become
<1>3. ASSUME NEW s \in Tokens, Age(s) PROVE TypeOK'
  <2>1. sessions[s].age \in {0, 1}
    BY <1>3 DEF Age, Valid, Expired, TypeOK, SessionRow
  <2>2. [sessions[s] EXCEPT !.age = @ + 1] \in SessionRow
    BY <2>1 DEF TypeOK, SessionRow
  <2>3. QED
    BY <1>3, <2>2 DEF Age, TypeOK
<1>4. ASSUME PurgeExpiredSessions PROVE TypeOK'
  BY <1>4, SessionMade DEF PurgeExpiredSessions, TypeOK
<1>5. ASSUME NEW t \in Tracks, PurgeAppeal(t) PROVE TypeOK'
  BY <1>5 DEF PurgeAppeal, TypeOK, FiledRow, NoAppeal
<1>6. ASSUME EnableHmac PROVE TypeOK'
  BY <1>6 DEF EnableHmac, TypeOK
<1>7. CASE UNCHANGED access
  BY <1>7 DEF access, TypeOK
<1>8. QED
  BY <1>1, <1>2, <1>3, <1>4, <1>5, <1>6, <1>7 DEF Next

\* The model is well typed for any sets of browsers, requests, numbers and tokens.
THEOREM TypeCorrect == Spec => []TypeOK
BY TypeInit, TypeStep, PTL DEF Spec

-----------------------------------------------------------------------------
(* Filing                                                                  *)

\* A number that opens its appeal, or did until the purge.
Good(t) == LookupTrack(t) \/ filed[t].state = "erased" \/ t \in repeated

FilingInv ==
    /\ OneAppealPerKey
    /\ \A w \in Workers : At(w, "filed") => Good(requests[w].track)
    /\ \A c \in Clients : \A t \in numbers[c] : Good(t)

\* Nothing is filed in the beginning.
LEMMA FilingInit == Init => FilingInv
BY DEF Init, FilingInv, OneAppealPerKey, At, Idle, NoAppeal

\* No step makes a number bad that was good; the key of a filing is looked for
\* again by the insertion itself.
LEMMA FilingStep == TypeOK /\ FilingInv /\ [Next]_access => FilingInv'
<1> SUFFICES ASSUME TypeOK, FilingInv, [Next]_access PROVE FilingInv'
  OBVIOUS
<1> USE DEF FilingInv, Become, At
<1>1. ASSUME NEW w \in Workers, NEW c \in Clients, NEW t \in Tracks,
             NEW k \in Keys \cup {None}, FileAppeal(w, c, t, k)
      PROVE  FilingInv'
  <2>1. \A u \in Tracks : Good(u) => Good(u)'
    BY <1>1 DEF FileAppeal, Good, LookupTrack
  <2>2. At(w, "filed")' => Good(requests[w].track)'
    BY <1>1 DEF FileAppeal, Good, Filed, Filing, TypeOK
  <2>3. ASSUME NEW v \in Workers, v # w, At(v, "filed")' PROVE Good(requests[v].track)'
    <3>1. requests'[v] = requests[v] /\ requests[v].track \in Tracks
      BY <1>1, <2>3, RequestShape DEF FileAppeal, TypeOK
    <3>2. QED
      BY <2>1, <2>3, <3>1 DEF Good, LookupTrack
  <2>4. QED
    BY <1>1, <2>1, <2>2, <2>3 DEF FileAppeal, OneAppealPerKey, TypeOK
<1>2. ASSUME NEW w \in Workers, InsertAppeal(w) PROVE FilingInv'
  <2> DEFINE r == requests[w]
  <2>1. r.track \in Tracks /\ r.key \in Keys \cup {None} /\ ~KeyTaken(r.key)
    BY <1>2, RequestShape DEF InsertAppeal, TypeOK
  <2>2. filed' = [filed EXCEPT ![r.track] = [state |-> "filed", key |-> r.key, hmac |-> hmac]]
    BY <1>2 DEF InsertAppeal
  <2>3. OneAppealPerKey'
    BY <2>1, <2>2 DEF OneAppealPerKey, KeyTaken, TypeOK
  <2>4. \A u \in Tracks : (Good(u) => Good(u)') /\ (u = r.track => Good(u)')
    BY <1>2, <2>1, <2>2 DEF InsertAppeal, Good, LookupTrack, TypeOK
  <2>5. ASSUME NEW v \in Workers, At(v, "filed")' PROVE Good(requests[v].track)'
    <3>1. CASE v = w
      <4>1. requests'[v].track = r.track
        BY <1>2, <3>1 DEF InsertAppeal, Filed, TypeOK
      <4>2. QED
        BY <2>1, <2>4, <4>1 DEF Good, LookupTrack
    <3>2. CASE v # w
      <4>1. requests'[v] = requests[v] /\ requests[v].track \in Tracks
        BY <1>2, <2>5, <3>2, RequestShape DEF InsertAppeal, TypeOK
      <4>2. QED
        BY <2>4, <2>5, <4>1 DEF Good, LookupTrack
    <3>3. QED
      BY <3>1, <3>2
  <2>6. QED
    BY <1>2, <2>3, <2>4, <2>5 DEF InsertAppeal, TypeOK
<1>3. ASSUME NEW w \in Workers, AnswerFiled(w) PROVE FilingInv'
  <2>1. \A t : Good(t) => Good(t)'
    BY <1>3 DEF AnswerFiled, Good, LookupTrack
  <2>2. requests[w].client \in Clients /\ requests[w].track \in Tracks
    BY <1>3, RequestShape DEF AnswerFiled, TypeOK
  <2>3. \A v \in Workers : At(v, "filed")' => requests'[v] = requests[v]
    BY <1>3 DEF AnswerFiled, Idle, TypeOK
  <2>4. QED
    BY <1>3, <2>1, <2>2, <2>3 DEF AnswerFiled, OneAppealPerKey, TypeOK, Good, LookupTrack
<1>4. ASSUME NEW w \in Workers, SessionNext(w) \/ Lose(w) PROVE FilingInv'
  <2>1. UNCHANGED <<filed, hmac, numbers, repeated>>
    BY <1>4 DEF SessionNext, VerifyTrack, AnswerEntered, VerifyRefused, UseSession,
       RotateSession, RotateFails, RetireSession, Serve, Answer, Lose, access
  <2>2. UNCHANGED requests \/ (\E r : Become(w, r) /\ r.step # "filed")
    <3>1. CASE \/ \E c \in Clients, t \in Tracks, s \in Tokens : VerifyTrack(w, c, t, s)
               \/ AnswerEntered(w) \/ Answer(w) \/ Lose(w)
               \/ \E t \in Tracks : VerifyRefused(w, t)
      BY <3>1 DEF VerifyTrack, AnswerEntered, Answer, Lose, VerifyRefused, access,
                  Entered, Idle
    <3>2. CASE \/ \E c \in Clients, logout \in BOOLEAN : UseSession(w, c, logout)
               \/ \E s \in Tokens : RotateSession(w, s)
      <4>1. \A step, c, sent, fresh, logout : Step(step, c, sent, fresh, logout).step = step
        BY DEF Step
      <4>2. ASSUME NEW c \in Clients, NEW logout \in BOOLEAN, UseSession(w, c, logout)
            PROVE  \E r : Become(w, r) /\ r.step # "filed"
        <5> DEFINE step == IF sessions[cookie[c]].age = 0 THEN "serve" ELSE "rotate"
                   r == Step(step, c, cookie[c], None, logout)
        <5>1. Become(w, r)
          BY <4>2 DEF UseSession
        <5>2. r.step # "filed"
          BY <4>1
        <5> HIDE DEF r
        <5>3. QED
          BY <5>1, <5>2
      <4>4. ASSUME NEW s \in Tokens, RotateSession(w, s)
            PROVE  \E r : Become(w, r) /\ r.step # "filed"
        <5> DEFINE q == requests[w]
                   r == Step("retire", q.client, q.sent, s, q.logout)
        <5>1. Become(w, r)
          BY <4>4 DEF RotateSession
        <5>2. r.step # "filed"
          BY <4>1
        <5> HIDE DEF r
        <5>3. QED
          BY <5>1, <5>2
      <4>5. QED
        BY <3>2, <4>2, <4>4
    <3>3. CASE RotateFails(w) \/ RetireSession(w) \/ Serve(w)
      <4>1. [requests[w] EXCEPT !.step = "serve"].step # "filed"
            /\ [requests[w] EXCEPT !.step = "answer"].step # "filed"
        BY <3>3, RequestMoves DEF RotateFails, RetireSession, Serve, TypeOK, Step
      <4>2. QED
        BY <3>3, <4>1 DEF RotateFails, RetireSession, Serve
    <3>4. QED
      BY <1>4, <3>1, <3>2, <3>3 DEF SessionNext
  <2>3. \A v \in Workers : At(v, "filed")' => requests'[v] = requests[v]
    BY <2>2 DEF TypeOK
  <2>4. QED
    BY <2>1, <2>3 DEF OneAppealPerKey, Good, LookupTrack
<1>5. ASSUME NEW t \in Tracks, PurgeAppeal(t) PROVE FilingInv'
  <2>1. OneAppealPerKey'
    BY <1>5 DEF PurgeAppeal, OneAppealPerKey, NoAppeal, TypeOK
  <2>2. \A u \in Tracks : Good(u) => Good(u)'
    BY <1>5 DEF PurgeAppeal, Good, LookupTrack, NoAppeal, TypeOK
  <2>3. \A v \in Workers : At(v, "filed") => requests[v].track \in Tracks
    BY RequestShape DEF TypeOK
  <2>4. QED
    BY <1>5, <2>1, <2>2, <2>3 DEF PurgeAppeal, TypeOK, Good, LookupTrack
<1>6. ASSUME EnableHmac PROVE FilingInv'
  <2>1. \A u \in Tracks : Good(u) => Good(u)'
    BY <1>6 DEF EnableHmac, Good, LookupTrack
  <2>2. \A v \in Workers : At(v, "filed") => requests[v].track \in Tracks
    BY RequestShape DEF TypeOK
  <2>3. QED
    BY <1>6, <2>1, <2>2 DEF EnableHmac, OneAppealPerKey, TypeOK, Good, LookupTrack
<1>7. ASSUME (\E s \in Tokens : Age(s)) \/ PurgeExpiredSessions \/ UNCHANGED access
      PROVE  FilingInv'
  BY <1>7 DEF Age, PurgeExpiredSessions, access, OneAppealPerKey, Good, LookupTrack
<1>8. QED
  BY <1>1, <1>2, <1>3, <1>4, <1>5, <1>6, <1>7 DEF Next, FilingNext

\* One appeal per idempotency key, however many filings race.
THEOREM FilingIsIdempotent == Spec => []OneAppealPerKey
<1>1. TypeOK /\ FilingInv => OneAppealPerKey
  BY DEF FilingInv
<1>2. QED
  BY <1>1, TypeInit, TypeStep, FilingInit, FilingStep, PTL DEF Spec

\* The number answered by the filing that created the appeal opens it until it
\* is purged, whichever way it was hashed.
THEOREM NumbersOpen == Spec => []NumberOpensAppeal
<1>1. TypeOK /\ FilingInv => NumberOpensAppeal
  BY DEF FilingInv, NumberOpensAppeal, Good
<1>2. QED
  BY <1>1, TypeInit, TypeStep, FilingInit, FilingStep, PTL DEF Spec

-----------------------------------------------------------------------------
(* Sessions: who holds which token.  A fresh token is nobody's until it is *)
(* answered, and a token is only ever in one browser; that is why deleting *)
(* the token a request came with can hurt nobody but its own browser,      *)
(* which has the successor on its way.                                     *)

SessionSteps == {"rotate", "retire", "serve", "answer"}

SentOf(r) == IF r.step \in SessionSteps THEN r.sent ELSE None
FreshOf(r) == IF r.step \in SessionSteps \cup {"entered"} THEN r.fresh ELSE None

Sent(w) == SentOf(requests[w])
Fresh(w) == FreshOf(requests[w])

\* Excuses an invalid cookie of c: the answer with its successor.
Brings(r, c) ==
    /\ r.step \in {"serve", "answer"}
    /\ r.client = c /\ r.sent = cookie[c] /\ r.fresh # None

Kept(s) == Valid(s) \/ s \in ended

UnusedIsUnheld ==
    \A s \in Tokens :
        Unused(s) => /\ \A c \in Clients : cookie[c] # s
                     /\ \A w \in Workers : Sent(w) # s /\ Fresh(w) # s

CookiesDiffer ==
    \A c, d \in Clients : cookie[c] # None /\ cookie[c] = cookie[d] => c = d

SentIsOwn ==
    \A w \in Workers, c \in Clients :
        Sent(w) # None /\ Sent(w) = cookie[c] => requests[w].client = c

FreshIsNew ==
    \A w \in Workers :
        Fresh(w) # None =>
            /\ Kept(Fresh(w))
            /\ \A c \in Clients : cookie[c] # Fresh(w)
            /\ \A v \in Workers : Sent(v) # Fresh(w) /\ (v # w => Fresh(v) # Fresh(w))

RetireHasFresh == \A w \in Workers : At(w, "retire") => Fresh(w) # None

ClientsAreIn ==
    \A c \in Clients :
        cookie[c] # None /\ ~Kept(cookie[c]) =>
            \E w \in Workers : Brings(requests[w], c)

SInv ==
    /\ TypeOK
    /\ UnusedIsUnheld /\ CookiesDiffer /\ SentIsOwn /\ FreshIsNew
    /\ RetireHasFresh /\ ClientsAreIn

\* Nobody holds a token in the beginning.
LEMMA SessionInit == Init => SInv
<1> SUFFICES ASSUME Init PROVE SInv
  OBVIOUS
<1>1. TypeOK
  BY TypeInit
<1>2. \A w \in Workers : Sent(w) = None /\ Fresh(w) = None /\ ~At(w, "retire")
  BY DEF Init, Sent, Fresh, SentOf, FreshOf, SessionSteps, Idle, At
<1>3. \A c \in Clients : cookie[c] = None
  BY DEF Init
<1>4. QED
  BY <1>1, <1>2, <1>3
     DEF SInv, UnusedIsUnheld, CookiesDiffer, SentIsOwn, FreshIsNew, RetireHasFresh,
         ClientsAreIn

\* The tokens of a request.
LEMMA TokensOfRequest ==
    ASSUME NEW r \in Request
    PROVE  /\ SentOf(r) \in Tokens \cup {None} /\ FreshOf(r) \in Tokens \cup {None}
           /\ r.step \in SessionSteps =>
                 SentOf(r) = r.sent /\ FreshOf(r) = r.fresh /\ r.sent # None
           /\ r.step = "entered" => SentOf(r) = None /\ FreshOf(r) = r.fresh
           /\ r.step \notin SessionSteps \cup {"entered"} =>
                 SentOf(r) = None /\ FreshOf(r) = None
BY RequestShape DEF SentOf, FreshOf, SessionSteps

\* One request moves, the others are where they were.
LEMMA OneMoves ==
    ASSUME TypeOK, NEW w \in Workers, NEW r, Become(w, r)
    PROVE  /\ requests'[w] = r /\ Sent(w)' = SentOf(r) /\ Fresh(w)' = FreshOf(r)
           /\ \A v \in Workers : v # w =>
                 /\ requests'[v] = requests[v]
                 /\ Sent(v)' = Sent(v) /\ Fresh(v)' = Fresh(v)
BY DEF TypeOK, Become, Sent, Fresh, SentOf, FreshOf

\* Filing has nothing to do with tokens.
LEMMA FilingKeepsSessions ==
    ASSUME SInv, TypeOK', NEW w \in Workers, FilingNext(w)
    PROVE  SInv'
<1> USE DEF SInv
<1>1. UNCHANGED <<sessions, cookie, ended>>
  BY DEF FilingNext, FileAppeal, InsertAppeal, AnswerFiled
<1>2. PICK r : /\ Become(w, r)
               /\ r.step \in {"idle", "insert", "filed"}
               /\ requests[w].step \in {"idle", "insert", "filed"}
  <2>1. CASE \E c \in Clients, t \in Tracks, k \in Keys \cup {None} : FileAppeal(w, c, t, k)
    BY <2>1 DEF FileAppeal, Idle, Filing, Filed
  <2>2. CASE InsertAppeal(w)
    <3> DEFINE q == requests[w]
               r == Filed(q.client, q.track)
    <3>1. Become(w, r) /\ r.step = "filed" /\ requests[w].step = "insert"
      BY <2>2 DEF InsertAppeal, At, Filed
    <3> HIDE DEF r
    <3>2. QED
      BY <3>1
  <2>3. CASE AnswerFiled(w)
    BY <2>3 DEF AnswerFiled, At, Idle
  <2>4. QED
    BY <2>1, <2>2, <2>3 DEF FilingNext
<1>3. /\ SentOf(r) = None /\ FreshOf(r) = None /\ Sent(w) = None /\ Fresh(w) = None
  BY <1>2 DEF Sent, Fresh, SentOf, FreshOf, SessionSteps
<1>4. \A v \in Workers : Sent(v)' = Sent(v) /\ Fresh(v)' = Fresh(v)
  BY <1>2, <1>3, OneMoves
<1>5. UnusedIsUnheld' /\ CookiesDiffer' /\ FreshIsNew'
  BY <1>1, <1>4 DEF UnusedIsUnheld, CookiesDiffer, FreshIsNew, Unused, Kept, Valid, Live
<1>6. SentIsOwn' /\ RetireHasFresh'
  BY <1>1, <1>2, <1>3, <1>4, OneMoves DEF SentIsOwn, RetireHasFresh, At
<1>7. ClientsAreIn'
  BY <1>1, <1>2, OneMoves DEF ClientsAreIn, Brings, Kept, Valid, Live
<1>8. QED
  BY <1>5, <1>6, <1>7

\* A new token is put into a request, either for a number or for an old token.
LEMMA NewTokenKeeps ==
    ASSUME SInv, TypeOK', NEW w \in Workers, NEW s \in Tokens, NEW r \in Request,
           NEW row, Unused(s), row.state = "live", row.age = 0,
           sessions' = [sessions EXCEPT ![s] = row], cookie' = cookie, ended' = ended,
           Become(w, r), FreshOf(r) = s, SentOf(r) = Sent(w),
           SentOf(r) # None => r.client = requests[w].client,
           requests[w].step \notin {"serve", "answer"}
    PROVE  SInv'
<1> USE DEF SInv
<1>1. /\ s # None
      /\ sessions'[s] = row
      /\ \A u \in Tokens : u # s => sessions'[u] = sessions[u]
  BY DEF TypeOK
<1>2. Valid(s)' /\ ~Unused(s)'
  BY <1>1 DEF Valid, Live, Unused, Expired
<1>3. \A u \in Tokens : /\ u # s => (Unused(u)' <=> Unused(u)) /\ (Valid(u)' <=> Valid(u))
  BY <1>1 DEF Valid, Live, Unused
<1>4. /\ \A c \in Clients : cookie[c] # s
      /\ \A v \in Workers : Sent(v) # s /\ Fresh(v) # s
  BY DEF UnusedIsUnheld
<1>5. /\ Fresh(w)' = s /\ requests'[w] = r
      /\ \A v \in Workers : Sent(v)' = Sent(v)
      /\ \A v \in Workers : v # w => requests'[v] = requests[v] /\ Fresh(v)' = Fresh(v)
  BY OneMoves
<1>6. \A v \in Workers : Fresh(v) \in Tokens \cup {None}
  BY TokensOfRequest DEF TypeOK, Fresh
<1>7. UnusedIsUnheld'
  BY <1>2, <1>3, <1>4, <1>5 DEF UnusedIsUnheld
<1>8. CookiesDiffer' /\ SentIsOwn'
  BY <1>5 DEF CookiesDiffer, SentIsOwn
<1>9. FreshIsNew'
  <2>1. ASSUME NEW v \in Workers, v # w, Fresh(v)' # None
        PROVE  Kept(Fresh(v))'
    <3>1. Fresh(v) # s /\ Fresh(v) \in Tokens /\ Kept(Fresh(v)) /\ Fresh(v)' = Fresh(v)
      BY <1>4, <1>5, <1>6, <2>1 DEF FreshIsNew
    <3>2. QED
      BY <1>1, <3>1 DEF Kept, Valid, Live
  <2>2. Kept(Fresh(w))'
    BY <1>2, <1>5 DEF Kept, Valid, Live
  <2>3. QED
    BY <1>4, <1>5, <2>1, <2>2 DEF FreshIsNew
<1>10. RetireHasFresh'
  BY <1>1, <1>5 DEF RetireHasFresh, At
<1>11. ClientsAreIn'
  <2> SUFFICES ASSUME NEW c \in Clients, cookie[c] # None, ~Kept(cookie[c])'
               PROVE  \E v \in Workers : Brings(requests[v], c)'
    BY DEF ClientsAreIn
  <2>1. ~Kept(cookie[c])
    BY <1>1, <1>4 DEF Kept, Valid, Live, TypeOK
  <2>2. PICK v \in Workers : Brings(requests[v], c)
    BY <2>1 DEF ClientsAreIn
  <2>3. QED
    BY <1>5, <2>2 DEF Brings
<1>12. QED
  BY <1>7, <1>8, <1>9, <1>10, <1>11

\* Whatever moves a request on without a new token and spoils at most the token it
\* came with, and that only while it has the successor for its own browser.
LEMMA MovingOnKeeps ==
    ASSUME SInv, TypeOK', NEW w \in Workers, NEW r \in Request, Become(w, r),
           \A s \in Tokens : Unused(s)' => Unused(s),
           \A s \in Tokens : Kept(s) => Kept(s)' \/ s = Sent(w),
           \A c \in Clients :
              cookie'[c] = cookie[c] \/ cookie'[c] = None
                 \/ (c = requests[w].client /\ cookie'[c] = Fresh(w)),
           cookie' = cookie \/ (SentOf(r) = None /\ FreshOf(r) = None),
           FreshOf(r) \in {None, Fresh(w)},
           \/ SentOf(r) = None
           \/ SentOf(r) = Sent(w) /\ r.client = requests[w].client
           \/ r.client \in Clients /\ SentOf(r) = cookie[r.client],
           r.step = "retire" => FreshOf(r) # None,
           \/ /\ \A s \in Tokens : Kept(s) => Kept(s)'
              /\ requests[w].step \notin {"serve", "answer"}
           \/ \A c \in Clients, s \in Tokens :
                 cookie'[c] = s /\ s = Sent(w) /\ ~Kept(s)' =>
                    \/ /\ r.step \in {"serve", "answer"}
                       /\ r.client = c /\ r.sent = s /\ r.fresh # None
                    \/ ~Kept(s) /\ ~Brings(requests[w], c)
    PROVE  SInv'
<1> USE DEF SInv
<1>1. /\ requests'[w] = r /\ Sent(w)' = SentOf(r) /\ Fresh(w)' = FreshOf(r)
      /\ \A v \in Workers : v # w =>
            requests'[v] = requests[v] /\ Sent(v)' = Sent(v) /\ Fresh(v)' = Fresh(v)
  BY OneMoves
<1>2. \A v \in Workers : Fresh(v) \in Tokens \cup {None} /\ Sent(v) \in Tokens \cup {None}
  BY TokensOfRequest DEF TypeOK, Fresh, Sent
<1>3. \A c \in Clients : cookie[c] \in Tokens \cup {None} /\ cookie'[c] \in Tokens \cup {None}
  BY DEF TypeOK
<1>4. UnusedIsUnheld'
  BY <1>1, <1>2 DEF UnusedIsUnheld
<1>5. CookiesDiffer'
  BY <1>2, <1>3 DEF CookiesDiffer, FreshIsNew
<1>6. SentIsOwn'
  <2>1. CASE cookie' = cookie
    BY <1>1, <2>1 DEF SentIsOwn, CookiesDiffer
  <2>2. CASE SentOf(r) = None /\ FreshOf(r) = None
    <3> SUFFICES ASSUME NEW v \in Workers, NEW c \in Clients, v # w,
                        Sent(v) # None, Sent(v) = cookie'[c]
                 PROVE  requests[v].client = c
      BY <1>1, <2>2 DEF SentIsOwn
    <3>1. cookie'[c] = cookie[c]
      BY <1>2 DEF FreshIsNew
    <3>2. QED
      BY <3>1 DEF SentIsOwn
  <2>3. QED
    BY <2>1, <2>2
<1>7. FreshIsNew'
  <2>1. ASSUME NEW v \in Workers, Fresh(v)' # None
        PROVE  Fresh(v)' = Fresh(v) /\ Fresh(v) \in Tokens
    BY <1>1, <1>2, <2>1
  <2>2. ASSUME NEW v \in Workers, Fresh(v)' # None PROVE Kept(Fresh(v))'
    <3>1. Kept(Fresh(v)) /\ Fresh(v) # Sent(w) /\ Fresh(v) \in Tokens
      BY <2>1, <2>2 DEF FreshIsNew
    <3>2. \A s \in Tokens : s = Fresh(v) => Kept(s)'
      BY <3>1
    <3>3. QED
      BY <2>1, <2>2, <3>2 DEF Kept, Valid, Live
  <2>3. ASSUME NEW v \in Workers, Fresh(v)' # None, NEW c \in Clients
        PROVE  cookie'[c] # Fresh(v)'
    BY <1>1, <1>2, <2>1, <2>3 DEF FreshIsNew
  <2>4. ASSUME NEW v \in Workers, Fresh(v)' # None, NEW u \in Workers
        PROVE  Sent(u)' # Fresh(v)' /\ (u # v => Fresh(u)' # Fresh(v)')
    BY <1>1, <1>2, <1>3, <2>1, <2>4 DEF FreshIsNew
  <2>5. QED
    BY <2>2, <2>3, <2>4 DEF FreshIsNew
<1>8. RetireHasFresh'
  BY <1>1 DEF RetireHasFresh, At
<1>9. ClientsAreIn'
  <2> SUFFICES ASSUME NEW c \in Clients, cookie'[c] # None, ~Kept(cookie[c])'
               PROVE  \E v \in Workers : Brings(requests[v], c)'
    BY DEF ClientsAreIn
  <2>1. cookie'[c] = cookie[c]
    <3>1. ASSUME cookie'[c] = Fresh(w) PROVE FALSE
      <4>1. Kept(Fresh(w)) /\ Fresh(w) # Sent(w) /\ Fresh(w) \in Tokens
        BY <1>2, <3>1 DEF FreshIsNew
      <4>2. \A s \in Tokens : s = cookie'[c] => Kept(s)'
        BY <3>1, <4>1
      <4>3. QED
        BY <1>3, <4>2 DEF Kept, Valid, Live
    <3>2. QED
      BY <3>1
  <2>2. cookie[c] \in Tokens /\ \A s \in Tokens : s = cookie[c] => ~Kept(s)'
    BY <1>3, <2>1 DEF Kept, Valid, Live
  <2>3. CASE Kept(cookie[c])
    <3>1. cookie[c] = Sent(w)
      BY <2>2, <2>3 DEF Kept, Valid, Live
    <3>2. ~(\A s \in Tokens : Kept(s) => Kept(s)')
      BY <2>2, <2>3
    <3>3. QED
      BY <1>1, <2>1, <2>2, <3>1, <3>2 DEF Brings
  <2>4. CASE ~Kept(cookie[c])
    <3>1. PICK v \in Workers : Brings(requests[v], c)
      BY <2>1, <2>4 DEF ClientsAreIn
    <3>2. CASE v # w
      BY <1>1, <2>1, <3>1, <3>2 DEF Brings
    <3>3. CASE v = w
      <4>1. Sent(w) = cookie[c] /\ requests[w].step \in {"serve", "answer"}
        BY <3>1, <3>3 DEF Brings, Sent, SentOf, SessionSteps
      <4>2. QED
        BY <1>1, <2>1, <2>2, <3>1, <3>3, <4>1 DEF Brings
    <3>4. QED
      BY <3>2, <3>3
  <2>5. QED
    BY <2>3, <2>4
<1>10. QED
  BY <1>4, <1>5, <1>6, <1>7, <1>8, <1>9

\* New tokens: a number is entered, a session is refreshed.
LEMMA NewTokens ==
    ASSUME SInv, TypeOK', NEW w \in Workers, NEW s \in Tokens,
           \/ \E c \in Clients, t \in Tracks : VerifyTrack(w, c, t, s)
           \/ RotateSession(w, s)
    PROVE  SInv'
<1>1. requests[w] \in Request
  BY DEF SInv, TypeOK
<1>2. ASSUME NEW c \in Clients, NEW t \in Tracks, VerifyTrack(w, c, t, s) PROVE SInv'
  <2> DEFINE r == Entered(c, s)
             row == NewSession
  <2>1. r \in Request /\ r.step = "entered" /\ r.fresh = s
    BY RequestMade DEF Entered
  <2>2. FreshOf(r) = s /\ SentOf(r) = None /\ Sent(w) = None /\ requests[w].step = "idle"
    BY <1>2, <2>1 DEF VerifyTrack, Idle, FreshOf, SentOf, Sent, SessionSteps
  <2>3. row.state = "live" /\ row.age = 0 /\ Unused(s)
    BY <1>2 DEF NewSession, VerifyTrack
  <2>4. /\ sessions' = [sessions EXCEPT ![s] = row]
        /\ Become(w, r) /\ cookie' = cookie /\ ended' = ended
    BY <1>2 DEF VerifyTrack
  <2> HIDE DEF r, row
  <2>5. QED
    BY <2>1, <2>2, <2>3, <2>4, NewTokenKeeps
<1>3. ASSUME RotateSession(w, s) PROVE SInv'
  <2> DEFINE q == requests[w]
             r == Step("retire", q.client, q.sent, s, q.logout)
             row == NewSession
  <2>1. q.step = "rotate" /\ q.client \in Clients /\ q.sent \in Tokens /\ q.logout \in BOOLEAN
    BY <1>1, <1>3, RequestShape DEF RotateSession, At
  <2>2. r \in Request /\ r.step = "retire" /\ r.fresh = s /\ r.sent = q.sent
        /\ r.client = q.client
    BY <2>1, RequestMade DEF Step
  <2>3. FreshOf(r) = s /\ SentOf(r) = Sent(w)
    BY <2>1, <2>2 DEF FreshOf, SentOf, Sent, SessionSteps
  <2>4. row.state = "live" /\ row.age = 0 /\ Unused(s)
    BY <1>3 DEF NewSession, RotateSession
  <2>5. /\ sessions' = [sessions EXCEPT ![s] = row]
        /\ Become(w, r) /\ cookie' = cookie /\ ended' = ended
    BY <1>3 DEF RotateSession
  <2> HIDE DEF r, row
  <2>6. QED
    BY <2>1, <2>2, <2>3, <2>4, <2>5, NewTokenKeeps
<1>4. QED
  BY <1>2, <1>3

\* A request comes with the cookie of its browser.
LEMMA NewRequests ==
    ASSUME SInv, TypeOK', NEW w \in Workers, NEW c \in Clients,
           \E logout \in BOOLEAN : UseSession(w, c, logout)
    PROVE  SInv'
<1>1. requests[w] = Idle /\ UNCHANGED <<sessions, cookie, ended>> /\ cookie[c] \in Tokens
  BY DEF UseSession, SInv, TypeOK
<1>2. Fresh(w) = None /\ Sent(w) = None /\ requests[w].step \notin {"serve", "answer"}
  BY <1>1 DEF Idle, Fresh, Sent, FreshOf, SentOf, SessionSteps
<1>3. \A s \in Tokens : (Unused(s)' <=> Unused(s)) /\ (Kept(s)' <=> Kept(s))
  BY <1>1 DEF Unused, Kept, Valid, Live
<1>4. ASSUME NEW step \in {"serve", "rotate"}, NEW logout \in BOOLEAN,
             Become(w, Step(step, c, cookie[c], None, logout))
      PROVE  SInv'
  <2> DEFINE r == Step(step, c, cookie[c], None, logout)
  <2>1. r \in Request /\ r.step = step /\ r.client = c /\ r.sent = cookie[c] /\ r.fresh = None
    BY <1>1, RequestMade DEF Step
  <2>2. FreshOf(r) = None /\ SentOf(r) = cookie[r.client]
    BY <2>1 DEF FreshOf, SentOf, SessionSteps
  <2>3. Become(w, r)
    BY <1>4
  <2> HIDE DEF r
  <2>4. /\ \A d \in Clients : cookie'[d] = cookie[d]
        /\ cookie' = cookie
        /\ \A s \in Tokens : (Unused(s)' => Unused(s)) /\ (Kept(s) => Kept(s)')
        /\ FreshOf(r) \in {None, Fresh(w)}
        /\ r.client \in Clients /\ SentOf(r) = cookie[r.client]
        /\ r.step # "retire"
    BY <1>1, <1>3, <2>1, <2>2
  <2>5. QED
    BY <1>2, <2>1, <2>3, <2>4, MovingOnKeeps
<1>5. QED
  BY <1>4 DEF UseSession

\* Answers end a request, lost or not.
LEMMA AnswersKeep ==
    ASSUME SInv, TypeOK', NEW w \in Workers, AnswerEntered(w) \/ Answer(w) \/ Lose(w)
    PROVE  SInv'
<1> DEFINE q == requests[w]
<1>0. AnswerEntered(w) \/ Answer(w) \/ Lose(w)
  OBVIOUS
<1>1. q \in Request /\ Become(w, Idle) /\ Idle \in Request /\ sessions' = sessions
  BY RequestMade DEF SInv, TypeOK, AnswerEntered, Answer, Lose
<1>2. FreshOf(Idle) = None /\ SentOf(Idle) = None /\ Idle.step = "idle"
  BY DEF Idle, FreshOf, SentOf, SessionSteps
<1>3. \A s \in Tokens : (Unused(s)' <=> Unused(s)) /\ (Kept(s) => Kept(s)')
  BY <1>1 DEF Unused, Kept, Valid, Live, AnswerEntered, Answer, Lose
<1>4. \A c \in Clients :
         cookie'[c] = cookie[c] \/ cookie'[c] = None \/ (c = q.client /\ cookie'[c] = Fresh(w))
  <2>1. CASE AnswerEntered(w)
    <3>1. Fresh(w) = q.fresh /\ q.client \in Clients
      BY <1>1, <2>1, TokensOfRequest, RequestShape DEF AnswerEntered, At, Fresh
    <3>2. cookie' = [cookie EXCEPT ![q.client] = Fresh(w)]
      BY <2>1, <3>1 DEF AnswerEntered
    <3>3. QED
      BY <3>1, <3>2 DEF SInv, TypeOK
  <2>2. CASE Answer(w)
    <3>1. Fresh(w) = q.fresh /\ q.client \in Clients
      BY <1>1, <2>2, TokensOfRequest, RequestShape DEF Answer, At, Fresh, SessionSteps
    <3>2. \/ cookie' = [cookie EXCEPT ![q.client] = None]
          \/ cookie' = [cookie EXCEPT ![q.client] = Fresh(w)]
          \/ cookie' = [cookie EXCEPT ![q.client] = @]
      BY <2>2, <3>1 DEF Answer
    <3>3. QED
      BY <3>1, <3>2 DEF SInv, TypeOK
  <2>3. CASE Lose(w)
    BY <2>3 DEF Lose
  <2>4. QED
    BY <1>0, <2>1, <2>2, <2>3
<1>5. ASSUME NEW c \in Clients, NEW s \in Tokens, cookie'[c] = s, ~Kept(s)',
             Brings(q, c)
      PROVE  s # Sent(w)
  <2>1. /\ q.step \in {"serve", "answer"} /\ q.client = c /\ q.fresh # None
        /\ q.sent = cookie[c] /\ Sent(w) = q.sent /\ Fresh(w) = q.fresh
    BY <1>1, <1>5, TokensOfRequest DEF Brings, Sent, Fresh, SessionSteps
  <2>2. CASE Answer(w)
    <3>1. cookie'[c] = None \/ cookie'[c] = q.fresh
      BY <2>1, <2>2 DEF Answer, SInv, TypeOK
    <3>2. q.fresh # Sent(w)
      BY <2>1 DEF SInv, FreshIsNew
    <3>3. QED
      BY <1>5, <3>1, <3>2
  <2>3. CASE Lose(w)
    BY <1>5, <2>1, <2>3 DEF Lose, Kept
  <2>4. QED
    BY <2>1, <2>2, <2>3 DEF AnswerEntered, At
<1>6. QED
  BY <1>1, <1>2, <1>3, <1>4, <1>5, MovingOnKeeps

\* A request moves on, with the tokens it has.
LEMMA StepsKeep ==
    ASSUME SInv, TypeOK', NEW w \in Workers, RotateFails(w) \/ RetireSession(w) \/ Serve(w)
    PROVE  SInv'
<1> DEFINE q == requests[w]
<1>1. /\ q \in Request /\ q.step \in {"rotate", "retire", "serve"} /\ cookie' = cookie
      /\ q.sent \in Tokens /\ q.client \in Clients /\ Sent(w) = q.sent /\ Fresh(w) = q.fresh
  BY TokensOfRequest, RequestShape
     DEF SInv, TypeOK, RotateFails, RetireSession, Serve, At, Sent, Fresh, SessionSteps
<1>2. PICK step \in {"serve", "answer"} :
         /\ Become(w, [q EXCEPT !.step = step])
         /\ step = "answer" <=> q.step = "serve"
  BY <1>1 DEF RotateFails, RetireSession, Serve, At
<1> DEFINE r == [q EXCEPT !.step = step]
<1>3. /\ r \in Request /\ r.step = step /\ r.client = q.client
      /\ r.sent = q.sent /\ r.fresh = q.fresh
  <2>1. r \in Request /\ r = Step(step, q.client, q.sent, q.fresh, q.logout)
    BY <1>1, RequestMoves
  <2>2. QED
    BY <2>1 DEF Step
<1>4. FreshOf(r) = Fresh(w) /\ SentOf(r) = Sent(w)
  BY <1>1, <1>3 DEF FreshOf, SentOf, SessionSteps
<1>5. sessions' = sessions \/ sessions' = [sessions EXCEPT ![q.sent] = NoSession("gone")]
  BY DEF RotateFails, RetireSession, Serve, Delete
<1>6. \A s \in Tokens : Unused(s)' => Unused(s)
  BY <1>1, <1>5 DEF Unused, NoSession, SInv, TypeOK
<1>7. \A s \in Tokens : Kept(s) => Kept(s)' \/ s = q.sent
  BY <1>1, <1>5 DEF RotateFails, RetireSession, Serve, Kept, Valid, Live, SInv, TypeOK
<1>8. CASE RotateFails(w)
  <2>1. (\A s \in Tokens : Kept(s) => Kept(s)') /\ q.step = "rotate"
    BY <1>8 DEF RotateFails, Kept, Valid, Live, At
  <2>2. Become(w, r)
    BY <1>2
  <2> HIDE DEF r
  <2>3. QED
    BY <1>1, <1>3, <1>4, <1>6, <1>7, <2>1, <2>2, MovingOnKeeps
<1>9. CASE RetireSession(w)
  <2>1. r.fresh # None /\ r.step = "serve"
    BY <1>1, <1>2, <1>3, <1>9 DEF RetireSession, At, SInv, RetireHasFresh
  <2>2. \A c \in Clients : cookie[c] = q.sent => r.client = c
    BY <1>1, <1>3 DEF SInv, SentIsOwn
  <2>3. Become(w, r)
    BY <1>2
  <2> HIDE DEF r
  <2>4. QED
    BY <1>1, <1>3, <1>4, <1>6, <1>7, <2>1, <2>2, <2>3, MovingOnKeeps
<1>10. CASE Serve(w)
  <2>1. Become(w, r) /\ r.step = "answer"
    BY <1>1, <1>2, <1>3, <1>10 DEF Serve, At
  <2>2. \A s \in Tokens : Kept(s) => Kept(s)'
    BY <1>1, <1>5, <1>10 DEF Serve, Kept, Valid, Live, SInv, TypeOK
  <2>3. ASSUME NEW c \in Clients, NEW s \in Tokens, s = Sent(w), ~Kept(s)', Brings(q, c)
        PROVE  r.client = c /\ r.sent = s /\ r.fresh # None
    BY <1>1, <1>3, <2>3 DEF Brings
  <2> HIDE DEF r
  <2>4. QED
    BY <1>1, <1>3, <1>4, <1>6, <2>1, <2>2, <2>3, MovingOnKeeps
<1>11. QED
  BY <1>8, <1>9, <1>10

\* Time and the janitor touch no token that is good.
LEMMA TimeKeeps ==
    ASSUME SInv, TypeOK', (\E s \in Tokens : Age(s)) \/ PurgeExpiredSessions
    PROVE  SInv'
<1>1. UNCHANGED <<requests, cookie>>
  BY DEF Age, PurgeExpiredSessions
<1>2. \A s \in Tokens : Unused(s)' => Unused(s)
  BY DEF Age, PurgeExpiredSessions, Unused, NoSession, SInv, TypeOK, SessionRow, Valid, Live
<1>3. \A s \in Tokens : Kept(s) => Kept(s)'
  BY DEF Age, PurgeExpiredSessions, Kept, Valid, Live, SInv, TypeOK, SessionRow
<1>4. /\ \A w \in Workers : Sent(w)' = Sent(w) /\ Fresh(w)' = Fresh(w)
      /\ \A w \in Workers : Fresh(w) \in Tokens \cup {None}
      /\ \A c \in Clients : cookie[c] \in Tokens \cup {None}
  BY <1>1, TokensOfRequest DEF Sent, Fresh, SentOf, FreshOf, SInv, TypeOK
<1>5. UnusedIsUnheld' /\ CookiesDiffer' /\ SentIsOwn' /\ RetireHasFresh'
  BY <1>1, <1>2, <1>4
     DEF SInv, UnusedIsUnheld, CookiesDiffer, SentIsOwn, RetireHasFresh, At
<1>6. FreshIsNew'
  <2>1. ASSUME NEW w \in Workers, Fresh(w)' # None PROVE Kept(Fresh(w))'
    <3>1. Kept(Fresh(w)) /\ Fresh(w) \in Tokens /\ Fresh(w)' = Fresh(w)
      BY <1>4, <2>1 DEF SInv, FreshIsNew
    <3>2. \A s \in Tokens : s = Fresh(w) => Kept(s)'
      BY <1>3, <3>1
    <3>3. QED
      BY <3>1, <3>2 DEF Kept, Valid, Live
  <2>2. QED
    BY <1>1, <1>4, <2>1 DEF SInv, FreshIsNew
<1>7. ClientsAreIn'
  <2> SUFFICES ASSUME NEW c \in Clients, cookie[c] # None, ~Kept(cookie[c])'
               PROVE  ~Kept(cookie[c])
    BY <1>1 DEF SInv, ClientsAreIn, Brings
  <2>1. \A s \in Tokens : s = cookie[c] => ~Kept(s)'
    BY <1>1 DEF Kept, Valid, Live
  <2>2. QED
    BY <1>3, <1>4, <2>1
<1>8. QED
  BY <1>5, <1>6, <1>7 DEF SInv

\* No step takes a token from the browser that relies on it.
LEMMA SessionStep == SInv /\ [Next]_access => SInv'
<1> SUFFICES ASSUME SInv, [Next]_access PROVE SInv'
  OBVIOUS
<1>1. TypeOK'
  BY TypeStep DEF SInv
<1>2. ASSUME NEW w \in Workers, FilingNext(w) PROVE SInv'
  BY <1>1, <1>2, FilingKeepsSessions
<1>3. CASE UNCHANGED <<sessions, requests, cookie, ended>>
  BY <1>1, <1>3
     DEF SInv, UnusedIsUnheld, CookiesDiffer, SentIsOwn, FreshIsNew, RetireHasFresh,
         ClientsAreIn, Unused, Kept, Valid, Live, Sent, Fresh, Brings, At
<1>4. ASSUME NEW w \in Workers, SessionNext(w) \/ Lose(w) PROVE SInv'
  <2>1. CASE \E c \in Clients, t \in Tracks, s \in Tokens : VerifyTrack(w, c, t, s)
    BY <1>1, <2>1, NewTokens
  <2>2. CASE \E s \in Tokens : RotateSession(w, s)
    BY <1>1, <2>2, NewTokens
  <2>3. CASE \E c \in Clients, logout \in BOOLEAN : UseSession(w, c, logout)
    BY <1>1, <2>3, NewRequests
  <2>4. CASE AnswerEntered(w) \/ Answer(w) \/ Lose(w)
    BY <1>1, <2>4, AnswersKeep
  <2>5. CASE RotateFails(w) \/ RetireSession(w) \/ Serve(w)
    BY <1>1, <2>5, StepsKeep
  <2>6. CASE \E t \in Tracks : VerifyRefused(w, t)
    BY <1>3, <2>6 DEF VerifyRefused, access
  <2>7. QED
    BY <1>4, <2>1, <2>2, <2>3, <2>4, <2>5, <2>6 DEF SessionNext
<1>5. ASSUME (\E s \in Tokens : Age(s)) \/ PurgeExpiredSessions PROVE SInv'
  BY <1>1, <1>5, TimeKeeps
<1>6. ASSUME (\E t \in Tracks : PurgeAppeal(t)) \/ EnableHmac \/ UNCHANGED access PROVE SInv'
  BY <1>3, <1>6 DEF PurgeAppeal, EnableHmac, access
<1>7. QED
  BY <1>2, <1>4, <1>5, <1>6 DEF Next

\* Concurrent requests, lost answers and the janitor never throw an applicant out
\* of a session that a refresh has prolonged.
THEOREM RefreshIsSafe == Spec => []RefreshKeepsClientIn
<1>1. SInv => RefreshKeepsClientIn
  BY DEF SInv, ClientsAreIn, RefreshKeepsClientIn, Kept, Brings, Pending, Idle
<1>2. QED
  BY <1>1, SessionInit, SessionStep, PTL DEF Spec
=============================================================================
