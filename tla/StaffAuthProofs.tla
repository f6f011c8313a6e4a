-------------------------- MODULE StaffAuthProofs --------------------------
(***************************************************************************)
(* Proofs about StaffAuth, for any sets of accounts, requests, tokens,     *)
(* secrets and passwords.                                                  *)
(***************************************************************************)
EXTENDS StaffAuth, TLAPS

USE StaffAssumption

SessionSteps ==
    {"admit", "password", "update", "drop", "setup", "write", "enable", "confirm",
     "disable", "erase"}

\* A request has a user, and its session is hers as long as it is alive.
RequestOK(w) ==
    LET r == requests[w]
    IN  /\ r.step # "idle" => r.user \in Users
        /\ r.step = "admit" => r.kind \in Kinds
        /\ r.step \in SessionSteps =>
              /\ r.session \in Tokens
              /\ sessions[r.session].state # "unused"
              /\ Live(r.session) => sessions[r.session].user = r.user

Shape ==
    /\ TypeOK
    /\ \A w \in Workers : RequestOK(w)
    /\ \A s \in Tokens : Live(s) => sessions[s].user \in Users

\* What requests are made of.
LEMMA RequestMade ==
    /\ Idle \in Request /\ Idle.step = "idle"
    /\ \A u \in Users, row \in UserRow :
          LoginOf(u, row) \in Request /\ LoginOf(u, row).step = "factor"
            /\ LoginOf(u, row).user = u /\ LoginOf(u, row).pwd = row.pwd
            /\ LoginOf(u, row).epoch = row.epoch
    /\ \A u \in Users, s \in Tokens, kind \in Kinds :
          RequestOf(u, s, kind) \in Request /\ RequestOf(u, s, kind).step = "admit"
            /\ RequestOf(u, s, kind).user = u /\ RequestOf(u, s, kind).session = s
            /\ RequestOf(u, s, kind).kind = kind
    /\ \A r \in Request, s \in Steps :
          Moved(r, s) \in Request /\ Moved(r, s).step = s /\ Moved(r, s).user = r.user
            /\ Moved(r, s).session = r.session /\ Moved(r, s).kind = r.kind
            /\ Moved(r, s).late = r.late /\ Moved(r, s).pwd = r.pwd
            /\ Moved(r, s).epoch = r.epoch
    /\ \A r \in Request, p \in Passwords \cup {None} :
          [r EXCEPT !.pwd = p] \in Request /\ [r EXCEPT !.pwd = p].step = r.step
            /\ [r EXCEPT !.pwd = p].user = r.user /\ [r EXCEPT !.pwd = p].session = r.session
    /\ \A r \in Request :
          [r EXCEPT !.late = TRUE] \in Request /\ [r EXCEPT !.late = TRUE].step = r.step
            /\ [r EXCEPT !.late = TRUE].user = r.user
            /\ [r EXCEPT !.late = TRUE].session = r.session
            /\ [r EXCEPT !.late = TRUE].kind = r.kind
            /\ [r EXCEPT !.late = TRUE].pwd = r.pwd
            /\ [r EXCEPT !.late = TRUE].late = TRUE
<1>1. Idle \in Request /\ Idle.step = "idle"
  BY DEF Idle, Request, Steps
<1>2. ASSUME NEW u \in Users, NEW row \in UserRow
      PROVE  /\ LoginOf(u, row) \in Request /\ LoginOf(u, row).step = "factor"
             /\ LoginOf(u, row).user = u /\ LoginOf(u, row).pwd = row.pwd
             /\ LoginOf(u, row).epoch = row.epoch
  BY <1>2 DEF LoginOf, Request, Steps, UserRow
<1>3. ASSUME NEW u \in Users, NEW s \in Tokens, NEW kind \in Kinds
      PROVE  /\ RequestOf(u, s, kind) \in Request /\ RequestOf(u, s, kind).step = "admit"
             /\ RequestOf(u, s, kind).user = u /\ RequestOf(u, s, kind).session = s
             /\ RequestOf(u, s, kind).kind = kind
  <2>1. 0 \in 0..MaxEpoch
    OBVIOUS
  <2>2. QED
    BY <1>3, <2>1 DEF RequestOf, Request, Steps
<1>4. ASSUME NEW r \in Request, NEW s \in Steps
      PROVE  /\ Moved(r, s) \in Request /\ Moved(r, s).step = s /\ Moved(r, s).user = r.user
             /\ Moved(r, s).session = r.session /\ Moved(r, s).kind = r.kind
             /\ Moved(r, s).late = r.late /\ Moved(r, s).pwd = r.pwd
             /\ Moved(r, s).epoch = r.epoch
  BY <1>4 DEF Moved, Request
<1>5. ASSUME NEW r \in Request, NEW p \in Passwords \cup {None}
      PROVE  /\ [r EXCEPT !.pwd = p] \in Request /\ [r EXCEPT !.pwd = p].step = r.step
             /\ [r EXCEPT !.pwd = p].user = r.user /\ [r EXCEPT !.pwd = p].session = r.session
  BY <1>5 DEF Request
<1>6. ASSUME NEW r \in Request
      PROVE  /\ [r EXCEPT !.late = TRUE] \in Request /\ [r EXCEPT !.late = TRUE].step = r.step
             /\ [r EXCEPT !.late = TRUE].user = r.user
             /\ [r EXCEPT !.late = TRUE].session = r.session
             /\ [r EXCEPT !.late = TRUE].kind = r.kind
             /\ [r EXCEPT !.late = TRUE].pwd = r.pwd
             /\ [r EXCEPT !.late = TRUE].late = TRUE
  BY <1>6 DEF Request
<1>7. QED
  BY <1>1, <1>2, <1>3, <1>4, <1>5, <1>6

\* What rows are made of.
LEMMA RowsMade ==
    /\ NoSession("gone") \in SessionRow /\ NoSession("unused") \in SessionRow
    /\ NoSession("gone").state = "gone" /\ NoSession("unused").state = "unused"
    /\ NoFactor \in FactorRow /\ NoFactor.enabled = FALSE /\ NoFactor.secret = None
    /\ \A secret \in Secrets : [secret |-> secret, enabled |-> FALSE] \in FactorRow
    /\ \A f \in FactorRow : [f EXCEPT !.enabled = TRUE] \in FactorRow
    /\ \A row \in UserRow :
          [row EXCEPT !.must = FALSE] \in UserRow /\ [row EXCEPT !.must = TRUE] \in UserRow
            /\ [row EXCEPT !.active = TRUE] \in UserRow
    /\ \A row \in SessionRow, e \in 0..MaxEpoch : [row EXCEPT !.epoch = e] \in SessionRow
<1>1. /\ NoSession("gone") \in SessionRow /\ NoSession("unused") \in SessionRow
      /\ NoSession("gone").state = "gone" /\ NoSession("unused").state = "unused"
  <2>1. 0 \in 0..MaxEpoch
    OBVIOUS
  <2>2. QED
    BY <2>1 DEF NoSession, SessionRow
<1>2. /\ NoFactor \in FactorRow /\ NoFactor.enabled = FALSE /\ NoFactor.secret = None
      /\ \A secret \in Secrets : [secret |-> secret, enabled |-> FALSE] \in FactorRow
      /\ \A f \in FactorRow : [f EXCEPT !.enabled = TRUE] \in FactorRow
  BY DEF NoFactor, FactorRow
<1>3. ASSUME NEW row \in UserRow
      PROVE  /\ [row EXCEPT !.must = FALSE] \in UserRow /\ [row EXCEPT !.must = TRUE] \in UserRow
             /\ [row EXCEPT !.active = TRUE] \in UserRow
  BY <1>3 DEF UserRow
<1>4. ASSUME NEW row \in SessionRow, NEW e \in 0..MaxEpoch
      PROVE  [row EXCEPT !.epoch = e] \in SessionRow
  BY <1>4 DEF SessionRow
<1>5. QED
  BY <1>1, <1>2, <1>3, <1>4

\* Nothing is there in the beginning but the demo accounts.
LEMMA ShapeInit == Init => Shape
<1> SUFFICES ASSUME Init PROVE Shape
  OBVIOUS
<1>1. \A u \in Users :
         [exists |-> u \in Demo, active |-> TRUE, must |-> u \in Demo,
          pwd |-> IF u \in Demo THEN SeedPwd ELSE None, epoch |-> 0] \in UserRow
  BY DEF UserRow
<1>2. TypeOK
  BY <1>1, RequestMade, RowsMade DEF Init, TypeOK
<1>3. QED
  BY <1>2, RequestMade, RowsMade DEF Init, Shape, RequestOK, SessionSteps, Live

\* A login keeps the shape.
LEMMA LoginShape ==
    ASSUME Shape, NEW w \in Workers, LoginNext(w)
    PROVE  Shape'
<1> USE DEF Shape, TypeOK, Become, Goto, At, history
<1>0. requests[w] \in Request
  OBVIOUS
<1>1. ASSUME NEW u \in Users, LoginReads(w, u) PROVE Shape'
  <2>1. LoginOf(u, users[u]) \in Request /\ LoginOf(u, users[u]).step = "factor"
        /\ LoginOf(u, users[u]).user = u
    BY RequestMade
  <2>2. TypeOK'
    BY <1>1, <2>1 DEF LoginReads
  <2>3. \A v \in Workers : RequestOK(v)'
    BY <1>1, <2>1 DEF LoginReads, RequestOK, Live, SessionSteps
  <2>4. QED
    BY <1>1, <2>2, <2>3 DEF LoginReads, Live
<1>2. ASSUME NEW code \in Secrets \cup {None}, LoginFactor(w, code) PROVE Shape'
  <2> DEFINE r == Moved(requests[w], "reconcile")
  <2>1. r \in Request /\ r.step = "reconcile" /\ r.user = requests[w].user
        /\ Idle \in Request /\ Idle.step = "idle"
    BY <1>0, RequestMade DEF Steps
  <2>2. requests' = [requests EXCEPT ![w] = Idle] \/ requests' = [requests EXCEPT ![w] = r]
    BY <1>2 DEF LoginFactor
  <2>3. requests[w].user \in Users
    BY <1>2 DEF LoginFactor, RequestOK
  <2> HIDE DEF r
  <2>4. TypeOK'
    BY <1>2, <2>1, <2>2 DEF LoginFactor
  <2>5. \A v \in Workers : RequestOK(v)'
    BY <1>2, <2>1, <2>2, <2>3 DEF LoginFactor, RequestOK, Live, SessionSteps
  <2>6. QED
    BY <1>2, <2>4, <2>5 DEF LoginFactor, Live
<1>3. ASSUME LoginReconcile(w) PROVE Shape'
  <2> DEFINE r == Moved(requests[w], "insert")
  <2>1. r \in Request /\ r.step = "insert" /\ r.user = requests[w].user
    BY <1>0, RequestMade DEF Steps
  <2>2. requests' = [requests EXCEPT ![w] = r]
    BY <1>3 DEF LoginReconcile
  <2>3. requests[w].user \in Users
    BY <1>3 DEF LoginReconcile, RequestOK
  <2> HIDE DEF r
  <2>4. users' \in [Users -> UserRow]
    BY <1>3, <2>3, RowsMade DEF LoginReconcile
  <2>5. TypeOK'
    BY <1>3, <2>1, <2>2, <2>4 DEF LoginReconcile
  <2>6. \A v \in Workers : RequestOK(v)'
    BY <1>3, <2>1, <2>2, <2>3 DEF LoginReconcile, RequestOK, Live, SessionSteps
  <2>7. QED
    BY <1>3, <2>5, <2>6 DEF LoginReconcile, Live
<1>4. ASSUME NEW s \in Tokens, LoginInsert(w, s) PROVE Shape'
  <2> DEFINE row == [state |-> "live", user |-> requests[w].user, epoch |-> requests[w].epoch]
  <2>1. requests[w].user \in Users
    BY <1>4 DEF LoginInsert, RequestOK
  <2>2. row \in SessionRow /\ row.user = requests[w].user /\ row.state = "live"
    BY <1>0, <2>1 DEF Request, SessionRow
  <2>3. sessions' = [sessions EXCEPT ![s] = row] /\ requests' = [requests EXCEPT ![w] = Idle]
        /\ sessions[s].state = "unused"
    BY <1>4 DEF LoginInsert
  <2> HIDE DEF row
  <2>4. TypeOK'
    BY <1>4, <2>2, <2>3, RequestMade DEF LoginInsert
  <2>5. \A v \in Workers : RequestOK(v)'
    BY <2>2, <2>3, RequestMade DEF RequestOK, Live, SessionSteps
  <2>6. QED
    BY <2>1, <2>2, <2>3, <2>4, <2>5 DEF Live
<1>5. QED
  BY <1>1, <1>2, <1>3, <1>4 DEF LoginNext

\* A request goes on in the same session, for the same user.
GoesOn(v) ==
    /\ requests'[v].user = requests[v].user
    /\ requests'[v].session = requests[v].session
    /\ requests'[v].kind = requests[v].kind
    /\ requests[v].step = "idle" => requests'[v].step = "idle"
    /\ requests'[v].step \in SessionSteps => requests[v].step \in SessionSteps
    /\ requests'[v].step = "admit" => requests[v].step = "admit"

\* Steps that open no session keep the shape if they keep the types.
LEMMA ShapeKept ==
    ASSUME Shape, TypeOK',
           \A s \in Tokens : \/ sessions'[s].state = "gone"
                             \/ /\ sessions'[s].state = sessions[s].state
                                /\ sessions'[s].user = sessions[s].user,
           \A v \in Workers : requests'[v].step = "idle" \/ GoesOn(v) \/ RequestOK(v)'
    PROVE  Shape'
<1>1. \A v \in Workers : RequestOK(v)'
  BY DEF Shape, RequestOK, GoesOn, Live, SessionSteps
<1>2. \A s \in Tokens : Live(s)' => sessions'[s].user \in Users
  BY DEF Shape, Live
<1>3. QED
  BY <1>1, <1>2 DEF Shape

\* Deleting sessions keeps the table of them.
LEMMA Deleting ==
    ASSUME TypeOK, NEW S \in SUBSET Tokens, Delete(S)
    PROVE  /\ sessions' \in [Tokens -> SessionRow]
           /\ \A s \in S : sessions'[s].state = "gone"
           /\ \A s \in Tokens \ S : sessions'[s] = sessions[s]
<1>1. \A s \in S : sessions'[s] = NoSession("gone")
  BY DEF Delete
<1>2. \A s \in Tokens \ S : sessions'[s] = sessions[s]
  BY DEF Delete
<1>3. QED
  BY <1>1, <1>2, RowsMade DEF Delete, TypeOK

\* A step within a session, from one of its handler's steps to the next.
LEMMA Stepping ==
    ASSUME TypeOK, NEW w \in Workers, NEW s \in SessionSteps \ {"admit"},
           requests[w].step \in SessionSteps, Goto(w, s)
    PROVE  /\ requests' \in [Workers -> Request]
           /\ \A v \in Workers : GoesOn(v)
           /\ requests'[w] = Moved(requests[w], s)
           /\ \A v \in Workers \ {w} : requests'[v] = requests[v]
<1>1. requests[w] \in Request /\ s \in Steps
  BY DEF TypeOK, Steps, SessionSteps
<1>2. /\ Moved(requests[w], s) \in Request /\ Moved(requests[w], s).step = s
      /\ Moved(requests[w], s).user = requests[w].user
      /\ Moved(requests[w], s).session = requests[w].session
      /\ Moved(requests[w], s).kind = requests[w].kind
  BY <1>1, RequestMade
<1>3. requests' = [requests EXCEPT ![w] = Moved(requests[w], s)]
  BY DEF Goto, Become
<1>4. QED
  BY <1>2, <1>3 DEF TypeOK, GoesOn, SessionSteps

\* A request comes to its end.
LEMMA Ending ==
    ASSUME TypeOK, NEW w \in Workers, Become(w, Idle)
    PROVE  /\ requests' \in [Workers -> Request]
           /\ requests'[w] = Idle /\ Idle.step = "idle"
           /\ \A v \in Workers \ {w} : requests'[v] = requests[v]
           /\ \A v \in Workers : requests'[v].step = "idle" \/ GoesOn(v)
<1>1. requests' = [requests EXCEPT ![w] = Idle] /\ Idle \in Request /\ Idle.step = "idle"
  BY RequestMade DEF Become
<1>2. QED
  BY <1>1 DEF TypeOK, GoesOn

\* A request under a session, and the change of the password, keep the shape.
LEMMA PasswordShape ==
    ASSUME Shape, NEW w \in Workers, PasswordNext(w)
    PROVE  Shape'
<1>0. TypeOK /\ requests[w] \in Request
  BY DEF Shape, TypeOK
<1>1. ASSUME NEW s \in Tokens, NEW kind \in Kinds, UseSession(w, s, kind) PROVE Shape'
  <2> DEFINE r == RequestOf(sessions[s].user, s, kind)
  <2>1. sessions[s].user \in Users /\ sessions[s].state = "live"
    BY <1>1 DEF UseSession, Live, Shape
  <2>2. r \in Request /\ r.step = "admit" /\ r.user = sessions[s].user /\ r.session = s
        /\ r.kind = kind
    BY <2>1, RequestMade
  <2>3. requests' = [requests EXCEPT ![w] = r] /\ UNCHANGED <<users, totp, sessions, seed, issued, history>>
    BY <1>1 DEF UseSession, Become
  <2> HIDE DEF r
  <2>4. TypeOK'
    BY <1>0, <2>2, <2>3 DEF TypeOK, history
  <2>5. RequestOK(w)'
    BY <1>0, <2>1, <2>2, <2>3 DEF RequestOK, TypeOK, Live, SessionSteps
  <2>6. \A v \in Workers \ {w} : GoesOn(v)
    BY <1>0, <2>3 DEF GoesOn, TypeOK
  <2>7. QED
    BY <2>3, <2>4, <2>5, <2>6, ShapeKept
<1>2. ASSUME Admit(w) PROVE Shape'
  <2>1. requests[w].user \in Users /\ requests[w].kind \in Kinds /\ requests[w].step = "admit"
    BY <1>2 DEF Admit, At, Shape, RequestOK
  <2>2. Become(w, Idle) \/ (requests[w].kind # "work" /\ Goto(w, requests[w].kind))
    BY <1>2, Zenon DEF Admit
  <2>3. requests' \in [Workers -> Request]
        /\ \A v \in Workers : requests'[v].step = "idle" \/ GoesOn(v)
    BY <1>0, <2>1, <2>2, Ending, Stepping DEF Kinds, SessionSteps
  <2>4. worked' \subseteq Users
    BY <1>0, <1>2, <2>1 DEF Admit, TypeOK
  <2>5. TypeOK'
    BY <1>0, <1>2, <2>3, <2>4 DEF Admit, TypeOK
  <2>6. QED
    BY <1>2, <2>3, <2>5, ShapeKept DEF Admit
<1>3. ASSUME ProvePassword(w) PROVE Shape'
  <2> DEFINE r == [Moved(requests[w], "update") EXCEPT !.pwd = users[requests[w].user].pwd]
  <2>1. requests[w].user \in Users /\ requests[w].step = "password"
    BY <1>3 DEF ProvePassword, At, Shape, RequestOK
  <2>2. users[requests[w].user].pwd \in Passwords \cup {None}
    BY <1>0, <2>1 DEF TypeOK, UserRow
  <2>3. Moved(requests[w], "update") \in Request
        /\ Moved(requests[w], "update").step = "update"
        /\ Moved(requests[w], "update").user = requests[w].user
        /\ Moved(requests[w], "update").session = requests[w].session
    BY <1>0, RequestMade DEF Steps
  <2>4. r \in Request /\ r.step = "update" /\ r.user = requests[w].user
        /\ r.session = requests[w].session
    BY <2>2, <2>3, RequestMade
  <2>5. requests' = [requests EXCEPT ![w] = r] /\ UNCHANGED <<users, totp, sessions, seed, issued, history>>
    BY <1>3 DEF ProvePassword, Become
  <2> HIDE DEF r
  <2>6. TypeOK'
    BY <1>0, <2>4, <2>5 DEF TypeOK, history
  <2>7. RequestOK(w)'
    BY <1>0, <2>1, <2>4, <2>5 DEF RequestOK, TypeOK, Shape, Live, SessionSteps
  <2>8. \A v \in Workers \ {w} : GoesOn(v)
    BY <1>0, <2>5 DEF GoesOn, TypeOK
  <2>9. QED
    BY <2>5, <2>6, <2>7, <2>8, ShapeKept
<1>4. ASSUME NEW p \in Passwords, UpdatePassword(w, p) PROVE Shape'
  <2> DEFINE u == requests[w].user
             s == requests[w].session
             e == users[u].epoch + 1
             row == [exists |-> TRUE, active |-> users[u].active, must |-> FALSE,
                     pwd |-> p, epoch |-> e]
  <2>1. u \in Users /\ s \in Tokens /\ requests[w].step = "update"
    BY <1>4 DEF UpdatePassword, At, Shape, RequestOK, SessionSteps
  <2>2. e \in 0..MaxEpoch
    BY <1>0, <1>4, <2>1 DEF UpdatePassword, TypeOK, UserRow
  <2>3. row \in UserRow
    BY <1>0, <2>1, <2>2 DEF TypeOK, UserRow
  <2>4. users' = [users EXCEPT ![u] = row]
    BY <1>0, <1>4, <2>1 DEF UpdatePassword, TypeOK
  <2>5. sessions' = sessions \/ sessions' = [sessions EXCEPT ![s] = [sessions[s] EXCEPT !.epoch = e]]
    BY <1>0, <1>4, <2>1 DEF UpdatePassword, TypeOK
  <2>6. [sessions[s] EXCEPT !.epoch = e] \in SessionRow
        /\ [sessions[s] EXCEPT !.epoch = e].state = sessions[s].state
        /\ [sessions[s] EXCEPT !.epoch = e].user = sessions[s].user
    BY <1>0, <2>1, <2>2 DEF TypeOK, SessionRow
  <2>7. Goto(w, "drop") /\ changed' = changed \cup {u}
        /\ UNCHANGED <<totp, seed, issued, worked, spared, confirmed>>
    BY <1>4 DEF UpdatePassword, Goto
  <2>8. requests' \in [Workers -> Request] /\ \A v \in Workers : GoesOn(v)
    BY <1>0, <2>1, <2>7, Stepping DEF SessionSteps
  <2> HIDE DEF u, s, e, row
  <2>9. TypeOK'
    BY <1>0, <2>1, <2>3, <2>4, <2>5, <2>6, <2>7, <2>8 DEF TypeOK
  <2>10. \A t \in Tokens : sessions'[t].state = sessions[t].state
                           /\ sessions'[t].user = sessions[t].user
    BY <1>0, <2>5, <2>6 DEF TypeOK
  <2>11. QED
    BY <2>8, <2>9, <2>10, ShapeKept
<1>5. ASSUME DropSessions(w) PROVE Shape'
  <2> DEFINE S == SessionsOf(requests[w].user) \ {requests[w].session}
  <2>1. Delete(S) /\ S \in SUBSET Tokens /\ Become(w, Idle)
    BY <1>5 DEF DropSessions, SessionsOf
  <2> HIDE DEF S
  <2>2. TypeOK'
    BY <1>0, <1>5, <2>1, Deleting, Ending DEF DropSessions, TypeOK, history
  <2>3. QED
    BY <1>0, <2>1, <2>2, Deleting, Ending, ShapeKept
<1>6. QED
  BY <1>1, <1>2, <1>3, <1>4, <1>5 DEF PasswordNext

\* What a request leaves of those it has overtaken.
LEMMA Overtaking ==
    ASSUME TypeOK, NEW w \in Workers, NEW s \in Steps, Overtake(w, s)
    PROVE  /\ requests' \in [Workers -> Request]
           /\ requests'[w] = Idle
           /\ \A v \in Workers \ {w} :
                 requests'[v] = IF requests[v].user = requests[w].user /\ At(v, s)
                                THEN [requests[v] EXCEPT !.late = TRUE] ELSE requests[v]
           /\ \A v \in Workers \ {w} :
                 /\ requests'[v].step = requests[v].step
                 /\ requests'[v].user = requests[v].user
                 /\ requests'[v].session = requests[v].session
                 /\ requests'[v].kind = requests[v].kind
           /\ \A v \in Workers : requests'[v].step = "idle" \/ GoesOn(v)
<1>1. \A v \in Workers : requests[v] \in Request
  BY DEF TypeOK
<1>2. \A v \in Workers :
         /\ [requests[v] EXCEPT !.late = TRUE] \in Request
         /\ [requests[v] EXCEPT !.late = TRUE].step = requests[v].step
         /\ [requests[v] EXCEPT !.late = TRUE].user = requests[v].user
         /\ [requests[v] EXCEPT !.late = TRUE].session = requests[v].session
         /\ [requests[v] EXCEPT !.late = TRUE].kind = requests[v].kind
  BY <1>1, RequestMade
<1>3. /\ requests'[w] = Idle
      /\ \A v \in Workers \ {w} :
            requests'[v] = IF requests[v].user = requests[w].user /\ At(v, s)
                           THEN [requests[v] EXCEPT !.late = TRUE] ELSE requests[v]
  BY DEF Overtake
<1>4. requests' \in [Workers -> Request]
  BY <1>1, <1>2, <1>3, RequestMade DEF Overtake
<1>5. \A v \in Workers \ {w} :
         /\ requests'[v].step = requests[v].step
         /\ requests'[v].user = requests[v].user
         /\ requests'[v].session = requests[v].session
         /\ requests'[v].kind = requests[v].kind
  BY <1>2, <1>3
<1>6. \A v \in Workers : requests'[v].step = "idle" \/ GoesOn(v)
  BY <1>3, <1>5, RequestMade DEF GoesOn
<1>7. QED
  BY <1>3, <1>4, <1>5, <1>6

\* The handlers of the second factor keep the shape.
LEMMA FactorShape ==
    ASSUME Shape, NEW w \in Workers, FactorNext(w)
    PROVE  Shape'
<1>0. TypeOK /\ requests[w] \in Request
  BY DEF Shape, TypeOK
<1>a. /\ At(w, "setup") \/ At(w, "write") \/ At(w, "enable") \/ At(w, "confirm")
           \/ At(w, "disable") \/ At(w, "erase")
      /\ requests[w].step \in SessionSteps
  BY DEF FactorNext, SetupReads, SetupWrites, EnableReads, EnableWrites, DisableReads,
         DisableWrites, At, SessionSteps
<1>b. requests[w].user \in Users
  BY <1>a DEF Shape, RequestOK, SessionSteps, At
<1>1. ASSUME SetupReads(w) PROVE Shape'
  <2>1. Goto(w, "write") \/ Become(w, Idle)
    BY <1>1, Zenon DEF SetupReads
  <2>2. requests' \in [Workers -> Request]
        /\ \A v \in Workers : requests'[v].step = "idle" \/ GoesOn(v)
    BY <1>0, <1>a, <2>1, Ending, Stepping DEF SessionSteps
  <2>3. TypeOK'
    BY <1>0, <1>1, <2>2 DEF SetupReads, TypeOK, history
  <2>4. QED
    BY <1>1, <2>2, <2>3, ShapeKept DEF SetupReads
<1>2. ASSUME NEW secret \in Secrets, SetupWrites(w, secret) PROVE Shape'
  <2>1. requests' \in [Workers -> Request]
        /\ \A v \in Workers : requests'[v].step = "idle" \/ GoesOn(v)
    BY <1>0, <1>2, Overtaking DEF SetupWrites, Steps
  <2>2. totp' \in [Users -> FactorRow]
    BY <1>0, <1>2, <1>b, RowsMade DEF SetupWrites, TypeOK
  <2>3. TypeOK'
    BY <1>0, <1>2, <2>1, <2>2 DEF SetupWrites, TypeOK, history
  <2>4. QED
    BY <1>2, <2>1, <2>3, ShapeKept DEF SetupWrites
<1>3. ASSUME EnableReads(w) PROVE Shape'
  <2>1. Goto(w, "confirm") \/ Become(w, Idle)
    BY <1>3, Zenon DEF EnableReads
  <2>2. requests' \in [Workers -> Request]
        /\ \A v \in Workers : requests'[v].step = "idle" \/ GoesOn(v)
    BY <1>0, <1>a, <2>1, Ending, Stepping DEF SessionSteps
  <2>3. confirmed' \subseteq Secrets
    <3>1. totp[requests[w].user].secret \in Secrets \cup {None}
      BY <1>0, <1>b DEF TypeOK, FactorRow
    <3>2. QED
      BY <1>0, <1>3, <3>1 DEF EnableReads, TypeOK
  <2>4. TypeOK'
    BY <1>0, <1>3, <2>2, <2>3 DEF EnableReads, TypeOK
  <2>5. QED
    BY <1>3, <2>2, <2>4, ShapeKept DEF EnableReads
<1>4. ASSUME EnableWrites(w) PROVE Shape'
  <2>1. Become(w, Idle) \/ Overtake(w, "write")
    BY <1>4, Zenon DEF EnableWrites
  <2>2. requests' \in [Workers -> Request]
        /\ \A v \in Workers : requests'[v].step = "idle" \/ GoesOn(v)
    BY <1>0, <2>1, Ending, Overtaking DEF Steps
  <2>3. totp' = totp \/ totp' = [totp EXCEPT ![requests[w].user].enabled = TRUE]
    BY <1>4, Zenon DEF EnableWrites
  <2>4. totp' \in [Users -> FactorRow]
    BY <1>0, <1>b, <2>3, RowsMade DEF TypeOK
  <2>5. TypeOK'
    BY <1>0, <1>4, <2>2, <2>4 DEF EnableWrites, TypeOK, history
  <2>6. QED
    BY <1>4, <2>2, <2>5, ShapeKept DEF EnableWrites
<1>5. ASSUME DisableReads(w) PROVE Shape'
  <2>1. requests' \in [Workers -> Request] /\ \A v \in Workers : GoesOn(v)
    BY <1>0, <1>5, <1>a, Stepping DEF DisableReads, SessionSteps
  <2>2. TypeOK'
    BY <1>0, <1>5, <2>1 DEF DisableReads, TypeOK, history
  <2>3. QED
    BY <1>5, <2>1, <2>2, ShapeKept DEF DisableReads
<1>6. ASSUME DisableWrites(w) PROVE Shape'
  <2>1. requests' \in [Workers -> Request]
        /\ \A v \in Workers : requests'[v].step = "idle" \/ GoesOn(v)
    BY <1>0, <1>6, Ending DEF DisableWrites
  <2>2. TypeOK'
    BY <1>0, <1>6, <1>b, <2>1, RowsMade DEF DisableWrites, TypeOK, history
  <2>3. QED
    BY <1>6, <2>1, <2>2, ShapeKept DEF DisableWrites
<1>7. QED
  BY <1>1, <1>2, <1>3, <1>4, <1>5, <1>6 DEF FactorNext

\* What is done by no request: time, logouts, the administrator and restarts.
AroundNext ==
    \/ \E s \in Tokens : Logout(s) \/ Expire(s)
    \/ \E u \in Users : Deactivate(u) \/ Activate(u) \/ \E p \in Passwords : CreateUser(u, p)
    \/ Restart

\* A row of the users as each of these leaves it.
LEMMA AroundRows ==
    ASSUME TypeOK, AroundNext
    PROVE  users' \in [Users -> UserRow]
<1>1. ASSUME NEW u \in Users, Deactivate(u) PROVE users' \in [Users -> UserRow]
  <2> DEFINE row == [exists |-> TRUE, active |-> FALSE, must |-> users[u].must,
                     pwd |-> users[u].pwd, epoch |-> users[u].epoch + 1]
  <2>1. users[u] \in UserRow
    BY DEF TypeOK
  <2>2. users[u].epoch + 1 \in 0..MaxEpoch
    BY <1>1, <2>1 DEF Deactivate, UserRow
  <2>3. row \in UserRow
    BY <2>1, <2>2 DEF UserRow
  <2>4. users' = [users EXCEPT ![u] = row]
    BY <1>1 DEF Deactivate, TypeOK
  <2>5. QED
    BY <2>3, <2>4 DEF TypeOK
<1>2. ASSUME NEW u \in Users, Activate(u) PROVE users' \in [Users -> UserRow]
  BY <1>2, RowsMade DEF Activate, TypeOK
<1>3. ASSUME NEW u \in Users, NEW p \in Passwords, CreateUser(u, p)
      PROVE  users' \in [Users -> UserRow]
  <2>1. [exists |-> TRUE, active |-> TRUE, must |-> FALSE, pwd |-> p, epoch |-> 0] \in UserRow
    BY DEF UserRow
  <2>2. QED
    BY <1>3, <2>1 DEF CreateUser, TypeOK
<1>4. ASSUME Restart PROVE users' \in [Users -> UserRow]
  BY <1>4, RowsMade DEF Restart, TypeOK
<1>5. QED
  BY <1>1, <1>2, <1>3, <1>4, Zenon DEF AroundNext, Logout, Expire, TypeOK

\* They keep the shape.
LEMMA AroundShape == Shape /\ AroundNext => Shape'
<1> SUFFICES ASSUME Shape, AroundNext PROVE Shape'
  OBVIOUS
<1>0. TypeOK
  BY DEF Shape
<1>1. users' \in [Users -> UserRow]
  BY <1>0, AroundRows
<1>2. UNCHANGED <<totp, requests, issued, history>>
  BY DEF AroundNext, Logout, Expire, Deactivate, Activate, CreateUser, Restart
<1>3. UNCHANGED sessions \/ \E S \in SUBSET Tokens : Delete(S)
  BY DEF AroundNext, Logout, Expire, Deactivate, Activate, CreateUser, Restart, SessionsOf
<1>4. sessions' \in [Tokens -> SessionRow]
      /\ \A s \in Tokens : sessions'[s] = sessions[s] \/ sessions'[s].state = "gone"
  BY <1>0, <1>3, Deleting DEF TypeOK
<1>5. seed' \in Passwords \cup {None}
  BY <1>0 DEF AroundNext, Logout, Expire, Deactivate, Activate, CreateUser, Restart, TypeOK
<1>6. TypeOK'
  BY <1>0, <1>1, <1>2, <1>4, <1>5 DEF TypeOK, history
<1>7. \A v \in Workers : GoesOn(v)
  BY <1>2 DEF GoesOn
<1>8. QED
  BY <1>4, <1>6, <1>7, ShapeKept

\* A request that is lost keeps the shape.
LEMMA LoseShape ==
    ASSUME Shape, NEW w \in Workers, Lose(w)
    PROVE  Shape'
<1>0. TypeOK
  BY DEF Shape
<1>1. requests' \in [Workers -> Request]
      /\ \A v \in Workers : requests'[v].step = "idle" \/ GoesOn(v)
  BY <1>0, Ending DEF Lose
<1>2. spared' \subseteq Tokens
  BY <1>0 DEF Lose, TypeOK, Outdated, SessionsOf
<1>3. TypeOK'
  BY <1>0, <1>1, <1>2 DEF Lose, TypeOK
<1>4. QED
  BY <1>1, <1>3, ShapeKept DEF Lose

\* Every step keeps the shape.
LEMMA ShapeStep == Shape /\ [Next]_staff => Shape'
<1> SUFFICES ASSUME Shape, [Next]_staff PROVE Shape'
  OBVIOUS
<1>1. CASE \E w \in Workers : LoginNext(w) \/ PasswordNext(w) \/ FactorNext(w) \/ Lose(w)
  BY <1>1, LoginShape, PasswordShape, FactorShape, LoseShape
<1>2. CASE AroundNext
  BY <1>2, AroundShape
<1>3. CASE UNCHANGED staff
  BY <1>3 DEF staff, history, Shape, TypeOK, RequestOK, Live
<1>4. QED
  BY <1>1, <1>2, <1>3 DEF Next, AroundNext

\* The shape of the tables and of pending requests holds of every execution.
LEMMA ShapeAlways == Spec => []Shape
<1>1. QED
  BY ShapeInit, ShapeStep, PTL DEF Spec

\* Rows, sessions and requests keep their types through every login, change,
\* restart and failure: no handler but those with more steps outlives its admission.
THEOREM TypeCorrect == Spec => []TypeOK
<1>1. Shape => TypeOK
  BY DEF Shape
<1>2. QED
  BY <1>1, ShapeAlways, PTL

-----------------------------------------------------------------------------
(* The demo password                                                       *)

\* Of an account whose password was never changed, the row and what a login has
\* read of it still hold the demo password, if that is the one the server knows.
DemoInv ==
    /\ seed = SeedPwd
    /\ \A u \in Demo : u \notin changed => users[u].exists /\ users[u].must
                                           /\ users[u].pwd = SeedPwd
    /\ \A w \in Workers :
          (At(w, "factor") \/ At(w, "reconcile")) /\ requests[w].user \in Demo \ changed
             => requests[w].pwd = SeedPwd
    /\ worked \cap Demo \subseteq changed

\* The demo password of the server is never replaced but by one that is nobody's.
LEMMA SeedStays == [Next]_staff => seed' = seed \/ seed' = None
BY DEF Next, LoginNext, PasswordNext, FactorNext, LoginReads, LoginFactor, LoginReconcile,
       LoginInsert, UseSession, Admit, ProvePassword, UpdatePassword, DropSessions,
       SetupReads, SetupWrites, EnableReads, EnableWrites, DisableReads, DisableWrites,
       Lose, Logout, Expire, Deactivate, Activate, CreateUser, Restart, staff

\* No step lets a demo account in that has not changed its password, unless the
\* server has forgotten the demo password.
LEMMA DemoStep ==
    ASSUME seed' = SeedPwd, Shape, DemoInv, [Next]_staff
    PROVE  DemoInv'
<1> USE DEF At
<1>0. TypeOK /\ \A w \in Workers : requests[w] \in Request
  BY DEF Shape, TypeOK
<1>1. changed \subseteq changed'
  BY DEF Next, LoginNext, PasswordNext, FactorNext, LoginReads, LoginFactor, LoginReconcile,
         LoginInsert, UseSession, Admit, ProvePassword, UpdatePassword, DropSessions,
         SetupReads, SetupWrites, EnableReads, EnableWrites, DisableReads, DisableWrites,
         Lose, Logout, Expire, Deactivate, Activate, CreateUser, Restart, staff, history
<1>2. seed' = SeedPwd
  OBVIOUS
<1>3. ASSUME NEW u \in Demo, u \notin changed'
      PROVE  users'[u].exists /\ users'[u].must /\ users'[u].pwd = SeedPwd
  <2>1. u \in Users /\ u \notin changed /\ users[u] \in UserRow
    BY <1>0, <1>1, <1>3 DEF TypeOK
  <2>2. users[u].exists /\ users[u].must /\ users[u].pwd = SeedPwd
    BY <2>1 DEF DemoInv
  <2>3. ASSUME NEW w \in Workers, LoginReconcile(w) PROVE users'[u] = users[u]
    <3>1. CASE requests[w].must /\ requests[w].pwd # seed
      <4>1. requests[w].user # u
        BY <2>1, <2>3, <3>1 DEF DemoInv, LoginReconcile
      <4>2. QED
        BY <1>0, <2>1, <2>3, <3>1, <4>1 DEF LoginReconcile, TypeOK
    <3>2. CASE ~(requests[w].must /\ requests[w].pwd # seed)
      BY <2>3, <3>2 DEF LoginReconcile
    <3>3. QED
      BY <3>1, <3>2
  <2>4. ASSUME NEW w \in Workers, NEW p \in Passwords, UpdatePassword(w, p)
        PROVE  users'[u] = users[u]
    <3>1. requests[w].user # u
      BY <1>3, <2>4 DEF UpdatePassword
    <3>2. QED
      BY <1>0, <2>1, <2>4, <3>1 DEF UpdatePassword, TypeOK
  <2>5. ASSUME NEW v \in Users, Deactivate(v) \/ Activate(v) \/ \E p \in Passwords : CreateUser(v, p)
        PROVE  users'[u].exists /\ users'[u].must /\ users'[u].pwd = SeedPwd
    <3>1. CASE Deactivate(v)
      BY <1>0, <2>1, <2>2, <3>1 DEF Deactivate, TypeOK
    <3>2. CASE Activate(v)
      BY <1>0, <2>1, <2>2, <3>2 DEF Activate, TypeOK, UserRow
    <3>3. CASE \E p \in Passwords : CreateUser(v, p)
      BY <1>0, <2>1, <2>2, <3>3 DEF CreateUser, TypeOK
    <3>4. QED
      BY <2>5, <3>1, <3>2, <3>3
  <2>6. ASSUME Restart PROVE users'[u].exists /\ users'[u].must /\ users'[u].pwd = SeedPwd
    <3>1. users'[u] = [users[u] EXCEPT !.must = TRUE]
      BY <2>1, <2>6 DEF Restart
    <3>2. QED
      BY <2>1, <2>2, <3>1 DEF UserRow
  <2>7. \/ users'[u] = users[u]
        \/ \E w \in Workers : LoginReconcile(w) \/ \E p \in Passwords : UpdatePassword(w, p)
        \/ \E v \in Users : Deactivate(v) \/ Activate(v) \/ \E p \in Passwords : CreateUser(v, p)
        \/ Restart
    BY DEF Next, LoginNext, PasswordNext, FactorNext, LoginReads, LoginFactor,
           LoginInsert, UseSession, Admit, ProvePassword, DropSessions,
           SetupReads, SetupWrites, EnableReads, EnableWrites, DisableReads, DisableWrites,
           Lose, Logout, Expire, staff
  <2>8. QED
    BY <2>2, <2>3, <2>4, <2>5, <2>6, <2>7
<1>4. ASSUME NEW w \in Workers, (At(w, "factor") \/ At(w, "reconcile"))',
             requests'[w].user \in Demo \ changed'
      PROVE  requests'[w].pwd = SeedPwd
  <2>1. ASSUME NEW v \in Workers, LoginNext(v) PROVE requests'[w].pwd = SeedPwd
    <3>1. ASSUME NEW u \in Users, LoginReads(v, u) PROVE requests'[w].pwd = SeedPwd
      <4>1. users[u] \in UserRow
        BY <1>0 DEF TypeOK
      <4>2. LoginOf(u, users[u]).user = u /\ LoginOf(u, users[u]).pwd = users[u].pwd
        BY <4>1, RequestMade
      <4>3. requests' = [requests EXCEPT ![v] = LoginOf(u, users[u])]
        BY <3>1 DEF LoginReads, Become
      <4>4. QED
        BY <1>0, <1>1, <1>4, <4>2, <4>3 DEF DemoInv, TypeOK
    <3>2. ASSUME NEW code \in Secrets \cup {None}, LoginFactor(v, code)
          PROVE  requests'[w].pwd = SeedPwd
      <4> DEFINE r == Moved(requests[v], "reconcile")
      <4>1. r.user = requests[v].user /\ r.pwd = requests[v].pwd /\ Idle.step = "idle"
        BY <1>0, RequestMade DEF Steps
      <4>2. requests' = [requests EXCEPT ![v] = r] \/ requests' = [requests EXCEPT ![v] = Idle]
        BY <3>2 DEF LoginFactor, Become, Goto
      <4>3. requests[v].step = "factor"
        BY <3>2 DEF LoginFactor
      <4> HIDE DEF r
      <4>4. QED
        BY <1>0, <1>1, <1>4, <4>1, <4>2, <4>3 DEF DemoInv, TypeOK
    <3>3. CASE LoginReconcile(v)
      <4>1. Moved(requests[v], "insert").step = "insert"
        BY <1>0, RequestMade DEF Steps
      <4>2. requests' = [requests EXCEPT ![v] = Moved(requests[v], "insert")]
        BY <3>3 DEF LoginReconcile, Become, Goto
      <4>3. QED
        BY <1>0, <1>1, <1>4, <4>1, <4>2 DEF DemoInv, TypeOK
    <3>4. ASSUME NEW s \in Tokens, LoginInsert(v, s) PROVE requests'[w].pwd = SeedPwd
      BY <1>0, <1>1, <1>4, <3>4, Ending DEF DemoInv, LoginInsert
    <3>5. QED
      BY <2>1, <3>1, <3>2, <3>3, <3>4 DEF LoginNext
  <2>2. ASSUME NEW v \in Workers, PasswordNext(v) PROVE requests'[w] = requests[w]
    <3>1. ASSUME NEW s \in Tokens, NEW kind \in Kinds, UseSession(v, s, kind)
          PROVE  requests'[w] = requests[w]
      <4>1. RequestOf(sessions[s].user, s, kind).step = "admit"
        BY <3>1, RequestMade DEF UseSession, Shape
      <4>2. requests' = [requests EXCEPT ![v] = RequestOf(sessions[s].user, s, kind)]
        BY <3>1 DEF UseSession, Become
      <4>3. QED
        BY <1>0, <1>4, <4>1, <4>2 DEF TypeOK
    <3>2. CASE Admit(v)
      <4>1. requests[v].kind \in Kinds
        BY <3>2 DEF Admit, Shape, RequestOK
      <4>2. Become(v, Idle) \/ (requests[v].kind # "work" /\ Goto(v, requests[v].kind))
        BY <3>2, Zenon DEF Admit
      <4>3. requests'[v].step \notin {"factor", "reconcile"} /\ (v # w => requests'[w] = requests[w])
        <5>1. CASE Become(v, Idle)
          BY <1>0, <5>1, Ending
        <5>2. CASE requests[v].kind # "work" /\ Goto(v, requests[v].kind)
          <6>1. requests[v].kind \in Steps \cap {"password", "setup", "enable", "disable"}
            BY <4>1, <5>2 DEF Kinds, Steps
          <6>2. Moved(requests[v], requests[v].kind).step = requests[v].kind
            BY <1>0, <6>1, RequestMade
          <6>3. QED
            BY <1>0, <5>2, <6>1, <6>2 DEF Goto, Become, TypeOK
        <5>3. QED
          BY <4>2, <5>1, <5>2
      <4>4. QED
        BY <1>4, <4>3
    <3>3. CASE ProvePassword(v)
      <4>1. Moved(requests[v], "update") \in Request
            /\ Moved(requests[v], "update").step = "update"
        BY <1>0, RequestMade DEF Steps
      <4>2. users[requests[v].user].pwd \in Passwords \cup {None}
        BY <1>0, <3>3 DEF ProvePassword, Shape, RequestOK, TypeOK, UserRow
      <4>3. [Moved(requests[v], "update") EXCEPT !.pwd = users[requests[v].user].pwd].step = "update"
        BY <4>1, <4>2, RequestMade
      <4>4. QED
        BY <1>0, <1>4, <3>3, <4>3 DEF ProvePassword, Become, TypeOK
    <3>4. ASSUME NEW p \in Passwords, UpdatePassword(v, p) PROVE requests'[w] = requests[w]
      <4>1. Moved(requests[v], "drop").step = "drop"
        BY <1>0, RequestMade DEF Steps
      <4>2. requests' = [requests EXCEPT ![v] = Moved(requests[v], "drop")]
        BY <3>4 DEF UpdatePassword, Become
      <4>3. QED
        BY <1>0, <1>4, <4>1, <4>2 DEF TypeOK
    <3>5. CASE DropSessions(v)
      BY <1>0, <1>4, <3>5, Ending DEF DropSessions
    <3>6. QED
      BY <2>2, <3>1, <3>2, <3>3, <3>4, <3>5 DEF PasswordNext
  <2>3. ASSUME NEW v \in Workers, FactorNext(v) PROVE requests'[w] = requests[w]
    <3>1. requests[v].step \in SessionSteps
      BY <2>3 DEF FactorNext, SetupReads, SetupWrites, EnableReads, EnableWrites,
                  DisableReads, DisableWrites, SessionSteps
    <3>2. \/ Become(v, Idle) \/ Goto(v, "write") \/ Goto(v, "confirm") \/ Goto(v, "erase")
          \/ Overtake(v, "confirm") \/ Overtake(v, "write")
      BY <2>3, Zenon DEF FactorNext, SetupReads, SetupWrites, EnableReads, EnableWrites,
                         DisableReads, DisableWrites
    <3>3. CASE Overtake(v, "confirm") \/ Overtake(v, "write")
      <4>1. PICK s \in {"confirm", "write"} : Overtake(v, s)
        BY <3>3
      <4>2. requests'[v] = Idle /\ Idle.step = "idle"
            /\ \A x \in Workers \ {v} :
                  requests'[x] = IF requests[x].user = requests[v].user /\ requests[x].step = s
                                 THEN [requests[x] EXCEPT !.late = TRUE] ELSE requests[x]
        <5>1. s \in Steps
          BY DEF Steps
        <5>2. TypeOK /\ Overtake(v, s)
          BY <1>0, <4>1
        <5>3. /\ requests'[v] = Idle
              /\ \A x \in Workers \ {v} :
                    requests'[x] = IF requests[x].user = requests[v].user /\ At(x, s)
                                   THEN [requests[x] EXCEPT !.late = TRUE] ELSE requests[x]
          BY <5>1, <5>2 DEF Overtake
        <5>4. QED
          BY <5>3, RequestMade
      <4>3. [requests[w] EXCEPT !.late = TRUE].step = requests[w].step
        BY <1>0, RequestMade
      <4>4. QED
        BY <1>4, <4>1, <4>2, <4>3
    <3>4. CASE Become(v, Idle)
      BY <1>0, <1>4, <3>4, Ending
    <3>5. ASSUME NEW s \in {"write", "confirm", "erase"}, Goto(v, s)
          PROVE  requests'[w] = requests[w]
      <4>1. Moved(requests[v], s).step = s
        BY <1>0, RequestMade DEF Steps
      <4>2. QED
        BY <1>0, <1>4, <3>5, <4>1 DEF Goto, Become, TypeOK
    <3>6. QED
      BY <3>2, <3>3, <3>4, <3>5
  <2>4. ASSUME NEW v \in Workers, Lose(v) PROVE requests'[w] = requests[w]
    BY <1>0, <1>4, <2>4, Ending DEF Lose
  <2>5. ASSUME AroundNext PROVE requests'[w] = requests[w]
    BY <2>5 DEF AroundNext, Logout, Expire, Deactivate, Activate, CreateUser, Restart
  <2>6. ASSUME requests'[w] = requests[w] PROVE requests'[w].pwd = SeedPwd
    BY <1>1, <1>4, <2>6 DEF DemoInv
  <2>7. QED
    BY <2>1, <2>2, <2>3, <2>4, <2>5, <2>6 DEF Next, AroundNext, staff
<1>5. worked' \cap Demo \subseteq changed'
  <2>1. ASSUME NEW w \in Workers, Admit(w) PROVE worked' \cap Demo \subseteq changed'
    <3>1. changed' = changed
      BY <2>1 DEF Admit
    <3>2. worked' = worked \/ (worked' = worked \cup {requests[w].user}
                               /\ ~users[requests[w].user].must)
      BY <2>1 DEF Admit
    <3>3. QED
      BY <3>1, <3>2 DEF DemoInv
  <2>2. worked' = worked \/ \E w \in Workers : Admit(w)
    BY DEF Next, LoginNext, PasswordNext, FactorNext, LoginReads, LoginFactor, LoginReconcile,
           LoginInsert, UseSession, ProvePassword, UpdatePassword, DropSessions,
           SetupReads, SetupWrites, EnableReads, EnableWrites, DisableReads, DisableWrites,
           Lose, Logout, Expire, Deactivate, Activate, CreateUser, Restart, staff, history
  <2>3. QED
    BY <1>1, <2>1, <2>2 DEF DemoInv
<1>6. \A w \in Workers :
         (At(w, "factor") \/ At(w, "reconcile"))' /\ requests'[w].user \in Demo \ changed'
            => requests'[w].pwd = SeedPwd
  BY <1>4
<1>7. QED
  BY <1>2, <1>3, <1>5, <1>6 DEF DemoInv

\* No login, change, failure or restart lets the holder of a demo account past
\* authMW before she has changed the password, however they cross, for as long as
\* the server knows the demo password: with SEED_DEFAULT_PWD for ever, without it
\* up to the second start.
THEOREM DemoIsClosed == Spec => []WorkedAfterChange
<1> DEFINE Known == seed = SeedPwd => DemoInv
<1>1. Init => Known
  <2> SUFFICES ASSUME Init PROVE DemoInv
    OBVIOUS
  <2>1. \A u \in Demo : users[u].exists /\ users[u].must /\ users[u].pwd = SeedPwd
    BY DEF Init
  <2>2. \A w \in Workers : requests[w].step = "idle"
    BY RequestMade DEF Init
  <2>3. QED
    BY <2>1, <2>2 DEF Init, DemoInv, At
<1>2. Shape /\ Known /\ [Next]_staff => Known'
  <2> SUFFICES ASSUME Shape, Known, [Next]_staff, seed' = SeedPwd PROVE DemoInv'
    OBVIOUS
  <2>1. seed = SeedPwd
    BY SeedStays
  <2>2. QED
    BY <2>1, DemoStep
<1>3. Known => WorkedAfterChange
  BY DEF DemoInv, WorkedAfterChange
<1> HIDE DEF Known
<1>4. QED
  BY <1>1, <1>2, <1>3, ShapeAlways, PTL DEF Spec

-----------------------------------------------------------------------------
(* Sessions after a change                                                 *)

\* Whose session is outdated has a change at work that has yet to delete it.
Covered(s) ==
    Live(s) /\ sessions[s].epoch # users[sessions[s].user].epoch =>
        \/ s \in spared
        \/ \E w \in Workers : /\ At(w, "drop") /\ requests[w].user = sessions[s].user
                              /\ requests[w].session # s

CurrentInv ==
    /\ \A s \in Tokens : Covered(s)
    /\ \A u \in Users : ~users[u].exists => users[u].epoch = 0

\* The changes at work go on.
DropsStay ==
    \A w \in Workers : At(w, "drop") => /\ requests'[w].step = "drop"
                                        /\ requests'[w].user = requests[w].user
                                        /\ requests'[w].session = requests[w].session

\* A step that changes no epoch, opens no session and ends no change.
LEMMA CurrentKept ==
    ASSUME Shape, CurrentInv, DropsStay, spared \subseteq spared',
           \A u \in Users : users'[u].epoch = users[u].epoch
                            /\ (users[u].exists => users'[u].exists),
           \A s \in Tokens : sessions'[s] = sessions[s] \/ sessions'[s].state = "gone"
    PROVE  CurrentInv'
<1>1. ASSUME NEW s \in Tokens PROVE Covered(s)'
  BY DEF CurrentInv, Covered, Live, Shape, DropsStay, At
<1>2. QED
  BY <1>1 DEF CurrentInv

\* A request that was not at the deletion, and is now at some step.
LEMMA DropsStayIf ==
    ASSUME TypeOK, NEW w \in Workers, requests[w].step # "drop",
           (\E r \in Request : requests' = [requests EXCEPT ![w] = r])
               \/ (\E s \in Steps \ {"drop"} : Overtake(w, s))
    PROVE  DropsStay
<1>1. CASE \E r \in Request : requests' = [requests EXCEPT ![w] = r]
  BY <1>1 DEF DropsStay, TypeOK, At
<1>2. ASSUME NEW s \in Steps \ {"drop"}, Overtake(w, s) PROVE DropsStay
  BY <1>2, Overtaking DEF DropsStay, At
<1>3. QED
  BY <1>1, <1>2

\* A step that leaves an older session alive has it spared or still covered.
LEMMA CurrentStep ==
    ASSUME Shape, CurrentInv, [Next]_staff
    PROVE  CurrentInv'
<1>0. TypeOK /\ Idle \in Request /\ Idle.step = "idle"
      /\ \A w \in Workers : requests[w] \in Request
  BY RequestMade DEF Shape, TypeOK
<1>1. ASSUME NEW w \in Workers, LoginNext(w) PROVE CurrentInv'
  <2>1. ASSUME NEW u \in Users, LoginReads(w, u) PROVE CurrentInv'
    <3>1. LoginOf(u, users[u]) \in Request
      BY <1>0, RequestMade DEF TypeOK
    <3>2. DropsStay
      BY <1>0, <2>1, <3>1, DropsStayIf DEF LoginReads, At, Become
    <3>3. QED
      BY <2>1, <3>2, CurrentKept DEF LoginReads, history
  <2>2. ASSUME NEW code \in Secrets \cup {None}, LoginFactor(w, code) PROVE CurrentInv'
    <3>1. Moved(requests[w], "reconcile") \in Request
      BY <1>0, RequestMade DEF Steps
    <3>2. \E r \in Request : requests' = [requests EXCEPT ![w] = r]
      BY <1>0, <2>2, <3>1 DEF LoginFactor, Become, Goto
    <3>3. DropsStay
      BY <1>0, <2>2, <3>2, DropsStayIf DEF LoginFactor, At
    <3>4. QED
      BY <2>2, <3>3, CurrentKept DEF LoginFactor, history
  <2>3. ASSUME LoginReconcile(w) PROVE CurrentInv'
    <3>1. Moved(requests[w], "insert") \in Request
      BY <1>0, RequestMade DEF Steps
    <3>2. DropsStay
      BY <1>0, <2>3, <3>1, DropsStayIf DEF LoginReconcile, Become, Goto, At
    <3>3. users' = users \/ users' = [users EXCEPT ![requests[w].user].must = FALSE]
      BY <2>3 DEF LoginReconcile
    <3>4. \A u \in Users : users'[u].epoch = users[u].epoch /\ users'[u].exists = users[u].exists
      BY <1>0, <3>3 DEF TypeOK, UserRow
    <3>5. QED
      BY <2>3, <3>2, <3>4, CurrentKept DEF LoginReconcile, history
  <2>4. ASSUME NEW s \in Tokens, LoginInsert(w, s) PROVE CurrentInv'
    <3> DEFINE r == requests[w]
               row == [state |-> "live", user |-> r.user, epoch |-> r.epoch]
    <3>1. DropsStay /\ UNCHANGED users /\ spared \subseteq spared'
      BY <1>0, <2>4, DropsStayIf DEF LoginInsert, Become, At
    <3>2. sessions' = [sessions EXCEPT ![s] = row]
          /\ (r.epoch # users[r.user].epoch => s \in spared')
      BY <1>0, <2>4 DEF LoginInsert, TypeOK
    <3>3. sessions'[s].user = r.user /\ sessions'[s].epoch = r.epoch
      BY <1>0, <3>2 DEF TypeOK
    <3>4. Covered(s)'
      BY <3>1, <3>2, <3>3 DEF Covered
    <3>5. \A t \in Tokens \ {s} : sessions'[t] = sessions[t]
      BY <1>0, <3>2 DEF TypeOK
    <3>6. \A t \in Tokens \ {s} : Covered(t)'
      BY <3>1, <3>5 DEF CurrentInv, Covered, Live, DropsStay, At
    <3>7. QED
      BY <3>1, <3>4, <3>6 DEF CurrentInv
  <2>5. QED
    BY <1>1, <2>1, <2>2, <2>3, <2>4 DEF LoginNext
<1>2. ASSUME NEW w \in Workers, PasswordNext(w) PROVE CurrentInv'
  <2>1. ASSUME NEW s \in Tokens, NEW kind \in Kinds, UseSession(w, s, kind) PROVE CurrentInv'
    <3>1. RequestOf(sessions[s].user, s, kind) \in Request
      BY <2>1, RequestMade DEF UseSession, Shape
    <3>2. DropsStay
      BY <1>0, <2>1, <3>1, DropsStayIf DEF UseSession, Become, At
    <3>3. QED
      BY <2>1, <3>2, CurrentKept DEF UseSession, history
  <2>2. ASSUME Admit(w) PROVE CurrentInv'
    <3>1. requests[w].kind \in Kinds
      BY <2>2 DEF Admit, Shape, RequestOK, At
    <3>2. Become(w, Idle) \/ (requests[w].kind # "work" /\ Goto(w, requests[w].kind))
      BY <2>2, Zenon DEF Admit
    <3>3. requests[w].kind # "work" => Moved(requests[w], requests[w].kind) \in Request
      BY <1>0, <3>1, RequestMade DEF Kinds, Steps
    <3>4. \E r \in Request : requests' = [requests EXCEPT ![w] = r]
      BY <1>0, <3>2, <3>3 DEF Become, Goto
    <3>5. DropsStay
      BY <1>0, <2>2, <3>4, DropsStayIf DEF Admit, At
    <3>6. QED
      BY <2>2, <3>5, CurrentKept DEF Admit
  <2>3. ASSUME ProvePassword(w) PROVE CurrentInv'
    <3> DEFINE r == [Moved(requests[w], "update") EXCEPT !.pwd = users[requests[w].user].pwd]
    <3>1. Moved(requests[w], "update") \in Request
      BY <1>0, RequestMade DEF Steps
    <3>2. users[requests[w].user].pwd \in Passwords \cup {None}
      BY <1>0, <2>3 DEF ProvePassword, Shape, RequestOK, TypeOK, UserRow, At
    <3>3. r \in Request
      BY <3>1, <3>2, RequestMade
    <3>4. DropsStay
      BY <1>0, <2>3, <3>3, DropsStayIf DEF ProvePassword, Become, At
    <3>5. QED
      BY <2>3, <3>4, CurrentKept DEF ProvePassword, history
  <2>4. ASSUME NEW p \in Passwords, UpdatePassword(w, p) PROVE CurrentInv'
    <3> DEFINE u == requests[w].user
               own == requests[w].session
               e == users[u].epoch + 1
               row == [exists |-> TRUE, active |-> users[u].active, must |-> FALSE,
                       pwd |-> p, epoch |-> e]
               r == Moved(requests[w], "drop")
    <3>1. u \in Users /\ own \in Tokens /\ requests[w].step = "update"
          /\ (Live(own) => sessions[own].user = u)
      BY <2>4 DEF UpdatePassword, At, Shape, RequestOK, SessionSteps
    <3>2. r \in Request /\ r.step = "drop" /\ r.user = u /\ r.session = own
      BY <1>0, RequestMade DEF Steps
    <3>3. requests' = [requests EXCEPT ![w] = r] /\ UNCHANGED spared
      BY <2>4 DEF UpdatePassword, Become
    <3>4. users' = [users EXCEPT ![u] = row]
      BY <1>0, <2>4, <3>1 DEF UpdatePassword, TypeOK
    <3>5. sessions' = IF Live(own) THEN [sessions EXCEPT ![own] = [sessions[own] EXCEPT !.epoch = e]]
                      ELSE sessions
      BY <1>0, <2>4, <3>1 DEF UpdatePassword, TypeOK
    <3>6. /\ [sessions[own] EXCEPT !.epoch = e].state = sessions[own].state
          /\ [sessions[own] EXCEPT !.epoch = e].user = sessions[own].user
          /\ [sessions[own] EXCEPT !.epoch = e].epoch = e
      BY <1>0, <3>1 DEF TypeOK, SessionRow
    <3>7. DropsStay
      BY <1>0, <3>1, <3>2, <3>3, DropsStayIf
    <3>8. requests'[w].step = "drop" /\ requests'[w].user = u /\ requests'[w].session = own
      BY <1>0, <3>2, <3>3 DEF TypeOK
    <3>9. users'[u].epoch = e /\ users'[u].exists /\ \A x \in Users \ {u} : users'[x] = users[x]
      BY <1>0, <3>1, <3>4 DEF TypeOK
    <3> HIDE DEF u, own, e, row, r
    <3>10. ASSUME NEW s \in Tokens PROVE Covered(s)'
      <4>1. CASE s = own
        <5>1. CASE Live(own)
          <6>1. sessions'[own].user = u /\ sessions'[own].epoch = e
            BY <1>0, <3>1, <3>5, <3>6, <5>1 DEF TypeOK
          <6>2. QED
            BY <3>9, <4>1, <6>1 DEF Covered
        <5>2. CASE ~Live(own)
          BY <3>5, <4>1, <5>2 DEF Covered, Live
        <5>3. QED
          BY <5>1, <5>2
      <4>2. CASE s # own
        <5>1. sessions'[s] = sessions[s]
          BY <1>0, <3>1, <3>5, <4>2 DEF TypeOK
        <5>2. CASE sessions[s].user = u
          BY <3>8, <4>2, <5>1, <5>2 DEF Covered, At
        <5>3. CASE sessions[s].user # u
          BY <3>3, <3>7, <3>9, <5>1, <5>3 DEF CurrentInv, Covered, DropsStay, At, Live, Shape
        <5>4. QED
          BY <5>2, <5>3
      <4>3. QED
        BY <4>1, <4>2
    <3>11. QED
      BY <3>9, <3>10 DEF CurrentInv
  <2>5. ASSUME DropSessions(w) PROVE CurrentInv'
    <3> DEFINE S == SessionsOf(requests[w].user) \ {requests[w].session}
    <3>1. Delete(S) /\ S \in SUBSET Tokens /\ Become(w, Idle) /\ UNCHANGED <<users, spared>>
      BY <2>5 DEF DropSessions, SessionsOf, history
    <3>2. /\ \A s \in S : sessions'[s].state = "gone"
          /\ \A s \in Tokens \ S : sessions'[s] = sessions[s]
      BY <1>0, <3>1, Deleting
    <3>3. \A v \in Workers \ {w} : requests'[v] = requests[v]
      BY <1>0, <3>1, Ending
    <3>4. ASSUME NEW s \in Tokens PROVE Covered(s)'
      <4>1. CASE s \in S
        BY <3>2, <4>1 DEF Covered, Live
      <4>2. CASE s \notin S
        <5>1. Live(s) => sessions[s].user # requests[w].user \/ requests[w].session = s
          BY <4>2 DEF SessionsOf
        <5>2. sessions'[s] = sessions[s]
          BY <3>2, <4>2
        <5> HIDE DEF S
        <5>3. QED
          BY <3>1, <3>3, <5>1, <5>2 DEF CurrentInv, Covered, Live, At
      <4>3. QED
        BY <4>1, <4>2
    <3>5. QED
      BY <3>1, <3>4 DEF CurrentInv
  <2>6. QED
    BY <1>2, <2>1, <2>2, <2>3, <2>4, <2>5 DEF PasswordNext
<1>3. ASSUME NEW w \in Workers, FactorNext(w) PROVE CurrentInv'
  <2>1. requests[w].step # "drop"
    BY <1>3 DEF FactorNext, SetupReads, SetupWrites, EnableReads, EnableWrites,
                DisableReads, DisableWrites, At
  <2>2. \/ Become(w, Idle) \/ Goto(w, "write") \/ Goto(w, "confirm") \/ Goto(w, "erase")
        \/ Overtake(w, "confirm") \/ Overtake(w, "write")
    BY <1>3, Zenon DEF FactorNext, SetupReads, SetupWrites, EnableReads, EnableWrites,
                       DisableReads, DisableWrites
  <2>3. \A s \in Steps : Moved(requests[w], s) \in Request
    BY <1>0, RequestMade
  <2>4. DropsStay
    BY <1>0, <2>1, <2>2, <2>3, DropsStayIf DEF Become, Goto, Steps
  <2>5. UNCHANGED <<users, sessions, spared>>
    BY <1>3 DEF FactorNext, SetupReads, SetupWrites, EnableReads, EnableWrites,
                DisableReads, DisableWrites, history
  <2>6. QED
    BY <2>4, <2>5, CurrentKept
<1>4. ASSUME NEW w \in Workers, Lose(w) PROVE CurrentInv'
  <2>1. Become(w, Idle) /\ UNCHANGED <<users, sessions>> /\ spared \subseteq spared'
        /\ (At(w, "drop") => Outdated(requests[w].user) \subseteq spared')
    BY <1>4 DEF Lose
  <2>2. \A v \in Workers \ {w} : requests'[v] = requests[v]
    BY <1>0, <2>1, Ending
  <2>3. ASSUME NEW s \in Tokens, Live(s), sessions[s].epoch # users[sessions[s].user].epoch,
               s \notin spared'
        PROVE  \E v \in Workers : /\ At(v, "drop")' /\ requests'[v].user = sessions[s].user
                                  /\ requests'[v].session # s
    <3>1. PICK v \in Workers : /\ At(v, "drop") /\ requests[v].user = sessions[s].user
                               /\ requests[v].session # s
      BY <2>1, <2>3 DEF CurrentInv, Covered
    <3>2. v # w
      BY <2>1, <2>3, <3>1 DEF Outdated, SessionsOf
    <3>3. QED
      BY <2>2, <3>1, <3>2 DEF At
  <2>4. \A s \in Tokens : Covered(s)'
    BY <2>1, <2>3 DEF Covered, Live
  <2>5. QED
    BY <2>1, <2>4 DEF CurrentInv
<1>5. ASSUME AroundNext PROVE CurrentInv'
  <2>1. UNCHANGED <<requests, spared>> /\ DropsStay
    BY <1>5 DEF AroundNext, Logout, Expire, Deactivate, Activate, CreateUser, Restart,
                DropsStay, At, history
  <2>2. ASSUME NEW s \in Tokens, Logout(s) \/ Expire(s) PROVE CurrentInv'
    <3>1. Delete({s}) /\ UNCHANGED users
      BY <2>2 DEF Logout, Expire
    <3>2. \A t \in Tokens : sessions'[t] = sessions[t] \/ sessions'[t].state = "gone"
      BY <1>0, <3>1, Deleting
    <3>3. QED
      BY <2>1, <3>1, <3>2, CurrentKept
  <2>3. ASSUME NEW u \in Users, Deactivate(u) PROVE CurrentInv'
    <3>1. Delete(SessionsOf(u)) /\ SessionsOf(u) \in SUBSET Tokens
      BY <2>3 DEF Deactivate, SessionsOf
    <3>2. /\ \A s \in SessionsOf(u) : sessions'[s].state = "gone"
          /\ \A s \in Tokens \ SessionsOf(u) : sessions'[s] = sessions[s]
      BY <1>0, <3>1, Deleting
    <3>3. users'[u].exists /\ \A x \in Users \ {u} : users'[x] = users[x]
      BY <1>0, <2>3 DEF Deactivate, TypeOK
    <3>4. \A s \in Tokens : Covered(s)'
      BY <2>1, <3>2, <3>3 DEF CurrentInv, Covered, Live, SessionsOf, Shape, At
    <3>5. QED
      BY <3>3, <3>4 DEF CurrentInv
  <2>4. ASSUME NEW u \in Users, Activate(u) PROVE CurrentInv'
    <3>1. \A x \in Users : users'[x].epoch = users[x].epoch /\ users'[x].exists = users[x].exists
      BY <1>0, <2>4 DEF Activate, TypeOK, UserRow
    <3>2. QED
      BY <2>1, <2>4, <3>1, CurrentKept DEF Activate
  <2>5. ASSUME NEW u \in Users, NEW p \in Passwords, CreateUser(u, p) PROVE CurrentInv'
    <3>1. \A x \in Users : users'[x].epoch = users[x].epoch /\ (users[x].exists => users'[x].exists)
      BY <1>0, <2>5 DEF CreateUser, TypeOK, CurrentInv
    <3>2. QED
      BY <2>1, <2>5, <3>1, CurrentKept DEF CreateUser
  <2>6. ASSUME Restart PROVE CurrentInv'
    <3>1. \A x \in Users : users'[x].epoch = users[x].epoch /\ users'[x].exists = users[x].exists
      BY <1>0, <2>6 DEF Restart, TypeOK, UserRow
    <3>2. QED
      BY <2>1, <2>6, <3>1, CurrentKept DEF Restart
  <2>7. QED
    BY <1>5, <2>2, <2>3, <2>4, <2>5, <2>6 DEF AroundNext
<1>6. ASSUME UNCHANGED staff PROVE CurrentInv'
  BY <1>6 DEF staff, history, CurrentInv, Covered, Live, At
<1>7. QED
  BY <1>1, <1>2, <1>3, <1>4, <1>5, <1>6 DEF Next, AroundNext

\* After a change of the password or a deactivation, a session from before is
\* alive only if its login crossed the change or the change was not finished.
THEOREM SessionsFollowChanges == Spec => []SessionsAreCurrent
<1>1. Init => CurrentInv
  BY RowsMade DEF Init, CurrentInv, Covered, Live
<1>2. Shape /\ CurrentInv /\ [Next]_staff => CurrentInv'
  BY CurrentStep
<1>3. CurrentInv => SessionsAreCurrent
  BY DEF CurrentInv, Covered, SessionsAreCurrent
<1>4. QED
  BY <1>1, <1>2, <1>3, ShapeAlways, PTL DEF Spec

-----------------------------------------------------------------------------
(* The second factor                                                       *)

\* A request that nobody has overtaken: the secret it is about to turn on has
\* been confirmed, the factor it is about to replace is off.
FactorInv ==
    /\ \A w \in Workers :
          At(w, "confirm") /\ ~requests[w].late /\ totp[requests[w].user].secret # None
             => totp[requests[w].user].secret \in confirmed
    /\ \A w \in Workers :
          At(w, "write") /\ ~requests[w].late => ~totp[requests[w].user].enabled

\* A request of the factor is left alone, or is over, or is overtaken.
Onward(v) ==
    \/ requests'[v].step \notin {"write", "confirm"}
    \/ requests'[v].late
    \/ requests'[v] = requests[v]

\* Steps that leave the table of the factors alone.
LEMMA FactorKept ==
    ASSUME FactorInv, UNCHANGED <<totp, confirmed>>, \A v \in Workers : Onward(v)
    PROVE  FactorInv'
BY DEF FactorInv, Onward, At

\* A request that comes to no step of the factor.
LEMMA OnwardIf ==
    ASSUME TypeOK, NEW w \in Workers, NEW r \in Request, r.step \notin {"write", "confirm"},
           requests' = [requests EXCEPT ![w] = r]
    PROVE  \A v \in Workers : Onward(v)
BY DEF TypeOK, Onward

\* A request with a session or a login goes on to no step of the factor's writes.
LEMMA OthersOnward ==
    ASSUME Shape, NEW w \in Workers, LoginNext(w) \/ PasswordNext(w) \/ Lose(w)
    PROVE  (\A v \in Workers : Onward(v)) /\ UNCHANGED <<totp, confirmed>>
<1>0. TypeOK /\ requests[w] \in Request /\ Idle \in Request /\ Idle.step = "idle"
  BY RequestMade DEF Shape, TypeOK
<1>a. UNCHANGED <<totp, confirmed>>
  BY DEF LoginNext, PasswordNext, LoginReads, LoginFactor, LoginReconcile, LoginInsert,
         UseSession, Admit, ProvePassword, UpdatePassword, DropSessions, Lose, history
<1>b. ASSUME NEW s \in Steps \ {"write", "confirm"}
      PROVE  Moved(requests[w], s) \in Request /\ Moved(requests[w], s).step = s
  BY <1>0, RequestMade
<1>1. ASSUME NEW u \in Users, LoginReads(w, u) PROVE \A v \in Workers : Onward(v)
  <2>1. LoginOf(u, users[u]) \in Request /\ LoginOf(u, users[u]).step = "factor"
    BY <1>0, RequestMade DEF TypeOK
  <2>2. QED
    BY <1>0, <1>1, <2>1, OnwardIf DEF LoginReads, Become
<1>2. ASSUME NEW s \in Tokens, NEW kind \in Kinds, UseSession(w, s, kind)
      PROVE  \A v \in Workers : Onward(v)
  <2>1. RequestOf(sessions[s].user, s, kind) \in Request
        /\ RequestOf(sessions[s].user, s, kind).step = "admit"
    BY <1>2, RequestMade DEF UseSession, Shape
  <2>2. QED
    BY <1>0, <1>2, <2>1, OnwardIf DEF UseSession, Become
<1>3. ASSUME Admit(w) PROVE \A v \in Workers : Onward(v)
  <2>1. requests[w].kind \in Kinds
    BY <1>3 DEF Admit, Shape, RequestOK, At
  <2>2. Become(w, Idle) \/ (requests[w].kind # "work" /\ Goto(w, requests[w].kind))
    BY <1>3, Zenon DEF Admit
  <2>3. requests[w].kind # "work" => requests[w].kind \in Steps \ {"write", "confirm"}
    BY <2>1 DEF Kinds, Steps
  <2>4. QED
    BY <1>0, <1>b, <2>2, <2>3, OnwardIf DEF Become, Goto
<1>4. ASSUME ProvePassword(w) PROVE \A v \in Workers : Onward(v)
  <2> DEFINE r == [Moved(requests[w], "update") EXCEPT !.pwd = users[requests[w].user].pwd]
  <2>1. Moved(requests[w], "update") \in Request /\ Moved(requests[w], "update").step = "update"
    BY <1>b DEF Steps
  <2>2. users[requests[w].user].pwd \in Passwords \cup {None}
    BY <1>0, <1>4 DEF ProvePassword, Shape, RequestOK, TypeOK, UserRow, At
  <2>3. r \in Request /\ r.step = "update"
    BY <2>1, <2>2, RequestMade
  <2>4. requests' = [requests EXCEPT ![w] = r]
    BY <1>4 DEF ProvePassword, Become
  <2> HIDE DEF r
  <2>5. QED
    BY <1>0, <2>3, <2>4, OnwardIf
<1>5. ASSUME \/ Become(w, Idle) \/ Goto(w, "reconcile") \/ Goto(w, "insert") \/ Goto(w, "drop")
      PROVE  \A v \in Workers : Onward(v)
  BY <1>0, <1>5, <1>b, OnwardIf DEF Become, Goto, Steps
<1>6. \/ Become(w, Idle) \/ Goto(w, "reconcile") \/ Goto(w, "insert") \/ Goto(w, "drop")
      \/ \E u \in Users : LoginReads(w, u)
      \/ \E s \in Tokens, kind \in Kinds : UseSession(w, s, kind)
      \/ Admit(w) \/ ProvePassword(w)
  BY Zenon DEF LoginNext, PasswordNext, LoginFactor, LoginReconcile, LoginInsert,
               UpdatePassword, Goto, DropSessions, Lose
<1>7. QED
  BY <1>a, <1>1, <1>2, <1>3, <1>4, <1>5, <1>6

\* A step that turns a factor on or off had the proof for it, or is a crossing.
LEMMA FactorStep ==
    ASSUME Shape, FactorInv, [Next]_staff
    PROVE  FactorInv'
<1>0. TypeOK /\ Idle \in Request /\ Idle.step = "idle"
      /\ \A w \in Workers : requests[w] \in Request
  BY RequestMade DEF Shape, TypeOK
<1>1. ASSUME NEW w \in Workers, LoginNext(w) \/ PasswordNext(w) \/ Lose(w) PROVE FactorInv'
  BY <1>1, OthersOnward, FactorKept
<1>2. ASSUME NEW w \in Workers, FactorNext(w) PROVE FactorInv'
  <2> DEFINE u == requests[w].user
  <2>a. u \in Users
    BY <1>2 DEF FactorNext, SetupReads, SetupWrites, EnableReads, EnableWrites, DisableReads,
                DisableWrites, At, Shape, RequestOK
  <2>b. \A v \in Workers : requests[v].step \in {"write", "confirm"} => requests[v].user \in Users
    BY DEF Shape, RequestOK
  <2>c. ASSUME NEW s \in {"write", "confirm", "erase"}, Goto(w, s)
        PROVE  /\ requests'[w].step = s /\ requests'[w].user = u
               /\ \A v \in Workers \ {w} : requests'[v] = requests[v]
    <3>1. Moved(requests[w], s).step = s /\ Moved(requests[w], s).user = u
      BY <1>0, RequestMade DEF Steps
    <3>2. QED
      BY <1>0, <2>c, <3>1 DEF Goto, Become, TypeOK
  <2>d. ASSUME NEW s \in {"write", "confirm"}, Overtake(w, s)
        PROVE  /\ requests'[w] = Idle
               /\ \A v \in Workers \ {w} :
                     /\ requests'[v].step = requests[v].step /\ requests'[v].user = requests[v].user
                     /\ requests[v].late => requests'[v].late
                     /\ requests[v].user = u /\ At(v, s) => requests'[v].late
    <3>1. s \in Steps
      BY DEF Steps
    <3>2. /\ requests'[w] = Idle
          /\ \A v \in Workers \ {w} :
                requests'[v] = IF requests[v].user = u /\ At(v, s)
                               THEN [requests[v] EXCEPT !.late = TRUE] ELSE requests[v]
      BY <1>0, <2>d, <3>1 DEF Overtake
    <3>3. \A v \in Workers :
             [requests[v] EXCEPT !.late = TRUE].step = requests[v].step
             /\ [requests[v] EXCEPT !.late = TRUE].user = requests[v].user
             /\ [requests[v] EXCEPT !.late = TRUE].late = TRUE
      BY <1>0, RequestMade
    <3>4. QED
      BY <3>2, <3>3
  <2>1. CASE SetupReads(w)
    <3>1. UNCHANGED <<totp, confirmed>>
      BY <2>1 DEF SetupReads, history
    <3>2. CASE Become(w, Idle)
      BY <1>0, <3>1, <3>2, OnwardIf, FactorKept DEF Become
    <3>3. CASE Goto(w, "write") /\ ~totp[u].enabled
      BY <2>c, <3>1, <3>3 DEF FactorInv, At
    <3>4. QED
      BY <2>1, <3>2, <3>3, Zenon DEF SetupReads
  <2>2. ASSUME NEW secret \in Secrets, SetupWrites(w, secret) PROVE FactorInv'
    <3>1. totp' = [totp EXCEPT ![u] = [secret |-> secret, enabled |-> FALSE]]
          /\ Overtake(w, "confirm") /\ UNCHANGED confirmed
      BY <2>2 DEF SetupWrites, history
    <3>2. totp'[u].enabled = FALSE /\ \A x \in Users \ {u} : totp'[x] = totp[x]
      BY <1>0, <2>a, <3>1 DEF TypeOK
    <3>3. QED
      BY <1>0, <2>b, <2>d, <3>1, <3>2 DEF FactorInv, At
  <2>3. CASE EnableReads(w)
    <3>1. CASE Goto(w, "confirm") /\ confirmed' = confirmed \cup {totp[u].secret}
      <4>1. UNCHANGED totp
        BY <2>3 DEF EnableReads
      <4>2. QED
        BY <2>c, <3>1, <4>1 DEF FactorInv, At
    <3>2. CASE Become(w, Idle) /\ UNCHANGED confirmed
      BY <1>0, <2>3, <3>2, OnwardIf, FactorKept DEF EnableReads, Become
    <3>3. QED
      BY <2>3, <3>1, <3>2, Zenon DEF EnableReads
  <2>4. CASE EnableWrites(w)
    <3>1. CASE Become(w, Idle) /\ UNCHANGED totp
      BY <1>0, <2>4, <3>1, OnwardIf, FactorKept DEF EnableWrites, Become, history
    <3>2. CASE totp' = [totp EXCEPT ![u].enabled = TRUE] /\ Overtake(w, "write")
      <4>1. /\ totp'[u].secret = totp[u].secret
            /\ \A x \in Users \ {u} : totp'[x] = totp[x]
        BY <1>0, <2>a, <3>2 DEF TypeOK, FactorRow
      <4>2. UNCHANGED confirmed
        BY <2>4 DEF EnableWrites, history
      <4>3. QED
        BY <1>0, <2>b, <2>d, <3>2, <4>1, <4>2 DEF FactorInv, At
    <3>3. QED
      BY <2>4, <3>1, <3>2, Zenon DEF EnableWrites
  <2>5. CASE DisableReads(w)
    <3>1. Goto(w, "erase") /\ UNCHANGED <<totp, confirmed>>
      BY <2>5 DEF DisableReads, history
    <3>2. \A v \in Workers : Onward(v)
      BY <2>c, <3>1 DEF Onward
    <3>3. QED
      BY <3>1, <3>2, FactorKept
  <2>6. CASE DisableWrites(w)
    <3>1. totp' = [totp EXCEPT ![u] = NoFactor] /\ Become(w, Idle) /\ UNCHANGED confirmed
      BY <2>6 DEF DisableWrites, history
    <3>2. totp'[u].enabled = FALSE /\ totp'[u].secret = None
          /\ \A x \in Users \ {u} : totp'[x] = totp[x]
      BY <1>0, <2>a, <3>1, RowsMade DEF TypeOK
    <3>3. requests'[w].step = "idle" /\ \A v \in Workers \ {w} : requests'[v] = requests[v]
      BY <1>0, <3>1, Ending
    <3>4. QED
      BY <2>b, <3>1, <3>2, <3>3 DEF FactorInv, At
  <2>7. QED
    BY <1>2, <2>1, <2>2, <2>3, <2>4, <2>5, <2>6 DEF FactorNext
<1>3. ASSUME AroundNext \/ UNCHANGED staff PROVE FactorInv'
  <2>1. UNCHANGED <<requests, totp, confirmed>>
    BY <1>3 DEF AroundNext, Logout, Expire, Deactivate, Activate, CreateUser, Restart, staff, history
  <2>2. QED
    BY <2>1, FactorKept DEF Onward
<1>4. QED
  BY <1>1, <1>2, <1>3 DEF Next, AroundNext

\* Of two steps of the factor only the confirmed one turns it on, only the proved
\* one or a late set-up turns it off.
LEMMA FactorChangeStep ==
    ASSUME Shape, FactorInv, [Next]_staff
    PROVE  [FactorChange]_staff
<1>0. TypeOK /\ \A w \in Workers : requests[w] \in Request
  BY DEF Shape, TypeOK
<1>1. ASSUME UNCHANGED totp PROVE FactorChange
  BY <1>1 DEF FactorChange
<1>2. ASSUME NEW w \in Workers, FactorNext(w) PROVE FactorChange
  <2> DEFINE u == requests[w].user
  <2>a. u \in Users
    BY <1>2 DEF FactorNext, SetupReads, SetupWrites, EnableReads, EnableWrites, DisableReads,
                DisableWrites, At, Shape, RequestOK
  <2>1. ASSUME NEW secret \in Secrets, SetupWrites(w, secret) PROVE FactorChange
    <3>1. totp'[u].enabled = FALSE /\ \A x \in Users \ {u} : totp'[x] = totp[x]
      BY <1>0, <2>a, <2>1 DEF SetupWrites, TypeOK
    <3>2. At(w, "write") /\ requests'[w] = Idle
      BY <1>0, <2>1 DEF SetupWrites, Overtake
    <3>3. totp[u].enabled => EndsLate(u, "write")
      BY <3>2 DEF FactorInv, EndsLate
    <3>4. QED
      BY <3>1, <3>3 DEF FactorChange
  <2>2. CASE EnableWrites(w)
    <3>1. CASE UNCHANGED totp
      BY <1>1, <3>1
    <3>2. CASE totp[u].secret # None /\ totp' = [totp EXCEPT ![u].enabled = TRUE]
               /\ Overtake(w, "write")
      <4>1. totp'[u].secret = totp[u].secret /\ \A x \in Users \ {u} : totp'[x] = totp[x]
        BY <1>0, <2>a, <3>2 DEF TypeOK, FactorRow
      <4>2. At(w, "confirm") /\ requests'[w] = Idle
        BY <1>0, <2>2, <3>2 DEF EnableWrites, Overtake
      <4>3. totp[u].secret \in confirmed \/ EndsLate(u, "confirm")
        BY <3>2, <4>2 DEF FactorInv, EndsLate
      <4>4. totp'[u].enabled
        BY <1>0, <2>a, <3>2 DEF TypeOK, FactorRow
      <4>5. QED
        BY <4>1, <4>3, <4>4 DEF FactorChange
    <3>3. QED
      BY <2>2, <3>1, <3>2, Zenon DEF EnableWrites
  <2>3. CASE DisableWrites(w)
    <3>1. totp'[u].enabled = FALSE /\ \A x \in Users \ {u} : totp'[x] = totp[x]
      BY <1>0, <2>a, <2>3, RowsMade DEF DisableWrites, TypeOK
    <3>2. At(w, "erase") /\ requests'[w] = Idle
      BY <1>0, <2>3, Ending DEF DisableWrites
    <3>3. Ends(u, "erase")
      BY <3>2 DEF Ends
    <3>4. QED
      BY <3>1, <3>3 DEF FactorChange
  <2>4. CASE SetupReads(w) \/ EnableReads(w) \/ DisableReads(w)
    BY <1>1, <2>4 DEF SetupReads, EnableReads, DisableReads
  <2>5. QED
    BY <1>2, <2>1, <2>2, <2>3, <2>4 DEF FactorNext
<1>3. CASE \E w \in Workers : LoginNext(w) \/ PasswordNext(w) \/ Lose(w)
  BY <1>1, <1>3, OthersOnward
<1>4. CASE AroundNext
  BY <1>1, <1>4 DEF AroundNext, Logout, Expire, Deactivate, Activate, CreateUser, Restart
<1>5. QED
  BY <1>2, <1>3, <1>4 DEF Next, AroundNext

\* The factor is turned on after a code of the secret it then has, and off by the
\* password only, unless a set-up and a confirmation of the same user have crossed.
THEOREM FactorByProof == Spec => FactorChangesByProof
<1>1. Init => FactorInv
  BY RequestMade DEF Init, FactorInv, At
<1>2. Shape /\ FactorInv /\ [Next]_staff => FactorInv'
  BY FactorStep
<1>3. Shape /\ FactorInv /\ [Next]_staff => [FactorChange]_staff
  BY FactorChangeStep
<1>4. QED
  BY <1>1, <1>2, <1>3, ShapeAlways, PTL DEF Spec, FactorChangesByProof
=============================================================================
