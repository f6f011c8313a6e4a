----------------------------- MODULE StaffAuth -----------------------------
(***************************************************************************)
(* Staff accounts: login, the forced change of the demo password, password *)
(* change, deactivation, the second factor, and the restart that runs the  *)
(* migrations again (auth.go, totp.go, authMW and requireStaff of          *)
(* server.go, store.go, db.go, migration 007).  A request is served in     *)
(* steps, one for each statement it sends to the database.  A password or  *)
(* code that is wrong is refused and changes nothing: requests bring the   *)
(* right ones.                                                             *)
(*                                                                         *)
(* A definition named ..._Fault is no part of the model: see AppealStore.  *)
(***************************************************************************)
EXTENDS Integers, FiniteSets

CONSTANTS
    Users,        \* accounts
    Demo,         \* those Seed creates, which are those migration 007 names
    Workers,      \* requests the server is serving at one time (bound of the model)
    Tokens,       \* session tokens
    Secrets,      \* TOTP secrets
    Passwords,
    SeedPwd,      \* the demo password of the first start
    TotpEnabled,  \* TOTP_ENABLED
    MaxEpoch,     \* bound: password changes and deactivations of an account
    None          \* no user, no token, no secret, no password

ASSUME StaffAssumption ==
    /\ Demo \subseteq Users
    /\ SeedPwd \in Passwords
    /\ TotpEnabled \in BOOLEAN
    /\ MaxEpoch \in Nat
    /\ None \notin Users \cup Tokens \cup Secrets \cup Passwords

VARIABLES
    users,      \* table users
    totp,       \* table user_totp: the row of each user, secret None for no row
    sessions,   \* table staff_sessions: the row under each token
    requests,   \* the request each worker is serving
    seed,       \* cfg.SeedDefaultPwd of the running server, None if it is nobody's
    issued,     \* secrets made so far
    \* History variables: read by no action, only by properties.
    changed,    \* users who have changed their password
    worked,     \* users admitted to anything but the password change
    spared,     \* sessions of crossed logins and of password changes cut short
    confirmed   \* secrets for which the user has given a code

staff == <<users, totp, sessions, requests, seed, issued, changed, worked, spared, confirmed>>

history == <<changed, worked, spared, confirmed>>

\* epoch (history): how many password changes and deactivations there were.
UserRow ==
    [exists: BOOLEAN, active: BOOLEAN, must: BOOLEAN, pwd: Passwords \cup {None},
     epoch: 0..MaxEpoch]

FactorRow == [secret: Secrets \cup {None}, enabled: BOOLEAN]

NoFactor == [secret |-> None, enabled |-> FALSE]

\* epoch (history): that of the user whose password opened the session.
SessionRow ==
    [state: {"unused", "live", "gone"}, user: Users \cup {None}, epoch: 0..MaxEpoch]

NoSession(s) == [state |-> s, user |-> None, epoch |-> 0]

\* What a session may be used for; "work" is every handler that is not below.
Kinds == {"work", "password", "setup", "enable", "disable"}

Steps ==
    {"idle", "factor", "reconcile", "insert",   \* handleLogin
     "admit",                                   \* authMW, the session found
     "password", "update", "drop",              \* handleChangePassword
     "setup", "write", "enable", "confirm", "disable", "erase"}

\* pwd, must: the row a login has read; epoch (history): that of the proved
\* password; late (history): overtaken by another request on the same factor.
Request ==
    [step: Steps, user: Users \cup {None}, session: Tokens \cup {None},
     kind: Kinds \cup {None}, pwd: Passwords \cup {None}, must: BOOLEAN,
     epoch: 0..MaxEpoch, late: BOOLEAN]

Idle ==
    [step |-> "idle", user |-> None, session |-> None, kind |-> None, pwd |-> None,
     must |-> FALSE, epoch |-> 0, late |-> FALSE]

\* A login that has read the row of u.
LoginOf(u, row) ==
    [step |-> "factor", user |-> u, session |-> None, kind |-> None, pwd |-> row.pwd,
     must |-> row.must, epoch |-> row.epoch, late |-> FALSE]

\* A request with a session of u.
RequestOf(u, s, kind) ==
    [step |-> "admit", user |-> u, session |-> s, kind |-> kind, pwd |-> None,
     must |-> FALSE, epoch |-> 0, late |-> FALSE]

Moved(r, s) == [r EXCEPT !.step = s]

TypeOK ==
    /\ users \in [Users -> UserRow]
    /\ totp \in [Users -> FactorRow]
    /\ sessions \in [Tokens -> SessionRow]
    /\ requests \in [Workers -> Request]
    /\ seed \in Passwords \cup {None}
    /\ issued \subseteq Secrets
    /\ changed \subseteq Users
    /\ worked \subseteq Users
    /\ spared \subseteq Tokens
    /\ confirmed \subseteq Secrets

\* The first start: the migrations, then Seed.
Init ==
    /\ users = [u \in Users |->
                  [exists |-> u \in Demo, active |-> TRUE, must |-> u \in Demo,
                   pwd |-> IF u \in Demo THEN SeedPwd ELSE None, epoch |-> 0]]
    /\ totp = [u \in Users |-> NoFactor]
    /\ sessions = [s \in Tokens |-> NoSession("unused")]
    /\ requests = [w \in Workers |-> Idle]
    /\ seed = SeedPwd
    /\ issued = {}
    /\ changed = {} /\ worked = {} /\ spared = {} /\ confirmed = {}

At(w, s) == requests[w].step = s

Pending == {w \in Workers : ~At(w, "idle")}

Become(w, r) == requests' = [requests EXCEPT ![w] = r]

Goto(w, s) == Become(w, Moved(requests[w], s))

Live(s) == sessions[s].state = "live"

SessionsOf(u) == {s \in Tokens : Live(s) /\ sessions[s].user = u}

Delete(S) ==
    sessions' = [s \in Tokens |-> IF s \in S THEN NoSession("gone") ELSE sessions[s]]

-----------------------------------------------------------------------------
(* Login                                                                   *)

\* The row of the user; the password is right, the user active.
LoginReads(w, u) ==
    /\ At(w, "idle")
    /\ users[u].exists /\ users[u].active
    /\ Become(w, LoginOf(u, users[u]))
    /\ UNCHANGED <<users, totp, sessions, seed, issued, history>>

\* checkTOTPAtLogin: code is the secret the code was made from.
LoginFactor(w, code) ==
    /\ At(w, "factor")
    /\ LET u == requests[w].user
       IN  IF TotpEnabled /\ totp[u].enabled /\ code # totp[u].secret
           THEN Become(w, Idle)
           ELSE Goto(w, "reconcile")
    /\ UNCHANGED <<users, totp, sessions, seed, issued, history>>

LoginReconcile_Fault(w) ==  \* the flag is not compared with the fact
    /\ At(w, "reconcile")
    /\ users' = [users EXCEPT ![requests[w].user].must = FALSE]
    /\ Goto(w, "insert")
    /\ UNCHANGED <<totp, sessions, seed, issued, history>>

\* The flag is dropped if the password read is not the demo password.
LoginReconcile(w) ==
    /\ At(w, "reconcile")
    /\ LET r == requests[w]
       IN  users' = IF r.must /\ r.pwd # seed
                    THEN [users EXCEPT ![r.user].must = FALSE] ELSE users
    /\ Goto(w, "insert")
    /\ UNCHANGED <<totp, sessions, seed, issued, history>>

\* CreateStaffSession.
LoginInsert(w, s) ==
    /\ At(w, "insert")
    /\ sessions[s].state = "unused"
    /\ LET r == requests[w]
       IN  /\ sessions' = [sessions EXCEPT ![s] =
                              [state |-> "live", user |-> r.user, epoch |-> r.epoch]]
           /\ spared' = IF r.epoch # users[r.user].epoch THEN spared \cup {s} ELSE spared
    /\ Become(w, Idle)
    /\ UNCHANGED <<users, totp, seed, issued, changed, worked, confirmed>>

-----------------------------------------------------------------------------
(* A request under a session                                               *)

\* GetStaffSession in authMW.
UseSession(w, s, kind) ==
    /\ At(w, "idle")
    /\ Live(s)
    /\ Become(w, RequestOf(sessions[s].user, s, kind))
    /\ UNCHANGED <<users, totp, sessions, seed, issued, history>>

\* GetUserByID in authMW; then requireStaff or requireRole.
Admit(w) ==
    /\ At(w, "admit")
    /\ LET r == requests[w]
       IN  IF users[r.user].active /\ (users[r.user].must => r.kind = "password")
           THEN /\ IF r.kind = "work" THEN Become(w, Idle) ELSE Goto(w, r.kind)
                /\ worked' = IF r.kind = "password" THEN worked ELSE worked \cup {r.user}
           ELSE Become(w, Idle) /\ UNCHANGED worked
    /\ UNCHANGED <<users, totp, sessions, seed, issued, changed, spared, confirmed>>

\* handleChangePassword: the current password is read and proved ...
ProvePassword(w) ==
    /\ At(w, "password")
    /\ LET r == requests[w]
       IN  Become(w, [Moved(r, "update") EXCEPT !.pwd = users[r.user].pwd])
    /\ UNCHANGED <<users, totp, sessions, seed, issued, history>>

\* ... replaced by another ...
UpdatePassword(w, p) ==
    /\ At(w, "update")
    /\ LET r == requests[w]
           u == r.user
           e == users[u].epoch + 1
       IN  /\ p # r.pwd
           /\ e <= MaxEpoch
           /\ users' = [users EXCEPT ![u] = [exists |-> TRUE, active |-> @.active, must |-> FALSE,
                                             pwd |-> p, epoch |-> e]]
           /\ sessions' = IF Live(r.session)
                          THEN [sessions EXCEPT ![r.session].epoch = e] ELSE sessions
           /\ Become(w, Moved(r, "drop"))
           /\ changed' = changed \cup {u}
    /\ UNCHANGED <<totp, seed, issued, worked, spared, confirmed>>

DropSessions_Fault(w) ==  \* the current session only
    /\ At(w, "drop")
    /\ Delete({requests[w].session})
    /\ Become(w, Idle)
    /\ UNCHANGED <<users, totp, seed, issued, history>>

\* ... and the other sessions of the user are deleted.
DropSessions(w) ==
    /\ At(w, "drop")
    /\ Delete(SessionsOf(requests[w].user) \ {requests[w].session})
    /\ Become(w, Idle)
    /\ UNCHANGED <<users, totp, seed, issued, history>>

\* A logout asks for no session that is valid.
Logout(s) ==
    /\ Live(s)
    /\ Delete({s})
    /\ UNCHANGED <<users, totp, requests, seed, issued, history>>

-----------------------------------------------------------------------------
(* The second factor                                                       *)

SetupReads_Fault(w) ==  \* set up again whatever is on
    /\ At(w, "setup")
    /\ Goto(w, "write")
    /\ UNCHANGED <<users, totp, sessions, seed, issued, history>>

\* handleTOTPSetup: refused if the factor is on ...
SetupReads(w) ==
    /\ At(w, "setup")
    /\ IF TotpEnabled /\ ~totp[requests[w].user].enabled
       THEN Goto(w, "write") ELSE Become(w, Idle)
    /\ UNCHANGED <<users, totp, sessions, seed, issued, history>>

\* The request is over, and has overtaken those of the same user at step s.
Overtake(w, s) ==
    requests' = [v \in Workers |->
                   IF v = w THEN Idle
                   ELSE IF requests[v].user = requests[w].user /\ At(v, s)
                   THEN [requests[v] EXCEPT !.late = TRUE] ELSE requests[v]]

\* ... else a new secret takes the place of the old one, turned off.
SetupWrites(w, secret) ==
    /\ At(w, "write")
    /\ secret \notin issued
    /\ issued' = issued \cup {secret}
    /\ totp' = [totp EXCEPT ![requests[w].user] = [secret |-> secret, enabled |-> FALSE]]
    /\ Overtake(w, "confirm")
    /\ UNCHANGED <<users, sessions, seed, history>>

\* handleTOTPEnable: the code is one of the secret read ...
EnableReads(w) ==
    /\ At(w, "enable")
    /\ LET f == totp[requests[w].user]
       IN  IF TotpEnabled /\ ~f.enabled /\ f.secret # None
           THEN /\ Goto(w, "confirm")
                /\ confirmed' = confirmed \cup {f.secret}
           ELSE Become(w, Idle) /\ UNCHANGED confirmed
    /\ UNCHANGED <<users, totp, sessions, seed, issued, changed, worked, spared>>

\* ... and whatever row the user has by now is turned on.
EnableWrites(w) ==
    /\ At(w, "confirm")
    /\ LET u == requests[w].user
       IN  IF totp[u].secret = None
           THEN Become(w, Idle) /\ UNCHANGED totp
           ELSE /\ totp' = [totp EXCEPT ![u].enabled = TRUE]
                /\ Overtake(w, "write")
    /\ UNCHANGED <<users, sessions, seed, issued, history>>

\* handleTOTPDisable: the password is read and proved ...
DisableReads(w) ==
    /\ At(w, "disable")
    /\ Goto(w, "erase")
    /\ UNCHANGED <<users, totp, sessions, seed, issued, history>>

\* ... and the row deleted.
DisableWrites(w) ==
    /\ At(w, "erase")
    /\ totp' = [totp EXCEPT ![requests[w].user] = NoFactor]
    /\ Become(w, Idle)
    /\ UNCHANGED <<users, sessions, seed, issued, history>>

-----------------------------------------------------------------------------
(* Failures, time, the administrator, a restart                            *)

Outdated(u) == {s \in SessionsOf(u) : sessions[s].epoch # users[u].epoch}

\* The client is gone, a statement fails, the server dies.
Lose(w) ==
    /\ ~At(w, "idle")
    /\ spared' = IF At(w, "drop") THEN spared \cup Outdated(requests[w].user) ELSE spared
    /\ Become(w, Idle)
    /\ UNCHANGED <<users, totp, sessions, seed, issued, changed, worked, confirmed>>

\* The end of its time to live.
Expire(s) ==
    /\ Live(s)
    /\ Delete({s})
    /\ UNCHANGED <<users, totp, requests, seed, issued, history>>

\* SetUserActive, one transaction.
Deactivate(u) ==
    /\ users[u].exists
    /\ users[u].epoch < MaxEpoch
    /\ users' = [users EXCEPT ![u] = [exists |-> TRUE, active |-> FALSE, must |-> @.must,
                                      pwd |-> @.pwd, epoch |-> @.epoch + 1]]
    /\ Delete(SessionsOf(u))
    /\ UNCHANGED <<totp, requests, seed, issued, history>>

Activate(u) ==
    /\ users[u].exists
    /\ users' = [users EXCEPT ![u].active = TRUE]
    /\ UNCHANGED <<totp, sessions, requests, seed, issued, history>>

\* handleAdminCreateUser: the administrator knows the password.
CreateUser(u, p) ==
    /\ ~users[u].exists
    /\ users' = [users EXCEPT ![u] = [exists |-> TRUE, active |-> TRUE, must |-> FALSE,
                                      pwd |-> p, epoch |-> 0]]
    /\ UNCHANGED <<totp, sessions, requests, seed, issued, history>>

\* A stop loses what is pending; a start runs every migration.  Its demo password
\* is the old one if SEED_DEFAULT_PWD names it, else one made up, nobody's.
Restart ==
    /\ Pending = {}
    /\ users' = [u \in Users |-> IF u \in Demo THEN [users[u] EXCEPT !.must = TRUE]
                                 ELSE users[u]]
    /\ seed' \in {seed, None}
    /\ UNCHANGED <<totp, sessions, requests, issued, history>>

-----------------------------------------------------------------------------
LoginNext(w) ==
    \/ \E u \in Users : LoginReads(w, u)
    \/ \E code \in Secrets \cup {None} : LoginFactor(w, code)
    \/ LoginReconcile(w)
    \/ \E s \in Tokens : LoginInsert(w, s)

PasswordNext(w) ==
    \/ \E s \in Tokens, kind \in Kinds : UseSession(w, s, kind)
    \/ Admit(w)
    \/ ProvePassword(w)
    \/ \E p \in Passwords : UpdatePassword(w, p)
    \/ DropSessions(w)

FactorNext(w) ==
    \/ SetupReads(w)
    \/ \E secret \in Secrets : SetupWrites(w, secret)
    \/ EnableReads(w)
    \/ EnableWrites(w)
    \/ DisableReads(w)
    \/ DisableWrites(w)

Next ==
    \/ \E w \in Workers : LoginNext(w) \/ PasswordNext(w) \/ FactorNext(w) \/ Lose(w)
    \/ \E s \in Tokens : Logout(s) \/ Expire(s)
    \/ \E u \in Users : Deactivate(u) \/ Activate(u) \/ \E p \in Passwords : CreateUser(u, p)
    \/ Restart

Spec == Init /\ [][Next]_staff

-----------------------------------------------------------------------------
(* Safety                                                                  *)

\* "Until it is changed, the whole API of the staff is closed, except for the
\* change of the password" (README.md:98), as far as the code delivers it:
\* whatever logins, changes and restarts cross each other, nobody gets past
\* authMW for anything else before she has replaced the demo password, up to a
\* start that made up another one.
WorkedAfterChange == seed = SeedPwd => worked \cap Demo \subseteq changed

\* A password change invalidates all other sessions of the user (README.md:175),
\* a deactivation all of them, as far as the code delivers it: a session opened
\* with an outdated password, or before a deactivation, is alive only if its
\* login crossed the change, or the change was cut short or is not over.
SessionsAreCurrent ==
    \A s \in Tokens :
        LET u == sessions[s].user
        IN  Live(s) /\ sessions[s].epoch # users[u].epoch =>
                \/ s \in spared
                \/ \E w \in Workers : At(w, "drop") /\ requests[w].user = u

\* A request for the factor of u ends, from step s.
Ends(u, s) == \E w \in Workers : At(w, s) /\ requests[w].user = u /\ requests'[w] = Idle

\* It ends after another has overtaken it.
EndsLate(u, s) ==
    \E w \in Workers : /\ At(w, s) /\ requests[w].user = u /\ requests[w].late
                       /\ requests'[w] = Idle

FactorChange ==
    \A u \in Users :
        /\ ~totp[u].enabled /\ totp'[u].enabled =>
               totp'[u].secret \in confirmed \/ EndsLate(u, "confirm")
        /\ totp[u].enabled /\ ~totp'[u].enabled =>
               Ends(u, "erase") \/ EndsLate(u, "write")

\* "Turning off takes the password, turning on a valid code" (008_totp.sql:4), as
\* far as the code delivers it: a secret is turned on after a code made from that
\* very secret, and only the password turns it off, unless a set-up and a
\* confirmation of the same user have crossed.
FactorChangesByProof == [][FactorChange]_staff
=============================================================================
