# Verification of «Отклик»

TLA+ models of the server of «Отклик» (`cmd/server`, `internal/…`): anonymous
appeals of school children, the staff that answers them, and the background job
that closes and erases them. TLC checks the models on small instances; TLAPS
proves the central safety properties for every value of the constants.

Contents: 1 the system — 2 the modules — 3 the runs — 4 the proofs — 5 where
code and documentation disagree — 6 modelling decisions — 7 what is not
modelled — 8 the plan — 9 how to run it.

## 1. The system

One Go process serves two ports (8080 for applicants, 8081 for staff) over one
PostgreSQL database and one directory of files. Every HTTP request is a
goroutine; a *janitor* goroutine wakes every hour; another sends push messages.
There is no queue and no lock that spans requests: what keeps them apart is the
database, i.e. single statements and, for most writes to an appeal,
`withAppealLock` (`internal/store/appeals_workflow.go:38`), a transaction that
holds the row of the appeal `FOR UPDATE`.

### Components

**Appeals: state machine and tables** (`internal/domain/domain.go`,
`internal/store/appeals*.go`, `settings.go`, `feedback`, `events.go`, migrations
002 and 006). *State*: the row of an appeal (status, priority, crisis flag,
responsible expert, transfer request, number of returns, recommendation), the
table of participants, the verdict of the applicant, the log of events, the
setting `max_returns`. *Operations*: filing, addition to the text, assignment,
rejection, completion, return for rework, taking up, clarification, publication,
transfer request, invitation of a contributor, verdict, priority, crisis review,
admin override, purge. *Correct when*: crisis and urgency agree; one expert
answers for an appeal, and the two tables that say who agree; work in progress has
an expert, an announced answer has a text; the verdict fits the outcome; the
applicant does not return more often than the limit; an archived appeal stays as
it is. *Hard*: the properties relate columns and tables written by a dozen
operations in any order; the admin override skips the transition table; settings
change between two steps.

**Request handlers of appeals** (`internal/httpapi/applicant_session.go`,
`staff_expert.go`, `staff_chat.go`, `staff_operator.go`, `staff.go`).
*State*: what a request has read and not yet used; the chat.
*Hard*: a handler reads the row (status, crisis flag, participants) *outside*
the transaction that acts on what it read; some make several store calls, and a
client that hangs up cancels `r.Context()` and with it the rest.
*Correct when*: interleaved requests do nothing the store's transactions would
not allow; a crisis text is not passed over; an answer ends the waiting it met;
what an expert who has been replaced still has on its way reaches the applicant
only after somebody has taken up the appeal that was handed over.

**Automatic closing** (`internal/store/janitor.go: AutoCloseNoResponse`,
`cmd/server/main.go`). *State*: ages of messages, of the warning, the setting
`no_response_days`. One transaction warns in the chat and closes. *Hard*: the
closing query works on a snapshot and locks rows one by one while applicants
answer; limits and time boundaries. *Correct when*: nobody is closed unwarned,
before the time, or after having been moved on; nobody is waited for for ever.

**Attachments and retention** (`internal/httpapi/attachments.go`,
`internal/store/attachments.go`, `janitor.go: PurgeTerminalAppeals`, the
janitor and shutdown of `main.go`). *State*: rows in the database, files on the
disk; no transaction spans both. *Hard*: a failure or the end of the process
between any two steps; uploads that race each other, the limit and the purge.
*Correct when*: what is listed can be downloaded, what is closed is erased in the
end, no directory is left behind, the limit is overrun by no more than the
uploads that race.

**Applicant access** (`applicant_intake.go`, `auth.go`, `authMW` of
`server.go`, `domain/track.go`). *State*: hash of the track number, idempotency
key, applicant sessions, the browser's cookie. *Hard*: filings that race or are
repeated, answers that are lost, a session that is replaced while other
requests of the same browser use it, a hash key introduced on a live database.
*Correct when*: one appeal per key, the number given opens the appeal, the
refresh never locks an active applicant out.

**Staff accounts** (`auth.go`, `totp.go`, `requireStaff`, `admin.go`,
`store.go`, `db.go`, migrations 007 and 008). *State*: users, sessions, the
second factor, the demo password of the running server. *Hard*: logins crossing
password changes, deactivations and restarts (each of which runs all the
migrations again); set-up and confirmation of a factor crossing each other.
*Correct when*: nobody works with the demo password, a password change ends the
old sessions, a factor is turned on by its code and off by the password.

**Rate limiter** (`server.go:469-555`). *State*: a map from keys to the times
of recent attempts, in each of the two servers. *Operations*: `allow` and
`reset` under a mutex; a sweep every ten minutes, which does *not* take the
mutex and filters in place the very slices `allow` appends to; eviction of the
key used longest ago when the map is full. *Correct when*: no window lets
through more attempts than the limit, nobody is refused without having used up
the limit, the map is bounded, cold keys leave it. *Hard*: the data race; one
map for windows of a minute and of an hour.

**Crisis markers** (`crisis_admin.go`, `store/crisis_markers.go`,
`domain/crisis.go`). *State*: a table, seeded by the first start and edited by
the admin, and a copy of it that each of the two servers keeps for a minute.
*Hard*: the texts of applicants are tested on one server, the admin invalidates
the copy of the other; the refill reads the table and stores the copy in two
steps, under the context of whichever request came first; an error, like an
empty table, brings in the built-in lists. *Correct when*: a text with a marker
is flagged, and one without is not, once the last change is older than any
copy.

**Push notifications** (`push/push.go`, `push_endpoints.go`, `store/push.go`,
`notifyAppeal` of `main.go`). *State*: subscriptions (an endpoint belongs to
one appeal), and per sender the list it has read and the endpoints it has found
gone. *Hard*: the list is old when it is used, and the deletions come after
the round; slow endpoints use up the time of all; a request or a deletion that
fails is logged and the next is tried; `main` does not wait for senders.
*Correct when*: a browser that can be reached stays subscribed, one that is slow
does not block the others.

**Experts and assignment** (`handleAssign`, `handleAddContributor`,
`handleAdminPatchUser`, `settings.go`). *State*: the users next to the
appeals. *Hard*: an expert is looked up, then the appeal entrusted to her in
another transaction; the admin may send her away in between. *Correct when*:
nothing is entrusted to an expert who has been sent away beyond what was on its
way to her. The advice on whom to choose (`buildRoutingHint`,
`appeals_lists.go`, `ExpertLoad`) is read-only and not modelled.

**Presence** (`presence.go`): who is looking at a chat, advisory; not modelled.

**Reports, profile, export, metrics**: read-only. **Start and shutdown,
configuration, embedded web pages, VAPID key tool**: the parts with an effect on
state are in the models of what they affect. **Vendored libraries, the browser
code**: outside.

### How they interact

Handlers call the store; the store's transactions on one appeal exclude each
other, statements without `withAppealLock` do not, except that an `INSERT` into
a table that refers to `appeals` waits for a row lock. The janitor uses the
same database in its own transactions. The only memory shared by requests is
the rate limiter, the cache of the crisis markers and presence. Applicant
access and staff accounts decide who may call what; the handlers of appeals
check the rest (participant, responsible, owner).

## 2. The modules

| module | models | composes |
|---|---|---|
| `AppealDomain` | the appeals, statuses, transition table, priorities | |
| `AppealLifecycle` | what the service promises about an appeal: filed once, entrusted while open, archived once, erased from the archive | abstract specification |
| `AppealStore` | the transactions of `internal/store` on an appeal, one action each | extends `AppealDomain`; refines `AppealLifecycle` |
| `AppealHandlers` | the handlers that read before they write, and the chat | extends `AppealStore` |
| `AutoClose` | the janitor's warn-and-close transaction and what it races with | extends `AppealDomain` |
| `Attachments` | uploads, purge, the process | |
| `ApplicantAccess` | filing, track numbers, applicant sessions | |
| `StaffAuth` | login, password, second factor, restart | |
| `RateLimiter` | `allow`, `reset`, the sweep without a lock, eviction | |
| `CrisisMarkers` | the dictionary, its copies, the matching of a text | |
| `Roster` | experts the admin sends away while appeals are entrusted to them | extends `AppealStore` |
| `PushDelivery` | subscriptions, rounds of the senders, their time | extends `AppealDomain` |
| `MC…` | instances for TLC | one per module from `AppealStore` on |
| `AppealStoreProofs` | theorems | about `AppealStore` |
| `RequestProofs` | theorems | about `AppealHandlers` and `Roster`; extends `AppealStoreProofs` |
| `JanitorProofs` | theorems | about `AutoClose`, and `PushDelivery`, which sends the janitor's warnings among others |
| `AttachmentsProofs`, `ApplicantAccessProofs`, `StaffAuthProofs`, `RateLimiterProofs`, `CrisisMarkersProofs` | theorems | about one module each |

State and actions keep the names of the code. What the code stores in a table is a
function from identifiers to records; what a goroutine knows while it serves a
request is a record in `requests` (or `errands`, `uploads`, `senders`, `janitor`).
Modules whose proofs share a module share no names: that is why the requests of
`Roster` are `errands` and the specification of `PushDelivery` is `PushSpec`.
Variables that only properties read are listed as history variables in each
module: `overridden` (the admin has set a status by hand), `byApplicant` (returns
she asked for), `moments` (what has held at some moment of a request), `unchecked`
and `spoiled` (uploads that were not counted; appeals whose purge was cut short,
or that an upload outlived), `repeated` and `ended` (numbers answered to a
repeated filing, tokens that came to an end), `changed`, `worked`, `spared`,
`confirmed` (accounts with a password of their own, accounts used, sessions that
escaped a change, secrets proved), `granted` and `raced` (attempts let through,
keys written under the sweep), `steady` and `fellBack` (ticks since a marker was
changed, and since the built-in lists were last used), `stranded` (appeals in the
hands, or on their way into the hands, of an expert when she was sent away),
`wanted` and `tried` (the appeal a browser asked for last; what a round began
with, who has cost it time, whom it has given up).

A definition with the suffix `_Fault` (`_Unswept`) is not part of a model. It is
the definition that follows it with one plausible mistake, kept so that each
property can be shown to notice it.

*Actions and code.* In `AppealStore` an action is one method of the store, for the
values its callers pass: e.g. `AssignExpert` is the update of the row, of both
tables of participants, and of the transfer request. In `AppealHandlers`
`ExpertAsks`/`ExpertWrites`/`ApplicantWrites`/`ApplicantAppends`/ `OperatorCloses`
are a handler up to where other requests first come in, `ReadBack` is the look at
the row after an addition has been stored, `ExpertCommits`, `LiftWaiting`,
`StoreMessage`, `FlagMessage`, `CloseCommits` the store calls that follow, `Fail`
the end of it at any point; handlers that read nothing first are store actions
(`AtOnce`). In `AutoClose`, `JanitorWarns`, `JanitorLooks`, `JanitorCloses` are
the three statements of the transaction, `RollsBack` its failure. In `Attachments`
each step is one operation on one of the two stores. In `ApplicantAccess` a
request is `UseSession`, `RotateSession`, `RetireSession`, `Serve`, `Answer`, and
may be lost after each. In `StaffAuth` a request goes through one action per
statement (`LoginReads`, `LoginFactor`, `LoginReconcile`, `LoginInsert`;
`UseSession`, `Admit`; `ProvePassword`, `UpdatePassword`, `DropSessions`;
`SetupReads`, `SetupWrites`; …). In `RateLimiter` `Grant` and `Refuse` are the two
outcomes of `allow`, `Reset` is `reset`, and a visit of the sweep to a key is
`SweepReads` and `SweepWrites`: a request that writes the key in between
(`Touched`) makes the result any subset of the times in either slice
(`RacedCopy`). In `CrisisMarkers` a refill is `FillReads` and `FillStores`. In
`Roster`, `AssignLooks`, `ContributeAsks` and `ContributeLooks` are the reads of
the two handlers, `Entrust` the store call that follows, `Patch` either call of
`handleAdminPatchUser`. In `PushDelivery` a round is `Starts`, for each endpoint
one of `SaysGone`, `IsSentOrFails`, `TooLate`, then `DeletesDead` for each found
gone, which may fail, and `Ends`; the process may stop at any point (`Dies`).

## 3. The runs

Twelve runs. Eleven pass; one is expected to be violated: it checks a sentence of
the repository that the code does not keep (section 5). Every
property of a passing run has a `_Fault`: put in the place of the definition it
imitates, it makes TLC find the property violated in the same run. The type
invariants of the modules are not among the checked properties: TLAPS proves them
(section 4). What the eleven passing runs check is proved as well, but for three
liveness properties.

| run | distinct states | shows |
|---|---|---|
| `AppealStore` | 474 thousand | consistency of the tables, refinement of `AppealLifecycle` |
| `AppealHandlers` | 563 thousand | lost answers, flags, and replaced experts among interleaved handlers |
| `AutoClose` | 4 thousand | safety of the closing transaction, and that waiting ends |
| `Attachments` | 553 thousand | the two stores agree under every fault |
| `AttachmentsLiveness` | 10 thousand | what is closed is erased in the end |
| `ApplicantAccess` | 281 thousand | idempotent filing, numbers that open, refresh of sessions |
| `StaffAuth` | 1.46 million | demo password, sessions after a change, second factor |
| `RateLimiter` | 159 thousand | the limits hold next to an unlocked sweep, and cold keys leave |
| `CrisisMarkers` | 553 thousand | how far the detector may lag behind the table |
| `Roster` | 790 thousand | an expert who has been sent away gets nothing more |
| `PushDelivery` | 104 thousand | subscriptions survive rounds, rounds survive a slow endpoint |
| `TwoDaysNotice` | | a violation |

**`AppealStore`.** One appeal, since no transaction reads or writes the rows of
two. Two experts: a reassignment needs two, and so does a contributor next to the
responsible expert. `max_returns` takes 0 (which stands for the default, 2), 1 and
3; the number of returns is cut at `ReturnBound` = 4, one more than any of the
limits, so that the counter meets and passes each of them. The limit changes at
any time, and the admin may set any status at any time; properties that an
override is entitled to break say so. Checked: an appeal in crisis is urgent; the
row and the table of participants name the same one expert, and verdict and
outcome agree (`RecordsAgree`); past `new` there is an expert, an announced answer
has a text (`WorkIsBacked`); returns within a limit that was in force; the archive
is final. `ImplementsLifecycle` is the refinement of the abstract life of an
appeal.

**`AppealHandlers`.** Two workers. With one pending request everybody else may do
anything in between, which is all a stale read can meet; with two, the kinds that
compete for an answer (`AnswerKinds`) race (`OneRequestOrRace`). The first round
of an appeal (`FirstRound`): limits of returns are the business of the run before,
so `MCMaxReturnsInput` is empty and `max_returns` keeps its default. The three
properties speak of a whole request: when it ends, something must have held at one
of its `moments`, which the steps of everybody else are watched for. A handler's
step on the appeals is one of `AppealStore` by the way it is written, so that is
no property of the run. `View` leaves out how the last request of a worker ended,
which is read by the step that ends it and by no other, and the last event of the
history, which nothing reads. Deadlock is not checked because all appeals may end
erased, which is no failure.

**`AutoClose`.** Limits of 3 and 4 days, the two shortest that are warned of; ages
are counted in days and saturate at `Cap` = 5, beyond every limit. One appeal: the
loops of the janitor treat appeals independently. *Fairness*: days pass (`WF` of
`Tick`); the janitor's ticker fires every hour of the life of the process and a
transaction that has begun goes on (`WF` of `JanitorWarns`), though it may be
rolled back; not every run fails (`SF` of `JanitorLooks`, `JanitorCloses`); a
handler that has ended the waiting but not yet stored the message comes to its end
(`WF` of `AnswerFails`). Nothing is assumed of applicants or staff. With limits of
1 or 2 days `NotWaitedForEver` would fail (section 5).

**`Attachments`.** Two appeals, so that a purge can fail on the second after
deleting the first; two uploads, three names and a limit of 1, so that the limit
is overrun; all kinds of fault (`Faults`: the process dies, the count of rows
fails, a `DELETE` fails, the answer to a statement is lost, a directory cannot
be removed) between any two steps. An upload may outlive the closing, the waiting
and the purge of its appeal; the directory it makes then, like one that a failed
purge has left, is excepted by name (`spoiled`). `AttachmentsLiveness` has one
upload and one name, and no failing count, which only the limit knows of.
*Fairness*: the process that is told to stop exits and is started again; a
handler ends (the server's timeouts); retention passes; some run of the janitor
eventually succeeds with each appeal (`SF`); a begun round of removals goes on.

**`ApplicantAccess`.** One browser (cookies of two browsers meet nowhere), two
requests of it at a time, two track numbers (the filing and its repetition),
three tokens (the session, its successor and the successor's), one idempotency
key. `FilingsOrSessions` separates what does not interact: racing filings, or
requests under sessions of one appeal. An answer may be lost after any step;
`TRACK_HMAC_KEY` may be set between two starts.

**`StaffAuth`.** Two accounts, one of them a demo account; two requests, two
session tokens, two TOTP secrets, two passwords; `MaxEpoch` = 2 changes of
password or deactivations per account. No request touches two accounts, hence
`OneInTrouble`: all changes are to one account while the other is logged in; and
crossing password changes are explored without a second factor, crossing factor
changes with a fixed password, since the two meet only in a login. A start keeps
the demo password, as with `SEED_DEFAULT_PWD` set, or makes up one that is
nobody's, as with the empty one that `.env.example` ships; from then on
`WorkedAfterChange` claims nothing (section 5), and no factor is set up.

**`RateLimiter`.** Three keys for a map of two, so that the third evicts; one
key with the window of the sweep and a limit of 2, two with a shorter window
and a limit of 1; times 0 to 3, the length of the longest window, so that
times expire at its very end; one key raced between two restarts (`MaxRaced`).
What a Go program does after a data race is open; the model takes any loss of
times, any mixture of the two slices and the end of the process, and the
properties except a raced key by name: they show that the others do not
suffer. *Fairness* for `ColdKeysLeave`: the ticker fires for ever (`WF` of
`SweepStarts`) and a sweep goes on and ends (`WF` of `SweepWrites`,
`SweepEnds`); a range over a Go map passes every key that is there from its
beginning to its end (`SF` of `SweepReads` per key). Nothing is assumed of
requests or time.

**`CrisisMarkers`.** A word and a phrase are built in; the admin may type the word
with a small «ё» (which adds it again), with a capital one (which is then never
found), and as a substring, which is not built in and found. Copies live for
2 ticks and a refill takes up to 1. The lag that is allowed is their sum,
`Horizon`: a copy stored by a slow refill may be that old when it expires. A
refill that fails or finds the table empty is possible at any time; after it
the properties claim the built-in markers only (`TableWasRead`).

**`Roster`.** One appeal, two experts, two groups, two requests in flight while
the admin, and every other transaction that moves an appeal, comes between their
steps. Returns are cut at 1, and `View` leaves out the last event of the
history: nothing here looks at either.

**`PushDelivery`.** Two appeals, so that an endpoint can move from one to the
other; three endpoints, so that two are slow before the third. A round has 4
ticks (`Round`, the 30 s of a handler's sender), of which one request takes at
most 2 (`Timeout`, 15 s) and any answer, failure or timeout takes any part of
that; reading the list may have taken some of the time before the round begins.
The janitor, whose senders have no deadline, and one handler at once (`OneOrFew`:
with both at work one endpoint is enough, since they meet in its row only).

`TwoDaysNotice` has the action constraint `JanitorKeepsUp`: the trace is not that
of a server that has been down.

## 4. The proofs

TLAPS checks the theorems below for all values of the constants under the named
assumptions of the modules: `ConstantsAssumption` (nobody is no expert, limits are
numbers), `HandlersAssumption`, `AttachmentsAssumption`, `AutoCloseAssumption`,
`AccessAssumption`, `StaffAssumption` (the values that stand for "none" are none
of the others, bounds are numbers), `RateAssumption` (finitely many keys; no
window is longer than that of the sweep, which holds of every caller of `allow`),
`MarkersAssumption` (the built-in lists hold a substring), `PushAssumption` (no
appeal is `Nowhere`, the janitor is a sender, times are numbers). Each model has a
theorem that its types are kept (`TypeCorrect`, `HandlersTypeCorrect`,
`RosterTypeCorrect`, `PushTypeCorrect`). The bounds that cap counters for TLC are
constants too, so nothing depends on how large they are.

**`AppealStoreProofs`.** `TypeOK` is inductive; the invariants of the run are not,
one by one: an appeal is only seen to start a clean record if nothing is recorded
of an appeal that was never filed, and the returns only stay within the limits if
the row counts no fewer returns than the applicant made. `IInv` = `TypeOK`,
`limits # {}`, and `Consistent(a)` of every appeal `a`, the conjunction of what
its tables say. `ApplicantConsistent`, `StaffConsistent` and `PurgeConsistent`
show, one step per transaction, that the row written is consistent; a transaction
touches one appeal, so the others are kept by a frame lemma (`OthersUntouched`,
`UntouchedStaysConsistent`). From `IInv`: `CrisisStaysUrgent`,
`OneResponsibleAlways`, `WorkIsEntrusted`, `AnswersAreStored`, `FeedbackFits`,
`ReturnsAreLimited`, their conjunctions `RecordsAlwaysAgree` and
`WorkIsAlwaysBacked` that the run checks, the action property `ArchiveStays`, and
the refinement `StoreImplementsLifecycle`.

**`RequestProofs`, handlers.** `HInv`: besides types, every pending request is
`Sound`: the chat is written by an expert or the applicant, an invitation is of
an expert, a closing has met an appeal that waits. The lemma
`HandlersImplementStore` (every step of a handler is a step of `AppealStore` or
changes nothing there, which is how the handlers are written) carries the
theorems of the store over to the server; `ServerKeepsOneResponsible`,
`ServerKeepsArchive` and `ServerKeepsPromise` spell out three. A second
invariant, `OnCourse`, says at which step a request of each kind can be and what
its moments tell of the row it saw: a message past its first step has seen the
waiting lifted, one that saw the flag has seen it up. With `EndsByItself` (only a
worker's own step ends its request) it gives `CrisisIsNotPassedOver` and
`AnswersEndTheWait`. `ReplacedExpertsWait` needs a third, `AllWait`: whoever would
ask or answer without being responsible any more has seen the appeal handed over,
or it is erased. It is inductive because only handing over or erasing takes an
appeal from its expert (`HandingOverReplaces`), what is erased stays so
(`ErasedStays`), and such a request waits in the step it began with
(`CallStands`); and no call finds an erased appeal.

**`RequestProofs`, `Roster`.** `RosterImplementsStore`: a request that looks an
expert up and entrusts later is, for the appeals, a transaction of the store, so
that the theorems of the store hold here too. `SentAwayGetNoMore` needs more
than it says: an appeal on its way to an expert, in the request that has found
her fit, must be accounted for before she has it. `HandsAccounted` is
`OnlyDeparturesStrand` for both, and inductive, since only a look at a fit expert
puts anything into her hands (`OnlyTheFitAreFound`) and entrusting only hands
over what was on its way (`EntrustHandsOver`).

**`JanitorProofs`, `AutoClose`.** `NeverClosedUnwarned` needs `VictimsAreWarned`:
what the closing query has locked has a warning, or gets one from the same
transaction. `NeverClosedEarly` needs `VictimsWereOverdue`: what that query has
found was silent long enough for the setting the run began with, or has been
written to since.

**`JanitorProofs`, `PushDelivery`.** `ReachableAreNeverDropped` needs
`DeadAreRevoked` (what a sender means to delete was gone when it was answered,
and stays gone), since a deletion relies on an answer given earlier.
`OneEndpointCostsOneTimeout` is by an account of the time of each round
(`InRound`): while nobody has cost time, what is left is what the round began
with; while one has, it is at most a timeout less; and nobody is given up before
nothing is left. The time of the janitor stays whole.

**`AttachmentsProofs`.** `IInv` adds to the properties what an upload
(`UploadOK`) and the janitor (`JanitorOK`) know and where rows can be
(`RowsOK`). `LimitOverrun` is by counting: rows plus uploads that still owe a row
never exceed the limit by as much as the number of workers (`LimitInv`).

**`ApplicantAccessProofs`.** `FilingInv`: numbers given by a filing that created
its appeal stay good. `SInv` for `RefreshIsSafe`: nobody holds an
unused token, no two browsers hold the same, a request sends its own browser's
token, a token about to be handed out is nobody's yet, a request that retires a
session carries the successor, and a browser whose cookie is no good has the
successor on its way.

**`StaffAuthProofs`.** `DemoInv` (a demo account not yet changed has the demo
password and the mark, and logins that are half-way know it) holds as long as the
server has the demo password the accounts were made with (`seed = SeedPwd`), which
is what `DemoIsClosed` says; a server that has lost it does not get it back
(`SeedStays`). `CurrentInv`: a live session from before a change is one that was
spared or one that a request about to delete sessions still covers. `FactorInv`
relates what a confirmation carries to what was set up.

**`RateLimiterProofs`.** `LimitHolds` is not inductive: the filter of `allow`
counts the map, the property what was let through. `IInv` adds `Exact` (of a key
not raced, the times the filter would keep are just the hits granted within the
window) and `SweepAhead` (an untouched slice of the sweep is still the one in
the map, and its `now` is not ahead of the clock), so that neither storing the
slice back nor cutting it at an hour changes what counts. `RefusalsAreEarned`
follows from `Exact`; `MapBound` by counting keys.

**`CrisisMarkersProofs`.** `IInv` is `TypeOK` and `Dated`, which dates every list
in force (`ReadAt`): unless it is the built-in one, taken at most that long ago,
it differs from the table only in markers changed since. A change resets the age
of its marker, a tick adds one to both sides, a stored refill adds its own time.

*Only model-checked*: the liveness properties `NotWaitedForEver`, `ClosedIsErased`
and `ColdKeysLeave`, for good: reasoning about fairness needs `ENABLED`, which
this prover lacks. Nothing is proved about what the code computes by recursion
or folds over data; the models have none that a property depends on.

## 5. Where code and documentation disagree

One disagreement has a run of its own:

* `TwoDaysNotice` — `main.go:127` and the comment at `janitor.go:102` promise two
  days between warning and closing. The closing query runs in the transaction
  that has just inserted the warning, and counts silence from the applicant's
  last message, not from the moment the appeal began to wait. An expert who
  answers after more than N days has the answer warned about and closed at once.

Seen while modelling, without a run (the models do what the code does):

* `README.md:98` promises that the whole API of the staff is closed to the demo
  password until it is changed, also with `SEED_DEFAULT_PWD` empty, as shipped. But
  each start makes up another demo password then (`config.go:70`), while the
  accounts keep that of the first start: a login with it is taken for one with a
  changed password and loses the mark (`auth.go:126`). `WorkedAfterChange` says
  what is left: the door stays closed up to the first start that makes up another
  demo password. Without that condition (`seed = SeedPwd`) TLC finds it violated
  by a restart, a login and a request.
* `applicant_session.go:118` says that the *answer* of the applicant ends the
  waiting. The status changes (`:121`) before the text is validated (`:128`): a
  message refused as empty or too long ends it as well (`LiftWaiting`, then
  `Fail`).
* `main.go:151` and `README.md:84` say that directories go with their appeals.
  When one `DELETE` of the purge fails, those deleted before it keep theirs for
  good (`DirectoriesGoWithAppeals` has them as `spoiled`).
* The track number is said to be the only access (`applicant_intake.go:46`) and a
  repetition under the same key to return the existing appeal
  (`appeals.go:91`). The repetition is answered a new number whose hash is
  stored nowhere (`NumberOpensAppeal` leaves `repeated` numbers out).
* `README.md:177` rules out a second password dialog after a restart. Migration
  007 runs at each start and marks demo accounts again; only a login, or yet
  another change, takes the mark back, and sessions survive restarts.
* `crisis_admin.go:78` says that a marker is normalised as in the detector. It
  replaces «ё» before it lowers the case, so that a word typed with a capital
  «Ё» keeps the letter, which no normalised text has; nor is a marker of kind
  word that contains a space ever found. (`Findable` leaves both out.)
* The admin's change of the dictionary invalidates the copy of the staff server;
  texts are tested by the applicant server, which learns of it up to a minute, and
  the time of a refill, later.
* `store/crisis_markers.go:23` calls the database the only source of truth after
  the first start. Deleting the last marker brings the built-in lists back, in
  the detector with the next refill and in the table at the next start. A table without
  substrings is read anew for every text, since `crisisSubs` stays nil.
* `Seed` (`db.go:68`) inserts categories and users one by one outside a
  transaction: a start cut short leaves them incomplete for good, since the next
  one finds the tables not empty.
* `buildRoutingHint` for an appeal without a category takes the group from the
  suggestion, where `suggest.go:102` has put the Russian title; no user has such
  a group, so the hint always says that there are no experts.
* Deactivating an expert or changing her role leaves her appeals with her, in no
  queue, until the admin reassigns them. An assignment
  that had found her active still goes through (`OnlyDeparturesStrand` bounds
  both). `handleAdminPatchUser` makes two calls and may end after the first.
* `push.go:219` says that one dead endpoint does not block the others. Two that
  are slow, answered or not, use up the 30 seconds of a round
  (`push_endpoints.go:124`): the rest is not tried, and those found gone before
  are not deleted, as they are not when the `DELETE` fails
  (`push_endpoints.go:107`): they stay until a later round finds them gone again. A
  warning whose sender dies with the process is not sent again.
* `sweep` (`server.go:494`) runs without the mutex: the Go runtime may stop the
  process when it meets `allow`, and a key deleted meanwhile may come back.
* `requireResponsible` (`staff_expert.go:16`) reads the responsible expert outside
  the transaction: an expert replaced a moment ago may still publish, if her
  successor has taken the appeal up meanwhile. `ReplacedWaitsForTakeUp` bounds it:
  as long as nobody has, nothing of hers reaches the applicant. In the same way
  `handleAddContributor` may still invite somebody for an expert replaced since.
* In the same way a message may reach an appeal closed a moment ago, an appeal
  may be flagged by a stale reading of its crisis flag, and a message that arrives
  while the janitor closes is stored but does not keep the appeal open.
* Limits of 1 and 2 days are accepted (`admin.go`), but the janitor only warns
  from 3 days on (`janitor.go:108`) and closes only what was warned: an appeal not
  warned under an earlier limit is never closed. A second silence of an appeal
  that was warned once is closed without a new warning (`janitor.go:117` finds the
  old one).
* The operator's queue takes in whatever has `transfer_requested` set, and neither
  completion nor the override resets it (`appeals_lists.go:81`), so archived
  appeals can show up in it.
* The Cyrillic of `janitor.go` is doubly encoded (UTF-8 read as CP1251), the text
  of the warning included, so that is what the applicant reads.
* `README.md:130` limits filings to 5 per hour; `applicant_intake.go:50` has 20.
* A password change and a login that cross leave a session from before the
  change (`auth.go:140`); `README.md:175` says a change ends the sessions.
* The history the applicant sees is sorted by `created_at` (`events.go:50`), the
  start of the transaction (migration 003): one that began earlier and waited for
  the row is listed before the event it followed, so that the list need not end
  with the status of the appeal.
* Logout deletes the session the request came with, not the one that just replaced
  it for another request of the same browser.
* `EnableTOTP` ignores how many rows it changed and the handler answers
  `enabled: true`.
* Sessions of a purged appeal stay until they expire: the column has no foreign key
  (`001_core.sql:29`).

## 6. Modelling decisions

* *PostgreSQL, read committed.* A statement is a step; a transaction that holds
  the appeal's row `FOR UPDATE` from its first statement is one step as far as
  that appeal goes. An `INSERT` into `messages` or `appeal_participants` takes
  `FOR KEY SHARE` on the appeal, hence waits for such a transaction and fails if
  it deleted the row. `SELECT … FOR UPDATE` waits row by row and then looks again
  at the row it got, but not at the rows its subqueries saw: the janitor's view of
  messages is that of the beginning of its statement (`JanitorLooks`).
* The test of `version` in `UpdateStatus`-like statements compares the row with
  what the same transaction read under the lock, so it never fails.
* A client that hangs up cancels `r.Context()`: every handler may stop after any of
  its store calls (`Fail`, `Lose`), as it may when the database fails. Handlers do
  not survive the process, so `Restart` of `StaffAuth` finds none pending.
* What validation, rate limits, wrong passwords and wrong codes refuse changes no
  state and is no step, except where the refusal comes after a change
  (`LiftWaiting`).
* Migrations run at every start. 006 sets crisis appeals urgent again, which
  `CrisisIsUrgent` makes idle; 007 and 008 are in `Restart` of `StaffAuth`.
* Time: ages in whole days (`AutoClose`), an age of 0 to 2 halves of the lifetime of a
  session (`ApplicantAccess`), ticks in `CrisisMarkers`, `RateLimiter` and
  `PushDelivery`, and no clock in `Attachments`, where an upload may take longer
  than the retention.
* The status history is one event, the one listed last (`LogStatus`): the new one,
  or, as it may have been stamped earlier, the one listed last before. No
  property reads it.
* `RETENTION_DAYS=0` switches the purge off; the models have it on.
* Binding of sessions to the `User-Agent`, the arithmetic of TOTP, bcrypt and the
  hash functions are left out; hashes are assumed not to collide, tokens and track
  numbers never to repeat. Which of the two hashes of a track number is stored and
  which are tried is modelled.

## 7. What is not modelled

* *Presence*: an in-memory map under one mutex whose entries expire; each
  operation is one assignment, and only the chat page reads it.
* *Reports, profile, export, the guess of a category from the text, the advice on
  whom to choose (`buildRoutingHint`, `ExpertLoad`), the queue of the operator with
  its flags, sorting, filters and paging of lists*: read only. The advice comes
  from several statements and two computations, in SQL and in Go, that treat a
  category without a group and a suggested category differently; nobody has to
  follow it, and nothing is stored.
* *The encryption and signature of push messages, the address of a client behind
  a proxy*: pure computation.
* *Complaints, notes, ratings, categories (`SetCategory`, which also works on archived
  appeals), user names*: columns no other operation looks at.
* *The event log* except the status event listed last; nothing reads it but a page.
* *Metadata stripping of images, validation of texts, configuration, embedding of
  web pages, VAPID keys*: pure computation.
* *Vendored libraries, the browser code.*

## 8. The plan

In this order:

1. Done: `AppealStore`, `AppealHandlers`, `AutoClose`, `Attachments`,
   `ApplicantAccess`, `StaffAuth`, with proofs.
2. Done: `RateLimiter`, `CrisisMarkers`, `Roster` and `PushDelivery`, with
   proofs.
3. Abstract specifications of components that have none yet, with proofs that
   the modules implement them: what a sliding window promises (`RateLimiter`),
   an account and its sessions (`StaffAuth`), a file and its row
   (`Attachments`).

## 9. How to run it

    tlc -config AppealStore.cfg MCAppealStore       # and so on, one .cfg per run
    tlapm AppealStoreProofs.tla                     # and the other …Proofs

`PROJECT.json` lists the runs with their modules, which source lines each
definition models, the `_Fault` of each property, the hazards of the code with
the properties that would notice them, and the theorems.
