---------------------------- MODULE Attachments ----------------------------
(***************************************************************************)
(* Attachments of an appeal: rows in the database, files on the disk, and  *)
(* the retention purge that has to take both away (attachments.go, the     *)
(* purge of internal/store/janitor.go, the janitor and the shutdown of     *)
(* cmd/server/main.go).  No transaction spans the two stores, so each step *)
(* on either is an action, and a step may fail or the process end between  *)
(* any two of them.                                                        *)
(*                                                                         *)
(* A definition named ..._Fault is no part of the model: see AppealStore.  *)
(***************************************************************************)
EXTENDS Integers, FiniteSets

CONSTANTS
    Appeals,         \* identifiers of appeals
    Workers,         \* uploads the server is serving at one time (bound of the model)
    Names,           \* names of stored files (uuid.NewString)
    MaxAttachments,  \* domain.MaxAttachmentsPerAppeal
    Faults           \* what goes wrong in the environment

ASSUME AttachmentsAssumption ==
    /\ IsFiniteSet(Workers)
    /\ IsFiniteSet(Names)
    /\ MaxAttachments \in Nat \ {0}
    /\ Faults \subseteq {"crash", "count", "delete", "lost", "remove"}

VARIABLES
    appeal,    \* table appeals: where each appeal is on its way to the purge
    rows,      \* table attachments: storage_name of each appeal's rows
    dirs,      \* appeals that have a directory under AttachmentsDir
    disk,      \* the files in the directory of each appeal
    uploads,   \* the upload each worker is serving
    janitor,   \* the run of the retention purge
    server,    \* the process
    \* History variables: read by no action, only by properties.
    unchecked, \* files that were taken in although they could not be counted
    spoiled    \* appeals whose purge a failure has cut short, or an upload outlived

dbVars == <<appeal, rows>>
fsVars == <<dirs, disk>>
vars == <<dbVars, fsVars, uploads, janitor, server, unchecked, spoiled>>

Idle == [step |-> "idle"]
Counted(a, known) == [step |-> "counted", appeal |-> a, known |-> known]
Written(a, n) == [step |-> "written", appeal |-> a, name |-> n]

Upload ==
    {Idle} \cup {Counted(a, known) : a \in Appeals, known \in BOOLEAN}
           \cup {Written(a, n) : a \in Appeals, n \in Names}

\* ids: the appeals PurgeTerminalAppeals has found; todo: those not yet
\* deleted, or not yet removed from the disk.
Run == [step: {"idle", "started", "deleting", "removing"},
        ids: SUBSET Appeals, todo: SUBSET Appeals]

NoRun == [step |-> "idle", ids |-> {}, todo |-> {}]

TypeOK ==
    /\ appeal \in [Appeals -> {"open", "closed", "expired", "erased"}]
    /\ rows \in [Appeals -> SUBSET Names]
    /\ dirs \subseteq Appeals
    /\ disk \in [Appeals -> SUBSET Names]
    /\ uploads \in [Workers -> Upload]
    /\ \A a \in Appeals : disk[a] # {} => a \in dirs
    /\ janitor \in Run
    /\ server \in {"up", "stopping", "down"}
    /\ unchecked \subseteq Names
    /\ spoiled \subseteq Appeals

Init ==
    /\ appeal = [a \in Appeals |-> "open"]
    /\ rows = [a \in Appeals |-> {}]
    /\ dirs = {}
    /\ disk = [a \in Appeals |-> {}]
    /\ uploads = [w \in Workers |-> Idle]
    /\ janitor = NoRun
    /\ server = "up"
    /\ unchecked = {}
    /\ spoiled = {}

Become(w, u) == uploads' = [uploads EXCEPT ![w] = u]

-----------------------------------------------------------------------------
(* handleUploadAttachment                                                  *)

Used ==
    unchecked \cup UNION {rows[a] \cup disk[a] : a \in Appeals}

BelowLimit_Fault(a) == Cardinality(rows[a]) <= MaxAttachments

BelowLimit(a) == Cardinality(rows[a]) < MaxAttachments

\* The appeal is open and its attachments are below the limit, or could not be
\* counted: an error of CountAttachments is passed over.
StartUpload(w, a) ==
    /\ server = "up"
    /\ uploads[w] = Idle
    /\ appeal[a] = "open"
    /\ \/ BelowLimit(a) /\ Become(w, Counted(a, TRUE))
       \/ "count" \in Faults /\ Become(w, Counted(a, FALSE))
    /\ UNCHANGED <<dbVars, fsVars, janitor, server, unchecked, spoiled>>

WriteFile_Fault(w, n) ==  \* the row first
    /\ uploads[w].step = "counted"
    /\ n \notin Used
    /\ LET a == uploads[w].appeal
       IN  /\ rows' = [rows EXCEPT ![a] = @ \cup {n}]
           /\ Become(w, Written(a, n))
    /\ UNCHANGED <<appeal, fsVars, janitor, server, unchecked, spoiled>>

\* A directory made now for an appeal already erased is one no purge will find.
Outlived(a) == {a} \cap {b \in Appeals : appeal[b] = "erased"}

\* MkdirAll and WriteFile, under a name never used before.
WriteFile(w, n) ==
    /\ uploads[w].step = "counted"
    /\ n \notin Used
    /\ LET a == uploads[w].appeal
       IN  /\ dirs' = dirs \cup {a}
           /\ disk' = [disk EXCEPT ![a] = @ \cup {n}]
           /\ unchecked' = IF uploads[w].known THEN unchecked ELSE unchecked \cup {n}
           /\ spoiled' = spoiled \cup Outlived(a)
           /\ Become(w, Written(a, n))
    /\ UNCHANGED <<dbVars, janitor, server>>

\* CreateAttachment: the foreign key asks for the appeal, not for its status.
InsertRow(w) ==
    /\ uploads[w].step = "written"
    /\ LET a == uploads[w].appeal
       IN  /\ appeal[a] # "erased"
           /\ rows' = [rows EXCEPT ![a] = @ \cup {uploads[w].name}]
    /\ Become(w, Idle)
    /\ UNCHANGED <<appeal, fsVars, janitor, server, unchecked, spoiled>>

\* The client hung up, the disk is full, the database refuses: the handler
\* ends and leaves what it has done, possibly an empty directory.
FailUpload(w) ==
    /\ uploads[w] # Idle
    /\ \/ UNCHANGED <<dirs, spoiled>>
       \/ /\ uploads[w].step = "counted"
          /\ dirs' = dirs \cup {uploads[w].appeal}
          /\ spoiled' = spoiled \cup Outlived(uploads[w].appeal)
    /\ Become(w, Idle)
    /\ UNCHANGED <<dbVars, disk, janitor, server, unchecked>>

-----------------------------------------------------------------------------
(* The appeal: closed by somebody, then old enough for the purge           *)

Close(a) ==
    /\ server # "down"
    /\ appeal[a] = "open"
    /\ appeal' = [appeal EXCEPT ![a] = "closed"]
    /\ UNCHANGED <<rows, fsVars, uploads, janitor, server, unchecked, spoiled>>

\* RETENTION_DAYS have passed since the appeal was closed.  An upload that saw it
\* open may still be under way: nothing in the purge looks at uploads.
Expire(a) ==
    /\ appeal[a] = "closed"
    /\ appeal' = [appeal EXCEPT ![a] = "expired"]
    /\ UNCHANGED <<rows, fsVars, uploads, janitor, server, unchecked, spoiled>>

-----------------------------------------------------------------------------
(* The janitor                                                             *)

\* Past the test of ctx.Err(); a stop may follow before the purge begins.
JanitorStarts ==
    /\ server = "up"
    /\ janitor.step = "idle"
    /\ janitor' = [NoRun EXCEPT !.step = "started"]
    /\ UNCHANGED <<dbVars, fsVars, uploads, server, unchecked, spoiled>>

\* The SELECT of PurgeTerminalAppeals.
JanitorFinds ==
    /\ janitor.step = "started"
    /\ LET found == {a \in Appeals : appeal[a] = "expired"}
       IN  janitor' = [step |-> "deleting", ids |-> found, todo |-> found]
    /\ UNCHANGED <<dbVars, fsVars, uploads, server, unchecked, spoiled>>

\* DELETE FROM appeals; the attachments cascade.
Erase(a) ==
    /\ appeal' = [appeal EXCEPT ![a] = "erased"]
    /\ rows' = [rows EXCEPT ![a] = {}]

JanitorDeletes(a) ==
    /\ janitor.step = "deleting"
    /\ a \in janitor.todo
    /\ Erase(a)
    /\ janitor' = [janitor EXCEPT !.todo = @ \ {a}]
    /\ UNCHANGED <<fsVars, uploads, server, unchecked, spoiled>>

\* A DELETE answers an error, or its answer is lost though it took effect: the
\* purge stops there, and the janitor with it, without a look at the disk.
JanitorDeleteFails(a) ==
    /\ janitor.step = "deleting"
    /\ a \in janitor.todo
    /\ \/ "delete" \in Faults /\ UNCHANGED dbVars
       \/ "lost" \in Faults /\ Erase(a)
    /\ janitor' = NoRun
    /\ spoiled' = spoiled \cup {b \in janitor.ids : appeal'[b] = "erased"}
    /\ UNCHANGED <<fsVars, uploads, server, unchecked>>

JanitorTurnsToDisk_Fault ==  \* with what is left of the first list
    /\ janitor.step = "deleting" /\ janitor.todo = {}
    /\ janitor' = [janitor EXCEPT !.step = "removing"]
    /\ UNCHANGED <<dbVars, fsVars, uploads, server, unchecked, spoiled>>

\* The loop over the ids, all of them deleted.
JanitorTurnsToDisk ==
    /\ janitor.step = "deleting" /\ janitor.todo = {}
    /\ janitor' = [step |-> "removing", ids |-> janitor.ids, todo |-> janitor.ids]
    /\ UNCHANGED <<dbVars, fsVars, uploads, server, unchecked, spoiled>>

\* os.RemoveAll of one directory, which may not exist.
JanitorRemoves(a) ==
    /\ janitor.step = "removing"
    /\ a \in janitor.todo
    /\ dirs' = dirs \ {a}
    /\ disk' = [disk EXCEPT ![a] = {}]
    /\ janitor' = [janitor EXCEPT !.todo = @ \ {a}]
    /\ UNCHANGED <<dbVars, uploads, server, unchecked, spoiled>>

\* os.RemoveAll fails half-way: the error is logged, the next one is tried.
JanitorRemoveFails(a) ==
    /\ "remove" \in Faults
    /\ janitor.step = "removing"
    /\ a \in janitor.todo
    /\ \E left \in SUBSET disk[a] : disk' = [disk EXCEPT ![a] = left]
    /\ janitor' = [janitor EXCEPT !.todo = @ \ {a}]
    /\ spoiled' = spoiled \cup {a}
    /\ UNCHANGED <<dbVars, dirs, uploads, server, unchecked>>

JanitorEnds ==
    /\ janitor.step = "removing" /\ janitor.todo = {}
    /\ janitor' = NoRun
    /\ UNCHANGED <<dbVars, fsVars, uploads, server, unchecked, spoiled>>

-----------------------------------------------------------------------------
(* The process                                                             *)

\* SIGTERM: ctx is cancelled, no new requests; those under way go on.
Stop ==
    /\ server = "up"
    /\ server' = "stopping"
    /\ UNCHANGED <<dbVars, fsVars, uploads, janitor, unchecked, spoiled>>

\* The requests and the janitor of a process that is no more.
Ended ==
    /\ server' = "down"
    /\ uploads' = [w \in Workers |-> Idle]
    /\ janitor' = NoRun
    /\ UNCHANGED <<dbVars, fsVars, unchecked>>

Exit_Fault ==  \* main does not wait for the janitor
    /\ server = "stopping"
    /\ Ended
    /\ UNCHANGED spoiled

\* main waits for the janitor; requests get ten seconds, then are cut off.
Exit ==
    /\ server = "stopping"
    /\ janitor.step = "idle"
    /\ Ended
    /\ UNCHANGED spoiled

\* Killed, or the fifteen seconds the janitor is given have passed.
Crash ==
    /\ "crash" \in Faults
    /\ server # "down"
    /\ Ended
    /\ spoiled' = spoiled \cup {a \in janitor.ids : appeal[a] = "erased"}

Restart ==
    /\ server = "down"
    /\ server' = "up"
    /\ UNCHANGED <<dbVars, fsVars, uploads, janitor, unchecked, spoiled>>

-----------------------------------------------------------------------------
UploadNext(w) ==
    \/ \E a \in Appeals : StartUpload(w, a)
    \/ \E n \in Names : WriteFile(w, n)
    \/ InsertRow(w)
    \/ FailUpload(w)

JanitorNext ==
    \/ JanitorStarts
    \/ JanitorFinds
    \/ \E a \in Appeals : JanitorDeletes(a) \/ JanitorDeleteFails(a)
    \/ JanitorTurnsToDisk
    \/ \E a \in Appeals : JanitorRemoves(a) \/ JanitorRemoveFails(a)
    \/ JanitorEnds

ProcessNext == Stop \/ Exit \/ Crash \/ Restart

Next ==
    \/ \E w \in Workers : UploadNext(w)
    \/ \E a \in Appeals : Close(a) \/ Expire(a)
    \/ JanitorNext
    \/ ProcessNext

Spec == Init /\ [][Next]_vars

(***************************************************************************)
(* A stop comes to its end, a restart follows, handlers end, time passes,  *)
(* and not every run of the janitor fails or is interrupted.               *)
(***************************************************************************)
Fairness ==
    /\ WF_vars(Exit) /\ WF_vars(Restart)
    /\ \A w \in Workers : WF_vars(InsertRow(w) \/ FailUpload(w))
    /\ \A a \in Appeals : WF_vars(Expire(a))
    /\ SF_vars(JanitorStarts) /\ SF_vars(JanitorFinds)
    /\ \A a \in Appeals : SF_vars(JanitorDeletes(a))
    /\ WF_vars(JanitorTurnsToDisk) /\ WF_vars(JanitorEnds)
    /\ \A a \in Appeals : WF_vars(JanitorRemoves(a) \/ JanitorRemoveFails(a))

FairSpec == Spec /\ Fairness

-----------------------------------------------------------------------------
(* Safety                                                                  *)

\* Whatever a request, a failure or a restart leaves behind, every attachment
\* the database lists can be downloaded (handleDownloadAttachment): the file is
\* there before the row and goes after it.
RowsHaveFiles == \A a \in Appeals : rows[a] \subseteq disk[a]

\* "At most five attachments" (MaxAttachmentsPerAppeal), as far as the code
\* delivers it: the count is not locked against other uploads, so the limit can
\* be overrun, but only by those under way at the same time.
OverrunIsBounded ==
    \A a \in Appeals :
        Cardinality(rows[a] \ unchecked) <= MaxAttachments - 1 + Cardinality(Workers)

\* "No orphaned directories are left" (main, README), as far as the code
\* delivers it: when an appeal is gone from the database its directory is gone
\* too or is about to be, uploads and a graceful stop notwithstanding; the
\* exceptions are the purges that a failure has cut short, and an upload that
\* lasted from before the closing until after the purge.
DirectoriesGoWithAppeals ==
    \A a \in dirs :
        appeal[a] = "erased" =>
            \/ a \in spoiled
            \/ janitor.step = "deleting" /\ a \in janitor.ids \ janitor.todo
            \/ janitor.step = "removing" /\ a \in janitor.todo

-----------------------------------------------------------------------------
(* Liveness                                                                *)

\* "They must not be kept for ever" (README, PurgeTerminalAppeals): a closed
\* appeal is erased in the end, and its directory with it unless a failure came
\* between or an upload outlived it.
ClosedIsErased ==
    \A a \in Appeals :
        appeal[a] = "closed" ~>
            appeal[a] = "erased" /\ (a \in dirs => a \in spoiled)
=============================================================================
