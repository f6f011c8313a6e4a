------------------------- MODULE AttachmentsProofs -------------------------
(***************************************************************************)
(* Proofs about Attachments, for any sets of appeals, uploads and files,   *)
(* any limit and whatever faults occur.                                    *)
(***************************************************************************)
EXTENDS Attachments, FiniteSetTheorems, TLAPS

USE AttachmentsAssumption

\* What an upload at each step looks like.
LEMMA UploadShape ==
    ASSUME NEW u \in Upload
    PROVE  /\ u.step \in {"idle", "counted", "written"}
           /\ u.step = "idle" <=> u = Idle
           /\ u.step # "idle" => u.appeal \in Appeals
           /\ u.step = "counted" => u.known \in BOOLEAN
           /\ u.step = "written" => u.name \in Names
BY DEF Upload, Idle, Counted, Written

\* A made-up upload is one.
LEMMA UploadMade ==
    /\ Idle \in Upload
    /\ \A a \in Appeals, known \in BOOLEAN : Counted(a, known) \in Upload
    /\ \A a \in Appeals, n \in Names : Written(a, n) \in Upload
BY DEF Upload

\* The initial state is well typed.
LEMMA TypeInit == Init => TypeOK
BY DEF Init, TypeOK, Upload, Run, NoRun

-----------------------------------------------------------------------------
\* What requests and time do to the types.
LEMMA UploadsTyped ==
    ASSUME TypeOK, NEW w \in Workers,
           \/ \E a \in Appeals : StartUpload(w, a)
           \/ \E n \in Names : WriteFile(w, n)
           \/ InsertRow(w) \/ FailUpload(w)
    PROVE  TypeOK'
<1> USE DEF TypeOK, dbVars, fsVars, Become
<1>1. ASSUME NEW a \in Appeals, StartUpload(w, a) PROVE TypeOK'
  <2>1. Counted(a, TRUE) \in Upload /\ Counted(a, FALSE) \in Upload
    BY UploadMade
  <2>2. QED
    BY <1>1, <2>1 DEF StartUpload
<1>2. ASSUME NEW n \in Names, WriteFile(w, n) PROVE TypeOK'
  <2>1. uploads[w].appeal \in Appeals
    BY <1>2, UploadShape DEF WriteFile
  <2>2. Written(uploads[w].appeal, n) \in Upload
    BY <2>1, UploadMade
  <2>3. QED
    BY <1>2, <2>1, <2>2 DEF WriteFile, Outlived
<1>3. ASSUME InsertRow(w) PROVE TypeOK'
  <2>1. uploads[w].appeal \in Appeals /\ uploads[w].name \in Names
    BY <1>3, UploadShape DEF InsertRow
  <2>2. QED
    BY <1>3, <2>1, UploadMade DEF InsertRow
<1>4. ASSUME FailUpload(w) PROVE TypeOK'
  <2>1. uploads[w].appeal \in Appeals
    BY <1>4, UploadShape DEF FailUpload
  <2>2. QED
    BY <1>4, <2>1, UploadMade DEF FailUpload, Outlived
<1>5. QED
  BY <1>1, <1>2, <1>3, <1>4

\* What the janitor does to the types.
LEMMA JanitorTyped == TypeOK /\ JanitorNext => TypeOK'
<1> SUFFICES ASSUME TypeOK, JanitorNext PROVE TypeOK'
  OBVIOUS
<1> USE DEF TypeOK, dbVars, fsVars, Run, NoRun
<1>1. ASSUME NEW a \in Appeals, JanitorDeletes(a) PROVE TypeOK'
  BY <1>1 DEF JanitorDeletes, Erase
<1>2. ASSUME NEW a \in Appeals, JanitorDeleteFails(a) PROVE TypeOK'
  BY <1>2 DEF JanitorDeleteFails, Erase
<1>3. ASSUME NEW a \in Appeals, JanitorRemoves(a) PROVE TypeOK'
  BY <1>3 DEF JanitorRemoves
<1>4. ASSUME NEW a \in Appeals, JanitorRemoveFails(a) PROVE TypeOK'
  BY <1>4 DEF JanitorRemoveFails
<1>5. ASSUME JanitorStarts \/ JanitorFinds PROVE TypeOK'
  BY <1>5 DEF JanitorStarts, JanitorFinds
<1>6. ASSUME JanitorTurnsToDisk \/ JanitorEnds PROVE TypeOK'
  BY <1>6 DEF JanitorTurnsToDisk, JanitorEnds
<1>7. QED
  BY <1>1, <1>2, <1>3, <1>4, <1>5, <1>6 DEF JanitorNext

\* Requests, time, the janitor, stops, crashes and restarts keep the types.
LEMMA TypeStep == TypeOK /\ [Next]_vars => TypeOK'
<1> SUFFICES ASSUME TypeOK, [Next]_vars PROVE TypeOK'
  OBVIOUS
<1>1. ASSUME NEW w \in Workers, UploadNext(w) PROVE TypeOK'
  BY <1>1, UploadsTyped DEF UploadNext
<1>2. ASSUME NEW a \in Appeals, Close(a) \/ Expire(a) PROVE TypeOK'
  BY <1>2 DEF TypeOK, Close, Expire, fsVars
<1>3. ASSUME JanitorNext PROVE TypeOK'
  BY <1>3, JanitorTyped
<1>4. ASSUME ProcessNext PROVE TypeOK'
  BY <1>4, UploadMade
     DEF TypeOK, ProcessNext, Stop, Exit, Crash, Restart, Ended, dbVars, fsVars, Run, NoRun
<1>5. CASE UNCHANGED vars
  BY <1>5 DEF TypeOK, vars, dbVars, fsVars
<1>6. QED
  BY <1>1, <1>2, <1>3, <1>4, <1>5 DEF Next

\* The model is well typed whatever the faults.
THEOREM TypeCorrect == Spec => []TypeOK
BY TypeInit, TypeStep, PTL DEF Spec

-----------------------------------------------------------------------------
(* The inductive invariant                                                 *)

\* The file of an upload, once written, stays while its appeal does.
UploadOK(w) ==
    uploads[w].step = "written" /\ appeal[uploads[w].appeal] # "erased"
        => uploads[w].name \in disk[uploads[w].appeal]

\* What the janitor knows of the appeals of its run.
JanitorOK ==
    /\ janitor.step \in {"idle", "started"} => janitor.ids = {} /\ janitor.todo = {}
    /\ janitor.todo \subseteq janitor.ids
    /\ janitor.step = "deleting" =>
          /\ \A a \in janitor.todo : appeal[a] = "expired"
          /\ \A a \in janitor.ids \ janitor.todo : appeal[a] = "erased"
    /\ janitor.step = "removing" => \A a \in janitor.ids : appeal[a] = "erased"

\* The rows of an appeal: each with its file, none of an erased appeal.
RowsOK(a) == rows[a] \subseteq disk[a] /\ (appeal[a] = "erased" => rows[a] = {})

IInv ==
    /\ TypeOK
    /\ \A w \in Workers : UploadOK(w)
    /\ JanitorOK
    /\ \A a \in Appeals : RowsOK(a)
    /\ DirectoriesGoWithAppeals

\* The initial state satisfies the invariant.
LEMMA InvInit == Init => IInv
<1> SUFFICES ASSUME Init PROVE IInv
  OBVIOUS
<1>1. TypeOK
  BY TypeInit
<1>2. \A w \in Workers : UploadOK(w)
  BY DEF Init, UploadOK, Idle
<1>3. QED
  BY <1>1, <1>2 DEF Init, IInv, JanitorOK, RowsOK, DirectoriesGoWithAppeals, NoRun

\* Uploads keep the invariant: they touch only appeals that are still there.
LEMMA UploadsKeep ==
    ASSUME IInv, TypeOK', NEW w \in Workers, UploadNext(w)
    PROVE  IInv'
<1> USE DEF IInv, dbVars, fsVars, Become
<1>0. \A v \in Workers :
         /\ uploads[v].step # "idle" => uploads[v].appeal \in Appeals
         /\ uploads[v].step = "idle" <=> uploads[v] = Idle
  BY UploadShape DEF TypeOK
<1>1. ASSUME NEW a \in Appeals, StartUpload(w, a) PROVE IInv'
  <2>1. \A v \in Workers : UploadOK(v)'
    BY <1>1 DEF StartUpload, UploadOK, TypeOK, Counted, Idle
  <2>2. QED
    BY <1>1, <2>1 DEF StartUpload, JanitorOK, RowsOK, DirectoriesGoWithAppeals
<1>2. ASSUME NEW n \in Names, WriteFile(w, n) PROVE IInv'
  <2> DEFINE a == uploads[w].appeal
  <2>1. a \in Appeals
    BY <1>0, <1>2 DEF WriteFile
  <2>2. \A b \in Appeals : disk[b] \subseteq disk'[b]
    BY <1>2, <2>1 DEF WriteFile, TypeOK
  <2>3. UploadOK(w)'
    BY <1>2, <2>1 DEF WriteFile, UploadOK, TypeOK, Written
  <2>4. ASSUME NEW v \in Workers, v # w PROVE UploadOK(v)'
    <3>1. uploads'[v] = uploads[v] /\ appeal' = appeal
      BY <1>2, <2>4 DEF WriteFile, TypeOK
    <3>2. uploads[v].step = "written" => uploads[v].appeal \in Appeals
      BY <1>0
    <3>3. QED
      BY <2>2, <3>1, <3>2 DEF UploadOK
  <2>5. DirectoriesGoWithAppeals'
    BY <1>2, <2>1 DEF WriteFile, Outlived, DirectoriesGoWithAppeals
  <2>6. QED
    BY <1>2, <2>2, <2>3, <2>4, <2>5 DEF WriteFile, JanitorOK, RowsOK
<1>3. ASSUME InsertRow(w) PROVE IInv'
  <2> DEFINE a == uploads[w].appeal
  <2>1. /\ a \in Appeals /\ appeal[a] # "erased"
        /\ uploads[w].name \in disk[a]
    BY <1>0, <1>3 DEF InsertRow, UploadOK
  <2>2. \A b \in Appeals : RowsOK(b)'
    BY <1>3, <2>1 DEF InsertRow, RowsOK, TypeOK
  <2>3. \A v \in Workers : UploadOK(v)'
    BY <1>3 DEF InsertRow, UploadOK, TypeOK, Idle
  <2>4. QED
    BY <1>3, <2>2, <2>3 DEF InsertRow, JanitorOK, DirectoriesGoWithAppeals
<1>4. ASSUME FailUpload(w) PROVE IInv'
  <2>1. uploads[w].appeal \in Appeals
    BY <1>0, <1>4 DEF FailUpload
  <2>2. \A v \in Workers : UploadOK(v)'
    BY <1>4 DEF FailUpload, UploadOK, TypeOK, Idle
  <2>3. DirectoriesGoWithAppeals'
    BY <1>4, <2>1 DEF FailUpload, Outlived, DirectoriesGoWithAppeals
  <2>4. QED
    BY <1>4, <2>2, <2>3 DEF FailUpload, JanitorOK, RowsOK
<1>5. QED
  BY <1>1, <1>2, <1>3, <1>4 DEF UploadNext

\* The janitor keeps the invariant: what it removes from the disk is erased.
LEMMA JanitorKeeps == IInv /\ TypeOK' /\ JanitorNext => IInv'
<1> SUFFICES ASSUME IInv, TypeOK', JanitorNext PROVE IInv'
  OBVIOUS
<1> USE DEF IInv, dbVars, fsVars
<1>0. \A w \in Workers : uploads[w].step = "written" => uploads[w].appeal \in Appeals
  BY UploadShape DEF TypeOK
<1>1. ASSUME NEW a \in Appeals, JanitorDeletes(a) PROVE IInv'
  <2>1. appeal[a] = "expired"
    BY <1>1 DEF JanitorDeletes, JanitorOK
  <2>2. \A w \in Workers : UploadOK(w)'
    BY <1>0, <1>1, <2>1 DEF JanitorDeletes, Erase, UploadOK, TypeOK
  <2>3. JanitorOK'
    BY <1>1 DEF JanitorDeletes, Erase, JanitorOK, TypeOK, Run
  <2>4. \A b \in Appeals : RowsOK(b)'
    BY <1>1 DEF JanitorDeletes, Erase, RowsOK, TypeOK
  <2>5. DirectoriesGoWithAppeals'
    BY <1>1 DEF JanitorDeletes, Erase, DirectoriesGoWithAppeals, JanitorOK, TypeOK, Run
  <2>6. QED
    BY <2>2, <2>3, <2>4, <2>5
<1>2. ASSUME NEW a \in Appeals, JanitorDeleteFails(a) PROVE IInv'
  <2>1. appeal[a] = "expired"
    BY <1>2 DEF JanitorDeleteFails, JanitorOK
  <2>2. \A w \in Workers : UploadOK(w)'
    BY <1>0, <1>2, <2>1 DEF JanitorDeleteFails, Erase, UploadOK, TypeOK
  <2>3. JanitorOK'
    BY <1>2 DEF JanitorDeleteFails, JanitorOK, NoRun
  <2>4. \A b \in Appeals : RowsOK(b)'
    BY <1>2 DEF JanitorDeleteFails, Erase, RowsOK, TypeOK
  <2>5. a \in janitor.ids
    BY <1>2, <2>1 DEF JanitorDeleteFails, JanitorOK, TypeOK, Run
  <2>6. \A b \in Appeals : appeal'[b] = "erased" => appeal[b] = "erased" \/ b = a
    BY <1>2 DEF JanitorDeleteFails, Erase, TypeOK
  <2>7. DirectoriesGoWithAppeals'
    BY <1>2, <2>5, <2>6 DEF JanitorDeleteFails, DirectoriesGoWithAppeals, TypeOK
  <2>8. QED
    BY <2>2, <2>3, <2>4, <2>7
<1>3. ASSUME NEW a \in Appeals, JanitorRemoves(a) \/ JanitorRemoveFails(a) PROVE IInv'
  <2>1. janitor.step = "removing" /\ a \in janitor.todo /\ appeal[a] = "erased"
    BY <1>3 DEF JanitorRemoves, JanitorRemoveFails, JanitorOK
  <2>2. \A w \in Workers : UploadOK(w)'
    BY <1>0, <1>3, <2>1 DEF JanitorRemoves, JanitorRemoveFails, UploadOK, TypeOK
  <2>3. JanitorOK'
    BY <1>3 DEF JanitorRemoves, JanitorRemoveFails, JanitorOK, TypeOK, Run
  <2>4. \A b \in Appeals : RowsOK(b)'
    BY <1>3, <2>1 DEF JanitorRemoves, JanitorRemoveFails, RowsOK, TypeOK
  <2>5. DirectoriesGoWithAppeals'
    BY <1>3, <2>1
       DEF JanitorRemoves, JanitorRemoveFails, DirectoriesGoWithAppeals, TypeOK, Run
  <2>6. QED
    BY <2>2, <2>3, <2>4, <2>5
<1>4. ASSUME JanitorStarts \/ JanitorFinds PROVE IInv'
  <2>1. \A w \in Workers : UploadOK(w)'
    BY <1>4 DEF JanitorStarts, JanitorFinds, UploadOK
  <2>2. JanitorOK' /\ DirectoriesGoWithAppeals'
    BY <1>4 DEF JanitorStarts, JanitorFinds, JanitorOK, NoRun, DirectoriesGoWithAppeals
  <2>3. QED
    BY <1>4, <2>1, <2>2 DEF JanitorStarts, JanitorFinds, RowsOK
<1>5. ASSUME JanitorTurnsToDisk \/ JanitorEnds PROVE IInv'
  <2>1. \A w \in Workers : UploadOK(w)'
    BY <1>5 DEF JanitorTurnsToDisk, JanitorEnds, UploadOK
  <2>2. JanitorOK'
    BY <1>5 DEF JanitorTurnsToDisk, JanitorEnds, JanitorOK, NoRun, TypeOK, Run
  <2>3. DirectoriesGoWithAppeals'
    BY <1>5 DEF JanitorTurnsToDisk, JanitorEnds, NoRun, DirectoriesGoWithAppeals, TypeOK, Run
  <2>4. QED
    BY <1>5, <2>1, <2>2, <2>3 DEF JanitorTurnsToDisk, JanitorEnds, RowsOK
<1>6. QED
  BY <1>1, <1>2, <1>3, <1>4, <1>5 DEF JanitorNext

\* Stops, crashes and restarts keep the invariant: only a crash cuts a run of
\* the janitor short.
LEMMA ProcessKeeps == IInv /\ TypeOK' /\ ProcessNext => IInv'
<1> SUFFICES ASSUME IInv, TypeOK', ProcessNext PROVE IInv'
  OBVIOUS
<1> USE DEF IInv, dbVars, fsVars
<1>1. ASSUME Stop \/ Restart PROVE IInv'
  BY <1>1 DEF Stop, Restart, UploadOK, JanitorOK, RowsOK, DirectoriesGoWithAppeals
<1>2. ASSUME Exit \/ Crash PROVE IInv'
  <2>1. \A w \in Workers : UploadOK(w)'
    BY <1>2 DEF Exit, Crash, Ended, UploadOK, Idle
  <2>2. JanitorOK'
    BY <1>2 DEF Exit, Crash, Ended, JanitorOK, NoRun
  <2>3. DirectoriesGoWithAppeals'
    BY <1>2 DEF Exit, Crash, Ended, DirectoriesGoWithAppeals, JanitorOK, TypeOK, Run
  <2>4. QED
    BY <1>2, <2>1, <2>2, <2>3 DEF Exit, Crash, Ended, RowsOK
<1>3. QED
  BY <1>1, <1>2 DEF ProcessNext

\* Every step keeps the invariant.
LEMMA InvStep == IInv /\ [Next]_vars => IInv'
<1> SUFFICES ASSUME IInv, [Next]_vars PROVE IInv'
  OBVIOUS
<1>0. TypeOK /\ TypeOK'
  BY TypeStep DEF IInv
<1>1. ASSUME NEW w \in Workers, UploadNext(w) PROVE IInv'
  BY <1>0, <1>1, UploadsKeep
<1>2. ASSUME NEW a \in Appeals, Close(a) \/ Expire(a) PROVE IInv'
  <2>0. \A w \in Workers : uploads[w].step = "written" => uploads[w].appeal \in Appeals
    BY <1>0, UploadShape DEF TypeOK
  <2>1. \A w \in Workers : UploadOK(w)'
    BY <1>0, <1>2, <2>0 DEF Close, Expire, UploadOK, IInv, TypeOK, fsVars
  <2>2. JanitorOK' /\ \A b \in Appeals : RowsOK(b)'
    BY <1>0, <1>2 DEF Close, Expire, JanitorOK, RowsOK, IInv, TypeOK, Run, fsVars
  <2>3. DirectoriesGoWithAppeals'
    BY <1>0, <1>2 DEF Close, Expire, DirectoriesGoWithAppeals, IInv, TypeOK, fsVars
  <2>4. QED
    BY <1>0, <2>1, <2>2, <2>3 DEF IInv
<1>3. ASSUME JanitorNext \/ ProcessNext PROVE IInv'
  BY <1>0, <1>3, JanitorKeeps, ProcessKeeps
<1>4. CASE UNCHANGED vars
  BY <1>0, <1>4
     DEF IInv, UploadOK, JanitorOK, RowsOK, DirectoriesGoWithAppeals, vars, dbVars, fsVars
<1>5. QED
  BY <1>1, <1>2, <1>3, <1>4 DEF Next

\* The inductive invariant holds of every behaviour.
LEMMA Invariance == Spec => []IInv
BY InvInit, InvStep, PTL DEF Spec

\* Every listed attachment can be downloaded, whatever fails or restarts.
THEOREM ListedMeansStored == Spec => []RowsHaveFiles
<1>1. IInv => RowsHaveFiles
  BY DEF IInv, RowsOK, RowsHaveFiles
<1>2. QED
  BY <1>1, Invariance, PTL

\* Only a purge cut short by a failure leaves a directory without its appeal.
THEOREM OrphansAreSpoiled == Spec => []DirectoriesGoWithAppeals
<1>1. IInv => DirectoriesGoWithAppeals
  BY DEF IInv
<1>2. QED
  BY <1>1, Invariance, PTL

-----------------------------------------------------------------------------
(* The limit: a counted upload stands for a row that may still come.       *)

\* The uploads under way that were let in by the count.
Owed(a) ==
    {w \in Workers : \/ \E n \in Names \ unchecked : uploads[w] = Written(a, n)
                     \/ uploads[w] = Counted(a, TRUE)}

\* The rows that were let in by the count.
CountedRows(a) == rows[a] \ unchecked

LimitInv ==
    /\ TypeOK
    /\ \A a \in Appeals :
           Cardinality(CountedRows(a)) + Cardinality(Owed(a))
               <= MaxAttachments - 1 + Cardinality(Workers)

\* The sets that are counted are finite.
LEMMA CountsAreNumbers ==
    ASSUME TypeOK, NEW a \in Appeals
    PROVE  /\ IsFiniteSet(rows[a]) /\ Cardinality(rows[a]) \in Nat
           /\ IsFiniteSet(CountedRows(a)) /\ Cardinality(CountedRows(a)) \in Nat
           /\ Cardinality(CountedRows(a)) <= Cardinality(rows[a])
           /\ IsFiniteSet(Owed(a)) /\ Cardinality(Owed(a)) \in Nat
           /\ Cardinality(Owed(a)) <= Cardinality(Workers)
           /\ Cardinality(Workers) \in Nat
<1>1. rows[a] \in SUBSET Names /\ CountedRows(a) \in SUBSET rows[a]
  BY DEF TypeOK, CountedRows
<1>2. Owed(a) \in SUBSET Workers
  BY DEF Owed
<1>3. IsFiniteSet(rows[a])
  BY <1>1, FS_Subset
<1>4. /\ IsFiniteSet(CountedRows(a))
      /\ Cardinality(CountedRows(a)) <= Cardinality(rows[a])
  BY <1>1, <1>3, FS_Subset
<1>5. IsFiniteSet(Owed(a)) /\ Cardinality(Owed(a)) <= Cardinality(Workers)
  BY <1>2, FS_Subset
<1>6. QED
  BY <1>3, <1>4, <1>5, FS_CardinalityType

\* A step that adds neither rows nor owed uploads keeps the bound.
LEMMA FewerIsFine ==
    ASSUME LimitInv, TypeOK', NEW a \in Appeals,
           CountedRows(a)' \subseteq CountedRows(a), Owed(a)' \subseteq Owed(a)
    PROVE  Cardinality(CountedRows(a))' + Cardinality(Owed(a))'
               <= MaxAttachments - 1 + Cardinality(Workers)
<1>1. /\ IsFiniteSet(CountedRows(a)) /\ Cardinality(CountedRows(a)) \in Nat
      /\ IsFiniteSet(Owed(a)) /\ Cardinality(Owed(a)) \in Nat
      /\ Cardinality(Workers) \in Nat
  BY CountsAreNumbers DEF LimitInv
<1>2. /\ Cardinality(CountedRows(a)') <= Cardinality(CountedRows(a))
      /\ Cardinality(Owed(a)') <= Cardinality(Owed(a))
      /\ Cardinality(CountedRows(a)') \in Nat /\ Cardinality(Owed(a)') \in Nat
  BY <1>1, FS_Subset, FS_CardinalityType
<1>3. QED
  BY <1>1, <1>2 DEF LimitInv

\* The bound holds of the initial state.
LEMMA LimitInit == Init => LimitInv
<1> SUFFICES ASSUME Init, NEW a \in Appeals
             PROVE  Cardinality(CountedRows(a)) + Cardinality(Owed(a))
                        <= MaxAttachments - 1 + Cardinality(Workers)
  BY TypeInit DEF LimitInv
<1>1. CountedRows(a) = {} /\ Owed(a) = {}
  BY DEF Init, CountedRows, Owed, Idle, Counted, Written
<1>2. Cardinality(Workers) \in Nat
  BY FS_CardinalityType
<1>3. QED
  BY <1>1, <1>2, FS_EmptySet

\* Every step keeps it: the count starts an upload, the upload starts a row.
LEMMA LimitStep == LimitInv /\ [Next]_vars => LimitInv'
<1> SUFFICES ASSUME LimitInv, [Next]_vars, NEW a \in Appeals
             PROVE  Cardinality(CountedRows(a))' + Cardinality(Owed(a))'
                        <= MaxAttachments - 1 + Cardinality(Workers)
  BY TypeStep DEF LimitInv
<1>0. TypeOK /\ TypeOK'
  BY TypeStep DEF LimitInv
<1> USE DEF dbVars, fsVars, Become
<1>1. ASSUME NEW w \in Workers, NEW b \in Appeals, StartUpload(w, b)
      PROVE  Cardinality(CountedRows(a))' + Cardinality(Owed(a))'
                 <= MaxAttachments - 1 + Cardinality(Workers)
  <2>1. CASE a = b /\ BelowLimit(b)
    <3>1. CountedRows(a)' = CountedRows(a)
      BY <1>1 DEF StartUpload, CountedRows
    <3>2. Cardinality(rows[a]) < MaxAttachments
      BY <2>1 DEF BelowLimit
    <3>3. Cardinality(Owed(a)') <= Cardinality(Workers) /\ Cardinality(Owed(a)') \in Nat
      <4>1. Owed(a)' \in SUBSET Workers
        BY DEF Owed
      <4>2. QED
        BY <4>1, FS_Subset, FS_CardinalityType
    <3>4. /\ Cardinality(CountedRows(a)) \in Nat /\ Cardinality(rows[a]) \in Nat
          /\ Cardinality(CountedRows(a)) <= Cardinality(rows[a])
          /\ Cardinality(Workers) \in Nat
      BY <1>0, CountsAreNumbers
    <3>5. QED
      BY <3>1, <3>2, <3>3, <3>4
  <2>2. CASE ~(a = b /\ BelowLimit(b))
    <3>1. CountedRows(a)' \subseteq CountedRows(a) /\ Owed(a)' \subseteq Owed(a)
      BY <1>0, <1>1, <2>2 DEF StartUpload, CountedRows, Owed, Counted, Written, TypeOK
    <3>2. QED
      BY <1>0, <3>1, FewerIsFine
  <2>3. QED
    BY <2>1, <2>2
<1>2. ASSUME NEW w \in Workers, NEW n \in Names, WriteFile(w, n)
      PROVE  Cardinality(CountedRows(a))' + Cardinality(Owed(a))'
                 <= MaxAttachments - 1 + Cardinality(Workers)
  <2>1. CountedRows(a)' \subseteq CountedRows(a)
    BY <1>2 DEF WriteFile, CountedRows
  <2>2. PICK b \in Appeals, known \in BOOLEAN : uploads[w] = Counted(b, known)
    BY <1>0, <1>2 DEF WriteFile, TypeOK, Upload, Idle, Counted, Written
  <2>3. uploads' = [uploads EXCEPT ![w] = Written(b, n)]
    BY <1>2, <2>2 DEF WriteFile, Counted
  <2>4. known => uploads[w] = Counted(b, TRUE)
    BY <2>2
  <2>5. ~known => n \in unchecked'
    BY <1>2, <2>2 DEF WriteFile, Counted
  <2>6. unchecked \subseteq unchecked'
    BY <1>2 DEF WriteFile
  <2>7. Owed(a)' \subseteq Owed(a)
    BY <1>0, <2>3, <2>4, <2>5, <2>6 DEF Owed, Counted, Written, TypeOK
  <2>8. QED
    BY <1>0, <2>1, <2>7, FewerIsFine
<1>3. ASSUME NEW w \in Workers, InsertRow(w)
      PROVE  Cardinality(CountedRows(a))' + Cardinality(Owed(a))'
                 <= MaxAttachments - 1 + Cardinality(Workers)
  <2>1. PICK b \in Appeals, n \in Names : uploads[w] = Written(b, n)
    BY <1>0, <1>3 DEF InsertRow, TypeOK, Upload, Idle, Counted, Written
  <2>2. rows' = [rows EXCEPT ![b] = @ \cup {n}] /\ unchecked' = unchecked
    BY <1>3, <2>1 DEF InsertRow, Written
  <2>3. uploads' = [uploads EXCEPT ![w] = Idle]
    BY <1>3 DEF InsertRow
  <2>4. CASE a = b /\ n \notin unchecked
    <3>1. CountedRows(a)' = CountedRows(a) \cup {n}
      BY <1>0, <2>2, <2>4 DEF CountedRows, TypeOK
    <3>2. w \in Owed(a) /\ Owed(a)' = Owed(a) \ {w}
      BY <1>0, <2>1, <2>2, <2>3, <2>4 DEF Owed, Idle, Counted, Written, TypeOK
    <3>3. /\ IsFiniteSet(CountedRows(a)) /\ Cardinality(CountedRows(a)) \in Nat
          /\ IsFiniteSet(Owed(a)) /\ Cardinality(Owed(a)) \in Nat
          /\ Cardinality(Workers) \in Nat
      BY <1>0, CountsAreNumbers
    <3>4. Cardinality(CountedRows(a)') \in
              {Cardinality(CountedRows(a)), Cardinality(CountedRows(a)) + 1}
      BY <3>1, <3>3, FS_AddElement
    <3>5. Cardinality(Owed(a) \ {w}) = Cardinality(Owed(a)) - 1
      BY <3>2, <3>3, FS_RemoveElement
    <3>6. QED
      BY <3>2, <3>3, <3>4, <3>5 DEF LimitInv
  <2>5. CASE ~(a = b /\ n \notin unchecked)
    <3>1. CountedRows(a)' \subseteq CountedRows(a)
      BY <1>0, <2>2, <2>5 DEF CountedRows, TypeOK
    <3>2. Owed(a)' \subseteq Owed(a)
      BY <1>0, <2>2, <2>3 DEF Owed, Idle, Counted, Written, TypeOK
    <3>3. QED
      BY <1>0, <3>1, <3>2, FewerIsFine
  <2>6. QED
    BY <2>4, <2>5
<1>4. ASSUME NEW w \in Workers, FailUpload(w)
      PROVE  CountedRows(a)' \subseteq CountedRows(a) /\ Owed(a)' \subseteq Owed(a)
  BY <1>0, <1>4 DEF FailUpload, CountedRows, Owed, Idle, Counted, Written, TypeOK
<1>5. ASSUME JanitorNext
      PROVE  CountedRows(a)' \subseteq CountedRows(a) /\ Owed(a)' \subseteq Owed(a)
  <2>1. uploads' = uploads /\ unchecked' = unchecked
    BY <1>5 DEF JanitorNext, JanitorStarts, JanitorFinds, JanitorDeletes,
                JanitorDeleteFails, JanitorTurnsToDisk, JanitorRemoves,
                JanitorRemoveFails, JanitorEnds
  <2>2. rows'[a] \subseteq rows[a]
    BY <1>0, <1>5
       DEF JanitorNext, JanitorStarts, JanitorFinds, JanitorDeletes, JanitorDeleteFails,
           Erase, JanitorTurnsToDisk, JanitorRemoves, JanitorRemoveFails, JanitorEnds,
           TypeOK
  <2>3. QED
    BY <2>1, <2>2 DEF CountedRows, Owed
<1>6. ASSUME ProcessNext
      PROVE  CountedRows(a)' \subseteq CountedRows(a) /\ Owed(a)' \subseteq Owed(a)
  BY <1>0, <1>6
     DEF ProcessNext, Stop, Exit, Crash, Restart, Ended, CountedRows, Owed,
         Idle, Counted, Written, TypeOK
<1>7. ASSUME NEW b \in Appeals, Close(b) \/ Expire(b)
      PROVE  CountedRows(a)' \subseteq CountedRows(a) /\ Owed(a)' \subseteq Owed(a)
  BY <1>7 DEF Close, Expire, CountedRows, Owed
<1>8. ASSUME UNCHANGED vars
      PROVE  CountedRows(a)' \subseteq CountedRows(a) /\ Owed(a)' \subseteq Owed(a)
  BY <1>8 DEF vars, CountedRows, Owed
<1>9. QED
  BY <1>0, <1>1, <1>2, <1>3, <1>4, <1>5, <1>6, <1>7, <1>8, FewerIsFine
     DEF Next, UploadNext

\* The limit is overrun by no more than the uploads under way at one time.
THEOREM LimitOverrun == Spec => []OverrunIsBounded
<1>1. LimitInv => OverrunIsBounded
  <2> SUFFICES ASSUME LimitInv, NEW a \in Appeals
               PROVE  Cardinality(rows[a] \ unchecked)
                          <= MaxAttachments - 1 + Cardinality(Workers)
    BY DEF OverrunIsBounded
  <2>1. /\ Cardinality(CountedRows(a)) \in Nat /\ Cardinality(Owed(a)) \in Nat
        /\ Cardinality(Workers) \in Nat
    BY CountsAreNumbers DEF LimitInv
  <2>2. QED
    BY <2>1 DEF LimitInv, CountedRows
<1>2. QED
  BY <1>1, LimitInit, LimitStep, PTL DEF Spec
=============================================================================
