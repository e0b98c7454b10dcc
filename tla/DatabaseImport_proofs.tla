------------------------ MODULE DatabaseImport_proofs ------------------------
(***************************************************************************)
(* Replacing the database, for every set of documents and of uploads: what *)
(* an import and its backups may do to the handle and to the stored        *)
(* uploads, whatever requests run beside them.                             *)
(***************************************************************************)
EXTENDS DatabaseImport, TLAPS

\* The types hold through every request, backup and import.
THEOREM TypeCorrect == Spec => []TypeOK
<1>1. Init => TypeOK
  BY DEF Init, TypeOK, Content, RequestState, Step, Answer, InTransaction
<1>2. TypeOK /\ [Next]_vars => TypeOK'
  <2> SUFFICES ASSUME TypeOK, [Next]_vars
               PROVE  TypeOK'
    OBVIOUS
  <2> USE DEF TypeOK, Content, RequestState, Step, Answer, InTransaction
  <2>1. ASSUME NEW d \in Doc, CheckTitle(d) \/ StoreUpload(d) \/ BeginSave(d)
        PROVE  TypeOK'
    BY <2>1 DEF CheckTitle, StoreUpload, BeginSave, MoveRequest, importVars
  <2>2. ASSUME NEW d \in Doc, CommitSave(d) \/ FailSave(d)
        PROVE  TypeOK'
    BY <2>2 DEF CommitSave, FailSave, RowsAfter, MoveRequest, importVars
  <2>3. ASSUME NEW d \in Doc, BeginDelete(d) \/ UnlinkUpload(d)
        PROVE  TypeOK'
    BY <2>3 DEF BeginDelete, UnlinkUpload, MoveRequest, importVars
  <2>4. ASSUME NEW d \in Doc, CommitDelete(d) \/ FailDelete(d)
        PROVE  TypeOK'
    BY <2>4 DEF CommitDelete, FailDelete, RowsAfter, MoveRequest, importVars
  <2>5. CASE ListUploads \/ DumpDatabase \/ PackBackup \/ FailBackup
    BY <2>5 DEF ListUploads, DumpDatabase, PackBackup, FailBackup, GoTo, Release,
                appVars
  <2>6. CASE CloseDatabase \/ ProbeFree \/ ProbeLocked
    BY <2>6 DEF CloseDatabase, ProbeFree, ProbeLocked, GoTo, Release, appVars
  <2>7. CASE InstallUpload \/ FailInstall \/ OpenInstalled \/ FailOpen
    BY <2>7 DEF InstallUpload, FailInstall, OpenInstalled, FailOpen, GoTo, appVars
  <2>8. CASE RestoreBackup \/ FailRestore
    BY <2>8 DEF RestoreBackup, FailRestore, Release
  <2>9. CASE ExtractUploads \/ FailExtract \/ RemoveBundled
    BY <2>9 DEF ExtractUploads, FailExtract, RemoveBundled, GoTo, Release
  <2>10. CASE StartScheduledBackup
    BY <2>10 DEF StartScheduledBackup, GoTo, appVars
  <2>11. ASSUME NEW u \in Upload, StartImport(u)
         PROVE  TypeOK'
    <3>1. u \in [rows : SUBSET Doc, files : SUBSET Doc]
      BY DatabaseImportAssumption
    <3> QED
      BY <2>11, <3>1 DEF StartImport, GoTo
  <2>12. CASE UNCHANGED vars
    BY <2>12 DEF vars, appVars, importVars
  <2> QED
    BY <2>1, <2>2, <2>3, <2>4, <2>5, <2>6, <2>7, <2>8, <2>9, <2>10, <2>11, <2>12
       DEF Next, Requests, Replace
<1> QED
  BY <1>1, <1>2, PTL DEF Spec

-----------------------------------------------------------------------------
(***************************************************************************)
(* The handle.  It is closed exactly between CloseDatabase and the end of  *)
(* the replacement, and the file is a database whenever a backup could be  *)
(* read from it: so the next handle that is opened is opened on one.       *)
(***************************************************************************)
HandleFollowsSteps ==
    /\ ServesADatabase
    /\ step \in {"dump", "pack", "close"} => handle = "open"
    /\ step \in {"probe", "install", "open"} => file = "database"
    /\ step \in {"probe", "install", "open", "restore"} => handle = "closed"

LEMMA HandleInvariant == Spec => []HandleFollowsSteps
<1>1. Init => HandleFollowsSteps
  BY DEF Init, HandleFollowsSteps, ServesADatabase
<1>2. TypeOK /\ HandleFollowsSteps /\ [Next]_vars => HandleFollowsSteps'
  <2> SUFFICES ASSUME TypeOK, HandleFollowsSteps, [Next]_vars
               PROVE  HandleFollowsSteps'
    OBVIOUS
  <2> USE DEF HandleFollowsSteps, ServesADatabase
  <2>1. CASE Requests
    <3>1. UNCHANGED <<file, handle, step>>
      BY <2>1 DEF Requests, CheckTitle, StoreUpload, BeginSave, CommitSave, FailSave,
           BeginDelete, UnlinkUpload, CommitDelete, FailDelete, importVars
    <3> QED
      BY <3>1
  <2>2. CASE ListUploads \/ DumpDatabase \/ PackBackup \/ FailBackup
    BY <2>2 DEF ListUploads, DumpDatabase, PackBackup, FailBackup, GoTo, Release,
                ConnectionFree
  <2>3. CASE CloseDatabase \/ ProbeFree \/ ProbeLocked
    BY <2>3 DEF CloseDatabase, ProbeFree, ProbeLocked, GoTo, Release
  <2>4. CASE InstallUpload \/ FailInstall \/ OpenInstalled \/ FailOpen
    BY <2>4 DEF InstallUpload, FailInstall, OpenInstalled, FailOpen, GoTo
  <2>5. CASE RestoreBackup \/ FailRestore
    BY <2>5 DEF RestoreBackup, FailRestore, Release
  <2>6. CASE ExtractUploads \/ FailExtract \/ RemoveBundled
    BY <2>6 DEF ExtractUploads, FailExtract, RemoveBundled, GoTo, Release
  <2>7. CASE StartScheduledBackup \/ \E u \in Upload : StartImport(u)
    BY <2>7 DEF StartScheduledBackup, StartImport, GoTo
  <2>8. CASE UNCHANGED vars
    BY <2>8 DEF vars, importVars
  <2> QED
    BY <2>1, <2>2, <2>3, <2>4, <2>5, <2>6, <2>7, <2>8 DEF Next, Replace
<1> QED
  BY <1>1, <1>2, TypeCorrect, PTL DEF Spec

\* However an import ends, requests are never given a handle on the bytes of
\* an archive or of half a copy.
THEOREM ADatabaseIsServed == Spec => []ServesADatabase
<1>1. HandleFollowsSteps => ServesADatabase
  BY DEF HandleFollowsSteps
<1> QED
  BY <1>1, HandleInvariant, PTL

-----------------------------------------------------------------------------
(***************************************************************************)
(* The uploads.  A document whose upload request has not been answered is  *)
(* known to no database, archive or backup: so no cleanup can name it.     *)
(***************************************************************************)
Unanswered == {d \in Doc : request[d] \in {"fresh", "checked", "stored", "saving"}}
Known == rows \cup upload.rows \cup upload.files \cup backup.rows \cup backup.files

UnansweredIsUnknown ==
    /\ PendingUploadsStay
    /\ Unanswered \cap Known = {}

LEMMA UploadInvariant == Spec => []UnansweredIsUnknown
<1>1. Init => UnansweredIsUnknown
  BY DEF Init, UnansweredIsUnknown, PendingUploadsStay, Known
<1>2. TypeOK /\ UnansweredIsUnknown /\ [Next]_vars => UnansweredIsUnknown'
  <2> SUFFICES ASSUME TypeOK, UnansweredIsUnknown, [Next]_vars
               PROVE  UnansweredIsUnknown'
    OBVIOUS
  <2> USE DEF TypeOK, UnansweredIsUnknown, PendingUploadsStay, Unanswered, Known
  <2>1. ASSUME NEW d \in Doc, CheckTitle(d) \/ StoreUpload(d) \/ BeginSave(d)
        PROVE  UnansweredIsUnknown'
    BY <2>1 DEF CheckTitle, StoreUpload, BeginSave, MoveRequest, importVars
  <2>2. ASSUME NEW d \in Doc, CommitSave(d) \/ FailSave(d)
        PROVE  UnansweredIsUnknown'
    BY <2>2 DEF CommitSave, FailSave, RowsAfter, MoveRequest, importVars
  <2>3. ASSUME NEW d \in Doc, BeginDelete(d) \/ UnlinkUpload(d)
        PROVE  UnansweredIsUnknown'
    BY <2>3 DEF BeginDelete, UnlinkUpload, MoveRequest, importVars
  <2>4. ASSUME NEW d \in Doc, CommitDelete(d) \/ FailDelete(d)
        PROVE  UnansweredIsUnknown'
    BY <2>4 DEF CommitDelete, FailDelete, RowsAfter, MoveRequest, importVars
  <2>5. CASE ListUploads \/ DumpDatabase \/ PackBackup \/ FailBackup
    BY <2>5 DEF ListUploads, DumpDatabase, PackBackup, FailBackup, appVars
  <2>6. CASE Replace
    <3>1. UNCHANGED <<request, upload, backup>>
      BY <2>6 DEF Replace, CloseDatabase, ProbeFree, ProbeLocked, InstallUpload,
           FailInstall, OpenInstalled, FailOpen, RestoreBackup, FailRestore,
           ExtractUploads, FailExtract, RemoveBundled, appVars
    <3>2. rows' \subseteq Known
      BY <2>6 DEF Replace, CloseDatabase, ProbeFree, ProbeLocked, InstallUpload,
           FailInstall, OpenInstalled, FailOpen, RestoreBackup, FailRestore,
           ExtractUploads, FailExtract, RemoveBundled, appVars
    <3>3. disk \ disk' \subseteq backup.files
      BY <2>6 DEF Replace, CloseDatabase, ProbeFree, ProbeLocked, InstallUpload,
           FailInstall, OpenInstalled, FailOpen, RestoreBackup, FailRestore,
           ExtractUploads, FailExtract, RemoveBundled, appVars
    <3> QED
      BY <3>1, <3>2, <3>3
  <2>7. CASE StartScheduledBackup
    BY <2>7 DEF StartScheduledBackup, appVars
  <2>8. ASSUME NEW u \in Upload, StartImport(u)
        PROVE  UnansweredIsUnknown'
    BY <2>8 DEF StartImport
  <2>9. CASE UNCHANGED vars
    BY <2>9 DEF vars, appVars, importVars
  <2> QED
    BY <2>1, <2>2, <2>3, <2>4, <2>5, <2>6, <2>7, <2>8, <2>9 DEF Next, Requests
<1> QED
  BY <1>1, <1>2, TypeCorrect, PTL DEF Spec

\* Replacing the database between the two halves of an upload request never
\* costs the request its file.
THEOREM PendingUploadsAreKept == Spec => []PendingUploadsStay
<1>1. UnansweredIsUnknown => PendingUploadsStay
  BY DEF UnansweredIsUnknown
<1> QED
  BY <1>1, UploadInvariant, PTL

\* Every upload that disappears was deleted by its own request or lies in the
\* zip the import made.
THEOREM UploadsLeaveBackedUp == Spec => RemovedUploadsAreBackedUp
<1> DEFINE Accounted == \A d \in disk \ disk' :
                           \/ request[d] = "deleting" /\ request'[d] = "unlinked"
                           \/ dbMu = "import" /\ d \in backup.files
<1>1. TypeOK /\ [Next]_vars => [Accounted]_vars
  <2> SUFFICES ASSUME TypeOK, Next
               PROVE  Accounted
    OBVIOUS
  <2>1. ASSUME NEW d \in Doc, UnlinkUpload(d)
        PROVE  Accounted
    BY <2>1 DEF UnlinkUpload, MoveRequest, TypeOK
  <2>2. CASE RemoveBundled
    BY <2>2 DEF RemoveBundled, TypeOK
  <2>3. ASSUME NEW d \in Doc, \/ CheckTitle(d) \/ StoreUpload(d) \/ BeginSave(d)
                              \/ CommitSave(d) \/ FailSave(d) \/ BeginDelete(d)
                              \/ CommitDelete(d) \/ FailDelete(d)
        PROVE  disk \subseteq disk'
    BY <2>3 DEF CheckTitle, StoreUpload, BeginSave, CommitSave, FailSave, BeginDelete,
                CommitDelete, FailDelete
  <2>4. CASE \/ ListUploads \/ DumpDatabase \/ PackBackup \/ FailBackup
             \/ StartScheduledBackup \/ \E u \in Upload : StartImport(u)
    BY <2>4 DEF ListUploads, DumpDatabase, PackBackup, FailBackup,
                StartScheduledBackup, StartImport, appVars
  <2>5. CASE \/ CloseDatabase \/ ProbeFree \/ ProbeLocked
             \/ InstallUpload \/ FailInstall \/ OpenInstalled \/ FailOpen
             \/ RestoreBackup \/ FailRestore \/ ExtractUploads \/ FailExtract
    BY <2>5 DEF CloseDatabase, ProbeFree, ProbeLocked, InstallUpload, FailInstall,
                OpenInstalled, FailOpen, RestoreBackup, FailRestore,
                ExtractUploads, FailExtract, appVars
  <2> QED
    BY <2>1, <2>2, <2>3, <2>4, <2>5 DEF Next, Requests, Replace
<1> QED
  BY <1>1, TypeCorrect, PTL DEF Spec, RemovedUploadsAreBackedUp

\* The cleanup of an import spares what the import restored.
THEOREM RestoredUploadsAreSpared == Spec => RestoredUploadsSurvive
<1> DEFINE Spared == answer # "imported" /\ answer' = "imported" =>
                        upload.files \cap disk \subseteq disk'
<1>1. [Next]_vars => [Spared]_vars
  <2> SUFFICES ASSUME Next, answer # "imported", answer' = "imported"
               PROVE  upload.files \cap disk \subseteq disk'
    OBVIOUS
  <2>1. CASE Requests
    BY <2>1 DEF Requests, CheckTitle, StoreUpload, BeginSave, CommitSave, FailSave,
         BeginDelete, UnlinkUpload, CommitDelete, FailDelete, importVars
  <2>2. CASE Replace
    BY <2>2 DEF Replace, CloseDatabase, ProbeFree, ProbeLocked, InstallUpload,
         FailInstall, OpenInstalled, FailOpen, RestoreBackup, FailRestore,
         ExtractUploads, FailExtract, RemoveBundled
  <2>3. CASE \/ ListUploads \/ DumpDatabase \/ PackBackup \/ FailBackup
             \/ StartScheduledBackup \/ \E u \in Upload : StartImport(u)
    BY <2>3 DEF ListUploads, DumpDatabase, PackBackup, FailBackup,
                StartScheduledBackup, StartImport
  <2> QED
    BY <2>1, <2>2, <2>3 DEF Next
<1> QED
  BY <1>1, PTL DEF Spec, RestoredUploadsSurvive
=============================================================================
