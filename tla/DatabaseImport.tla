--------------------------- MODULE DatabaseImport ---------------------------
(***************************************************************************)
(* Replacing the database under a running server, beside the requests that *)
(* upload and delete documents and the scheduled backup.                   *)
(*                                                                         *)
(* A document is a row of files and the upload it names; the stored name   *)
(* ends in a random id, so no two uploads share one.  The import           *)
(* (import_database.go) holds dbMu from its backup to its answer, and so   *)
(* does the scheduled backup (backup_schedule.go) for its length; a        *)
(* request never takes dbMu.  A backup reads the referenced names, then    *)
(* dumps the database, then packs the uploads (backup.go): requests run    *)
(* between these steps.                                                    *)
(*                                                                         *)
(* The pool has one connection.  Closing the handle leaves a transaction   *)
(* that is running its connection: it is adrift.  It may still commit and  *)
(* be answered; whether the write reaches the file then at the path is up  *)
(* to SQLite and the platform, whose log file was removed under it.        *)
(***************************************************************************)
EXTENDS FiniteSets

CONSTANTS
    Doc,     \* documents that may ever be uploaded
    Upload   \* what an import may carry: [rows, files], files = {} for a .db

ASSUME DatabaseImportAssumption ==
    Upload \subseteq [rows : SUBSET Doc, files : SUBSET Doc]

VARIABLES
    file,     \* what the bytes at the database path are
    rows,     \* documents that have a row in the database file
    handle,   \* App.db: can requests use it
    disk,     \* documents whose upload lies in the upload directory
    request,  \* what the upload or delete request of a document is doing
    adrift,   \* documents whose transaction runs on a handle closed since
    dbMu,     \* who holds Router.dbMu
    step,     \* what the holder does next
    upload,   \* what the import under way, or the last one, carries
    backup,   \* the backup under way: names found on disk, rows dumped
    answer    \* what the last import was answered

appVars == <<rows, disk, request, adrift>>
importVars == <<dbMu, step, upload, backup, answer>>
vars == <<file, handle, appVars, importVars>>

Content == {"database", "archive", "torn"}
RequestState ==
    {"fresh", "checked", "stored", "saving", "deleting", "unlinked", "ended"}
Step == {"idle", "list", "dump", "pack", "close", "probe", "install", "open",
         "restore", "extract", "cleanup"}
Answer == {"none", "refused", "busy", "restored", "partial", "imported"}

InTransaction ==
    {d \in Doc : request[d] \in {"saving", "deleting", "unlinked"}}
ConnectionFree == handle = "open" /\ InTransaction \subseteq adrift

-----------------------------------------------------------------------------
Init ==
    /\ file = "database" /\ rows = {} /\ handle = "open"
    /\ disk = {} /\ request = [d \in Doc |-> "fresh"] /\ adrift = {}
    /\ dbMu = "free" /\ step = "idle" /\ answer = "none"
    /\ upload = [rows |-> {}, files |-> {}]
    /\ backup = [rows |-> {}, files |-> {}]

-----------------------------------------------------------------------------
(* The requests of handleCreateFile and handleDeleteFile.                  *)

MoveRequest(d, from, to) ==
    /\ request[d] = from
    /\ request' = [request EXCEPT ![d] = to]

\* The title is free: one query, no transaction yet.
CheckTitle(d) ==
    /\ ConnectionFree
    /\ MoveRequest(d, "fresh", "checked")
    /\ UNCHANGED <<file, handle, rows, disk, adrift, importVars>>

StoreUpload(d) ==
    /\ MoveRequest(d, "checked", "stored")
    /\ disk' = disk \cup {d}
    /\ UNCHANGED <<file, handle, rows, adrift, importVars>>

BeginSave(d) ==
    /\ ConnectionFree
    /\ MoveRequest(d, "stored", "saving")
    /\ UNCHANGED <<file, handle, rows, disk, adrift, importVars>>

\* The rows once a transaction of d that would leave them as R commits.
RowsAfter(d, R) ==
    IF d \notin adrift THEN {R} ELSE IF file = "database" THEN {rows, R} ELSE {rows}

\* Answered 201 whether or not the handle was closed meanwhile.
CommitSave(d) ==
    /\ MoveRequest(d, "saving", "ended")
    /\ rows' \in RowsAfter(d, rows \cup {d})
    /\ adrift' = adrift \ {d}
    /\ UNCHANGED <<file, handle, disk, importVars>>

\* BeginTx, a statement or the commit fails: the stored upload stays.
FailSave(d) ==
    /\ request[d] \in {"checked", "stored", "saving"}
    /\ request' = [request EXCEPT ![d] = "ended"]
    /\ adrift' = adrift \ {d}
    /\ UNCHANGED <<file, handle, rows, disk, importVars>>

\* Up to the last DELETE statement: no link row refers to the document.
BeginDelete(d) ==
    /\ ConnectionFree
    /\ d \in rows
    /\ MoveRequest(d, "ended", "deleting")
    /\ UNCHANGED <<file, handle, rows, disk, adrift, importVars>>

\* RelationService.DeleteFile removes the upload inside the transaction.
UnlinkUpload(d) ==
    /\ MoveRequest(d, "deleting", "unlinked")
    /\ disk' = disk \ {d}
    /\ UNCHANGED <<file, handle, rows, adrift, importVars>>

CommitDelete(d) ==
    /\ MoveRequest(d, "unlinked", "ended")
    /\ rows' \in RowsAfter(d, rows \ {d})
    /\ adrift' = adrift \ {d}
    /\ UNCHANGED <<file, handle, disk, importVars>>

\* A statement or the commit fails: the row is back, the upload may be gone.
FailDelete(d) ==
    /\ request[d] \in {"deleting", "unlinked"}
    /\ request' = [request EXCEPT ![d] = "ended"]
    /\ adrift' = adrift \ {d}
    /\ UNCHANGED <<file, handle, rows, disk, importVars>>

-----------------------------------------------------------------------------
(* What CreateImportBackup and CreateScheduledBackup share, under dbMu.    *)

Release ==
    /\ dbMu' = "free"
    /\ step' = "idle"

GoTo(from, to) ==
    /\ step = from
    /\ step' = to

\* ReferencedUploadFiles: the names the database holds, those found on disk.
ListUploads ==
    /\ GoTo("list", "dump")
    /\ ConnectionFree
    /\ backup' = [backup EXCEPT !.files = rows \cap disk]
    /\ UNCHANGED <<file, handle, appVars, dbMu, upload, answer>>

\* VACUUM INTO.
DumpDatabase ==
    /\ GoTo("dump", "pack")
    /\ ConnectionFree
    /\ backup' = [backup EXCEPT !.rows = rows]
    /\ UNCHANGED <<file, handle, appVars, dbMu, upload, answer>>

\* The dump alone, or a zip of it with the uploads found: all must be there.
PackBackup ==
    /\ backup.files \subseteq disk
    /\ IF dbMu = "import"
       THEN GoTo("pack", "close") /\ UNCHANGED dbMu
       ELSE step = "pack" /\ Release
    /\ UNCHANGED <<file, handle, appVars, upload, backup, answer>>

\* Mutant: the path that cancels the import leaves dbMu locked.
FailBackup_KeepsLock ==
    /\ step \in {"list", "dump", "pack"}
    /\ step' = "idle"
    /\ answer' = IF dbMu = "import" THEN "refused" ELSE answer
    /\ UNCHANGED <<file, handle, appVars, dbMu, upload, backup>>

\* The handle is closed, the import's request was cancelled, a listed upload
\* has gone, or a file could not be written.
FailBackup ==
    /\ step \in {"list", "dump", "pack"}
    /\ Release
    /\ answer' = IF dbMu = "import" THEN "refused" ELSE answer
    /\ UNCHANGED <<file, handle, appVars, upload, backup>>

StartScheduledBackup ==
    /\ dbMu = "free"
    /\ dbMu' = "schedule"
    /\ GoTo("idle", "list")
    /\ UNCHANGED <<file, handle, appVars, upload, backup, answer>>

-----------------------------------------------------------------------------
(* handleImportDatabase, from the lock on.                                 *)

\* A document whose upload request is under way is in no database or archive
\* one could import; one that is imported was uploaded before, here or in
\* another installation.
StartImport(u) ==
    /\ dbMu = "free"
    /\ \A d \in u.rows \cup u.files : 
           request[d] \notin {"checked", "stored", "saving"}
    /\ dbMu' = "import"
    /\ GoTo("idle", "list")
    /\ upload' = u
    /\ answer' = "none"
    /\ request' = [d \in Doc |->
                       IF request[d] = "fresh" /\ d \in u.rows \cup u.files
                       THEN "ended" ELSE request[d]]
    /\ UNCHANGED <<file, handle, rows, disk, adrift, backup>>

\* oldDB.Close and the removal of the -wal and -shm files.
CloseDatabase ==
    /\ GoTo("close", "probe")
    /\ handle' = "closed"
    /\ adrift' = InTransaction
    /\ UNCHANGED <<file, rows, disk, request, dbMu, upload, backup, answer>>

ProbeFree ==
    /\ GoTo("probe", "install")
    /\ UNCHANGED <<file, handle, appVars, dbMu, upload, backup, answer>>

\* Another program has the file: reopenOriginalDatabase, which may fail too.
ProbeLocked ==
    /\ step = "probe" /\ Release
    /\ handle' \in {"open", "closed"}
    /\ answer' = "busy"
    /\ UNCHANGED <<file, appVars, upload, backup>>

InstallUpload ==
    /\ GoTo("install", "open")
    /\ file' = "database"
    /\ rows' = upload.rows
    /\ UNCHANGED <<handle, disk, request, adrift, dbMu, upload, backup, answer>>

\* CopyFile truncates its target, then fails.
FailInstall ==
    /\ GoTo("install", "restore")
    /\ file' = "torn"
    /\ rows' = {}
    /\ UNCHANGED <<handle, disk, request, adrift, dbMu, upload, backup, answer>>

\* Opened, set up, its schema brought up to date, handed to the routers.
OpenInstalled ==
    /\ GoTo("open", IF upload.files = {} THEN "cleanup" ELSE "extract")
    /\ handle' = "open"
    /\ UNCHANGED <<file, appVars, dbMu, upload, backup, answer>>

FailOpen ==
    /\ GoTo("open", "restore")
    /\ UNCHANGED <<file, handle, appVars, dbMu, upload, backup, answer>>

\* Mutant: the routers are given the restored handle before it is opened.
RestoreBackup_NotifiesFirst ==
    /\ step = "restore" /\ Release
    /\ answer' = "restored"
    /\ file' = IF backup.files = {} THEN "database" ELSE "archive"
    /\ rows' = IF backup.files = {} THEN backup.rows ELSE {}
    /\ handle' = "open"
    /\ UNCHANGED <<disk, request, adrift, upload, backup>>

\* restoreImportedDatabase copies the backup over the database, also when the
\* backup is a zip, which then cannot be opened; its failures are only logged.
RestoreBackup ==
    /\ step = "restore" /\ Release
    /\ answer' = "restored"
    /\ \/ /\ backup.files = {}
          /\ file' = "database" /\ rows' = backup.rows
          /\ handle' \in {"open", "closed"}
       \/ /\ backup.files # {}
          /\ file' = "archive" /\ rows' = {} /\ UNCHANGED handle
    /\ UNCHANGED <<disk, request, adrift, upload, backup>>

\* CopyFile fails again.
FailRestore ==
    /\ step = "restore" /\ Release
    /\ answer' = "restored"
    /\ file' = "torn" /\ rows' = {}
    /\ UNCHANGED <<handle, disk, request, adrift, upload, backup>>

ExtractUploads ==
    /\ GoTo("extract", "cleanup")
    /\ disk' = disk \cup upload.files
    /\ UNCHANGED <<file, handle, rows, request, adrift, dbMu, upload, backup, answer>>

\* Answered 500; neither the extracted nor the bundled uploads are removed.
FailExtract ==
    /\ step = "extract" /\ Release
    /\ answer' = "partial"
    /\ \E done \in SUBSET upload.files : disk' = disk \cup done
    /\ UNCHANGED <<file, handle, rows, request, adrift, upload, backup>>

\* Mutants: every upload the import did not bring is removed; every upload the
\* backup holds is.
RemoveBundled_AllOthers ==
    /\ step = "cleanup" /\ Release
    /\ answer' = "imported"
    /\ disk' = disk \cap upload.files
    /\ UNCHANGED <<file, handle, rows, request, adrift, upload, backup>>

RemoveBundled_AlsoRestored ==
    /\ step = "cleanup" /\ Release
    /\ answer' = "imported"
    /\ disk' = disk \ backup.files
    /\ UNCHANGED <<file, handle, rows, request, adrift, upload, backup>>

\* removeBundledUploadFiles and the answer 200.
RemoveBundled ==
    /\ step = "cleanup" /\ Release
    /\ answer' = "imported"
    /\ disk' = disk \ (backup.files \ upload.files)
    /\ UNCHANGED <<file, handle, rows, request, adrift, upload, backup>>

-----------------------------------------------------------------------------
EndTransaction(d) ==
    /\ d \in InTransaction
    /\ CommitSave(d) \/ FailSave(d) \/ CommitDelete(d) \/ FailDelete(d)

Requests ==
    \E d \in Doc : \/ CheckTitle(d) \/ StoreUpload(d) \/ BeginSave(d)
                   \/ CommitSave(d) \/ FailSave(d)
                   \/ BeginDelete(d) \/ UnlinkUpload(d)
                   \/ CommitDelete(d) \/ FailDelete(d)

\* The steps of an import once its backup is made.
Replace ==
    \/ CloseDatabase \/ ProbeFree \/ ProbeLocked
    \/ InstallUpload \/ FailInstall \/ OpenInstalled \/ FailOpen
    \/ RestoreBackup \/ FailRestore
    \/ ExtractUploads \/ FailExtract \/ RemoveBundled

Next ==
    \/ Requests
    \/ ListUploads \/ DumpDatabase \/ PackBackup \/ FailBackup
    \/ Replace
    \/ StartScheduledBackup
    \/ \E u \in Upload : StartImport(u)

Spec == Init /\ [][Next]_vars

(***************************************************************************)
(* A transaction that has begun ends: its handler runs a few statements    *)
(* and the router's timeout cancels the rest.  The goroutine that holds    *)
(* dbMu runs on, and its backup gets the connection in the end, for the    *)
(* pool hands a freed connection to one of those that wait, at random.     *)
(* That a backup fails is assumed only where it must.                      *)
(***************************************************************************)
Fairness ==
    /\ \A d \in Doc : WF_vars(EndTransaction(d))
    /\ SF_vars(ListUploads) /\ SF_vars(DumpDatabase)
    /\ WF_vars(PackBackup) /\ WF_vars(Replace)
    /\ WF_vars(FailBackup /\ (handle = "closed" \/ step = "pack"))

FairSpec == Spec /\ Fairness

-----------------------------------------------------------------------------
\* Every variable has its range; a step is under way just when dbMu is held,
\* and steps past the backup are the import's; only a transaction is adrift.
TypeOK ==
    /\ file \in Content /\ handle \in {"open", "closed"}
    /\ rows \subseteq Doc /\ disk \subseteq Doc
    /\ request \in [Doc -> RequestState] /\ adrift \subseteq InTransaction
    /\ dbMu \in {"free", "schedule", "import"} /\ step \in Step
    /\ upload \in [rows : SUBSET Doc, files : SUBSET Doc]
    /\ backup \in [rows : SUBSET Doc, files : SUBSET Doc]
    /\ answer \in Answer
    /\ dbMu = "free" <=> step = "idle"
    /\ dbMu = "schedule" => step \in {"list", "dump", "pack"}

\* The handle that requests use is a handle on a database, whichever way an
\* import failed: never on the bytes of an archive or of half a copy.
ServesADatabase == handle = "open" => file = "database"

\* An upload whose row is still to be committed stays on disk, even when the
\* database is replaced between the two, so a document that is answered 201
\* by the new database has its upload.
PendingUploadsStay ==
    \A d \in Doc : request[d] \in {"stored", "saving"} => d \in disk

\* An upload leaves the disk only by its own delete request, or because the
\* zip that the import made before it closed the database holds it.
RemovedUploadsAreBackedUp ==
    [][\A d \in disk \ disk' :
          \/ request[d] = "deleting" /\ request'[d] = "unlinked"
          \/ dbMu = "import" /\ d \in backup.files]_vars

\* What an import restored from its archive is on disk when it answers
\* success, unless a delete removed it: the cleanup of the uploads it replaced
\* spares those of the same name.
RestoredUploadsSurvive ==
    [][answer # "imported" /\ answer' = "imported" =>
          upload.files \cap disk \subseteq disk']_vars

\* An import and a scheduled backup give dbMu back, on every error path and
\* whatever requests do: else neither would ever run again.
LockIsReleased == dbMu # "free" ~> dbMu = "free"

\* What import_database.go answers when an import fails, that the original
\* database has been restored: what lies at the path is a database.
RestoredMeansOriginal == answer = "restored" => file # "archive"
=============================================================================
