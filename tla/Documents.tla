------------------------------ MODULE Documents ------------------------------
(***************************************************************************)
(* Documents, their uploads and what refers to them.  A document is a row  *)
(* of files that names an upload in the upload directory.  Hardware,       *)
(* software, invoices and contracts, here the owners, refer to documents   *)
(* in four link tables of one shape; owner ids are distinct across them.   *)
(*                                                                         *)
(* A link row is written from both sides: saving an owner replaces the     *)
(* rows of the owner, saving a document those of the document.  An owner's *)
(* form also lists documents to clean up: those it drops and nobody else   *)
(* refers to are deleted with the owner's save (relations.go).             *)
(*                                                                         *)
(* Replacing an upload takes the old name before its transaction and       *)
(* removes that upload after it: other requests run in between (files.go). *)
(* Names end in a random id and are never used twice.                      *)
(*                                                                         *)
(* Multiplicity of link rows is left out, no code here tells it apart, and *)
(* so is whether an owner has a row, which nothing here tests.             *)
(***************************************************************************)
EXTENDS FiniteSets, Naturals

CONSTANTS
    Owner,     \* ids of hardware, software, invoices and contracts
    Doc,       \* ids the files table may ever hand out
    Upload,    \* names that uploads may ever be stored under
    NoDoc,     \* what an upload request for a new document is for
    NoUpload   \* the name of an upload that no row gives

ASSUME DocumentsAssumption ==
    NoDoc \notin Doc /\ NoUpload \notin Upload

VARIABLES
    docStatus,  \* which document ids have a row in files
    fname,      \* the upload each row names
    linked,     \* pairs (owner, document) with a row in a link table
    disk,       \* uploads in the upload directory
    request     \* the request that brought each upload

vars == <<docStatus, fname, linked, disk, request>>

Status == {"unborn", "live", "deleted"}
Step == {"fresh", "stored", "committed", "ended"}
Request ==
    [step : Step, doc : Doc \cup {NoDoc}, old : Upload \cup {NoUpload}]
NoRequest == [step |-> "fresh", doc |-> NoDoc, old |-> NoUpload]

LiveDoc == {d \in Doc : docStatus[d] = "live"}
LinkedTo(d) == {o \in Owner : <<o, d>> \in linked}
DocumentsOf(o) == {d \in Doc : <<o, d>> \in linked}

-----------------------------------------------------------------------------
Init ==
    /\ docStatus = [d \in Doc |-> "unborn"]
    /\ fname = [d \in Doc |-> NoUpload]
    /\ linked = {}
    /\ disk = {}
    /\ request = [u \in Upload |-> NoRequest]

MoveRequest(u, to) == request' = [request EXCEPT ![u].step = to]

\* The rows of document d become those of the owners in the form.
ReplaceRowsOfDocument(d, owners) ==
    linked' = (linked \ (Owner \X {d})) \cup (owners \X {d})

\* handleCreateFile up to BeginTx.
StoreNew(u) ==
    /\ request[u].step = "fresh"
    /\ MoveRequest(u, "stored")
    /\ disk' = disk \cup {u}
    /\ UNCHANGED <<docStatus, fname, linked>>

\* handleCreateFile from BeginTx: rows an owner saved for the id before it was
\* handed out give way to the form's.
CommitNew(u, d, owners) ==
    /\ request[u].step = "stored" /\ request[u].doc = NoDoc
    /\ docStatus[d] = "unborn"
    /\ docStatus' = [docStatus EXCEPT ![d] = "live"]
    /\ fname' = [fname EXCEPT ![d] = u]
    /\ ReplaceRowsOfDocument(d, owners)
    /\ MoveRequest(u, "ended")
    /\ UNCHANGED disk

\* handleUpdateFile up to BeginTx with an upload: the name it replaces is read
\* now.  Nobody sees the new upload yet, so that storing it is the same step.
\* The id may have no row.
StoreReplacement(u, d) ==
    /\ request[u].step = "fresh"
    /\ request' = [request EXCEPT ![u] =
                       [step |-> "stored", doc |-> d, old |-> fname[d]]]
    /\ disk' = disk \cup {u}
    /\ UNCHANGED <<docStatus, fname, linked>>

\* Mutants: a row is written for an id that has none; the row keeps its name,
\* as in an update without an upload.
CommitReplacement_Upserts(u, owners) ==
    LET d == request[u].doc IN
    /\ request[u].step = "stored" /\ d # NoDoc
    /\ fname' = [fname EXCEPT ![d] = u]
    /\ ReplaceRowsOfDocument(d, owners)
    /\ MoveRequest(u, IF request[u].old = NoUpload THEN "ended" ELSE "committed")
    /\ UNCHANGED <<docStatus, disk>>

CommitReplacement_KeepsName(u, owners) ==
    LET d == request[u].doc IN
    /\ request[u].step = "stored" /\ d # NoDoc
    /\ ReplaceRowsOfDocument(d, owners)
    /\ MoveRequest(u, IF request[u].old = NoUpload THEN "ended" ELSE "committed")
    /\ UNCHANGED <<docStatus, fname, disk>>

\* The transaction of handleUpdateFile.  UPDATE ... WHERE id = ? may hit no
\* row, the links are replaced all the same.
CommitReplacement(u, owners) ==
    LET d == request[u].doc IN
    /\ request[u].step = "stored" /\ d # NoDoc
    /\ fname' = [fname EXCEPT ![d] = IF docStatus[d] = "live" THEN u ELSE @]
    /\ ReplaceRowsOfDocument(d, owners)
    /\ MoveRequest(u, IF request[u].old = NoUpload THEN "ended" ELSE "committed")
    /\ UNCHANGED <<docStatus, disk>>

\* After the commit of handleUpdateFile.
RemoveReplaced(u) ==
    /\ request[u].step = "committed"
    /\ MoveRequest(u, "ended")
    /\ disk' = disk \ {request[u].old}
    /\ UNCHANGED <<docStatus, fname, linked>>

\* BeginTx, a statement or the commit fails: the stored upload stays.
FailRequest(u) ==
    /\ request[u].step = "stored"
    /\ MoveRequest(u, "ended")
    /\ UNCHANGED <<docStatus, fname, linked, disk>>

\* handleUpdateFile without an upload.
UpdateDocument(d, owners) ==
    /\ ReplaceRowsOfDocument(d, owners)
    /\ UNCHANGED <<docStatus, fname, disk, request>>

-----------------------------------------------------------------------------
\* RelationService.DeleteFile of each document of D, where rows is linked as
\* the transaction has it by then.
DeleteFiles(D, rows) ==
    /\ docStatus' = [d \in Doc |->
                        IF d \in D \cap LiveDoc THEN "deleted" ELSE docStatus[d]]
    /\ fname' = [d \in Doc |-> IF d \in D THEN NoUpload ELSE fname[d]]
    /\ linked' = rows \ (Owner \X D)
    /\ disk' = disk \ {fname[d] : d \in D}
    /\ UNCHANGED request

\* The same in a transaction that is rolled back: the rows are back, the
\* uploads are gone.
DeleteFilesInVain(D) ==
    /\ disk' = disk \ {fname[d] : d \in D}
    /\ UNCHANGED <<docStatus, fname, linked, request>>

\* handleDeleteFile: nothing refers to the document.
DeleteDocument(d) ==
    /\ LinkedTo(d) = {}
    /\ DeleteFiles({d}, linked)

FailDeleteDocument(d) ==
    /\ LinkedTo(d) = {}
    /\ DeleteFilesInVain({d})

\* The rows of owner o become those of the documents in the form.
RowsAfterSave(o, docs) == (linked \ ({o} \X Doc)) \cup ({o} \X docs)

\* Mutant: the links of others are not counted.
Unwanted_ByThisOwner(o, docs, targets) ==
    (targets \cap DocumentsOf(o)) \ docs

\* CleanupRemovedFileLinks: of the targets, what the save drops from o and no
\* row refers to any more.
Unwanted(o, docs, targets) ==
    {d \in (targets \cap DocumentsOf(o)) \ docs :
        \A p \in Owner : <<p, d>> \notin RowsAfterSave(o, docs)}

\* The Create and Update workflows of all four kinds of owners, as far as
\* documents go; a create has nothing to clean up.
SaveOwner(o, docs, targets) ==
    DeleteFiles(Unwanted(o, docs, targets), RowsAfterSave(o, docs))

\* The cleanup, the audit event or the commit fails; a cleanup that stopped half
\* way did what one with fewer targets does.
FailSaveOwner(o, docs, targets) ==
    DeleteFilesInVain(Unwanted(o, docs, targets))

\* The four Delete...References, whose documents stay without an owner.
DeleteOwner(o) ==
    /\ linked' = linked \ ({o} \X Doc)
    /\ UNCHANGED <<docStatus, fname, disk, request>>

-----------------------------------------------------------------------------
Next ==
    \/ \E u \in Upload :
          \/ StoreNew(u) \/ RemoveReplaced(u) \/ FailRequest(u)
          \/ \E d \in Doc : StoreReplacement(u, d)
          \/ \E owners \in SUBSET Owner :
                \/ \E d \in Doc : CommitNew(u, d, owners)
                \/ CommitReplacement(u, owners)
    \/ \E d \in Doc :
          \/ DeleteDocument(d) \/ FailDeleteDocument(d)
          \/ \E owners \in SUBSET Owner : UpdateDocument(d, owners)
    \/ \E o \in Owner :
          \/ DeleteOwner(o)
          \/ \E docs \in SUBSET Doc, targets \in SUBSET Doc :
                SaveOwner(o, docs, targets) \/ FailSaveOwner(o, docs, targets)

Spec == Init /\ [][Next]_vars

-----------------------------------------------------------------------------
\* Every variable has its range, a row names the upload of a request that is
\* past its commit, and an upload is on disk only if its request stored it.
TypeOK ==
    /\ docStatus \in [Doc -> Status]
    /\ fname \in [Doc -> Upload \cup {NoUpload}]
    /\ linked \subseteq Owner \X Doc
    /\ disk \subseteq Upload
    /\ request \in [Upload -> Request]
    /\ \A d \in Doc : docStatus[d] = "live" <=> fname[d] # NoUpload
    /\ \A d \in Doc : fname[d] # NoUpload =>
          request[fname[d]].step \in {"committed", "ended"}
    /\ \A u \in disk : request[u].step # "fresh"

\* The upload that a replacement is about to remove is named by no document,
\* whatever was replaced, deleted or rolled back since its name was read.
ReplacedUploadsAreUnnamed ==
    \A u \in Upload : request[u].step = "committed" =>
        \A d \in Doc : fname[d] # request[u].old

\* A document disappears, or loses its upload to a transaction that is rolled
\* back, only if at most one owner refers to it, and leaves no row behind: what
\* two owners share outlives the cleanup of either.
SharedDocumentsStay ==
    [][\A d \in LiveDoc :
          /\ docStatus'[d] = "deleted" =>
                /\ \A o, p \in LinkedTo(d) : o = p
                /\ LinkedTo(d)' = {}
          /\ fname[d] \in disk \ disk' =>
                \A o, p \in LinkedTo(d) : o = p]_vars
=============================================================================
