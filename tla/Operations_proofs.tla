--------------------------- MODULE Operations_proofs ---------------------------
(***************************************************************************)
(* Theorems about Documents, Schedule, Startup and AuditTrail, for any     *)
(* numbers of owners, documents, uploads, handlers, keys, old files and    *)
(* minutes, and about the run of MCOperations that shows them.             *)
(*                                                                         *)
(* Documents.  What makes the removal of a replaced upload safe is that a  *)
(* name is never used twice: the name a request read is that of its own    *)
(* document, or by now of none, and its commit takes it from that one too. *)
(*                                                                         *)
(* Schedule.  A backup is there, complete, before what is too old goes; a  *)
(* minute that counts as run has been tried; the tick of a calm minute     *)
(* waits, or is attended to with the plan that is stored.                  *)
(*                                                                         *)
(* Startup.  Each step of an upgrade leaves what the steps before it       *)
(* brought; a backup that counts holds the file as it is; a whole file is  *)
(* somebody's, so that backups hold nothing of nobody's.                   *)
(*                                                                         *)
(* AuditTrail.  Ids count events; an event on its way says the truth and   *)
(* is in no row yet.                                                       *)
(***************************************************************************)
EXTENDS MCOperations, TLAPS

-----------------------------------------------------------------------------
(* Documents.                                                              *)

USE DocumentsAssumption

\* Only the document of a request that has not committed may still be named as
\* that request read it.
OldNames ==
    /\ \A u \in Upload, d \in Doc :
          (request[u].old # NoUpload /\ fname[d] = request[u].old) =>
             /\ request[u].step # "committed"
             /\ request[u].doc = d
    \* Names that were read were given before.
    /\ \A u \in Upload : request[u].old # NoUpload =>
          request[request[u].old].step \in {"committed", "ended"}
    /\ \A u \in Upload :
          request[u].step = "committed" => request[u].old # NoUpload
    \* A name is given to one document.
    /\ \A d, e \in Doc : (fname[d] # NoUpload /\ fname[d] = fname[e]) => d = e

DocInv == TypeOK /\ OldNames

LEMMA InitDocInv == Init => DocInv
BY DEF Init, DocInv, TypeOK, OldNames, NoRequest, Request, Status, Step

LEMMA StoreNewKeeps ==
    ASSUME DocInv, NEW u \in Upload, StoreNew(u) PROVE DocInv'
BY DEF DocInv, TypeOK, OldNames, StoreNew, MoveRequest, Request, Step

LEMMA CommitNewKeeps ==
    ASSUME DocInv, NEW u \in Upload, NEW d \in Doc, NEW owners \in SUBSET Owner,
           CommitNew(u, d, owners)
    PROVE  DocInv'
BY DEF DocInv, TypeOK, OldNames, CommitNew, ReplaceRowsOfDocument, MoveRequest,
       Request, Step, Status

LEMMA StoreReplacementKeeps ==
    ASSUME DocInv, NEW u \in Upload, NEW d \in Doc, StoreReplacement(u, d)
    PROVE  DocInv'
BY DEF DocInv, TypeOK, OldNames, StoreReplacement, Request, Step

LEMMA CommitReplacementKeeps ==
    ASSUME DocInv, NEW u \in Upload, NEW owners \in SUBSET Owner,
           CommitReplacement(u, owners)
    PROVE  DocInv'
BY DEF DocInv, TypeOK, OldNames, CommitReplacement, ReplaceRowsOfDocument,
       MoveRequest, Request, Step

LEMMA RemoveReplacedKeeps ==
    ASSUME DocInv, NEW u \in Upload, RemoveReplaced(u) PROVE DocInv'
BY DEF DocInv, TypeOK, OldNames, RemoveReplaced, MoveRequest, Request, Step

LEMMA FailRequestKeeps ==
    ASSUME DocInv, NEW u \in Upload, FailRequest(u) PROVE DocInv'
BY DEF DocInv, TypeOK, OldNames, FailRequest, MoveRequest, Request, Step

LEMMA UpdateDocumentKeeps ==
    ASSUME DocInv, NEW d \in Doc, NEW owners \in SUBSET Owner,
           UpdateDocument(d, owners)
    PROVE  DocInv'
BY DEF DocInv, TypeOK, OldNames, UpdateDocument, ReplaceRowsOfDocument, Request

LEMMA DeleteFilesKeeps ==
    ASSUME DocInv, NEW D \in SUBSET Doc, NEW rows \in SUBSET (Owner \X Doc),
           DeleteFiles(D, rows)
    PROVE  DocInv'
BY DEF DocInv, TypeOK, OldNames, DeleteFiles, LiveDoc, Request, Step, Status

LEMMA DeleteFilesInVainKeeps ==
    ASSUME DocInv, NEW D \in SUBSET Doc, DeleteFilesInVain(D)
    PROVE  DocInv'
BY DEF DocInv, TypeOK, OldNames, DeleteFilesInVain

LEMMA DeleteOwnerKeeps ==
    ASSUME DocInv, NEW o \in Owner, DeleteOwner(o) PROVE DocInv'
BY DEF DocInv, TypeOK, OldNames, DeleteOwner

LEMMA SaveOwnerDeletes ==
    ASSUME TypeOK, NEW o \in Owner, NEW docs \in SUBSET Doc,
           NEW targets \in SUBSET Doc
    PROVE  /\ Unwanted(o, docs, targets) \in SUBSET Doc
           /\ RowsAfterSave(o, docs) \in SUBSET (Owner \X Doc)
BY DEF TypeOK, Unwanted, RowsAfterSave

LEMMA NextDocInv == DocInv /\ [Next]_vars => DocInv'
<1> SUFFICES ASSUME DocInv, [Next]_vars PROVE DocInv'
    OBVIOUS
<1> TypeOK
    BY DEF DocInv
<1>1. CASE UNCHANGED vars
    BY <1>1 DEF DocInv, TypeOK, OldNames, vars
<1>2. ASSUME NEW u \in Upload,
             \/ StoreNew(u) \/ RemoveReplaced(u) \/ FailRequest(u)
             \/ \E d \in Doc : StoreReplacement(u, d)
      PROVE  DocInv'
    BY <1>2, StoreNewKeeps, RemoveReplacedKeeps, FailRequestKeeps,
       StoreReplacementKeeps
<1>3. ASSUME NEW u \in Upload, NEW owners \in SUBSET Owner,
             \/ \E d \in Doc : CommitNew(u, d, owners)
             \/ CommitReplacement(u, owners)
      PROVE  DocInv'
    BY <1>3, CommitNewKeeps, CommitReplacementKeeps
<1>4. ASSUME NEW d \in Doc, DeleteDocument(d) \/ FailDeleteDocument(d)
      PROVE  DocInv'
    <2>1. linked \in SUBSET (Owner \X Doc) /\ {d} \in SUBSET Doc
        BY DEF TypeOK
    <2>2. CASE DeleteDocument(d)
        BY <2>1, <2>2, DeleteFilesKeeps DEF DeleteDocument
    <2>3. CASE FailDeleteDocument(d)
        BY <2>1, <2>3, DeleteFilesInVainKeeps DEF FailDeleteDocument
    <2> QED
        BY <1>4, <2>2, <2>3
<1>5. ASSUME NEW d \in Doc, NEW owners \in SUBSET Owner,
             UpdateDocument(d, owners)
      PROVE  DocInv'
    BY <1>5, UpdateDocumentKeeps
<1>6. ASSUME NEW o \in Owner, DeleteOwner(o)
      PROVE  DocInv'
    BY <1>6, DeleteOwnerKeeps
<1>7. ASSUME NEW o \in Owner, NEW docs \in SUBSET Doc,
             NEW targets \in SUBSET Doc,
             SaveOwner(o, docs, targets) \/ FailSaveOwner(o, docs, targets)
      PROVE  DocInv'
    <2>1. CASE SaveOwner(o, docs, targets)
        BY <2>1, SaveOwnerDeletes, DeleteFilesKeeps DEF SaveOwner
    <2>2. CASE FailSaveOwner(o, docs, targets)
        BY <2>2, SaveOwnerDeletes, DeleteFilesInVainKeeps DEF FailSaveOwner
    <2> QED
        BY <1>7, <2>1, <2>2
<1> QED
    BY <1>1, <1>2, <1>3, <1>4, <1>5, <1>6, <1>7 DEF Next

LEMMA DocInvHolds == Spec => []DocInv
BY InitDocInv, NextDocInv, PTL DEF Spec

\* Rows, links, uploads and requests keep their types through every create,
\* replacement, save and delete.
THEOREM TypeCorrect == Spec => []TypeOK
<1>1. DocInv => TypeOK
    BY DEF DocInv
<1> QED
    BY <1>1, DocInvHolds, PTL

\* handleUpdateFile never removes an upload that a document names, however
\* many replacements and deletes of the document overlap.
THEOREM ReplacedUploadsStayUnnamed == Spec => []ReplacedUploadsAreUnnamed
<1>1. DocInv => ReplacedUploadsAreUnnamed
    BY DEF DocInv, TypeOK, OldNames, ReplacedUploadsAreUnnamed, Request
<1> QED
    BY <1>1, DocInvHolds, PTL

\* The cleanup and the delete take only documents that nobody else refers to.
LEMMA UnwantedIsUnshared ==
    ASSUME TypeOK, NEW o \in Owner, NEW docs \in SUBSET Doc,
           NEW targets \in SUBSET Doc, NEW d \in Unwanted(o, docs, targets)
    PROVE  \A p \in LinkedTo(d) : p = o
BY DEF TypeOK, Unwanted, RowsAfterSave, DocumentsOf, LinkedTo

\* Deleting documents that at most one owner refers to, in vain or not, leaves
\* the others and their uploads alone.
LEMMA DeleteFilesSpares ==
    ASSUME DocInv, NEW D \in SUBSET Doc, NEW rows,
           \A d \in D : \A o, p \in LinkedTo(d) : o = p,
           DeleteFiles(D, rows) \/ DeleteFilesInVain(D),
           NEW d \in LiveDoc
    PROVE  /\ docStatus'[d] = "deleted" =>
                /\ \A o, p \in LinkedTo(d) : o = p
                /\ LinkedTo(d)' = {}
           /\ fname[d] \in disk \ disk' =>
                \A o, p \in LinkedTo(d) : o = p
<1>1. d \in Doc /\ docStatus[d] = "live" /\ fname[d] # NoUpload
    BY DEF LiveDoc, DocInv, TypeOK
<1>2. docStatus'[d] = "deleted" => d \in D /\ LinkedTo(d)' = {}
    BY <1>1 DEF DeleteFiles, DeleteFilesInVain, LinkedTo
<1>3. fname[d] \in disk \ disk' => d \in D
    BY <1>1 DEF DeleteFiles, DeleteFilesInVain, DocInv, OldNames
<1> QED
    BY <1>2, <1>3

LEMMA StepSparesShared ==
    ASSUME DocInv, Next, NEW d \in LiveDoc
    PROVE  /\ docStatus'[d] = "deleted" =>
                /\ \A o, p \in LinkedTo(d) : o = p
                /\ LinkedTo(d)' = {}
           /\ fname[d] \in disk \ disk' =>
                \A o, p \in LinkedTo(d) : o = p
<1> TypeOK /\ ReplacedUploadsAreUnnamed
    BY DEF DocInv, TypeOK, OldNames, ReplacedUploadsAreUnnamed, Request
<1> DEFINE Kept == docStatus'[d] # "deleted" /\ fname[d] \notin disk \ disk'
<1>0. d \in Doc /\ docStatus[d] = "live"
    BY DEF LiveDoc
<1>1. ASSUME NEW u \in Upload,
             \/ StoreNew(u) \/ FailRequest(u)
             \/ \E e \in Doc : StoreReplacement(u, e)
      PROVE  Kept
    BY <1>0, <1>1 DEF StoreNew, FailRequest, StoreReplacement
<1>2. ASSUME NEW u \in Upload, RemoveReplaced(u)
      PROVE  Kept
    BY <1>0, <1>2 DEF RemoveReplaced, ReplacedUploadsAreUnnamed
<1>3. ASSUME NEW u \in Upload, NEW owners \in SUBSET Owner,
             \/ \E e \in Doc : CommitNew(u, e, owners)
             \/ CommitReplacement(u, owners)
      PROVE  Kept
    BY <1>0, <1>3 DEF CommitNew, CommitReplacement, TypeOK
<1>4. ASSUME NEW e \in Doc, NEW owners \in SUBSET Owner,
             UpdateDocument(e, owners)
      PROVE  Kept
    BY <1>0, <1>4 DEF UpdateDocument
<1>5. ASSUME NEW o \in Owner, DeleteOwner(o)
      PROVE  Kept
    BY <1>0, <1>5 DEF DeleteOwner
<1>6. CASE \E e \in Doc : DeleteDocument(e) \/ FailDeleteDocument(e)
    <2>1. PICK e \in Doc : DeleteDocument(e) \/ FailDeleteDocument(e)
        BY <1>6
    <2>2. /\ {e} \in SUBSET Doc
          /\ \A c \in {e} : \A o, p \in LinkedTo(c) : o = p
          /\ DeleteFiles({e}, linked) \/ DeleteFilesInVain({e})
        BY <2>1 DEF DeleteDocument, FailDeleteDocument
    <2> QED
        BY <2>2, DeleteFilesSpares
<1>7. CASE \E o \in Owner, docs \in SUBSET Doc, targets \in SUBSET Doc :
              SaveOwner(o, docs, targets) \/ FailSaveOwner(o, docs, targets)
    <2>1. PICK o \in Owner, docs \in SUBSET Doc, targets \in SUBSET Doc :
              SaveOwner(o, docs, targets) \/ FailSaveOwner(o, docs, targets)
        BY <1>7
    <2> DEFINE D == Unwanted(o, docs, targets)
    <2>2. D \in SUBSET Doc
        BY SaveOwnerDeletes
    <2>3. \A c \in D : \A q, p \in LinkedTo(c) : q = p
        BY UnwantedIsUnshared
    <2>4. DeleteFiles(D, RowsAfterSave(o, docs)) \/ DeleteFilesInVain(D)
        BY <2>1 DEF SaveOwner, FailSaveOwner
    <2> HIDE DEF D
    <2> QED
        BY <2>2, <2>3, <2>4, DeleteFilesSpares
<1>8. \/ Kept
      \/ \E e \in Doc : DeleteDocument(e) \/ FailDeleteDocument(e)
      \/ \E o \in Owner, docs \in SUBSET Doc, targets \in SUBSET Doc :
              SaveOwner(o, docs, targets) \/ FailSaveOwner(o, docs, targets)
    BY <1>1, <1>2, <1>3, <1>4, <1>5 DEF Next
<1> QED
    BY <1>6, <1>7, <1>8

\* What two owners refer to outlives the cleanup of either and every delete
\* request (CleanupRemovedFileLinks, handleDeleteFile), rolled back or not.
THEOREM SharedDocumentsAreKept == Spec => SharedDocumentsStay
<1>1. DocInv /\ [Next]_vars =>
         [\A d \in LiveDoc :
            /\ docStatus'[d] = "deleted" =>
                  /\ \A o, p \in LinkedTo(d) : o = p
                  /\ LinkedTo(d)' = {}
            /\ fname[d] \in disk \ disk' =>
                  \A o, p \in LinkedTo(d) : o = p]_vars
    BY StepSparesShared
<1> QED
    BY <1>1, DocInvHolds, PTL DEF Spec, SharedDocumentsStay

HIDE DocumentsAssumption

-----------------------------------------------------------------------------
(* Schedule.                                                               *)

USE ScheduleAssumption

LEMMA Durations == \A n \in Int : n > 0 => n * DayLength \in Int /\ n * DayLength > 0
<1>1. \A x, y \in Nat \ {0} : x * y > 0
  OBVIOUS
<1> QED
  BY <1>1

LEMMA MinuteType ==
    ASSUME NEW n \in Nat
    PROVE  n \div 3 \in Nat /\ (n + 1) \div 3 \in {n \div 3, n \div 3 + 1}
OBVIOUS

LEMMA FirstPlanType == FirstPlan \in Plan
BY DEF FirstPlan, Base

SchedulerState ==
    [step : {"wait", "look", "due", "clean"}, plan : Plan, minute : MinutesSoFar]

LEMMA WaitingType ==
    ScheduleTypeOK => Minute \in Nat /\ NoMinute \in MinutesSoFar /\ Waiting \in SchedulerState
<1> SUFFICES ASSUME ScheduleTypeOK
             PROVE  Minute \in Nat /\ NoMinute \in MinutesSoFar /\ Waiting \in SchedulerState
  OBVIOUS
<1>1. Minute \in Nat
  BY MinuteType DEF ScheduleTypeOK, Minute
<1>2. NoMinute \in MinutesSoFar
  BY <1>1 DEF MinutesSoFar, NoMinute
<1> QED
  BY <1>1, <1>2, FirstPlanType DEF Waiting, SchedulerState

LEMMA InitScheduleType == ScheduleInit => ScheduleTypeOK
<1> SUFFICES ASSUME ScheduleInit PROVE ScheduleTypeOK
  OBVIOUS
<1>1. Minute = 0
  BY DEF ScheduleInit, Minute
<1>2. NoMinute \in MinutesSoFar
  BY <1>1 DEF MinutesSoFar, NoMinute
<1> QED
  <2>1. IdleSaver \in [form : SUBSET BaseForm, row : SUBSET Base]
    BY DEF IdleSaver
  <2>2. Waiting \in [step : {"wait", "look", "due", "clean"}, plan : Plan, minute : MinutesSoFar]
    BY <1>2, FirstPlanType DEF Waiting
  <2>3. saving \in [Saver -> [form : SUBSET BaseForm, row : SUBSET Base]]
    BY <2>1 DEF ScheduleInit
  <2>4. base \in Base /\ third \in 0..MaxThird
    BY DEF ScheduleInit
  <2> QED
    BY <1>2, <2>2, <2>3, <2>4 DEF ScheduleInit, ScheduleTypeOK

LEMMA MinutesGrow ==
    ASSUME ScheduleTypeOK
    PROVE  /\ third' = third + 1 => MinutesSoFar \subseteq MinutesSoFar'
           /\ third' = third => MinutesSoFar' = MinutesSoFar
<1>1. third \in Nat
  BY DEF ScheduleTypeOK
<1>2. third' = third + 1 => Minute \in Nat /\ Minute' \in {Minute, Minute + 1}
  BY <1>1, MinuteType DEF Minute
<1>3. third' = third => Minute' = Minute
  BY DEF Minute
<1> QED
  BY <1>2, <1>3 DEF MinutesSoFar, NoMinute

LEMMA MergedType ==
    ASSUME NEW row \in Base, NEW form \in BaseForm, form.section # "none"
    PROVE  [Merged(row, form) EXCEPT !.plan = NormalPlan(@)] \in Base
<1>1. form.section \in {"all", "brand", "security", "plan"} /\ form.base \in Base
  BY DEF Sections
<1>2. Merged(row, form) \in Base
  BY <1>1 DEF Merged, Base
<1>3. NormalPlan(Merged(row, form).plan) \in Plan
  BY <1>2, FirstPlanType DEF NormalPlan, Plan, Base
<1> QED
  BY <1>2, <1>3 DEF Base

LEMMA ScheduledType ==
    ASSUME ScheduleTypeOK
    PROVE  /\ \A w \in BOOLEAN :
                Scheduled(w) \in [kind : {"scheduled", "import"}, at : MinutesSoFar, whole : BOOLEAN]
           /\ Scheduled(TRUE) \in [kind : {"scheduled", "import"}, at : MinutesSoFar, whole : {TRUE}]
BY DEF ScheduleTypeOK, Scheduled

\* Times are integers.
LEMMA TimesAreIntegers ==
    ASSUME ScheduleTypeOK
    PROVE  /\ MinutesSoFar \subseteq Int
           /\ scheduler.minute \in Int /\ scheduler.plan.days \in Int
           /\ \A b \in backups \cup made : b.at \in Int
<1>1. MinutesSoFar \subseteq Int
  BY WaitingType DEF MinutesSoFar, NoMinute
<1> QED
  BY <1>1 DEF ScheduleTypeOK, Plan

LEMMA StepScheduleType ==
    ASSUME ScheduleTypeOK, [ScheduleNext]_scheduleVars PROVE ScheduleTypeOK'
<1>0. /\ third' = third => MinutesSoFar' = MinutesSoFar
      /\ Minute \in MinutesSoFar /\ NoMinute \in MinutesSoFar /\ Waiting \in SchedulerState
  BY MinutesGrow, WaitingType DEF MinutesSoFar, NoMinute
<1> USE DEF ScheduleTypeOK
<1>1. ASSUME NEW p \in Saver, NEW form \in BaseForm, ReadBase(p, form) PROVE ScheduleTypeOK'
  <2>1. PICK row \in {base, FirstBase} :
           saving' = [saving EXCEPT ![p] = [form |-> {form}, row |-> {row}]]
    BY <1>1 DEF ReadBase
  <2>2. [form |-> {form}, row |-> {row}] \in [form : SUBSET BaseForm, row : SUBSET Base]
    OBVIOUS
  <2>3. saving' \in [Saver -> [form : SUBSET BaseForm, row : SUBSET Base]]
    BY <2>1, <2>2
  <2> QED
    BY <1>0, <1>1, <2>3 DEF ReadBase, clockVars
<1>2. ASSUME NEW p \in Saver, StoreBase(p) PROVE ScheduleTypeOK'
  <2>1. base' \in Base
    <3>1. PICK form \in saving[p].form, row \in saving[p].row :
             /\ form.section # "none"
             /\ base' = [Merged(row, form) EXCEPT !.plan = NormalPlan(@)]
      BY <1>2 DEF StoreBase
    <3>2. form \in BaseForm /\ row \in Base
      OBVIOUS
    <3> QED
      BY <3>1, <3>2, MergedType
  <2>2. saving' \in [Saver -> [form : SUBSET BaseForm, row : SUBSET Base]] /\ calm' \in BOOLEAN
    BY <1>2 DEF StoreBase, IdleSaver
  <2>3. UNCHANGED <<importing, clockVars>>
    BY <1>2 DEF StoreBase
  <2> QED
    BY <1>0, <2>1, <2>2, <2>3 DEF clockVars
<1>3. ASSUME NEW p \in Saver, SaveBaseFails(p) PROVE ScheduleTypeOK'
  BY <1>0, <1>3 DEF SaveBaseFails, IdleSaver, clockVars
<1>4. CASE PassThird
  <2>1. MinutesSoFar \subseteq MinutesSoFar'
    BY <1>4, MinutesGrow DEF PassThird
  <2>2. third' \in 0..MaxThird /\ calm' \in BOOLEAN /\ tick' \in BOOLEAN
    BY <1>4 DEF PassThird, At
  <2> QED
    BY <1>4, <2>1, <2>2 DEF PassThird
<1>5. CASE ReadPlan
  BY <1>0, <1>5 DEF ReadPlan, Base
<1>6. CASE ReadPlanFails
  BY <1>0, <1>6, FirstPlanType DEF ReadPlanFails
<1>7. CASE NothingDue
  BY <1>0, <1>7 DEF NothingDue, SchedulerState
<1>8. CASE DueNow
  BY <1>0, <1>8 DEF DueNow
<1>9. CASE BackUpNow
  BY <1>0, <1>9, ScheduledType DEF BackUpNow
<1>10. CASE BackUpFails
  BY <1>0, <1>10, ScheduledType DEF BackUpFails, SchedulerState
<1>11. CASE CleanUp
  BY <1>0, <1>11 DEF CleanUp, SchedulerState
<1>12. CASE BeginImport
  <2> DEFINE b == [kind |-> "import", at |-> Minute, whole |-> TRUE]
  <2>1. /\ b \in [kind : {"scheduled", "import"}, at : MinutesSoFar, whole : BOOLEAN]
        /\ b \in [kind : {"scheduled", "import"}, at : MinutesSoFar, whole : {TRUE}]
    BY <1>0
  <2>2. backups' = backups \cup {b} /\ made' = made \cup {b} /\ importing' = TRUE
    BY <1>12 DEF BeginImport
  <2> HIDE DEF b
  <2> QED
    BY <1>0, <1>12, <2>1, <2>2 DEF BeginImport
<1>13. CASE EndImport
  <2>1. base' \in Base /\ calm' \in BOOLEAN
    BY <1>13, FirstPlanType DEF EndImport, Base
  <2> QED
    BY <1>0, <1>13, <2>1 DEF EndImport
<1>14. CASE UNCHANGED scheduleVars
  BY <1>0, <1>14 DEF scheduleVars
<1> QED
  BY <1>1, <1>2, <1>3, <1>4, <1>5, <1>6, <1>7, <1>8, <1>9, <1>10, <1>11, <1>12, <1>13, <1>14
     DEF ScheduleNext

\* Plans that are merged, read anew and replaced by defaults stay plans, and backups and
\* minutes run are never of a minute to come (handleSettingsBase, StartBackupScheduler).
THEOREM ScheduleTypeCorrect == ScheduleSpec => []ScheduleTypeOK
<1>1. ScheduleTypeOK /\ [ScheduleNext]_scheduleVars => ScheduleTypeOK'
  BY StepScheduleType
<1> QED
  BY InitScheduleType, <1>1, PTL DEF ScheduleSpec

-----------------------------------------------------------------------------
\* Before what is too old goes, there is the backup just made.
OneJustMade == At("clean") => Scheduled(TRUE) \in backups \cap made

BackupsInv == ScheduleTypeOK /\ OneJustMade /\ BackupsKept

LEMMA StepBackups ==
    ASSUME BackupsInv, [ScheduleNext]_scheduleVars PROVE OneJustMade' /\ BackupsKept'
<1> USE DEF BackupsInv
<1>1. ASSUME UNCHANGED <<scheduler, backups, made>> PROVE OneJustMade' /\ BackupsKept'
  BY <1>1 DEF OneJustMade, BackupsKept, At, Scheduled
<1>2. ASSUME UNCHANGED <<backups, made>>, scheduler'.step # "clean"
      PROVE  OneJustMade' /\ BackupsKept'
  BY <1>2 DEF OneJustMade, BackupsKept, At
<1>3. CASE BackUpNow
  BY <1>3 DEF BackUpNow, OneJustMade, BackupsKept, At, Scheduled, ScheduleTypeOK
<1>4. CASE BackUpFails
  BY <1>4 DEF BackUpFails, OneJustMade, BackupsKept, At, Waiting
<1>5. CASE CleanUp
  <2> DEFINE last == Scheduled(TRUE)
             gone == {b \in backups : Expired(b, scheduler.plan, scheduler.minute)}
  <2>1. /\ last \in backups \cap made
        /\ last.at = scheduler.minute /\ last.kind = "scheduled" /\ last.at \in Int
    BY <1>5, TimesAreIntegers DEF CleanUp, OneJustMade, Scheduled
  <2>2. ASSUME NEW b \in gone PROVE b.kind = "scheduled" /\ b.at < last.at
    <3>1. scheduler.plan.days > 0 /\ b.at < scheduler.minute - scheduler.plan.days * DayLength
      BY <2>2 DEF Expired
    <3>2. PICK x \in Int : x > 0 /\ b.at < scheduler.minute - x
      BY <3>1, Durations, TimesAreIntegers
    <3>3. b.at \in Int /\ b.kind = "scheduled"
      BY <2>2, TimesAreIntegers DEF Expired
    <3>4. b.at < scheduler.minute
      BY <3>2, <3>3, TimesAreIntegers
    <3> QED
      BY <2>1, <3>3, <3>4
  <2>3. \A b \in backups : b \notin backups' => b \in gone
    BY <1>5 DEF CleanUp
  <2>4. backups' \subseteq backups /\ made' = made
    BY <1>5 DEF CleanUp
  <2> HIDE DEF last, gone
  <2>5. last \in backups'
    BY <2>1, <2>2, <2>3
  <2>6. ASSUME NEW b \in made, b \notin backups'
        PROVE  b.kind = "scheduled" /\ \E c \in backups' \cap made : c.kind = b.kind /\ c.at > b.at
    <3>0. b.at \in Int
      BY TimesAreIntegers
    <3>1. CASE b \in backups
      BY <2>1, <2>2, <2>3, <2>5, <2>6, <3>0, <3>1
    <3>2. CASE b \notin backups
      <4>1. PICK c \in backups \cap made : b.kind = "scheduled" /\ c.kind = b.kind /\ c.at > b.at
        BY <3>2 DEF BackupsKept
      <4>2. c \notin backups' => c.at < last.at
        BY <2>2, <2>3, <4>1
      <4>3. c.at \in Int
        BY <4>1, TimesAreIntegers
      <4> QED
        BY <2>1, <2>5, <3>0, <4>1, <4>2, <4>3
    <3> QED
      BY <3>1, <3>2
  <2>7. scheduler'.step # "clean"
    BY <1>5 DEF CleanUp, Waiting
  <2> QED
    BY <2>4, <2>6, <2>7 DEF OneJustMade, BackupsKept, At
<1>6. CASE BeginImport
  BY <1>6 DEF BeginImport, OneJustMade, BackupsKept, At, Scheduled
<1>7. CASE UNCHANGED scheduleVars
  BY <1>1, <1>7 DEF scheduleVars
<1>8. ASSUME NEW p \in Saver,
             (\E form \in BaseForm : ReadBase(p, form)) \/ StoreBase(p) \/ SaveBaseFails(p)
      PROVE  OneJustMade' /\ BackupsKept'
  BY <1>1, <1>8 DEF ReadBase, StoreBase, SaveBaseFails, clockVars
<1>9. CASE PassThird \/ EndImport
  BY <1>1, <1>9 DEF PassThird, EndImport
<1>10. CASE ReadPlan \/ ReadPlanFails \/ NothingDue
  BY <1>2, <1>10 DEF ReadPlan, ReadPlanFails, NothingDue, Waiting
<1>11. CASE DueNow
  <2>1. scheduler'.step = "due"
    BY <1>11 DEF DueNow, ScheduleTypeOK
  <2> QED
    BY <1>2, <1>11, <2>1 DEF DueNow
<1> QED
  BY <1>3, <1>4, <1>5, <1>6, <1>7, <1>8, <1>9, <1>10, <1>11 DEF ScheduleNext

\* Scheduled backups that fail half-way, backups that an import makes at any time, and the
\* deletion of old ones by a plan that may have changed (CreateScheduledBackup,
\* CleanupExpiredScheduledBackups): what is deleted is a scheduled one, and a later complete one
\* is there.
THEOREM BackupsAreKept == ScheduleSpec => []BackupsKept
<1>1. ScheduleInit => BackupsInv
  BY InitScheduleType DEF BackupsInv, OneJustMade, BackupsKept, At, ScheduleInit, Waiting
<1>2. BackupsInv /\ [ScheduleNext]_scheduleVars => BackupsInv'
  BY StepScheduleType, StepBackups DEF BackupsInv
<1>3. BackupsInv => BackupsKept
  BY DEF BackupsInv
<1> QED
  BY <1>1, <1>2, <1>3, PTL DEF ScheduleSpec

-----------------------------------------------------------------------------
\* A minute that counts as run has been tried, unless its backup is about to be.
LastTried == IF At("due") THEN scheduler.minute = lastRun ELSE tried = lastRun

\* In a calm minute with a tick, the tick waits, or is being looked at with the plan as
\* it is stored, or has been attended to.
TickAttended ==
    calm /\ third > 0 =>
        \/ At("wait") /\ tick
        \/ At("look") /\ scheduler.plan = base.plan
        \/ At("due") /\ lastRun = Minute
        \/ At("clean") /\ tried = Minute
        \/ /\ At("wait")
           /\ base.plan.on /\ CronMatches(base.plan.cron, Minute) => tried = Minute

TicksInv == ScheduleTypeOK /\ LastTried /\ TickAttended

LEMMA StepTicks ==
    ASSUME TicksInv, [ScheduleNext]_scheduleVars PROVE LastTried' /\ TickAttended'
<1>0. third' = third => Minute' = Minute
  BY DEF Minute
<1> USE DEF TicksInv, LastTried, TickAttended, At
<1>1. ASSUME UNCHANGED clockVars, base'.plan = base.plan \/ ~calm', calm' => calm
      PROVE  LastTried' /\ TickAttended'
  BY <1>0, <1>1 DEF clockVars
<1>2. ASSUME NEW p \in Saver, NEW form \in BaseForm, ReadBase(p, form)
      PROVE  LastTried' /\ TickAttended'
  BY <1>1, <1>2 DEF ReadBase
<1>3. ASSUME NEW p \in Saver, StoreBase(p) PROVE LastTried' /\ TickAttended'
  BY <1>1, <1>3 DEF StoreBase
<1>4. ASSUME NEW p \in Saver, SaveBaseFails(p) PROVE LastTried' /\ TickAttended'
  BY <1>1, <1>4 DEF SaveBaseFails
<1>5. CASE PassThird
  BY <1>5 DEF PassThird
<1>6. CASE ReadPlan
  BY <1>0, <1>6 DEF ReadPlan
<1>7. CASE ReadPlanFails
  BY <1>7 DEF ReadPlanFails
<1>8. CASE NothingDue
  BY <1>0, <1>8 DEF NothingDue, Waiting, Repeated
<1>9. CASE DueNow
  <2>1. scheduler'.step = "due" /\ scheduler'.minute = Minute
    BY <1>9 DEF DueNow, ScheduleTypeOK
  <2> QED
    BY <1>0, <1>9, <2>1 DEF DueNow
<1>10. CASE BackUpNow
  <2>1. scheduler'.step = "clean"
    BY <1>10 DEF BackUpNow, ScheduleTypeOK
  <2> QED
    BY <1>0, <1>10, <2>1 DEF BackUpNow
<1>11. CASE BackUpFails
  BY <1>0, <1>11 DEF BackUpFails, Waiting
<1>12. CASE CleanUp
  BY <1>0, <1>12 DEF CleanUp, Waiting
<1>13. CASE BeginImport
  BY <1>0, <1>13 DEF BeginImport
<1>14. CASE EndImport
  BY <1>0, <1>14 DEF EndImport
<1>15. CASE UNCHANGED scheduleVars
  BY <1>0, <1>15 DEF scheduleVars
<1> QED
  BY <1>2, <1>3, <1>4, <1>5, <1>6, <1>7, <1>8, <1>9, <1>10, <1>11, <1>12, <1>13, <1>14, <1>15
     DEF ScheduleNext

\* The ticker of thirds of a minute, the plan read anew at each tick and the minute that was
\* run last (StartBackupScheduler, CronMatches): no minute
\* of the plan goes by untried, unless an import or a save of the plan was in between.
THEOREM DueMinutesAreTried == ScheduleSpec => DueMinutesTried
<1>1. ScheduleInit => TicksInv
  BY InitScheduleType DEF TicksInv, LastTried, TickAttended, At, ScheduleInit, Waiting
<1>2. TicksInv /\ [ScheduleNext]_scheduleVars => TicksInv'
  BY StepScheduleType, StepTicks DEF TicksInv
<1>3. ASSUME TicksInv, [ScheduleNext]_scheduleVars
      PROVE  [Minute' # Minute /\ calm /\ At("wait") /\ ~tick /\ base.plan.on
                 /\ CronMatches(base.plan.cron, Minute) => tried = Minute]_scheduleVars
  <2>1. Minute' # Minute => third > 0
    <3>1. third' # third => third' = third + 1
      BY <1>3 DEF ScheduleNext, ReadBase, StoreBase, SaveBaseFails, PassThird, ReadPlan,
           ReadPlanFails, NothingDue, DueNow, BackUpNow, BackUpFails, CleanUp, BeginImport,
           EndImport, scheduleVars, clockVars
    <3>2. third \in Nat
      BY <1>3 DEF TicksInv, ScheduleTypeOK
    <3>3. 0 \div 3 = 1 \div 3
      OBVIOUS
    <3> QED
      BY <3>1, <3>2, <3>3 DEF Minute
  <2> QED
    BY <1>3, <2>1 DEF TicksInv, TickAttended, At
<1> QED
  BY <1>1, <1>2, <1>3, PTL DEF ScheduleSpec, DueMinutesTried

HIDE ScheduleAssumption

-----------------------------------------------------------------------------
(* Startup.                                                                *)

USE StartupAssumption

\* What the proofs need of the types.
FilesOK ==
    /\ dbFile \in DataFile /\ before \in DataFile
    /\ configured \in SigningKey \cup {NoSigningKey} /\ runtime \in SigningKey \cup {NoSigningKey}
    /\ why \in {"start", "import", "restore"} /\ stage \in Stages

LEMMA FreshType == /\ \A s \in {"absent", "empty", "torn"} : Blank(s) \in DataFile
                   /\ Fresh \in DataFile
<1>1. \A s \in {"absent", "empty", "whole", "torn"} : Blank(s) \in DataFile
  BY DEF Blank, DataFile
<1>2. {"color", "labelskip"} \cup AuditColumn \in SUBSET (Brought \cup Dropped)
  BY DEF Brought
<1> QED
  BY <1>1, <1>2 DEF Fresh, DataFile

LEMMA WithType ==
    ASSUME dbFile \in DataFile, NEW x \in SUBSET Brought PROVE With(x) \in DataFile
BY DEF With, DataFile

LEMMA StepFiles == ASSUME FilesOK, [StartupNext]_startupVars PROVE FilesOK'
<1> USE FreshType, WithType DEF FilesOK, Writes, Steps
<1>1. CASE Boot
  BY <1>1 DEF Boot, Stages, Upgrading
<1>2. CASE Stop
  BY <1>2 DEF Stop, GoesDown, Stages, Upgrading
<1>3. CASE StatFile
  BY <1>3 DEF StatFile, Stages, Upgrading
<1>4. CASE MakeTables
  BY <1>4 DEF MakeTables, Stages, Upgrading
<1>5. CASE BackUpBeforeAlter
  BY <1>5 DEF BackUpBeforeAlter
<1>6. CASE BackUpCutShort
  BY <1>6 DEF BackUpCutShort, GoesDown, Stages, Upgrading
<1>7. CASE AddColor
  BY <1>7 DEF AddColor, Alter, Brought, Stages, Upgrading
<1>8. CASE AddLabelSkip
  BY <1>8 DEF AddLabelSkip, Alter, Brought, Stages, Upgrading
<1>9. CASE DropEntryDate
  <2>1. [dbFile EXCEPT !.has = @ \ {"entrydate"}] \in DataFile
    BY DEF DataFile
  <2> QED
    BY <1>9, <2>1 DEF DropEntryDate, Alter, Stages, Upgrading
<1>10. CASE AddAuditColumn
  BY <1>10 DEF AddAuditColumn, Brought, Stages, Upgrading
<1>11. CASE AuditColumnsThere
  BY <1>11 DEF AuditColumnsThere, Stages, Upgrading
<1>12. CASE RebuildSettings
  <2>1. [dbFile EXCEPT !.settings = "current"] \in DataFile
    BY DEF DataFile
  <2> QED
    BY <1>12, <2>1 DEF RebuildSettings, Alter, Stages, Upgrading
<1>13. CASE CreateSettings
  <2>1. dbFile' \in DataFile
    BY <1>13 DEF CreateSettings, DataFile
  <2> QED
    BY <1>13, <2>1 DEF CreateSettings, Stages, Upgrading
<1>14. CASE InsertSettingsRow
  <2>1. dbFile' \in DataFile
    BY <1>14 DEF InsertSettingsRow, DataFile
  <2> QED
    BY <1>14, <2>1 DEF InsertSettingsRow, Stages, Upgrading
<1>15. CASE AddSentAt
  BY <1>15 DEF AddSentAt, Alter, Brought, Stages, Upgrading
<1>16. CASE CreateTables
  <2>1. dbFile' \in DataFile
    BY <1>16 DEF CreateTables, Brought
  <2> QED
    BY <1>16, <2>1 DEF CreateTables, Stages, Upgrading
<1>17. CASE SeedRows
  BY <1>17 DEF SeedRows, Brought, Stages, Upgrading
<1>18. CASE BackfillProfiles
  BY <1>18 DEF BackfillProfiles, Brought, Stages, Upgrading
<1>19. CASE AddLastLogin
  BY <1>19 DEF AddLastLogin, AfterUpgrade, Alter, Brought, Stages, Upgrading
<1>20. CASE ResolveKey
  <2>1. dbFile' \in DataFile /\ runtime' \in SigningKey \cup {NoSigningKey}
    BY <1>20 DEF ResolveKey, DataFile
  <2> QED
    BY <1>20, <2>1 DEF ResolveKey, Stages
<1>21. CASE EncryptSecret
  <2>1. Encrypted(dbFile.secret) \in BindSecret \cup {NoBind}
    BY DEF Encrypted, DataFile, BindSecret
  <2>2. dbFile' \in DataFile
    BY <1>21, <2>1 DEF EncryptSecret, DataFile
  <2> QED
    BY <1>21, <2>2 DEF EncryptSecret, Stages
<1>22. ASSUME NEW f \in OldFile, Install(f) PROVE FilesOK'
  BY <1>22 DEF Install, Stages, Upgrading
<1>23. CASE InstallCutShort
  BY <1>23 DEF InstallCutShort, GoesDown, Stages, Upgrading
<1>24. CASE RestoreBefore
  BY <1>24 DEF RestoreBefore, Stages, Upgrading
<1>25. ASSUME NEW ok \in BOOLEAN, SyncKey(ok) PROVE FilesOK'
  <2>1. dbFile' \in DataFile
    BY <1>25 DEF SyncKey, DataFile
  <2> QED
    BY <1>25, <2>1 DEF SyncKey, Stages
<1>26. CASE NextSecond
  BY <1>26 DEF NextSecond
<1>27. CASE UNCHANGED startupVars
  BY <1>27 DEF startupVars
<1> QED
  BY <1>1, <1>2, <1>3, <1>4, <1>5, <1>6, <1>7, <1>8, <1>9, <1>10, <1>11, <1>12, <1>13, <1>14,
     <1>15, <1>16, <1>17, <1>18, <1>19, <1>20, <1>21, <1>22, <1>23, <1>24, <1>25, <1>26, <1>27
     DEF StartupNext

\* A whole file is somebody's database, and what backups hold comes from one.
Owned(d) == d.state = "whole" => d.origin \in Origin
Holding == Origin \X {"rows", "settings", "entrydate"}
StartupRanges ==
    /\ Owned(dbFile) /\ Owned(before)
    /\ saved \subseteq Holding /\ held \subseteq Holding
    /\ fresh \subseteq Upgrading /\ copied \in BOOLEAN /\ synced \in BOOLEAN

LEMMA HoldingsType == ASSUME NEW d, Owned(d) PROVE Holdings(d) \subseteq Holding
BY DEF Owned, Holdings, Holding, Dropped

LEMMA OwnedFiles ==
    /\ \A s \in {"absent", "empty", "torn"} : Owned(Blank(s))
    /\ Owned(Fresh) /\ \A f \in OldFile : Owned(f)
BY DEF Owned, Blank, Fresh

\* A step that writes a file of the same database, or of one that has its owner.
LEMMA StepsOwned ==
    ASSUME StartupRanges, NEW d, Owned(d), Writes(d), saved' \subseteq Holding,
           fresh' \subseteq Upgrading, copied' \in BOOLEAN, synced' \in BOOLEAN, Owned(before)'
    PROVE  StartupRanges'
<1>1. Owned(dbFile)'
  BY DEF Writes, Owned
<1>2. held' \subseteq Holding
  BY HoldingsType DEF Writes, StartupRanges
<1> QED
  BY <1>1, <1>2 DEF StartupRanges

LEMMA UpgradeOwned ==
    ASSUME StartupRanges, NEW from, NEW to, Steps(from, to), NEW d, Owned(d), Writes(d),
           synced' \in BOOLEAN
    PROVE  StartupRanges'
<1>1. saved' = saved /\ fresh' = fresh /\ copied' \in BOOLEAN /\ Owned(before)'
  BY DEF Steps, StartupRanges, Owned
<1> QED
  BY <1>1, StepsOwned DEF StartupRanges

LEMMA AlterOwned ==
    ASSUME StartupRanges, NEW from, NEW to, NEW d, Owned(d), Alter(from, to, d)
    PROVE  StartupRanges'
BY UpgradeOwned DEF Alter, StartupRanges

LEMMA SameOwner ==
    ASSUME FilesOK, StartupRanges
    PROVE  /\ \A x : Owned(With(x))
           /\ \A x : Owned([dbFile EXCEPT !.has = x])
           /\ \A x : Owned([dbFile EXCEPT !.settings = x])
           /\ \A x : Owned([dbFile EXCEPT !.row = x])
           /\ \A x : Owned([dbFile EXCEPT !.secret = x])
           /\ \A x : Owned([dbFile EXCEPT !.key = x])
BY DEF FilesOK, DataFile, StartupRanges, Owned, With

LEMMA StepRanges ==
    ASSUME FilesOK, StartupRanges, [StartupNext]_startupVars
    PROVE  StartupRanges'
<1> USE OwnedFiles, SameOwner
<1>0. Owned(dbFile) /\ Owned(before) /\ synced \in BOOLEAN
  BY DEF StartupRanges
<1>1. CASE Boot
  BY <1>1 DEF Boot, StartupRanges, Owned
<1>2. CASE Stop
  BY <1>2 DEF Stop, GoesDown, StartupRanges, Owned
<1>3. CASE StatFile
  BY <1>0, <1>3, UpgradeOwned DEF StatFile
<1>4. CASE MakeTables
  BY <1>0, <1>4, UpgradeOwned DEF MakeTables
<1>5. CASE BackUpBeforeAlter
  <2>1. stage \in Upgrading
    BY <1>5 DEF BackUpBeforeAlter, ToAlter, Upgrading
  <2>2. Holdings(dbFile) \subseteq Holding
    BY <1>0, HoldingsType
  <2> QED
    BY <1>5, <2>1, <2>2 DEF BackUpBeforeAlter, StartupRanges, Owned
<1>6. CASE BackUpCutShort
  <2>1. stage \in Upgrading
    BY <1>6 DEF BackUpCutShort, ToAlter, Upgrading
  <2> QED
    BY <1>6, <2>1 DEF BackUpCutShort, GoesDown, StartupRanges, Owned
<1>7. CASE AddColor
  BY <1>7, AlterOwned DEF AddColor
<1>8. CASE AddLabelSkip
  BY <1>8, AlterOwned DEF AddLabelSkip
<1>9. CASE DropEntryDate
  BY <1>9, AlterOwned DEF DropEntryDate
<1>10. CASE AddAuditColumn
  BY <1>0, <1>10, UpgradeOwned DEF AddAuditColumn
<1>11. CASE AuditColumnsThere
  BY <1>0, <1>11, UpgradeOwned DEF AuditColumnsThere
<1>12. CASE RebuildSettings
  BY <1>12, AlterOwned DEF RebuildSettings
<1>13. CASE CreateSettings
  BY <1>0, <1>13, UpgradeOwned DEF CreateSettings
<1>14. CASE InsertSettingsRow
  BY <1>0, <1>14, UpgradeOwned DEF InsertSettingsRow
<1>15. CASE AddSentAt
  BY <1>15, AlterOwned DEF AddSentAt
<1>16. CASE CreateTables
  BY <1>0, <1>16, UpgradeOwned DEF CreateTables
<1>17. CASE SeedRows
  BY <1>0, <1>17, UpgradeOwned DEF SeedRows
<1>18. CASE BackfillProfiles
  BY <1>0, <1>18, UpgradeOwned DEF BackfillProfiles
<1>19. CASE AddLastLogin
  BY <1>19, AlterOwned DEF AddLastLogin
<1>20. CASE ResolveKey
  BY <1>0, <1>20, UpgradeOwned DEF ResolveKey
<1>21. CASE EncryptSecret
  BY <1>0, <1>21, UpgradeOwned DEF EncryptSecret
<1>22. ASSUME NEW f \in OldFile, Install(f) PROVE StartupRanges'
  <2>1. saved' \subseteq Holding
    BY <1>0, <1>22, HoldingsType DEF Install, StartupRanges
  <2>2. Owned(before)' /\ fresh' = fresh /\ copied' = copied /\ synced' = synced
    BY <1>0, <1>22 DEF Install, Owned
  <2> QED
    BY <1>22, <2>1, <2>2, StepsOwned DEF Install, StartupRanges
<1>23. CASE InstallCutShort
  <2>1. saved' \subseteq Holding
    BY <1>0, <1>23, HoldingsType DEF InstallCutShort, StartupRanges
  <2>2. Owned(before)' /\ fresh' = fresh /\ copied' \in BOOLEAN /\ synced' \in BOOLEAN
    BY <1>23 DEF InstallCutShort, GoesDown, Owned
  <2> QED
    BY <1>23, <2>1, <2>2, StepsOwned DEF InstallCutShort, StartupRanges
<1>24. CASE RestoreBefore
  <2>1. saved' = saved /\ fresh' = fresh /\ copied' \in BOOLEAN /\ synced' = synced
        /\ Owned(before)'
    BY <1>0, <1>24 DEF RestoreBefore, Owned
  <2> QED
    BY <1>0, <1>24, <2>1, StepsOwned DEF RestoreBefore, StartupRanges
<1>25. ASSUME NEW ok \in BOOLEAN, SyncKey(ok) PROVE StartupRanges'
  BY <1>0, <1>25, UpgradeOwned DEF SyncKey
<1>26. CASE NextSecond
  BY <1>26 DEF NextSecond, StartupRanges, Owned
<1>27. CASE UNCHANGED startupVars
  BY <1>27 DEF startupVars, StartupRanges, Owned
<1> QED
  BY <1>1, <1>2, <1>3, <1>4, <1>5, <1>6, <1>7, <1>8, <1>9, <1>10, <1>11, <1>12, <1>13, <1>14,
     <1>15, <1>16, <1>17, <1>18, <1>19, <1>20, <1>21, <1>22, <1>23, <1>24, <1>25, <1>26, <1>27
     DEF StartupNext

StartupInv == FilesOK /\ StartupRanges

LEMMA FirstRanges == StartupInit => StartupInv
<1> SUFFICES ASSUME StartupInit PROVE FilesOK /\ StartupRanges
  BY DEF StartupInv
<1>1. FilesOK
  BY FreshType DEF StartupInit, FilesOK, Stages
<1>2. Owned(dbFile) /\ Owned(before)
  BY OwnedFiles DEF StartupInit
<1> QED
  BY <1>1, <1>2, HoldingsType DEF StartupInit, StartupRanges

LEMMA StepStartup == StartupInv /\ [StartupNext]_startupVars => StartupInv'
BY StepFiles, StepRanges DEF StartupInv

LEMMA StartupInvTypes == StartupInv => StartupTypeOK
BY DEF StartupInv, FilesOK, StartupRanges, Holding, StartupTypeOK

\* The file, what an import put aside, what backups hold and the next step, after any number
\* of starts, crashes, imports and reversals (EnsureRuntimeSchema and its callers).
THEOREM StartupTypeCorrect == StartupSpec => []StartupTypeOK
BY FirstRanges, StepStartup, StartupInvTypes, PTL DEF StartupSpec

\* NothingLost with what it rests on: a backup that counts holds the file; while an
\* import or its reversal is under way everything is in backups; tables are made only in
\* a file without any.
SafeToAlter ==
    /\ copied => Holdings(dbFile) \subseteq saved
    /\ why # "start" /\ stage # "serving" => held \subseteq saved
    /\ stage = "make" => dbFile.state # "whole"
    /\ stage = "serving" => ~copied
    /\ NothingLost

\* A step of a start or an upgrade loses nothing if what the file had stays or is saved.
LEMMA StepsSafe ==
    ASSUME SafeToAlter, NEW from, NEW to, from # "serving", Steps(from, to),
           NEW d, Writes(d), Holdings(dbFile) \subseteq saved \cup Holdings(d),
           to = "make" => d.state # "whole"
    PROVE  SafeToAlter'
<1>1. NothingLost'
  <2>1. dbFile' = d /\ saved' = saved /\ (held' = held \/ held' = held \cup Holdings(d))
    BY DEF Writes, Steps
  <2>2. Holdings(dbFile)' = Holdings(d)
    BY <2>1 DEF Holdings
  <2> QED
    BY <2>1, <2>2 DEF SafeToAlter, NothingLost
<1>2. (why # "start" /\ stage # "serving" => held \subseteq saved)'
  BY DEF SafeToAlter, Writes, Steps
<1> QED
  BY <1>1, <1>2 DEF SafeToAlter, Writes, Steps

LEMMA WithHolds ==
    ASSUME dbFile \in DataFile, NEW x PROVE Holdings(dbFile) \subseteq Holdings(With(x))
<1>1. With(x).state = dbFile.state /\ With(x).origin = dbFile.origin
      /\ With(x).settings = dbFile.settings
  BY DEF With, DataFile
<1> QED
  BY <1>1 DEF Holdings, With

\* A step behind a backup: the file is as it was, or was saved, or holds what it held.
LEMMA AlterSafe ==
    ASSUME SafeToAlter, NEW from, NEW to, NEW d, from # "serving", to # "make",
           Alter(from, to, d), ToAlter => copied \/ Holdings(dbFile) \subseteq Holdings(d)
    PROVE  SafeToAlter'
<1>1. CASE ToAlter
  <2>1. Holdings(dbFile) \subseteq saved \cup Holdings(d)
    BY <1>1 DEF Alter, SafeToAlter
  <2> QED
    BY <1>1, <2>1, StepsSafe DEF Alter
<1>2. CASE ~ToAlter
  BY <1>2, StepsSafe DEF Alter
<1> QED
  BY <1>1, <1>2

LEMMA StepSafe == ASSUME FilesOK, SafeToAlter, [StartupNext]_startupVars PROVE SafeToAlter'
<1> USE DEF SafeToAlter, NothingLost
<1>1. CASE Boot
  BY <1>1 DEF Boot, Holdings
<1>2. CASE Stop
  BY <1>2 DEF Stop, GoesDown, Holdings
<1>3. CASE StatFile
  <2>1. CASE dbFile.state = "absent"
    <3>1. Holdings(dbFile) = {} /\ Blank("empty").state = "empty"
      BY <2>1 DEF Holdings, Blank
    <3> QED
      BY <1>3, <2>1, <3>1, StepsSafe DEF StatFile
  <2>2. CASE dbFile.state # "absent"
    BY <1>3, <2>2, StepsSafe DEF StatFile
  <2> QED
    BY <2>1, <2>2
<1>4. CASE MakeTables
  <2>1. stage = "make"
    BY <1>4 DEF MakeTables, Steps
  <2>2. Holdings(dbFile) = {}
    BY <2>1 DEF Holdings
  <2> QED
    BY <1>4, <2>2, StepsSafe DEF MakeTables
<1>5. CASE BackUpBeforeAlter
  <2>1. stage # "serving" /\ stage # "make"
    BY <1>5 DEF BackUpBeforeAlter, ToAlter
  <2>2. Holdings(dbFile)' = Holdings(dbFile)
    BY <1>5 DEF BackUpBeforeAlter, Holdings
  <2> QED
    BY <1>5, <2>1, <2>2 DEF BackUpBeforeAlter
<1>6. CASE BackUpCutShort
  BY <1>6 DEF BackUpCutShort, GoesDown, Holdings
<1>7. CASE AddColor
  BY <1>7, AlterSafe, WithHolds DEF AddColor, FilesOK
<1>8. CASE AddLabelSkip
  BY <1>8, AlterSafe, WithHolds DEF AddLabelSkip, FilesOK
<1>9. CASE DropEntryDate
  BY <1>9, AlterSafe DEF DropEntryDate, Alter
<1>10. CASE AddAuditColumn
  <2>1. PICK x \in AuditColumn \ dbFile.has : Steps("audit", "audit") /\ Writes(With({x}))
    BY <1>10 DEF AddAuditColumn
  <2> QED
    BY <2>1, StepsSafe, WithHolds DEF FilesOK
<1>11. CASE AuditColumnsThere
  BY <1>11, StepsSafe DEF AuditColumnsThere
<1>12. CASE RebuildSettings
  BY <1>12, AlterSafe DEF RebuildSettings, Alter
<1>13. CASE CreateSettings
  <2> DEFINE d == [dbFile EXCEPT !.settings = IF @ = "absent" THEN "current" ELSE @]
  <2>1. Holdings(dbFile) \subseteq Holdings(d)
    BY DEF FilesOK, Holdings, DataFile
  <2> QED
    BY <1>13, <2>1, StepsSafe DEF CreateSettings
<1>14. CASE InsertSettingsRow
  <2> DEFINE d == [dbFile EXCEPT !.row = TRUE]
  <2>1. Holdings(dbFile) \subseteq Holdings(d)
    BY DEF FilesOK, Holdings, DataFile
  <2>2. Steps("row", "sentat") /\ Writes(d)
    BY <1>14 DEF InsertSettingsRow
  <2> HIDE DEF d
  <2> QED
    BY <2>1, <2>2, StepsSafe
<1>15. CASE AddSentAt
  BY <1>15, AlterSafe, WithHolds DEF AddSentAt, FilesOK
<1>16. CASE CreateTables
  BY <1>16, StepsSafe, WithHolds DEF CreateTables, FilesOK
<1>17. CASE SeedRows
  BY <1>17, StepsSafe, WithHolds DEF SeedRows, FilesOK
<1>18. CASE BackfillProfiles
  BY <1>18, StepsSafe, WithHolds DEF BackfillProfiles, FilesOK
<1>19. CASE AddLastLogin
  <2>1. AfterUpgrade # "make"
    BY DEF AfterUpgrade
  <2> QED
    BY <1>19, <2>1, AlterSafe, WithHolds DEF AddLastLogin, FilesOK
<1>20. CASE ResolveKey
  <2>1. PICK d : Writes(d) /\ (d = dbFile \/ d = [dbFile EXCEPT !.key = runtime'])
    BY <1>20 DEF ResolveKey
  <2>2. Holdings(dbFile) \subseteq Holdings(d)
    BY <2>1 DEF FilesOK, Holdings, DataFile
  <2> QED
    BY <1>20, <2>1, <2>2, StepsSafe DEF ResolveKey
<1>21. CASE EncryptSecret
  <2> DEFINE d == [dbFile EXCEPT !.secret = Encrypted(@)]
  <2>1. Holdings(dbFile) \subseteq Holdings(d)
    BY DEF FilesOK, Holdings, DataFile
  <2> QED
    BY <1>21, <2>1, StepsSafe DEF EncryptSecret
<1>22. ASSUME NEW f \in OldFile, Install(f) PROVE SafeToAlter'
  <2>1. held' = held /\ ~copied' /\ saved' = saved \cup Holdings(dbFile)
    BY <1>22 DEF Install, Writes
  <2>2. stage' # "make" /\ stage' # "serving"
    BY <1>22 DEF Install
  <2> QED
    BY <2>1, <2>2
<1>23. CASE InstallCutShort
  BY <1>23 DEF InstallCutShort, GoesDown, Writes
<1>24. CASE RestoreBefore
  <2>1. held \subseteq saved /\ saved' = saved /\ held' = held
    BY <1>24 DEF RestoreBefore, Writes, Upgrading
  <2> QED
    BY <1>24, <2>1 DEF RestoreBefore
<1>25. ASSUME NEW ok \in BOOLEAN, SyncKey(ok) PROVE SafeToAlter'
  <2> DEFINE d == IF ok THEN [dbFile EXCEPT !.key = runtime] ELSE dbFile
  <2>1. Holdings(dbFile) \subseteq Holdings(d)
    BY DEF FilesOK, Holdings, DataFile
  <2> QED
    BY <1>25, <2>1, StepsSafe DEF SyncKey
<1>26. CASE NextSecond
  BY <1>26 DEF NextSecond, Holdings
<1>27. CASE UNCHANGED startupVars
  BY <1>27 DEF startupVars, Holdings
<1> QED
  BY <1>1, <1>2, <1>3, <1>4, <1>5, <1>6, <1>7, <1>8, <1>9, <1>10, <1>11, <1>12, <1>13, <1>14,
     <1>15, <1>16, <1>17, <1>18, <1>19, <1>20, <1>21, <1>22, <1>23, <1>24, <1>25, <1>26, <1>27
     DEF StartupNext

-----------------------------------------------------------------------------
\* The stages behind each step of an upgrade.
PastLastLogin == {"key", "secret", "sync", "serving"}
PastProfiles == {"lastlogin"} \cup PastLastLogin
PastSeeds == {"profiles"} \cup PastProfiles
PastTables == {"seeds"} \cup PastSeeds
PastSentAt == {"tables"} \cup PastTables
PastRow == {"sentat"} \cup PastSentAt
PastCreate == {"row"} \cup PastRow
PastSettings == {"create"} \cup PastCreate
PastAudit == {"settings"} \cup PastSettings
PastEntryDate == {"audit"} \cup PastAudit
PastLabelSkip == {"entrydate"} \cup PastEntryDate
PastColor == {"labelskip"} \cup PastLabelSkip

\* What the steps behind the next one have brought.
ColumnsBrought ==
    /\ dbFile.state # "whole" => dbFile.has = {}
    /\ before.state # "whole" => before.has = {}
    /\ stage \in PastColor => dbFile.state = "whole" /\ "color" \in dbFile.has
    /\ stage \in PastLabelSkip => "labelskip" \in dbFile.has
    /\ stage \in PastEntryDate => "entrydate" \notin dbFile.has
    /\ stage \in PastAudit => AuditColumn \subseteq dbFile.has
    /\ stage \in PastSentAt => ("resets" \in dbFile.has => "sentat" \in dbFile.has)
    /\ stage \in PastTables => {"tables", "resets", "sentat", "profiles"} \subseteq dbFile.has
    /\ stage \in PastSeeds => "seeds" \in dbFile.has
    /\ stage \in PastProfiles => "profiled" \in dbFile.has
    /\ stage \in PastLastLogin => "lastlogin" \in dbFile.has
SettingsBrought ==
    /\ stage \in PastSettings => dbFile.settings # "old"
    /\ stage \in PastCreate => dbFile.settings = "current"
    /\ stage \in PastRow => dbFile.row

\* Which key a start, an import and its reversal leave in the file.
KeyKept ==
    /\ stage \in {"down", "stat", "make", "key", "secret"} => why = "start"
    /\ stage = "sync" => why = "import"
    /\ configured = NoSigningKey /\ stage = "secret" => dbFile.key = runtime
    /\ configured = NoSigningKey /\ synced /\ stage = "serving" => dbFile.key = runtime
    /\ configured = NoSigningKey /\ synced /\ why # "start" /\ stage # "serving"
          => before.key = runtime
    /\ why = "restore" => dbFile.key = before.key
    /\ why = "start" /\ stage = "serving" /\ dbFile.secret # NoBind => dbFile.secret.under = "fixed"

LEMMA ServedIsComplete == ASSUME ColumnsBrought, SettingsBrought, KeyKept PROVE ServedComplete
<1>1. stage = "serving" => Brought \subseteq dbFile.has
  BY DEF ColumnsBrought, Brought, PastColor, PastLabelSkip, PastEntryDate, PastAudit,
         PastSettings, PastCreate, PastRow, PastSentAt, PastTables, PastSeeds, PastProfiles,
         PastLastLogin
<1>2. stage = "serving" =>
          dbFile.state = "whole" /\ "entrydate" \notin dbFile.has
          /\ dbFile.settings = "current" /\ dbFile.row
  BY DEF ColumnsBrought, SettingsBrought, PastColor, PastLabelSkip, PastEntryDate, PastAudit,
         PastSettings, PastCreate, PastRow, PastSentAt, PastTables, PastSeeds, PastProfiles,
         PastLastLogin
<1> QED
  BY <1>1, <1>2 DEF ServedComplete, KeyKept

LEMMA StepColumns ==
    ASSUME FilesOK, ColumnsBrought, [StartupNext]_startupVars
    PROVE  ColumnsBrought'
<1> USE DEF ColumnsBrought, FilesOK, DataFile, Writes, Steps, Upgrading,
           PastColor, PastLabelSkip, PastEntryDate, PastAudit, PastSettings, PastCreate, PastRow,
           PastSentAt, PastTables, PastSeeds, PastProfiles, PastLastLogin
<1>1. CASE Boot
  BY <1>1 DEF Boot
<1>2. CASE Stop
  BY <1>2 DEF Stop, GoesDown, Blank
<1>3. CASE StatFile
  BY <1>3 DEF StatFile, Blank
<1>4. CASE MakeTables
  BY <1>4 DEF MakeTables, Fresh, Blank
<1>5. CASE BackUpBeforeAlter
  BY <1>5 DEF BackUpBeforeAlter
<1>6. CASE BackUpCutShort
  BY <1>6 DEF BackUpCutShort, GoesDown, Blank
<1>7. CASE AddColor
  BY <1>7 DEF AddColor, Alter, ToAlter, With
<1>8. CASE AddLabelSkip
  BY <1>8 DEF AddLabelSkip, Alter, ToAlter, With
<1>9. CASE DropEntryDate
  BY <1>9 DEF DropEntryDate, Alter, ToAlter, With
<1>10. CASE AddAuditColumn
  BY <1>10 DEF AddAuditColumn, With, Dropped
<1>11. CASE AuditColumnsThere
  BY <1>11 DEF AuditColumnsThere
<1>12. CASE RebuildSettings
  BY <1>12 DEF RebuildSettings, Alter, ToAlter, With
<1>13. CASE CreateSettings
  BY <1>13 DEF CreateSettings
<1>14. CASE InsertSettingsRow
  BY <1>14 DEF InsertSettingsRow
<1>15. CASE AddSentAt
  BY <1>15 DEF AddSentAt, Alter, ToAlter, With
<1>16. CASE CreateTables
  BY <1>16 DEF CreateTables, With
<1>17. CASE SeedRows
  BY <1>17 DEF SeedRows, With
<1>18. CASE BackfillProfiles
  BY <1>18 DEF BackfillProfiles, With
<1>19. CASE AddLastLogin
  BY <1>19 DEF AddLastLogin, Alter, AfterUpgrade, ToAlter, With
<1>20. CASE ResolveKey
  BY <1>20 DEF ResolveKey
<1>21. CASE EncryptSecret
  BY <1>21 DEF EncryptSecret, Encrypted
<1>22. ASSUME NEW f \in OldFile, Install(f) PROVE ColumnsBrought'
  BY <1>22 DEF Install
<1>23. CASE InstallCutShort
  BY <1>23 DEF InstallCutShort, GoesDown, Blank
<1>24. CASE RestoreBefore
  BY <1>24 DEF RestoreBefore
<1>25. ASSUME NEW ok \in BOOLEAN, SyncKey(ok) PROVE ColumnsBrought'
  BY <1>25 DEF SyncKey
<1>26. CASE NextSecond
  BY <1>26 DEF NextSecond
<1>27. CASE UNCHANGED startupVars
  BY <1>27 DEF startupVars
<1> QED
  BY <1>1, <1>2, <1>3, <1>4, <1>5, <1>6, <1>7, <1>8, <1>9, <1>10, <1>11, <1>12, <1>13, <1>14,
     <1>15, <1>16, <1>17, <1>18, <1>19, <1>20, <1>21, <1>22, <1>23, <1>24, <1>25, <1>26, <1>27
     DEF StartupNext

LEMMA StepSettings ==
    ASSUME FilesOK, SettingsBrought, [StartupNext]_startupVars
    PROVE  SettingsBrought'
<1> USE DEF SettingsBrought, FilesOK, DataFile, Writes, Steps, Upgrading,
           PastColor, PastLabelSkip, PastEntryDate, PastAudit, PastSettings, PastCreate, PastRow,
           PastSentAt, PastTables, PastSeeds, PastProfiles, PastLastLogin
<1>1. CASE Boot
  BY <1>1 DEF Boot
<1>2. CASE Stop
  BY <1>2 DEF Stop, GoesDown, Blank
<1>3. CASE StatFile
  BY <1>3 DEF StatFile, Blank
<1>4. CASE MakeTables
  BY <1>4 DEF MakeTables, Fresh, Blank
<1>5. CASE BackUpBeforeAlter
  BY <1>5 DEF BackUpBeforeAlter
<1>6. CASE BackUpCutShort
  BY <1>6 DEF BackUpCutShort, GoesDown, Blank
<1>7. CASE AddColor
  BY <1>7 DEF AddColor, Alter, ToAlter, With
<1>8. CASE AddLabelSkip
  BY <1>8 DEF AddLabelSkip, Alter, ToAlter, With
<1>9. CASE DropEntryDate
  BY <1>9 DEF DropEntryDate, Alter, ToAlter, With
<1>10. CASE AddAuditColumn
  BY <1>10 DEF AddAuditColumn, With
<1>11. CASE AuditColumnsThere
  BY <1>11 DEF AuditColumnsThere
<1>12. CASE RebuildSettings
  BY <1>12 DEF RebuildSettings, Alter, ToAlter, With
<1>13. CASE CreateSettings
  BY <1>13 DEF CreateSettings
<1>14. CASE InsertSettingsRow
  BY <1>14 DEF InsertSettingsRow
<1>15. CASE AddSentAt
  BY <1>15 DEF AddSentAt, Alter, ToAlter, With
<1>16. CASE CreateTables
  BY <1>16 DEF CreateTables, With
<1>17. CASE SeedRows
  BY <1>17 DEF SeedRows, With
<1>18. CASE BackfillProfiles
  BY <1>18 DEF BackfillProfiles, With
<1>19. CASE AddLastLogin
  BY <1>19 DEF AddLastLogin, Alter, AfterUpgrade, ToAlter, With
<1>20. CASE ResolveKey
  BY <1>20 DEF ResolveKey
<1>21. CASE EncryptSecret
  BY <1>21 DEF EncryptSecret, Encrypted
<1>22. ASSUME NEW f \in OldFile, Install(f) PROVE SettingsBrought'
  BY <1>22 DEF Install
<1>23. CASE InstallCutShort
  BY <1>23 DEF InstallCutShort, GoesDown, Blank
<1>24. CASE RestoreBefore
  BY <1>24 DEF RestoreBefore
<1>25. ASSUME NEW ok \in BOOLEAN, SyncKey(ok) PROVE SettingsBrought'
  BY <1>25 DEF SyncKey
<1>26. CASE NextSecond
  BY <1>26 DEF NextSecond
<1>27. CASE UNCHANGED startupVars
  BY <1>27 DEF startupVars
<1> QED
  BY <1>1, <1>2, <1>3, <1>4, <1>5, <1>6, <1>7, <1>8, <1>9, <1>10, <1>11, <1>12, <1>13, <1>14,
     <1>15, <1>16, <1>17, <1>18, <1>19, <1>20, <1>21, <1>22, <1>23, <1>24, <1>25, <1>26, <1>27
     DEF StartupNext

LEMMA StepKey ==
    ASSUME FilesOK, KeyKept, [StartupNext]_startupVars
    PROVE  KeyKept'
<1> USE DEF KeyKept, FilesOK, DataFile, Writes, Steps, Upgrading
<1>1. CASE Boot
  BY <1>1 DEF Boot
<1>2. CASE Stop
  BY <1>2 DEF Stop, GoesDown, Blank
<1>3. CASE StatFile
  BY <1>3 DEF StatFile, Blank
<1>4. CASE MakeTables
  BY <1>4 DEF MakeTables, Fresh, Blank
<1>5. CASE BackUpBeforeAlter
  BY <1>5 DEF BackUpBeforeAlter
<1>6. CASE BackUpCutShort
  BY <1>6 DEF BackUpCutShort, GoesDown, Blank
<1>7. CASE AddColor
  BY <1>7 DEF AddColor, Alter, ToAlter, With
<1>8. CASE AddLabelSkip
  BY <1>8 DEF AddLabelSkip, Alter, ToAlter, With
<1>9. CASE DropEntryDate
  BY <1>9 DEF DropEntryDate, Alter, ToAlter, With
<1>10. CASE AddAuditColumn
  BY <1>10 DEF AddAuditColumn, With
<1>11. CASE AuditColumnsThere
  BY <1>11 DEF AuditColumnsThere
<1>12. CASE RebuildSettings
  BY <1>12 DEF RebuildSettings, Alter, ToAlter, With
<1>13. CASE CreateSettings
  BY <1>13 DEF CreateSettings
<1>14. CASE InsertSettingsRow
  BY <1>14 DEF InsertSettingsRow
<1>15. CASE AddSentAt
  BY <1>15 DEF AddSentAt, Alter, ToAlter, With
<1>16. CASE CreateTables
  BY <1>16 DEF CreateTables, With
<1>17. CASE SeedRows
  BY <1>17 DEF SeedRows, With
<1>18. CASE BackfillProfiles
  BY <1>18 DEF BackfillProfiles, With
<1>19. CASE AddLastLogin
  BY <1>19 DEF AddLastLogin, Alter, AfterUpgrade, ToAlter, With
<1>20. CASE ResolveKey
  BY <1>20 DEF ResolveKey
<1>21. CASE EncryptSecret
  BY <1>21 DEF EncryptSecret, Encrypted
<1>22. ASSUME NEW f \in OldFile, Install(f) PROVE KeyKept'
  BY <1>22 DEF Install
<1>23. CASE InstallCutShort
  BY <1>23 DEF InstallCutShort, GoesDown, Blank
<1>24. CASE RestoreBefore
  BY <1>24 DEF RestoreBefore
<1>25. ASSUME NEW ok \in BOOLEAN, SyncKey(ok) PROVE KeyKept'
  BY <1>25 DEF SyncKey
<1>26. CASE NextSecond
  BY <1>26 DEF NextSecond
<1>27. CASE UNCHANGED startupVars
  BY <1>27 DEF startupVars
<1> QED
  BY <1>1, <1>2, <1>3, <1>4, <1>5, <1>6, <1>7, <1>8, <1>9, <1>10, <1>11, <1>12, <1>13, <1>14,
     <1>15, <1>16, <1>17, <1>18, <1>19, <1>20, <1>21, <1>22, <1>23, <1>24, <1>25, <1>26, <1>27
     DEF StartupNext

\* What a start finds at first.
LEMMA FirstStart ==
    ASSUME StartupInit
    PROVE  FilesOK /\ SafeToAlter /\ ColumnsBrought /\ SettingsBrought /\ KeyKept
<1>1. FilesOK
  BY FreshType DEF StartupInit, FilesOK, Stages
<1>2. SafeToAlter
  BY DEF StartupInit, SafeToAlter, NothingLost
<1>3. ColumnsBrought
  BY DEF StartupInit, ColumnsBrought, DataFile, Blank, PastColor, PastLabelSkip, PastEntryDate,
         PastAudit, PastSettings, PastCreate, PastRow, PastSentAt, PastTables, PastSeeds,
         PastProfiles, PastLastLogin
<1>4. SettingsBrought /\ KeyKept
  BY DEF StartupInit, SettingsBrought, KeyKept, PastSettings, PastCreate, PastRow, PastSentAt,
         PastTables, PastSeeds, PastProfiles, PastLastLogin
<1> QED
  BY <1>1, <1>2, <1>3, <1>4

\* The file and the columns, tables and rows in it, after any number of starts, crashes,
\* imports and reversals (EnsureRuntimeSchema, the signing key and the bind
\* password): a file that is served is complete, and the key that a restart takes
\* up is the one tokens are signed with.
THEOREM ServedFilesAreComplete == StartupSpec => []ServedComplete
<1>1. StartupInit => FilesOK /\ ColumnsBrought /\ SettingsBrought /\ KeyKept
  BY FirstStart
<1>2. FilesOK /\ ColumnsBrought /\ SettingsBrought /\ KeyKept /\ [StartupNext]_startupVars
          => (FilesOK /\ ColumnsBrought /\ SettingsBrought /\ KeyKept)'
  BY StepFiles, StepColumns, StepSettings, StepKey
<1>3. ColumnsBrought /\ SettingsBrought /\ KeyKept => ServedComplete
  BY ServedIsComplete
<1> QED
  BY <1>1, <1>2, <1>3, PTL DEF StartupSpec

\* Steps that drop a column or rebuild a table wait for their backup, an import makes its
\* own, and each backup has a name no other has: rows, columns and settings that were in
\* the file, or were ever served, are there or in a complete backup whenever the server
\* goes down.
THEOREM NothingIsLost == StartupSpec => []NothingLost
<1>1. StartupInit => FilesOK /\ SafeToAlter
  BY FirstStart
<1>2. FilesOK /\ SafeToAlter /\ [StartupNext]_startupVars => (FilesOK /\ SafeToAlter)'
  BY StepFiles, StepSafe
<1>3. SafeToAlter => NothingLost
  BY DEF SafeToAlter
<1> QED
  BY <1>1, <1>2, <1>3, PTL DEF StartupSpec

HIDE StartupAssumption

-----------------------------------------------------------------------------
(* AuditTrail: the rows of history.                                        *)

USE AuditTrailAssumption

\* HistoryKept with what it rests on: ids count the events, what is on the page was shown,
\* and the newest rows are there.
RowsCounted ==
    /\ sequence = recorded /\ recorded \in Nat /\ page \subseteq shown
    /\ DOMAIN clerk = Clerk
    /\ \A r \in history : r.id = r.no /\ r.no \in 1..recorded
NewestThere ==
    \A no \in 1..recorded :
        no > recorded - HistoryLimit /\ no \notin erased \cap shown => \E r \in history : r.no = no
OldestGone ==
    ~untrimmed /\ (\A p \in Clerk : ~Is(p, "trim")) =>
        \A r, s \in history : r.id - s.id <= HistoryLimit

HistoryInv == RowsCounted /\ NewestThere /\ OldestGone

\* A row more, and no row of the newest less.
LEMMA WrittenKeeps ==
    ASSUME RowsCounted, NewestThere, NEW event, Written(event),
           history' = history \cup {Row(event)}, DOMAIN clerk' = Clerk,
           UNCHANGED readerVars
    PROVE  RowsCounted' /\ NewestThere'
<1>1. /\ Row(event).id = recorded + 1 /\ Row(event).no = recorded + 1
      /\ recorded' = recorded + 1 /\ sequence' = recorded + 1
  BY DEF Row, NextId, Written, RowsCounted
<1>2. RowsCounted'
  BY <1>1 DEF RowsCounted, readerVars
<1>3. NewestThere'
  <2> SUFFICES ASSUME NEW no \in 1..recorded', no > recorded' - HistoryLimit,
                      no \notin erased' \cap shown'
               PROVE  \E r \in history' : r.no = no
    BY DEF NewestThere
  <2> erased' = erased /\ shown' = shown
    BY DEF readerVars
  <2>1. CASE no = recorded + 1
    BY <1>1, <2>1
  <2>2. CASE no # recorded + 1
    <3>1. no \in 1..recorded /\ no > recorded - HistoryLimit
      BY <1>1, <2>2 DEF RowsCounted
    <3>2. PICK r \in history : r.no = no
      BY <3>1 DEF NewestThere
    <3> QED
      BY <3>2
  <2> QED
    BY <2>1, <2>2
<1> QED
  BY <1>2, <1>3

\* What is trimmed is older than the newest HistoryLimit.
LEMMA TrimmedKeeps ==
    ASSUME NEW rows, NEW last \in Nat, \A r \in rows : r.id = r.no /\ r.no \in 1..last,
           NEW no \in 1..last, no > last - HistoryLimit, \E r \in rows : r.no = no
    PROVE  \E r \in Trimmed(rows) : r.no = no
BY DEF Trimmed

\* What a handler does without a word in history.
Aside(p) ==
    /\ clerk[p].step # "trim" /\ \E to : Moves(p, to)
    /\ history' = history /\ sequence' = sequence /\ recorded' = recorded
    /\ untrimmed' = untrimmed /\ page' = page /\ shown' = shown /\ erased' = erased

LEMMA StepHistory == ASSUME HistoryInv, [AuditTrailNext]_auditVars PROVE HistoryInv'
<1> USE DEF HistoryInv
<1>1. ASSUME NEW p \in Clerk, RecordEvent(p) PROVE HistoryInv'
  <2>1. RowsCounted' /\ NewestThere'
    BY <1>1, WrittenKeeps DEF RecordEvent, Moves, RowsCounted
  <2>2. Is(p, "trim")'
    BY <1>1 DEF RecordEvent, Moves, Is, RowsCounted
  <2> QED
    BY <2>1, <2>2 DEF OldestGone
<1>2. ASSUME NEW p \in Clerk, ApplyHistoryLimit(p) PROVE HistoryInv'
  <2>1. history' = Trimmed(history) /\ UNCHANGED <<sequence, recorded, page, shown, erased>>
        /\ DOMAIN clerk' = Clerk
    BY <1>2 DEF ApplyHistoryLimit, Moves, RowsCounted, readerVars
  <2>2. RowsCounted'
    BY <2>1 DEF RowsCounted, Trimmed
  <2>3. NewestThere'
    BY <2>1, TrimmedKeeps DEF RowsCounted, NewestThere
  <2>4. OldestGone'
    BY <2>1 DEF OldestGone, Trimmed
  <2> QED
    BY <2>2, <2>3, <2>4
<1>3. ASSUME NEW p \in Clerk, ClerkFails(p) PROVE HistoryInv'
  <2>1. OldestGone'
    BY <1>3 DEF ClerkFails, Moves, Is, Free, OldestGone, RowsCounted
  <2>2. RowsCounted' /\ NewestThere'
    BY <1>3 DEF ClerkFails, Moves, RowsCounted, NewestThere, readerVars
  <2> QED
    BY <2>1, <2>2
<1>4. ASSUME NEW p \in Clerk, CommitChange(p) PROVE HistoryInv'
  <2> DEFINE event == Tells("other", 0, TRUE)
             rows == history \cup {Row(event)}
  <2>1. Written(event) /\ history' = Trimmed(rows) /\ untrimmed' = FALSE
        /\ UNCHANGED <<clerk, readerVars>>
    BY <1>4 DEF CommitChange
  <2>2. /\ Row(event).id = recorded + 1 /\ Row(event).no = recorded + 1
        /\ recorded' = recorded + 1 /\ sequence' = recorded + 1
    BY <2>1 DEF Row, NextId, Written, RowsCounted
  <2> HIDE DEF event
  <2>3. \A r \in rows : r.id = r.no /\ r.no \in 1..(recorded + 1)
    BY <2>2 DEF RowsCounted
  <2>4. \A no \in 1..(recorded + 1) :
            no > recorded + 1 - HistoryLimit /\ no \notin erased \cap shown
                => \E r \in rows : r.no = no
    <3> SUFFICES ASSUME NEW no \in 1..(recorded + 1), no > recorded + 1 - HistoryLimit,
                        no \notin erased \cap shown
                 PROVE  \E r \in rows : r.no = no
      OBVIOUS
    <3>1. CASE no = recorded + 1
      BY <2>2, <3>1
    <3>2. CASE no # recorded + 1
      <4>1. no \in 1..recorded /\ no > recorded - HistoryLimit
        BY <3>2 DEF RowsCounted
      <4>2. PICK r \in history : r.no = no
        BY <4>1 DEF NewestThere
      <4> QED
        BY <4>2
    <3> QED
      BY <3>1, <3>2
  <2> HIDE DEF rows
  <2>5. RowsCounted'
    BY <2>1, <2>2, <2>3 DEF RowsCounted, Trimmed, readerVars
  <2>6. NewestThere'
    <3> SUFFICES ASSUME NEW no \in 1..recorded', no > recorded' - HistoryLimit,
                        no \notin erased' \cap shown'
                 PROVE  \E r \in history' : r.no = no
      BY DEF NewestThere
    <3>1. no \in 1..(recorded + 1) /\ no > recorded + 1 - HistoryLimit /\ recorded \in Nat
      BY <2>2 DEF RowsCounted
    <3>2. no \notin erased \cap shown
      BY <2>1 DEF readerVars
    <3>3. \E r \in rows : r.no = no
      BY <2>4, <3>1, <3>2
    <3>4. PICK last \in Nat : last = recorded + 1
      BY <3>1
    <3>5. \A r \in rows : r.id = r.no /\ r.no \in 1..last
      BY <2>3, <3>4
    <3>6. no \in 1..last /\ no > last - HistoryLimit
      BY <3>1, <3>4
    <3>7. \E r \in Trimmed(rows) : r.no = no
      BY <3>3, <3>5, <3>6 DEF Trimmed
    <3> QED
      BY <2>1, <3>7
  <2>7. OldestGone'
    BY <2>1 DEF OldestGone, Trimmed
  <2> QED
    BY <2>5, <2>6, <2>7
<1>5. ASSUME NEW p \in Clerk, NEW ids \in SUBSET page, ClearHistory(p, ids) PROVE HistoryInv'
  <2>1. /\ history' = {r \in history : r.id \notin ids}
        /\ erased' = erased \cup {r.no : r \in history \ history'}
        /\ UNCHANGED <<sequence, recorded, untrimmed, page, shown>>
        /\ DOMAIN clerk' = Clerk
    BY <1>5 DEF ClearHistory, Records, Moves, RowsCounted
  <2>2. RowsCounted'
    BY <2>1 DEF RowsCounted
  <2>3. NewestThere'
    <3> SUFFICES ASSUME NEW no \in 1..recorded, no > recorded - HistoryLimit,
                        no \notin erased' \cap shown
                 PROVE  \E r \in history' : r.no = no
      BY <2>1 DEF NewestThere
    <3>1. PICK r \in history : r.no = no
      BY <2>1 DEF NewestThere
    <3>2. r.id = no
      BY <3>1 DEF RowsCounted
    <3>3. CASE no \in ids
      BY <2>1, <3>1, <3>2, <3>3 DEF RowsCounted
    <3>4. CASE no \notin ids
      BY <2>1, <3>1, <3>2, <3>4
    <3> QED
      BY <3>3, <3>4
  <2>4. \A q \in Clerk : Is(q, "trim") => Is(q, "trim")'
    BY <1>5 DEF ClearHistory, Records, Moves, Is, Free, RowsCounted
  <2> QED
    BY <2>1, <2>2, <2>3, <2>4 DEF OldestGone
<1>6. ASSUME ListHistory PROVE HistoryInv'
  <2>1. page' \subseteq shown' /\ shown \subseteq shown'
    BY <1>6 DEF ListHistory, RowsCounted, Ids
  <2> QED
    BY <1>6, <2>1 DEF ListHistory, trailVars, RowsCounted, NewestThere, OldestGone, Is
\* What leaves history alone.
<1>7. ASSUME UNCHANGED <<trailVars, readerVars>>, DOMAIN clerk' = Clerk,
             \A q \in Clerk : Is(q, "trim") => Is(q, "trim")'
      PROVE  HistoryInv'
  BY <1>7 DEF trailVars, readerVars, RowsCounted, NewestThere, OldestGone
<1>8. ASSUME NEW p \in Clerk, Aside(p) PROVE HistoryInv'
  BY <1>7, <1>8 DEF Aside, Moves, Is, RowsCounted, trailVars, readerVars
<1>9. ASSUME NEW p \in Clerk, PresetsNext(p) PROVE Aside(p)
  <2> USE DEF Aside, Is, Records, trailVars, readerVars
  <2>1. ASSUME NEW name, NEW look, FindPreset(p, name, look) PROVE Aside(p)
    BY <2>1 DEF FindPreset, Free
  <2>2. CASE CreatePreset(p)
    BY <2>2 DEF CreatePreset, Free
  <2>3. CASE LoadPreset(p)
    BY <2>3 DEF LoadPreset, Free
  <2>4. CASE UpdatePreset(p)
    BY <2>4 DEF UpdatePreset, Free
  <2>5. ASSUME NEW id, NamePreset(p, id) PROVE Aside(p)
    BY <2>5 DEF NamePreset, Free
  <2>6. CASE DeletePreset(p)
    BY <2>6 DEF DeletePreset, Free
  <2> QED
    BY <1>9, <2>1, <2>2, <2>3, <2>4, <2>5, <2>6 DEF PresetsNext
<1>10. ASSUME NEW p \in Clerk,
              \/ RollBackChange(p) \/ (\E ok \in BOOLEAN : TrackEvent(p, ok))
              \/ SendTestEmail(p) \/ DownloadBackup(p)
       PROVE  Aside(p)
  <2> USE DEF Aside, Records, Free, trailVars, readerVars
  <2>1. CASE RollBackChange(p)
    BY <2>1 DEF RollBackChange
  <2>2. CASE SendTestEmail(p)
    BY <2>2 DEF SendTestEmail
  <2>3. CASE DownloadBackup(p)
    BY <2>3 DEF DownloadBackup
  <2>4. ASSUME NEW ok \in BOOLEAN, TrackEvent(p, ok) PROVE Aside(p)
    BY <2>4 DEF TrackEvent
  <2> QED
    BY <1>10, <2>1, <2>2, <2>3, <2>4
<1>11. CASE UNCHANGED auditVars
  BY <1>7, <1>11 DEF auditVars, trailVars, readerVars, Is, RowsCounted
<1> QED
  BY <1>1, <1>2, <1>3, <1>4, <1>5, <1>6, <1>8, <1>9, <1>10, <1>11 DEF AuditTrailNext, OthersNext

\* Events that are written with their change or behind it, trimmed by any writer and cleared
\* from a page that may be stale (recordEvent, applyHistoryLimit, handleHistoryClear):
\* of the newest rows none is missing but what was asked for, and only a failed or pending
\* deletion leaves rows that are too old.
THEOREM HistoryIsKept == AuditTrailSpec => []HistoryKept
<1>1. AuditTrailInit => HistoryInv
  BY DEF AuditTrailInit, HistoryInv, RowsCounted, NewestThere, OldestGone
<1>2. HistoryInv /\ [AuditTrailNext]_auditVars => HistoryInv'
  BY StepHistory
<1>3. HistoryInv => HistoryKept
  BY DEF HistoryInv, NewestThere, OldestGone, HistoryKept
<1> QED
  BY <1>1, <1>2, <1>3, PTL DEF AuditTrailSpec

-----------------------------------------------------------------------------
(* AuditTrail: label presets.                                              *)

\* An event of a preset that was made or deleted.
Counts(event) == event.kind \in {"created", "deleted"}
\* It names its preset, and a deleted one is gone.
Truth(event) ==
    Counts(event) =>
        /\ event.id \in 1..Len(presets) /\ event.name = {presets[event.id].name}
        /\ event.kind = "deleted" => event.id \notin Live
\* It is not in history yet.
Untold(event) == Counts(event) => \A r \in history : r.tells # event

\* What a handler holds between two of its statements.
ClerkOK(c) ==
    /\ c.step = "record" => Truth(c.event) /\ Untold(c.event)
    /\ c.step = "delete" =>
          c.id \in 1..Len(presets) /\ (c.id \in Live => c.name = {presets[c.id].name})
    /\ c.step = "insert" => c.name \in PresetName
    /\ c.step \in {"insert", "load", "update"} => c.look \in Layout
TwoClerks(c, d) ==
    c.step = "record" /\ d.step = "record" /\ Counts(c.event) => c.event # d.event

\* PresetsTold with what it rests on.
PresetsInv ==
    /\ presets \in Seq(Preset) /\ DOMAIN clerk = Clerk
    /\ \A r \in history : Truth(r.tells)
    /\ \A r, s \in history : Counts(r.tells) /\ s.tells = r.tells => s = r
    /\ \A p \in Clerk : ClerkOK(clerk[p])
    /\ \A p, q \in Clerk : p # q => TwoClerks(clerk[p], clerk[q])

\* Names stay, and no preset comes back.
PresetsGrow ==
    /\ Len(presets) <= Len(presets')
    /\ \A id \in 1..Len(presets) :
          presets'[id].name = presets[id].name /\ (id \notin Live => id \notin Live')

LEMMA TruthStays ==
    ASSUME presets \in Seq(Preset), presets' \in Seq(Preset), PresetsGrow,
           NEW event, Truth(event)
    PROVE  Truth(event)'
BY DEF Truth, Counts, PresetsGrow

\* A step of one handler that tells nothing new in history.
LEMMA ClerkMoves ==
    ASSUME PresetsInv, NEW p \in Clerk, NEW to, Moves(p, to), presets' \in Seq(Preset),
           PresetsGrow, history' \subseteq history, ClerkOK(to)',
           \A q \in Clerk \ {p} : TwoClerks(to, clerk[q]) /\ TwoClerks(clerk[q], to)
    PROVE  PresetsInv'
<1> USE DEF PresetsInv
<1>1. DOMAIN clerk' = Clerk /\ clerk'[p] = to /\ \A q \in Clerk \ {p} : clerk'[q] = clerk[q]
  BY DEF Moves
<1>2. \A r \in history' : Truth(r.tells)'
  BY TruthStays
<1>3. ASSUME NEW q \in Clerk \ {p} PROVE ClerkOK(clerk[q])'
  <2> DEFINE c == clerk[q]
  <2>1. c' = c /\ ClerkOK(c)
    BY <1>1
  <2> HIDE DEF c
  <2>2. c.step = "record" => (Truth(c.event) /\ Untold(c.event))'
    BY <2>1, TruthStays DEF ClerkOK, Untold, Counts
  <2>3. c.step = "delete" =>
          c.id \in 1..Len(presets)' /\ (c.id \in Live' => c.name = {presets'[c.id].name})
    BY <2>1 DEF ClerkOK, PresetsGrow
  <2> QED
    BY <2>1, <2>2, <2>3 DEF ClerkOK, c
<1>4. \A q \in Clerk : ClerkOK(clerk[q])'
  BY <1>1, <1>3
<1>5. \A r, s \in Clerk : r # s => TwoClerks(clerk[r], clerk[s])'
  BY <1>1 DEF TwoClerks, Counts
<1> QED
  BY <1>1, <1>2, <1>4, <1>5 DEF Counts

\* What a handler holds that leaves no event of a preset behind.
Quiet(c) ==
    /\ c.step \notin {"delete", "insert"} /\ (c.step \in {"load", "update"} => c.look \in Layout)
    /\ c.step = "record" => ~Counts(c.event)

LEMMA QuietMoves ==
    ASSUME PresetsInv, NEW p \in Clerk, NEW to, Moves(p, to), presets' \in Seq(Preset),
           PresetsGrow, history' \subseteq history, Quiet(to)
    PROVE  PresetsInv'
<1>1. ClerkOK(to)'
  BY DEF Quiet, ClerkOK, Truth, Untold, Counts
<1>2. \A q \in Clerk \ {p} : TwoClerks(to, clerk[q]) /\ TwoClerks(clerk[q], to)
  BY DEF Quiet, TwoClerks, Counts
<1> QED
  BY <1>1, <1>2, ClerkMoves

LEMMA OnePreset ==
    ASSUME presets \in Seq(Preset), NEW id \in 1..Len(presets), NEW new \in Preset,
           presets' = [presets EXCEPT ![id] = new], new.name = presets[id].name,
           new.there => presets[id].there
    PROVE  presets' \in Seq(Preset) /\ PresetsGrow
           /\ Len(presets') = Len(presets) /\ presets'[id] = new
<1>1. presets' \in Seq(Preset) /\ Len(presets') = Len(presets)
  OBVIOUS
<1>2. \A i \in 1..Len(presets) : presets'[i] = IF i = id THEN new ELSE presets[i]
  OBVIOUS
<1> QED
  BY <1>1, <1>2 DEF PresetsGrow, Live

LEMMA SamePresets ==
    ASSUME presets' = presets, presets \in Seq(Preset)
    PROVE  presets' \in Seq(Preset) /\ PresetsGrow
BY DEF PresetsGrow, Live

LEMMA StepPresets == ASSUME PresetsInv, [AuditTrailNext]_auditVars PROVE PresetsInv'
<1>0. presets \in Seq(Preset) /\ DOMAIN clerk = Clerk
  BY DEF PresetsInv
<1>1. ASSUME NEW p \in Clerk, RecordEvent(p) PROVE PresetsInv'
  <2> DEFINE e == clerk[p].event
  <2>1. /\ presets' = presets /\ history' = history \cup {Row(e)}
        /\ clerk' = [clerk EXCEPT ![p] = [step |-> "trim"]]
    BY <1>1 DEF RecordEvent, Moves
  <2>2. Row(e).tells = e
    BY DEF Row
  <2>3. Truth(e) /\ Untold(e)
    BY <1>1 DEF PresetsInv, ClerkOK, RecordEvent, Is
  <2>4. \A q \in Clerk \ {p} : TwoClerks(clerk[q], clerk[p])
    BY DEF PresetsInv
  <2> HIDE DEF e
  <2>5. \A r \in history' : Truth(r.tells)'
    BY <2>1, <2>2, <2>3 DEF PresetsInv, Truth, Counts, Live
  <2>6. \A r, s \in history' : Counts(r.tells) /\ s.tells = r.tells => s = r
    BY <2>1, <2>2, <2>3 DEF PresetsInv, Untold, Counts
  <2>7. ASSUME NEW q \in Clerk \ {p} PROVE ClerkOK(clerk[q])'
    <3> DEFINE c == clerk[q]
    <3>1. c' = c /\ ClerkOK(c)
      BY <2>1, <1>0 DEF PresetsInv
    <3>2. c.step = "record" /\ Counts(c.event) => c.event # e
      BY <2>4, <1>1 DEF TwoClerks, RecordEvent, Is, e
    <3> HIDE DEF c
    <3>3. c.step = "record" => (Truth(c.event) /\ Untold(c.event))'
      BY <3>1, <3>2, <2>1, <2>2 DEF ClerkOK, Truth, Untold, Counts, Live
    <3> QED
      BY <3>1, <3>3, <2>1 DEF ClerkOK, Live, c
  <2>8. ClerkOK(clerk[p])'
    BY <2>1, <1>0 DEF ClerkOK
  <2>9. \A r, s \in Clerk : r # s => TwoClerks(clerk[r], clerk[s])'
    BY <2>1, <1>0 DEF PresetsInv, TwoClerks, Counts
  <2> QED
    BY <1>0, <2>1, <2>5, <2>6, <2>7, <2>8, <2>9 DEF PresetsInv, Counts
<1>2. ASSUME NEW p \in Clerk, ApplyHistoryLimit(p) PROVE PresetsInv'
  <2>1. presets' = presets /\ history' \subseteq history /\ Moves(p, Free) /\ Quiet(Free)
    BY <1>2 DEF ApplyHistoryLimit, Trimmed, Quiet, Free
  <2> QED
    BY <1>0, <2>1, SamePresets, QuietMoves
<1>3. ASSUME NEW p \in Clerk, ClerkFails(p) PROVE PresetsInv'
  <2>1. presets' = presets /\ history' \subseteq history /\ Moves(p, Free) /\ Quiet(Free)
    BY <1>3 DEF ClerkFails, Quiet, Free
  <2> QED
    BY <1>0, <2>1, SamePresets, QuietMoves
<1>4. ASSUME NEW p \in Clerk, CommitChange(p) PROVE PresetsInv'
  <2> DEFINE e == Tells("other", 0, TRUE)
  <2>1. presets' = presets /\ clerk' = clerk /\ history' \subseteq history \cup {Row(e)}
    BY <1>4 DEF CommitChange, Trimmed
  <2>2. Row(e).tells = e /\ ~Counts(e)
    BY DEF Row, Tells, Counts
  <2> HIDE DEF e
  <2>3. \A r \in history' : Truth(r.tells)'
    BY <2>1, <2>2 DEF PresetsInv, Truth, Counts, Live
  <2>4. \A r, s \in history' : Counts(r.tells) /\ s.tells = r.tells => s = r
    BY <2>1, <2>2 DEF PresetsInv, Counts
  <2>5. ASSUME NEW q \in Clerk PROVE ClerkOK(clerk[q])'
    BY <2>1, <2>2 DEF PresetsInv, ClerkOK, Truth, Untold, Counts, Live
  <2>6. \A r, s \in Clerk : r # s => TwoClerks(clerk[r], clerk[s])'
    BY <2>1 DEF PresetsInv, TwoClerks, Counts
  <2> QED
    BY <1>0, <2>1, <2>3, <2>4, <2>5, <2>6 DEF PresetsInv, Counts
<1>5. ASSUME NEW p \in Clerk, NEW kind, kind \notin {"created", "deleted"}, NEW id, NEW ok,
             Records(p, Tells(kind, id, ok)), presets' \in Seq(Preset), PresetsGrow,
             history' \subseteq history
      PROVE  PresetsInv'
  <2> DEFINE to == [step |-> "record", event |-> Tells(kind, id, ok)]
  <2>1. Moves(p, to) /\ Quiet(to)
    BY <1>5 DEF Records, Quiet, Counts, Tells
  <2> QED
    BY <1>5, <2>1, QuietMoves
<1>6. ASSUME NEW p \in Clerk,
             \/ RollBackChange(p) \/ (\E ok \in BOOLEAN : TrackEvent(p, ok))
             \/ SendTestEmail(p) \/ DownloadBackup(p)
      PROVE  PresetsInv'
  <2>1. PICK ok \in BOOLEAN : Records(p, Tells("other", 0, ok))
    BY <1>6 DEF RollBackChange, TrackEvent, SendTestEmail, DownloadBackup
  <2>2. presets' = presets /\ history' = history
    BY <1>6 DEF RollBackChange, TrackEvent, SendTestEmail, DownloadBackup, trailVars
  <2> QED
    BY <1>0, <1>5, <2>1, <2>2, SamePresets
<1>7. ASSUME NEW p \in Clerk, NEW ids \in SUBSET page, ClearHistory(p, ids) PROVE PresetsInv'
  <2>1. Records(p, Tells("cleared", 0, TRUE)) /\ presets' = presets /\ history' \subseteq history
    BY <1>7 DEF ClearHistory
  <2> QED
    BY <1>0, <1>5, <2>1, SamePresets
<1>8. ASSUME NEW p \in Clerk, NEW name \in PresetName, NEW look \in Layout,
             FindPreset(p, name, look)
      PROVE  PresetsInv'
  <2>1. PICK id : Moves(p, [step |-> IF id = 0 THEN "insert" ELSE "load", id |-> id,
                            name |-> name, look |-> look])
    BY <1>8 DEF FindPreset
  <2> DEFINE to == [step |-> IF id = 0 THEN "insert" ELSE "load", id |-> id,
                    name |-> name, look |-> look]
  <2>2. presets' = presets /\ history' = history
    BY <1>8 DEF FindPreset, trailVars
  <2>3. ClerkOK(to)'
    BY DEF ClerkOK
  <2>4. \A q \in Clerk \ {p} : TwoClerks(to, clerk[q]) /\ TwoClerks(clerk[q], to)
    BY DEF TwoClerks
  <2> QED
    BY <1>0, <2>1, <2>2, <2>3, <2>4, SamePresets, ClerkMoves
<1>9. ASSUME NEW p \in Clerk, CreatePreset(p) PROVE PresetsInv'
  <2>0. PICK id, name, look : id = Len(presets) + 1 /\ name = clerk[p].name /\ look = clerk[p].look
    OBVIOUS
  <2> DEFINE e == [kind |-> "created", id |-> id, ok |-> TRUE, name |-> {name}]
             to == [step |-> "record", event |-> e]
             new == [name |-> name, look |-> look, there |-> TRUE]
  <2>1. Moves(p, to) /\ presets' = Append(presets, new) /\ history' = history
    BY <1>9, <2>0 DEF CreatePreset, Records, trailVars
  <2>2. new \in Preset
    BY <1>9, <2>0 DEF CreatePreset, Is, PresetsInv, ClerkOK, Preset
  <2>3. /\ presets' \in Seq(Preset) /\ Len(presets') = id /\ presets'[id] = new
        /\ \A i \in 1..Len(presets) : presets'[i] = presets[i]
    <3> HIDE DEF new
    <3> QED
      BY <1>0, <2>0, <2>1, <2>2
  <2>4. PresetsGrow
    BY <1>0, <2>0, <2>3 DEF PresetsGrow, Live
  <2>5. Untold(e)
    <3>1. \A r \in history : Counts(r.tells) => r.tells.id \in 1..Len(presets)
      BY DEF PresetsInv, Truth
    <3> QED
      BY <1>0, <2>0, <3>1 DEF Untold, Counts
  <2>6. Truth(e)' /\ Untold(e)'
    <3>1. id \in 1..Len(presets') /\ presets'[id].name = name
      BY <1>0, <2>0, <2>3
    <3>2. e.id = id /\ e.name = {name} /\ e.kind # "deleted"
      OBVIOUS
    <3> HIDE DEF e
    <3> QED
      BY <2>1, <2>5, <3>1, <3>2 DEF Truth, Untold, Counts
  <2>7. ClerkOK(to)'
    BY <2>6 DEF ClerkOK
  <2>8. \A q \in Clerk \ {p} : TwoClerks(to, clerk[q]) /\ TwoClerks(clerk[q], to)
    <3> SUFFICES ASSUME NEW q \in Clerk, clerk[q].step = "record" PROVE clerk[q].event # e
      BY DEF TwoClerks
    <3>1. Counts(clerk[q].event) => clerk[q].event.id \in 1..Len(presets)
      BY DEF PresetsInv, ClerkOK, Truth
    <3> QED
      BY <1>0, <2>0, <3>1 DEF Counts
  <2> HIDE DEF to
  <2> QED
    BY <2>1, <2>3, <2>4, <2>7, <2>8, ClerkMoves
<1>10. ASSUME NEW p \in Clerk, LoadPreset(p) PROVE PresetsInv'
  <2>1. PICK to : Moves(p, to) /\ (to = Free \/ (to.step = "update" /\ to.look = clerk[p].look))
    BY <1>10 DEF LoadPreset
  <2>2. presets' = presets /\ history' = history
    BY <1>10 DEF LoadPreset, trailVars
  <2>3. Quiet(to)
    BY <1>10, <2>1 DEF LoadPreset, Is, PresetsInv, ClerkOK, Quiet, Free
  <2> QED
    BY <1>0, <2>1, <2>2, <2>3, SamePresets, QuietMoves
<1>11. ASSUME NEW p \in Clerk, UpdatePreset(p) PROVE PresetsInv'
  <2>1. history' = history
    BY <1>11 DEF UpdatePreset, trailVars
  <2>2. clerk[p].look \in Layout
    BY <1>11 DEF UpdatePreset, Is, PresetsInv, ClerkOK
  <2>3. presets' \in Seq(Preset) /\ PresetsGrow
    <3>1. CASE clerk[p].id \in Live
      <4> DEFINE new == [presets[clerk[p].id] EXCEPT !.look = clerk[p].look]
      <4>1. presets' = [presets EXCEPT ![clerk[p].id] = new]
        BY <1>11, <3>1 DEF UpdatePreset
      <4>2. clerk[p].id \in 1..Len(presets) /\ presets[clerk[p].id] \in Preset
        BY <1>0, <3>1 DEF Live
      <4>3. new \in Preset /\ new.name = presets[clerk[p].id].name
            /\ new.there = presets[clerk[p].id].there
        BY <2>2, <4>2 DEF Preset
      <4> HIDE DEF new
      <4> QED
        BY <1>0, <4>1, <4>2, <4>3, OnePreset
    <3>2. CASE clerk[p].id \notin Live
      <4>1. presets' = presets
        BY <1>11, <3>2 DEF UpdatePreset
      <4> QED
        BY <1>0, <4>1, SamePresets
    <3> QED
      BY <3>1, <3>2
  <2>4. CASE Moves(p, Free)
    <3>1. Quiet(Free)
      BY DEF Quiet, Free
    <3> QED
      BY <2>1, <2>3, <2>4, <3>1, QuietMoves
  <2>5. CASE Records(p, Tells("updated", clerk[p].id, TRUE))
    BY <1>5, <2>1, <2>3, <2>5
  <2> QED
    BY <1>11, <2>4, <2>5 DEF UpdatePreset
<1>12. ASSUME NEW p \in Clerk, NEW id, NamePreset(p, id) PROVE PresetsInv'
  <2>0. PICK name : name = IF id \in Live THEN {presets[id].name} ELSE {}
    OBVIOUS
  <2> DEFINE to == [step |-> "delete", id |-> id, name |-> name]
  <2>1. Moves(p, to) /\ presets' = presets /\ history' = history /\ id \in 1..Len(presets)
    BY <1>12, <2>0 DEF NamePreset, trailVars
  <2>2. ClerkOK(to)'
    BY <2>0, <2>1 DEF ClerkOK, Live
  <2>3. \A q \in Clerk \ {p} : TwoClerks(to, clerk[q]) /\ TwoClerks(clerk[q], to)
    BY DEF TwoClerks
  <2> HIDE DEF to
  <2> QED
    BY <1>0, <2>1, <2>2, <2>3, SamePresets, ClerkMoves
<1>13. ASSUME NEW p \in Clerk, DeletePreset(p) PROVE PresetsInv'
  <2>0. PICK id, name : id = clerk[p].id /\ name = clerk[p].name
    OBVIOUS
  <2> DEFINE e == [kind |-> "deleted", id |-> id, ok |-> TRUE, name |-> name]
             to == [step |-> "record", event |-> e]
             new == [presets[id] EXCEPT !.there = FALSE]
  <2>1. presets' = [presets EXCEPT ![id] = new] /\ history' = history
    BY <1>13, <2>0 DEF DeletePreset, trailVars
  <2>2. id \in 1..Len(presets) /\ (id \in Live => name = {presets[id].name})
    BY <1>13, <2>0 DEF DeletePreset, Is, PresetsInv, ClerkOK
  <2>3. new \in Preset /\ new.name = presets[id].name /\ ~new.there
    <3>1. presets[id] \in Preset
      BY <1>0, <2>2
    <3> QED
      BY <3>1 DEF Preset
  <2>4. /\ presets' \in Seq(Preset) /\ PresetsGrow
        /\ Len(presets') = Len(presets) /\ presets'[id] = new
    <3> HIDE DEF new
    <3> QED
      BY <1>0, <2>1, <2>2, <2>3, OnePreset
  <2>5. CASE id \notin Live
    <3>1. Moves(p, Free) /\ Quiet(Free)
      BY <1>13, <2>0, <2>5 DEF DeletePreset, Quiet, Free
    <3> QED
      BY <2>1, <2>4, <3>1, QuietMoves
  <2>6. CASE id \in Live
    <3>1. Moves(p, to)
      BY <1>13, <2>0, <2>6 DEF DeletePreset, Records
    <3>2. Untold(e)
      <4>1. \A r \in history : r.tells.kind = "deleted" => r.tells.id \notin Live
        BY DEF PresetsInv, Truth, Counts
      <4> QED
        BY <2>6, <4>1 DEF Untold
    <3>3. Truth(e)'
      <4>1. id \notin Live' /\ id \in 1..Len(presets') /\ e.name = {presets'[id].name}
        BY <2>2, <2>3, <2>4, <2>6 DEF Live
      <4> QED
        BY <4>1 DEF Truth
    <3>4. ClerkOK(to)'
      <4>1. Untold(e)'
        BY <3>2, <2>1 DEF Untold, Counts
      <4> HIDE DEF e
      <4> QED
        BY <3>3, <4>1 DEF ClerkOK
    <3>5. \A q \in Clerk \ {p} : TwoClerks(to, clerk[q]) /\ TwoClerks(clerk[q], to)
      <4> SUFFICES ASSUME NEW q \in Clerk, clerk[q].step = "record" PROVE clerk[q].event # e
        BY DEF TwoClerks
      <4>1. clerk[q].event.kind = "deleted" => clerk[q].event.id \notin Live
        BY DEF PresetsInv, ClerkOK, Truth, Counts
      <4> QED
        BY <2>6, <4>1
    <3> HIDE DEF to
    <3> QED
      BY <2>1, <2>4, <3>1, <3>4, <3>5, ClerkMoves
  <2> QED
    BY <2>5, <2>6
<1>14. ASSUME UNCHANGED <<presets, history, clerk>> PROVE PresetsInv'
  BY <1>14 DEF PresetsInv, Truth, Untold, ClerkOK, TwoClerks, Counts, Live
<1>15. CASE ListHistory
  BY <1>14, <1>15 DEF ListHistory, trailVars
<1>16. CASE UNCHANGED auditVars
  BY <1>14, <1>16 DEF auditVars
<1> QED
  BY <1>1, <1>2, <1>3, <1>4, <1>6, <1>7, <1>8, <1>9, <1>10, <1>11, <1>12, <1>13, <1>15, <1>16
     DEF AuditTrailNext, PresetsNext, OthersNext

LEMMA FirstPresets == ASSUME AuditTrailInit PROVE PresetsInv
<1>1. presets \in Seq(Preset) /\ DOMAIN clerk = Clerk /\ history = {}
  BY DEF AuditTrailInit
<1>2. \A p \in Clerk : ClerkOK(clerk[p])
  BY DEF AuditTrailInit, ClerkOK, Free
<1>3. \A p, q \in Clerk : TwoClerks(clerk[p], clerk[q])
  BY DEF AuditTrailInit, TwoClerks, Free
<1> QED
  BY <1>1, <1>2, <1>3 DEF PresetsInv

\* Presets made, changed and deleted by statements on their own, with events written behind
\* them (LabelPresetWorkflow.Create and Delete): whatever two handlers do at once, history
\* tells of a creation and of a deletion once at most and under the right name.
THEOREM PresetsAreTold == AuditTrailSpec => []PresetsTold
<1>1. AuditTrailInit => PresetsInv
  BY FirstPresets
<1>2. PresetsInv /\ [AuditTrailNext]_auditVars => PresetsInv'
  BY StepPresets
<1>3. PresetsInv => PresetsTold
  BY DEF PresetsInv, PresetsTold, Truth, Counts
<1> QED
  BY <1>1, <1>2, <1>3, PTL DEF AuditTrailSpec

-----------------------------------------------------------------------------
(* AuditTrail: the ranges.                                                 *)

\* What a handler holds names a preset that was made, and what it tells is an event.
Holds(c) ==
    /\ c.step \in {"free", "record", "trim", "insert", "load", "update", "delete"}
    /\ c.step = "record" => c.event \in Event
    /\ c.step \in {"load", "update"} => c.id \in 1..Len(presets)
    /\ c.step = "delete" => c.name \in SUBSET PresetName

\* AuditTrailTypeOK with what it rests on.
TrailRanges ==
    /\ Len(presets) <= MaxPreset /\ recorded <= MaxEvent
    /\ \A r \in history : r.tells \in Event
    /\ shown \subseteq 1..recorded /\ erased \subseteq 1..recorded
    /\ untrimmed \in BOOLEAN
    /\ \A p \in Clerk : Holds(clerk[p])

TrailInv == RowsCounted /\ PresetsInv /\ TrailRanges

LEMMA TellsAnEvent ==
    ASSUME presets \in Seq(Preset),
           NEW kind \in {"created", "updated", "deleted", "cleared", "other"},
           NEW id \in {0} \cup 1..Len(presets), NEW ok \in BOOLEAN
    PROVE  Tells(kind, id, ok) \in Event
<1>1. id \in Nat
  OBVIOUS
<1>2. id # 0 => presets[id].name \in PresetName
  <2> SUFFICES ASSUME id # 0 PROVE presets[id].name \in PresetName
    OBVIOUS
  <2>1. presets[id] \in Preset
    OBVIOUS
  <2> QED
    BY <2>1 DEF Preset
<1> QED
  BY <1>1, <1>2 DEF Tells, Event

\* A step of one handler that leaves the rows of history in their ranges.
LEMMA ClerkHolds ==
    ASSUME TrailInv, PresetsInv', NEW p \in Clerk, NEW to, Moves(p, to),
           Len(presets) <= Len(presets'), Len(presets') <= MaxPreset, Holds(to)',
           history' \subseteq history, recorded' = recorded,
           shown' = shown, erased' \subseteq 1..recorded, untrimmed' \in BOOLEAN
    PROVE  TrailRanges'
<1>1. /\ presets \in Seq(Preset) /\ presets' \in Seq(Preset) /\ DOMAIN clerk = Clerk
      /\ TrailRanges
  BY DEF TrailInv, PresetsInv
<1>2. clerk'[p] = to /\ \A q \in Clerk \ {p} : clerk'[q] = clerk[q]
  BY <1>1 DEF Moves
<1>3. \A q \in Clerk : Holds(clerk[q])'
  BY <1>1, <1>2 DEF TrailRanges, Holds
<1> QED
  BY <1>1, <1>3 DEF TrailRanges

\* A step that only tells of something afterwards.
LEMMA RecordsHolds ==
    ASSUME TrailInv, PresetsInv', NEW p \in Clerk, NEW event \in Event, Records(p, event),
           Len(presets) <= Len(presets'), Len(presets') <= MaxPreset,
           history' \subseteq history, recorded' = recorded,
           shown' = shown, erased' \subseteq 1..recorded, untrimmed' \in BOOLEAN
    PROVE  TrailRanges'
<1>1. Holds([step |-> "record", event |-> event])'
  BY DEF Holds, Event
<1> QED
  BY <1>1, ClerkHolds DEF Records

LEMMA StepTrail == ASSUME TrailInv, PresetsInv', [AuditTrailNext]_auditVars PROVE TrailRanges'
<1>0. /\ presets \in Seq(Preset) /\ DOMAIN clerk = Clerk /\ Len(presets) \in Nat
      /\ recorded \in Nat /\ TrailRanges
  BY DEF TrailInv, PresetsInv, RowsCounted
<1>f. Holds(Free)'
  BY DEF Holds, Free
<1>1. ASSUME NEW p \in Clerk, RecordEvent(p) PROVE TrailRanges'
  <2> DEFINE e == clerk[p].event
  <2>1. /\ history' = history \cup {Row(e)} /\ recorded' = recorded + 1 /\ recorded < MaxEvent
        /\ presets' = presets /\ shown' = shown /\ erased' = erased /\ untrimmed' = untrimmed
        /\ Moves(p, [step |-> "trim"])
    BY <1>1 DEF RecordEvent, Written, readerVars
  <2>2. Row(e).tells = e /\ e \in Event
    BY <1>0, <1>1 DEF Row, RecordEvent, Is, TrailRanges, Holds
  <2> HIDE DEF e
  <2>3. \A q \in Clerk : Holds(clerk[q])'
    BY <1>0, <2>1 DEF Moves, TrailRanges, Holds
  <2>4. shown' \subseteq 1..recorded' /\ erased' \subseteq 1..recorded' /\ recorded' <= MaxEvent
    BY <1>0, <2>1 DEF TrailRanges
  <2> QED
    BY <1>0, <2>1, <2>2, <2>3, <2>4 DEF TrailRanges
<1>2. ASSUME NEW p \in Clerk, ApplyHistoryLimit(p) \/ ClerkFails(p) PROVE TrailRanges'
  <2>1. /\ Moves(p, Free) /\ presets' = presets /\ history' \subseteq history
        /\ recorded' = recorded /\ shown' = shown /\ erased' = erased /\ untrimmed' \in BOOLEAN
    BY <1>0, <1>2 DEF ApplyHistoryLimit, ClerkFails, Trimmed, readerVars, TrailRanges
  <2> QED
    BY <1>0, <1>f, <2>1, ClerkHolds DEF TrailRanges
<1>3. ASSUME NEW p \in Clerk, CommitChange(p) PROVE TrailRanges'
  <2> DEFINE e == Tells("other", 0, TRUE)
  <2>1. /\ history' \subseteq history \cup {Row(e)} /\ recorded' = recorded + 1
        /\ recorded < MaxEvent /\ presets' = presets /\ shown' = shown /\ erased' = erased
        /\ untrimmed' = FALSE /\ clerk' = clerk
    BY <1>3 DEF CommitChange, Written, Trimmed, readerVars
  <2>2. Row(e).tells = e /\ e \in Event
    BY <1>0, TellsAnEvent DEF Row
  <2> HIDE DEF e
  <2>3. shown' \subseteq 1..recorded' /\ erased' \subseteq 1..recorded' /\ recorded' <= MaxEvent
    BY <1>0, <2>1 DEF TrailRanges
  <2> QED
    BY <1>0, <2>1, <2>2, <2>3 DEF TrailRanges, Holds
<1>4. ASSUME NEW p \in Clerk,
             \/ RollBackChange(p) \/ (\E ok \in BOOLEAN : TrackEvent(p, ok))
             \/ SendTestEmail(p) \/ DownloadBackup(p)
      PROVE  TrailRanges'
  <2>1. PICK ok \in BOOLEAN : Records(p, Tells("other", 0, ok))
    BY <1>4 DEF RollBackChange, TrackEvent, SendTestEmail, DownloadBackup
  <2>2. UNCHANGED <<presets, trailVars, readerVars>>
    BY <1>4 DEF RollBackChange, TrackEvent, SendTestEmail, DownloadBackup
  <2>3. Tells("other", 0, ok) \in Event
    BY <1>0, TellsAnEvent
  <2> QED
    BY <1>0, <2>1, <2>2, <2>3, RecordsHolds DEF TrailRanges, trailVars, readerVars
<1>5. ASSUME NEW p \in Clerk, NEW ids \in SUBSET page, ClearHistory(p, ids) PROVE TrailRanges'
  <2>1. Tells("cleared", 0, TRUE) \in Event
    BY <1>0, TellsAnEvent
  <2>2. erased' \subseteq 1..recorded
    BY <1>0, <1>5 DEF ClearHistory, TrailRanges, TrailInv, RowsCounted
  <2>3. /\ Records(p, Tells("cleared", 0, TRUE)) /\ presets' = presets /\ history' \subseteq history
        /\ recorded' = recorded /\ shown' = shown /\ untrimmed' \in BOOLEAN
    BY <1>0, <1>5 DEF ClearHistory, TrailRanges
  <2> QED
    <3>1. Len(presets) <= Len(presets') /\ Len(presets') <= MaxPreset
      BY <1>0, <2>3 DEF TrailRanges
    <3> QED
      BY <2>1, <2>2, <2>3, <3>1, RecordsHolds
<1>6. ASSUME NEW p \in Clerk, NEW name \in PresetName, NEW look \in Layout,
             FindPreset(p, name, look)
      PROVE  TrailRanges'
  <2>1. PICK id \in IF Named(name) = {} THEN {0} ELSE Named(name) :
            Moves(p, [step |-> IF id = 0 THEN "insert" ELSE "load", id |-> id,
                      name |-> name, look |-> look])
    BY <1>6 DEF FindPreset
  <2>2. UNCHANGED <<presets, trailVars, readerVars>>
    BY <1>6 DEF FindPreset
  <2>3. id = 0 \/ id \in 1..Len(presets)
    BY <2>1 DEF Named, Live
  <2>4. Holds([step |-> IF id = 0 THEN "insert" ELSE "load", id |-> id,
               name |-> name, look |-> look])'
    BY <2>2, <2>3 DEF Holds
  <2> QED
    BY <1>0, <2>1, <2>2, <2>4, ClerkHolds DEF TrailRanges, trailVars, readerVars
<1>7. ASSUME NEW p \in Clerk, CreatePreset(p) PROVE TrailRanges'
  <2> DEFINE id == Len(presets) + 1
             e == [kind |-> "created", id |-> id, ok |-> TRUE, name |-> {clerk[p].name}]
  <2>1. Records(p, e) /\ id <= MaxPreset /\ UNCHANGED <<trailVars, readerVars>>
    BY <1>7 DEF CreatePreset
  <2>2. Len(presets') = id
    BY <1>0, <1>7 DEF CreatePreset
  <2>3. clerk[p].name \in PresetName
    BY <1>7 DEF CreatePreset, Is, TrailInv, PresetsInv, ClerkOK
  <2>4. e \in Event
    BY <1>0, <2>3 DEF Event
  <2> HIDE DEF e
  <2> QED
    BY <1>0, <2>1, <2>2, <2>4, RecordsHolds DEF TrailRanges, trailVars, readerVars
<1>8. ASSUME NEW p \in Clerk, LoadPreset(p) PROVE TrailRanges'
  <2>1. PICK to : Moves(p, to)
                  /\ (to = Free \/ (to.step = "update" /\ to.id \in 1..Len(presets)))
    BY <1>8 DEF LoadPreset, Live
  <2>2. UNCHANGED <<presets, trailVars, readerVars>>
    BY <1>8 DEF LoadPreset
  <2>3. Holds(to)'
    BY <1>f, <2>1, <2>2 DEF Holds
  <2> QED
    BY <1>0, <2>1, <2>2, <2>3, ClerkHolds DEF TrailRanges, trailVars, readerVars
<1>9. ASSUME NEW p \in Clerk, UpdatePreset(p) PROVE TrailRanges'
  <2>1. clerk[p].id \in 1..Len(presets)
    BY <1>0, <1>9 DEF UpdatePreset, Is, TrailRanges, Holds
  <2>2. Tells("updated", clerk[p].id, TRUE) \in Event
    BY <1>0, <2>1, TellsAnEvent
  <2>3. Len(presets') = Len(presets) /\ UNCHANGED <<trailVars, readerVars>>
    BY <1>0, <1>9, <2>1 DEF UpdatePreset
  <2>4. CASE Moves(p, Free)
    BY <1>0, <1>f, <2>3, <2>4, ClerkHolds DEF TrailRanges, trailVars, readerVars
  <2>5. CASE Records(p, Tells("updated", clerk[p].id, TRUE))
    <3>1. /\ Len(presets) <= Len(presets') /\ Len(presets') <= MaxPreset
          /\ history' \subseteq history /\ recorded' = recorded /\ shown' = shown
          /\ erased' \subseteq 1..recorded /\ untrimmed' \in BOOLEAN
      BY <1>0, <2>3 DEF TrailRanges, trailVars, readerVars
    <3> QED
      BY <2>2, <2>5, <3>1, RecordsHolds
  <2> QED
    BY <1>9, <2>4, <2>5 DEF UpdatePreset
<1>10. ASSUME NEW p \in Clerk, NEW id, NamePreset(p, id) PROVE TrailRanges'
  <2>0. PICK name : name = IF id \in Live THEN {presets[id].name} ELSE {}
    OBVIOUS
  <2>1. Moves(p, [step |-> "delete", id |-> id, name |-> name]) /\ id \in 1..Len(presets)
        /\ UNCHANGED <<presets, trailVars, readerVars>>
    BY <1>10, <2>0 DEF NamePreset
  <2>2. name \in SUBSET PresetName
    <3>1. presets[id] \in Preset
      BY <1>0, <2>1
    <3> QED
      BY <2>0, <3>1 DEF Preset
  <2>3. Holds([step |-> "delete", id |-> id, name |-> name])'
    BY <2>2 DEF Holds
  <2> QED
    BY <1>0, <2>1, <2>3, ClerkHolds DEF TrailRanges, trailVars, readerVars
<1>11. ASSUME NEW p \in Clerk, DeletePreset(p) PROVE TrailRanges'
  <2> DEFINE e == [kind |-> "deleted", id |-> clerk[p].id, ok |-> TRUE, name |-> clerk[p].name]
  <2>1. clerk[p].id \in Nat /\ clerk[p].name \in SUBSET PresetName
    BY <1>0, <1>11 DEF DeletePreset, Is, TrailRanges, Holds, TrailInv, PresetsInv, ClerkOK
  <2>2. e \in Event
    BY <2>1 DEF Event
  <2>3. Len(presets') = Len(presets) /\ UNCHANGED <<trailVars, readerVars>>
    BY <1>0, <1>11 DEF DeletePreset
  <2>4. Moves(p, Free) \/ Records(p, e)
    BY <1>11 DEF DeletePreset
  <2> HIDE DEF e
  <2>5. CASE Moves(p, Free)
    BY <1>0, <1>f, <2>3, <2>5, ClerkHolds DEF TrailRanges, trailVars, readerVars
  <2>6. CASE Records(p, e)
    BY <1>0, <2>2, <2>3, <2>6, RecordsHolds DEF TrailRanges, trailVars, readerVars
  <2> QED
    BY <2>4, <2>5, <2>6
<1>12. CASE ListHistory
  <2>1. shown' \subseteq 1..recorded
    BY <1>0, <1>12 DEF ListHistory, TrailRanges, TrailInv, RowsCounted
  <2> QED
    BY <1>0, <1>12, <2>1 DEF ListHistory, trailVars, TrailRanges, Holds
<1>13. CASE UNCHANGED auditVars
  BY <1>0, <1>13 DEF auditVars, TrailRanges, Holds
<1> QED
  BY <1>1, <1>2, <1>3, <1>4, <1>5, <1>6, <1>7, <1>8, <1>9, <1>10, <1>11, <1>12, <1>13
     DEF AuditTrailNext, PresetsNext, OthersNext

\* What both parts of the proof about the trail rest on.
AuditTrailInv == HistoryInv /\ TrailInv

LEMMA FirstTrail == AuditTrailInit => AuditTrailInv
<1> SUFFICES ASSUME AuditTrailInit PROVE HistoryInv /\ TrailInv
  BY DEF AuditTrailInv
<1>1. HistoryInv
  BY DEF AuditTrailInit, HistoryInv, RowsCounted, NewestThere, OldestGone
<1>2. PresetsInv
  BY FirstPresets
<1>3. TrailRanges
  <2>1. \A p \in Clerk : Holds(clerk[p])
    BY DEF AuditTrailInit, Holds, Free
  <2>2. Len(presets) = 0 /\ recorded = 0 /\ history = {} /\ shown = {} /\ erased = {}
        /\ untrimmed = FALSE
    BY DEF AuditTrailInit
  <2>3. shown \subseteq 1..recorded /\ erased \subseteq 1..recorded
    BY <2>2
  <2>4. Len(presets) <= MaxPreset /\ recorded <= MaxEvent
    BY <2>2
  <2>5. untrimmed \in BOOLEAN /\ \A r \in history : r.tells \in Event
    BY <2>2
  <2> QED
    BY <2>1, <2>3, <2>4, <2>5 DEF TrailRanges
<1> QED
  BY <1>1, <1>2, <1>3 DEF HistoryInv, TrailInv

LEMMA StepAuditTrail == AuditTrailInv /\ [AuditTrailNext]_auditVars => AuditTrailInv'
<1> SUFFICES ASSUME HistoryInv, TrailInv, [AuditTrailNext]_auditVars
             PROVE  HistoryInv' /\ TrailInv'
  BY DEF AuditTrailInv
<1>1. HistoryInv' /\ PresetsInv'
  BY StepHistory, StepPresets DEF TrailInv
<1>2. TrailRanges'
  BY <1>1, StepTrail
<1> QED
  BY <1>1, <1>2 DEF HistoryInv, TrailInv

LEMMA AuditTrailInvTypes == AuditTrailInv => AuditTrailTypeOK
<1> SUFFICES ASSUME TrailInv PROVE AuditTrailTypeOK
  BY DEF AuditTrailInv
<1>1. presets \in Seq(Preset) /\ Len(presets) <= MaxPreset
  BY DEF TrailInv, PresetsInv, TrailRanges
<1>2. \A r \in history : r.id \in 1..sequence /\ r.no \in 1..recorded /\ r.tells \in Event
  BY DEF TrailInv, RowsCounted, TrailRanges
<1>3. /\ recorded \in 0..MaxEvent /\ sequence \in 0..MaxEvent /\ page \subseteq 1..sequence
      /\ shown \subseteq 1..recorded /\ erased \subseteq 1..recorded /\ untrimmed \in BOOLEAN
  BY DEF TrailInv, RowsCounted, TrailRanges
<1> QED
  BY <1>1, <1>2, <1>3 DEF AuditTrailTypeOK, TrailInv, TrailRanges, Holds

\* Presets, rows of history, the page and what each handler holds: every row and every id on
\* the page is that of an event that was written, and nothing exceeds its bound.
THEOREM AuditTrailTypeCorrect == AuditTrailSpec => []AuditTrailTypeOK
BY FirstTrail, StepAuditTrail, AuditTrailInvTypes, PTL DEF AuditTrailSpec

HIDE AuditTrailAssumption

-----------------------------------------------------------------------------
(* The run of MCOperations: its parts take only steps of their components. *)

LEMMA PresetsPartSteps == PresetsPart => AuditTrailNext
<1> SUFFICES ASSUME NEW p \in Clerk,
                    \/ RecordEvent(p) \/ ApplyHistoryLimit(p) \/ ClerkFails(p)
                    \/ FindPreset(p, u1, IF presets = <<>> THEN small ELSE large)
                    \/ CreatePreset(p) \/ LoadPreset(p) \/ UpdatePreset(p)
                    \/ (\E id \in 1..MaxPreset : NamePreset(p, id)) \/ DeletePreset(p)
             PROVE  AuditTrailNext
  BY DEF PresetsPart
<1>1. CASE FindPreset(p, u1, IF presets = <<>> THEN small ELSE large)
  <2>1. u1 \in PresetName /\ (IF presets = <<>> THEN small ELSE large) \in Layout
    BY OperationsAssumption
  <2>2. PresetsNext(p)
    BY <1>1, <2>1 DEF PresetsNext
  <2> QED
    BY <2>2 DEF AuditTrailNext
<1>2. CASE \/ CreatePreset(p) \/ LoadPreset(p) \/ UpdatePreset(p)
           \/ (\E id \in 1..MaxPreset : NamePreset(p, id)) \/ DeletePreset(p)
  <2>1. PresetsNext(p)
    BY <1>2 DEF PresetsNext
  <2> QED
    BY <2>1 DEF AuditTrailNext
<1> QED
  BY <1>1, <1>2 DEF AuditTrailNext

LEMMA TrailPartSteps == TrailPart => AuditTrailNext
BY DEF TrailPart, AuditTrailNext

\* What is invariant of every component, whichever part moves.
OperationsInv == DocInv /\ StartupInv /\ ScheduleTypeOK /\ AuditTrailInv

\* One part moves at a time, by steps of its component, and the others stand still: every
\* variable has its range.
THEOREM OperationsTypesHold == OperationsSpec => []OperationsTypeOK
<1> DEFINE all == <<part, vars, startupVars, scheduleVars, auditVars>>
<1>1. OperationsInit => OperationsInv
  BY InitDocInv, FirstRanges, InitScheduleType, FirstTrail DEF OperationsInit, OperationsInv
<1>2. OperationsInv /\ [OperationsNext]_all => OperationsInv'
  <2> SUFFICES ASSUME OperationsInv, [OperationsNext]_all PROVE OperationsInv'
    OBVIOUS
  <2>1. /\ [Next]_vars /\ [StartupNext]_startupVars /\ [ScheduleNext]_scheduleVars
        /\ [AuditTrailNext]_auditVars
    <3>1. CASE OperationsNext
      BY <3>1, PresetsPartSteps, TrailPartSteps DEF OperationsNext
    <3>2. CASE UNCHANGED all
      BY <3>2
    <3> QED
      BY <3>1, <3>2
  <2>2. DocInv' /\ StartupInv'
    BY <2>1, NextDocInv, StepStartup DEF OperationsInv
  <2>3. ScheduleTypeOK' /\ AuditTrailInv'
    BY <2>1, StepScheduleType, StepAuditTrail DEF OperationsInv
  <2> QED
    BY <2>2, <2>3 DEF OperationsInv
<1>3. OperationsInv => OperationsTypeOK
  BY StartupInvTypes, AuditTrailInvTypes DEF OperationsInv, DocInv, OperationsTypeOK
<1> QED
  BY <1>1, <1>2, <1>3, PTL DEF OperationsSpec
=============================================================================
