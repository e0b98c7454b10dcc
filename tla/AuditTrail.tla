------------------------------- MODULE AuditTrail -------------------------------
(***************************************************************************)
(* The audit trail: the rows of history, what writes them, the page that   *)
(* lists them and the request that clears what the page listed.            *)
(*                                                                         *)
(* A change of hardware, software, invoices or contracts writes its event  *)
(* inside its transaction.  Label presets, reports of the browser, tests   *)
(* of connections and backups write theirs afterwards, in statements of    *)
(* their own: the row first, then a deletion of what is too old.  Label    *)
(* presets are the writers whose changes are kept here.                    *)
(***************************************************************************)
EXTENDS Integers, Sequences, FiniteSets

CONSTANTS
    Clerk,         \* handlers that may run at the same time
    PresetName, Layout,
    HistoryLimit,  \* ITDB_HISTORY_LIMIT
    PageLimit,     \* rows of a page
    MaxEvent, MaxPreset

ASSUME AuditTrailAssumption ==
    /\ {HistoryLimit, PageLimit} \subseteq Nat \ {0}
    /\ MaxEvent \in Nat /\ MaxPreset \in Nat

VARIABLES
    presets,    \* labelpapers by id, gone rows too
    history,    \* the rows of history
    sequence,   \* the last id that history gave
    recorded,   \* how many events were ever written
    clerk,      \* where each handler is
    page,       \* ids on the page last listed
    shown,      \* events that some page listed
    erased,     \* events that requests to clear removed
    untrimmed   \* whether a deletion of old rows was left out last

auditVars == <<presets, history, sequence, recorded, clerk, page, shown, erased, untrimmed>>
trailVars == <<history, sequence, recorded, untrimmed>>
readerVars == <<page, shown, erased>>

Preset == [name : PresetName, look : Layout, there : BOOLEAN]
\* An event, and which preset it tells of, under which name.
Tells(kind, id, ok) ==
    [kind |-> kind, id |-> id, ok |-> ok,
     name |-> IF id = 0 THEN {} ELSE {presets[id].name}]
Event ==
    [kind : {"created", "updated", "deleted", "cleared", "other"}, id : Nat,
     ok : BOOLEAN, name : SUBSET PresetName]

Free == [step |-> "free"]
Is(p, step) == clerk[p].step = step
Moves(p, to) == clerk' = [clerk EXCEPT ![p] = to]

Ids(rows) == {r.id : r \in rows}

AuditTrailInit ==
    /\ presets = <<>> /\ history = {} /\ sequence = 0 /\ recorded = 0
    /\ clerk = [p \in Clerk |-> Free]
    /\ page = {} /\ shown = {} /\ erased = {} /\ untrimmed = FALSE

-----------------------------------------------------------------------------
(* Writing an event.                                                       *)

\* Mutant: an id that a cleared row had is given again.
NextId_Reused ==
    CHOOSE n \in 1..(sequence + 1) :
        (\A r \in history : r.id < n) /\ (n = 1 \/ n - 1 \in Ids(history))

\* AUTOINCREMENT.
NextId == sequence + 1

Row(event) == [id |-> NextId, no |-> recorded + 1, tells |-> event]
Written(event) ==
    /\ recorded < MaxEvent /\ recorded' = recorded + 1
    /\ sequence' = NextId

\* What is older than the newest by more than the limit goes.
Trimmed(rows) == {r \in rows : \A s \in rows : s.id - r.id <= HistoryLimit}

\* INSERT INTO history, then its deletion of old rows.
RecordEvent(p) ==
    /\ Is(p, "record") /\ Written(clerk[p].event)
    /\ history' = history \cup {Row(clerk[p].event)}
    /\ Moves(p, [step |-> "trim"])
    /\ UNCHANGED <<presets, untrimmed, readerVars>>
ApplyHistoryLimit(p) ==
    /\ Is(p, "trim")
    /\ history' = Trimmed(history) /\ untrimmed' = FALSE
    /\ Moves(p, Free)
    /\ UNCHANGED <<presets, sequence, recorded, readerVars>>

\* A statement fails, or the request is cut off.
ClerkFails(p) ==
    /\ clerk[p] # Free /\ Moves(p, Free)
    /\ untrimmed' = (untrimmed \/ Is(p, "trim"))
    /\ UNCHANGED <<presets, history, sequence, recorded, readerVars>>

Records(p, event) == Moves(p, [step |-> "record", event |-> event])

-----------------------------------------------------------------------------
(* Changes in a transaction: the event is written with the change or not   *)
(* at all, and a failure is told afterwards.                               *)

CommitChange(p) ==
    LET event == Tells("other", 0, TRUE) IN
    /\ clerk[p] = Free /\ Written(event)
    /\ history' = Trimmed(history \cup {Row(event)}) /\ untrimmed' = FALSE
    /\ UNCHANGED <<presets, clerk, readerVars>>
RollBackChange(p) ==
    /\ clerk[p] = Free /\ Records(p, Tells("other", 0, FALSE))
    /\ UNCHANGED <<presets, trailVars, readerVars>>

-----------------------------------------------------------------------------
(* What leaves no change behind.                                           *)

\* The browser tells of an export, an import or a print, and how it went.
TrackEvent(p, ok) ==
    /\ clerk[p] = Free /\ Records(p, Tells("other", 0, ok))
    /\ UNCHANGED <<presets, trailVars, readerVars>>

\* A test mail may be on its way and count as failed.
SendTestEmail(p) ==
    /\ clerk[p] = Free
    /\ \E ok \in BOOLEAN : Records(p, Tells("other", 0, ok))
    /\ UNCHANGED <<presets, trailVars, readerVars>>

\* A download tells of its success before the archive is written.
DownloadBackup(p) ==
    /\ clerk[p] = Free
    /\ \E ok \in BOOLEAN : Records(p, Tells("other", 0, ok))
    /\ UNCHANGED <<presets, trailVars, readerVars>>

-----------------------------------------------------------------------------
(* Label presets.  Every statement is on its own.                          *)

Live == {id \in 1..Len(presets) : presets[id].there}
Named(name) == {id \in Live : presets[id].name = name}

\* Some row of the name, or none.
FindPreset(p, name, look) ==
    /\ clerk[p] = Free
    /\ \E id \in IF Named(name) = {} THEN {0} ELSE Named(name) :
          Moves(p, [step |-> IF id = 0 THEN "insert" ELSE "load", id |-> id,
                    name |-> name, look |-> look])
    /\ UNCHANGED <<presets, trailVars, readerVars>>

CreatePreset(p) ==
    LET id == Len(presets) + 1 IN
    /\ Is(p, "insert") /\ id <= MaxPreset
    /\ presets' = Append(presets, [name |-> clerk[p].name, look |-> clerk[p].look, there |-> TRUE])
    /\ Records(p, [kind |-> "created", id |-> id, ok |-> TRUE, name |-> {clerk[p].name}])
    /\ UNCHANGED <<trailVars, readerVars>>

\* The row as it was, which is gone perhaps.
LoadPreset(p) ==
    /\ Is(p, "load")
    /\ Moves(p, IF clerk[p].id \in Live
                THEN [step |-> "update", id |-> clerk[p].id, name |-> clerk[p].name,
                      look |-> clerk[p].look, old |-> presets[clerk[p].id].look]
                ELSE Free)
    /\ UNCHANGED <<presets, trailVars, readerVars>>

\* An update may hit no row and tells of itself all the same, if the form has something
\* that the row that was read had not.
UpdatePreset(p) ==
    LET id == clerk[p].id IN
    /\ Is(p, "update")
    /\ presets' = IF id \in Live THEN [presets EXCEPT ![id].look = clerk[p].look] ELSE presets
    /\ IF clerk[p].old = clerk[p].look THEN Moves(p, Free)
       ELSE Records(p, Tells("updated", id, TRUE))
    /\ UNCHANGED <<trailVars, readerVars>>

\* The name is read first, of a row or of none.
NamePreset(p, id) ==
    /\ clerk[p] = Free /\ id \in 1..Len(presets)
    /\ Moves(p, [step |-> "delete", id |-> id,
                 name |-> IF id \in Live THEN {presets[id].name} ELSE {}])
    /\ UNCHANGED <<presets, trailVars, readerVars>>

\* Mutant: who finds no row tells of a deletion as well.
DeletePreset_Blind(p) ==
    LET id == clerk[p].id IN
    /\ Is(p, "delete")
    /\ presets' = [presets EXCEPT ![id].there = FALSE]
    /\ Records(p, [kind |-> "deleted", id |-> id, ok |-> TRUE, name |-> clerk[p].name])
    /\ UNCHANGED <<trailVars, readerVars>>

\* Who finds no row is told so.
DeletePreset(p) ==
    LET id == clerk[p].id IN
    /\ Is(p, "delete")
    /\ presets' = [presets EXCEPT ![id].there = FALSE]
    /\ IF id \in Live
       THEN Records(p, [kind |-> "deleted", id |-> id, ok |-> TRUE, name |-> clerk[p].name])
       ELSE Moves(p, Free)
    /\ UNCHANGED <<trailVars, readerVars>>

-----------------------------------------------------------------------------
(* The page and what is cleared from it.                                   *)

\* The newest rows.
ListHistory ==
    LET newest == {r \in history :
                       Cardinality({s \in history : s.id > r.id}) < PageLimit} IN
    /\ page' = Ids(newest) /\ shown' = shown \cup {r.no : r \in newest}
    /\ UNCHANGED <<presets, trailVars, clerk, erased>>

\* Ids of the page as it was; the request tells of itself after the deletion.
ClearHistory(p, ids) ==
    /\ clerk[p] = Free /\ ids \subseteq page /\ ids # {}
    /\ history' = {r \in history : r.id \notin ids}
    /\ erased' = erased \cup {r.no : r \in history \ history'}
    /\ Records(p, Tells("cleared", 0, TRUE))
    /\ UNCHANGED <<presets, sequence, recorded, untrimmed, page, shown>>

PresetsNext(p) ==
    \/ \E name \in PresetName, look \in Layout : FindPreset(p, name, look)
    \/ CreatePreset(p) \/ LoadPreset(p) \/ UpdatePreset(p)
    \/ (\E id \in 1..MaxPreset : NamePreset(p, id)) \/ DeletePreset(p)

OthersNext(p) ==
    \/ CommitChange(p) \/ RollBackChange(p)
    \/ (\E ok \in BOOLEAN : TrackEvent(p, ok)) \/ SendTestEmail(p) \/ DownloadBackup(p)
    \/ \E ids \in SUBSET page : ClearHistory(p, ids)

AuditTrailNext ==
    \/ \E p \in Clerk :
          \/ RecordEvent(p) \/ ApplyHistoryLimit(p) \/ ClerkFails(p)
          \/ PresetsNext(p) \/ OthersNext(p)
    \/ ListHistory

AuditTrailSpec == AuditTrailInit /\ [][AuditTrailNext]_auditVars

-----------------------------------------------------------------------------
\* Every variable has its range; no row and no page names an event that was not written.
AuditTrailTypeOK ==
    /\ presets \in Seq(Preset) /\ Len(presets) <= MaxPreset
    /\ \A r \in history : r.id \in 1..sequence /\ r.no \in 1..recorded /\ r.tells \in Event
    /\ recorded \in 0..MaxEvent /\ sequence \in 0..MaxEvent
    /\ page \subseteq 1..sequence /\ shown \subseteq 1..recorded /\ erased \subseteq 1..recorded
    /\ untrimmed \in BOOLEAN
    /\ \A p \in Clerk : clerk[p].step \in {"free", "record", "trim", "insert", "load", "update", "delete"}

\* However events are written, trimmed and cleared at the same time: of the newest
\* HistoryLimit none is missing but what a request cleared and some page had listed, never
\* one that was written after that page; and unless a handler is about to trim or one failed
\* to, no row is older than the newest by more than the limit.
HistoryKept ==
    /\ \A no \in 1..recorded :
          no > recorded - HistoryLimit /\ no \notin erased \cap shown
              => \E r \in history : r.no = no
    /\ ~untrimmed /\ (\A p \in Clerk : ~Is(p, "trim")) =>
          \A r, s \in history : r.id - s.id <= HistoryLimit

\* A preset is told to be created once and to be deleted once at most, under the name it
\* had, and one that is told to be deleted is gone.
PresetsTold ==
    \A r \in history :
        LET id == r.tells.id IN
        r.tells.kind \in {"created", "deleted"} =>
            /\ id \in 1..Len(presets) /\ r.tells.name = {presets[id].name}
            /\ r.tells.kind = "deleted" => id \notin Live
            /\ \A s \in history : s.tells = r.tells => s = r
=============================================================================
