-------------------------------- MODULE Startup --------------------------------
(***************************************************************************)
(* The start of the server on a database file that is absent, new, or of   *)
(* an older version, and the upgrade of one that an import puts in its     *)
(* place.  Each statement outside a transaction is in the file when it     *)
(* ends; the server may crash after any of them, or stop because one       *)
(* fails, and be started again, with another configuration if its operator *)
(* likes.                                                                  *)
(*                                                                         *)
(* Of a file it is kept what the steps look for or bring: tables, columns  *)
(* and rows as members of a set, whose database it is, the settings table, *)
(* the password the directory is bound with and the key that signs tokens. *)
(***************************************************************************)
EXTENDS Integers, Sequences

CONSTANTS
    Origin, NewOrigin, NoOrigin,   \* whose data a file holds
    SigningKey, NoSigningKey,
    Bind, NoBind,                  \* passwords for the directory
    AuditColumn,                   \* columns that history was given later
    OldFile,                       \* files of older versions
    Launch,                        \* what an operator may start the server with
    Drawn                          \* keys the server may draw

Brought ==
    {"color", "labelskip", "sentat", "lastlogin", "resets", "profiles", "tables",
     "seeds", "profiled"} \cup AuditColumn
Dropped == {"entrydate"}
BindSecret == [word : Bind, under : {"plain", "fixed"} \cup SigningKey]
DataFile ==
    [state : {"absent", "empty", "whole", "torn"}, origin : Origin \cup {NoOrigin},
     has : SUBSET (Brought \cup Dropped), settings : {"absent", "old", "current"},
     row : BOOLEAN, secret : BindSecret \cup {NoBind}, key : SigningKey \cup {NoSigningKey}]

ASSUME StartupAssumption ==
    /\ NewOrigin \in Origin /\ NoOrigin \notin Origin
    /\ NoSigningKey \notin SigningKey /\ NoBind \notin BindSecret
    /\ AuditColumn \cap Dropped = {}
    /\ \A l \in Launch : {l.flag, l.environment} \subseteq SigningKey \cup {NoSigningKey}
    /\ \A l \in Launch : \A i \in 1..Len(l.files) :
          l.files[i].there \in BOOLEAN /\ l.files[i].key \in SigningKey \cup {NoSigningKey}
    /\ Drawn \subseteq SigningKey
    /\ OldFile \subseteq {f \in DataFile : f.state = "whole" /\ f.origin \in Origin}

VARIABLES
    dbFile,      \* the database file
    before,      \* what an import replaced
    saved,       \* what is in complete backups
    held,        \* what was in the file at first, and whatever was served
    fresh,       \* kinds of backups begun within this second
    stage,       \* the next step
    copied,      \* whether its backup is complete
    why,         \* what the steps are for: a start, an import, its reversal
    configured,  \* the key this start was given
    runtime,     \* the key tokens are signed with
    synced       \* whether an import could write that key

startupVars == <<dbFile, before, saved, held, fresh, stage, copied, why, configured,
                 runtime, synced>>

Blank(s) ==
    [state |-> s, origin |-> NoOrigin, has |-> {}, settings |-> "absent", row |-> FALSE,
     secret |-> NoBind, key |-> NoSigningKey]

\* What the bootstrap leaves.
Fresh ==
    [Blank("whole") EXCEPT !.origin = NewOrigin, !.settings = "current",
                           !.has = {"color", "labelskip"} \cup AuditColumn]

\* What a file holds that no later step could bring back.
Holdings(d) ==
    IF d.state # "whole" THEN {}
    ELSE {<<d.origin, x>> : x \in {"rows"} \cup (d.has \cap Dropped)
                                  \cup (IF d.settings = "old" THEN {"settings"} ELSE {})}

Upgrading == {"color", "labelskip", "entrydate", "audit", "settings", "create", "row",
              "sentat", "tables", "seeds", "profiles", "lastlogin"}
Stages == Upgrading \cup {"down", "stat", "make", "key", "secret", "sync", "serving"}

StartupInit ==
    /\ dbFile \in OldFile \cup {Blank("absent")}
    /\ before = Blank("absent") /\ saved = {} /\ held = Holdings(dbFile) /\ fresh = {}
    /\ stage = "down" /\ copied = FALSE /\ why = "start"
    /\ configured = NoSigningKey /\ runtime = NoSigningKey /\ synced = TRUE

-----------------------------------------------------------------------------
Writes(d) ==
    /\ dbFile' = d
    /\ held' = IF stage' = "serving" THEN held \cup Holdings(d) ELSE held

\* From one step to the next.
Steps(from, to) ==
    /\ stage = from /\ stage' = to /\ copied' = FALSE
    /\ UNCHANGED <<before, saved, fresh, why, configured>>

\* The server goes down: a crash, or a step that failed at the start.
GoesDown ==
    /\ stage' = "down" /\ copied' = FALSE /\ why' = "start" /\ synced' = TRUE
    /\ before' = Blank("absent")
    /\ configured' = NoSigningKey /\ runtime' = NoSigningKey

Stop == stage # "down" /\ GoesDown /\ UNCHANGED <<dbFile, saved, held, fresh>>

\* The key is that of the first .env file that can be read.
FromEnvFile(files, key) ==
    \/ key = NoSigningKey /\ \A i \in 1..Len(files) : ~files[i].there
    \/ \E i \in 1..Len(files) :
          files[i].there /\ key = files[i].key /\ \A j \in 1..(i - 1) : ~files[j].there

\* A flag goes before the environment, which a file only adds to.
ConfiguredKey(launch, key) ==
    IF launch.flag # NoSigningKey THEN key = launch.flag
    ELSE IF launch.environment # NoSigningKey THEN key = launch.environment
    ELSE FromEnvFile(launch.files, key)

\* Its operator starts it; a torn file is none that SQLite opens.
Boot ==
    /\ stage = "down" /\ dbFile.state # "torn"
    /\ stage' = "stat"
    /\ configured' \in SigningKey \cup {NoSigningKey}
    /\ \E l \in Launch : ConfiguredKey(l, configured')
    /\ UNCHANGED <<dbFile, before, saved, held, fresh, copied, why, runtime, synced>>

\* A file that is not there is made by the first pragma.
StatFile ==
    /\ Steps("stat", IF dbFile.state = "absent" THEN "make" ELSE "color")
    /\ Writes(IF dbFile.state = "absent" THEN Blank("empty") ELSE dbFile)
    /\ UNCHANGED <<runtime, synced>>

\* All tables, the entries built in and the first user in one transaction.
MakeTables == Steps("make", "color") /\ Writes(Fresh) /\ UNCHANGED <<runtime, synced>>

\* What there is to alter at a step, in a file with the tables it is about.
ToAlter ==
    CASE stage = "color" -> "color" \notin dbFile.has
      [] stage = "labelskip" -> dbFile.state = "whole" /\ "labelskip" \notin dbFile.has
      [] stage = "entrydate" -> "entrydate" \in dbFile.has
      [] stage = "settings" -> dbFile.settings = "old"
      [] stage = "sentat" -> "resets" \in dbFile.has /\ "sentat" \notin dbFile.has
      [] stage = "lastlogin" -> "profiles" \in dbFile.has /\ "lastlogin" \notin dbFile.has
      [] OTHER -> FALSE

\* VACUUM INTO a file named by step and second, that must not be there.
BackUpBeforeAlter ==
    /\ ToAlter /\ ~copied /\ stage \notin fresh
    /\ fresh' = fresh \cup {stage} /\ copied' = TRUE /\ saved' = saved \cup Holdings(dbFile)
    /\ UNCHANGED <<dbFile, before, held, stage, why, configured, runtime, synced>>

\* Half a backup, and the server is gone.
BackUpCutShort ==
    /\ ToAlter /\ ~copied /\ stage \notin fresh
    /\ fresh' = fresh \cup {stage}
    /\ GoesDown /\ UNCHANGED <<dbFile, saved, held>>

\* Mutant: an alteration that does not wait for its backup.
Alter_NoBackup(from, to, d) ==
    /\ Steps(from, to) /\ (ToAlter => dbFile.state = "whole")
    /\ Writes(IF ToAlter THEN d ELSE dbFile)
    /\ UNCHANGED <<runtime, synced>>

\* An alteration behind its backup; a file without tables has nothing to alter.
Alter(from, to, d) ==
    /\ Steps(from, to) /\ (ToAlter => copied /\ dbFile.state = "whole")
    /\ Writes(IF ToAlter THEN d ELSE dbFile)
    /\ UNCHANGED <<runtime, synced>>

With(x) == [dbFile EXCEPT !.has = @ \cup x]

AddColor == Alter("color", "labelskip", With({"color"}))
AddLabelSkip == Alter("labelskip", "entrydate", With({"labelskip"}))
DropEntryDate == Alter("entrydate", "audit", [dbFile EXCEPT !.has = @ \ {"entrydate"}])

\* The columns of history one by one, in no order, without a backup.
AddAuditColumn ==
    \E x \in AuditColumn \ dbFile.has :
        /\ dbFile.state = "whole"
        /\ Steps("audit", "audit") /\ Writes(With({x})) /\ UNCHANGED <<runtime, synced>>
AuditColumnsThere ==
    /\ dbFile.state # "whole" \/ AuditColumn \subseteq dbFile.has
    /\ Steps("audit", "settings") /\ Writes(dbFile) /\ UNCHANGED <<runtime, synced>>

\* One row is copied into a new table that takes the old one's name, in a transaction.
RebuildSettings == Alter("settings", "create", [dbFile EXCEPT !.settings = "current"])

CreateSettings ==
    /\ Steps("create", "row") /\ UNCHANGED <<runtime, synced>>
    /\ Writes([dbFile EXCEPT !.settings = IF @ = "absent" THEN "current" ELSE @])
InsertSettingsRow ==
    /\ Steps("row", "sentat") /\ UNCHANGED <<runtime, synced>>
    /\ Writes([dbFile EXCEPT !.row = TRUE])

AddSentAt == Alter("sentat", "tables", With({"sentat"}))

\* Mutant: tables that are not there come without the columns added to them since.
CreateTables_WithoutColumns ==
    /\ Steps("tables", "seeds") /\ Writes(With({"tables", "resets", "profiles"}))
    /\ UNCHANGED <<runtime, synced>>

\* Tables that are not there come with all their columns.
CreateTables ==
    LET new == {"tables"} \cup (IF "resets" \in dbFile.has THEN {} ELSE {"resets", "sentat"})
                   \cup (IF "profiles" \in dbFile.has THEN {} ELSE {"profiles", "lastlogin"})
    IN  Steps("tables", "seeds") /\ Writes(With(new)) /\ UNCHANGED <<runtime, synced>>

SeedRows == Steps("seeds", "profiles") /\ Writes(With({"seeds"})) /\ UNCHANGED <<runtime, synced>>

BackfillProfiles ==
    Steps("profiles", "lastlogin") /\ Writes(With({"profiled"})) /\ UNCHANGED <<runtime, synced>>

AfterUpgrade == CASE why = "start" -> "key" [] why = "import" -> "sync" [] OTHER -> "serving"
AddLastLogin == Alter("lastlogin", AfterUpgrade, With({"lastlogin"}))

-----------------------------------------------------------------------------
\* The key of the configuration, of the file, or a new one for the file.
ResolveKey ==
    /\ Steps("key", "secret") /\ UNCHANGED synced
    /\ \/ configured # NoSigningKey /\ runtime' = configured /\ Writes(dbFile)
       \/ configured = NoSigningKey /\ dbFile.key # NoSigningKey
          /\ runtime' = dbFile.key /\ Writes(dbFile)
       \/ configured = NoSigningKey /\ dbFile.key = NoSigningKey
          /\ runtime' \in Drawn /\ Writes([dbFile EXCEPT !.key = runtime'])

\* A password in plain text or under the key of the server comes under the fixed
\* key; one under a key that is not known cannot be read.
Encrypted(secret) == IF secret = NoBind THEN NoBind ELSE [secret EXCEPT !.under = "fixed"]
Readable(secret) == secret # NoBind => secret.under \in {"plain", "fixed", runtime}

\* One that cannot be read ends the start.
EncryptSecret ==
    /\ Steps("secret", "serving") /\ Readable(dbFile.secret)
    /\ Writes([dbFile EXCEPT !.secret = Encrypted(@)])
    /\ UNCHANGED <<runtime, synced>>

\* An import, behind a backup of its own.
Install(f) ==
    /\ stage = "serving" /\ "profiles" \in f.has
    /\ stage' = "color" /\ why' = "import" /\ before' = dbFile
    /\ saved' = saved \cup Holdings(dbFile) /\ Writes(f)
    /\ UNCHANGED <<fresh, copied, configured, runtime, synced>>

\* It is copied over the file, and the server is gone before the end.
InstallCutShort ==
    /\ stage = "serving" /\ saved' = saved \cup Holdings(dbFile)
    /\ GoesDown /\ Writes(Blank("torn")) /\ UNCHANGED fresh

\* An upgrade that fails under an import takes the replaced file back.
RestoreBefore ==
    /\ why = "import" /\ stage \in Upgrading
    /\ stage' = "color" /\ why' = "restore" /\ copied' = FALSE
    /\ Writes(before) /\ UNCHANGED <<before, saved, fresh, configured, runtime, synced>>

\* A key that cannot be written is an entry of the log.
SyncKey(ok) ==
    /\ Steps("sync", "serving") /\ UNCHANGED runtime
    /\ synced' = ok /\ Writes(IF ok THEN [dbFile EXCEPT !.key = runtime] ELSE dbFile)

NextSecond == fresh # {} /\ fresh' = {}
    /\ UNCHANGED <<dbFile, before, saved, held, stage, copied, why, configured, runtime, synced>>

StartupNext ==
    \/ Boot \/ Stop \/ StatFile \/ MakeTables
    \/ BackUpBeforeAlter \/ BackUpCutShort
    \/ AddColor \/ AddLabelSkip \/ DropEntryDate \/ AddAuditColumn \/ AuditColumnsThere
    \/ RebuildSettings \/ CreateSettings \/ InsertSettingsRow \/ AddSentAt
    \/ CreateTables \/ SeedRows \/ BackfillProfiles \/ AddLastLogin
    \/ ResolveKey \/ EncryptSecret
    \/ (\E f \in OldFile : Install(f)) \/ InstallCutShort \/ RestoreBefore
    \/ (\E ok \in BOOLEAN : SyncKey(ok))
    \/ NextSecond

StartupSpec == StartupInit /\ [][StartupNext]_startupVars

-----------------------------------------------------------------------------
\* Every variable has its range: the file, what is in backups, the steps and the keys.
StartupTypeOK ==
    /\ dbFile \in DataFile /\ before \in DataFile
    /\ saved \subseteq Origin \X {"rows", "settings", "entrydate"}
    /\ held \subseteq Origin \X {"rows", "settings", "entrydate"}
    /\ fresh \subseteq Upgrading /\ stage \in Stages
    /\ copied \in BOOLEAN /\ synced \in BOOLEAN /\ why \in {"start", "import", "restore"}
    /\ configured \in SigningKey \cup {NoSigningKey} /\ runtime \in SigningKey \cup {NoSigningKey}

\* Whatever the file was and wherever earlier starts and imports were cut off, a file that
\* is served has every table, column and row that handlers read and none that went, and
\* a restart takes up the key that tokens are signed with, unless one was configured or
\* an import failed to write it; after a start the bind password can be read.
ServedComplete ==
    stage = "serving" =>
        /\ dbFile.state = "whole" /\ dbFile.settings = "current" /\ dbFile.row
        /\ Brought \subseteq dbFile.has /\ "entrydate" \notin dbFile.has
        /\ configured = NoSigningKey /\ synced => dbFile.key = runtime
        /\ why = "start" /\ dbFile.secret # NoBind => dbFile.secret.under = "fixed"

\* Rows, columns and settings that were in the file at first or were ever served are in it
\* still or in a complete backup, at every point a crash can leave.
NothingLost == held \subseteq saved \cup Holdings(dbFile)
=============================================================================
