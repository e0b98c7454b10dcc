# Verification of the ITDB server

ITDB keeps an inventory of IT assets (hardware, software, contracts, invoices,
documents, racks, locations, agents) behind a Go HTTP server with one SQLite
database and one directory of uploads.  This directory holds TLA+ models of the
parts of that server whose behaviour is more than one SQL statement, the TLC
configurations that check them and TLAPS proofs of their main properties.

Paths below are relative to the repository (`src/backend/...`).

## 1. Inventory

How the parts meet: a handler under `router/` decodes the form, checks the
permission and calls one *workflow* under `internal/service/`, which runs SQL of
`internal/repository/` and records an audit event.  All of them share

- **one database connection** (`db.SetMaxOpenConns(1)`, `router/main.go`):
  whatever runs inside one transaction is atomic with respect to every other
  request, and whatever is done before `BeginTx` or after `Commit` is not; a
  freed connection goes to any of those who wait;
- **the 60 s of a request** (`middleware.Timeout`, `router/routes.go`), after which
  every later statement of its handler fails;
- **the upload directory**, outside any transaction;
- **`Router.dbMu`**, taken by the import and by the backup scheduler, never by an
  ordinary request;
- **`App.db`**, the handle, which an import closes and replaces under requests.

The tables have no foreign keys, and most saves do not test that the ids in their
path and form exist.  `AUTOINCREMENT` never hands out an id twice; `invoices` alone
has a plain `INTEGER PRIMARY KEY`, whose next id is the greatest in use plus one.

| Component | State | Operations | What is hard | What makes it correct |
|---|---|---|---|---|
| Licence ledger (`item_mutation_workflow.go`, `software_mutation_workflow.go`) | items' CPUs, software's title, quantity and type, rows of `item2soft` | create, update, delete of items and of software | two writers with two different checks of one table; ids that repeat, are not born yet, or are gone | no licence over-allocated; a metered licence only on items with counts |
| Racks (`rack_rules.go`, `rack_workflow.go`) | size and numbering of racks; position and size of items | save and delete of items and racks | the rack changes under a checked layout; count and delete are two transactions | no two items on one unit; a used rack stays |
| Connection pool (`main.go`, `routes.go`) | the connection, who waits for it | statements, transactions, deadlines | a handler that asks for a second connection while it holds the only one | every call ends |
| Database import (`import_database.go`) | file at the path, handle, `dbMu`, upload directory | the eleven steps of an import with all its error paths | runs under live requests; each step can fail; uploads are outside the transaction | requests get a database or nothing; no upload lost without a backup; the lock comes back |
| Legacy conversion (`import_legacy.go`) | old file, running database, new database | copy, mix users, renumber, take over roles | ids that collide; a running database that changes between the reads | every item is of the type and state it was by name; nobody becomes somebody else |
| Schema and start-up (`main.go`, `database_init.go`, `settings_schema.go`) | the database file, its backups, the key that signs tokens | bootstrap, upgrade step by step | crash between two statements; upgrade on a file that an import brought | what is served is complete; nothing is dropped without a backup |
| Backup and scheduler (`backup.go`, `backup_schedule.go`) | archives, plan, last run | list, dump, pack; expire; cron tick | the three steps are not one snapshot; the plan changes; the tick may miss its minute | backup holds what it lists; a due minute is tried; the newest backup stays |
| Documents (`files.go`, `file_storage.go`, `relations.go`) | rows of `files`, uploads, the four `x2file` tables | upload, replace, delete, clean-up by an owner's save | upload and row cannot be one transaction; names are read before it and uploads removed after it | a named upload is not removed; a shared document stays |
| Links (`relations.go`) | six `x2y` tables and `itemlink` | replace, delete references | rows written from both ends; rows left by deletes; reused invoice ids | one row per item link; nothing is inherited by a reused id |
| Item composition and item actions | items with all of the above, switch references, tags, history | one save writes them all | order of the checks and the writes | one save, all or nothing |
| Agents (`agent_workflow.go`) | agents' trades, columns that name an agent | create, update, delete, save of the records | uses are counted before the transaction | no record names a deleted agent |
| Locations and areas (`location_workflow.go`) | rows, floorplan files, what is placed in them | save, delete, statement by statement | count before delete; file before and after row | a shown floorplan stays; what is placed finds its place |
| Contracts, dictionaries, tags (`dictionary_rules.go`, `contract_workflow.go`, `*_tag_workflow.go`) | types, subtypes, contracts, tags and their links | save, delete, create on first use | look-up before insert | no delete takes what is referred to; unique texts |
| Sessions and login (`auth_workflow.go`, `login_throttle.go`) | accounts, failures, sessions | login, logout, change, reset | failure counted before, recorded after, the password check | a bounded number of attempts; a lock ends; a reset revokes |
| Password reset (`password_reset.go`) | captchas, tokens, log of mails | captcha, verify, send, confirm | several statements without a transaction, a mail server in between | a code is used once; mails are bounded |
| WeCom login (`wecom.go`, `wecom_sso.go`) | cached access token, bindings | callback, bind, unbind | a cache that every call may replace or drop | what others leave in the cache fails nobody |
| Users, roles, permissions (`settings_users.go`, `settings_roles.go`, `settings_groups.go`, `user_workflow.go`) | eight tables | saves in up to four commits, deletes with clean-up behind | interleaved and cut short saves | an administrator stays; nothing refers to a deleted role or user |
| Settings (`settings_*.go`) | rows of settings with and without a secret | read, merge, write | lost updates; a secret the form does not carry | what is in use is complete |
| Audit trail (`audit.go`, `history_clear.go`, `label_preset_workflow.go`) | rows of `history` | record, limit, list, clear | the event and the limit are two statements; clearing a page that is old | recent events stay; an event is true |
| Reports, browse, dashboard, labels, secrets, web client, API description | - | - | queries, formatting or pure functions | - |

`PROJECT.json` lists the files of each component, its status, and the hazards with
their lines.

## 2. Modules

| Module | Models | Theorems |
|---|---|---|
| `LicencePool` | abstract: pools of seats that fit their capacity after every step | - |
| `Licences` | the licence ledger, shown to implement `LicencePool` | `Licences_proofs` |
| `RackPlacement` | racks and the items mounted in them | `RackPlacement_proofs` |
| `ConnectionPool` | the one connection, waits, deadlines | `RackPlacement_proofs` |
| `DatabaseImport` | import, backup, upload and delete of documents | `DatabaseImport_proofs` |
| `AssetLinks` | hardware, software, invoices and contracts linked to each other | `Records_proofs` |
| `Sessions` | login, throttle, sessions, change and reset of passwords | `Sessions_proofs` |
| `PasswordReset` | captcha, token, mail and code; composed with `Sessions` | `Sessions_proofs` |
| `Wecom` | access token, binding, login; composed with `Sessions` | `Sessions_proofs` |
| `Access` | users, groups, roles, permissions | `Administration_proofs` |
| `Dictionaries` | types, subtypes, contracts, tags | `Records_proofs` |
| `Agents` | agents and the records that name them | `Records_proofs` |
| `Locations` | locations, areas, floorplans, what is placed there | `Records_proofs` |
| `Settings` | settings that hold a secret | `Records_proofs` |
| `LegacyConversion` | conversion of an old database beside the running one | `Administration_proofs` |
| `Documents` | documents, their uploads and what refers to them | `Operations_proofs` |
| `Startup` | bootstrap and upgrade of the database file, keys, crashes | `Operations_proofs` |
| `Schedule` | backup plan, cron match, scheduler, expiry | `Operations_proofs` |
| `AuditTrail` | rows of `history`, label presets, the page that clears | `Operations_proofs` |
| `MC...` | values of the constants for TLC; which components share a run | `Operations_proofs`, `Administration_proofs` for `MCOperations`, `MCAdministration` |
| `NaturalFacts` | no code: least and greatest elements of sets of numbers, ranks | itself; `Administration_proofs` and `Sessions_proofs` cite it |

`MCRacks`, `MCRequests`, `MCAdministration` and `MCOperations` put several
components that share no variable into one run.  A variable `part`, chosen at the
start, says which of them moves; the others keep their initial state.  This is a
matter of how TLC is started, not a composition; the compositions are
`PasswordReset` and `Wecom` with `Sessions`.

In every module a step is what is atomic in the code: a transaction, or a single
statement where the code opens none, or one access to the file system.  What a
handler has read and not yet used is kept in a variable of that handler
(`request`, `req`, `job`, `survey`, ...).  A variable marked *history* in its
module is read by no guard; it only serves to state a property.

### Licences

| TLA+ | Code |
|---|---|
| `itemStatus`, `softStatus` | rows of `items`, `software`: unborn ids can be named by forms before they are handed out |
| `metering`, `entitlement` | `cpuno`, `corespercpu`; `stitle`/`sversion`, `licqty`, `lictype` |
| `item2soft` | number of rows (item, software): the table has no unique key |
| `CreateItem`, `UpdateItem`, `DeleteItem` | `ItemMutationWorkflow.Create/Update/Delete` with `enforceSoftwareLicenseLimits`, `ReplaceIDLinks`, `DeleteItemReferences` |
| `CreateSoftware`, `UpdateSoftware`, `DeleteSoftware` | `SoftwareMutationWorkflow.*` with `enforceSoftwareLicenseCount`, `SoftwareTitleExists` |

A workflow checks and writes inside one transaction on the only connection, so it
is one action; a refused one is a stuttering step.  Sums over link rows are
written as the size of a set of seats, `(item, copy, unit)`, which makes them
provable without a recursive definition.  The two checks differ, and the model
keeps the difference: the item side counts every row of the other items, the
software side counts each linked item once.

`LicencePool` is what the ledger promises.  Its state is a set of seats for each
holder and pool; a step moves one holder's seats or redefines one pool, and
afterwards all pools fit.  The refinement mapping takes an item's seats from
`item2soft`, its CPUs and the type of the licence.

### RackPlacement

| TLA+ | Code |
|---|---|
| `place`, `shape` | `rackid`, `rackposition`, `usize`; a rack's `usize`, `revnums` |
| `Span`, `WithinRack`, `NoConflict`, `PlacementAllowed` | `ValidateRackPlacement`, `enforceRackPlacement` |
| `CreateItem`, `UpdateItem`, `DeleteItem` | the item workflows as far as racks go |
| `CreateRack`, `UpdateRack` | `RackWorkflow.Create/Update` |
| `CheckDeleteRack`, `CommitDeleteRack`, `AbandonDeleteRack` | `RackWorkflow.Delete` before and after `BeginTx` |

The delete is split because its count of the rack's items runs on a connection
that is given back before the transaction begins.

### ConnectionPool

| TLA+ | Code |
|---|---|
| `conn` | the connection of `sql.DB` with `SetMaxOpenConns(1)` and who has it |
| `call` | for each goroutine that uses the database: how far it is, how many pieces are left, whether it has a deadline and whether that is over |
| `Arrive` | a request with some statements or transactions, a call without deadline (scheduler, a few lists), or the rack save below |
| `GetConnection`, `FinishPiece` | `DB.conn`; `rows.Close`, `Commit`, `Rollback` |
| `LoadRackName` | `RackWorkflow.rackName` asking `s.repo`, the pool, inside the open transaction of `Update` |
| `Deadline`, `RollBackExpired`, `GiveUp`, `ReturnLate` | the 60 s, `Tx.awaitDone`, the wait that ends with an error, the return of the handler |

### DatabaseImport

| TLA+ | Code |
|---|---|
| `file`, `rows` | bytes at the database path; documents with a row in it |
| `handle` | whether `App.db` can be used |
| `disk` | the upload directory |
| `request` | how far the upload or delete request of each document is |
| `adrift` | transactions that run on a handle closed since |
| `dbMu`, `step` | holder of `Router.dbMu` and what it does next |
| `CheckTitle` ... `FailDelete` | `handleCreateFile`, `handleDeleteFile`, `RelationService.DeleteFile` |
| `ListUploads`, `DumpDatabase`, `PackBackup`, `FailBackup` | `CreateImportBackup`, `CreateScheduledBackup`, `ReferencedUploadFiles` |
| `StartImport` ... `RemoveBundled` | `handleImportDatabase` from the lock on |

Assumptions of the model: the documents of an imported file are not being uploaded
at that moment (stored names end in a random id, and a name that no answer has
returned yet is in no archive).  `sql.DB.Close` leaves a running transaction its
connection; whether its commit reaches the file then at the path depends on
SQLite and the platform and is a nondeterministic choice.  The router's
timeout and every I/O error are failure actions.  A crash in the middle of the copy
over the database is in `Startup`, the conversion of a legacy database in
`LegacyConversion`, the replacement of a document's upload in `Documents`.

### AssetLinks

| TLA+ | Code |
|---|---|
| `links` | rows of `item2soft`, `item2inv`, `contract2item`, `soft2inv`, `contract2soft`, `contract2inv` |
| `itemlink` | number of rows of `itemlink` for two ids in their columns |
| `leftover` | history: links not written since one end was deleted |
| `ReplaceLinks`, `ReplaceItemLinks` | `ReplaceIDLinks`, `ReplaceUndirectedItemLinks` |
| `Unused` | the primary keys of the four tables |
| `CreateAsset`, `UpdateAsset`, `DeleteAsset` | the four workflows; `ClearedKinds` lists what each `Delete...References` clears |

### Sessions, PasswordReset, Wecom

| TLA+ | Code |
|---|---|
| `account`, `pass` | `users` and `settings_user_profiles` of a name; the stored password and whether it is in an old form |
| `failures` | `login_failure_log`: the ages of a name's rows |
| `session` | `user_sessions` and what became of each row |
| `req` | where a handler of `router/auth.go`, `password_change.go` or the end of `password_reset.go` is |
| `Attempt`, `CountFailures`, `ForgetExpiredLock`, `VerifyPassword`, `PurgeFailures`, `RecordFailure`, `StoreSession`, `ClearFailures` | `handleLogin` with `ensureLoginAllowed`, `AuthWorkflow.Login` and `recordLoginFailure`, a statement at a time |
| `Rehash` | `UpdateAuthPassword`, when a password stored in an old form was right |
| `BeginReset`, `ResetPassword`, `Unlock`, `RevokeSessions`, `FinishReset` | `handlePasswordResetConfirm` |
| `Abandon` | the request's context is cancelled: the rest of the handler does not happen |
| `Tick`, `ExpireSession` | the clock, in ticks; ages above `Day` are not told apart |
| `captcha`, `token`, `sends` | `password_reset_captchas`, `_requests`, `_send_log` |
| `flow`, `spending`, `answers` | verify and send handlers; the token of a confirmation; history |
| `accepted`, `cached` | the tokens WeCom takes (external); `wecomTokenCache`, whose mutex is held for one access only |
| `binding`, `call` | `settings_user_wecom`; where an exchange is |

A sent row older than the window is dropped from `sends`: the code deletes such
rows and counts none of them.  LDAP is a directory that accepts or refuses.

### Access

| TLA+ | Code |
|---|---|
| `user`, `disabled`, `userRole` | `users`, `settings_user_profiles`, `settings_user_roles` |
| `role`, `grant` | `settings_roles` with their status and permissions as stored |
| `group`, `member`, `groupRole` | the three tables of groups |
| `holder` | `items.userid` |
| `late`, `cut`, `undone` | history: items given to a gone user, deletes cut short, creations taken back |
| `job` | where a save or delete is: a user is saved in three commits, created in four, deleted in one and three statements behind it; a group is saved in two |
| `Normalized`, `AtStart`, `EffectiveRoles`, `Permissions` | `normalizePermissions` (a function by recursion over rounds), the rewriting of stored keys at a start, `UserAccess`, `HasPermission` |
| `CutBehind`, `CutShort`, `Restart` | error returns between two commits; a new start, which writes the built-in roles anew |

### Records: Dictionaries, Agents, Locations, Settings

| TLA+ | Code |
|---|---|
| `type`, `subtype`, `contract`, `tag`, `thing`, `tagged` | `contracttypes`, `contractsubtypes`, `contracts`, `tags`, items and software, `tag2item`/`tag2software` |
| `missing`, `loose`, `doubled` | history: references written to what was not there, tags added beside one of their text |
| `LookTag`, `AddTag`, `LinkTag` | `EnsureTagLogged` and `Mutate`: three statements; everything else of `Dictionaries` is a transaction |
| `trades`, `named` | `agents.type`; the columns of items, software, invoices and contracts that name an agent |
| `unknown`, `unfit` | history: a use saved with an agent that was not there, or not a contractor |
| `edit`, `CountUses`, `StoreAgent` | `AgentWorkflow.Update`: count, then an `UPDATE` outside any transaction |
| `floorplan`, `areaOf`, `place`, `spot`, `disk` | `locations`, `locareas`, `locationid` and `locareaid` of items and racks, floorplan files |
| `survey` | where a handler of a location or area is, with the file name it has read |
| `drawn`, `strayed` | history |
| `setting`, `listed`, `page` | the three settings with a secret, `settings_auth_providers`, where a save is |

### LegacyConversion

`source` is the uploaded file, `running` and `runningRole` the database that goes on
serving, `merged`, `mergedRole`, `types`, `states`, `records` the new one; `mine`,
`taken`, `pending`, `imported`, `moving`, `todo` are the local variables of
`mergeLegacyUsers` and `rebuildLegacyItemTypes`.  `CopyTables`, `CopyUsers`,
`CollectNames`, `ImportUser` ..., `RenumberStates`, `RebuildTypes`, `MoveRecords`,
`RestoreRoles`, `AssignRoles` follow the code in order; the two loops over a Go map are
taken in every order.

### Documents

| TLA+ | Code |
|---|---|
| `docStatus`, `fname` | rows of `files` and the upload they name |
| `linked` | rows of `item2file`, `software2file`, `invoice2file`, `contract2file`, whose owners are told apart |
| `disk` | the upload directory |
| `request` | for each stored upload, how far its request is, the document it is for and the old name that request has read |
| `StoreNew`, `CommitNew` | `handleCreateFile` before and from `BeginTx` |
| `StoreReplacement`, `CommitReplacement`, `RemoveReplaced` | `handleUpdateFile` before, in and after its transaction |
| `UpdateDocument` | `handleUpdateFile` without an upload |
| `DeleteFiles`, `Unwanted` | `RelationService.DeleteFile`, `CleanupRemovedFileLinks` |
| `DeleteDocument`, `SaveOwner`, `DeleteOwner` | `handleDeleteFile`; `update`/`updateTx` and `Delete...References` of the four workflows |
| `FailRequest`, `FailDeleteDocument`, `FailSaveOwner` | the error returns and the deferred `Rollback`, which does not bring removed uploads back |

Where `DatabaseImport` looks at documents as an import meets them (running
transactions, the handle, the lock), `Documents` looks at them as they meet each other.

### Startup

| TLA+ | Code |
|---|---|
| `dbFile`, `before` | the database file: whether it is there, empty, whole or torn, the tables, columns and rows the steps look for, whose data it is, the bind password and the key it holds; the file an import replaced |
| `saved`, `held` | what is in complete backups; history: what was there at first or was served |
| `fresh`, `copied` | backups named by the same second; whether the one for the next step is complete |
| `stage`, `why` | the step of `EnsureRuntimeSchema` and of `RunWithConfig` that is next; whether for a start, an import or its reversal |
| `configured`, `runtime`, `synced` | the key given by flag, environment or file; the key tokens are signed with; whether the import's `syncRuntimeJWTSecret` could write it |
| `Boot`, `StatFile`, `MakeTables`, `AddColor` ... `AddLastLogin`, `ResolveKey`, `EncryptSecret` | the start, a statement or transaction at a time |
| `BackUpBeforeAlter`, `BackUpCutShort`, `Stop`, `InstallCutShort` | `BackupDatabaseBeforeAlter`, crashes and failing steps |
| `Install`, `RestoreBefore`, `SyncKey` | `handleImportDatabase` as far as the file, its schema and the key go |

### Schedule

| TLA+ | Code |
|---|---|
| `base`, `saving` | the row of `settings_base` with its sections; what a save has read |
| `third`, `tick` | the time in thirds of a minute (the ticker's 20 s); a tick that waits |
| `scheduler`, `lastRun` | where `StartBackupScheduler` is, with the plan and minute it has read; `minuteKey` |
| `importing` | whether an import holds `dbMu` |
| `backups` | the directory of backups |
| `tried`, `made`, `calm` | history |
| `PartMatches`, `FieldMatches`, `CronMatches`, `Expired` | `matchCronPart`, `matchCronField`, `CronMatches`, `CleanupExpiredScheduledBackups` |

### AuditTrail

| TLA+ | Code |
|---|---|
| `presets` | `labelpapers`, deleted rows too |
| `history`, `sequence` | rows of `history`; the last id given |
| `clerk` | where a handler is: between the change, the event and the deletion of old rows |
| `page` | ids the page listed last |
| `recorded`, `shown`, `erased`, `untrimmed` | history |
| `RecordEvent`, `ApplyHistoryLimit` | `insertHistory`, `applyHistoryLimit`: two statements |
| `CommitChange`, `RollBackChange` | `RecordEventTx` in the transaction of a change |
| `ClearHistory`, `ListHistory` | `handleHistoryClear`, `handleHistory` |
| `FindPreset` ... `DeletePreset` | `LabelPresetWorkflow`, whose statements stand alone |

## 3. Runs

| Run | Module | Bounds | Shows |
|---|---|---|---|
| `licences` | `MCLicences` | 2 items, 2 software, 2 titles, quantities 1, 3 or none, CPUs 0-1, cores 0 or 2, an id up to twice in a form | `LicenceRespected`, `InstallationsAreMetered`, and that the ledger implements `LicencePool` |
| `racks` | `MCRacks` | racks: 2 items, 2 racks of 2-3 units, positions 0-3, items of 1-2 units; pool: 3 callers, of which one only runs statements, 2 pieces a call | `LayoutKeptByItems`, with rack deletes in flight; `CallsEnd` |
| `import` | `MCDatabaseImport` | 2 documents, 4 kinds of imported file, any number of imports and scheduled backups | `ServesADatabase`, `PendingUploadsStay`, `RemovedUploadsAreBackedUp`, `RestoredUploadsSurvive`, `LockIsReleased` |
| `requests` | `MCRequests` | sessions: 1 name, 2 passwords, 2 sessions, 2 handlers, 2 failures lock, a lock of 2 ticks, failures purged after 3; links: 2 items, 1 invoice, 1 contract | `FailuresBounded`, `ResetRevokes`, `LocksEnd`; `OneRowPerItemLink`, `NothingIsInherited` |
| `operations` | `MCOperations` | documents: 2, with 2 owners and 3 uploads; start: 4 old files and none, 3 launches, 2 keys, 1 bind password; schedule: hours of 2 minutes, backups kept for minutes instead of days, 9 thirds of a minute, 2 plans, 1 import; trail: 2 handlers, history limit 1, page of 2, 3 events, 2 presets | `ReplacedUploadsAreUnnamed`, `SharedDocumentsStay`; `ServedComplete`, `NothingLost`; `DueMinutesTried`, `BackupsKept`; `HistoryKept`, `PresetsTold`; `OperationsTypeOK` |
| `administration` | `MCAdministration` | 2 handlers everywhere; 1 name, 2 tokens and 1 mail in a window of 2 ticks; 2 access tokens, 2 members; 2 users, 2 roles, 1 group, 1 item; 3 types, 2 subtypes, 2 contracts, 2 tags, 2 things; 2 agents, 2 uses; 2 locations, 1 area, an item and a rack, 3 files; 3 kinds of setting; old dictionaries with 4 ids | `SendsBounded`, `TokenAnswersFew`; `OwnKeyRefused`; `AdminKept`, `RolesKnown`, `MembersKnown`, `ItemsHandedOver`, `PermissionsFollow`; `ReferencesKept`, `EntriesUnique`; `AgentsCleared`; `LocationsKept`; `EnabledComplete`; `LegacyNamesKept`, `LegacyUsersKept`; `AdministrationTypeOK` |
| `licences_used` | `MCLicences` | 1 software, 1 title | `UsedQtyWithinLicence` fails |
| `rack_layout` | `MCRackPlacement` | as `racks` | `ConflictsRejected` fails |
| `rack_delete` | `MCRackPlacement` | as `racks` | `UsedRackNotDeleted` fails |
| `rack_save_waits` | `MCConnectionPool` | as the pool of `racks` | `SavesNeedOneConnection` fails |
| `import_restore` | `MCDatabaseImport` | as `import` | `RestoredMeansOriginal` fails |
| `links_deleted` | `MCAssetLinks` | 2 items, 1 of each other kind | `DeletedAssetsAreUnlinked` fails |

The type invariants that TLAPS proves are not checked a second time, save as parts of
`OperationsTypeOK` and `AdministrationTypeOK`.

**Why the bounds are enough to be interesting.**  Over-allocation takes two items,
one inside and one outside the save; interference of the two writers takes two
software.  One item with 2 cores against a quantity of 1 alone exceeds a licence; two
such items against a quantity of 3 exceed it only if both are weighed, not counted.  A rack conflict takes two items, of which
one has to be larger than a unit for overlap and equal positions to differ; moving
between racks takes two racks; 3 units let an item stick out at either end.  A caller
of the pool can be stuck behind itself with a second one waiting behind it; the third
shows that the second may be passed over.  The
import needs one document the archive brings and one it does not: its uploads are
an empty database, one whose row names an upload it does not bring, an archive
with its upload, and one with an upload no row names.  Three uploads are what two
overlapping replacements of one document need besides the upload they replace; two
owners make a document shared.  An item link takes two items; an inherited link takes
an invoice, whose id can be used again, and a kind its delete forgets, here a
contract.  Software is in the violation run only: it clears and leaves what an invoice
does.

Everything about users, groups, tags, agents, locations, settings, label presets and
the audit trail goes wrong, if it does, between two handlers, and each statement names
its own row: two handlers, with a row to fight over and a second row that must not be
touched.  Of sessions, one name is enough because every statement names its user, and
two passwords because one has to be wrong; a lock shorter than the purge makes the two
deletions of old failures differ.  A legacy dictionary has ids from 0 with a gap, a name
twice and a blank one, and an id that is old for one name and new for another, so that
the order of the loops could matter.  The old files of `Startup` are of four ages: one
before the settings were a row, one whose row is missing, one with the bind password
under the key in the file and one with it in plain text.  Three minutes and a third, and hours of two,
let a plan be due, not due and due again in another hour; `calm` needs an undisturbed
minute after a disturbed one.  A history limit of 1 with 3 events makes two handlers
trim each other's rows.

**Named bounds.**  `MaxFailures`, `Lock`, `Day`, `MaxSends`, `Window`, `HistoryLimit`,
`PageLimit`, `HourLength`, `DayLength` are settings or lengths of the code; `MaxPieces`
(pieces of one call), `MaxThird` and `MaxImports` (`Schedule`), `MaxDays`, `MaxEvent`
and `MaxPreset` (`AuditTrail`), `MaxUser` and `MaxOld` (`LegacyConversion`) bound the
model and are guards or ranges.  Everything else is finite by the choice of the constants.

**Symmetry** is used over values that no definition tells apart, where only safety is
checked: not in `racks`, `import` and `requests`, which check liveness (`requests` also
compares ids).  In `administration` and `operations` it is over the handlers and one
pair of ids; the same model values stand for the ids of different tables, which never meet.

**Deadlock** is checked where the system goes on for ever.  `operations` and
`administration` say `CHECK_DEADLOCK FALSE`: a conversion ends, the bounded time, events
and presets run out.

**Fairness.**  `import`: `WF(EndTransaction(d))`: a handler runs a few
statements and the router's timeout cancels the rest.  `SF(ListUploads)`,
`SF(DumpDatabase)`: `database/sql` hands a freed connection to one of those who wait,
drawn at random (`connRequestSet.TakeRandom`), so that the holder of `dbMu` is not passed
over for ever although the connection is taken again and again.  `WF(PackBackup)`,
`WF(Replace)`: the goroutine that holds `dbMu` keeps running.  A backup is assumed to
fail only where it must: the handle is closed, or a listed upload is gone.
`racks`: the same random draw is `SF(GetConnection(c))`; weak fairness of a handler's own
steps, of its deadline and of the returns after it, since handlers run on and time
passes; callers without a deadline rest on the others' alone.  `requests`: `WF(Tick)`,
time passes.  Nowhere is a request assumed to arrive, and nothing is assumed to succeed
that can fail.

## 4. Findings

1. **`licences_used`**: a software form that names one item twice is checked as one
   installation and stored as two rows, and the list's "used" is the sum over rows.
   `README.en.md` says usage is derived from links and over-allocation is rejected.
2. **`rack_layout`**: `RackWorkflow.Update` stores another size or direction without
   looking at the mounted items.  `README.en.md` says conflicts are rejected.
3. **`rack_delete`**: an item mounted between the count and the transaction does not
   stop the delete.  `docs/manual.md` says a referenced rack gives 409.
4. **`rack_save_waits`**: the update of a rack that comes with a change note but has
   neither label nor place asks the pool for the rack's name inside its own transaction,
   which holds the only connection.  It waits for itself, everybody else waits behind it,
   and after 60 s it is rolled back: such an update can never be stored.  The comment on
   `rackName` says the name is put together from the form and the place.  `CallsEnd` holds:
   the deadline frees the connection.
5. **`import_restore`**: a backup that bundles uploads is a zip, and
   `restoreImportedDatabase` copies that zip over the database; the answer is
   nevertheless that the original database was restored.  The handle stays closed, which
   is why `ServesADatabase` holds: the server serves nothing, not garbage.
6. **`links_deleted`**: deleting hardware leaves its rows of `contract2item`,
   deleting software those of `soft2inv` and `contract2soft`, deleting an invoice those
   of `soft2inv` and `contract2inv`; the other end's details go on listing the
   deleted id.  `docs/manual.md` says that links are deleted too.  `NothingIsInherited`
   is why the rows do not reach a new invoice with a used id.

Not findings, for the repository promises nothing of them; the models contain them, and
the exceptions in the properties say where:

- two overlapping replacements of a document both remove the name they read, and the
  upload that the first one stored stays on disk without a row;
- a login that re-hashes an old password (`auth_workflow.go:79-82`) overwrites a change
  that was answered in between;
- a user whose delete was cut short behind its row keeps memberships and roles
  (`MembersKnown` excepts it until it is cleaned up);
- a crash between creating and filling the database file leaves an empty file; no later
  start gets past it (`database_init.go`, `EnsureDatabaseInitialized` in `db.go`);
- an import does not run `EnsureSettingsSecretsEncrypted`, and taking over its key can
  leave a bind password under a key that is gone: the next start ends (`main.go:203-205`);
- the history keeps one row more than its limit (`audit.go:125`);
- the update of a label preset that was deleted in between hits no row and still records
  its event (`label_preset_workflow.go:40-54`); two presets of one name are possible;
- two saves of different sections of the base settings can lose one of them
  (`settings_base.go:32`), although the comment on the merge has other sections stay;
  settings that cannot be read are overwritten by defaults merged with the form;
- a tick that waits for an import misses its minute (`DueMinutesTried` excepts it).

## 5. Proofs

For every value of the constants that satisfies the module's named assumption
(`LicencesAssumption`, `RackPlacementAssumption`, `ConnectionPoolAssumption`,
`DatabaseImportAssumption`, `AssetLinksAssumption`, `SessionsAssumption`,
`PasswordResetAssumption`, `WecomAssumption`,
`AccessAssumption`, `DictionariesAssumption`, `AgentsAssumption`, `LocationsAssumption`,
`SettingsAssumption`, `DocumentsAssumption`, `StartupAssumption`, `ScheduleAssumption`,
`AuditTrailAssumption`: types of the constants, "no value" outside the values, positive
limits, finite sets where something is counted).  Three say a little more:
`AccessAssumption` has a finite catalogue of permissions, `LegacyAssumption` has the
offset by which ids are moved out of the way above every id of a dictionary, and
`StartupAssumption` has every stored database be somebody's.  `MCOperations` and
`MCAdministration` choose some values for their parts; `OperationsAssumption` and
`AdministrationAssumption` say that these are values of the components.  TLC evaluates
each assumption in a run.

| Theorem | States | Argument |
|---|---|---|
| `Licences_proofs!TypeCorrect` | `[]TypeOK` | inductive alone |
| `LicencesAreRespected` | `[]LicenceRespected` | inductive with `TypeOK`. An item save: the seats consumed afterwards lie in those of the other rows and the item's own, which the check has added up. A software save: they are those the check has counted. Lemma `SeatsMonotone` lets row counts be compared with single installations |
| `UnquantifiedStaysUnlinked` | `[]UnquantifiedIsUnlinked` | inductive with `TypeOK` |
| `InstallationsStayMetered` | `[]InstallationsAreMetered` | inductive with `TypeOK` |
| `LedgerImplementsPools` | `Spec => ImplementsPools` | the three invariants give `Fits` after each step (`LedgerFits`), the frame conditions of each action give the shape of the abstract step |
| `RackPlacement_proofs!TypeCorrect` | `[]TypeOK` | inductive alone |
| `ItemsKeepLayout` | `LayoutKeptByItems` | `TypeOK` as invariant; lemma `CheckedPlaceKeepsLayout` for a save, removal of items for the rest |
| `TheConnectionIsGivenBack` | `[]PoolTypeOK` | inductive alone: who holds the connection is at a step that ends in giving it back |
| `DatabaseImport_proofs!TypeCorrect` | `[]TypeOK` | includes the agreement of `dbMu` and `step`, without which no step past the backup is known to be an import's |
| `ADatabaseIsServed` | `[]ServesADatabase` | strengthened by "the handle is closed wherever the file may be overwritten" (`HandleFollowsSteps`) |
| `PendingUploadsAreKept` | `[]PendingUploadsStay` | strengthened by "an upload not answered yet is named by no row, no backup and no import" (`UnansweredIsUnknown`) |
| `UploadsLeaveBackedUp`, `RestoredUploadsAreSpared` | the two action properties | each step that removes from `disk`, with `TypeOK` |
| `Records_proofs!TypeCorrect` | `[]TypeOK` | inductive alone |
| `ItemsAreLinkedOnce` | `[]OneRowPerItemLink` | with `TypeOK`: lemma `SaveItemLinks`, a save leaves no row that names its item before it writes one for each peer |
| `NothingIsEverInherited` | `[]NothingIsInherited` | with `TypeOK`: lemma `SaveLinks`, a save leaves its asset no leftover, so that a create makes no leftover whole |
| `RequestsChangeOwnRows` | `OthersLinksStay` | the same two lemmas |
| `SessionsTypeCorrect` | `[]SessionsTypeOK` | inductive alone |
| `FailuresStayBounded` | `[]FailuresBounded` | strengthened by `Counted`: a name's failures and the attempts for it that have passed the count are together fewer than the threshold and the handlers. Purging only shortens (`PurgedType`), and an attempt that records leaves the set it was counted in (`CountedShrinks`) |
| `ResetsRevoke` | `[]ResetRevokes` | strengthened by `SeenSessions`: what a reset has noted at its `UPDATE` are rows of that user, and none is left after its `DELETE` |
| `SendsStayBounded` | `[]SendsBounded` | strengthened by `SendsCounted`: an address's mails in the window and the sends for it that have passed the count are together fewer than the limit and the handlers. Mails only leave the window (`AgedType`); a send that logs leaves the set it was counted in |
| `TokensAnswerFew` | `[]TokenAnswersFew` | strengthened by `AnswersCounted`: the answers given with a token and the confirmations under way with it are together no more than the handlers, and a token that answered is used, so that no confirmation joins those under way |
| `ResetsKeepSessions` | `[](FailuresBounded /\ ResetRevokes)` of `PasswordResetSpec` | lemma `ResetStepsAreSessions`: every step of the composition is one of `Sessions` or leaves its variables alone, so the invariant of `Sessions` holds in it |
| `PasswordResetTypeCorrect` | `[]PasswordResetTypeOK` | ranges of the handlers (`ResetRangesStep`) and `SendsInWindow`, no logged mail is older than the window. Mails are logged in the order of their ages, so that those that leave the window are the first ones, exactly as many as the purge counts (`AgedInWindow`, with the greatest index that leaves), and a new one is the youngest (`LoggedInWindow`) |
| `WecomTypeCorrect` | `[]WecomTypeOK` | strengthened by `KeysOK`: what a call carries to its next step is a token, a member, a user, as that step needs |
| `WecomKeepsSessions` | `[](FailuresBounded /\ ResetRevokes)` of `WecomSpec` | lemma `WecomStepsAreSessions`, as for the reset |
| `OwnKeysOnlyRefused` | `[]OwnKeyRefused` | strengthened by `CallsOK`: WeCom takes the token of a call that insists, or revoked it since the call fetched it |
| `Administration_proofs!AnAdministratorStays` | `[]AdminKept` | the invariant `AccessInv` of all four: ranges of tables and handlers; `Keeper`, the row of the default administrator has its name and type, and so has every row a handler is about to write there; `JobsInOrder`, what a handler in the middle of a save or delete knows of its user, group and form; and the three below |
| `AssignedRolesAreKnown` | `[]RolesKnown` | as above: each replacement of roles checks them in its own transaction, each delete of a role clears both tables in its |
| `GroupMembersAreKnown` | `[]MembersKnown` | as above: a member that is gone has a delete behind it that is still to clean, or was cut short, or was a creation taken back |
| `ItemsAreHandedOver` | `[]ItemsHandedOver` | as above: the transaction that deletes the user hands over what it has then, whatever was counted before |
| `AccessTypeCorrect` | `[]AccessTypeOK` | from the same invariant, with `PermissionsAreExact`'s lemmas for what `normalizePermissions` returns |
| `PermissionsAreExact` | `[]PermissionsFollow` | of the operators, for any grants: the recursion over rounds has a solution (`RoundsExist`) which grows (`RoundsGrow`), stays inside every closed set of permissions (`RoundsFollow`), and is closed after as many rounds as there are permissions (`NormalizedCloses`: before that, a round that adds nothing is closed, and one that adds something counts) |
| `LegacyTypeCorrect` | `[]LegacyTypeOK` | the invariant `LegacyInv` of all three |
| `LegacyNamesAreKept` | `[]LegacyNamesKept` | `RecordsInv`: for each phase, where an item is whose state or type was `w`. During the moves out every id is its old one or that plus `Offset`, during the moves in that or the new one, according to what is still to be moved; `Leads`, the map from old ids to new ones respects names, and `Offset` is above all ids, so that no moved item is moved again |
| `LegacyUsersAreKept` | `[]LegacyUsersKept` | `UsersInv`: the copied users stay as they are, a row of the file that has been looked at is of a name that is taken or has a user with an id no copied user has (`NextUserIsNew`) |
| `AgentsTypeCorrect`, `SettingsTypeCorrect`, `LocationsTypeCorrect`, `DictionariesTypeCorrect` (`Records_proofs`) | the type invariants | each conjoined with the invariant of its line below |
| `DeletedAgentsAreCleared` | `[]AgentsCleared` | strengthened by `UsesInOrder`: a use names an agent that is there, or it was saved with one that was not; a contract names a contractor but for the recorded cases |
| `WhatIsInUseIsComplete` | `[]EnabledComplete` | strengthened by `CheckedComplete`: what a save has checked and is about to write is complete in itself, whatever the row is by then |
| `LocationsKeepTheirs` | `[]LocationsKept` | strengthened for files by `DrawnPlans`, `FreshPlans`, `OwnPlans`, `OldPlans` (a name is drawn once; a file not yet in a row is in one handler's hands; an old name a handler has read is in no row once its own update is committed), for places by what a delete has counted |
| `NothingNamedIsDeleted` | `[]ReferencesKept` | each delete looks for references in its own transaction (`ContractsFind`, `LinksFind`) |
| `EntriesStayUnique` | `[]EntriesUnique` | each save looks in its own transaction (`TypesUnique`, `SubtypesUnique`); tags are excepted where the two statements of `EnsureTagLogged` overlap (`TagsUnique`) |
| `Operations_proofs!TypeCorrect` | `Documents`' `[]TypeOK` | from the invariant of the next line |
| `ReplacedUploadsStayUnnamed` | `[]ReplacedUploadsAreUnnamed` | strengthened by `OldNames`: a name belongs to one document at most, a name that was read had been given by a commit before, and while a document still names it, the replacement that read it is for that document and not committed. Names are never used twice, so its commit ends that |
| `SharedDocumentsAreKept` | `SharedDocumentsStay` | `Unwanted` contains no document with another owner, an unreferenced one has none at all; `TypeOK` and `ReplacedUploadsAreUnnamed` for the removal of a replaced upload |
| `ScheduleTypeCorrect` | `[]ScheduleTypeOK` | inductive with the arithmetic of minutes and durations (`MinutesGrow`, `Durations`) |
| `BackupsAreKept` | `[]BackupsKept` | strengthened by `OneJustMade`: when the scheduler cleans up, the backup it has just made is there and younger than the cutoff |
| `DueMinutesAreTried` | `DueMinutesTried` | strengthened by `LastTried` and `TickAttended`: in an undisturbed minute that is due, an attended tick has led to an attempt |
| `ServedFilesAreComplete` | `[]ServedComplete` | strengthened over the steps of a start: `FilesOK`, `ColumnsBrought` and `SettingsBrought` (after step n the file has what the first n steps bring, wherever earlier starts were cut off), `KeyKept` |
| `StartupTypeCorrect` | `[]StartupTypeOK` | `StartupRanges`: the file and what an import replaced have an owner wherever they hold a database, so that what is saved or served is somebody's |
| `NothingIsLost` | `[]NothingLost` | strengthened by `SafeToAlter`: before a step that drops a column or a table, its backup is complete and holds what is in the file |
| `HistoryIsKept` | `[]HistoryKept` | `RowsCounted`, `NewestThere`, `OldestGone`: ids are given in the order of events, and a trim removes only what is older than the newest by the limit |
| `PresetsAreTold` | `[]PresetsTold` | every row tells the truth and at most once (`Truth`); what a handler has still to tell is true and untold (`ClerkOK`, `Untold`); no two handlers are about to tell the same (`TwoClerks`) |
| `AuditTrailTypeCorrect` | `[]AuditTrailTypeOK` | `TrailRanges`, what each handler holds at its step (`Holds`), with the invariant of `PresetsAreTold`: the events of a row are those that can be told of it |
| `OperationsTypesHold`, `AdministrationTypesHold` | `[]OperationsTypeOK`, `[]AdministrationTypeOK` | one lemma per part (`PresetsPartSteps`, ..., `LegacyPartSteps`): a step of the part is a step of its component, for the values a part picks are its component's and a part only drops alternatives. So the invariant of each component holds in the run, and what the run shows is shown of behaviours of the components |

**Induction over data.**  The induction theorems of the library take an operator as a
parameter, which the installed provers cannot instantiate.  Where a fact about a recursive
function or a count needs induction, the proof takes the least (or greatest) number at
which it fails and shows that there is none: `NaturalFacts` has that such a number
exists, proved once from the well-foundedness of the natural numbers.  `RoundsExist`,
`RoundsGrow`, `RoundsFollow` (permissions), `AgedInWindow` (mails) and `NextUserIsNew`,
`FirstOfName` (legacy conversion) are proved so.  Its ranks are what the conversion
numbers rows by.

**Only model-checked.**  `LockIsReleased`, `LocksEnd`, `CallsEnd`: liveness under
fairness and `ENABLED` are out of the provers' reach.  Every other property of a passing
run is stated by a theorem above.  The six statements under Findings are refuted, so
there is nothing to prove.  The modules declare no `RECURSIVE` operator (the SMT
backend is lost in a module that reaches one), and what would be a sum over rows is a
cardinality instead.

## 6. Not modelled

Wording, formatting, SQL text, HTTP, permissions of the caller, and the columns no
property looks at.  In particular:

- *Items*: one save composes licences, racks, links, documents, places and holders in a
  single transaction; each part is modelled on its own, and a save that another part
  refuses is there a stuttering step.  The check that no other item names a deleted one
  as its switch, item actions (rows that name one item), and the vendor an item names by
  title are left out.  Products of counts are unbounded naturals, not 64-bit integers.
- *Racks*: the location and area that a rack hands to its items.
- *Titles and names* of agents, contracts, documents, locations, which only refuse a
  save; *contract events*, rows that name one contract and that nothing else reads.
- *Import*: a crash between steps other than the copy over the database.  Routers that
  are built anew by an import while requests read them (`main.go:160`) are a data race
  of which no document says what a request may see.
- *WeCom, LDAP*: the state tokens of a redirect, which are signed and stored nowhere;
  LDAP beyond accept and refuse.
- *Settings*: resources, a listing.  *Audit trail*: the wording and classification of
  events and the filters of the page.  *Legacy conversion*: tables copied as they are,
  and the translation of names.
- *Reports, browse tree, dashboard, label sheets*: queries and rendering without state.
  *Secrets*: the algorithms.  *Web client* and generated *API description*.

Three hazards are listed without a property, each with its reason: a write that falls
between the dump and the close of the handle (`import_database.go:111`), the lost update
of the base settings, and the data race above.

## 7. Plan

In this order:

1. `Inventory`: one item save that composes licences, racks, links, documents and
   places, refused as a whole; the modules of today as `INSTANCE`s, its invariants from
   those already proved.
2. `FileStore`: an abstract specification of `Documents`, a set of documents with
   contents, and what of it survives a rolled-back save; `SessionStore`, one in which an
   answered revocation is final, implemented by `Sessions`.
3. With each of them its theorems: that `Inventory` keeps the invariants proved of its
   parts, that `Documents` and `Sessions` implement the abstract specifications.
4. `DatabaseImport` with a crash at every step and the start that follows it, joined with
   `Startup`.
5. `UniqueNames`: look-up before insert for agents, contracts and documents.
6. Contract events and item actions; the location a rack hands to its items.
