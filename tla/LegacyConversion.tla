--------------------------- MODULE LegacyConversion ---------------------------
(***************************************************************************)
(* How the database of an older version becomes one of this version, next  *)
(* to the running one: its tables are copied, its users mixed with those   *)
(* that are there, states and item types numbered anew and the items that  *)
(* name them moved along, and what belongs to this installation taken over *)
(* from the running database.  That one goes on serving requests the while *)
(* and is read a table at a time.                                          *)
(*                                                                         *)
(* Of the dictionaries states and item types are kept, whose ids change,   *)
(* of what is taken over the roles of users.  A name stands for what is    *)
(* left of it without case and outer blanks.  The file that is uploaded is *)
(* one of a set.                                                           *)
(***************************************************************************)
EXTENDS Sequences, FiniteSets, Integers

CONSTANTS
    LegacyFile,       \* what may be uploaded
    Record,           \* the items in it
    Label, NoLabel,   \* names of states and types, and the blank one
    BuiltinType,      \* names of the item types built in, by id
    SeedState,        \* the states of a new database, by id
    Login,            \* names of users
    Roles,            \* of users, with Chief and Guest: admin and viewer
    Chief, Guest,
    MaxUser,          \* bound: the last id of a user
    MaxOld,           \* bound: the last id in an old dictionary
    Offset            \* 1 000 000

OldIds == 0..MaxOld
OldDictionary == UNION {[ids -> Label \cup {NoLabel}] : ids \in SUBSET OldIds}
OldUser == [id : 1..MaxUser, name : Login, type : 0..1]

ASSUME LegacyAssumption ==
    /\ BuiltinType \in Seq(Label) /\ SeedState \in Seq(Label) /\ NoLabel \notin Label
    /\ {Chief, Guest} \subseteq Roles
    /\ MaxUser \in Nat \ {0} /\ MaxOld \in Nat
    /\ Offset \in Nat /\ Offset > MaxOld + Len(BuiltinType) + 1
    /\ \A file \in LegacyFile :
          /\ DOMAIN file = {"types", "states", "records", "users"}
          /\ file.types \in OldDictionary /\ file.states \in OldDictionary
          /\ file.records \in [Record -> [type : OldIds, state : OldIds]]
          /\ file.users \subseteq OldUser

VARIABLES
    source,        \* the file
    phase,         \* how far the conversion is
    running,       \* users of the running database: a function on some ids
    runningRole,   \* and their roles
    merged,        \* users of the new database
    mergedRole,
    mine,          \* collectCurrentUserNames
    taken,         \* usedIDs of mergeLegacyUsers
    pending,       \* users that are not yet mixed in
    imported,      \* importedUsers
    types, states, \* itemtypes and statustypes of the new database
    records,       \* its items
    moving,        \* from old ids to new ones
    todo,          \* old ids that the loop has not come to
    before         \* the running users that were copied: history

legacyVars ==
    <<source, phase, running, runningRole, merged, mergedRole, mine, taken, pending,
      imported, types, states, records, moving, todo, before>>
theRunning == <<running, runningRole>>
theUsers == <<merged, mergedRole, mine, taken, pending, imported, before>>
theRecords == <<types, states, records, moving, todo>>

NoRows == <<>>

LegacyInit ==
    /\ source \in LegacyFile
    /\ phase = "attached"
    /\ \E n \in Login : running = [id \in {1} |-> n]
    /\ runningRole = {<<1, Chief>>}
    /\ merged = NoRows /\ mergedRole = {} /\ mine = {} /\ taken = {} /\ pending = {}
    /\ imported = {} /\ before = NoRows
    /\ types = BuiltinType /\ states = SeedState
    /\ records = source.records
    /\ moving = NoRows /\ todo = {}

Goes(from, to) == phase = from /\ phase' = to

-----------------------------------------------------------------------------
\* Users.

\* copyLegacyTable for all tables: states and types built in go only if there are
\* others to take their place.
CopyTables ==
    /\ Goes("attached", "copied")
    /\ types' = IF source.types = NoRows THEN types ELSE source.types
    /\ states' = IF source.states = NoRows THEN states ELSE source.states
    /\ UNCHANGED <<source, theRunning, theUsers, records, moving, todo>>

\* mergeLegacyUsers, its first half: the users as they are now.
CopyUsers ==
    /\ Goes("copied", "usersCopied")
    /\ merged' = running /\ before' = running
    /\ UNCHANGED <<source, theRunning, mergedRole, mine, taken, pending, imported, theRecords>>

\* Their names as they are by now, and the ids taken in the new database.
CollectNames ==
    /\ Goes("usersCopied", "merging")
    /\ mine' = {running[id] : id \in DOMAIN running}
    /\ taken' = DOMAIN merged
    /\ pending' = source.users
    /\ UNCHANGED <<source, theRunning, merged, mergedRole, imported, before, theRecords>>

SkipUser(row) ==
    /\ phase = "merging" /\ row \in pending /\ row.name \in mine
    /\ pending' = pending \ {row}
    /\ UNCHANGED <<source, phase, theRunning, merged, mergedRole, mine, taken, imported,
                   before, theRecords>>

\* The id that AUTOINCREMENT draws: that of the first administrator was drawn once.
NextUser == 1 + CHOOSE n \in 1..MaxUser :
                    /\ n \in DOMAIN merged \cup {1}
                    /\ \A id \in DOMAIN merged : id <= n

Inserted(row, id) ==
    /\ merged' = [i \in DOMAIN merged \cup {id} |-> IF i = id THEN row.name ELSE merged[i]]
    /\ imported' = imported \cup {[id |-> id, type |-> row.type]}
    /\ pending' = pending \ {row}

\* Mutant: the old id is kept whoever has it.
ImportUser_Replaces(row) ==
    /\ phase = "merging" /\ row \in pending /\ row.name \notin mine
    /\ Inserted(row, row.id) /\ taken' = taken \cup {row.id} /\ UNCHANGED phase
    /\ UNCHANGED <<source, theRunning, mergedRole, mine, before, theRecords>>

\* Any other user comes with its id, or with a new one if that is taken.  An id drawn
\* so does not count as taken: the row that has it fails, and the conversion with it.
ImportUser(row) ==
    /\ phase = "merging" /\ row \in pending /\ row.name \notin mine
    /\ \/ row.id \in taken
          /\ NextUser <= MaxUser
          /\ Inserted(row, NextUser) /\ UNCHANGED <<taken, phase>>
       \/ /\ row.id \notin taken \cup DOMAIN merged
          /\ Inserted(row, row.id) /\ taken' = taken \cup {row.id} /\ UNCHANGED phase
       \/ /\ row.id \in DOMAIN merged \ taken
          /\ phase' = "failed" /\ UNCHANGED <<merged, imported, pending, taken>>
    /\ UNCHANGED <<source, theRunning, mergedRole, mine, before, theRecords>>

-----------------------------------------------------------------------------
\* Dictionaries.

\* ROW_NUMBER() OVER (ORDER BY id).
StateId(old) == Cardinality({i \in DOMAIN states : i <= old})

Named(f) == {i \in DOMAIN f : f[i] # NoLabel}
IsBuiltin(label) == \E k \in DOMAIN BuiltinType : BuiltinType[k] = label
FirstOf(f, i) == CHOOSE h \in Named(f) : f[h] = f[i] /\ \A j \in Named(f) : f[j] = f[i] => h <= j
Appended(f) == {i \in Named(f) : FirstOf(f, i) = i /\ ~IsBuiltin(f[i])}

\* idMap of rebuildLegacyItemTypes: a name built in has its id, others follow.
TypeId(old) ==
    IF IsBuiltin(types[old]) THEN CHOOSE k \in DOMAIN BuiltinType : BuiltinType[k] = types[old]
    ELSE Len(BuiltinType) + Cardinality({i \in Appended(types) : i <= FirstOf(types, old)})

\* renumberLegacyStatusTypes up to its loops; nothing to do if ids are 1, 2, ...
RenumberStates ==
    /\ phase = "merging" /\ pending = {}
    /\ IF \A i \in DOMAIN states : StateId(i) = i
       THEN phase' = "statesNumbered" /\ UNCHANGED <<states, moving, todo>>
       ELSE /\ phase' = "statesOut"
            /\ states' = [n \in 1..Cardinality(DOMAIN states) |->
                             states[CHOOSE i \in DOMAIN states : StateId(i) = n]]
            /\ moving' = [i \in DOMAIN states |-> StateId(i)]
            /\ todo' = DOMAIN states
    /\ UNCHANGED <<source, theRunning, theUsers, types, records>>

\* rebuildLegacyItemTypes up to its loops: rows without a name are dropped, of rows
\* with the same name the first stays.
RebuildTypes ==
    /\ Goes("statesNumbered", "typesOut")
    /\ types' = [n \in 1..(Len(BuiltinType) + Cardinality(Appended(types))) |->
                    IF n \in DOMAIN BuiltinType THEN BuiltinType[n]
                    ELSE types[CHOOSE i \in Appended(types) : TypeId(i) = n]]
    /\ moving' = [i \in Named(types) |-> TypeId(i)]
    /\ todo' = {i \in Named(types) : TypeId(i) # i}
    /\ UNCHANGED <<source, theRunning, theUsers, states, records>>

\* One UPDATE of the loops: the items at an id get another.
MoveRecords(old, new) ==
    records' = [x \in Record |->
        IF phase \in {"statesOut", "statesIn"}
        THEN [records[x] EXCEPT !.state = IF @ = old THEN new ELSE @]
        ELSE [records[x] EXCEPT !.type = IF @ = old THEN new ELSE @]]

\* Mutant: without the offset.
MoveOut_Straight(old) ==
    /\ phase \in {"statesOut", "typesOut"} /\ old \in todo
    /\ MoveRecords(old, moving[old])
    /\ todo' = todo \ {old}
    /\ UNCHANGED <<source, phase, theRunning, theUsers, types, states, moving>>

\* The first loop, in the order of ids or of a Go map.
MoveOut(old) ==
    /\ phase \in {"statesOut", "typesOut"} /\ old \in todo
    /\ MoveRecords(old, old + Offset)
    /\ todo' = todo \ {old}
    /\ UNCHANGED <<source, phase, theRunning, theUsers, types, states, moving>>

\* The second loop.
MoveIn(old) ==
    /\ phase \in {"statesIn", "typesIn"} /\ old \in todo
    /\ MoveRecords(old + Offset, moving[old])
    /\ todo' = todo \ {old}
    /\ UNCHANGED <<source, phase, theRunning, theUsers, types, states, moving>>

LoopEnds ==
    /\ todo = {}
    /\ \/ /\ Goes("statesOut", "statesIn") /\ todo' = DOMAIN moving
       \/ /\ Goes("typesOut", "typesIn")
          /\ todo' = {i \in DOMAIN moving : moving[i] # i}
       \/ Goes("statesIn", "statesNumbered") /\ UNCHANGED todo
       \/ Goes("typesIn", "normalized") /\ UNCHANGED todo
    /\ UNCHANGED <<source, theRunning, theUsers, types, states, records, moving>>

-----------------------------------------------------------------------------
\* What belongs to the installation.

\* restoreCurrentSystemData, for the roles: as they are by now.
RestoreRoles ==
    /\ Goes("normalized", "restored")
    /\ mergedRole' = runningRole
    /\ UNCHANGED <<source, theRunning, merged, mine, taken, pending, imported, before,
                   theRecords>>

RoleOfType(type) == IF type = 0 THEN Chief ELSE Guest

\* assignLegacyImportedUserRoles, and ensureLegacyAdminFallback, which finds users.
AssignRoles ==
    /\ Goes("restored", "done")
    /\ mergedRole' = mergedRole \cup {<<u.id, RoleOfType(u.type)>> : u \in imported}
    /\ UNCHANGED <<source, theRunning, merged, mine, taken, pending, imported, before,
                   theRecords>>

\* A statement fails; the running database stays what it is.
ConversionFails ==
    /\ phase \notin {"done", "failed"} /\ phase' = "failed"
    /\ UNCHANGED <<source, theRunning, theUsers, theRecords>>

-----------------------------------------------------------------------------
\* Requests on the running database.

\* An id is not drawn twice; of one that left no trace that may be forgotten.
RunningAdds(id, name, r) ==
    /\ phase \notin {"done", "failed"}
    /\ \A i \in DOMAIN running : running[i] # name
    /\ \A i \in DOMAIN running \cup DOMAIN before \cup {e[1] : e \in runningRole} : i < id
    /\ running' = [i \in DOMAIN running \cup {id} |-> IF i = id THEN name ELSE running[i]]
    /\ runningRole' = runningRole \cup {<<id, r>>}
    /\ UNCHANGED <<source, phase, theUsers, theRecords>>

\* Its roles go with a user, or stay if that is cut short.
RunningDrops(id) ==
    /\ phase \notin {"done", "failed"} /\ id \in DOMAIN running \ {1}
    /\ running' = [i \in DOMAIN running \ {id} |-> running[i]]
    /\ runningRole' \in {runningRole, {e \in runningRole : e[1] # id}}
    /\ UNCHANGED <<source, phase, theUsers, theRecords>>

-----------------------------------------------------------------------------
ConversionNext ==
    \/ CopyTables \/ CopyUsers \/ CollectNames
    \/ \E row \in pending : SkipUser(row) \/ ImportUser(row)
    \/ RenumberStates \/ RebuildTypes \/ LoopEnds
    \/ \E old \in todo : MoveOut(old) \/ MoveIn(old)
    \/ RestoreRoles \/ AssignRoles \/ ConversionFails

RunningNext ==
    \E id \in 1..MaxUser :
        \/ \E name \in Login, r \in Roles : RunningAdds(id, name, r)
        \/ RunningDrops(id)

LegacyNext == ConversionNext \/ RunningNext

LegacySpec == LegacyInit /\ [][LegacyNext]_legacyVars

-----------------------------------------------------------------------------
\* Every variable has its range.
LegacyTypeOK ==
    /\ source \in LegacyFile
    /\ phase \in {"attached", "copied", "usersCopied", "merging", "statesOut", "statesIn",
                  "statesNumbered", "typesOut", "typesIn", "normalized", "restored",
                  "done", "failed"}
    /\ \A users \in {running, merged, before} :
          DOMAIN users \subseteq 1..MaxUser /\ \A id \in DOMAIN users : users[id] \in Login
    /\ \A roles \in {runningRole, mergedRole} : roles \subseteq (1..MaxUser) \X Roles
    /\ mine \subseteq Login /\ taken \subseteq 1..MaxUser /\ pending \subseteq source.users
    /\ imported \subseteq [id : 1..MaxUser, type : 0..1]
    /\ records \in [Record -> [type : Nat, state : Nat]]
    /\ todo \subseteq DOMAIN moving

\* In the end each item is of the type and in the state it was by name, whatever ids
\* were numbered to which, in whatever order the loops went.
LegacyNamesKept ==
    phase = "done" =>
        \A x \in Record :
            LET was == source.records[x]
                is == records[x]
            IN  /\ was.type \in Named(source.types) =>
                      is.type \in DOMAIN types /\ types[is.type] = source.types[was.type]
                /\ was.state \in DOMAIN source.states =>
                      is.state \in DOMAIN states /\ states[is.state] = source.states[was.state]

\* In the end every user that was copied is still itself, and every user of the old
\* database whose name was free is there, with its role.
LegacyUsersKept ==
    phase = "done" =>
        /\ \A id \in DOMAIN before : id \in DOMAIN merged /\ merged[id] = before[id]
        /\ \A row \in source.users : row.name \in mine \/
              \E u \in imported : /\ u.id \in DOMAIN merged \ DOMAIN before
                                  /\ merged[u.id] = row.name
                                  /\ <<u.id, RoleOfType(row.type)>> \in mergedRole
=============================================================================
