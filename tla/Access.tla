-------------------------------- MODULE Access --------------------------------
(***************************************************************************)
(* Users, groups and roles, and the permissions that come of them.  A user *)
(* is saved in three commits (the row, the profile, the roles), created in *)
(* four, deleted in one and three statements that clean up behind it; a    *)
(* group is saved in two.  Handlers run concurrently; only what is marked  *)
(* as a transaction is one.  A handler may be cut short between any two    *)
(* statements, and the program be started again.                           *)
(*                                                                         *)
(* What a form carries is a set of values of its own.  Ids are never drawn *)
(* twice.  A role is its key.  Who asks is left open, so that "not the     *)
(* user who is signed in" is no guard here.  Of items, the one column that *)
(* names a user is kept, of contracts nothing.                             *)
(***************************************************************************)
EXTENDS FiniteSets, Integers

CONSTANTS
    Uid, Username, Role, Group, Item,
    Worker,       \* handlers that may run at the same time
    Admin,        \* the name of the default administrator
    AdminId,      \* and the row that has it
    Builtin,      \* roles that every start writes anew
    AdminRole,
    Permission,   \* permissionCatalog
    Implied,      \* the permissions one brings along
    Legacy,       \* keys of an older catalogue
    Replacement,  \* what took their place
    Seed,         \* builtinRolePermissions
    UserForm, GroupForm, Grant,   \* what requests may carry
    Undrawn, Gone, NoUid

UserRow == [name : Username, type : 0..1]

ASSUME AccessAssumption ==
    /\ AdminId \in Uid /\ NoUid \notin Uid /\ Admin \in Username
    /\ Undrawn \notin UserRow /\ Gone \notin UserRow
    /\ Builtin \subseteq Role /\ AdminRole \in Builtin
    /\ IsFiniteSet(Permission) /\ Implied \in [Permission -> SUBSET Permission]
    /\ Legacy \cap Permission = {}
    /\ Replacement \in [Legacy -> SUBSET Permission]
    /\ Seed \in [Builtin -> SUBSET Permission]
    /\ UserForm \subseteq [name : Username, disabled : BOOLEAN, roles : SUBSET Role]
    /\ GroupForm \subseteq [disabled : BOOLEAN, members : SUBSET Uid, roles : SUBSET Role]
    /\ Grant \subseteq SUBSET (Permission \cup Legacy)

VARIABLES
    user,        \* users: a row, or none yet or any more
    disabled,    \* settings_user_profiles.disabled
    role,        \* settings_roles and settings_role_status
    grant,       \* settings_roles.permissions, as stored
    userRole,    \* settings_user_roles
    group,       \* settings_user_groups
    member,      \* settings_user_group_members
    groupRole,   \* settings_user_group_roles
    holder,      \* items.userid
    late,        \* items given to a user when it was gone: history
    cut,         \* users whose delete was cut short behind it: history
    undone,      \* users whose creation was taken back: history
    job          \* where each handler is

tables == <<user, disabled, role, grant, userRole, group, member, groupRole, holder>>
history == <<late, cut, undone>>
accessVars == <<tables, history, job>>

IsUser(u) == user[u] \notin {Undrawn, Gone}
IsGroup(g) == group[g] \in {"on", "off"}
IsRole(r) == role[r] \in {"on", "off"}

CleanStep == {"deleted", "unprofiled", "unroled"}
JobStep ==
    {"idle", "counted", "inserted", "undoing", "unprofiling", "read", "unique",
     "profiled", "stored", "grouped", "disabled", "unused"} \cup CleanStep
Job ==
    [step : JobStep, user : Uid \cup {NoUid}, group : SUBSET Group,
     uform : SUBSET UserForm, gform : SUBSET GroupForm]
IdleJob == [step |-> "idle", user |-> NoUid, group |-> {}, uform |-> {}, gform |-> {}]
SavingUser(step, u, form) ==
    [step |-> step, user |-> u, group |-> {}, uform |-> {form}, gform |-> {}]

JobAt(p, step) == job[p].step = step
JobGoto(p, step) == job' = [job EXCEPT ![p].step = step]
JobEnd(p) == job' = [job EXCEPT ![p] = IdleJob]
UForm(p) == CHOOSE f \in job[p].uform : TRUE
GForm(p) == CHOOSE f \in job[p].gform : TRUE

\* usertype of a form: 0 is an administrator, whom no role is asked for.
TypeOf(form) == IF AdminRole \in form.roles THEN 0 ELSE 1
NameTaken(name, except) ==
    \E v \in Uid \ except : IsUser(v) /\ user[v].name = name

\* Mutant: what a permission implies is left out.
Normalized_Bare(keys) == keys \cap Permission

\* normalizePermissions: unknown keys go, implied ones come, round after round.
WithImplied(keys) == keys \cup UNION {Implied[k] : k \in keys}
Normalized(keys) ==
    LET Round[n \in 0..Cardinality(Permission)] ==
            IF n = 0 THEN keys \cap Permission ELSE WithImplied(Round[n - 1])
    IN  Round[Cardinality(Permission)]

\* What EnsureResourceSchema makes of a role's permissions: it writes those of the
\* roles built in anew and migrates the keys of the older catalogue.
AtStart(r, keys) ==
    IF r \in Builtin THEN Seed[r]
    ELSE IF keys \cap Legacy = {} THEN keys
    ELSE Normalized((keys \ Legacy) \cup UNION {Replacement[k] : k \in keys \cap Legacy})

\* The program has started on a database that may have a role of an older version.
AccessInit ==
    /\ user = [u \in Uid |-> IF u = AdminId THEN [name |-> Admin, type |-> 0]
                             ELSE Undrawn]
    /\ disabled = {}
    /\ \E old \in SUBSET (Role \ Builtin), keys \in Grant :
          /\ role = [r \in Role |-> IF r \in Builtin \cup old THEN "on" ELSE "none"]
          /\ grant = [r \in Role |-> IF r \in Builtin \cup old THEN AtStart(r, keys) ELSE {}]
    /\ userRole = {<<AdminId, AdminRole>>}
    /\ group = [g \in Group |-> "undrawn"]
    /\ member = {} /\ groupRole = {}
    /\ holder = [i \in Item |-> NoUid]
    /\ late = {} /\ cut = {} /\ undone = {}
    /\ job = [p \in Worker |-> IdleJob]

-----------------------------------------------------------------------------
\* Creating a user: POST of handleSettingsUsers.

CountName(p, form) ==
    /\ JobAt(p, "idle") /\ ~NameTaken(form.name, {})
    /\ job' = [job EXCEPT ![p] = SavingUser("counted", NoUid, form)]
    /\ UNCHANGED <<tables, history>>

InsertUser(p, u) ==
    /\ JobAt(p, "counted") /\ user[u] = Undrawn
    /\ user' = [user EXCEPT ![u] = [name |-> UForm(p).name, type |-> TypeOf(UForm(p))]]
    /\ job' = [job EXCEPT ![p] = SavingUser("inserted", u, UForm(p))]
    /\ UNCHANGED <<disabled, role, grant, userRole, group, member, groupRole, holder,
                   history>>

\* The profile of a new user, or of one that was updated.
StoreProfile(p) ==
    LET u == job[p].user IN
    /\ JobAt(p, "inserted") \/ JobAt(p, "stored")
    /\ disabled' = IF UForm(p).disabled THEN disabled \cup {u} ELSE disabled \ {u}
    /\ JobGoto(p, IF JobAt(p, "inserted") THEN "undoing" ELSE "profiled")
    /\ UNCHANGED <<user, role, grant, userRole, group, member, groupRole, holder, history>>

\* Mutant: the roles are looked up, but not in the transaction.
ReplaceUserRoles_Trusts(p) ==
    LET u == job[p].user IN
    /\ JobAt(p, "undoing") \/ JobAt(p, "profiled")
    /\ userRole' = {e \in userRole : e[1] # u} \cup ({u} \X UForm(p).roles)
    /\ JobEnd(p)
    /\ UNCHANGED <<user, disabled, role, grant, group, member, groupRole, holder, history>>

\* replaceSettingsUserRoles, a transaction: every role must be there and enabled.
\* That the user is still there nobody asks.
ReplaceUserRoles(p) ==
    LET u == job[p].user IN
    /\ JobAt(p, "undoing") \/ JobAt(p, "profiled")
    /\ \A r \in UForm(p).roles : role[r] = "on"
    /\ userRole' = {e \in userRole : e[1] # u} \cup ({u} \X UForm(p).roles)
    /\ JobEnd(p)
    /\ UNCHANGED <<user, disabled, role, grant, group, member, groupRole, holder, history>>

\* The same, refused: what was written for an update stays, what was inserted for
\* a new user is taken back, the profile first.
RefuseUserRoles(p) ==
    /\ JobAt(p, "undoing") \/ JobAt(p, "profiled")
    /\ \E r \in UForm(p).roles : role[r] # "on"
    /\ IF JobAt(p, "profiled") THEN JobEnd(p) /\ UNCHANGED disabled
       ELSE /\ disabled' = disabled \ {job[p].user}
            /\ JobGoto(p, "unprofiling")
    /\ UNCHANGED <<user, role, grant, userRole, group, member, groupRole, holder, history>>

\* The new user goes, because of that or because its profile could not be stored.
RemoveNewUser(p) ==
    /\ JobAt(p, "unprofiling") \/ JobAt(p, "inserted")
    /\ user' = [user EXCEPT ![job[p].user] = Gone]
    /\ undone' = undone \cup {job[p].user}
    /\ JobEnd(p)
    /\ UNCHANGED <<disabled, role, grant, userRole, group, member, groupRole, holder,
                   late, cut>>

-----------------------------------------------------------------------------
\* Updating one: PUT.

\* The user is read.  The default administrator is neither renamed nor disabled.
ReadUser(p, u, form) ==
    /\ JobAt(p, "idle") /\ IsUser(u)
    /\ user[u].name = Admin => (~form.disabled /\ form.name = Admin)
    /\ job' = [job EXCEPT ![p] = SavingUser("read", u, form)]
    /\ UNCHANGED <<tables, history>>

\* UsernameExists of UserWorkflow.Update; the password is hashed behind it.
CheckName(p) ==
    /\ JobAt(p, "read") /\ ~NameTaken(UForm(p).name, {job[p].user})
    /\ JobGoto(p, "unique")
    /\ UNCHANGED <<tables, history>>

\* Mutant: the form decides for the default administrator, too.
StoreUser_Forms(p) ==
    LET u == job[p].user
        form == UForm(p) IN
    /\ JobAt(p, "unique")
    /\ user' = IF ~IsUser(u) THEN user
               ELSE [user EXCEPT ![u] = [name |-> form.name, type |-> TypeOf(form)]]
    /\ JobGoto(p, "stored")
    /\ UNCHANGED <<disabled, role, grant, userRole, group, member, groupRole, holder,
                   history>>

\* Its UPDATE, which may hit no row.
StoreUser(p) ==
    LET u == job[p].user
        form == UForm(p) IN
    /\ JobAt(p, "unique")
    /\ user' = IF ~IsUser(u) THEN user
               ELSE [user EXCEPT ![u] =
                        [name |-> form.name,
                         type |-> IF form.name = Admin THEN 0 ELSE TypeOf(form)]]
    /\ JobGoto(p, "stored")
    /\ UNCHANGED <<disabled, role, grant, userRole, group, member, groupRole, holder,
                   history>>

\* handleSettingsUserDisabled.  A row for a user that went away between its two
\* statements is one nobody reads.
SwitchUser(u, off) ==
    /\ IsUser(u) /\ user[u].name # Admin
    /\ disabled' = IF off THEN disabled \cup {u} ELSE disabled \ {u}
    /\ UNCHANGED <<user, role, grant, userRole, group, member, groupRole, holder, history, job>>

-----------------------------------------------------------------------------
\* Deleting one: DELETE, and UserWorkflow.Delete.

BeginDeleteUser(p, u) ==
    /\ JobAt(p, "idle") /\ IsUser(u) /\ u \in disabled
    /\ job' = [job EXCEPT ![p] = [step |-> "disabled", user |-> u, group |-> {},
                                     uform |-> {}, gform |-> {}]]
    /\ UNCHANGED <<tables, history>>

\* FindUsername and collectUserUsage.
CountUsage(p) ==
    LET u == job[p].user IN
    /\ JobAt(p, "disabled")
    /\ IsUser(u) /\ user[u].name # Admin
    /\ \A i \in Item : holder[i] # u
    /\ JobGoto(p, "unused")
    /\ UNCHANGED <<tables, history>>

\* Mutant: items are counted, not handed over.
DeleteUserRow_Keeps(p) ==
    LET u == job[p].user IN
    /\ JobAt(p, "unused")
    /\ user' = [user EXCEPT ![u] = Gone]
    /\ JobGoto(p, "deleted")
    /\ UNCHANGED <<disabled, role, grant, userRole, group, member, groupRole, holder,
                   history>>

\* FindAdminID, whose answer stays true, and the transaction: items that were given
\* to the user since the count go to the administrator, the row goes.
DeleteUserRow(p) ==
    LET u == job[p].user
        heir == CHOOSE v \in Uid : IsUser(v) /\ user[v].name = Admin IN
    /\ JobAt(p, "unused")
    /\ holder' = [i \in Item |-> IF holder[i] = u THEN heir ELSE holder[i]]
    /\ user' = [user EXCEPT ![u] = Gone]
    /\ JobGoto(p, "deleted")
    /\ UNCHANGED <<disabled, role, grant, userRole, group, member, groupRole, history>>

CleanProfile(p) ==
    /\ JobAt(p, "deleted")
    /\ disabled' = disabled \ {job[p].user}
    /\ JobGoto(p, "unprofiled")
    /\ UNCHANGED <<user, role, grant, userRole, group, member, groupRole, holder, history>>

CleanRoles(p) ==
    /\ JobAt(p, "unprofiled")
    /\ userRole' = {e \in userRole : e[1] # job[p].user}
    /\ JobGoto(p, "unroled")
    /\ UNCHANGED <<user, disabled, role, grant, group, member, groupRole, holder, history>>

CleanMembers(p) ==
    /\ JobAt(p, "unroled")
    /\ member' = {e \in member : e[2] # job[p].user}
    /\ JobEnd(p)
    /\ UNCHANGED <<user, disabled, role, grant, userRole, group, groupRole, holder, history>>

-----------------------------------------------------------------------------
\* Roles.  Those built in are neither changed, disabled nor deleted.

CreateRole(r, keys) ==
    /\ role[r] = "none"
    /\ role' = [role EXCEPT ![r] = "on"]
    /\ grant' = [grant EXCEPT ![r] = Normalized(keys)]
    /\ UNCHANGED <<user, disabled, userRole, group, member, groupRole, holder, history, job>>

UpdateRole(r, keys) ==
    /\ IsRole(r) /\ r \notin Builtin
    /\ grant' = [grant EXCEPT ![r] = Normalized(keys)]
    /\ UNCHANGED <<user, disabled, role, userRole, group, member, groupRole, holder, history, job>>

\* handleSettingsRoleDisabled.
SwitchRole(r, off) ==
    /\ IsRole(r) /\ r \notin Builtin
    /\ role' = [role EXCEPT ![r] = IF off THEN "off" ELSE "on"]
    /\ UNCHANGED <<user, disabled, grant, userRole, group, member, groupRole, holder, history, job>>

\* One transaction takes the role from users and groups and away.
DeleteRole(r) ==
    /\ IsRole(r) /\ r \notin Builtin
    /\ role' = [role EXCEPT ![r] = "none"]
    /\ grant' = [grant EXCEPT ![r] = {}]
    /\ userRole' = {e \in userRole : e[2] # r}
    /\ groupRole' = {e \in groupRole : e[2] # r}
    /\ UNCHANGED <<user, disabled, group, member, holder, history, job>>

-----------------------------------------------------------------------------
\* Groups.

\* The INSERT of a POST or the UPDATE of a PUT, which may hit no row.
StoreGroup(p, g, form) ==
    /\ JobAt(p, "idle")
    /\ group' = IF group[g] = "gone" THEN group
                ELSE [group EXCEPT ![g] = IF form.disabled THEN "off" ELSE "on"]
    /\ job' = [job EXCEPT ![p] = [step |-> "grouped", user |-> NoUid, group |-> {g},
                                     uform |-> {}, gform |-> {form}]]
    /\ UNCHANGED <<user, disabled, role, grant, userRole, member, groupRole, holder, history>>

\* Mutant: that the members are there is not asked.
ReplaceRelations_Trusts(p) ==
    LET form == GForm(p) IN
    /\ JobAt(p, "grouped")
    /\ \A r \in form.roles : role[r] = "on"
    /\ member' = {e \in member : e[1] \notin job[p].group} \cup (job[p].group \X form.members)
    /\ groupRole' =
          {e \in groupRole : e[1] \notin job[p].group} \cup (job[p].group \X form.roles)
    /\ JobEnd(p)
    /\ UNCHANGED <<user, disabled, role, grant, userRole, group, holder, history>>

\* replaceSettingsGroupRelations, a transaction.  Refused, the handler ends and
\* the group stays as it was stored (CutShort).
ReplaceRelations(p) ==
    LET form == GForm(p) IN
    /\ JobAt(p, "grouped")
    /\ \A u \in form.members : IsUser(u)
    /\ \A r \in form.roles : role[r] = "on"
    /\ member' = {e \in member : e[1] \notin job[p].group} \cup (job[p].group \X form.members)
    /\ groupRole' =
          {e \in groupRole : e[1] \notin job[p].group} \cup (job[p].group \X form.roles)
    /\ JobEnd(p)
    /\ UNCHANGED <<user, disabled, role, grant, userRole, group, holder, history>>

\* The whole DELETE is one transaction.
DeleteGroup(g) ==
    /\ IsGroup(g)
    /\ group' = [group EXCEPT ![g] = "gone"]
    /\ member' = {e \in member : e[1] # g}
    /\ groupRole' = {e \in groupRole : e[1] # g}
    /\ UNCHANGED <<user, disabled, role, grant, userRole, holder, history, job>>

-----------------------------------------------------------------------------
\* Around them.

\* An item is saved with a user as its form has it: that there is one nobody asks.
GiveItem(i, u) ==
    /\ user[u] # Undrawn
    /\ holder' = [holder EXCEPT ![i] = u]
    /\ late' = IF IsUser(u) THEN late \ {i} ELSE late \cup {i}
    /\ UNCHANGED <<user, disabled, role, grant, userRole, group, member, groupRole, cut,
                   undone, job>>

CutBehind(workers) ==
    cut \cup {job[p].user : p \in {q \in workers : job[q].step \in CleanStep}}

\* A statement fails or the context is cancelled; or the request is refused.
CutShort(p) ==
    /\ ~JobAt(p, "idle")
    /\ cut' = CutBehind({p})
    /\ JobEnd(p)
    /\ UNCHANGED <<tables, late, undone>>

\* The program is started anew: EnsureResourceSchema.
Restart ==
    /\ cut' = CutBehind(Worker)
    /\ job' = [p \in Worker |-> IdleJob]
    /\ grant' = [r \in Role |-> AtStart(r, grant[r])]
    /\ UNCHANGED <<user, disabled, role, userRole, group, member, groupRole, holder, late,
                   undone>>

-----------------------------------------------------------------------------
\* What a user may do.

\* UserAccess: roles that are enabled, a user's own or those of an enabled group.
EffectiveRoles(u) ==
    {r \in Role :
        /\ role[r] = "on"
        /\ \/ <<u, r>> \in userRole
           \/ \E g \in Group : /\ group[g] = "on" /\ <<g, u>> \in member
                               /\ <<g, r>> \in groupRole}

\* HasPermission.
Permissions(u) ==
    IF user[u].type = 0 \/ user[u].name = Admin THEN Permission
    ELSE Normalized(UNION {Normalized(grant[r]) : r \in EffectiveRoles(u)})

-----------------------------------------------------------------------------
UserHandlersNext(p) ==
    \/ \E form \in UserForm : CountName(p, form) \/ \E u \in Uid : ReadUser(p, u, form)
    \/ \E u \in Uid : InsertUser(p, u) \/ BeginDeleteUser(p, u)
    \/ StoreProfile(p) \/ ReplaceUserRoles(p) \/ RefuseUserRoles(p) \/ RemoveNewUser(p)
    \/ CheckName(p) \/ StoreUser(p)
    \/ CountUsage(p) \/ DeleteUserRow(p)
    \/ CleanProfile(p) \/ CleanRoles(p) \/ CleanMembers(p)

GroupHandlersNext(p) ==
    \/ \E g \in Group, form \in GroupForm : StoreGroup(p, g, form)
    \/ ReplaceRelations(p)

RolesNext ==
    \E r \in Role :
        \/ \E keys \in Grant : CreateRole(r, keys) \/ UpdateRole(r, keys)
        \/ \E off \in BOOLEAN : SwitchRole(r, off)
        \/ DeleteRole(r)

AccessNext ==
    \/ \E p \in Worker : UserHandlersNext(p) \/ GroupHandlersNext(p) \/ CutShort(p)
    \/ RolesNext
    \/ \E u \in Uid, off \in BOOLEAN : SwitchUser(u, off)
    \/ \E g \in Group : DeleteGroup(g)
    \/ \E i \in Item, u \in Uid : GiveItem(i, u)
    \/ Restart

AccessSpec == AccessInit /\ [][AccessNext]_accessVars

-----------------------------------------------------------------------------
\* Every variable has its range, and a handler has what its next step needs.
AccessTypeOK ==
    /\ user \in [Uid -> UserRow \cup {Undrawn, Gone}]
    /\ disabled \subseteq Uid
    /\ role \in [Role -> {"none", "on", "off"}]
    /\ grant \in [Role -> SUBSET (Permission \cup Legacy)]
    /\ userRole \subseteq Uid \X Role
    /\ group \in [Group -> {"undrawn", "on", "off", "gone"}]
    /\ member \subseteq Group \X Uid
    /\ groupRole \subseteq Group \X Role
    /\ holder \in [Item -> Uid \cup {NoUid}]
    /\ late \subseteq Item /\ cut \cup undone \subseteq Uid
    /\ job \in [Worker -> Job]
    /\ \A p \in Worker :
          /\ job[p].step \notin {"idle", "counted", "grouped"} => job[p].user \in Uid
          /\ job[p].step \in {"counted", "inserted", "undoing", "read", "unique",
                              "stored", "profiled"} => job[p].uform # {}
          /\ JobAt(p, "grouped") => job[p].gform # {}

\* There is always an administrator, enabled: however updates, deletes and
\* switches overlap, the default one keeps name, type and access.
AdminKept ==
    \E u \in Uid : /\ IsUser(u) /\ user[u] = [name |-> Admin, type |-> 0]
                   /\ u \notin disabled

\* A role that is deleted while users and groups are being saved is assigned to
\* none of them afterwards.
RolesKnown == \A e \in userRole \cup groupRole : IsRole(e[2])

\* A group has no member that was deleted, unless it is being cleaned up behind or
\* that was cut short.
MembersKnown ==
    \A e \in member :
        \/ IsUser(e[2]) \/ e[2] \in cut \cup undone
        \/ \E p \in Worker : job[p].step \in CleanStep /\ job[p].user = e[2]

\* Deleting a user leaves no item to it, also one it got after the count.
ItemsHandedOver ==
    \A i \in Item : holder[i] # NoUid => (IsUser(holder[i]) \/ i \in late \/ holder[i] \in undone)

\* What a user may do is exactly what follows, however indirectly, from what its
\* roles grant.
Closed(keys) == \A k \in keys : Implied[k] \subseteq keys
PermissionsFollow ==
    \A u \in Uid : (IsUser(u) /\ user[u].type = 1) =>
        LET granted == Permission \cap UNION {grant[r] : r \in EffectiveRoles(u)}
        IN  Permissions(u) =
                {k \in Permission :
                    \A keys \in SUBSET Permission :
                        (granted \subseteq keys /\ Closed(keys)) => k \in keys}
=============================================================================
