--------------------------- MODULE MCAdministration ---------------------------
(***************************************************************************)
(* Components that share no state with one another, on small instances in  *)
(* one run: a behaviour shows one part of the system, chosen at its start, *)
(* the others stand still.  The handlers of all parts are the same two     *)
(* values, as are ids of different tables, so that one small group of      *)
(* permutations serves all parts.                                          *)
(***************************************************************************)
EXTENDS PasswordReset, Wecom, Access, Dictionaries, Agents, Locations, Settings,
        LegacyConversion, TLC

CONSTANTS
    p1, p2, x1, x2, x3, y1, y2, z1, z2,
    u1, u2, w1, w2, c1, root, admin, boss, clerk, basic,
    vendor, contracting, ldap, wecom, mail, direct, sso, s1,
    red, green, blue

VARIABLE part

MCHandler == {p1, p2}
MCThree == {x1, x2, x3}
MCTwo == {y1, y2}
MCOther == {z1, z2}
Symmetry == Permutations(MCHandler) \cup Permutations(MCTwo)

\* Sessions, PasswordReset, Wecom.
MCName == {u1}
MCWord == {w1, w2}
MCCaptcha == {c1}

\* Access: a role built in and one that is not, a user built in and one that is not.
MCUid == {root, u1}
MCUsername == {admin, clerk}
MCRole == {boss, u2}
MCBuiltin == {boss}
MCGroup == {z1}
MCItem == {c1}
MCPermission == {"print", "preview", "read"}
MCImplied == [k \in MCPermission |-> CASE k = "print" -> {"preview"}
                                       [] k = "preview" -> {"read"}
                                       [] OTHER -> {}]
MCLegacy == {"assets.read"}
MCReplacement == [k \in MCLegacy |-> {"preview"}]
MCSeed == [r \in MCBuiltin |-> MCPermission]
MCUserForm ==
    {[name |-> clerk, disabled |-> TRUE, roles |-> {u2}],
     [name |-> admin, disabled |-> FALSE, roles |-> {u2}]}
MCGroupForm == {[disabled |-> FALSE, members |-> {u1}, roles |-> {u2}]}
MCGrant == {{"print"}, {"assets.read"}}

\* Dictionaries.
MCType == {basic, y1, y2}
MCSubtype == {z1, z2}
MCContract == {u1, u2}
MCText == {red, blue, green}

\* Agents: the vendor of an invoice and the contractor of a contract.
MCUse == {u1, u2}
MCTrade == {vendor, contracting}
MCTradeOf == [u \in MCUse |-> IF u = u1 THEN contracting ELSE vendor]

\* Locations: an item and a rack.
MCArea == {z1}
MCPlaced == {u1, u2}
MCRacked == {u2}

\* Settings.
MCSecret == {s1}
MCKind == {ldap, wecom, mail}
MCMode == {direct, sso}
MCModeAtFirst == [k \in MCKind |-> direct]
MCForm ==
    LET Entry(k, on, mode, d, s) ==
            [kind |-> k, on |-> on, clear |-> ~on, mode |-> mode, filled |-> {direct, sso},
             secret |-> [m \in MCMode |-> IF m = direct THEN d ELSE s]]
    IN  {Entry(k, on, NoMode, NoSecret, NoSecret) : k \in MCKind, on \in BOOLEAN}
        \cup {Entry(k, TRUE, direct, s1, NoSecret) : k \in MCKind}
        \cup {Entry(wecom, TRUE, sso, NoSecret, s1)}

\* LegacyConversion: ids from 0 with gaps, names twice and blank.
MCRecord == {z1, z2}
MCBuiltinType == <<red, green>>
MCSeedState == <<red>>
OldTypes == (0 :> blue) @@ (1 :> green) @@ (2 :> red) @@ (3 :> blue)
OldStates == (0 :> red) @@ (1 :> NoLabel) @@ (3 :> green)
MCLegacyFile ==
    {[types |-> OldTypes, states |-> OldStates, users |-> {},
      records |-> (z1 :> [type |-> i, state |-> j]) @@ (z2 :> [type |-> k, state |-> 0])] :
        i \in 0..3, j \in {0, 3}, k \in {2}}
    \cup {[types |-> <<>>, states |-> (1 :> blue), users |-> us,
           records |-> [x \in MCRecord |-> [type |-> 1, state |-> 1]]] :
             us \in {{[id |-> 1, name |-> clerk, type |-> 0], [id |-> 2, name |-> boss, type |-> 1]},
                     {[id |-> 1, name |-> admin, type |-> 0], [id |-> 3, name |-> boss, type |-> 0]}}}
MCLabel == {red, green, blue}
MCLogin == {admin, clerk, boss}
MCRoles == {boss, clerk}

\* Values that the parts below choose are values of their components.
ASSUME AdministrationAssumption ==
    /\ w2 \in Word /\ z1 \in Thing /\ {red, green} \subseteq Text \ {Blank}
    /\ {basic, y1, y2} \subseteq Type /\ {u1, u2} \subseteq Contract

-----------------------------------------------------------------------------
Ready ==
    /\ account = [u \in Name |-> "enabled"]
    /\ pass = [u \in Name |-> [word |-> w1, legacy |-> FALSE]]

AdministrationInit ==
    /\ part \in {"reset", "wecom", "users", "groups", "contracts", "tags", "agents",
                 "floorplans", "places", "settings", "legacy"}
    /\ PasswordResetInit /\ WecomInit /\ Ready
    /\ AccessInit /\ (part # "groups" => role[u2] = "none")
    /\ DictionariesInit /\ AgentsInit /\ LocationsInit /\ SettingsInit
    /\ LegacyInit
    /\ part # "legacy" =>
          source = (CHOOSE f \in LegacyFile : f.types = <<>>) /\ running[1] = admin

\* Somebody else's logins and sessions are what the run of Sessions is about.
ResetPart ==
    \/ FlowNext /\ UNCHANGED sessionsVars
    \/ \E p \in Proc : ConfirmNext(p, w2)
    \/ TickBoth

WecomPart ==
    \/ WecomOwnNext /\ UNCHANGED sessionsVars
    \/ \E p \in Proc : LoginBound(p) \/ (Abandon(p) /\ UNCHANGED wecomVars)

\* Groups stand still while users are created, updated and deleted, and users are
\* only created and deleted while groups are saved.
UsersPart ==
    \/ \E p \in Worker : UserHandlersNext(p) \/ CutShort(p)
    \/ \E r \in Role : (\E keys \in Grant : CreateRole(r, keys)) \/ SwitchRole(r, TRUE) \/ DeleteRole(r)
    \/ \E u \in Uid, off \in BOOLEAN : SwitchUser(u, off)
    \/ \E i \in Item, u \in Uid : GiveItem(i, u)

GroupsPart ==
    \/ \E p \in Worker :
          \/ GroupHandlersNext(p) \/ CutShort(p)
          \/ \E form \in UserForm : CountName(p, form)
          \/ \E u \in Uid : InsertUser(p, u) \/ BeginDeleteUser(p, u)
          \/ StoreProfile(p) \/ ReplaceUserRoles(p) \/ RefuseUserRoles(p) \/ RemoveNewUser(p)
          \/ CountUsage(p) \/ DeleteUserRow(p) \/ CleanProfile(p) \/ CleanRoles(p)
          \/ CleanMembers(p)
    \/ RolesNext \/ Restart
    \/ \E g \in Group : DeleteGroup(g)

\* The running database changes while a file with users is converted.
LegacyPart == ConversionNext \/ (source.users # {} /\ RunningNext)

\* One text for subtypes, and the second contract keeps the type built in and no subtype.
ContractsPart ==
    \/ \E t \in Type : DeleteType(t)
    \/ \E t \in Type, x \in Text : CreateType(t, x) \/ UpdateType(t, x)
    \/ \E s \in Subtype : DeleteSubtype(s)
    \/ \E s \in Subtype, t \in MCTwo : CreateSubtype(s, red, t) \/ UpdateSubtype(s, red, t)
    \/ \E c \in Contract : DeleteContract(c)
    \/ \E t \in MCTwo, s \in Subtype \cup {NoRef}, d \in Contract \cup {NoRef} :
          SaveContract(u1, [type |-> t, subtype |-> s, parent |-> d])
    \/ \E d \in {u1, NoRef} :
          SaveContract(u2, [type |-> basic, subtype |-> NoRef, parent |-> d])

\* One text is tagged with, and one thing.
TagsPart ==
    \/ \E g \in Tag : DeleteTag(g)
    \/ \E g \in Tag, x \in {red, green}, padded \in BOOLEAN :
          CreateTag(g, x, padded) \/ RenameTag(g, x, padded)
    \/ \E p \in Tagger :
          \/ \E add \in BOOLEAN : LookTag(p, z1, red, add)
          \/ \E g \in Tag : AddTag(p, g)
          \/ LinkTag(p) \/ TaggingFails(p)
    \/ AddThing(z1) \/ EraseThing(z1)
    \/ CleanLinks

\* Where things are, with no files in between.
PlacesPart ==
    \/ PlacesNext
    \/ \E p \in Surveyor :
          \/ \E l \in Location : CreateLocation(p, l) \/ CountRacks(p, l)
          \/ CountItems(p) \/ ReadForDelete(p) \/ DeleteLocation(p) \/ SurveyFails(p)

AdministrationNext ==
    /\ UNCHANGED part
    /\ \/ part = "reset" /\ ResetPart
          /\ UNCHANGED <<wecomVars, accessVars, dictionaryVars, agentVars, locationVars,
                         settingVars, legacyVars>>
       \/ part = "wecom" /\ WecomPart
          /\ UNCHANGED <<resetVars, accessVars, dictionaryVars, agentVars, locationVars,
                         settingVars, legacyVars>>
       \/ ((part = "users" /\ UsersPart) \/ (part = "groups" /\ GroupsPart))
          /\ UNCHANGED <<sessionsVars, resetVars, wecomVars, dictionaryVars, agentVars,
                         locationVars, settingVars, legacyVars>>
       \/ ((part = "contracts" /\ ContractsPart) \/ (part = "tags" /\ TagsPart))
          /\ UNCHANGED <<sessionsVars, resetVars, wecomVars, accessVars, agentVars,
                         locationVars, settingVars, legacyVars>>
       \/ part = "agents" /\ AgentsNext
          /\ UNCHANGED <<sessionsVars, resetVars, wecomVars, accessVars, dictionaryVars,
                         locationVars, settingVars, legacyVars>>
       \/ ((part = "floorplans" /\ FloorplansNext) \/ (part = "places" /\ PlacesPart))
          /\ UNCHANGED <<sessionsVars, resetVars, wecomVars, accessVars, dictionaryVars,
                         agentVars, settingVars, legacyVars>>
       \/ part = "settings" /\ SettingsNext
          /\ UNCHANGED <<sessionsVars, resetVars, wecomVars, accessVars, dictionaryVars,
                         agentVars, locationVars, legacyVars>>
       \/ part = "legacy" /\ LegacyPart
          /\ UNCHANGED <<sessionsVars, resetVars, wecomVars, accessVars, dictionaryVars,
                         agentVars, locationVars, settingVars>>

AdministrationSpec == AdministrationInit /\ [][AdministrationNext]_<<part, passwordResetVars,
    wecomVars, accessVars, dictionaryVars, agentVars, locationVars, settingVars, legacyVars>>

\* Every variable of the part that moves has its range.
AdministrationTypeOK ==
    /\ part = "reset" => PasswordResetTypeOK
    /\ part = "wecom" => SessionsTypeOK /\ WecomTypeOK
    /\ part \in {"users", "groups"} => AccessTypeOK
    /\ part \in {"contracts", "tags"} => DictionariesTypeOK
    /\ part = "agents" => AgentsTypeOK
    /\ part \in {"floorplans", "places"} => LocationsTypeOK
    /\ part = "settings" => SettingsTypeOK
    /\ part = "legacy" => LegacyTypeOK
=============================================================================
