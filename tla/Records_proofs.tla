---------------------------- MODULE Records_proofs ----------------------------
(***************************************************************************)
(* Agents, settings, locations, dictionaries and links between assets for  *)
(* any number of records and of handlers that overlap.  What the runs      *)
(* check is seldom inductive as it stands: it needs what handlers under    *)
(* way may still do, and what is known of records that are in order, not   *)
(* only of those that are not.                                             *)
(***************************************************************************)
EXTENDS Agents, Settings, Locations, Dictionaries, AssetLinks, TLAPS

-----------------------------------------------------------------------------
\* Agents.

\* A use that is not on record as unfit names an agent of its trade; one that is
\* not on record as unknown names an agent, or may be a contract.
UsesInOrder ==
    \A u \in Use : named[u] # Nobody =>
        /\ u \in unfit \/ (named[u] \in Agents /\ TradeOf[u] \in trades[named[u]])
        /\ u \in unknown \/ named[u] \in Agents \/ TradeOf[u] = Contracting

AgentsInv == AgentsTypeOK /\ UsesInOrder

LEMMA AgentsInitInv == ASSUME AgentsInit PROVE AgentsInv
BY AgentsAssumption DEF AgentsInit, AgentsInv, AgentsTypeOK, UsesInOrder, Edit, IdleEdit

LEMMA AgentsTypeStep ==
    ASSUME AgentsTypeOK, [AgentsNext]_agentVars PROVE AgentsTypeOK'
<1> USE AgentsAssumption DEF AgentsTypeOK
<1>1. CASE UNCHANGED agentVars
  BY <1>1 DEF agentVars
<1>2. ASSUME NEW a \in Agent, NEW some \in SUBSET Trade, CreateAgent(a, some)
      PROVE  AgentsTypeOK'
  BY <1>2 DEF CreateAgent
<1>3. ASSUME NEW a \in Agent, NEW some \in SUBSET Trade, NEW p \in Editor,
             CountUses(p, a, some)
      PROVE  AgentsTypeOK'
  BY <1>3 DEF CountUses, Edit
<1>4. ASSUME NEW p \in Editor, StoreAgent(p) PROVE AgentsTypeOK'
  <2>1. edit[p].trades \in SUBSET Trade
    BY DEF Edit
  <2>2. trades' \in [Agent -> {NoAgent, ExAgent} \cup SUBSET Trade]
    BY <1>4, <2>1 DEF StoreAgent, Agents
  <2>3. unfit' \subseteq Use
    BY <1>4 DEF StoreAgent, UsesOf
  <2> QED
    BY <1>4, <2>2, <2>3 DEF StoreAgent, Edit, IdleEdit
<1>5. ASSUME NEW p \in Editor, EditFails(p) PROVE AgentsTypeOK'
  BY <1>5 DEF EditFails, Edit, IdleEdit
<1>6. ASSUME NEW a \in Agent, DeleteAgent(a) PROVE AgentsTypeOK'
  BY <1>6 DEF DeleteAgent, Cleared
<1>7. ASSUME NEW u \in Use, NEW a \in Agent, NameAgent(u, a) PROVE AgentsTypeOK'
  BY <1>7 DEF NameAgent
<1> QED
  BY <1>1, <1>2, <1>3, <1>4, <1>5, <1>6, <1>7 DEF AgentsNext

LEMMA AgentsStep ==
    ASSUME AgentsInv, [AgentsNext]_agentVars PROVE UsesInOrder'
<1> USE AgentsAssumption DEF AgentsInv, UsesInOrder
<1>1. CASE UNCHANGED agentVars
  BY <1>1 DEF agentVars, Agents
<1>2. ASSUME NEW a \in Agent, NEW some \in SUBSET Trade, CreateAgent(a, some)
      PROVE  UsesInOrder'
  <2>1. Agents' = Agents \cup {a} /\ a \notin Agents
    BY <1>2 DEF CreateAgent, Agents, AgentsTypeOK
  <2>2. \A b \in Agents : trades'[b] = trades[b]
    BY <1>2, <2>1 DEF CreateAgent, Agents, AgentsTypeOK
  <2> QED
    BY <1>2, <2>1, <2>2 DEF CreateAgent
<1>3. ASSUME NEW a \in Agent, NEW some \in SUBSET Trade, NEW p \in Editor,
             CountUses(p, a, some)
      PROVE  UsesInOrder'
  BY <1>3 DEF CountUses, Agents
<1>4. ASSUME NEW p \in Editor, StoreAgent(p) PROVE UsesInOrder'
  <2> DEFINE a == edit[p].agent
             some == edit[p].trades
  <2>1. some \in SUBSET Trade
    BY DEF Edit, AgentsTypeOK
  <2>2. CASE a \in Agents
    <3>1. a \in Agent /\ trades' = [trades EXCEPT ![a] = some]
      BY <1>4, <2>2 DEF StoreAgent, Agents
    <3>2. Agents' = Agents /\ trades'[a] = some
      BY <2>1, <2>2, <3>1 DEF Agents, AgentsTypeOK
    <3>3. \A u \in Use : named[u] = a /\ TradeOf[u] \notin some => u \in unfit'
      BY <1>4, <2>2 DEF StoreAgent, UsesOf
    <3>4. unfit \subseteq unfit' /\ UNCHANGED <<named, unknown>>
      BY <1>4, <2>2 DEF StoreAgent
    <3>5. \A b \in Agents : b # a => trades'[b] = trades[b]
      BY <3>1 DEF Agents, AgentsTypeOK
    <3> QED
      BY <3>2, <3>3, <3>4, <3>5
  <2>3. CASE a \notin Agents
    <3>1. UNCHANGED <<named, unknown, unfit>>
      BY <1>4, <2>3 DEF StoreAgent
    <3>2. trades' = trades
      BY <1>4, <2>3 DEF StoreAgent, AgentsTypeOK
    <3> QED
      BY <3>1, <3>2 DEF Agents
  <2> QED
    BY <2>2, <2>3
<1>5. ASSUME NEW p \in Editor, EditFails(p) PROVE UsesInOrder'
  BY <1>5 DEF EditFails, Agents
<1>6. ASSUME NEW a \in Agent, DeleteAgent(a) PROVE UsesInOrder'
  <2>1. Agents' = Agents \ {a}
    BY <1>6 DEF DeleteAgent, Cleared, Agents, AgentsTypeOK
  <2>2. \A b \in Agents' : trades'[b] = trades[b]
    BY <1>6, <2>1 DEF DeleteAgent, Cleared, Agents, AgentsTypeOK
  <2>3. \A u \in Use : named[u] = a => TradeOf[u] \notin trades[a]
    BY <1>6 DEF DeleteAgent, Cleared, UsesOf
  <2>4. \A u \in Use : named'[u] = IF named[u] = a /\ TradeOf[u] # Contracting
                                   THEN Nobody ELSE named[u]
    BY <1>6 DEF DeleteAgent, Cleared, UsesOf
  <2>5. UNCHANGED <<unknown, unfit>>
    BY <1>6 DEF DeleteAgent, Cleared
  <2> QED
    BY <2>1, <2>2, <2>3, <2>4, <2>5
<1>7. ASSUME NEW u \in Use, NEW a \in Agent, NameAgent(u, a) PROVE UsesInOrder'
  <2>1. UNCHANGED trades /\ Agents' = Agents
    BY <1>7 DEF NameAgent, Agents
  <2>2. \A v \in Use : named'[v] = IF v = u THEN a ELSE named[v]
    BY <1>7 DEF NameAgent, AgentsTypeOK
  <2>3. \A v \in Use \ {u} : (v \in unfit' <=> v \in unfit) /\ (v \in unknown' <=> v \in unknown)
    BY <1>7 DEF NameAgent
  <2>4. /\ u \in unknown' \/ a \in Agents
        /\ u \in unfit' \/ (a \in Agents /\ TradeOf[u] \in trades[a])
    BY <1>7 DEF NameAgent
  <2> QED
    BY <2>1, <2>2, <2>3, <2>4
<1> QED
  BY <1>1, <1>2, <1>3, <1>4, <1>5, <1>6, <1>7 DEF AgentsNext

LEMMA AgentsStepInv == AgentsInv /\ [AgentsNext]_agentVars => AgentsInv'
BY AgentsTypeStep, AgentsStep DEF AgentsInv

LEMMA AgentsInvariance == AgentsSpec => []AgentsInv
BY AgentsInitInv, AgentsStepInv, PTL DEF AgentsSpec

\* The variables of Agents have their ranges.
THEOREM AgentsTypeCorrect == AgentsSpec => []AgentsTypeOK
<1>1. AgentsInv => AgentsTypeOK
  BY DEF AgentsInv
<1> QED
  BY AgentsInvariance, <1>1, PTL

\* However AgentWorkflow's updates and deletes overlap with saves, no record is left
\* with an agent that was deleted, but for those it was saved with so.
THEOREM DeletedAgentsAreCleared == AgentsSpec => []AgentsCleared
<1>1. AgentsInv => AgentsCleared
  BY DEF AgentsInv, UsesInOrder, AgentsCleared
<1> QED
  BY AgentsInvariance, <1>1, PTL

-----------------------------------------------------------------------------
\* Settings.

\* A save that was checked writes a row that is complete.
CheckedComplete ==
    \A p \in Page : page[p].step = "checked" => Complete(RowOf(p))

SettingsInv == SettingsTypeOK /\ EnabledComplete /\ CheckedComplete

\* A save under way has the one form and the one row that are read back from it.
LEMMA OneFormOneRow ==
    ASSUME SettingsTypeOK, NEW p \in Page, page[p].step # "idle"
    PROVE  /\ FormOf(p) \in Form /\ page[p].form = {FormOf(p)}
           /\ RowOf(p) \in SettingRow /\ page[p].row = {RowOf(p)}
<1>1. PICK form \in Form, row \in SettingRow : page[p].form = {form} /\ page[p].row = {row}
  BY DEF SettingsTypeOK
<1>2. FormOf(p) = form /\ RowOf(p) = row
  BY <1>1 DEF FormOf, RowOf
<1> QED
  BY <1>1, <1>2

\* What is mixed from a form and a row is a row.
LEMMA MixedType ==
    ASSUME NEW form \in Form, NEW row \in SettingRow
    PROVE  Mixed(form, row) \in SettingRow
<1>1. /\ form.on \in BOOLEAN /\ form.mode \in Mode \cup {NoMode}
      /\ form.filled \in SUBSET Mode /\ form.secret \in Secrets
  BY SettingsAssumption
<1>2. row.mode \in Mode /\ row.secret \in Secrets
  BY DEF SettingRow
<1>3. [m \in Mode |-> IF form.clear THEN NoSecret
                      ELSE IF form.secret[m] = NoSecret THEN row.secret[m]
                      ELSE form.secret[m]] \in Secrets
  BY <1>1, <1>2 DEF Secrets
<1> QED
  BY <1>1, <1>2, <1>3 DEF Mixed, SettingRow

LEMMA SettingsInitInv == ASSUME SettingsInit PROVE SettingsInv
<1> USE SettingsAssumption DEF SettingsInit
<1>1. NoSecrets \in Secrets
  BY DEF NoSecrets, Secrets
<1>2. \A k \in Kind : Unset(k) \in SettingRow
  BY <1>1 DEF Unset, SettingRow
<1>3. SettingsTypeOK
  BY <1>2 DEF SettingsTypeOK, PageState, IdlePage
<1>4. ModeAtFirst[Directory] \in Mode
  OBVIOUS
<1>5. EnabledComplete
  BY <1>4 DEF EnabledComplete, Complete, Unset, Listed, NoSecrets
<1>6. CheckedComplete
  BY DEF CheckedComplete, IdlePage
<1> QED
  BY <1>3, <1>5, <1>6 DEF SettingsInv

LEMMA SettingsStep ==
    ASSUME SettingsInv, [SettingsNext]_settingVars PROVE SettingsInv'
<1> USE SettingsAssumption DEF SettingsInv
<1>1. CASE UNCHANGED settingVars
  <2>1. SettingsTypeOK'
    BY <1>1 DEF settingVars, SettingsTypeOK
  <2>2. EnabledComplete'
    BY <1>1 DEF settingVars, EnabledComplete, Complete, Listed
  <2>3. CheckedComplete'
    BY <1>1 DEF settingVars, CheckedComplete, Complete, RowOf
  <2> QED
    BY <2>1, <2>2, <2>3
<1>2. ASSUME NEW p \in Page, NEW form \in Form, ReadSetting(p, form) PROVE SettingsInv'
  <2>1. form.kind \in Kind /\ setting[form.kind] \in SettingRow
    BY DEF SettingsTypeOK
  <2>2. page' = [page EXCEPT ![p] = [step |-> "read", form |-> {form},
                                     row |-> {setting[form.kind]}]]
        /\ UNCHANGED <<setting, listed>>
    BY <1>2 DEF ReadSetting
  <2>3. \A q \in Page : q # p => page'[q] = page[q]
    BY <2>2 DEF SettingsTypeOK
  <2>4. page'[p] = [step |-> "read", form |-> {form}, row |-> {setting[form.kind]}]
    BY <2>2 DEF SettingsTypeOK
  <2>5. page' \in [Page -> PageState]
    BY <2>1, <2>2 DEF SettingsTypeOK, PageState
  <2>6. SettingsTypeOK'
    BY <2>1, <2>2, <2>3, <2>4, <2>5 DEF SettingsTypeOK
  <2>7. CheckedComplete'
    BY <2>3, <2>4 DEF CheckedComplete, RowOf, Complete
  <2>8. EnabledComplete'
    BY <2>2 DEF EnabledComplete, Listed, Complete
  <2> QED
    BY <2>6, <2>7, <2>8
<1>3. ASSUME NEW p \in Page, CheckForm(p) PROVE SettingsInv'
  <2> DEFINE row == Mixed(FormOf(p), RowOf(p))
  <2>1. /\ page[p].step = "read" /\ Complete(row)
        /\ page' = [page EXCEPT ![p].step = "checked", ![p].row = {row}]
        /\ UNCHANGED <<setting, listed>>
    BY <1>3 DEF CheckForm
  <2>2. row \in SettingRow /\ page[p].form = {FormOf(p)} /\ FormOf(p) \in Form
    BY <2>1, OneFormOneRow, MixedType
  <2>3. \A q \in Page : q # p => page'[q] = page[q]
    BY <2>1 DEF SettingsTypeOK
  <2> HIDE DEF row
  <2>4. page'[p] = [step |-> "checked", form |-> {FormOf(p)}, row |-> {row}]
    BY <2>1, <2>2 DEF SettingsTypeOK, PageState
  <2>5. page'[p] \in PageState
    BY <2>2, <2>4 DEF PageState
  <2>5a. page' \in [Page -> PageState]
    BY <2>1, <2>3, <2>5 DEF SettingsTypeOK
  <2>6. SettingsTypeOK'
    BY <2>1, <2>2, <2>3, <2>4, <2>5a DEF SettingsTypeOK
  <2>7. RowOf(p)' = row
    BY <2>4 DEF RowOf
  <2>8. CheckedComplete'
    <3>1. \A q \in Page \ {p} : RowOf(q)' = RowOf(q)
      BY <2>3 DEF RowOf
    <3> QED
      BY <2>1, <2>3, <2>7, <3>1 DEF CheckedComplete, Complete
  <2>9. EnabledComplete'
    BY <2>1 DEF EnabledComplete, Listed, Complete
  <2> QED
    BY <2>6, <2>8, <2>9
<1>4. ASSUME NEW p \in Page, StoreSetting(p) PROVE SettingsInv'
  <2> DEFINE k == FormOf(p).kind
             row == RowOf(p)
  <2>1. /\ page[p].step = "checked"
        /\ setting' = [setting EXCEPT ![k] = row]
        /\ listed' = IF k = Directory THEN Listed(row) ELSE listed
        /\ page' = [page EXCEPT ![p] = IdlePage]
    BY <1>4 DEF StoreSetting
  <2>2. k \in Kind /\ row \in SettingRow /\ Complete(row)
    <3>1. FormOf(p) \in Form /\ row \in SettingRow
      BY <2>1, OneFormOneRow
    <3> QED
      BY <2>1, <3>1 DEF CheckedComplete
  <2> HIDE DEF k, row
  <2>3. \A l \in Kind : setting'[l] = IF l = k THEN row ELSE setting[l]
    BY <2>1 DEF SettingsTypeOK
  <2>4. \A q \in Page : page'[q] = IF q = p THEN IdlePage ELSE page[q]
    BY <2>1 DEF SettingsTypeOK
  <2>5. Listed(row) \in [on : BOOLEAN, has : BOOLEAN]
    BY <2>2 DEF Listed, SettingRow
  <2>5a. IdlePage \in PageState
    BY DEF PageState, IdlePage
  <2>5b. /\ page' \in [Page -> PageState]
         /\ listed' \in [on : BOOLEAN, has : BOOLEAN]
         /\ setting' \in [Kind -> SettingRow]
    BY <2>1, <2>2, <2>5, <2>5a DEF SettingsTypeOK
  <2>6. SettingsTypeOK'
    BY <2>4, <2>5b DEF SettingsTypeOK, IdlePage
  <2>7. CheckedComplete'
    BY <2>4 DEF CheckedComplete, RowOf, Complete, IdlePage
  <2>8. EnabledComplete'
    BY <2>1, <2>2, <2>3 DEF EnabledComplete, Listed, Complete
  <2> QED
    BY <2>6, <2>7, <2>8
<1>5. ASSUME NEW p \in Page, SaveFails(p) PROVE SettingsInv'
  <2>1. page' = [page EXCEPT ![p] = IdlePage] /\ UNCHANGED <<setting, listed>>
    BY <1>5 DEF SaveFails
  <2>2. \A q \in Page : page'[q] = IF q = p THEN IdlePage ELSE page[q]
    BY <2>1 DEF SettingsTypeOK
  <2>3. IdlePage \in PageState
    BY DEF PageState, IdlePage
  <2>4. SettingsTypeOK'
    BY <2>1, <2>2, <2>3 DEF SettingsTypeOK, IdlePage
  <2>5. CheckedComplete'
    BY <2>2 DEF CheckedComplete, RowOf, Complete, IdlePage
  <2>6. EnabledComplete'
    BY <2>1 DEF EnabledComplete, Listed, Complete
  <2> QED
    BY <2>4, <2>5, <2>6
<1> QED
  BY <1>1, <1>2, <1>3, <1>4, <1>5 DEF SettingsNext

LEMMA SettingsInvariance == SettingsSpec => []SettingsInv
BY SettingsInitInv, SettingsStep, PTL DEF SettingsSpec

\* The variables of Settings have their ranges.
THEOREM SettingsTypeCorrect == SettingsSpec => []SettingsTypeOK
<1>1. SettingsInv => SettingsTypeOK
  BY DEF SettingsInv
<1> QED
  BY SettingsInvariance, <1>1, PTL

\* However many saves mix their forms with rows that others overwrite, no setting in
\* use loses its secret, and the directory is listed as it is set.
THEOREM WhatIsInUseIsComplete == SettingsSpec => []EnabledComplete
<1>1. SettingsInv => EnabledComplete
  BY DEF SettingsInv
<1> QED
  BY SettingsInvariance, <1>1, PTL

-----------------------------------------------------------------------------
\* Locations.

\* A file that is not shown yet is on disk, and its handler's alone.
FreshPlans ==
    \A p \in Surveyor : (survey[p].step \in {"stored", "read"} /\ survey[p].new # NoPlan) =>
        /\ survey[p].new \in disk
        /\ \A l \in Location : floorplan[l] # survey[p].new
        /\ \A q \in Surveyor : /\ survey[q].old # survey[p].new
                               /\ q # p => survey[q].new # survey[p].new

\* A file is shown by one location.
OwnPlans ==
    \A l, m \in Location : (floorplan[l] \in Plan /\ floorplan[l] = floorplan[m]) => l = m

\* The file that a handler read is shown by its location or by none, and by none
\* when it is about to be removed.
OldPlans ==
    \A p \in Surveyor : survey[p].old # NoPlan =>
        /\ survey[p].step \in {"read", "condemned", "removing"}
        /\ \A l \in Location : (floorplan[l] = survey[p].old) =>
                                 (l = survey[p].at /\ survey[p].step # "removing")

\* Every name that is in use was drawn.
DrawnPlans ==
    /\ \A l \in Location : floorplan[l] \in drawn \cup {NoPlan, Unbuilt, Razed}
    /\ \A p \in Surveyor : {survey[p].new, survey[p].old} \subseteq drawn \cup {NoPlan}
    /\ \A p \in Surveyor : survey[p].step = "idle" => survey[p] = IdleSurvey
    /\ \A p \in Surveyor :
          survey[p].step \notin {"read", "condemned", "removing"} => survey[p].old = NoPlan

ShownOnDisk == \A l \in Locations : floorplan[l] # NoPlan => floorplan[l] \in disk

\* While a location is being counted and deleted its racks are on record as strayed.
CountedRacks ==
    \A p \in Surveyor : survey[p].step \in {"racks counted", "counted", "condemned"} =>
        \A x \in Racked : place[x] = survey[p].at => x \in strayed

PlacedFinds == \A x \in Placed : place[x] \notin Locations \cup {Nowhere} => x \in strayed

PlansInv == FreshPlans /\ OwnPlans /\ OldPlans /\ DrawnPlans /\ ShownOnDisk
PlacedInv == CountedRacks /\ PlacedFinds
LocationsInv == LocationsTypeOK /\ PlansInv /\ PlacedInv

\* Every step keeps the ranges.
LEMMA LocationsTypeStep ==
    ASSUME LocationsTypeOK, [LocationsNext]_locationVars
    PROVE  LocationsTypeOK'
<1> USE LocationsAssumption DEF LocationsTypeOK, SurveyStep
<1>1. CASE UNCHANGED <<floorplan, areaOf, place, spot, disk, drawn, strayed, survey>>
  BY <1>1 DEF Survey
<1> USE DEF SurveyAt, SurveyOn, SurveyEnd, Survey, IdleSurvey
<1>2. ASSUME NEW p \in Surveyor, NEW f \in Plan, StorePlan(p, f) PROVE LocationsTypeOK'
  BY <1>2 DEF StorePlan
<1>3. ASSUME NEW p \in Surveyor, NEW l \in Location, CreateLocation(p, l) PROVE
             LocationsTypeOK'
  BY <1>3 DEF CreateLocation
<1>4. ASSUME NEW p \in Surveyor, NEW l \in Location, ReadPlan(p, l) PROVE LocationsTypeOK'
  BY <1>4 DEF ReadPlan, Locations
<1>5. ASSUME NEW p \in Surveyor, CommitUpdate(p) PROVE LocationsTypeOK'
  <2>1. survey[p] \in Survey
    OBVIOUS
  <2>2. floorplan' \in [Location -> Plan \cup {NoPlan, Unbuilt, Razed}]
    BY <1>5, <2>1 DEF CommitUpdate
  <2>3. IdleSurvey \in Survey
        /\ [step |-> "removing", at |-> survey[p].at, new |-> survey[p].new,
            old |-> survey[p].old] \in Survey
    BY <2>1
  <2>4. survey' \in [Surveyor -> Survey]
    <3> HIDE DEF Survey, IdleSurvey
    <3> QED
      BY <1>5, <2>3 DEF CommitUpdate
  <2> QED
    BY <1>5, <2>2, <2>4 DEF CommitUpdate
<1>6. ASSUME NEW p \in Surveyor, RemovePlan(p) PROVE LocationsTypeOK'
  BY <1>6 DEF RemovePlan
<1>7. ASSUME NEW p \in Surveyor, NEW l \in Location, CountRacks(p, l) PROVE LocationsTypeOK'
  BY <1>7 DEF CountRacks
<1>8. ASSUME NEW p \in Surveyor, CountItems(p) PROVE LocationsTypeOK'
  BY <1>8 DEF CountItems
<1>9. ASSUME NEW p \in Surveyor, ReadForDelete(p) PROVE LocationsTypeOK'
  BY <1>9 DEF ReadForDelete, Locations
<1>10. ASSUME NEW p \in Surveyor, DeleteLocation(p) PROVE LocationsTypeOK'
  BY <1>10 DEF DeleteLocation
<1>11. ASSUME NEW p \in Surveyor, SurveyFails(p) PROVE LocationsTypeOK'
  BY <1>11 DEF SurveyFails
<1>12. ASSUME NEW a \in Area, NEW l \in Location, CreateArea(a, l) PROVE LocationsTypeOK'
  BY <1>12 DEF CreateArea
<1>13. ASSUME NEW a \in Area, NEW l \in Location, UpdateArea(a, l) PROVE LocationsTypeOK'
  BY <1>13 DEF UpdateArea
<1>14. ASSUME NEW p \in Surveyor, NEW a \in Area, CountAreaRacks(p, a) PROVE LocationsTypeOK'
  BY <1>14 DEF CountAreaRacks
<1>15. ASSUME NEW p \in Surveyor, CountAreaItems(p) PROVE LocationsTypeOK'
  BY <1>15 DEF CountAreaItems
<1>16. ASSUME NEW p \in Surveyor, DeleteArea(p) PROVE LocationsTypeOK'
  BY <1>16 DEF DeleteArea
<1>17. ASSUME NEW x \in Placed, NEW l \in Location \cup {Nowhere},
             NEW a \in Area \cup {Nowhere}, PlaceAt(x, l, a)
      PROVE  LocationsTypeOK'
  BY <1>17 DEF PlaceAt
<1> QED
  BY <1>1, <1>2, <1>3, <1>4, <1>5, <1>6, <1>7, <1>8, <1>9, <1>10, <1>11, <1>12, <1>13, <1>14,
     <1>15, <1>16, <1>17
     DEF LocationsNext, FloorplansNext, PlacesNext, locationVars

\* Names that are written down were drawn.
LEMMA DrawnStep ==
    ASSUME LocationsTypeOK, DrawnPlans, [LocationsNext]_locationVars
    PROVE  DrawnPlans'
<1> USE LocationsAssumption DEF LocationsTypeOK, DrawnPlans
<1>1. CASE UNCHANGED <<floorplan, survey, drawn>>
  BY <1>1 DEF Survey
<1> USE DEF SurveyAt, SurveyOn, SurveyEnd, Survey, IdleSurvey
<1>2. ASSUME NEW p \in Surveyor, NEW f \in Plan, StorePlan(p, f) PROVE DrawnPlans'
  BY <1>2 DEF StorePlan
<1>3. ASSUME NEW p \in Surveyor, NEW l \in Location, CreateLocation(p, l) PROVE DrawnPlans'
  BY <1>3 DEF CreateLocation
<1>4. ASSUME NEW p \in Surveyor, NEW l \in Location, ReadPlan(p, l) PROVE DrawnPlans'
  BY <1>4 DEF ReadPlan, Locations
<1>5. ASSUME NEW p \in Surveyor, CommitUpdate(p) PROVE DrawnPlans'
  <2>1. CASE survey[p].new = NoPlan
    BY <1>5, <2>1 DEF CommitUpdate
  <2>2. CASE survey[p].new # NoPlan
    BY <1>5, <2>2 DEF CommitUpdate
  <2> QED
    BY <2>1, <2>2
<1>6. ASSUME NEW p \in Surveyor, RemovePlan(p) PROVE DrawnPlans'
  BY <1>6 DEF RemovePlan
<1>7. ASSUME NEW p \in Surveyor, NEW l \in Location, CountRacks(p, l) PROVE DrawnPlans'
  BY <1>7 DEF CountRacks
<1>8. ASSUME NEW p \in Surveyor, CountItems(p) PROVE DrawnPlans'
  BY <1>8 DEF CountItems
<1>9. ASSUME NEW p \in Surveyor, ReadForDelete(p) PROVE DrawnPlans'
  BY <1>9 DEF ReadForDelete, Locations
<1>10. ASSUME NEW p \in Surveyor, DeleteLocation(p) PROVE DrawnPlans'
  BY <1>10 DEF DeleteLocation
<1>11. ASSUME NEW p \in Surveyor, SurveyFails(p) PROVE DrawnPlans'
  BY <1>11 DEF SurveyFails
<1>12. ASSUME NEW p \in Surveyor, NEW a \in Area, CountAreaRacks(p, a) PROVE DrawnPlans'
  BY <1>12 DEF CountAreaRacks
<1>13. ASSUME NEW p \in Surveyor, CountAreaItems(p) PROVE DrawnPlans'
  BY <1>13 DEF CountAreaItems
<1>14. ASSUME NEW p \in Surveyor, DeleteArea(p) PROVE DrawnPlans'
  BY <1>14 DEF DeleteArea
<1> QED
  BY <1>1, <1>2, <1>3, <1>4, <1>5, <1>6, <1>7, <1>8, <1>9, <1>10, <1>11, <1>12, <1>13, <1>14
     DEF LocationsNext, FloorplansNext, PlacesNext, locationVars,
         CreateArea, UpdateArea, PlaceAt

\* What a handler stored waits for it alone.
LEMMA FreshStep ==
    ASSUME LocationsTypeOK, DrawnPlans, FreshPlans, OldPlans, [LocationsNext]_locationVars
    PROVE  FreshPlans'
<1> USE LocationsAssumption DEF LocationsTypeOK, DrawnPlans, FreshPlans
<1>1. CASE UNCHANGED <<floorplan, survey, disk>>
  BY <1>1 DEF Survey
<1>a. ASSUME NEW p \in Surveyor, UNCHANGED <<floorplan, disk>>,
             \A q \in Surveyor \ {p} : survey'[q] = survey[q],
             survey'[p].step \notin {"stored", "read"},
             survey'[p].new \in {NoPlan, survey[p].new}, survey'[p].old \in {NoPlan, survey[p].old}
      PROVE  FreshPlans'
  <2> SUFFICES ASSUME NEW q \in Surveyor,
                      survey'[q].step \in {"stored", "read"}, survey'[q].new # NoPlan
               PROVE  /\ survey[q].new \in disk
                      /\ \A l \in Location : floorplan[l] # survey[q].new
                      /\ \A o \in Surveyor : /\ survey'[o].old # survey[q].new
                                             /\ o # q => survey'[o].new # survey[q].new
    BY <1>a
  <2>1. q # p /\ survey'[q] = survey[q]
    BY <1>a
  <2> QED
    BY <1>a, <2>1
<1>b. ASSUME NEW p \in Surveyor, SurveyEnd(p), UNCHANGED <<floorplan, disk>> PROVE FreshPlans'
  <2>1. /\ \A q \in Surveyor \ {p} : survey'[q] = survey[q]
        /\ survey'[p] = IdleSurvey
    BY <1>b DEF SurveyEnd
  <2> QED
    BY <1>a, <1>b, <2>1 DEF IdleSurvey
<1>c. ASSUME NEW p \in Surveyor, NEW step \in SurveyStep \ {"stored", "read"}, NEW at,
             SurveyOn(p, step, at), UNCHANGED <<floorplan, disk>>
      PROVE  FreshPlans'
  <2>1. /\ \A q \in Surveyor \ {p} : survey'[q] = survey[q]
        /\ survey'[p].step = step
        /\ survey'[p].new = survey[p].new /\ survey'[p].old = survey[p].old
    BY <1>c DEF SurveyOn
  <2> QED
    BY <1>a, <1>c, <2>1
<1> USE DEF SurveyAt, Survey
<1>2. ASSUME NEW p \in Surveyor, NEW f \in Plan, StorePlan(p, f) PROVE FreshPlans'
  BY <1>2 DEF StorePlan, IdleSurvey
<1>3. ASSUME NEW p \in Surveyor, NEW l \in Location, CreateLocation(p, l) PROVE FreshPlans'
  BY <1>3 DEF CreateLocation, SurveyEnd, IdleSurvey
<1>4. ASSUME NEW p \in Surveyor, NEW l \in Location, ReadPlan(p, l) PROVE FreshPlans'
  BY <1>4 DEF ReadPlan, Locations, IdleSurvey
<1>5. ASSUME NEW p \in Surveyor, CommitUpdate(p) PROVE FreshPlans'
  <2>1. CASE survey[p].new = NoPlan
    BY <1>5, <1>b, <2>1 DEF CommitUpdate
  <2>2. CASE survey[p].new # NoPlan
    BY <1>5, <2>2 DEF CommitUpdate, SurveyOn
  <2> QED
    BY <2>1, <2>2
<1>6. ASSUME NEW p \in Surveyor, RemovePlan(p) PROVE FreshPlans'
  BY <1>6 DEF RemovePlan, SurveyEnd, IdleSurvey
<1>7. ASSUME NEW p \in Surveyor, NEW l \in Location, CountRacks(p, l) PROVE FreshPlans'
  <2>1. SurveyOn(p, "racks counted", l) /\ UNCHANGED <<floorplan, disk>>
    BY <1>7 DEF CountRacks
  <2> HIDE DEF FreshPlans, DrawnPlans, LocationsTypeOK
  <2> QED
    BY <1>c, <2>1 DEF SurveyStep
<1>8. ASSUME NEW p \in Surveyor, CountItems(p) PROVE FreshPlans'
  <2>1. SurveyOn(p, "counted", survey[p].at) /\ UNCHANGED <<floorplan, disk>>
    BY <1>8 DEF CountItems
  <2> HIDE DEF FreshPlans, DrawnPlans, LocationsTypeOK
  <2> QED
    BY <1>c, <2>1 DEF SurveyStep
<1>9. ASSUME NEW p \in Surveyor, ReadForDelete(p) PROVE FreshPlans'
  BY <1>9 DEF ReadForDelete, Locations
<1>10. ASSUME NEW p \in Surveyor, DeleteLocation(p) PROVE FreshPlans'
  <2>1. floorplan' = [floorplan EXCEPT ![survey[p].at] = Razed]
    BY <1>10 DEF DeleteLocation
  <2> QED
    BY <1>10, <2>1 DEF DeleteLocation, SurveyOn
<1>11. ASSUME NEW p \in Surveyor, SurveyFails(p) PROVE FreshPlans'
  <2>1. SurveyEnd(p) /\ UNCHANGED <<floorplan, disk>>
    BY <1>11 DEF SurveyFails
  <2> HIDE DEF FreshPlans, DrawnPlans, LocationsTypeOK
  <2> QED
    BY <1>b, <2>1
<1>12. ASSUME NEW p \in Surveyor, NEW a \in Area, CountAreaRacks(p, a) PROVE FreshPlans'
  <2>1. SurveyOn(p, "area racks counted", a) /\ UNCHANGED <<floorplan, disk>>
    BY <1>12 DEF CountAreaRacks
  <2> HIDE DEF FreshPlans, DrawnPlans, LocationsTypeOK
  <2> QED
    BY <1>c, <2>1 DEF SurveyStep
<1>13. ASSUME NEW p \in Surveyor, CountAreaItems(p) PROVE FreshPlans'
  <2>1. SurveyOn(p, "area counted", survey[p].at) /\ UNCHANGED <<floorplan, disk>>
    BY <1>13 DEF CountAreaItems
  <2> HIDE DEF FreshPlans, DrawnPlans, LocationsTypeOK
  <2> QED
    BY <1>c, <2>1 DEF SurveyStep
<1>14. ASSUME NEW p \in Surveyor, DeleteArea(p) PROVE FreshPlans'
  <2>1. SurveyEnd(p) /\ UNCHANGED <<floorplan, disk>>
    BY <1>14 DEF DeleteArea
  <2> HIDE DEF FreshPlans, DrawnPlans, LocationsTypeOK
  <2> QED
    BY <1>b, <2>1
<1> QED
  BY <1>1, <1>2, <1>3, <1>4, <1>5, <1>6, <1>7, <1>8, <1>9, <1>10, <1>11, <1>12, <1>13, <1>14
     DEF LocationsNext, FloorplansNext, PlacesNext, locationVars,
         CreateArea, UpdateArea, PlaceAt

\* A location gets a file that no other shows.
LEMMA OwnStep ==
    ASSUME LocationsTypeOK, DrawnPlans, FreshPlans, OwnPlans, [LocationsNext]_locationVars
    PROVE  OwnPlans'
<1> USE LocationsAssumption DEF LocationsTypeOK, DrawnPlans, FreshPlans, OwnPlans
<1>1. CASE UNCHANGED floorplan
  BY <1>1 DEF Survey
<1> USE DEF SurveyAt, SurveyOn, SurveyEnd, Survey, IdleSurvey
<1>2. ASSUME NEW p \in Surveyor, NEW l \in Location, CreateLocation(p, l) PROVE OwnPlans'
  BY <1>2 DEF CreateLocation
<1>3. ASSUME NEW p \in Surveyor, CommitUpdate(p) PROVE OwnPlans'
  <2>1. CASE survey[p].new = NoPlan
    BY <1>3, <2>1 DEF CommitUpdate
  <2>2. CASE survey[p].new # NoPlan
    BY <1>3, <2>2 DEF CommitUpdate
  <2> QED
    BY <2>1, <2>2
<1>4. ASSUME NEW p \in Surveyor, DeleteLocation(p) PROVE OwnPlans'
  BY <1>4 DEF DeleteLocation
<1> QED
  BY <1>1, <1>2, <1>3, <1>4
     DEF LocationsNext, FloorplansNext, PlacesNext, locationVars,
         StorePlan, ReadPlan, RemovePlan, CountRacks, CountItems, ReadForDelete,
         SurveyFails, CreateArea, UpdateArea, CountAreaRacks, CountAreaItems,
         DeleteArea, PlaceAt

\* What a handler is about to remove was replaced, or its location is gone.
LEMMA OldStep ==
    ASSUME LocationsTypeOK, DrawnPlans, FreshPlans, OwnPlans, OldPlans,
           [LocationsNext]_locationVars
    PROVE  OldPlans'
<1> USE LocationsAssumption DEF LocationsTypeOK, DrawnPlans, FreshPlans, OwnPlans, OldPlans,
       Locations
<1>1. CASE UNCHANGED <<floorplan, survey>>
  BY <1>1 DEF Survey
<1> USE DEF SurveyAt, SurveyOn, SurveyEnd, Survey, IdleSurvey
<1>2. ASSUME NEW p \in Surveyor, NEW f \in Plan, StorePlan(p, f) PROVE OldPlans'
  BY <1>2 DEF StorePlan
<1>3. ASSUME NEW p \in Surveyor, NEW l \in Location, CreateLocation(p, l) PROVE OldPlans'
  BY <1>3 DEF CreateLocation
<1>4. ASSUME NEW p \in Surveyor, NEW l \in Location, ReadPlan(p, l) PROVE OldPlans'
  BY <1>4 DEF ReadPlan
<1>5. ASSUME NEW p \in Surveyor, CommitUpdate(p) PROVE OldPlans'
  <2>1. CASE survey[p].new = NoPlan
    BY <1>5, <2>1 DEF CommitUpdate
  <2>2. CASE survey[p].new # NoPlan
    BY <1>5, <2>2 DEF CommitUpdate
  <2> QED
    BY <2>1, <2>2
<1>6. ASSUME NEW p \in Surveyor, RemovePlan(p) PROVE OldPlans'
  BY <1>6 DEF RemovePlan
<1>7. ASSUME NEW p \in Surveyor, NEW l \in Location, CountRacks(p, l) PROVE OldPlans'
  BY <1>7 DEF CountRacks
<1>8. ASSUME NEW p \in Surveyor, CountItems(p) PROVE OldPlans'
  BY <1>8 DEF CountItems
<1>9. ASSUME NEW p \in Surveyor, ReadForDelete(p) PROVE OldPlans'
  BY <1>9 DEF ReadForDelete
<1>10. ASSUME NEW p \in Surveyor, DeleteLocation(p) PROVE OldPlans'
  BY <1>10 DEF DeleteLocation
<1>11. ASSUME NEW p \in Surveyor, SurveyFails(p) PROVE OldPlans'
  BY <1>11 DEF SurveyFails
<1>12. ASSUME NEW p \in Surveyor, NEW a \in Area, CountAreaRacks(p, a) PROVE OldPlans'
  BY <1>12 DEF CountAreaRacks
<1>13. ASSUME NEW p \in Surveyor, CountAreaItems(p) PROVE OldPlans'
  BY <1>13 DEF CountAreaItems
<1>14. ASSUME NEW p \in Surveyor, DeleteArea(p) PROVE OldPlans'
  BY <1>14 DEF DeleteArea
<1> QED
  BY <1>1, <1>2, <1>3, <1>4, <1>5, <1>6, <1>7, <1>8, <1>9, <1>10, <1>11, <1>12, <1>13, <1>14
     DEF LocationsNext, FloorplansNext, PlacesNext, locationVars,
         CreateArea, UpdateArea, PlaceAt

\* A file is removed only when nothing shows it.
LEMMA ShownStep ==
    ASSUME LocationsTypeOK, DrawnPlans, FreshPlans, OldPlans, ShownOnDisk,
           [LocationsNext]_locationVars
    PROVE  ShownOnDisk'
<1> USE LocationsAssumption DEF LocationsTypeOK, DrawnPlans, FreshPlans, OldPlans, ShownOnDisk,
       Locations
<1>1. CASE UNCHANGED <<floorplan, disk>>
  BY <1>1 DEF Survey
<1> USE DEF SurveyAt, SurveyOn, SurveyEnd, Survey, IdleSurvey
<1>2. ASSUME NEW p \in Surveyor, NEW f \in Plan, StorePlan(p, f) PROVE ShownOnDisk'
  BY <1>2 DEF StorePlan
<1>3. ASSUME NEW p \in Surveyor, NEW l \in Location, CreateLocation(p, l) PROVE ShownOnDisk'
  BY <1>3 DEF CreateLocation
<1>4. ASSUME NEW p \in Surveyor, CommitUpdate(p) PROVE ShownOnDisk'
  <2>1. CASE survey[p].new = NoPlan
    BY <1>4, <2>1 DEF CommitUpdate
  <2>2. CASE survey[p].new # NoPlan
    BY <1>4, <2>2 DEF CommitUpdate
  <2> QED
    BY <2>1, <2>2
<1>5. ASSUME NEW p \in Surveyor, RemovePlan(p) PROVE ShownOnDisk'
  BY <1>5 DEF RemovePlan
<1>6. ASSUME NEW p \in Surveyor, DeleteLocation(p) PROVE ShownOnDisk'
  BY <1>6 DEF DeleteLocation
<1> QED
  BY <1>1, <1>2, <1>3, <1>4, <1>5, <1>6
     DEF LocationsNext, FloorplansNext, PlacesNext, locationVars,
         ReadPlan, CountRacks, CountItems, ReadForDelete, SurveyFails,
         CreateArea, UpdateArea, CountAreaRacks, CountAreaItems, DeleteArea,
         PlaceAt

\* A rack that comes to a location after its count is on record.
LEMMA RacksStep ==
    ASSUME LocationsTypeOK, CountedRacks, [LocationsNext]_locationVars
    PROVE  CountedRacks'
<1> USE LocationsAssumption DEF LocationsTypeOK, CountedRacks
<1>1. CASE UNCHANGED <<place, strayed, survey>>
  BY <1>1 DEF Survey
<1> USE DEF SurveyAt, SurveyOn, SurveyEnd, Survey, IdleSurvey
<1>2. ASSUME NEW p \in Surveyor, NEW f \in Plan, StorePlan(p, f) PROVE CountedRacks'
  BY <1>2 DEF StorePlan
<1>3. ASSUME NEW p \in Surveyor, NEW l \in Location, CreateLocation(p, l) PROVE CountedRacks'
  BY <1>3 DEF CreateLocation
<1>4. ASSUME NEW p \in Surveyor, NEW l \in Location, ReadPlan(p, l) PROVE CountedRacks'
  BY <1>4 DEF ReadPlan
<1>5. ASSUME NEW p \in Surveyor, CommitUpdate(p) PROVE CountedRacks'
  <2>1. survey'[p].step \in {"idle", "removing"} /\ UNCHANGED <<place, strayed>>
    <3>1. CASE survey[p].new = NoPlan
      <4>1. survey' = [survey EXCEPT ![p] = IdleSurvey]
        BY <1>5, <3>1 DEF CommitUpdate
      <4>2. survey'[p] = IdleSurvey
        <5> HIDE DEF IdleSurvey
        <5> QED
          BY <4>1
      <4>3. IdleSurvey.step = "idle"
        OBVIOUS
      <4>4. survey'[p].step = "idle"
        <5> HIDE DEF IdleSurvey
        <5> QED
          BY <4>2, <4>3
      <4> QED
        BY <1>5, <4>4 DEF CommitUpdate
    <3>2. CASE survey[p].new # NoPlan
      <4>1. survey' = [survey EXCEPT ![p] = [step |-> "removing", at |-> survey[p].at,
                          new |-> survey[p].new, old |-> survey[p].old]]
        BY <1>5, <3>2 DEF CommitUpdate
      <4>2. survey'[p].step = "removing"
        BY <4>1
      <4> QED
        BY <1>5, <4>2 DEF CommitUpdate
    <3> QED
      BY <3>1, <3>2
  <2>2. \A q \in Surveyor \ {p} : survey'[q] = survey[q]
    BY <1>5 DEF CommitUpdate
  <2> QED
    BY <2>1, <2>2
<1>6. ASSUME NEW p \in Surveyor, RemovePlan(p) PROVE CountedRacks'
  BY <1>6 DEF RemovePlan
<1>7. ASSUME NEW p \in Surveyor, NEW l \in Location, CountRacks(p, l) PROVE CountedRacks'
  BY <1>7 DEF CountRacks
<1>8. ASSUME NEW p \in Surveyor, CountItems(p) PROVE CountedRacks'
  BY <1>8 DEF CountItems
<1>9. ASSUME NEW p \in Surveyor, ReadForDelete(p) PROVE CountedRacks'
  BY <1>9 DEF ReadForDelete
<1>10. ASSUME NEW p \in Surveyor, DeleteLocation(p) PROVE CountedRacks'
  BY <1>10 DEF DeleteLocation
<1>11. ASSUME NEW p \in Surveyor, SurveyFails(p) PROVE CountedRacks'
  BY <1>11 DEF SurveyFails
<1>12. ASSUME NEW p \in Surveyor, NEW a \in Area, CountAreaRacks(p, a) PROVE CountedRacks'
  BY <1>12 DEF CountAreaRacks
<1>13. ASSUME NEW p \in Surveyor, CountAreaItems(p) PROVE CountedRacks'
  BY <1>13 DEF CountAreaItems
<1>14. ASSUME NEW p \in Surveyor, DeleteArea(p) PROVE CountedRacks'
  BY <1>14 DEF DeleteArea
<1>15. ASSUME NEW x \in Placed, NEW l \in Location \cup {Nowhere},
             NEW a \in Area \cup {Nowhere}, PlaceAt(x, l, a)
      PROVE  CountedRacks'
  BY <1>15 DEF PlaceAt
<1> QED
  BY <1>1, <1>2, <1>3, <1>4, <1>5, <1>6, <1>7, <1>8, <1>9, <1>10, <1>11, <1>12, <1>13, <1>14,
     <1>15
     DEF LocationsNext, FloorplansNext, PlacesNext, locationVars,
         CreateArea, UpdateArea

\* Items leave with their location, racks are on record.
LEMMA PlacedStep ==
    ASSUME LocationsTypeOK, CountedRacks, PlacedFinds, [LocationsNext]_locationVars
    PROVE  PlacedFinds'
<1> USE LocationsAssumption DEF LocationsTypeOK, CountedRacks, PlacedFinds, Locations
<1>1. CASE UNCHANGED <<floorplan, place, strayed>>
  BY <1>1 DEF Survey
<1> USE DEF SurveyAt, SurveyOn, SurveyEnd, Survey, IdleSurvey
<1>2. ASSUME NEW p \in Surveyor, NEW l \in Location, CreateLocation(p, l) PROVE PlacedFinds'
  BY <1>2 DEF CreateLocation
<1>3. ASSUME NEW p \in Surveyor, CommitUpdate(p) PROVE PlacedFinds'
  <2>1. CASE survey[p].new = NoPlan
    BY <1>3, <2>1 DEF CommitUpdate
  <2>2. CASE survey[p].new # NoPlan
    BY <1>3, <2>2 DEF CommitUpdate
  <2> QED
    BY <2>1, <2>2
<1>4. ASSUME NEW p \in Surveyor, DeleteLocation(p) PROVE PlacedFinds'
  BY <1>4 DEF DeleteLocation
<1>5. ASSUME NEW x \in Placed, NEW l \in Location \cup {Nowhere},
             NEW a \in Area \cup {Nowhere}, PlaceAt(x, l, a)
      PROVE  PlacedFinds'
  BY <1>5 DEF PlaceAt
<1> QED
  BY <1>1, <1>2, <1>3, <1>4, <1>5
     DEF LocationsNext, FloorplansNext, PlacesNext, locationVars,
         StorePlan, ReadPlan, RemovePlan, CountRacks, CountItems, ReadForDelete,
         SurveyFails, CreateArea, UpdateArea, CountAreaRacks, CountAreaItems,
         DeleteArea

LEMMA LocationsInitInv == ASSUME LocationsInit PROVE LocationsInv
BY LocationsAssumption
   DEF LocationsInit, LocationsInv, LocationsTypeOK, PlansInv, FreshPlans, OwnPlans, OldPlans,
       DrawnPlans, ShownOnDisk, PlacedInv, CountedRacks, PlacedFinds, Locations, Survey,
       SurveyStep, IdleSurvey

LEMMA LocationsStepInv == LocationsInv /\ [LocationsNext]_locationVars => LocationsInv'
BY LocationsTypeStep, DrawnStep, FreshStep, OwnStep, OldStep, ShownStep, RacksStep,
   PlacedStep DEF LocationsInv, PlansInv, PlacedInv

LEMMA LocationsInvariance == LocationsSpec => []LocationsInv
BY LocationsInitInv, LocationsStepInv, PTL DEF LocationsSpec

\* The variables of Locations have their ranges.
THEOREM LocationsTypeCorrect == LocationsSpec => []LocationsTypeOK
<1>1. LocationsInv => LocationsTypeOK
  BY DEF LocationsInv
<1> QED
  BY LocationsInvariance, <1>1, PTL

\* However updates and deletes of locations overlap with one another and with saves,
\* no floorplan is removed that a location shows, and nothing stays behind in a
\* location that is gone but what came after its count.
THEOREM LocationsKeepTheirs == LocationsSpec => []LocationsKept
<1>1. LocationsInv => LocationsKept
  BY DEF LocationsInv, PlansInv, PlacedInv, ShownOnDisk, PlacedFinds, LocationsKept
<1> QED
  BY LocationsInvariance, <1>1, PTL

-----------------------------------------------------------------------------
\* Dictionaries.

ContractsFind ==
    \A c \in Contracts :
        Referents(contract[c]) \subseteq Types \cup Subtypes \cup Contracts \cup missing[c]

\* A link that is not on record as loose has both its ends.
LinksFind == \A link \in tagged : link \in Tags \X Things \/ link \in loose

TypesUnique == \A t, u \in Types : (type[t] = type[u] /\ t # u) => type[t] = Blank
SubtypesUnique ==
    \A s, u \in Subtypes : (subtype[s] = subtype[u] /\ s # u) => subtype[s].text = Blank
TagsUnique ==
    \A g, h \in Tags : (tag[g].text = tag[h].text /\ g # h) => {g, h} \cap doubled # {}

DictionariesInv ==
    DictionariesTypeOK /\ ContractsFind /\ LinksFind /\ TypesUnique /\ SubtypesUnique /\ TagsUnique

\* Every step keeps the ranges.
LEMMA DictionariesTypeStep ==
    ASSUME DictionariesTypeOK, [DictionariesNext]_dictionaryVars
    PROVE  DictionariesTypeOK'
<1> USE DictionariesAssumption DEF DictionariesTypeOK, NoRow2, contractVars, tagVars
<1>1. CASE UNCHANGED dictionaryVars
  BY <1>1 DEF dictionaryVars
<1>2. ASSUME NEW t \in Type, NEW x \in Text, CreateType(t, x) PROVE DictionariesTypeOK'
  BY <1>2 DEF CreateType
<1>3. ASSUME NEW t \in Type, NEW x \in Text, UpdateType(t, x) PROVE DictionariesTypeOK'
  BY <1>3 DEF UpdateType
<1>4. ASSUME NEW t \in Type, DeleteType(t) PROVE DictionariesTypeOK'
  BY <1>4 DEF DeleteType
<1>5. ASSUME NEW s \in Subtype, NEW x \in Text, NEW t \in Type, CreateSubtype(s, x, t)
      PROVE  DictionariesTypeOK'
  BY <1>5 DEF CreateSubtype, SubtypeRow
<1>6. ASSUME NEW s \in Subtype, NEW x \in Text, NEW t \in Type, UpdateSubtype(s, x, t)
      PROVE  DictionariesTypeOK'
  BY <1>6 DEF UpdateSubtype, SubtypeRow
<1>7. ASSUME NEW s \in Subtype, DeleteSubtype(s) PROVE DictionariesTypeOK'
  BY <1>7 DEF DeleteSubtype
<1>8. ASSUME NEW c \in Contract, NEW row \in ContractRow, SaveContract(c, row)
      PROVE  DictionariesTypeOK'
  <2>1. Referents(row) \subseteq Type \cup Subtype \cup Contract
    <3>1. /\ row.type \in Type /\ row.subtype \in Subtype \cup {NoRef}
          /\ row.parent \in Contract \cup {NoRef}
      BY DEF ContractRow
    <3> QED
      BY <3>1 DEF Referents
  <2>2. missing' \in [Contract -> SUBSET (Type \cup Subtype \cup Contract)]
    BY <1>8, <2>1 DEF SaveContract
  <2> QED
    BY <1>8, <2>2 DEF SaveContract
<1>9. ASSUME NEW c \in Contract, DeleteContract(c) PROVE DictionariesTypeOK'
  BY <1>9 DEF DeleteContract
<1>10. ASSUME NEW g \in Tag, NEW x \in Text \ {Blank}, NEW padded \in BOOLEAN, CreateTag(g, x,
              padded)
      PROVE  DictionariesTypeOK'
  BY <1>10 DEF CreateTag, TagRow
<1>11. ASSUME NEW g \in Tag, NEW x \in Text \ {Blank}, NEW padded \in BOOLEAN, RenameTag(g, x,
              padded)
      PROVE  DictionariesTypeOK'
  BY <1>11 DEF RenameTag, TagRow
<1>12. ASSUME NEW g \in Tag, DeleteTag(g) PROVE DictionariesTypeOK'
  BY <1>12 DEF DeleteTag
<1>13. ASSUME NEW p \in Tagger, NEW i \in Thing, NEW x \in Text \ {Blank}, NEW add \in BOOLEAN,
              LookTag(p, i, x, add)
      PROVE  DictionariesTypeOK'
  BY <1>13 DEF LookTag, Tagging, IdleTagging, Tags
<1>14. ASSUME NEW p \in Tagger, NEW g \in Tag, AddTag(p, g) PROVE DictionariesTypeOK'
  <2>1. tagging[p] \in Tagging /\ tagging[p].text \in Text
    BY DEF Tagging
  <2>2. tag' \in [Tag -> TagRow \cup {Unborn, Erased}] /\ doubled' \subseteq Tag
    <3>1. tagging[p].text # Blank => [text |-> tagging[p].text, padded |-> FALSE] \in TagRow
      BY <2>1 DEF TagRow
    <3>2. tagging[p].text # Blank
      BY <1>14 DEF AddTag
    <3> QED
      BY <1>14, <3>1, <3>2 DEF AddTag
  <2>3. tagging' \in [Tagger -> Tagging]
    BY <1>14, <2>1 DEF AddTag, Tagging
  <2> QED
    BY <1>14, <2>2, <2>3 DEF AddTag
<1>15. ASSUME NEW p \in Tagger, LinkTag(p) PROVE DictionariesTypeOK'
  <2>1. IdleTagging \in Tagging
    BY DEF Tagging, IdleTagging
  <2>2. tagging' \in [Tagger -> Tagging]
    BY <1>15, <2>1 DEF LinkTag
  <2>3. tagged' \subseteq Tag \X Thing /\ loose' \subseteq tagged'
    BY <1>15 DEF LinkTag
  <2>4. \A q \in Tagger : tagging'[q] = IF q = p THEN IdleTagging ELSE tagging[q]
    BY <1>15 DEF LinkTag
  <2>5. IdleTagging.step = "idle"
    BY DEF IdleTagging
  <2>6. \A q \in Tagger :
            /\ tagging'[q].step # "idle" =>
                   tagging'[q].thing \in Thing /\ tagging'[q].text # Blank
            /\ tagging'[q].step = "linking" => tagging'[q].tag \in Tag
    BY <2>4, <2>5
  <2> QED
    BY <1>15, <2>2, <2>3, <2>6 DEF LinkTag
<1>16. ASSUME NEW p \in Tagger, TaggingFails(p) PROVE DictionariesTypeOK'
  BY <1>16 DEF TaggingFails, Tagging, IdleTagging
<1>17. ASSUME NEW i \in Thing, AddThing(i) PROVE DictionariesTypeOK'
  BY <1>17 DEF AddThing
<1>18. ASSUME NEW i \in Thing, EraseThing(i) PROVE DictionariesTypeOK'
  BY <1>18 DEF EraseThing
<1>19. ASSUME CleanLinks PROVE DictionariesTypeOK'
  BY <1>19 DEF CleanLinks, Tagging, IdleTagging
<1>20. CASE ContractsNext
  BY <1>1, <1>20, <1>2, <1>3, <1>4, <1>5, <1>6, <1>7, <1>8, <1>9 DEF ContractsNext,
     tagVars, contractVars
<1>21. CASE TagsNext
  BY <1>1, <1>21, <1>10, <1>11, <1>12, <1>13, <1>14, <1>15, <1>16, <1>17, <1>18, <1>19
     DEF TagsNext, tagVars, contractVars
<1> QED
  BY <1>1, <1>20, <1>21 DEF DictionariesNext, dictionaryVars

\* What a contract names is kept for it.
LEMMA ContractsStep ==
    ASSUME DictionariesTypeOK, ContractsFind, [DictionariesNext]_dictionaryVars
    PROVE  ContractsFind'
<1> USE DictionariesAssumption DEF DictionariesTypeOK, ContractsFind, Types, Subtypes,
       Contracts, Referents, NoRow2, contractVars, tagVars
<1>1. CASE UNCHANGED <<type, subtype, contract, missing>>
  BY <1>1 DEF dictionaryVars
<1>2. ASSUME NEW t \in Type, NEW x \in Text, CreateType(t, x) PROVE ContractsFind'
  BY <1>2 DEF CreateType
<1>3. ASSUME NEW t \in Type, NEW x \in Text, UpdateType(t, x) PROVE ContractsFind'
  BY <1>3 DEF UpdateType
<1>4. ASSUME NEW t \in Type, DeleteType(t) PROVE ContractsFind'
  <2>1. Contracts' = Contracts /\ Types \ {t} \subseteq Types' /\ UNCHANGED <<contract, missing>>
    BY <1>4 DEF DeleteType
  <2>2. \A c \in Contracts : contract[c].type # t
    BY <1>4 DEF DeleteType, NamesType
  <2>3. \A c \in Contracts : contract[c].subtype \notin SubtypesOf(t)
    BY <1>4 DEF DeleteType, NamesSubtype, SubtypesOf
  <2>4. Subtypes \ SubtypesOf(t) \subseteq Subtypes'
    BY <1>4 DEF DeleteType
  <2>5. \A c \in Contracts : contract[c].type \in Type /\ contract[c].subtype \in Subtype \cup {NoRef}
                            /\ contract[c].parent \in Contract \cup {NoRef}
    BY DEF ContractRow
  <2>6. t \notin Subtype \cup Contract /\ SubtypesOf(t) \subseteq Subtype
        /\ SubtypesOf(t) \cap (Type \cup Contract) = {} /\ NoRef \notin Type \cup Subtype
    BY DEF SubtypesOf
  <2>7. \A c \in Contracts : {t} \cup SubtypesOf(t) \subseteq {x \in Type \cup Subtype : x \notin Referents(contract[c])}
    <3> HIDE DEF Contracts, Types, Subtypes
    <3> QED
      BY <2>2, <2>3, <2>5, <2>6
  <2> HIDE DEF Contracts, Types, Subtypes, Referents
  <2> QED
    BY <2>1, <2>4, <2>7
<1>5. ASSUME NEW s \in Subtype, NEW x \in Text, NEW t \in Type, CreateSubtype(s, x, t)
      PROVE  ContractsFind'
  BY <1>5 DEF CreateSubtype, SubtypeRow
<1>6. ASSUME NEW s \in Subtype, NEW x \in Text, NEW t \in Type, UpdateSubtype(s, x, t)
      PROVE  ContractsFind'
  BY <1>6 DEF UpdateSubtype, SubtypeRow
<1>7. ASSUME NEW s \in Subtype, DeleteSubtype(s) PROVE ContractsFind'
  <2>1. Contracts' = Contracts /\ Types' = Types /\ Subtypes' = Subtypes \ {s} /\ UNCHANGED <<contract, missing>>
    BY <1>7 DEF DeleteSubtype
  <2>2. \A c \in Contracts : contract[c].subtype # s
    BY <1>7 DEF DeleteSubtype, NamesSubtype
  <2>3. \A c \in Contracts : contract[c].type \in Type /\ contract[c].parent \in Contract \cup {NoRef}
    BY DEF ContractRow
  <2>4. s \notin Type \cup Contract \cup {NoRef}
    OBVIOUS
  <2>5. \A c \in Contracts : s \notin Referents(contract[c])
    BY <2>2, <2>3, <2>4
  <2> HIDE DEF Contracts, Types, Subtypes, Referents
  <2> QED
    BY <2>1, <2>5
<1>8. ASSUME NEW c \in Contract, NEW row \in ContractRow, SaveContract(c, row)
      PROVE  ContractsFind'
  BY <1>8 DEF SaveContract
<1>9. ASSUME NEW c \in Contract, DeleteContract(c) PROVE ContractsFind'
  <2>1. Contracts' = Contracts \ {c} /\ Types' = Types /\ Subtypes' = Subtypes
    BY <1>9 DEF DeleteContract
  <2>2. \A d \in Contracts' : contract'[d] = contract[d] /\ missing'[d] = missing[d]
    BY <1>9 DEF DeleteContract
  <2>3. \A d \in Contracts' : c \notin Referents(contract[d])
    <3>1. c \notin Type \cup Subtype
      OBVIOUS
    <3>2. \A d \in Contracts : contract[d].type \in Type /\ contract[d].subtype \in Subtype \cup {NoRef}
      BY DEF ContractRow
    <3>3. \A d \in Contracts : contract[d].parent # c
      BY <1>9 DEF DeleteContract
    <3> QED
      BY <2>1, <3>1, <3>2, <3>3
  <2> HIDE DEF Contracts, Referents
  <2> QED
    BY <2>1, <2>2, <2>3
<1>10. CASE ContractsNext
  BY <1>1, <1>10, <1>2, <1>3, <1>4, <1>5, <1>6, <1>7, <1>8, <1>9 DEF ContractsNext,
     tagVars, contractVars
<1>11. CASE TagsNext
  BY <1>1, <1>11 DEF TagsNext, tagVars, contractVars, CreateTag, RenameTag, DeleteTag,
     LookTag, AddTag, LinkTag, TaggingFails, AddThing, EraseThing, CleanLinks
<1> QED
  BY <1>1, <1>10, <1>11 DEF DictionariesNext, dictionaryVars

\* A tag goes only when nothing has it.
LEMMA LinksStep ==
    ASSUME DictionariesTypeOK, LinksFind, [DictionariesNext]_dictionaryVars
    PROVE  LinksFind'
<1> USE DictionariesAssumption DEF DictionariesTypeOK, LinksFind, Tags, Things, NoRow2,
       contractVars
<1>1. CASE UNCHANGED <<tag, thing, tagged, loose>>
  BY <1>1 DEF dictionaryVars
<1>2. ASSUME NEW g \in Tag, NEW x \in Text \ {Blank}, NEW padded \in BOOLEAN, CreateTag(g, x,
             padded)
      PROVE  LinksFind'
  BY <1>2 DEF CreateTag
<1>3. ASSUME NEW g \in Tag, NEW x \in Text \ {Blank}, NEW padded \in BOOLEAN, RenameTag(g, x,
             padded)
      PROVE  LinksFind'
  <2>1. Tags' = Tags
    BY <1>3 DEF RenameTag, TagRow
  <2> QED
    BY <1>3, <2>1 DEF RenameTag
<1>4. ASSUME NEW g \in Tag, DeleteTag(g) PROVE LinksFind'
  BY <1>4 DEF DeleteTag
<1>5. ASSUME NEW p \in Tagger, NEW g \in Tag, AddTag(p, g) PROVE LinksFind'
  BY <1>5 DEF AddTag
<1>6. ASSUME NEW p \in Tagger, LinkTag(p) PROVE LinksFind'
  BY <1>6 DEF LinkTag
<1>7. ASSUME NEW i \in Thing, AddThing(i) PROVE LinksFind'
  BY <1>7 DEF AddThing
<1>8. ASSUME NEW i \in Thing, EraseThing(i) PROVE LinksFind'
  BY <1>8 DEF EraseThing
<1>9. ASSUME CleanLinks PROVE LinksFind'
  BY <1>9 DEF CleanLinks
<1>10. ASSUME NEW p \in Tagger, NEW i \in Thing, NEW x \in Text \ {Blank}, NEW add \in BOOLEAN,
              LookTag(p, i, x, add)
      PROVE  LinksFind'
  BY <1>1, <1>10 DEF LookTag
<1>11. ASSUME NEW p \in Tagger, TaggingFails(p) PROVE LinksFind'
  BY <1>1, <1>11 DEF TaggingFails
<1>12. CASE ContractsNext
  BY <1>1, <1>12 DEF ContractsNext, tagVars, contractVars, CreateType, UpdateType,
     DeleteType, CreateSubtype, UpdateSubtype, DeleteSubtype, SaveContract,
     DeleteContract
<1>13. CASE TagsNext
  BY <1>1, <1>13, <1>2, <1>3, <1>4, <1>5, <1>6, <1>7, <1>8, <1>9, <1>10, <1>11 DEF
     TagsNext, tagVars, contractVars
<1> QED
  BY <1>1, <1>12, <1>13 DEF DictionariesNext, dictionaryVars

\* Types are looked for before they are written.
LEMMA TypesStep ==
    ASSUME DictionariesTypeOK, TypesUnique, [DictionariesNext]_dictionaryVars
    PROVE  TypesUnique'
<1> USE DictionariesAssumption DEF DictionariesTypeOK, TypesUnique, Types, NoRow2
<1>1. CASE UNCHANGED type
  BY <1>1 DEF dictionaryVars
<1>2. ASSUME NEW t \in Type, NEW x \in Text, CreateType(t, x) PROVE TypesUnique'
  BY <1>2 DEF CreateType, TypeTextFree
<1>3. ASSUME NEW t \in Type, NEW x \in Text, UpdateType(t, x) PROVE TypesUnique'
  BY <1>3 DEF UpdateType, TypeTextFree
<1>4. ASSUME NEW t \in Type, DeleteType(t) PROVE TypesUnique'
  BY <1>4 DEF DeleteType
<1>5. CASE ContractsNext
  BY <1>1, <1>5, <1>2, <1>3, <1>4 DEF ContractsNext, tagVars, contractVars,
     CreateSubtype, UpdateSubtype, DeleteSubtype, SaveContract, DeleteContract
<1>6. CASE TagsNext
  BY <1>1, <1>6 DEF TagsNext, tagVars, contractVars, CreateTag, RenameTag, DeleteTag,
     LookTag, AddTag, LinkTag, TaggingFails, AddThing, EraseThing, CleanLinks
<1> QED
  BY <1>1, <1>5, <1>6 DEF DictionariesNext, dictionaryVars

\* Subtypes are looked for where they come to be.
LEMMA SubtypesStep ==
    ASSUME DictionariesTypeOK, SubtypesUnique, [DictionariesNext]_dictionaryVars
    PROVE  SubtypesUnique'
<1> USE DictionariesAssumption DEF DictionariesTypeOK, SubtypesUnique, Subtypes, NoRow2
<1>1. CASE UNCHANGED subtype
  BY <1>1 DEF dictionaryVars
<1>2. ASSUME NEW t \in Type, DeleteType(t) PROVE SubtypesUnique'
  BY <1>2 DEF DeleteType
<1>3. ASSUME NEW s \in Subtype, NEW x \in Text, NEW t \in Type, CreateSubtype(s, x, t)
      PROVE  SubtypesUnique'
  BY <1>3 DEF CreateSubtype, SubtypeTextFree
<1>4. ASSUME NEW s \in Subtype, NEW x \in Text, NEW t \in Type, UpdateSubtype(s, x, t)
      PROVE  SubtypesUnique'
  BY <1>4 DEF UpdateSubtype, SubtypeTextFree
<1>5. ASSUME NEW s \in Subtype, DeleteSubtype(s) PROVE SubtypesUnique'
  BY <1>5 DEF DeleteSubtype
<1>6. CASE ContractsNext
  BY <1>1, <1>6, <1>2, <1>3, <1>4, <1>5 DEF ContractsNext, tagVars, contractVars,
     CreateType, UpdateType, SaveContract, DeleteContract
<1>7. CASE TagsNext
  BY <1>1, <1>7 DEF TagsNext, tagVars, contractVars, CreateTag, RenameTag, DeleteTag,
     LookTag, AddTag, LinkTag, TaggingFails, AddThing, EraseThing, CleanLinks
<1> QED
  BY <1>1, <1>6, <1>7 DEF DictionariesNext, dictionaryVars

\* So are tags, and those that were not are on record.
LEMMA TagsStep ==
    ASSUME DictionariesTypeOK, TagsUnique, [DictionariesNext]_dictionaryVars
    PROVE  TagsUnique'
<1> USE DictionariesAssumption DEF DictionariesTypeOK, TagsUnique, Tags, NoRow2
<1>1. CASE UNCHANGED <<tag, doubled>>
  BY <1>1 DEF dictionaryVars
<1>2. ASSUME NEW g \in Tag, NEW x \in Text \ {Blank}, NEW padded \in BOOLEAN, CreateTag(g, x,
             padded)
      PROVE  TagsUnique'
  BY <1>2 DEF CreateTag, TagTextFree
<1>3. ASSUME NEW g \in Tag, NEW x \in Text \ {Blank}, NEW padded \in BOOLEAN, RenameTag(g, x,
             padded)
      PROVE  TagsUnique'
  BY <1>3 DEF RenameTag, TagTextFree
<1>4. ASSUME NEW g \in Tag, DeleteTag(g) PROVE TagsUnique'
  BY <1>4 DEF DeleteTag
<1>5. ASSUME NEW p \in Tagger, NEW g \in Tag, AddTag(p, g) PROVE TagsUnique'
  <2>0. tag'[g] \notin NoRow2 /\ tag[g] \in NoRow2
    <3>1. tagging[p].text \in Text \ {Blank}
      BY <1>5 DEF AddTag, Tagging
    <3>2. tag'[g] \in TagRow
      BY <1>5, <3>1 DEF AddTag, TagRow
    <3> QED
      BY <1>5, <3>2 DEF AddTag
  <2>1. Tags' = Tags \cup {g} /\ g \notin Tags
    BY <1>5, <2>0 DEF AddTag
  <2>2. \A h \in Tags : tag'[h] = tag[h]
    BY <1>5 DEF AddTag
  <2>3. tag'[g].text = tagging[p].text
    BY <1>5 DEF AddTag
  <2>4. g \in doubled' \/ \A h \in Tags : tag[h].text # tagging[p].text
    BY <1>5 DEF AddTag, TagTextFree
  <2>5. doubled \subseteq doubled'
    BY <1>5 DEF AddTag
  <2> HIDE DEF Tags
  <2> QED
    BY <2>1, <2>2, <2>3, <2>4, <2>5
<1>6. ASSUME NEW p \in Tagger, NEW i \in Thing, NEW x \in Text \ {Blank}, NEW add \in BOOLEAN,
             LookTag(p, i, x, add)
      PROVE  TagsUnique'
  BY <1>1, <1>6 DEF LookTag
<1>7. ASSUME NEW p \in Tagger, LinkTag(p) PROVE TagsUnique'
  BY <1>1, <1>7 DEF LinkTag
<1>8. ASSUME NEW p \in Tagger, TaggingFails(p) PROVE TagsUnique'
  BY <1>1, <1>8 DEF TaggingFails
<1>9. ASSUME NEW i \in Thing, AddThing(i) PROVE TagsUnique'
  BY <1>1, <1>9 DEF AddThing
<1>10. ASSUME NEW i \in Thing, EraseThing(i) PROVE TagsUnique'
  BY <1>1, <1>10 DEF EraseThing
<1>11. ASSUME CleanLinks PROVE TagsUnique'
  BY <1>1, <1>11 DEF CleanLinks
<1>12. CASE ContractsNext
  BY <1>1, <1>12 DEF ContractsNext, tagVars, contractVars, CreateType, UpdateType,
     DeleteType, CreateSubtype, UpdateSubtype, DeleteSubtype, SaveContract,
     DeleteContract
<1>13. CASE TagsNext
  BY <1>1, <1>13, <1>2, <1>3, <1>4, <1>5, <1>6, <1>7, <1>8, <1>9, <1>10, <1>11 DEF
     TagsNext, tagVars, contractVars
<1> QED
  BY <1>1, <1>12, <1>13 DEF DictionariesNext, dictionaryVars

LEMMA DictionariesInitInv == ASSUME DictionariesInit PROVE DictionariesInv
BY DictionariesAssumption
   DEF DictionariesInit, DictionariesInv, DictionariesTypeOK, ContractsFind, LinksFind,
       TypesUnique, SubtypesUnique, TagsUnique, Types, Subtypes, Contracts, Tags, NoRow2,
       Tagging, IdleTagging

LEMMA DictionariesStepInv ==
    DictionariesInv /\ [DictionariesNext]_dictionaryVars => DictionariesInv'
BY DictionariesTypeStep, ContractsStep, LinksStep, TypesStep, SubtypesStep, TagsStep
   DEF DictionariesInv

LEMMA DictionariesInvariance == DictionariesSpec => []DictionariesInv
BY DictionariesInitInv, DictionariesStepInv, PTL DEF DictionariesSpec

\* The variables of Dictionaries have their ranges.
THEOREM DictionariesTypeCorrect == DictionariesSpec => []DictionariesTypeOK
<1>1. DictionariesInv => DictionariesTypeOK
  BY DEF DictionariesInv
<1> QED
  BY DictionariesInvariance, <1>1, PTL

\* The rules of deletes leave no contract without the type, the subtype or the parent
\* it was saved with, and nothing with a tag that is gone.
THEOREM NothingNamedIsDeleted == DictionariesSpec => []ReferencesKept
<1>1. DictionariesInv => ReferencesKept
  BY DEF DictionariesInv, ContractsFind, LinksFind, ReferencesKept
<1> QED
  BY DictionariesInvariance, <1>1, PTL

\* Entries stay unique through every create, rename and move, but for tags of
\* handlers that overlapped or that missed one with blanks.
THEOREM EntriesStayUnique == DictionariesSpec => []EntriesUnique
<1>1. DictionariesInv => EntriesUnique
  BY DEF DictionariesInv, TypesUnique, SubtypesUnique, TagsUnique, EntriesUnique
<1> QED
  BY DictionariesInvariance, <1>1, PTL

-----------------------------------------------------------------------------
\* Links between assets.

\* TypeOK, OneRowPerItemLink and NothingIsInherited are inductive together.
LinkInv == TypeOK /\ OneRowPerItemLink /\ NothingIsInherited

\* A save of an asset, whatever it does to its status.
SaveStep(a, B, peers) ==
    /\ a \in Asset /\ B \subseteq Other(a) /\ peers \subseteq Items
    /\ Save(a, B, peers)

\* At the start there are no links.
LEMMA InitLinkInv == Init => LinkInv
  BY SMT DEF Init, LinkInv, TypeOK, OneRowPerItemLink, NothingIsInherited, Status

\* A save replaces the rows of itemlink that name its item by single ones.
LEMMA SaveItemLinks ==
  ASSUME LinkInv, NEW a \in Asset, NEW B, NEW peers,
         SaveStep(a, B, peers)
  PROVE  /\ itemlink' \in [Items \X Items -> Nat]
         /\ \A p \in Items \X Items :
               /\ itemlink'[p] > 0 => p[1] < p[2]
               /\ itemlink'[p] <= 1
               /\ itemlink'[p] # itemlink[p] => a \in {p[1], p[2]}
<1>1. Items \subseteq Nat
  BY AssetLinksAssumption DEF Items
<1>2. CASE KindOf[a] # "item"
  BY <1>2 DEF SaveStep, Save, LinkInv, TypeOK, OneRowPerItemLink
<1>3. CASE KindOf[a] = "item"
  <2>1. ReplaceItemLinks(a, peers)
    BY <1>3 DEF SaveStep, Save
  <2>2. ASSUME NEW p \in Items \X Items
        PROVE  /\ itemlink'[p] \in Nat
               /\ itemlink'[p] > 0 => p[1] < p[2]
               /\ itemlink'[p] <= 1
               /\ itemlink'[p] # itemlink[p] => a \in {p[1], p[2]}
    <3> DEFINE joined == p[1] < p[2] /\ \E b \in peers \ {a} : {p[1], p[2]} = {a, b}
    <3>1. itemlink[p] \in Nat /\ itemlink[p] <= 1 /\ (itemlink[p] > 0 => p[1] < p[2])
      BY <2>2 DEF LinkInv, TypeOK, OneRowPerItemLink
    <3>2. itemlink'[p] = LET had == IF a \in {p[1], p[2]} THEN 0 ELSE itemlink[p]
                         IN  IF joined THEN had + 1 ELSE had
      BY <2>1, <2>2 DEF ReplaceItemLinks
    <3>3. joined => p[1] < p[2] /\ a \in {p[1], p[2]}
      OBVIOUS
    <3> HIDE DEF joined
    <3>4. CASE a \in {p[1], p[2]}
      <4>1. itemlink'[p] = IF joined THEN 1 ELSE 0
        BY <3>2, <3>4
      <4> QED
        BY <3>3, <3>4, <4>1
    <3>5. CASE a \notin {p[1], p[2]}
      <4>1. itemlink'[p] = itemlink[p]
        BY <3>2, <3>3, <3>5
      <4> QED
        BY <3>1, <4>1
    <3> QED
      BY <3>4, <3>5
  <2>3. itemlink' = [p \in Items \X Items |-> itemlink'[p]]
    BY <2>1 DEF ReplaceItemLinks
  <2> QED BY <2>2, <2>3
<1> QED BY <1>2, <1>3

\* A save writes well-typed links and takes every row of its asset out of the
\* leftovers.
LEMMA SaveLinks ==
  ASSUME LinkInv, NEW a \in Asset, NEW B, NEW peers,
         SaveStep(a, B, peers)
  PROVE  /\ \A l \in links' : \E c, d \in Asset : KindOf[c] # KindOf[d] /\ l = {c, d}
         /\ leftover' \subseteq links'
         /\ leftover' \subseteq leftover
         /\ \A l \in leftover' : a \notin l
         /\ \A l \in (links \ links') \cup (links' \ links) : a \in l
<1>1. /\ links' = (links \ Pairs(a, Other(a))) \cup Pairs(a, B)
      /\ leftover' = leftover \ Pairs(a, Other(a))
  BY DEF SaveStep, Save, ReplaceLinks
<1>2. ASSUME NEW l \in Pairs(a, Other(a))
      PROVE  a \in l /\ \E c, d \in Asset : KindOf[c] # KindOf[d] /\ l = {c, d}
  BY DEF Pairs, Other
<1>3. Pairs(a, B) \subseteq Pairs(a, Other(a))
  BY DEF SaveStep, Pairs
<1>4. ASSUME NEW l \in links, a \in l
      PROVE  l \in Pairs(a, Other(a))
  <2>1. PICK c, d \in Asset : KindOf[c] # KindOf[d] /\ l = {c, d}
    BY DEF LinkInv, TypeOK
  <2>2. CASE a = c
    BY <2>1, <2>2 DEF Pairs, Other
  <2>3. CASE a = d
    <3>1. l = {a, c} /\ c \in Other(a)
      BY <2>1, <2>3 DEF Other
    <3> QED BY <3>1 DEF Pairs
  <2> QED BY <1>4, <2>1, <2>2, <2>3
<1>5. leftover \subseteq links
  BY DEF LinkInv, TypeOK
<1>6. \A l \in links' : \E c, d \in Asset : KindOf[c] # KindOf[d] /\ l = {c, d}
  BY <1>1, <1>2, <1>3 DEF LinkInv, TypeOK
<1> QED BY <1>1, <1>2, <1>3, <1>4, <1>5, <1>6

\* No leftover joins two assets that exist: a create makes one asset live and
\* leaves it no leftover, which is what an invoice with a used id needs.
LEMMA CreateAssetKeeps ==
  ASSUME LinkInv, NEW a \in Asset, NEW B \in SUBSET Other(a),
         NEW peers \in SUBSET Items, CreateAsset(a, B, peers)
  PROVE  LinkInv'
<1>1. SaveStep(a, B, peers)
  BY DEF CreateAsset, SaveStep
<1>2. TypeOK'
  BY <1>1, SaveItemLinks, SaveLinks DEF CreateAsset, LinkInv, TypeOK, Status
<1>3. OneRowPerItemLink'
  BY <1>1, SaveItemLinks DEF OneRowPerItemLink
<1>4. NothingIsInherited'
  <2> SUFFICES ASSUME NEW l \in leftover'
               PROVE  \E b \in l : status'[b] # "live"
    BY DEF NothingIsInherited
  <2>1. l \in leftover /\ a \notin l
    BY <1>1, SaveLinks
  <2>2. PICK b \in l : status[b] # "live"
    BY <2>1 DEF LinkInv, NothingIsInherited
  <2>3. status'[b] = status[b]
    BY <2>1, <2>2 DEF CreateAsset, LinkInv, TypeOK
  <2> QED BY <2>2, <2>3
<1> QED BY <1>2, <1>3, <1>4 DEF LinkInv

\* An update does the same and changes no status.
LEMMA UpdateAssetKeeps ==
  ASSUME LinkInv, NEW a \in Asset, NEW B \in SUBSET Other(a),
         NEW peers \in SUBSET Items, UpdateAsset(a, B, peers)
  PROVE  LinkInv'
<1>1. SaveStep(a, B, peers)
  BY DEF UpdateAsset, SaveStep
<1>2. TypeOK'
  BY <1>1, SaveItemLinks, SaveLinks DEF UpdateAsset, LinkInv, TypeOK, Status
<1>3. OneRowPerItemLink'
  BY <1>1, SaveItemLinks DEF OneRowPerItemLink
<1>4. NothingIsInherited'
  BY <1>1, SaveLinks DEF UpdateAsset, LinkInv, NothingIsInherited
<1> QED BY <1>2, <1>3, <1>4 DEF LinkInv

\* A delete only takes rows away; those it makes leftovers name its asset, which
\* has just lost its row.
LEMMA DeleteAssetKeeps ==
  ASSUME LinkInv, NEW a \in Asset, DeleteAsset(a)
  PROVE  LinkInv'
<1> DEFINE kept == links \ Pairs(a, {b \in Asset : KindOf[b] \in ClearedKinds(KindOf[a])})
<1>1. /\ status' = [status EXCEPT ![a] = IF @ = "live" THEN "deleted" ELSE @]
      /\ links' = kept
      /\ leftover' = {l \in kept : l \in leftover \/ (status[a] = "live" /\ a \in l)}
      /\ itemlink' = [p \in Items \X Items |->
                         IF a \in {p[1], p[2]} THEN 0 ELSE itemlink[p]]
  BY DEF DeleteAsset
<1>2. status' \in [Asset -> Status]
  BY <1>1 DEF LinkInv, TypeOK, Status
<1>3. /\ \A l \in links' : \E c, d \in Asset : KindOf[c] # KindOf[d] /\ l = {c, d}
      /\ leftover' \subseteq links'
  BY <1>1 DEF LinkInv, TypeOK
<1>4. /\ itemlink' \in [Items \X Items -> Nat]
      /\ \A p \in Items \X Items : itemlink'[p] = 0 \/ itemlink'[p] = itemlink[p]
  BY <1>1 DEF LinkInv, TypeOK
<1>5. /\ \A p \in Items \X Items : itemlink'[p] > 0 => p[1] < p[2]
      /\ OneRowPerItemLink'
  BY <1>4, SMT DEF LinkInv, TypeOK, OneRowPerItemLink
<1>6. NothingIsInherited'
  <2> SUFFICES ASSUME NEW l \in leftover'
               PROVE  \E b \in l : status'[b] # "live"
    BY DEF NothingIsInherited
  <2>1. CASE status[a] = "live" /\ a \in l
    BY <1>1, <2>1 DEF LinkInv, TypeOK
  <2>2. CASE l \in leftover
    <3>1. PICK b \in l : status[b] # "live"
      BY <2>2 DEF LinkInv, NothingIsInherited
    <3>2. status'[b] # "live"
      BY <1>1, <3>1 DEF LinkInv, TypeOK
    <3> QED BY <3>1, <3>2
  <2> QED BY <1>1, <2>1, <2>2
<1>7. TypeOK'
  BY <1>2, <1>3, <1>4, <1>5 DEF TypeOK
<1> QED BY <1>5, <1>6, <1>7 DEF LinkInv

\* LinkInv is inductive.
LEMMA NextLinkInv == LinkInv /\ [Next]_vars => LinkInv'
<1> SUFFICES ASSUME LinkInv, [Next]_vars PROVE LinkInv'
  OBVIOUS
<1>1. CASE UNCHANGED vars
  BY <1>1 DEF vars, LinkInv, TypeOK, OneRowPerItemLink, NothingIsInherited
<1>2. CASE Next
  <2>1. PICK a \in Asset :
           \/ DeleteAsset(a)
           \/ \E B \in SUBSET Other(a), peers \in SUBSET Items :
                 CreateAsset(a, B, peers) \/ UpdateAsset(a, B, peers)
    BY <1>2 DEF Next
  <2> QED BY <2>1, CreateAssetKeeps, UpdateAssetKeeps, DeleteAssetKeeps
<1> QED BY <1>1, <1>2

LEMMA LinkInvHolds == Spec => []LinkInv
<1> QED BY InitLinkInv, NextLinkInv, PTL DEF Spec

\* Statuses, links and rows of itemlink have their types in every state.
THEOREM TypeCorrect == Spec => []TypeOK
<1>1. LinkInv => TypeOK
  BY DEF LinkInv
<1> QED BY <1>1, LinkInvHolds, PTL

\* Two items are never joined by two rows, however many saves of either.
THEOREM ItemsAreLinkedOnce == Spec => []OneRowPerItemLink
<1>1. LinkInv => OneRowPerItemLink
  BY DEF LinkInv
<1> QED BY <1>1, LinkInvHolds, PTL

\* What the delete of an asset leaves behind never joins two that exist, even
\* when an invoice takes a used id.
THEOREM NothingIsEverInherited == Spec => []NothingIsInherited
<1>1. LinkInv => NothingIsInherited
  BY DEF LinkInv
<1> QED BY <1>1, LinkInvHolds, PTL

\* Every request changes the rows of one asset only.
THEOREM RequestsChangeOwnRows == Spec => OthersLinksStay
<1> DEFINE Step ==
      \E a \in Asset :
          /\ \A l \in (links \ links') \cup (links' \ links) : a \in l
          /\ \A p \in Items \X Items :
                itemlink'[p] # itemlink[p] => a \in {p[1], p[2]}
<1>1. LinkInv /\ [Next]_vars => [Step]_vars
  <2> SUFFICES ASSUME LinkInv, Next PROVE Step
    OBVIOUS
  <2>1. PICK a \in Asset :
           \/ DeleteAsset(a)
           \/ \E B \in SUBSET Other(a), peers \in SUBSET Items : SaveStep(a, B, peers)
    BY DEF Next, CreateAsset, UpdateAsset, SaveStep
  <2>2. CASE DeleteAsset(a)
    <3>1. \A l \in (links \ links') \cup (links' \ links) : a \in l
      BY <2>2 DEF DeleteAsset, Pairs
    <3>2. \A p \in Items \X Items :
             itemlink'[p] # itemlink[p] => a \in {p[1], p[2]}
      BY <2>2 DEF DeleteAsset
    <3> QED BY <3>1, <3>2
  <2>3. CASE \E B \in SUBSET Other(a), peers \in SUBSET Items : SaveStep(a, B, peers)
    BY <2>3, SaveLinks, SaveItemLinks
  <2> QED BY <2>1, <2>2, <2>3
<1> QED BY <1>1, LinkInvHolds, PTL DEF Spec, OthersLinksStay
=============================================================================
