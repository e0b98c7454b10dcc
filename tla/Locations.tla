------------------------------ MODULE Locations ------------------------------
(***************************************************************************)
(* Locations with their areas, the items and racks that are in them, and   *)
(* the floorplan of a location, which is a row's file name and a file in   *)
(* the upload directory.  A handler writes a file before the row that      *)
(* names it and removes one after; it looks at the row, counts what is     *)
(* placed there, and changes it in statements of their own, with those of  *)
(* other handlers in between, and may stop after any of them.              *)
(*                                                                         *)
(* A location names at most one file; a name of a file is drawn afresh.    *)
(* Names and floors are left out.  Ids are never drawn twice.              *)
(***************************************************************************)
EXTENDS FiniteSets, Integers

CONSTANTS
    Location, Area,
    Placed,        \* items and racks
    Racked,        \* the racks among them
    Plan,          \* names of floorplan files
    Surveyor,      \* handlers that may run at the same time
    Nowhere,       \* the id 0
    NoPlan,        \* the empty file name
    Unbuilt, Razed \* the row of an id is not there yet, or no more

ASSUME LocationsAssumption ==
    /\ Racked \subseteq Placed
    /\ Location \cap Area = {} /\ Nowhere \notin Location \cup Area /\ NoPlan \notin Plan
    /\ {Unbuilt, Razed} \cap (Plan \cup {NoPlan} \cup Location) = {}

VARIABLES
    floorplan,   \* locations.floorplanfn
    areaOf,      \* locareas.locationid
    place,       \* items.locationid, racks.locationid
    spot,        \* items.locareaid, racks.locareaid
    disk,        \* floorplan files in the upload directory
    drawn,       \* names drawn so far: history
    strayed,     \* items and racks saved after their location was counted: history
    survey       \* where each handler is

locationVars == <<floorplan, areaOf, place, spot, disk, drawn, strayed, survey>>

Locations == {l \in Location : floorplan[l] \notin {Unbuilt, Razed}}
AreasOf(l) == {a \in Area : areaOf[a] = l}

SurveyStep ==
    {"idle", "stored", "read", "removing", "racks counted", "counted", "condemned",
     "area racks counted", "area counted"}
Survey ==
    [step : SurveyStep, at : Location \cup Area \cup {Nowhere},
     new : Plan \cup {NoPlan}, old : Plan \cup {NoPlan}]
IdleSurvey == [step |-> "idle", at |-> Nowhere, new |-> NoPlan, old |-> NoPlan]

SurveyAt(p, step) == survey[p].step = step
SurveyEnd(p) == survey' = [survey EXCEPT ![p] = IdleSurvey]
SurveyOn(p, step, l) ==
    survey' = [survey EXCEPT ![p] = [step |-> step, at |-> l, new |-> @.new, old |-> @.old]]

LocationsInit ==
    /\ floorplan = [l \in Location |-> Unbuilt]
    /\ areaOf = [a \in Area |-> Unbuilt]
    /\ place = [x \in Placed |-> Nowhere]
    /\ spot = [x \in Placed |-> Nowhere]
    /\ disk = {} /\ drawn = {} /\ strayed = {}
    /\ survey = [p \in Surveyor |-> IdleSurvey]

-----------------------------------------------------------------------------
\* Locations.

\* storeFloorplanFile, for a location that is created or updated.
StorePlan(p, f) ==
    /\ SurveyAt(p, "idle") /\ f \notin drawn
    /\ disk' = disk \cup {f} /\ drawn' = drawn \cup {f}
    /\ survey' = [survey EXCEPT ![p] = [IdleSurvey EXCEPT !.step = "stored", !.new = f]]
    /\ UNCHANGED <<floorplan, areaOf, place, spot, strayed>>

CreateLocation(p, l) ==
    /\ SurveyAt(p, "idle") \/ SurveyAt(p, "stored")
    /\ floorplan[l] = Unbuilt
    /\ floorplan' = [floorplan EXCEPT ![l] = survey[p].new]
    /\ SurveyEnd(p)
    /\ UNCHANGED <<areaOf, place, spot, disk, drawn, strayed>>

\* UpdateWithFloorplan: the file to be replaced is read.
ReadPlan(p, l) ==
    /\ SurveyAt(p, "idle") \/ SurveyAt(p, "stored")
    /\ l \in Locations
    /\ survey' = [survey EXCEPT ![p] =
                     [step |-> "read", at |-> l, new |-> @.new, old |-> floorplan[l]]]
    /\ UNCHANGED <<floorplan, areaOf, place, spot, disk, drawn, strayed>>

\* Mutant: the file that was read goes, with no other to take its place.
CommitUpdate_Drops(p) ==
    LET l == survey[p].at IN
    /\ SurveyAt(p, "read")
    /\ floorplan' = [floorplan EXCEPT ![l] =
                        IF l \in Locations /\ survey[p].new # NoPlan THEN survey[p].new ELSE @]
    /\ SurveyOn(p, "removing", l)
    /\ UNCHANGED <<areaOf, place, spot, disk, drawn, strayed>>

\* Its UPDATE, of no row perhaps.  Without a new file the old one stays.
CommitUpdate(p) ==
    LET l == survey[p].at
        replaces == survey[p].new # NoPlan
    IN  /\ SurveyAt(p, "read")
        /\ floorplan' = [floorplan EXCEPT ![l] =
                            IF l \in Locations /\ replaces THEN survey[p].new ELSE @]
        /\ IF replaces THEN SurveyOn(p, "removing", l) ELSE SurveyEnd(p)
        /\ UNCHANGED <<areaOf, place, spot, disk, drawn, strayed>>

\* The last step of an update and of a delete.
RemovePlan(p) ==
    /\ SurveyAt(p, "removing")
    /\ disk' = disk \ {survey[p].old}
    /\ SurveyEnd(p)
    /\ UNCHANGED <<floorplan, areaOf, place, spot, drawn, strayed>>

\* LocationWorkflow.Delete: LocationRackCount, LocationItemCount, LocationFloorplan.
CountRacks(p, l) ==
    /\ SurveyAt(p, "idle")
    /\ \A x \in Racked : place[x] # l
    /\ SurveyOn(p, "racks counted", l)
    /\ UNCHANGED <<floorplan, areaOf, place, spot, disk, drawn, strayed>>

CountItems(p) ==
    LET l == survey[p].at IN
    /\ SurveyAt(p, "racks counted")
    /\ \A x \in Placed \ Racked : place[x] # l /\ spot[x] \notin AreasOf(l)
    /\ SurveyOn(p, "counted", l)
    /\ UNCHANGED <<floorplan, areaOf, place, spot, disk, drawn, strayed>>

ReadForDelete(p) ==
    LET l == survey[p].at IN
    /\ SurveyAt(p, "counted") /\ l \in Locations
    /\ survey' = [survey EXCEPT ![p] =
                     [step |-> "condemned", at |-> l, new |-> @.new, old |-> floorplan[l]]]
    /\ UNCHANGED <<floorplan, areaOf, place, spot, disk, drawn, strayed>>

\* Its transaction, on a row that another may have deleted.  Items leave; racks,
\* and the areas of the location, do not.
DeleteLocation(p) ==
    LET l == survey[p].at IN
    /\ SurveyAt(p, "condemned")
    /\ floorplan' = [floorplan EXCEPT ![l] = Razed]
    /\ place' = [x \in Placed |-> IF place[x] = l /\ x \notin Racked THEN Nowhere ELSE place[x]]
    /\ SurveyOn(p, "removing", l)
    /\ UNCHANGED <<areaOf, spot, disk, drawn, strayed>>

-----------------------------------------------------------------------------
\* Areas; whether the location is there is not asked.

CreateArea(a, l) ==
    /\ areaOf[a] = Unbuilt
    /\ areaOf' = [areaOf EXCEPT ![a] = l]
    /\ UNCHANGED <<floorplan, place, spot, disk, drawn, strayed, survey>>

UpdateArea(a, l) ==
    /\ areaOf[a] \notin {Unbuilt, Razed}
    /\ areaOf' = [areaOf EXCEPT ![a] = l]
    /\ UNCHANGED <<floorplan, place, spot, disk, drawn, strayed, survey>>

CountAreaRacks(p, a) ==
    /\ SurveyAt(p, "idle")
    /\ \A x \in Racked : spot[x] # a
    /\ SurveyOn(p, "area racks counted", a)
    /\ UNCHANGED <<floorplan, areaOf, place, spot, disk, drawn, strayed>>

CountAreaItems(p) ==
    /\ SurveyAt(p, "area racks counted")
    /\ \A x \in Placed \ Racked : spot[x] # survey[p].at
    /\ SurveyOn(p, "area counted", survey[p].at)
    /\ UNCHANGED <<floorplan, areaOf, place, spot, disk, drawn, strayed>>

DeleteArea(p) ==
    LET a == survey[p].at IN
    /\ SurveyAt(p, "area counted")
    /\ areaOf' = [areaOf EXCEPT ![a] = IF @ = Unbuilt THEN @ ELSE Razed]
    /\ SurveyEnd(p)
    /\ UNCHANGED <<floorplan, place, spot, disk, drawn, strayed>>

-----------------------------------------------------------------------------
\* An item or a rack is saved, with the ids of its form.
PlaceAt(x, l, a) ==
    /\ place' = [place EXCEPT ![x] = l]
    /\ spot' = [spot EXCEPT ![x] = a]
    /\ strayed' =
          IF l \in Locations \cup {Nowhere}
             /\ ~(x \in Racked /\ \E p \in Surveyor :
                     survey[p].at = l /\ survey[p].step \in {"racks counted", "counted", "condemned"})
          THEN strayed \ {x} ELSE strayed \cup {x}
    /\ UNCHANGED <<floorplan, areaOf, disk, drawn, survey>>

\* The handler fails, or the program stops.
SurveyFails(p) ==
    /\ ~SurveyAt(p, "idle")
    /\ SurveyEnd(p)
    /\ UNCHANGED <<floorplan, areaOf, place, spot, disk, drawn, strayed>>

FloorplansNext ==
    \/ \E p \in Surveyor :
          \/ \E f \in Plan : StorePlan(p, f)
          \/ \E l \in Location : CreateLocation(p, l) \/ ReadPlan(p, l) \/ CountRacks(p, l)
          \/ CommitUpdate(p) \/ RemovePlan(p) \/ CountItems(p) \/ ReadForDelete(p)
          \/ DeleteLocation(p) \/ SurveyFails(p)

PlacesNext ==
    \/ \E a \in Area : \/ \E l \in Location : CreateArea(a, l) \/ UpdateArea(a, l)
                       \/ \E p \in Surveyor : CountAreaRacks(p, a)
    \/ \E p \in Surveyor : CountAreaItems(p) \/ DeleteArea(p)
    \/ \E x \in Placed, l \in Location \cup {Nowhere}, a \in Area \cup {Nowhere} :
          PlaceAt(x, l, a)

LocationsNext == FloorplansNext \/ PlacesNext
LocationsSpec == LocationsInit /\ [][LocationsNext]_locationVars

-----------------------------------------------------------------------------
\* Every variable has its range.
LocationsTypeOK ==
    /\ floorplan \in [Location -> Plan \cup {NoPlan, Unbuilt, Razed}]
    /\ areaOf \in [Area -> Location \cup {Unbuilt, Razed}]
    /\ place \in [Placed -> Location \cup {Nowhere}]
    /\ spot \in [Placed -> Area \cup {Nowhere}]
    /\ disk \subseteq drawn /\ drawn \subseteq Plan
    /\ strayed \subseteq Placed
    /\ survey \in [Surveyor -> Survey]

\* However updates and deletes overlap, no file is removed that a location shows;
\* and what is placed in a location finds it there, unless it was saved when the
\* location was gone or, for a rack, already counted for its delete.
LocationsKept ==
    /\ \A l \in Locations : floorplan[l] # NoPlan => floorplan[l] \in disk
    /\ \A x \in Placed : place[x] \notin Locations \cup {Nowhere} => x \in strayed
=============================================================================
