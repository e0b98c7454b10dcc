---------------------------- MODULE RackPlacement ----------------------------
(***************************************************************************)
(* Racks and the hardware mounted in them.  An item save checks the units  *)
(* its item would take against the rack and the rack's other items, in the *)
(* transaction that stores it (rack_rules.go).  A rack save changes the    *)
(* size and the direction of numbering without looking at the items.  A    *)
(* rack delete counts the rack's items on one connection, gives it back,   *)
(* loads the rack's name, and deletes in a transaction it begins later:    *)
(* other requests run in between (rack_workflow.go).                       *)
(*                                                                         *)
(* Ids in forms are not tested for existence: a save may name a rack that  *)
(* is not there, or update an item that is not.                            *)
(***************************************************************************)
EXTENDS Integers, FiniteSets

CONSTANTS
    Item,      \* ids the items table may ever hand out
    Rack,      \* ids the racks table may ever hand out
    Size,      \* heights, in rack units, a rack form may carry
    Position,  \* rack positions an item form may carry, 0 if left empty
    Units,     \* sizes in rack units an item form may carry, 0 if left empty
    NoRack     \* an item that names no rack

ASSUME RackPlacementAssumption ==
    /\ Size \subseteq Nat
    /\ Position \subseteq Nat /\ Units \subseteq Nat
    /\ NoRack \notin Rack

VARIABLES
    itemStatus,  \* which item ids have a row in items
    place,       \* rackid, rackposition and usize of each item
    rackStatus,  \* which rack ids have a row in racks
    shape,       \* usize and revnums of each rack
    deleting     \* delete requests between their count and their commit

vars == <<itemStatus, place, rackStatus, shape, deleting>>

Status == {"unborn", "live", "deleted"}
Place == [rack : Rack \cup {NoRack}, pos : Nat, units : Nat]
Shape == [size : Nat, ascending : BOOLEAN]
Nowhere == [rack |-> NoRack, pos |-> 0, units |-> 0]
NoShape == [size |-> 0, ascending |-> FALSE]

LiveItem == {i \in Item : itemStatus[i] = "live"}
ItemsNaming(r) == {i \in LiveItem : place[i].rack = r}

(***************************************************************************)
(* ValidateRackPlacement.  revnums = 1 numbers the units upwards from the  *)
(* position, anything else downwards.                                      *)
(***************************************************************************)
Span(sh, p) ==
    IF sh.ascending THEN p.pos .. (p.pos + p.units - 1)
                    ELSE (p.pos - p.units + 1) .. p.pos

\* Enough is filled in to check, and to occupy, anything.
Mounted(p) == p.pos > 0 /\ p.units > 0

WithinRack(sh, p) == Span(sh, p) \subseteq 1 .. sh.size

\* Mutant: only an equal position is a conflict.
NoConflict_SamePosition(i, p) ==
    \A j \in ItemsNaming(p.rack) \ {i} :
        Mounted(place[j]) => place[j].pos # p.pos

NoConflict(i, p) ==
    \A j \in ItemsNaming(p.rack) \ {i} :
        Mounted(place[j]) =>
            Span(shape[p.rack], place[j]) \cap Span(shape[p.rack], p) = {}

\* enforceRackPlacement: incomplete placements and unknown racks pass.
PlacementAllowed(i, p) ==
    (/\ p.rack # NoRack
     /\ Mounted(p)
     /\ rackStatus[p.rack] = "live") => /\ WithinRack(shape[p.rack], p)
                                        /\ NoConflict(i, p)

-----------------------------------------------------------------------------
Init ==
    /\ itemStatus = [i \in Item |-> "unborn"]
    /\ place = [i \in Item |-> Nowhere]
    /\ rackStatus = [r \in Rack |-> "unborn"]
    /\ shape = [r \in Rack |-> NoShape]
    /\ deleting = {}

\* ItemMutationWorkflow.Create, as far as racks go.
CreateItem(i, p) ==
    /\ itemStatus[i] = "unborn"
    /\ PlacementAllowed(i, p)
    /\ itemStatus' = [itemStatus EXCEPT ![i] = "live"]
    /\ place' = [place EXCEPT ![i] = p]
    /\ UNCHANGED <<rackStatus, shape, deleting>>

\* ItemMutationWorkflow.Update: UPDATE ... WHERE id = ? may hit no row.
UpdateItem(i, p) ==
    /\ PlacementAllowed(i, p)
    /\ place' = [place EXCEPT ![i] = IF itemStatus[i] = "live" THEN p ELSE @]
    /\ UNCHANGED <<itemStatus, rackStatus, shape, deleting>>

\* ItemMutationWorkflow.Delete.
DeleteItem(i) ==
    /\ itemStatus[i] = "live"
    /\ itemStatus' = [itemStatus EXCEPT ![i] = "deleted"]
    /\ place' = [place EXCEPT ![i] = Nowhere]
    /\ UNCHANGED <<rackStatus, shape, deleting>>

\* RackWorkflow.Create: one INSERT, whatever items already name the id.
CreateRack(r, sh) ==
    /\ rackStatus[r] = "unborn"
    /\ rackStatus' = [rackStatus EXCEPT ![r] = "live"]
    /\ shape' = [shape EXCEPT ![r] = sh]
    /\ UNCHANGED <<itemStatus, place, deleting>>

\* RackWorkflow.Update: the items of the rack follow it to its location, their
\* positions are not looked at.
UpdateRack(r, sh) ==
    /\ rackStatus[r] = "live"
    /\ shape' = [shape EXCEPT ![r] = sh]
    /\ UNCHANGED <<itemStatus, place, rackStatus, deleting>>

\* RackWorkflow.Delete up to BeginTx: no item names the rack, the rack is
\* there to take its name from.
CheckDeleteRack(r) ==
    /\ rackStatus[r] = "live"
    /\ ItemsNaming(r) = {}
    /\ deleting' = deleting \cup {r}
    /\ UNCHANGED <<itemStatus, place, rackStatus, shape>>

\* RackWorkflow.Delete from BeginTx: DeleteRack takes the rack from the items
\* that name it by now.
CommitDeleteRack(r) ==
    /\ r \in deleting
    /\ deleting' = deleting \ {r}
    /\ rackStatus' = [rackStatus EXCEPT ![r] = "deleted"]
    /\ shape' = [shape EXCEPT ![r] = NoShape]
    /\ place' = [i \in Item |->
                    IF i \in ItemsNaming(r)
                    THEN [place[i] EXCEPT !.rack = NoRack] ELSE place[i]]
    /\ UNCHANGED itemStatus

\* The client goes away, or the request times out, before the transaction.
AbandonDeleteRack(r) ==
    /\ r \in deleting
    /\ deleting' = deleting \ {r}
    /\ UNCHANGED <<itemStatus, place, rackStatus, shape>>

-----------------------------------------------------------------------------
ItemForm == [rack : Rack \cup {NoRack}, pos : Position, units : Units]
RackForm == [size : Size, ascending : BOOLEAN]

Next ==
    \/ \E i \in Item, p \in ItemForm : CreateItem(i, p) \/ UpdateItem(i, p)
    \/ \E i \in Item : DeleteItem(i)
    \/ \E r \in Rack, sh \in RackForm : CreateRack(r, sh) \/ UpdateRack(r, sh)
    \/ \E r \in Rack : \/ CheckDeleteRack(r)
                       \/ CommitDeleteRack(r)
                       \/ AbandonDeleteRack(r)

Spec == Init /\ [][Next]_vars

-----------------------------------------------------------------------------
\* The tables hold what their columns say, only a live id has data, and a
\* delete in flight is of a rack that existed when it was counted.
TypeOK ==
    /\ itemStatus \in [Item -> Status]
    /\ place \in [Item -> Place]
    /\ rackStatus \in [Rack -> Status]
    /\ shape \in [Rack -> Shape]
    /\ \A i \in Item : itemStatus[i] # "live" => place[i] = Nowhere
    /\ \A r \in Rack : rackStatus[r] # "live" => shape[r] = NoShape
    /\ deleting \subseteq {r \in Rack : rackStatus[r] # "unborn"}

\* The units a rack's items take lie in the rack and are taken once.
LayoutSound(r) ==
    LET mounted == {i \in ItemsNaming(r) : Mounted(place[i])} IN
    /\ \A i \in mounted : WithinRack(shape[r], place[i])
    /\ \A i, j \in mounted :
          i # j => Span(shape[r], place[i]) \cap Span(shape[r], place[j]) = {}

\* A sound layout is only ever broken by a step that changes the rack itself:
\* no item save, whatever was saved, moved or deleted before, mounts two items
\* on one unit or outside the rack.
LayoutKeptByItems ==
    [][\A r \in Rack :
         (/\ rackStatus[r] = "live" /\ rackStatus'[r] = "live"
          /\ shape'[r] = shape[r]
          /\ LayoutSound(r)) => LayoutSound(r)']_vars

\* What README.en.md says of rack positions, conflicts are rejected, of every
\* save of an item or of a rack: none turns a sound layout into one where two
\* items share a unit or stick out of the rack.
ConflictsRejected ==
    [][\A r \in Rack :
         (/\ rackStatus[r] = "live" /\ rackStatus'[r] = "live"
          /\ LayoutSound(r)) => LayoutSound(r)']_vars

\* What docs/manual.md says of DELETE /api/racks/{id}: a rack that hardware
\* still refers to is not deleted.
UsedRackNotDeleted ==
    [][\A r \in Rack :
         rackStatus[r] = "live" /\ rackStatus'[r] = "deleted"
             => ItemsNaming(r) = {}]_vars
=============================================================================
