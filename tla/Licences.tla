------------------------------ MODULE Licences ------------------------------
(***************************************************************************)
(* The licence ledger: hardware items, software and the link table         *)
(* item2soft, whose rows are the installations that consume a software's   *)
(* licence quantity.  Two workflows write the same table from its two      *)
(* sides: saving an item replaces the item's rows                          *)
(* (item_mutation_workflow.go), saving a software replaces the software's  *)
(* rows (software_mutation_workflow.go).  Each has its own licence check.  *)
(*                                                                         *)
(* Every workflow runs in one transaction on the only connection of the    *)
(* pool (db.SetMaxOpenConns(1)), so each is one action.  A refused request *)
(* rolls back and changes nothing here: it is a stuttering step.           *)
(*                                                                         *)
(* Tables have no foreign keys, and a save does not test that the ids in   *)
(* its path and its payload exist: they range over all ids, also those not *)
(* inserted yet (AUTOINCREMENT never reuses one) and those deleted.        *)
(***************************************************************************)
EXTENDS Naturals, FiniteSets

CONSTANTS
    Item,       \* ids the items table may ever hand out
    Software,   \* ids the software table may ever hand out
    Title,      \* (title, version) pairs, trimmed
    Quantity,   \* licence quantities a form may carry
    CpuCount,   \* CPU counts an item form may carry
    CoreCount,  \* cores per CPU an item form may carry
    Copies,     \* how often one id may stand in the link list of a form
    Null        \* the NULL of a licence quantity that was left empty

ASSUME LicencesAssumption ==
    /\ IsFiniteSet(Item)
    /\ Quantity \subseteq Nat /\ Null \notin Nat
    /\ CpuCount \subseteq Nat /\ CoreCount \subseteq Nat
    /\ Copies \subseteq Nat /\ 0 \in Copies

VARIABLES
    itemStatus,   \* which item ids have a row in items
    metering,     \* cpuno and corespercpu of each item
    softStatus,   \* which software ids have a row in software
    entitlement,  \* title, licqty and lictype of each software
    item2soft     \* number of rows (item, software) in item2soft

vars == <<itemStatus, metering, softStatus, entitlement, item2soft>>

Status == {"unborn", "live", "deleted"}
LicenceType == {"device", "cpu", "core"}
Metering == [cpu : Nat, cores : Nat]
Entitlement ==
    [title : Title \cup {Null}, qty : Nat \cup {Null}, type : LicenceType]
Unmetered == [cpu |-> 0, cores |-> 0]
NoEntitlement == [title |-> Null, qty |-> Null, type |-> "device"]

LiveItem == {i \in Item : itemStatus[i] = "live"}
LiveSoftware == {s \in Software : softStatus[s] = "live"}

(***************************************************************************)
(* Seats.  A SUM over link rows of the weight of the row's item is counted *)
(* as the number of pairs (row, unit), a row being (item, copy): one pair   *)
(* for each unit each row consumes.                                        *)
(***************************************************************************)
Weight(type, m) ==
    CASE type = "cpu"    -> m.cpu
      [] type = "core"   -> m.cpu * m.cores
      [] type = "device" -> 1

Seats(I, rows, type, load) ==
    UNION {({i} \X (1 .. rows[i])) \X (1 .. Weight(type, load[i])) : i \in I}

\* Mutant: COUNT(*) of the other rows in place of the SUM of their weights.
OtherRowUsage_CountsRows(s, i) ==
    Cardinality(Seats(LiveItem \ {i}, [j \in Item |-> item2soft[j][s]],
                      "device", metering))

\* What the rows of s outside item i consume: item2soft JOIN items, whatever
\* the number of rows the same item has.
OtherRowUsage(s, i) ==
    Cardinality(Seats(LiveItem \ {i}, [j \in Item |-> item2soft[j][s]],
                      entitlement[s].type, metering))

\* A cpu- or core-licensed software may only be linked to items whose CPU
\* (and core) counts are filled in.
IsMetered(type, m) ==
    /\ type \in {"cpu", "core"} => m.cpu > 0
    /\ type = "core" => m.cores > 0

\* Mutant: missing CPU counts are charged as zero, not refused.
ItemWithinLicences_ZeroIfMissing(i, m, links) ==
    \A s \in LiveSoftware : links[s] > 0 =>
        /\ entitlement[s].qty # Null
        /\ OtherRowUsage(s, i) + Weight(entitlement[s].type, m)
               <= entitlement[s].qty

\* enforceSoftwareLicenseLimits: ids without a software row are skipped, a
\* software without a quantity is a conflict.
ItemWithinLicences(i, m, links) ==
    \A s \in LiveSoftware : links[s] > 0 =>
        /\ entitlement[s].qty # Null
        /\ IsMetered(entitlement[s].type, m)
        /\ OtherRowUsage(s, i) + Weight(entitlement[s].type, m)
               <= entitlement[s].qty

\* Mutant: a form without a quantity returns before its links are looked at.
SoftwareWithinLicence_NullPasses(e, links) ==
    LET linked == {i \in LiveItem : links[i] > 0} IN
    e.qty # Null =>
        /\ \A i \in linked : IsMetered(e.type, metering[i])
        /\ Cardinality(Seats(linked, [i \in Item |-> 1], e.type, metering))
               <= e.qty

\* enforceSoftwareLicenseCount: the linked ids are deduplicated, ids without
\* an item row are skipped.
SoftwareWithinLicence(e, links) ==
    IF e.qty = Null
    THEN \A i \in Item : links[i] = 0
    ELSE LET linked == {i \in LiveItem : links[i] > 0} IN
         /\ \A i \in linked : IsMetered(e.type, metering[i])
         /\ Cardinality(Seats(linked, [i \in Item |-> 1], e.type, metering))
                <= e.qty

TitleFree(s, title) ==
    \A other \in LiveSoftware \ {s} : entitlement[other].title # title

-----------------------------------------------------------------------------
Init ==
    /\ itemStatus = [i \in Item |-> "unborn"]
    /\ metering = [i \in Item |-> Unmetered]
    /\ softStatus = [s \in Software |-> "unborn"]
    /\ entitlement = [s \in Software |-> NoEntitlement]
    /\ item2soft = [i \in Item |-> [s \in Software |-> 0]]

\* ItemMutationWorkflow.Create: the new id's rows are replaced by the form's
\* list, duplicates included (ReplaceIDLinks).
CreateItem(i, m, links) ==
    /\ itemStatus[i] = "unborn"
    /\ ItemWithinLicences(i, m, links)
    /\ itemStatus' = [itemStatus EXCEPT ![i] = "live"]
    /\ metering' = [metering EXCEPT ![i] = m]
    /\ item2soft' = [item2soft EXCEPT ![i] = links]
    /\ UNCHANGED <<softStatus, entitlement>>

\* ItemMutationWorkflow.Update: UPDATE ... WHERE id = ? may hit no row, the
\* links are replaced all the same.
UpdateItem(i, m, links) ==
    /\ ItemWithinLicences(i, m, links)
    /\ metering' = [metering EXCEPT ![i] =
                        IF itemStatus[i] = "live" THEN m ELSE @]
    /\ item2soft' = [item2soft EXCEPT ![i] = links]
    /\ UNCHANGED <<itemStatus, softStatus, entitlement>>

\* ItemMutationWorkflow.Delete with DeleteItemReferences.  An item others name
\* as their switch is refused; which items do is not state of this module.
DeleteItem(i) ==
    /\ itemStatus' = [itemStatus EXCEPT ![i] =
                          IF @ = "live" THEN "deleted" ELSE @]
    /\ metering' = [metering EXCEPT ![i] = Unmetered]
    /\ item2soft' = [item2soft EXCEPT ![i] = [s \in Software |-> 0]]
    /\ UNCHANGED <<softStatus, entitlement>>

\* Mutant: the linked items' rows are deleted, not the software's.
ReplaceRowsOf_ClearsItems(s, links) ==
    item2soft' = [i \in Item |-> [t \in Software |->
                     IF t = s THEN links[i]
                     ELSE IF links[i] > 0 THEN 0 ELSE item2soft[i][t]]]

\* The rows of software s become the form's list.
ReplaceRowsOf(s, links) ==
    item2soft' = [i \in Item |-> [item2soft[i] EXCEPT ![s] = links[i]]]

\* SoftwareMutationWorkflow.Create.
CreateSoftware(s, e, links) ==
    /\ softStatus[s] = "unborn"
    /\ TitleFree(s, e.title)
    /\ SoftwareWithinLicence(e, links)
    /\ softStatus' = [softStatus EXCEPT ![s] = "live"]
    /\ entitlement' = [entitlement EXCEPT ![s] = e]
    /\ ReplaceRowsOf(s, links)
    /\ UNCHANGED <<itemStatus, metering>>

\* SoftwareMutationWorkflow.Update: a quantity in use cannot be cleared.
UpdateSoftware(s, e, links) ==
    /\ TitleFree(s, e.title)
    /\ e.qty = Null => \A i \in Item : item2soft[i][s] = 0
    /\ SoftwareWithinLicence(e, links)
    /\ entitlement' = [entitlement EXCEPT ![s] =
                           IF softStatus[s] = "live" THEN e ELSE @]
    /\ ReplaceRowsOf(s, links)
    /\ UNCHANGED <<itemStatus, metering, softStatus>>

\* SoftwareMutationWorkflow.Delete with DeleteSoftwareReferences.
DeleteSoftware(s) ==
    /\ softStatus' = [softStatus EXCEPT ![s] =
                          IF @ = "live" THEN "deleted" ELSE @]
    /\ entitlement' = [entitlement EXCEPT ![s] = NoEntitlement]
    /\ ReplaceRowsOf(s, [i \in Item |-> 0])
    /\ UNCHANGED <<itemStatus, metering>>

-----------------------------------------------------------------------------
\* What the two forms may carry.
ItemForm == [cpu : CpuCount, cores : CoreCount]
SoftwareForm ==
    [title : Title, qty : Quantity \cup {Null}, type : LicenceType]

Next ==
    \/ \E i \in Item, m \in ItemForm, links \in [Software -> Copies] :
          CreateItem(i, m, links) \/ UpdateItem(i, m, links)
    \/ \E i \in Item : DeleteItem(i)
    \/ \E s \in Software, e \in SoftwareForm, links \in [Item -> Copies] :
          CreateSoftware(s, e, links) \/ UpdateSoftware(s, e, links)
    \/ \E s \in Software : DeleteSoftware(s)

Spec == Init /\ [][Next]_vars

-----------------------------------------------------------------------------
\* The tables hold what their columns say; only a live id has data.
TypeOK ==
    /\ itemStatus \in [Item -> Status]
    /\ metering \in [Item -> Metering]
    /\ softStatus \in [Software -> Status]
    /\ entitlement \in [Software -> Entitlement]
    /\ item2soft \in [Item -> [Software -> Nat]]
    /\ \A i \in Item : itemStatus[i] # "live" => metering[i] = Unmetered
    /\ \A s \in Software :
          softStatus[s] # "live" => entitlement[s] = NoEntitlement

\* The items a software is installed on.
InstalledOn(s) == {i \in LiveItem : item2soft[i][s] > 0}

\* What those items consume together, each counted once.
Consumption(s) ==
    Cardinality(Seats(InstalledOn(s), [i \in Item |-> 1],
                      entitlement[s].type, metering))

\* No sequence of item and software saves over-allocates a licence: what the
\* items linked to a software consume stays within its quantity, through
\* changes of the quantity, of the licence type and of the items' CPUs.
LicenceRespected ==
    \A s \in LiveSoftware :
        entitlement[s].qty # Null => Consumption(s) <= entitlement[s].qty

\* A software without a quantity is linked to nothing, whichever side wrote
\* the link and whatever the order of clearing the quantity and linking.
UnquantifiedIsUnlinked ==
    \A s \in LiveSoftware :
        entitlement[s].qty = Null => \A i \in Item : item2soft[i][s] = 0

\* An item linked to a cpu- or core-licensed software has the counts its
\* consumption is computed from: neither a change of the item's CPUs nor a
\* change of the software's type leaves an installation counted as zero.
InstallationsAreMetered ==
    \A s \in LiveSoftware : \A i \in InstalledOn(s) :
        IsMetered(entitlement[s].type, metering[i])

\* The seats each item occupies in each software, as LicencePool sees them.
SeatsHeld ==
    [s \in Software |-> [i \in Item |->
        IF s \in LiveSoftware /\ i \in InstalledOn(s)
        THEN Seats({i}, [j \in Item |-> 1], entitlement[s].type, metering)
        ELSE {}]]

Capacity ==
    [s \in Software |-> IF s \in LiveSoftware THEN entitlement[s].qty ELSE Null]

Pools == INSTANCE LicencePool
         WITH Holder <- Item, Pool <- Software, NoCapacity <- Null,
              capacity <- Capacity, seats <- SeatsHeld

\* The two writers of item2soft together behave as one pool of seats per
\* software: a save from one side moves only that item's or that software's
\* seats, and every pool fits afterwards.
ImplementsPools == Pools!Spec

\* The usage the software list shows (usedqty: a sum over link rows) stays
\* within the quantity.
UsedQtyWithinLicence ==
    \A s \in LiveSoftware : entitlement[s].qty # Null =>
        Cardinality(Seats(LiveItem, [i \in Item |-> item2soft[i][s]],
                          entitlement[s].type, metering))
            <= entitlement[s].qty
=============================================================================
