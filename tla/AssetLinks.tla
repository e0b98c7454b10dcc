------------------------------ MODULE AssetLinks ------------------------------
(***************************************************************************)
(* Which hardware, software, invoice and contract belongs to which.  Six   *)
(* tables, one for each pair of kinds, hold the links; a seventh, itemlink, *)
(* joins two items.  Every save of an asset replaces its rows in the three *)
(* tables of its kind, an item's also those of itemlink (relations.go, the *)
(* four workflows).  A delete clears the tables its repository lists.      *)
(*                                                                         *)
(* Ids come from AUTOINCREMENT and are used once, except an invoice's,     *)
(* which is the greatest in use plus one (db.go).                          *)
(*                                                                         *)
(* Rows between kinds are kept as sets: no code here tells a repeated row  *)
(* from one.  Rows of itemlink are counted.  Whether a save is refused for *)
(* other reasons (licences, racks, titles) is not state of this module,    *)
(* nor is the reference that keeps a switch or a parent contract from      *)
(* being deleted.                                                          *)
(***************************************************************************)
EXTENDS Naturals, FiniteSets

CONSTANTS
    Asset,   \* ids the four tables may ever hand out, told apart
    KindOf   \* the kind of each: "item", "software", "invoice", "contract"

ASSUME AssetLinksAssumption ==
    /\ Asset \subseteq Nat
    /\ KindOf \in [Asset -> {"item", "software", "invoice", "contract"}]

VARIABLES
    status,    \* which ids have a row in the table of their kind
    links,     \* pairs {a, b} of different kinds that a row links
    leftover,  \* history: links not written since a delete of an end
    itemlink   \* how many rows itemlink has for (itemid1, itemid2)

vars == <<status, links, leftover, itemlink>>

Status == {"unborn", "live", "deleted"}
Items == {a \in Asset : KindOf[a] = "item"}
Other(a) == {b \in Asset : KindOf[b] # KindOf[a]}
Pairs(a, B) == {{a, b} : b \in B}

-----------------------------------------------------------------------------
Init ==
    /\ status = [a \in Asset |-> "unborn"]
    /\ links = {}
    /\ leftover = {}
    /\ itemlink = [p \in Items \X Items |-> 0]

\* The id of a new row.
Unused(a) ==
    IF KindOf[a] = "invoice"
    THEN \A b \in Asset : KindOf[b] = "invoice" /\ status[b] = "live" => b < a
    ELSE status[a] = "unborn"

\* Mutant: nothing is deleted first.
ReplaceLinks_OnlyInserts(a, B) ==
    /\ links' = links \cup Pairs(a, B)
    /\ leftover' = leftover \ Pairs(a, B)

\* ReplaceIDLinks on the three tables of a's kind.
ReplaceLinks(a, B) ==
    /\ links' = (links \ Pairs(a, Other(a))) \cup Pairs(a, B)
    /\ leftover' = leftover \ Pairs(a, Other(a))

\* Mutant: the old rows are found by their first column only.
ReplaceItemLinks_ByFirst(a, peers) ==
    itemlink' = [p \in Items \X Items |->
        LET had == IF p[1] = a THEN 0 ELSE itemlink[p] IN
        IF p[1] < p[2] /\ \E b \in peers \ {a} : {p[1], p[2]} = {a, b}
        THEN had + 1 ELSE had]

\* ReplaceUndirectedItemLinks: one row for each other item in the form, the
\* smaller id first, whichever column had a before.
ReplaceItemLinks(a, peers) ==
    itemlink' = [p \in Items \X Items |->
        LET had == IF a \in {p[1], p[2]} THEN 0 ELSE itemlink[p] IN
        IF p[1] < p[2] /\ \E b \in peers \ {a} : {p[1], p[2]} = {a, b}
        THEN had + 1 ELSE had]

\* The form of asset a links it to B and, an item, to peers.
Save(a, B, peers) ==
    /\ ReplaceLinks(a, B)
    /\ IF KindOf[a] = "item" THEN ReplaceItemLinks(a, peers) ELSE UNCHANGED itemlink

\* The Create of the four workflows.
CreateAsset(a, B, peers) ==
    /\ Unused(a)
    /\ status' = [status EXCEPT ![a] = "live"]
    /\ Save(a, B, peers)

\* The Update of the four workflows, also of an id without a row.
UpdateAsset(a, B, peers) ==
    /\ Save(a, B, peers)
    /\ UNCHANGED status

\* The kinds whose rows DeleteItemReferences, DeleteSoftwareReferences,
\* DeleteInvoiceReferences and DeleteContractReferences clear.
ClearedKinds(k) ==
    CASE k = "item"     -> {"software", "invoice"}
      [] k = "software" -> {"item"}
      [] k = "invoice"  -> {"item"}
      [] k = "contract" -> {"item", "software", "invoice"}

DeleteAsset(a) ==
    LET kept == links \ Pairs(a, {b \in Asset : KindOf[b] \in ClearedKinds(KindOf[a])})
    IN
    /\ status' = [status EXCEPT ![a] = IF @ = "live" THEN "deleted" ELSE @]
    /\ links' = kept
    /\ leftover' = {l \in kept : l \in leftover \/ (status[a] = "live" /\ a \in l)}
    /\ itemlink' = [p \in Items \X Items |->
                       IF a \in {p[1], p[2]} THEN 0 ELSE itemlink[p]]

-----------------------------------------------------------------------------
Next ==
    \E a \in Asset :
        \/ DeleteAsset(a)
        \/ \E B \in SUBSET Other(a),
              peers \in IF KindOf[a] = "item" THEN SUBSET Items ELSE {{}} :
              CreateAsset(a, B, peers) \/ UpdateAsset(a, B, peers)

Spec == Init /\ [][Next]_vars

-----------------------------------------------------------------------------
\* Every variable has its range: links join different kinds, and a row of
\* itemlink has the smaller id first, so that no item is linked to itself.
TypeOK ==
    /\ status \in [Asset -> Status]
    /\ \A l \in links : \E a, b \in Asset : KindOf[a] # KindOf[b] /\ l = {a, b}
    /\ leftover \subseteq links
    /\ itemlink \in [Items \X Items -> Nat]
    /\ \A p \in Items \X Items : itemlink[p] > 0 => p[1] < p[2]

\* Two items are joined by one row at most, whichever of them was saved last and
\* whichever column names it: a save must find the row the other one wrote.
OneRowPerItemLink == \A p \in Items \X Items : itemlink[p] <= 1

\* A row that outlived the delete of one of its ends never joins two assets that
\* exist.  Only a new invoice can revive a row, by taking the id of a deleted
\* one: its create must clear the rows of that id although it is new.
NothingIsInherited ==
    \A l \in leftover : \E a \in l : status[a] # "live"

\* A request changes rows of one asset only, those of other pairs stay.
OthersLinksStay ==
    [][\E a \in Asset :
          /\ \A l \in (links \ links') \cup (links' \ links) : a \in l
          /\ \A p \in Items \X Items :
                itemlink'[p] # itemlink[p] => a \in {p[1], p[2]}]_vars

\* What the manual says of deleting hardware, software and invoices: the links
\* go with them, so that no asset that exists still lists the deleted one.
DeletedAssetsAreUnlinked ==
    [][\A a, b \in Asset :
          status[a] = "live" /\ status'[a] = "deleted" /\ status'[b] = "live"
          => {a, b} \notin links']_vars
=============================================================================
