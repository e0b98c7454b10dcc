------------------------ MODULE RackPlacement_proofs ------------------------
(***************************************************************************)
(* RackPlacement.tla for every set of items, racks and form contents: the  *)
(* type invariant, and that item saves keep the layout of a rack sound.    *)
(* ConnectionPool.tla, for every number of callers: the connection is      *)
(* always with somebody who gives it back.                                 *)
(***************************************************************************)
EXTENDS RackPlacement, ConnectionPool, TLAPS

\* What the forms carry has the types of the columns it is stored in.
LEMMA FormTypes == ItemForm \subseteq Place /\ RackForm \subseteq Shape
BY RackPlacementAssumption DEF ItemForm, Place, RackForm, Shape

\* The tables keep what their columns say through every save and delete, with
\* any number of rack deletes in flight.
THEOREM TypeCorrect == Spec => []TypeOK
<1>1. Init => TypeOK
  BY DEF Init, TypeOK, Status, Place, Nowhere, Shape, NoShape
<1>2. TypeOK /\ [Next]_vars => TypeOK'
  <2> SUFFICES ASSUME TypeOK, [Next]_vars
               PROVE  TypeOK'
    OBVIOUS
  <2> USE DEF TypeOK, Status
  <2>1. ASSUME NEW i \in Item, NEW p \in ItemForm,
               CreateItem(i, p) \/ UpdateItem(i, p)
        PROVE  TypeOK'
    <3>1. p \in Place
      BY FormTypes
    <3> QED
      BY <2>1, <3>1 DEF CreateItem, UpdateItem
  <2>2. ASSUME NEW i \in Item, DeleteItem(i)
        PROVE  TypeOK'
    <3>1. Nowhere \in Place
      BY DEF Nowhere, Place
    <3> QED
      BY <2>2, <3>1 DEF DeleteItem
  <2>3. ASSUME NEW r \in Rack, NEW sh \in RackForm,
               CreateRack(r, sh) \/ UpdateRack(r, sh)
        PROVE  TypeOK'
    <3>1. sh \in Shape
      BY FormTypes
    <3> QED
      BY <2>3, <3>1 DEF CreateRack, UpdateRack
  <2>4. ASSUME NEW r \in Rack, CheckDeleteRack(r)
        PROVE  TypeOK'
    BY <2>4 DEF CheckDeleteRack
  <2>5. ASSUME NEW r \in Rack, CommitDeleteRack(r)
        PROVE  TypeOK'
    <3>1. NoShape \in Shape
      BY DEF NoShape, Shape
    <3>2. \A i \in Item : [place[i] EXCEPT !.rack = NoRack] \in Place
      BY DEF Place
    <3>3. place' \in [Item -> Place]
      BY <2>5, <3>2 DEF CommitDeleteRack
    <3>4. \A i \in Item : itemStatus'[i] # "live" => place'[i] = Nowhere
      BY <2>5 DEF CommitDeleteRack, ItemsNaming, LiveItem
    <3> QED
      BY <2>5, <3>1, <3>3, <3>4 DEF CommitDeleteRack
  <2>6. ASSUME NEW r \in Rack, AbandonDeleteRack(r)
        PROVE  TypeOK'
    BY <2>6 DEF AbandonDeleteRack
  <2>7. CASE UNCHANGED vars
    BY <2>7 DEF vars
  <2> QED
    BY <2>1, <2>2, <2>3, <2>4, <2>5, <2>6, <2>7 DEF Next
<1> QED
  BY <1>1, <1>2, PTL DEF Spec

-----------------------------------------------------------------------------
(***************************************************************************)
(* A rack whose row is not touched, seen by a step that stores at most one *)
(* item's place, and that one checked.                                     *)
(***************************************************************************)
LEMMA CheckedPlaceKeepsLayout ==
    ASSUME TypeOK, NEW r \in Rack, NEW i \in Item, NEW p \in Place,
           rackStatus[r] = "live", UNCHANGED <<rackStatus, shape>>,
           LayoutSound(r), PlacementAllowed(i, p),
           place'[i] = p \/ i \notin ItemsNaming(r)',
           \A j \in Item \ {i} : place'[j] = place[j] /\ itemStatus'[j] = itemStatus[j]
    PROVE  LayoutSound(r)'
<1> DEFINE before == {j \in ItemsNaming(r) : Mounted(place[j])}
<1> DEFINE after == {j \in ItemsNaming(r)' : Mounted(place'[j])}
<1> DEFINE SpanOf(q) == Span(shape[r], q)
<1>1. \A j \in after \ {i} : j \in before /\ place'[j] = place[j]
  BY DEF ItemsNaming, LiveItem
<1>2. i \in after => p.rack = r /\ Mounted(p) /\ place'[i] = p
  BY DEF ItemsNaming, LiveItem
<1>3. i \in after =>
          /\ WithinRack(shape[r], p)
          /\ \A j \in before \ {i} : SpanOf(place[j]) \cap SpanOf(p) = {}
  BY <1>2, RackPlacementAssumption DEF PlacementAllowed, NoConflict
<1>4. /\ \A j \in before : WithinRack(shape[r], place[j])
      /\ \A j, k \in before : j # k => SpanOf(place[j]) \cap SpanOf(place[k]) = {}
  BY DEF LayoutSound
<1>5. \A j \in after : WithinRack(shape[r], place'[j])
  BY <1>1, <1>2, <1>3, <1>4
<1>6. \A j, k \in after : j # k => SpanOf(place'[j]) \cap SpanOf(place'[k]) = {}
  <2> HIDE DEF SpanOf, before, after
  <2> SUFFICES ASSUME NEW j \in after, NEW k \in after, j # k
               PROVE  SpanOf(place'[j]) \cap SpanOf(place'[k]) = {}
    OBVIOUS
  <2>1. CASE j = i
    <3>1. k \in before \ {i} /\ place'[k] = place[k] /\ place'[j] = p
      BY <1>1, <1>2, <2>1
    <3>2. SpanOf(place[k]) \cap SpanOf(p) = {}
      BY <1>3, <2>1, <3>1
    <3> QED
      BY <3>1, <3>2
  <2>2. CASE k = i
    <3>1. j \in before \ {i} /\ place'[j] = place[j] /\ place'[k] = p
      BY <1>1, <1>2, <2>2
    <3> QED
      BY <1>3, <2>2, <3>1
  <2>3. CASE j # i /\ k # i
    BY <1>1, <1>4, <2>3
  <2> QED
    BY <2>1, <2>2, <2>3
<1> QED
  BY <1>5, <1>6 DEF LayoutSound

\* However many items are saved, moved and deleted in whatever order: as long
\* as the rack itself is not changed, two items never come to share a unit of
\* it and none sticks out of it.
THEOREM ItemsKeepLayout == Spec => LayoutKeptByItems
<1>1. TypeOK /\ [Next]_vars =>
        [\A r \in Rack :
           (/\ rackStatus[r] = "live" /\ rackStatus'[r] = "live"
            /\ shape'[r] = shape[r]
            /\ LayoutSound(r)) => LayoutSound(r)']_vars
  <2> SUFFICES ASSUME TypeOK, [Next]_vars, NEW r \in Rack,
                      rackStatus[r] = "live", rackStatus'[r] = "live",
                      shape'[r] = shape[r], LayoutSound(r)
               PROVE  LayoutSound(r)'
    OBVIOUS
  <2>1. ASSUME NEW i \in Item, NEW p \in ItemForm,
               CreateItem(i, p) \/ UpdateItem(i, p)
        PROVE  LayoutSound(r)'
    <3>1. p \in Place
      BY FormTypes
    <3>2. place'[i] = p \/ i \notin ItemsNaming(r)'
      BY <2>1 DEF CreateItem, UpdateItem, ItemsNaming, LiveItem, TypeOK
    <3>3. \A j \in Item \ {i} : place'[j] = place[j] /\ itemStatus'[j] = itemStatus[j]
      BY <2>1 DEF CreateItem, UpdateItem, TypeOK
    <3>4. UNCHANGED <<rackStatus, shape>> /\ PlacementAllowed(i, p)
      BY <2>1 DEF CreateItem, UpdateItem
    <3> QED
      BY <3>1, <3>2, <3>3, <3>4, CheckedPlaceKeepsLayout
  <2>2. ASSUME NEW i \in Item, DeleteItem(i)
        PROVE  LayoutSound(r)'
    <3>1. Nowhere \in Place /\ PlacementAllowed(i, Nowhere)
      BY DEF Nowhere, Place, PlacementAllowed, Mounted
    <3>2. /\ place'[i] = Nowhere
          /\ \A j \in Item \ {i} : place'[j] = place[j] /\ itemStatus'[j] = itemStatus[j]
      BY <2>2 DEF DeleteItem, TypeOK
    <3>3. UNCHANGED <<rackStatus, shape>>
      BY <2>2 DEF DeleteItem
    <3> QED
      BY <3>1, <3>2, <3>3, CheckedPlaceKeepsLayout
  <2>3. ASSUME NEW q \in Rack, CommitDeleteRack(q)
        PROVE  LayoutSound(r)'
    <3>1. q # r
      BY <2>3 DEF CommitDeleteRack, TypeOK
    <3>2. ItemsNaming(r)' = ItemsNaming(r) /\ \A j \in ItemsNaming(r) : place'[j] = place[j]
      BY <2>3, <3>1, RackPlacementAssumption
         DEF CommitDeleteRack, ItemsNaming, LiveItem, TypeOK, Place
    <3> QED
      BY <3>2 DEF LayoutSound
  <2>4. CASE UNCHANGED <<itemStatus, place>>
    <3>1. ItemsNaming(r)' = ItemsNaming(r)
      BY <2>4 DEF ItemsNaming, LiveItem
    <3> QED
      BY <2>4, <3>1 DEF LayoutSound
  <2>5. ASSUME NEW q \in Rack, NEW sh \in RackForm,
               CreateRack(q, sh) \/ UpdateRack(q, sh)
        PROVE  UNCHANGED <<itemStatus, place>>
    BY <2>5 DEF CreateRack, UpdateRack
  <2>6. ASSUME NEW q \in Rack, CheckDeleteRack(q) \/ AbandonDeleteRack(q)
        PROVE  UNCHANGED <<itemStatus, place>>
    BY <2>6 DEF CheckDeleteRack, AbandonDeleteRack
  <2> QED
    BY <2>1, <2>2, <2>3, <2>4, <2>5, <2>6 DEF Next, vars
<1> QED
  BY <1>1, TypeCorrect, PTL DEF Spec, LayoutKeptByItems

-----------------------------------------------------------------------------
\* The only connection is at any time free, or with the one caller that uses it, waits
\* behind itself or is about to return, whatever the deadlines of the callers cut off.
THEOREM TheConnectionIsGivenBack == PoolSpec => []PoolTypeOK
<1> USE DEF PoolTypeOK, Stands, Call, CallStep, Work
<1>1. PoolInit => PoolTypeOK
  BY ConnectionPoolAssumption DEF PoolInit, Ended
<1>2. PoolTypeOK /\ [PoolNext]_poolVars => PoolTypeOK'
  <2> SUFFICES ASSUME PoolTypeOK, [PoolNext]_poolVars
               PROVE  PoolTypeOK'
    OBVIOUS
  <2> USE ConnectionPoolAssumption
  <2>e. Ended \in Call
    BY DEF Ended
  <2>1. ASSUME NEW c \in Caller, NEW work \in Work, NEW n \in 1..MaxPieces, Arrive(c, work, n)
        PROVE  PoolTypeOK'
    BY <2>1 DEF Arrive
  <2>2. ASSUME NEW c \in Caller, GetConnection(c)
        PROVE  PoolTypeOK'
    BY <2>2 DEF GetConnection, Goes
  <2>3. ASSUME NEW c \in Caller, FinishPiece(c)
        PROVE  PoolTypeOK'
    <3>1. conn = c /\ call[c] \in Call
      BY <2>3 DEF FinishPiece
    <3>2. CASE Ends(c)
      BY <2>3, <2>e, <3>1, <3>2 DEF FinishPiece, Ends, Ended
    <3>3. CASE /\ call[c].left > 1
               /\ call' = [call EXCEPT ![c].step = "asks", ![c].left = @ - 1]
      <4>1. call[c].left - 1 \in 0..MaxPieces
        BY <3>1, <3>3
      <4>2. call'[c] \in Call /\ call' \in [Caller -> Call]
        BY <3>1, <3>3, <4>1
      <4> QED
        BY <2>3, <3>1, <3>3, <4>2 DEF FinishPiece
    <3> QED
      BY <2>3, <3>2, <3>3 DEF FinishPiece
  <2>4. ASSUME NEW c \in Caller, LoadRackName(c)
        PROVE  PoolTypeOK'
    BY <2>4 DEF LoadRackName, Goes
  <2>5. ASSUME NEW c \in Caller, Deadline(c)
        PROVE  PoolTypeOK'
    BY <2>5 DEF Deadline
  <2>6. ASSUME NEW c \in Caller, RollBackExpired(c)
        PROVE  PoolTypeOK'
    BY <2>6 DEF RollBackExpired, Goes
  <2>7. ASSUME NEW c \in Caller, GiveUp(c)
        PROVE  PoolTypeOK'
    <3>1. CASE Stands(c, {"asks"}) /\ Ends(c)
      BY <2>7, <2>e, <3>1 DEF GiveUp, Ends, Ended
    <3>2. CASE Stands(c, {"asksAgain"}) /\ Goes(c, "late")
      BY <2>7, <3>2 DEF GiveUp, Goes
    <3> QED
      BY <2>7, <3>1, <3>2 DEF GiveUp
  <2>8. ASSUME NEW c \in Caller, ReturnLate(c)
        PROVE  PoolTypeOK'
    BY <2>8, <2>e DEF ReturnLate, Ends, Ended, Frees
  <2>9. CASE UNCHANGED poolVars
    BY <2>9 DEF poolVars
  <2> QED
    BY <2>1, <2>2, <2>3, <2>4, <2>5, <2>6, <2>7, <2>8, <2>9 DEF PoolNext
<1> QED
  BY <1>1, <1>2, PTL DEF PoolSpec
=============================================================================
