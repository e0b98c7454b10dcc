--------------------------- MODULE Licences_proofs ---------------------------
(***************************************************************************)
(* Licences.tla for every set of items, software and form contents: the    *)
(* type invariant, and that no sequence of saves over-allocates a licence. *)
(***************************************************************************)
EXTENDS Licences, Integers, FiniteSetTheorems, TLAPS

\* What an item consumes is a natural number, whatever the licence type.
LEMMA WeightType ==
    ASSUME NEW type \in LicenceType, NEW m \in Metering
    PROVE  Weight(type, m) \in Nat
<1>1. m.cpu \in Nat /\ m.cores \in Nat
  BY DEF Metering
<1>2. m.cpu * m.cores \in Nat
  BY <1>1
<1> QED
  BY <1>1, <1>2 DEF Weight, LicenceType

\* Finitely many items occupy finitely many seats.
LEMMA SeatsFinite ==
    ASSUME NEW I \in SUBSET Item, NEW rows \in [Item -> Nat],
           NEW type \in LicenceType, NEW load \in [Item -> Metering]
    PROVE  IsFiniteSet(Seats(I, rows, type, load))
<1> DEFINE Block(i) == ({i} \X (1 .. rows[i])) \X (1 .. Weight(type, load[i]))
<1> DEFINE f == [i \in I |-> Block(i)]
<1>1. ASSUME NEW i \in I
      PROVE  IsFiniteSet(Block(i))
  <2>1. rows[i] \in Int /\ Weight(type, load[i]) \in Int
    BY WeightType
  <2>2. IsFiniteSet({i})
    BY FS_Singleton
  <2>3. IsFiniteSet(1 .. rows[i])
    BY <2>1, FS_Interval
  <2>4. IsFiniteSet(1 .. Weight(type, load[i]))
    BY <2>1, FS_Interval
  <2>5. IsFiniteSet({i} \X (1 .. rows[i]))
    BY <2>2, <2>3, FS_Product
  <2> QED
    BY <2>4, <2>5, FS_Product
<1>2. IsFiniteSet(I)
  BY LicencesAssumption, FS_Subset
<1>3. f \in Surjection(I, {Block(i) : i \in I})
  BY DEF Surjection
<1>4. IsFiniteSet({Block(i) : i \in I})
  BY <1>2, <1>3, FS_Surjection
<1> QED
  BY <1>1, <1>4, FS_UNION DEF Seats

\* Fewer items with no more rows each, and the same CPUs, occupy no seat that
\* was not occupied.
LEMMA SeatsMonotone ==
    ASSUME NEW I \in SUBSET Item, NEW J \in SUBSET Item, I \subseteq J,
           NEW rows \in [Item -> Nat], NEW more \in [Item -> Nat],
           NEW type \in LicenceType,
           NEW load \in [Item -> Metering], NEW same \in [Item -> Metering],
           \A i \in I : rows[i] <= more[i] /\ load[i] = same[i]
    PROVE  Cardinality(Seats(I, rows, type, load))
               <= Cardinality(Seats(J, more, type, same))
<1>1. Seats(I, rows, type, load) \subseteq Seats(J, more, type, same)
  BY DEF Seats
<1>2. IsFiniteSet(Seats(J, more, type, same))
  BY SeatsFinite
<1> QED
  BY <1>1, <1>2, FS_Subset

\* Adding an item with one row adds at most its weight.
LEMMA SeatsAddItem ==
    ASSUME NEW I \in SUBSET Item, NEW i \in Item,
           NEW type \in LicenceType, NEW load \in [Item -> Metering]
    PROVE  Cardinality(Seats(I \cup {i}, [j \in Item |-> 1], type, load))
               <= Cardinality(Seats(I, [j \in Item |-> 1], type, load))
                      + Weight(type, load[i])
<1> DEFINE one == [j \in Item |-> 1]
<1> DEFINE S == Seats(I, one, type, load)
<1> DEFINE T == ({i} \X (1 .. 1)) \X (1 .. Weight(type, load[i]))
<1>1. Seats(I \cup {i}, one, type, load) = S \cup T
  <2> DEFINE Block(j) == ({j} \X (1 .. one[j])) \X (1 .. Weight(type, load[j]))
  <2>1. T = Block(i)
    OBVIOUS
  <2> HIDE DEF Block
  <2>2. UNION {Block(j) : j \in I \cup {i}} = (UNION {Block(j) : j \in I}) \cup Block(i)
    OBVIOUS
  <2>3. Seats(I \cup {i}, one, type, load) = UNION {Block(j) : j \in I \cup {i}}
    BY DEF Seats, Block
  <2>4. S = UNION {Block(j) : j \in I}
    BY DEF Seats, Block
  <2> HIDE DEF S, T, one
  <2> QED
    BY <2>1, <2>2, <2>3, <2>4, Zenon
<1>2. one \in [Item -> Nat]
  OBVIOUS
<1>3. IsFiniteSet(S)
  BY <1>2, SeatsFinite
<1>4. Weight(type, load[i]) \in Nat
  BY WeightType
<1>5. IsFiniteSet({i}) /\ Cardinality({i}) = 1
  BY FS_Singleton
<1>6. IsFiniteSet(1 .. 1) /\ Cardinality(1 .. 1) = 1
  <2>1. 1 .. 1 = {1}
    OBVIOUS
  <2> QED
    BY <2>1, FS_Singleton
<1>7. /\ IsFiniteSet(1 .. Weight(type, load[i]))
      /\ Cardinality(1 .. Weight(type, load[i])) = Weight(type, load[i])
  BY <1>4, FS_Interval
<1>8. IsFiniteSet({i} \X (1 .. 1)) /\ Cardinality({i} \X (1 .. 1)) = 1
  BY <1>5, <1>6, FS_Product
<1>9. IsFiniteSet(T) /\ Cardinality(T) = Weight(type, load[i])
  BY <1>4, <1>7, <1>8, FS_Product
<1>10. Cardinality(S \cup T)
           = Cardinality(S) + Cardinality(T) - Cardinality(S \cap T)
  BY <1>3, <1>9, FS_Union
<1>11. IsFiniteSet(S \cap T)
  BY <1>3, FS_Intersection
<1>12. Cardinality(S) \in Nat /\ Cardinality(S \cap T) \in Nat
  BY <1>3, <1>11, FS_CardinalityType
<1> HIDE DEF S, T
<1>13. Cardinality(S \cup T) <= Cardinality(S) + Weight(type, load[i])
  BY <1>4, <1>9, <1>10, <1>12
<1> QED
  BY <1>1, <1>13 DEF S

-----------------------------------------------------------------------------
\* What the forms carry has the types of the columns it is stored in.
LEMMA FormTypes ==
    /\ ItemForm \subseteq Metering
    /\ SoftwareForm \subseteq Entitlement
    /\ [Software -> Copies] \subseteq [Software -> Nat]
    /\ [Item -> Copies] \subseteq [Item -> Nat]
BY LicencesAssumption DEF ItemForm, Metering, SoftwareForm, Entitlement

\* The tables keep what their columns say, through every save and delete.
THEOREM TypeCorrect == Spec => []TypeOK
<1>1. Init => TypeOK
  BY DEF Init, TypeOK, Status, Metering, Unmetered, Entitlement,
         NoEntitlement, LicenceType
<1>2. TypeOK /\ [Next]_vars => TypeOK'
  <2> SUFFICES ASSUME TypeOK, [Next]_vars
               PROVE  TypeOK'
    OBVIOUS
  <2> USE DEF TypeOK, Status
  <2>1. ASSUME NEW i \in Item, NEW m \in ItemForm,
               NEW links \in [Software -> Copies],
               CreateItem(i, m, links) \/ UpdateItem(i, m, links)
        PROVE  TypeOK'
    <3>1. m \in Metering /\ links \in [Software -> Nat]
      BY FormTypes
    <3> QED
      BY <2>1, <3>1 DEF CreateItem, UpdateItem
  <2>2. ASSUME NEW i \in Item, DeleteItem(i)
        PROVE  TypeOK'
    <3>1. Unmetered \in Metering
      BY DEF Unmetered, Metering
    <3> QED
      BY <2>2, <3>1 DEF DeleteItem
  <2>3. ASSUME NEW s \in Software, NEW e \in SoftwareForm,
               NEW links \in [Item -> Copies],
               CreateSoftware(s, e, links) \/ UpdateSoftware(s, e, links)
        PROVE  TypeOK'
    <3>1. e \in Entitlement /\ links \in [Item -> Nat]
      BY FormTypes
    <3>2. ReplaceRowsOf(s, links)
      BY <2>3 DEF CreateSoftware, UpdateSoftware
    <3>3. item2soft' \in [Item -> [Software -> Nat]]
      BY <3>1, <3>2 DEF ReplaceRowsOf
    <3>4. /\ itemStatus' \in [Item -> Status]
          /\ metering' \in [Item -> Metering]
          /\ softStatus' \in [Software -> Status]
      BY <2>3 DEF CreateSoftware, UpdateSoftware
    <3>5. entitlement' \in [Software -> Entitlement]
      <4>1. \/ entitlement' = [entitlement EXCEPT ![s] = e]
            \/ entitlement' = [entitlement EXCEPT ![s] = entitlement[s]]
        BY <2>3 DEF CreateSoftware, UpdateSoftware
      <4> QED
        BY <3>1, <4>1
    <3>6. \A t \in Software : softStatus'[t] # "live" => entitlement'[t] = NoEntitlement
      BY <2>3 DEF CreateSoftware, UpdateSoftware
    <3>7. \A i \in Item : itemStatus'[i] # "live" => metering'[i] = Unmetered
      BY <2>3 DEF CreateSoftware, UpdateSoftware
    <3> QED
      BY <3>3, <3>4, <3>5, <3>6, <3>7
  <2>4. ASSUME NEW s \in Software, DeleteSoftware(s)
        PROVE  TypeOK'
    <3>1. NoEntitlement \in Entitlement
      BY DEF NoEntitlement, Entitlement, LicenceType
    <3> QED
      BY <2>4, <3>1 DEF DeleteSoftware, ReplaceRowsOf
  <2>5. CASE UNCHANGED vars
    BY <2>5 DEF vars
  <2> QED
    BY <2>1, <2>2, <2>3, <2>4, <2>5 DEF Next
<1> QED
  BY <1>1, <1>2, PTL DEF Spec

-----------------------------------------------------------------------------
(***************************************************************************)
(* Every step is a checked save from one of the two sides.  A delete is one *)
(* with an empty list, which passes its check.                             *)
(***************************************************************************)
ItemSave(i, m, links) ==
    /\ ItemWithinLicences(i, m, links)
    /\ UNCHANGED <<softStatus, entitlement>>
    /\ item2soft' = [item2soft EXCEPT ![i] = links]
    /\ \A j \in Item \ {i} : /\ itemStatus'[j] = itemStatus[j]
                             /\ metering'[j] = metering[j]
    /\ i \in LiveItem' => metering'[i] = m

SoftwareSave(s, e, links) ==
    /\ SoftwareWithinLicence(e, links)
    /\ UNCHANGED <<itemStatus, metering>>
    /\ ReplaceRowsOf(s, links)
    /\ \A t \in Software \ {s} : /\ softStatus'[t] = softStatus[t]
                                 /\ entitlement'[t] = entitlement[t]
    /\ s \in LiveSoftware' => entitlement'[s] = e

LEMMA StepIsSave ==
    ASSUME TypeOK, Next
    PROVE  \/ \E i \in Item, m \in Metering, links \in [Software -> Nat] :
                 ItemSave(i, m, links)
           \/ \E s \in Software, e \in Entitlement, links \in [Item -> Nat] :
                 SoftwareSave(s, e, links)
<1> USE DEF TypeOK, Status
<1>1. ASSUME NEW i \in Item, NEW m \in ItemForm,
             NEW links \in [Software -> Copies],
             CreateItem(i, m, links) \/ UpdateItem(i, m, links)
      PROVE  m \in Metering /\ links \in [Software -> Nat] /\ ItemSave(i, m, links)
  <2>1. m \in Metering /\ links \in [Software -> Nat]
    BY FormTypes
  <2> QED
    BY <1>1, <2>1 DEF CreateItem, UpdateItem, ItemSave, LiveItem
<1>2. ASSUME NEW i \in Item, DeleteItem(i)
      PROVE  /\ Unmetered \in Metering
             /\ [s \in Software |-> 0] \in [Software -> Nat]
             /\ ItemSave(i, Unmetered, [s \in Software |-> 0])
  <2>1. Unmetered \in Metering /\ [s \in Software |-> 0] \in [Software -> Nat]
    BY DEF Unmetered, Metering
  <2>2. ItemWithinLicences(i, Unmetered, [s \in Software |-> 0])
    BY DEF ItemWithinLicences, LiveSoftware
  <2> QED
    BY <1>2, <2>1, <2>2 DEF DeleteItem, ItemSave, LiveItem
<1>3. ASSUME NEW s \in Software, NEW e \in SoftwareForm,
             NEW links \in [Item -> Copies],
             CreateSoftware(s, e, links) \/ UpdateSoftware(s, e, links)
      PROVE  /\ e \in Entitlement /\ links \in [Item -> Nat]
             /\ SoftwareSave(s, e, links)
  <2>1. e \in Entitlement /\ links \in [Item -> Nat]
    BY FormTypes
  <2>2. /\ SoftwareWithinLicence(e, links) /\ ReplaceRowsOf(s, links)
        /\ UNCHANGED <<itemStatus, metering>>
    BY <1>3 DEF CreateSoftware, UpdateSoftware
  <2>3. /\ \A t \in Software \ {s} : /\ softStatus'[t] = softStatus[t]
                                     /\ entitlement'[t] = entitlement[t]
        /\ s \in LiveSoftware' => entitlement'[s] = e
    BY <1>3 DEF CreateSoftware, UpdateSoftware, LiveSoftware
  <2> QED
    BY <2>1, <2>2, <2>3 DEF SoftwareSave
<1>4. ASSUME NEW s \in Software, DeleteSoftware(s)
      PROVE  /\ NoEntitlement \in Entitlement
             /\ [i \in Item |-> 0] \in [Item -> Nat]
             /\ SoftwareSave(s, NoEntitlement, [i \in Item |-> 0])
  <2>1. NoEntitlement \in Entitlement /\ [i \in Item |-> 0] \in [Item -> Nat]
    BY DEF NoEntitlement, Entitlement, LicenceType
  <2>2. SoftwareWithinLicence(NoEntitlement, [i \in Item |-> 0])
    BY DEF SoftwareWithinLicence, NoEntitlement
  <2> QED
    BY <1>4, <2>1, <2>2 DEF DeleteSoftware, SoftwareSave, LiveSoftware
<1> QED
  BY <1>1, <1>2, <1>3, <1>4 DEF Next

\* An item save leaves every licence respected: the item's own weight was
\* added to what the rows of the other items consume.
LEMMA ItemSaveRespects ==
    ASSUME TypeOK, LicenceRespected, TypeOK',
           NEW i \in Item, NEW m \in Metering, NEW links \in [Software -> Nat],
           ItemSave(i, m, links)
    PROVE  LicenceRespected'
<1> USE DEF ItemSave
<1> SUFFICES ASSUME NEW s \in LiveSoftware', entitlement'[s].qty # Null
             PROVE  Consumption(s)' <= entitlement'[s].qty
  BY DEF LicenceRespected
<1> DEFINE one == [j \in Item |-> 1]
<1> DEFINE type == entitlement[s].type
<1> DEFINE rest == InstalledOn(s) \ {i}
<1> DEFINE restUse == Cardinality(Seats(rest, one, type, metering'))
<1>1. s \in LiveSoftware /\ s \in Software /\ entitlement'[s] = entitlement[s]
  BY DEF LiveSoftware
<1>2. type \in LicenceType /\ entitlement[s].qty \in Nat
  BY <1>1 DEF TypeOK, Entitlement
<1>3. one \in [Item -> Nat] /\ metering \in [Item -> Metering]
          /\ metering' \in [Item -> Metering]
  BY DEF TypeOK
<1>4. rest \in SUBSET Item /\ InstalledOn(s)' \in SUBSET Item
          /\ InstalledOn(s) \in SUBSET Item
  BY DEF InstalledOn, LiveItem
<1>5. \A j \in rest : metering'[j] = metering[j]
  BY DEF InstalledOn, LiveItem
<1>6. Consumption(s)' = Cardinality(Seats(InstalledOn(s)', one, type, metering'))
  BY <1>1 DEF Consumption
<1>7. CASE links[s] = 0
  <2>1. InstalledOn(s)' \subseteq InstalledOn(s) /\ i \notin InstalledOn(s)'
    BY <1>1, <1>7 DEF InstalledOn, LiveItem, TypeOK
  <2>2. \A j \in InstalledOn(s)' : one[j] <= one[j] /\ metering'[j] = metering[j]
    BY <1>4, <2>1
  <2>3. Cardinality(Seats(InstalledOn(s)', one, type, metering'))
            <= Cardinality(Seats(InstalledOn(s), one, type, metering))
    <3> HIDE DEF one, type
    <3> QED
      BY <1>2, <1>3, <1>4, <2>1, <2>2, SeatsMonotone
  <2>4. Cardinality(Seats(InstalledOn(s), one, type, metering))
            <= entitlement[s].qty
    BY <1>1 DEF LicenceRespected, Consumption
  <2>5. /\ IsFiniteSet(Seats(InstalledOn(s), one, type, metering))
        /\ IsFiniteSet(Seats(InstalledOn(s)', one, type, metering'))
    <3> HIDE DEF one, type
    <3> QED
      BY <1>2, <1>3, <1>4, SeatsFinite
  <2>6. /\ Cardinality(Seats(InstalledOn(s), one, type, metering)) \in Nat
        /\ Cardinality(Seats(InstalledOn(s)', one, type, metering')) \in Nat
    BY <2>5, FS_CardinalityType
  <2> HIDE DEF one, type
  <2> QED
    BY <1>1, <1>2, <1>6, <2>3, <2>4, <2>6
<1>8. CASE links[s] # 0
  <2> DEFINE rows == [j \in Item |-> item2soft[j][s]]
  <2> DEFINE others == LiveItem \ {i}
  <2>1. OtherRowUsage(s, i) + Weight(type, m) <= entitlement[s].qty
    BY <1>1, <1>2, <1>8 DEF ItemWithinLicences
  <2>2. OtherRowUsage(s, i) = Cardinality(Seats(others, rows, type, metering))
    BY DEF OtherRowUsage
  <2>3. rows \in [Item -> Nat] /\ others \in SUBSET Item /\ rest \subseteq others
    BY <1>1 DEF TypeOK, LiveItem, InstalledOn
  <2>4. \A j \in rest : one[j] <= rows[j]
    BY <1>1 DEF TypeOK, InstalledOn, LiveItem
  <2>5. Cardinality(Seats(rest, one, type, metering'))
            <= Cardinality(Seats(others, rows, type, metering))
    <3> HIDE DEF one, type, rows, others, rest
    <3> QED
      BY <1>2, <1>3, <1>4, <1>5, <2>3, <2>4, SeatsMonotone
  <2>6. InstalledOn(s)' \subseteq rest \cup {i}
    BY <1>1 DEF InstalledOn, LiveItem, TypeOK
  <2>7. Consumption(s)' <= restUse + Weight(type, m)
    <3>1. CASE i \in InstalledOn(s)'
      <4>1. metering'[i] = m
        BY <3>1 DEF InstalledOn
      <4>2. \A j \in InstalledOn(s)' : one[j] <= one[j] /\ metering'[j] = metering'[j]
        BY <1>4
      <4>3. Cardinality(Seats(InstalledOn(s)', one, type, metering'))
                <= Cardinality(Seats(rest \cup {i}, one, type, metering'))
        <5>1. rest \cup {i} \in SUBSET Item
          BY <1>4
        <5> HIDE DEF one, type, rest
        <5> QED
          BY <1>2, <1>3, <1>4, <2>6, <4>2, <5>1, SeatsMonotone
      <4>4. Cardinality(Seats(rest \cup {i}, one, type, metering'))
                <= restUse + Weight(type, m)
        <5> HIDE DEF type, rest
        <5> QED
          BY <1>2, <1>3, <1>4, <4>1, SeatsAddItem
      <4>5. /\ IsFiniteSet(Seats(InstalledOn(s)', one, type, metering'))
            /\ IsFiniteSet(Seats(rest \cup {i}, one, type, metering'))
            /\ IsFiniteSet(Seats(rest, one, type, metering'))
        <5>1. rest \cup {i} \in SUBSET Item
          BY <1>4
        <5> HIDE DEF one, type, rest
        <5> QED
          BY <1>2, <1>3, <1>4, <5>1, SeatsFinite
      <4>6. /\ Cardinality(Seats(InstalledOn(s)', one, type, metering')) \in Nat
            /\ Cardinality(Seats(rest \cup {i}, one, type, metering')) \in Nat
            /\ restUse \in Nat /\ Weight(type, m) \in Nat
        BY <4>5, <1>2, FS_CardinalityType, WeightType
      <4> HIDE DEF one, type, rest, restUse
      <4> QED
        BY <1>6, <4>3, <4>4, <4>6
    <3>2. CASE i \notin InstalledOn(s)'
      <4>1. InstalledOn(s)' \subseteq rest
        BY <2>6, <3>2
      <4>2. \A j \in InstalledOn(s)' : one[j] <= one[j] /\ metering'[j] = metering'[j]
        BY <1>4
      <4>3. Cardinality(Seats(InstalledOn(s)', one, type, metering')) <= restUse
        <5> HIDE DEF one, type, rest
        <5> QED
          BY <1>2, <1>3, <1>4, <4>1, <4>2, SeatsMonotone
      <4>4. /\ IsFiniteSet(Seats(InstalledOn(s)', one, type, metering'))
            /\ IsFiniteSet(Seats(rest, one, type, metering'))
        <5> HIDE DEF one, type, rest
        <5> QED
          BY <1>2, <1>3, <1>4, SeatsFinite
      <4>5. /\ Cardinality(Seats(InstalledOn(s)', one, type, metering')) \in Nat
            /\ restUse \in Nat /\ Weight(type, m) \in Nat
        BY <4>4, <1>2, FS_CardinalityType, WeightType
      <4> HIDE DEF one, type, rest, restUse
      <4> QED
        BY <1>6, <4>3, <4>5
    <3> QED
      BY <3>1, <3>2
  <2>8. /\ IsFiniteSet(Seats(others, rows, type, metering))
        /\ IsFiniteSet(Seats(rest, one, type, metering'))
        /\ IsFiniteSet(Seats(InstalledOn(s)', one, type, metering'))
    <3> HIDE DEF one, type, rest, rows, others
    <3> QED
      BY <1>2, <1>3, <1>4, <2>3, SeatsFinite
  <2>9. /\ OtherRowUsage(s, i) \in Nat /\ restUse \in Nat
        /\ Consumption(s)' \in Nat /\ Weight(type, m) \in Nat
    BY <1>2, <1>6, <2>2, <2>8, FS_CardinalityType, WeightType
  <2> HIDE DEF type, rest, restUse
  <2> QED
    BY <1>1, <1>2, <2>1, <2>2, <2>5, <2>7, <2>9 DEF restUse
<1> QED
  BY <1>7, <1>8

\* A software save leaves every licence respected: its own by the check, the
\* others because they are not touched.
LEMMA SoftwareSaveRespects ==
    ASSUME TypeOK, LicenceRespected, TypeOK',
           NEW s \in Software, NEW e \in Entitlement, NEW links \in [Item -> Nat],
           SoftwareSave(s, e, links)
    PROVE  LicenceRespected'
<1> SUFFICES ASSUME NEW t \in LiveSoftware', entitlement'[t].qty # Null
             PROVE  Consumption(t)' <= entitlement'[t].qty
  BY DEF LicenceRespected
<1>1. t \in Software /\ LiveItem' = LiveItem /\ metering' = metering
  BY DEF LiveSoftware, LiveItem, SoftwareSave
<1>2. CASE t = s
  <2>1. entitlement'[t] = e
    BY <1>2 DEF SoftwareSave
  <2>2. InstalledOn(t)' = {i \in LiveItem : links[i] > 0}
    BY <1>1, <1>2 DEF InstalledOn, LiveItem, SoftwareSave, ReplaceRowsOf, TypeOK
  <2>3. Consumption(t)' = Cardinality(Seats({i \in LiveItem : links[i] > 0},
                              [i \in Item |-> 1], e.type, metering))
    BY <1>1, <2>1, <2>2 DEF Consumption
  <2> QED
    BY <2>1, <2>3 DEF SoftwareSave, SoftwareWithinLicence
<1>3. CASE t # s
  <2>1. t \in LiveSoftware /\ entitlement'[t] = entitlement[t]
    BY <1>1, <1>3 DEF SoftwareSave, LiveSoftware
  <2>2. InstalledOn(t)' = InstalledOn(t)
    BY <1>1, <1>3 DEF InstalledOn, LiveItem, SoftwareSave, ReplaceRowsOf, TypeOK
  <2>3. Consumption(t)' = Consumption(t)
    BY <1>1, <2>1, <2>2 DEF Consumption
  <2> QED
    BY <2>1, <2>3 DEF LicenceRespected
<1> QED
  BY <1>2, <1>3

\* README.en.md's promise that over-allocation is rejected, for any number of
\* items and software, any quantities and any CPUs: no sequence of item saves,
\* software saves and deletes puts the items of a software over its quantity.
THEOREM LicencesAreRespected == Spec => []LicenceRespected
<1>1. Init => LicenceRespected
  BY DEF Init, LicenceRespected, LiveSoftware
<1>2. TypeOK /\ TypeOK' /\ LicenceRespected /\ [Next]_vars => LicenceRespected'
  <2> SUFFICES ASSUME TypeOK, TypeOK', LicenceRespected, [Next]_vars
               PROVE  LicenceRespected'
    OBVIOUS
  <2>1. CASE Next
    BY <2>1, StepIsSave, ItemSaveRespects, SoftwareSaveRespects
  <2>2. CASE UNCHANGED vars
    <3>1. \A s \in Software : Consumption(s)' = Consumption(s)
      BY <2>2 DEF vars, Consumption, InstalledOn, LiveItem
    <3> QED
      BY <2>2, <3>1 DEF vars, LicenceRespected, LiveSoftware
  <2> QED
    BY <2>1, <2>2
<1> QED
  BY <1>1, <1>2, TypeCorrect, PTL DEF Spec

\* A licence without a quantity has no installation: neither side can link to
\* it, and its quantity cannot be cleared while it is linked.
THEOREM UnquantifiedStaysUnlinked == Spec => []UnquantifiedIsUnlinked
<1>1. Init => UnquantifiedIsUnlinked
  BY DEF Init, UnquantifiedIsUnlinked, LiveSoftware
<1>2. TypeOK /\ TypeOK' /\ UnquantifiedIsUnlinked /\ [Next]_vars
          => UnquantifiedIsUnlinked'
  <2> SUFFICES ASSUME TypeOK, TypeOK', UnquantifiedIsUnlinked, [Next]_vars
               PROVE  UnquantifiedIsUnlinked'
    OBVIOUS
  <2> USE DEF UnquantifiedIsUnlinked, LiveSoftware, TypeOK
  <2>1. ASSUME NEW i \in Item, NEW m \in Metering,
               NEW links \in [Software -> Nat], ItemSave(i, m, links)
        PROVE  UnquantifiedIsUnlinked'
    BY <2>1 DEF ItemSave, ItemWithinLicences
  <2>2. ASSUME NEW s \in Software, NEW e \in Entitlement,
               NEW links \in [Item -> Nat], SoftwareSave(s, e, links)
        PROVE  UnquantifiedIsUnlinked'
    BY <2>2 DEF SoftwareSave, SoftwareWithinLicence, ReplaceRowsOf
  <2>3. CASE UNCHANGED vars
    BY <2>3 DEF vars
  <2> QED
    BY <2>1, <2>2, <2>3, StepIsSave
<1> QED
  BY <1>1, <1>2, TypeCorrect, PTL DEF Spec

\* An installation of cpu- or core-licensed software always has the counts it
\* is charged by, whichever side was saved last.
THEOREM InstallationsStayMetered == Spec => []InstallationsAreMetered
<1>1. Init => InstallationsAreMetered
  BY DEF Init, InstallationsAreMetered, LiveSoftware
<1>2. TypeOK /\ TypeOK' /\ InstallationsAreMetered /\ [Next]_vars
          => InstallationsAreMetered'
  <2> SUFFICES ASSUME TypeOK, TypeOK', InstallationsAreMetered, [Next]_vars
               PROVE  InstallationsAreMetered'
    OBVIOUS
  <2> USE DEF InstallationsAreMetered, LiveSoftware, LiveItem, InstalledOn, TypeOK
  <2>1. ASSUME NEW i \in Item, NEW m \in Metering,
               NEW links \in [Software -> Nat], ItemSave(i, m, links)
        PROVE  InstallationsAreMetered'
    BY <2>1 DEF ItemSave, ItemWithinLicences
  <2>2. ASSUME NEW s \in Software, NEW e \in Entitlement,
               NEW links \in [Item -> Nat], SoftwareSave(s, e, links)
        PROVE  InstallationsAreMetered'
    BY <2>2 DEF SoftwareSave, SoftwareWithinLicence, ReplaceRowsOf
  <2>3. CASE UNCHANGED vars
    BY <2>3 DEF vars
  <2> QED
    BY <2>1, <2>2, <2>3, StepIsSave
<1> QED
  BY <1>1, <1>2, TypeCorrect, PTL DEF Spec

-----------------------------------------------------------------------------
\* Every software's pool fits its capacity, in terms of LicencePool.
PoolsFit == \A s \in Software : Pools!Fits(s)

\* The seats of a live software's pool are those of its installations.
LEMMA OccupiedByInstallations ==
    ASSUME NEW s \in LiveSoftware
    PROVE  Pools!Occupied(s) = Seats(InstalledOn(s), [j \in Item |-> 1],
                                     entitlement[s].type, metering)
<1> DEFINE Held(i) == Seats({i}, [j \in Item |-> 1], entitlement[s].type, metering)
<1>1. s \in Software
  BY DEF LiveSoftware
<1>2. \A i \in Item : SeatsHeld[s][i] = IF i \in InstalledOn(s) THEN Held(i) ELSE {}
  BY <1>1 DEF SeatsHeld
<1>3. InstalledOn(s) \subseteq Item
  BY DEF InstalledOn, LiveItem
<1>4. UNION {SeatsHeld[s][i] : i \in Item} = UNION {Held(i) : i \in InstalledOn(s)}
  <2> HIDE DEF Held
  <2> QED
    BY <1>2, <1>3
<1>5. Seats(InstalledOn(s), [j \in Item |-> 1], entitlement[s].type, metering)
          = UNION {Held(i) : i \in InstalledOn(s)}
  BY DEF Seats
<1> QED
  BY <1>4, <1>5 DEF Pools!Occupied

\* The instance counts with the same Cardinality.
LEMMA SameCardinality == \A S : Pools!Cardinality(S) = Cardinality(S)
BY DEF Pools!Cardinality, Cardinality

\* What the ledger's invariants say of the pools it is seen as.
LEMMA LedgerFits ==
    TypeOK /\ LicenceRespected /\ UnquantifiedIsUnlinked => PoolsFit
<1> SUFFICES ASSUME TypeOK, LicenceRespected, UnquantifiedIsUnlinked,
                    NEW s \in Software
             PROVE  Pools!Fits(s)
  BY DEF PoolsFit
<1>1. CASE s \notin LiveSoftware
  <2>1. Pools!Occupied(s) = {}
    BY <1>1 DEF Pools!Occupied, SeatsHeld
  <2> QED
    BY <1>1, <2>1 DEF Pools!Fits, Capacity
<1>2. CASE s \in LiveSoftware /\ entitlement[s].qty = Null
  <2>1. InstalledOn(s) = {}
    BY <1>2 DEF UnquantifiedIsUnlinked, InstalledOn, LiveItem, TypeOK
  <2>2. Pools!Occupied(s) = {}
    BY <1>2, <2>1 DEF Pools!Occupied, SeatsHeld
  <2> QED
    BY <1>2, <2>2 DEF Pools!Fits, Capacity
<1>3. CASE s \in LiveSoftware /\ entitlement[s].qty # Null
  <2>1. Cardinality(Pools!Occupied(s)) <= entitlement[s].qty
    BY <1>3, OccupiedByInstallations DEF LicenceRespected, Consumption
  <2> QED
    BY <1>3, <2>1, SameCardinality DEF Pools!Fits, Capacity
<1> QED
  BY <1>1, <1>2, <1>3

\* The item forms and the software forms, each with its own check, implement
\* one pool of seats per software: whoever saves moves only their own seats.
THEOREM LedgerImplementsPools == Spec => ImplementsPools
<1>1. Init => Pools!Init
  <2> SUFFICES ASSUME Init
               PROVE  Pools!Init
    OBVIOUS
  <2>1. LiveSoftware = {}
    BY DEF Init, LiveSoftware
  <2>2. Capacity = [p \in Software |-> Null]
    BY <2>1 DEF Capacity
  <2>3. SeatsHeld = [p \in Software |-> [h \in Item |-> {}]]
    BY <2>1 DEF SeatsHeld
  <2> QED
    BY <2>2, <2>3 DEF Pools!Init
<1>2. TypeOK /\ TypeOK' /\ PoolsFit' /\ [Next]_vars => [Pools!Next]_(Pools!vars)
  <2> SUFFICES ASSUME TypeOK, TypeOK', PoolsFit', [Next]_vars
               PROVE  [Pools!Next]_(Pools!vars)
    OBVIOUS
  <2>1. ASSUME NEW i \in Item, NEW m \in Metering,
               NEW links \in [Software -> Nat], ItemSave(i, m, links)
        PROVE  Pools!HolderMoves(i)
    <3>1. LiveSoftware' = LiveSoftware /\ entitlement' = entitlement
      BY <2>1 DEF ItemSave, LiveSoftware
    <3>2. Capacity' = Capacity
      BY <3>1 DEF Capacity
    <3>3. ASSUME NEW p \in Software, NEW g \in Item \ {i}
          PROVE  SeatsHeld'[p][g] = SeatsHeld[p][g]
      <4>1. g \in InstalledOn(p)' <=> g \in InstalledOn(p)
        BY <2>1 DEF ItemSave, InstalledOn, LiveItem, TypeOK
      <4>2. metering'[g] = metering[g]
        BY <2>1 DEF ItemSave
      <4>3. Seats({g}, [j \in Item |-> 1], entitlement[p].type, metering')
                = Seats({g}, [j \in Item |-> 1], entitlement[p].type, metering)
        BY <4>2 DEF Seats
      <4> QED
        BY <3>1, <4>1, <4>3 DEF SeatsHeld
    <3> QED
      BY <3>2, <3>3 DEF Pools!HolderMoves
  <2>2. ASSUME NEW s \in Software, NEW e \in Entitlement,
               NEW links \in [Item -> Nat], SoftwareSave(s, e, links)
        PROVE  Pools!PoolRedefined(s)
    <3> SUFFICES ASSUME NEW q \in Software \ {s}
                 PROVE  Capacity'[q] = Capacity[q] /\ SeatsHeld'[q] = SeatsHeld[q]
      BY DEF Pools!PoolRedefined
    <3>1. /\ q \in LiveSoftware' <=> q \in LiveSoftware
          /\ entitlement'[q] = entitlement[q] /\ metering' = metering
      BY <2>2 DEF SoftwareSave, LiveSoftware
    <3>2. InstalledOn(q)' = InstalledOn(q)
      BY <2>2 DEF InstalledOn, LiveItem, SoftwareSave, ReplaceRowsOf, TypeOK
    <3>3. Capacity'[q] = Capacity[q]
      BY <3>1 DEF Capacity
    <3>4. SeatsHeld'[q] = SeatsHeld[q]
      BY <3>1, <3>2 DEF SeatsHeld
    <3> QED
      BY <3>3, <3>4
  <2>3. ASSUME UNCHANGED vars
        PROVE  UNCHANGED Pools!vars
    <3>1. LiveSoftware' = LiveSoftware /\ LiveItem' = LiveItem
      BY <2>3 DEF vars, LiveSoftware, LiveItem
    <3>2. \A s \in Software : InstalledOn(s)' = InstalledOn(s)
      BY <2>3, <3>1 DEF vars, InstalledOn
    <3>3. Capacity' = Capacity
      BY <2>3, <3>1 DEF vars, Capacity
    <3>4. SeatsHeld' = SeatsHeld
      BY <2>3, <3>1, <3>2 DEF vars, SeatsHeld
    <3> QED
      BY <3>3, <3>4 DEF Pools!vars
  <2> QED
    BY <2>1, <2>2, <2>3, StepIsSave DEF Pools!Next, PoolsFit
<1>3. Spec => []PoolsFit
  BY LedgerFits, TypeCorrect, LicencesAreRespected, UnquantifiedStaysUnlinked, PTL
<1> QED
  BY <1>1, <1>2, <1>3, TypeCorrect, PTL DEF Spec, ImplementsPools, Pools!Spec

=============================================================================
