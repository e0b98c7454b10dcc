----------------------------- MODULE LicencePool -----------------------------
(***************************************************************************)
(* What the licence ledger promises (README.en.md, Software licences):     *)
(* each pool of seats fits its capacity after every step, a step is either *)
(* one holder changing what it occupies or one pool being redefined, and   *)
(* nobody else's seats move in it.  How a seat count is computed, and which *)
(* of the two writers stores it, is the implementation's business.         *)
(***************************************************************************)
EXTENDS Naturals, FiniteSets

CONSTANTS Holder, Pool, NoCapacity

VARIABLES
    capacity,  \* how many seats each pool has, NoCapacity if undefined
    seats      \* seats[p][h]: the set of seats of p that h occupies

vars == <<capacity, seats>>

Occupied(p) == UNION {seats[p][h] : h \in Holder}

Fits(p) ==
    IF capacity[p] = NoCapacity
    THEN Occupied(p) = {}
    ELSE Cardinality(Occupied(p)) <= capacity[p]

Init ==
    /\ capacity = [p \in Pool |-> NoCapacity]
    /\ seats = [p \in Pool |-> [h \in Holder |-> {}]]

HolderMoves(h) ==
    /\ capacity' = capacity
    /\ \A p \in Pool, g \in Holder \ {h} : seats'[p][g] = seats[p][g]

PoolRedefined(p) ==
    \A q \in Pool \ {p} : capacity'[q] = capacity[q] /\ seats'[q] = seats[q]

Next ==
    /\ \/ \E h \in Holder : HolderMoves(h)
       \/ \E p \in Pool : PoolRedefined(p)
    /\ \A p \in Pool : Fits(p)'

Spec == Init /\ [][Next]_vars
=============================================================================
