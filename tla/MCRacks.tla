-------------------------------- MODULE MCRacks --------------------------------
(***************************************************************************)
(* Racks, and the pool that the save of a rack gets stuck in, one at a     *)
(* time.  No symmetry, because of the liveness property of the pool.       *)
(***************************************************************************)
EXTENDS RackPlacement, ConnectionPool

CONSTANTS i1, i2, r1, r2, c1, c2, c3

VARIABLE part

MCItem == {i1, i2}
MCRack == {r1, r2}
MCCaller == {c1, c2, c3}

-----------------------------------------------------------------------------
RacksInit ==
    /\ part \in {"racks", "pool"}
    /\ Init /\ PoolInit

\* Two callers do everything, the third only asks for statements.
PoolPart == PoolNext /\ call'[c3].work = "statements"

RacksNext ==
    /\ UNCHANGED part
    /\ \/ part = "racks" /\ Next /\ UNCHANGED poolVars
       \/ part = "pool" /\ PoolPart /\ UNCHANGED vars

\* Where the pool stands still no call is under way, and fairness asks for nothing.
RacksSpec ==
    RacksInit
    /\ [][RacksNext]_<<part, vars, poolVars>>
    /\ PoolFairness
=============================================================================
