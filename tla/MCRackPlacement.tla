-------------------------- MODULE MCRackPlacement ---------------------------
EXTENDS RackPlacement, TLC

CONSTANTS i1, i2, r1, r2

MCItem == {i1, i2}
MCRack == {r1, r2}
MCSymmetry == Permutations(MCItem) \cup Permutations(MCRack)
=============================================================================
