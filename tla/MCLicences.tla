----------------------------- MODULE MCLicences -----------------------------
EXTENDS Licences, TLC

CONSTANTS i1, i2, s1, s2, t1, t2

MCItem == {i1, i2}
MCSoftware == {s1, s2}
MCTitle == {t1, t2}
MCOneSoftware == {s1}
MCOneTitle == {t1}
MCPairSymmetry == Permutations(MCItem) \cup Permutations(MCSoftware)
                      \cup Permutations(MCTitle)
MCItemSymmetry == Permutations(MCItem)
=============================================================================
