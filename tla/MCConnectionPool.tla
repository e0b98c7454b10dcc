--------------------------- MODULE MCConnectionPool ---------------------------
EXTENDS ConnectionPool

CONSTANTS c1, c2, c3

MCCaller == {c1, c2, c3}
=============================================================================
