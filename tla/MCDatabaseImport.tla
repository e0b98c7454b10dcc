-------------------------- MODULE MCDatabaseImport --------------------------
EXTENDS DatabaseImport

CONSTANTS d1, d2

MCDoc == {d1, d2}

\* A bare database that is empty or names an upload it does not bring, an
\* archive with its upload, and one with an upload no row names.
MCUpload ==
    {[rows |-> {}, files |-> {}], [rows |-> {d1}, files |-> {}],
     [rows |-> {d1}, files |-> {d1}], [rows |-> {}, files |-> {d1}]}
=============================================================================
