--------------------------- MODULE MCDatabaseWriter ---------------------------
(* The instances of DatabaseWriter that are model-checked.                    *)
EXTENDS DatabaseWriter
=============================================================================
