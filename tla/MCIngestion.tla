---------------------------- MODULE MCIngestion ----------------------------
(***************************************************************************)
(* Ingestion for TLC: three submissions of two eventIds, once under a      *)
(* collation that keeps them apart and once under one that does not.       *)
(***************************************************************************)
EXTENDS IngestionInvariants

CONSTANTS lower, upper  \* two eventIds that differ in case only

\* Comparison by bytes: SQLite, which the tests run on.
Binary == [e \in EventIds |-> e]

\* utf8mb4_unicode_ci, the collation the migration gives the MySQL tables.
CaseInsensitive == [e \in EventIds |-> lower]
=============================================================================
