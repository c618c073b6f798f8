--------------------------- MODULE SchemaVersions ---------------------------
(***************************************************************************)
(* What scripts/migrate.py promises of the database: the tracking table    *)
(* holds a prefix of the files, the schema is the one that prefix makes,   *)
(* and a version is only ever followed by the next one.                    *)
(***************************************************************************)
EXTENDS MigrationFiles

CONSTANT ByHand   \* files applied directly, before the runner existed

VARIABLES tracked, schema

\* The files up to ByHand are no news to the schema.
Version(n) == IF n > ByHand THEN n ELSE ByHand

SchemaInit == tracked = {} /\ schema = SchemaAt(ByHand)

Advance ==
  \E f \in Files :
    /\ tracked = 1..(f - 1)
    /\ tracked' = 1..f
    /\ schema' = SchemaAt(Version(f))

VersionsSpec == SchemaInit /\ [][Advance]_<<tracked, schema>>

=============================================================================
