---------------------------- MODULE MCMigrations ----------------------------
(***************************************************************************)
(* Two runners of the ten files, two applications.                         *)
(***************************************************************************)
EXTENDS Migrations, TLC

CONSTANTS r1, r2, a1, a2

=============================================================================
