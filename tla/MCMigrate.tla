------------------------------- MODULE MCMigrate -------------------------------
(***************************************************************************)
(* The six migrations of the repository.                                   *)
(***************************************************************************)
EXTENDS Migrate, MigrationFiles

=============================================================================
