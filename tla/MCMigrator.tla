----------------------------- MODULE MCMigrator -----------------------------
(* Three files: two statements, one, and an irreversible one. *)
EXTENDS Migrator

MCStatements == <<2, 1, 2>>
=============================================================================
