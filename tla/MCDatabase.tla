----------------------------- MODULE MCDatabase -----------------------------
(***************************************************************************)
(* What is kept for good: the tables of a database that migrations change, *)
(* the statements and transactions a program sends, and the files of the   *)
(* package registry.  A statement of a migration is one call of Db.exec;   *)
(* which of them are in force after a call that failed is all the          *)
(* migrator's model needs of it.  So the three share no state: a behaviour *)
(* is one of the migrator, of a handle, or of the registry.                *)
(***************************************************************************)
EXTENDS MCMigrator, Db, MCRegistry

CONSTANTS w1, w2

VARIABLE part   \* the part that runs

DefWork == {w1, w2}

(* The directory of a migrator that rests does not matter: it is empty. *)
DatabaseInit == /\ part \in {"migrator", "handle", "registry"}
                /\ Init
                /\ DbInit
                /\ RegistryInit
                /\ part # "migrator" => disk = {}

DatabaseNext ==
  /\ UNCHANGED part
  /\ \/ part = "migrator" /\ Next /\ UNCHANGED <<dbVars, registryVars>>
     \/ part = "handle" /\ DbNext /\ UNCHANGED <<vars, registryVars>>
     \/ part = "registry" /\ RegistryNext /\ UNCHANGED <<vars, dbVars>>

DatabaseSpec ==
  DatabaseInit /\ [][DatabaseNext]_<<vars, dbVars, registryVars, part>>

=============================================================================
