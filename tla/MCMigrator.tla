----------------------------- MODULE MCMigrator -----------------------------
(* TLC instance of Migrator: a file of each sort, in the order in which    *)
(* they come in migrations/ (0001, 0002, 0005, 0008, 0009).                *)
EXTENDS Migrator

MCColumns == <<0, 1, 2, 0, 0>>
=============================================================================
