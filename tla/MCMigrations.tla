---------------------------- MODULE MCMigrations ----------------------------
(* Small sets of migration runners for TLC. *)
EXTENDS Migrations, TLC
Symmetry == Permutations(Runner)
=============================================================================
