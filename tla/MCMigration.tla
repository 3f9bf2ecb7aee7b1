----------------------------- MODULE MCMigration -----------------------------
(* The releases come from the configuration alone.                          *)
EXTENDS Migration
=============================================================================
