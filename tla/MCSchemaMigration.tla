-------------------------- MODULE MCSchemaMigration --------------------------
(* Values of the constants of SchemaMigration for TLC.                     *)
EXTENDS SchemaMigration

MCSchemaTables == {"clients", "runs", "remotes"}
MCColumns == {"version", "checksum", "cron"}
MCSchemaColumns == {"version"}
=============================================================================
