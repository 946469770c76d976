--------------------------- MODULE SchemaMigration ---------------------------
(***************************************************************************)
(* Open of store.go: the statements that bring a database of any release   *)
(* to the present schema each time the server starts.  Every statement is  *)
(* a transaction of its own, so that a server that is killed, or a         *)
(* statement that fails, leaves the database between two of them; the      *)
(* container is restarted and runs them all again.                         *)
(*                                                                         *)
(* A statement that finds its work done (CREATE ... IF NOT EXISTS, a       *)
(* "duplicate column name" that is ignored) changes nothing, and the order *)
(* of the tables and of the columns among themselves is left open.  The    *)
(* table clients stands for the two tables that get new columns.           *)
(***************************************************************************)
EXTENDS Naturals, FiniteSets

CONSTANTS
    SchemaTables,   \* the tables of schema.sql: "clients", "runs" and others
    Columns,        \* the columns that are added to existing tables
    SchemaColumns,  \* those of them that schema.sql has in its CREATE TABLE
    Runs,           \* rows of the table runs
    MaxFaults       \* bound: how often the server is killed or a statement fails

ASSUME SchemaAssumption ==
    /\ {"clients", "runs"} \subseteq SchemaTables
    /\ {"users", "runs_new"} \cap SchemaTables = {}
    /\ SchemaColumns \subseteq Columns
    /\ MaxFaults \in Nat

VARIABLES
    pc,         \* "down", the statement that Open is at, or "open"
    tables,     \* the tables of the database
    columns,    \* the columns of Columns that its tables have
    running,    \* does the CHECK of runs allow the status 'running'?
    rows,       \* the rows of runs and of runs_new
    recorded,   \* every run recorded so far
    faults      \* how many faults there were

db == <<tables, columns, running, rows, recorded>>
vars == <<pc, db, faults>>

Tables == SchemaTables \cup {"users", "runs_new"}

Statements == {"schema", "columns", "users", "check",
               "create", "copy", "drop", "rename", "rest"}

(* A new installation, or the database of an earlier release.              *)
Init ==
    /\ pc = "down" /\ faults = 0
    /\ \/ tables = {} /\ columns = {} /\ running = FALSE /\ recorded = {}
       \/ /\ tables \in SUBSET (Tables \ {"runs_new"})
          /\ {"clients", "runs"} \subseteq tables
          /\ columns \in SUBSET Columns
          /\ running \in BOOLEAN
          /\ recorded \in SUBSET Runs
    /\ rows = [t \in {"runs", "runs_new"} |-> IF t = "runs" THEN recorded ELSE {}]

(* One statement follows another.                                          *)
At(here, next) == pc = here /\ pc' = next /\ UNCHANGED faults

Fault == faults < MaxFaults /\ faults' = faults + 1

(* main starts, or the container is restarted (restart: unless-stopped).   *)
Start == At("down", "schema") /\ UNCHANGED db

(* A CREATE TABLE IF NOT EXISTS of schema.sql that finds no such table.    *)
CreateTable(t) ==
    /\ At("schema", "schema")
    /\ t \notin tables
    /\ tables' = tables \cup {t}
    /\ columns' = IF t = "clients" THEN SchemaColumns ELSE columns
    /\ running' = (running \/ t = "runs")
    /\ UNCHANGED <<rows, recorded>>

SchemaDone ==
    /\ At("schema", "columns")
    /\ SchemaTables \subseteq tables
    /\ UNCHANGED db

\* Mutant: the error "duplicate column name" is an error like any other.
AddColumnStrict(c) ==
    /\ At("columns", IF c \in columns THEN "down" ELSE "columns")
    /\ columns' = columns \cup {c}
    /\ UNCHANGED <<tables, running, rows, recorded>>

(* An ALTER TABLE ... ADD COLUMN for a column that is not there yet.       *)
AddColumn(c) ==
    /\ At("columns", "columns")
    /\ columns' = columns \cup {c}
    /\ columns' # columns
    /\ UNCHANGED <<tables, running, rows, recorded>>

\* Mutant: every error of ALTER TABLE is ignored.
ColumnsDoneAnyError == At("columns", "users") /\ UNCHANGED db

ColumnsDone ==
    /\ At("columns", "users")
    /\ columns = Columns
    /\ UNCHANGED db

CreateUsers ==
    /\ At("users", "check")
    /\ tables' = tables \cup {"users"}
    /\ UNCHANGED <<columns, running, rows, recorded>>

(* The DDL of runs is read from sqlite_master; an error of the read is     *)
(* ignored and looks like a table that needs the swap.                     *)
SwapDone == At("check", "rest") /\ running /\ UNCHANGED db
SwapNeeded == At("check", "create") /\ ~ running /\ UNCHANGED db
SwapUnread == pc = "check" /\ pc' = "create" /\ Fault /\ UNCHANGED db

(* The swap.  CREATE TABLE runs_new has no IF NOT EXISTS.                  *)
SwapCreate ==
    /\ At("create", "copy")
    /\ "runs_new" \notin tables
    /\ tables' = tables \cup {"runs_new"}
    /\ UNCHANGED <<columns, running, rows, recorded>>

SwapCreateFails == At("create", "down") /\ "runs_new" \in tables /\ UNCHANGED db

\* Mutant: the old rows are not copied.
SwapCopyForgotten == At("copy", "drop") /\ UNCHANGED db

SwapCopy ==
    /\ At("copy", "drop")
    /\ rows' = [rows EXCEPT !["runs_new"] = @ \cup rows["runs"]]
    /\ UNCHANGED <<tables, columns, running, recorded>>

SwapDrop ==
    /\ At("drop", "rename")
    /\ tables' = tables \ {"runs"}
    /\ running' = FALSE
    /\ rows' = [rows EXCEPT !["runs"] = {}]
    /\ UNCHANGED <<columns, recorded>>

\* Mutant: the new table keeps its name.
SwapRenameForgotten == At("rename", "rest") /\ UNCHANGED db

SwapRename ==
    /\ At("rename", "rest")
    /\ tables' = (tables \ {"runs_new"}) \cup {"runs"}
    /\ running' = TRUE
    /\ rows' = [rows EXCEPT !["runs"] = rows["runs_new"], !["runs_new"] = {}]
    /\ UNCHANGED <<columns, recorded>>

(* remotes and offsite_runs once more: schema.sql has made them.           *)
Opened == At("rest", "open") /\ UNCHANGED db

(* The open store records a run.                                           *)
RecordRun(r) ==
    /\ At("open", "open")
    /\ r \notin recorded
    /\ rows' = [rows EXCEPT !["runs"] = @ \cup {r}]
    /\ recorded' = recorded \cup {r}
    /\ UNCHANGED <<tables, columns, running>>

(* The server is killed, or a statement fails and main gives up.           *)
Stop ==
    /\ pc # "down" /\ pc' = "down"
    /\ Fault
    /\ UNCHANGED db

Open ==
    \/ Start
    \/ SchemaDone \/ ColumnsDone \/ CreateUsers
    \/ \E t \in SchemaTables : CreateTable(t)
    \/ \E c \in Columns : AddColumn(c)
    \/ SwapDone \/ SwapNeeded
    \/ SwapCreate \/ SwapCreateFails \/ SwapCopy \/ SwapDrop \/ SwapRename
    \/ Opened

Next == Open \/ (\E r \in Runs : RecordRun(r)) \/ SwapUnread \/ Stop

Spec == Init /\ [][Next]_vars

(* Open runs to its end, and the container is restarted each time.         *)
FairSpec == Spec /\ WF_vars(Open)

-----------------------------------------------------------------------------
(* Properties.                                                             *)

(* The type of the state; runs exists whenever a statement needs it        *)
(* (Open, store.go:32-140).                                                *)
TypeOK ==
    /\ pc \in Statements \cup {"down", "open"}
    /\ tables \in SUBSET Tables
    /\ columns \in SUBSET Columns
    /\ running \in BOOLEAN
    /\ rows \in [{"runs", "runs_new"} -> SUBSET Runs]
    /\ recorded \in SUBSET Runs
    /\ faults \in 0..MaxFaults
    /\ pc \in {"columns", "users", "check", "create", "copy", "drop", "rest", "open"}
         => "runs" \in tables

(* Wherever Open is cut off, and however often, no run that was recorded   *)
(* is destroyed: it is in runs or in a leftover runs_new (the swap,        *)
(* store.go:84-108).                                                       *)
NothingDestroyed ==
    \A r \in recorded : \E t \in tables \cap {"runs", "runs_new"} : r \in rows[t]

(* A store that opened has every table, every column and a table runs that *)
(* takes the status 'running', which RecordRun is about to write           *)
(* (Open, store.go:32-140).                                                *)
OpenMeansMigrated ==
    pc = "open" => /\ SchemaTables \cup {"users"} \subseteq tables
                   /\ columns = Columns
                   /\ running

(* A swap that was cut off between CREATE TABLE runs_new and DROP TABLE.   *)
SwapTorn == "runs_new" \in tables /\ "runs" \in tables /\ ~ running

(* Once nothing stops it any more the server opens its store, unless a     *)
(* torn swap makes every later start fail (store.go:85-104, main.go:33).   *)
OpensUnlessSwapTorn == <>[](pc = "open") \/ <>[]SwapTorn

(* What "the recommended swap pattern" (store.go:79-80) promises, and the  *)
(* statements outside a transaction do not keep: the open store shows      *)
(* every recorded run.                                                     *)
HistoryShown == pc = "open" => recorded \subseteq rows["runs"]

=============================================================================
