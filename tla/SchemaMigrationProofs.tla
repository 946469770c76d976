------------------------ MODULE SchemaMigrationProofs ------------------------
(***************************************************************************)
(* What SchemaMigration keeps for every schema, every set of columns and   *)
(* runs and any number of faults.  The inductive invariant says what each  *)
(* statement of Open has behind it: which tables exist, that the columns   *)
(* are all there, and where in the swap the rows are.                      *)
(***************************************************************************)
EXTENDS SchemaMigration, TLAPS

AfterSchema == {"columns", "users", "check", "create", "copy", "drop",
                "rename", "rest", "open"}
AfterColumns == AfterSchema \ {"columns"}
AfterUsers == AfterColumns \ {"users"}

(* The tables and columns that are there once their statements are done.   *)
Made ==
    /\ pc \in AfterSchema => SchemaTables \ {"runs"} \subseteq tables
    /\ pc \in AfterColumns => columns = Columns
    /\ pc \in AfterUsers => "users" \in tables
    /\ pc \in {"rest", "open"} => running

(* The rows in the course of the swap.                                     *)
Swapping ==
    /\ pc \in {"copy", "drop", "rename"} => "runs_new" \in tables
    /\ pc = "drop" => rows["runs"] \subseteq rows["runs_new"]
    /\ pc = "rename" => "runs" \notin tables
    /\ "runs" \notin tables => rows["runs"] = {}

IInv == TypeOK /\ Made /\ Swapping /\ NothingDestroyed

LEMMA InitIInv == Init => IInv
  <1> SUFFICES ASSUME Init PROVE IInv
      OBVIOUS
  <1>1. TypeOK
    <2>1. pc = "down" /\ faults \in 0..MaxFaults
      BY SchemaAssumption DEF Init
    <2>2. tables \in SUBSET Tables /\ columns \in SUBSET Columns
      BY DEF Init
    <2>3. running \in BOOLEAN
      BY DEF Init
    <2>4. recorded \in SUBSET Runs
      BY DEF Init
    <2>5. rows \in [{"runs", "runs_new"} -> SUBSET Runs]
      BY <2>4 DEF Init
    <2> QED  BY <2>1, <2>2, <2>3, <2>4, <2>5 DEF TypeOK
  <1>2. Made
    BY DEF Init, Made, AfterSchema, AfterColumns, AfterUsers
  <1>3. Swapping /\ NothingDestroyed
    BY DEF Init, Swapping, NothingDestroyed
  <1> QED  BY <1>1, <1>2, <1>3 DEF IInv

(* A step that leaves the database alone and goes on to a place that       *)
(* requires nothing new of it.                                             *)
LEMMA Moves ==
  ASSUME IInv, UNCHANGED db, faults' \in 0..MaxFaults,
         pc' \in (Statements \ {"copy", "drop", "rename"}) \cup {"down", "open"},
         pc' \in AfterSchema => SchemaTables \subseteq tables,
         pc' \in AfterColumns => columns = Columns,
         pc' \in AfterUsers => "users" \in tables,
         pc' \in {"rest", "open"} => running
  PROVE  IInv'
  <1>1. TypeOK'
    <2>1. pc' \in AfterSchema => "runs" \in tables'
      BY SchemaAssumption DEF db
    <2> QED  BY <2>1 DEF IInv, TypeOK, db, AfterSchema, Statements
  <1>2. Made'
    BY DEF Made, db
  <1>3. Swapping' /\ NothingDestroyed'
    BY DEF IInv, Swapping, NothingDestroyed, db
  <1> QED  BY <1>1, <1>2, <1>3 DEF IInv

(* What the places of Open have behind them, in the form Moves asks for.   *)
LEMMA Behind ==
  ASSUME IInv
  PROVE  /\ pc \in AfterSchema \ {"rename"} => SchemaTables \subseteq tables
         /\ pc \in AfterColumns => columns = Columns
         /\ pc \in AfterUsers => "users" \in tables
         /\ pc \in {"rest", "open"} => running
  BY SchemaAssumption
  DEF IInv, TypeOK, Made, AfterSchema, AfterColumns, AfterUsers

LEMMA FaultType == ASSUME IInv, Fault PROVE faults' \in 0..MaxFaults
  BY SchemaAssumption DEF IInv, TypeOK, Fault

LEMMA NextIInv == IInv /\ [Next]_vars => IInv'
  <1> SUFFICES ASSUME IInv, [Next]_vars PROVE IInv'
      OBVIOUS
  <1> USE Behind
  <1>0. faults \in 0..MaxFaults
    BY DEF IInv, TypeOK
  <1>1. CASE Start
    BY <1>0, <1>1, Moves DEF Start, At, Statements, AfterSchema, AfterColumns, AfterUsers
  <1>2. ASSUME NEW t \in SchemaTables, CreateTable(t) PROVE IInv'
    <2>1. TypeOK'
      BY <1>2, SchemaAssumption DEF IInv, TypeOK, CreateTable, At, Tables, Statements
    <2>2. Made'
      BY <1>2 DEF Made, CreateTable, At, AfterSchema, AfterColumns, AfterUsers
    <2>3. Swapping' /\ NothingDestroyed'
      BY <1>2 DEF IInv, Swapping, NothingDestroyed, CreateTable, At
    <2> QED  BY <2>1, <2>2, <2>3 DEF IInv
  <1>3. CASE SchemaDone
    BY <1>0, <1>3, Moves DEF SchemaDone, At, Statements, AfterSchema, AfterColumns, AfterUsers
  <1>4. ASSUME NEW c \in Columns, AddColumn(c) PROVE IInv'
    <2>1. TypeOK'
      BY <1>4 DEF IInv, TypeOK, AddColumn, At, Statements
    <2>2. Made'
      BY <1>4 DEF Made, AddColumn, At, AfterSchema, AfterColumns, AfterUsers
    <2>3. Swapping' /\ NothingDestroyed'
      BY <1>4 DEF IInv, Swapping, NothingDestroyed, AddColumn, At
    <2> QED  BY <2>1, <2>2, <2>3 DEF IInv
  <1>5. CASE ColumnsDone
    BY <1>0, <1>5, Moves DEF ColumnsDone, At, Statements, AfterSchema, AfterColumns, AfterUsers
  <1>6. CASE CreateUsers
    <2>1. TypeOK'
      BY <1>6 DEF IInv, TypeOK, CreateUsers, At, Tables, Statements
    <2>2. Made'
      BY <1>6 DEF Made, CreateUsers, At, AfterSchema, AfterColumns, AfterUsers
    <2>3. Swapping' /\ NothingDestroyed'
      BY <1>6 DEF IInv, Swapping, NothingDestroyed, CreateUsers, At
    <2> QED  BY <2>1, <2>2, <2>3 DEF IInv
  <1>7. CASE SwapDone
    BY <1>0, <1>7, Moves DEF SwapDone, At, Statements, AfterSchema, AfterColumns, AfterUsers
  <1>8. CASE SwapNeeded
    BY <1>0, <1>8, Moves DEF SwapNeeded, At, Statements, AfterSchema, AfterColumns, AfterUsers
  <1>9. CASE SwapUnread
    BY <1>9, FaultType, Moves DEF SwapUnread, Statements, AfterSchema, AfterColumns, AfterUsers
  <1>10. CASE SwapCreate
    <2>1. TypeOK'
      BY <1>10 DEF IInv, TypeOK, SwapCreate, At, Tables, Statements
    <2>2. Made'
      BY <1>10 DEF Made, SwapCreate, At, AfterSchema, AfterColumns, AfterUsers
    <2>3. Swapping' /\ NothingDestroyed'
      BY <1>10 DEF IInv, Swapping, NothingDestroyed, SwapCreate, At
    <2> QED  BY <2>1, <2>2, <2>3 DEF IInv
  <1>11. CASE SwapCreateFails
    BY <1>0, <1>11, Moves DEF SwapCreateFails, At, Statements, AfterSchema, AfterColumns, AfterUsers
  <1>12. CASE SwapCopy
    <2>0. rows \in [{"runs", "runs_new"} -> SUBSET Runs]
      BY DEF IInv, TypeOK
    <2>1. TypeOK'
      BY <1>12, <2>0 DEF IInv, TypeOK, SwapCopy, At, Statements
    <2>2. Made'
      BY <1>12 DEF Made, SwapCopy, At, AfterSchema, AfterColumns, AfterUsers
    <2>3. Swapping'
      BY <1>12, <2>0 DEF IInv, Swapping, SwapCopy, At
    <2>4. NothingDestroyed'
      <3>1. \A t \in {"runs", "runs_new"} : rows[t] \subseteq rows'[t]
        BY <1>12, <2>0 DEF SwapCopy
      <3> QED  BY <1>12, <3>1 DEF IInv, NothingDestroyed, SwapCopy
    <2> QED  BY <2>1, <2>2, <2>3, <2>4 DEF IInv
  <1>13. CASE SwapDrop
    <2>0. rows \in [{"runs", "runs_new"} -> SUBSET Runs]
      BY DEF IInv, TypeOK
    <2>1. TypeOK'
      BY <1>13, <2>0 DEF IInv, TypeOK, SwapDrop, At, Statements
    <2>2. Made'
      BY <1>13 DEF Made, SwapDrop, At, AfterSchema, AfterColumns, AfterUsers
    <2>3. Swapping'
      BY <1>13, <2>0 DEF IInv, Swapping, SwapDrop, At
    <2>4. NothingDestroyed'
      <3>1. \A r \in recorded : r \in rows["runs_new"]
        BY <1>13 DEF IInv, NothingDestroyed, Swapping, SwapDrop, At
      <3>2. rows'["runs_new"] = rows["runs_new"] /\ "runs_new" \in tables'
        BY <1>13, <2>0 DEF IInv, Swapping, SwapDrop, At
      <3> QED  BY <1>13, <3>1, <3>2 DEF NothingDestroyed, SwapDrop
    <2> QED  BY <2>1, <2>2, <2>3, <2>4 DEF IInv
  <1>14. CASE SwapRename
    <2>0. rows \in [{"runs", "runs_new"} -> SUBSET Runs]
      BY DEF IInv, TypeOK
    <2>1. TypeOK'
      BY <1>14, <2>0, SchemaAssumption DEF IInv, TypeOK, SwapRename, At, Statements, Tables
    <2>2. Made'
      BY <1>14, SchemaAssumption DEF IInv, Made, SwapRename, At, AfterSchema, AfterColumns, AfterUsers
    <2>3. Swapping'
      BY <1>14 DEF Swapping, SwapRename, At
    <2>4. NothingDestroyed'
      <3>1. \A r \in recorded : r \in rows["runs_new"]
        BY <1>14 DEF IInv, NothingDestroyed, Swapping, SwapRename, At
      <3> QED  BY <1>14, <2>0, <3>1 DEF NothingDestroyed, SwapRename
    <2> QED  BY <2>1, <2>2, <2>3, <2>4 DEF IInv
  <1>15. CASE Opened
    BY <1>0, <1>15, Moves DEF Opened, At, Statements, AfterSchema, AfterColumns, AfterUsers
  <1>16. ASSUME NEW r \in Runs, RecordRun(r) PROVE IInv'
    <2>0. rows \in [{"runs", "runs_new"} -> SUBSET Runs]
      BY DEF IInv, TypeOK
    <2>1. TypeOK'
      BY <1>16, <2>0 DEF IInv, TypeOK, RecordRun, At, Statements
    <2>2. Made'
      BY <1>16 DEF Made, RecordRun, At, AfterSchema, AfterColumns, AfterUsers
    <2>3. Swapping'
      BY <1>16 DEF IInv, TypeOK, Swapping, RecordRun, At
    <2>4. NothingDestroyed'
      <3>1. "runs" \in tables
        BY <1>16 DEF IInv, TypeOK, RecordRun, At
      <3>2. r \in rows'["runs"] /\ \A t \in {"runs", "runs_new"} : rows[t] \subseteq rows'[t]
        BY <1>16, <2>0 DEF RecordRun
      <3> QED  BY <1>16, <3>1, <3>2 DEF IInv, NothingDestroyed, RecordRun
    <2> QED  BY <2>1, <2>2, <2>3, <2>4 DEF IInv
  <1>17. CASE Stop
    BY <1>17, FaultType, Moves DEF Stop, Statements, AfterSchema, AfterColumns, AfterUsers
  <1>18. CASE UNCHANGED vars
    BY <1>18 DEF IInv, TypeOK, Made, Swapping, NothingDestroyed, vars, db
  <1> QED
    BY <1>1, <1>2, <1>3, <1>4, <1>5, <1>6, <1>7, <1>8, <1>9, <1>10, <1>11,
       <1>12, <1>13, <1>14, <1>15, <1>16, <1>17, <1>18 DEF Next, Open

LEMMA Invariant == Spec => []IInv
  <1> QED  BY InitIInv, NextIInv, PTL DEF Spec

(* The type of the state, through any number of faults (Open,              *)
(* store.go:32-140).                                                       *)
THEOREM TypeCorrect == Spec => []TypeOK
  <1>1. IInv => TypeOK
    BY DEF IInv
  <1> QED  BY <1>1, Invariant, PTL

(* Wherever Open is cut off, every recorded run is still in runs or in a   *)
(* leftover runs_new (the swap, store.go:84-108).                          *)
THEOREM NothingIsDestroyed == Spec => []NothingDestroyed
  <1>1. IInv => NothingDestroyed
    BY DEF IInv
  <1> QED  BY <1>1, Invariant, PTL

(* A store that opened has the whole schema (Open, store.go:32-140).       *)
THEOREM OpenIsMigrated == Spec => []OpenMeansMigrated
  <1>1. IInv => OpenMeansMigrated
    BY Behind DEF OpenMeansMigrated, AfterSchema, AfterColumns, AfterUsers
  <1> QED  BY <1>1, Invariant, PTL

=============================================================================
