----------------------------- MODULE Connection -----------------------------
(***************************************************************************)
(* The one sqlite3 connection (the global db of database_sqlite.c) that    *)
(* every worker thread of the server uses.  The connection is serialized:  *)
(* each SQL statement is atomic.  Everything around the statement belongs  *)
(* to the connection and not to the thread that asked for it: whether a    *)
(* transaction is open, sqlite3_changes and sqlite3_last_insert_rowid.     *)
(*                                                                         *)
(* A module that EXTENDS this one decides what the tables are.             *)
(***************************************************************************)
EXTENDS Integers

CONSTANTS
  Faults     \* TRUE iff a statement may fail (SQLITE_BUSY, SQLITE_FULL, ...)

ASSUME FaultsAssumption == Faults \in BOOLEAN

VARIABLES
  tables,    \* the rows as the connection sees them, uncommitted ones included
  durable,   \* the rows a restart finds: what has been committed
  inTx,      \* a transaction is open on the connection
  changes,   \* sqlite3_changes: rows touched by the latest write, 0 or 1
  lastRow    \* sqlite3_last_insert_rowid of the latest insert

connection == <<tables, durable, inTx, changes, lastRow>>

(* The rowid of a row in a table whose ids nobody reads back. *)
OtherRow == 0

(* The results a statement can have: TRUE stands for SQLITE_DONE. *)
Outcomes == IF Faults THEN BOOLEAN ELSE {TRUE}

ConnectionInit(rows) ==
  /\ tables = rows
  /\ durable = rows
  /\ inTx = FALSE
  /\ changes = 0
  /\ lastRow = OtherRow

(* A statement that leaves rows in the tables: on its own it is durable at *)
(* once, inside a transaction (anybody's) it waits for the COMMIT.         *)
Store(rows) ==
  /\ tables' = rows
  /\ durable' = IF inTx THEN durable ELSE rows
  /\ UNCHANGED inTx

(* Mutant of Update: counts like sqlite3_total_changes. *)
UpdateTotal(rows, n) ==
  /\ Store(rows)
  /\ changes' = changes + n
  /\ UNCHANGED lastRow

(* UPDATE or DELETE that touched n rows. *)
Update(rows, n) ==
  /\ Store(rows)
  /\ changes' = n
  /\ UNCHANGED lastRow

(* INSERT of the row with this rowid. *)
Insert(rows, rowid) ==
  /\ Store(rows)
  /\ changes' = 1
  /\ lastRow' = rowid

(* db_begin_transaction: BEGIN IMMEDIATE fails inside a transaction. *)
Begin ==
  /\ ~inTx
  /\ inTx' = TRUE
  /\ UNCHANGED <<tables, durable, changes, lastRow>>

BeginRefused ==
  /\ inTx \/ Faults
  /\ UNCHANGED connection

(* db_commit_transaction: COMMIT fails without a transaction, and commits  *)
(* the open one whoever began it.                                          *)
Commit ==
  /\ inTx
  /\ inTx' = FALSE
  /\ durable' = tables
  /\ UNCHANGED <<tables, changes, lastRow>>

CommitRefused ==
  /\ ~inTx \/ Faults
  /\ UNCHANGED connection

(* db_rollback_transaction: undoes the open transaction, whoever began it; *)
(* without one it is an error that no caller looks at.                     *)
Rollback ==
  /\ tables' = IF inTx THEN durable ELSE tables
  /\ inTx' = FALSE
  /\ UNCHANGED <<durable, changes, lastRow>>

(* The process dies and is started again: db_init opens the file afresh.   *)
Reopen ==
  /\ tables' = durable
  /\ inTx' = FALSE
  /\ changes' = 0
  /\ lastRow' = OtherRow
  /\ UNCHANGED durable
=============================================================================
