-------------------------- MODULE SchemaMigration --------------------------
(***************************************************************************)
(* Store.__enter__ and _create_schema (store.py): any number of processes  *)
(* open the same .cccr/findings.db for writing, create the tables that are *)
(* missing, add the columns a database of an older release lacks, record   *)
(* the schema version, and then write.  Each may die between two steps.    *)
(*                                                                         *)
(* sqlite3 commits a schema statement at once, unless a transaction is     *)
(* open, and opens one before the first INSERT or DELETE: the steps before *)
(* the first write of meta are durable and visible one at a time.          *)
(***************************************************************************)
EXTENDS Naturals, Sequences

CONSTANTS
  Dbs,       \* the project directories that may hold a database
  Openers,   \* the processes that open databases for writing
  NoOpener,  \* owner of a free write lock
  Rows       \* what index runs may store

ASSUME OpenersAssumption == NoOpener \notin Openers

VARIABLES
  db,    \* db[b]: the committed database of directory b
  txn,   \* txn[b]: the same as the owner of its write lock sees it
  lock,  \* lock[b]: the process that holds its write lock
  op     \* op[o]: what process o is doing

storeVars == <<db, txn, lock, op>>

\* The tables whose columns changed between releases, in the order the script
\* creates them.
Script == <<"meta", "findings", "endpoints", "modules">>
Tables == {Script[i] : i \in 1..Len(Script)}

\* The column of release 1 that release 2 drops, then the columns added since,
\* in the order they are added.  Each stands for those that one method adds to
\* one table.
Legacy    == "findings.embedding"
Additions == <<"findings.module", "endpoints.module", "endpoints.message_type",
               "modules.rest_controllers">>
Added     == {Additions[i] : i \in 1..Len(Additions)}
Columns   == Added \cup {Legacy}

Versions    == {"none", "old", "current"}            \* meta.schema_version
Inventories == {"never", "unsigned", "old", "current"} \* meta.endpoint_inventory_*

Databases == [file : BOOLEAN, tables : SUBSET Tables,
              columns : SUBSET Columns, version : Versions,
              inventory : Inventories, rows : SUBSET Rows]

NoDatabase == [file |-> FALSE, tables |-> {}, columns |-> {}, version |-> "none",
               inventory |-> "never", rows |-> {}]

\* What the releases of the program left behind: before endpoints, before
\* modules were attributed, before message types, and this one.
Left(tables, columns, version, inventory) ==
  [file : {TRUE}, tables : {tables}, columns : {columns}, version : {version},
   inventory : {inventory}, rows : {{}}]
Releases ==
  UNION {Left({"meta", "findings"}, {Legacy}, "old", "never"),
         Left(Tables \ {"modules"}, {}, "old", "unsigned"),
         Left(Tables \ {"modules"}, {"findings.module", "endpoints.module"}, "old", "old"),
         Left(Tables, Added \ {"modules.rest_controllers"}, "old", "old"),
         Left(Tables, Added, "current", "old")}

\* The columns a new table is created with: the script has every column but
\* those of modules that later releases added.
CreatedWith(t) == CASE t = "findings"  -> {"findings.module"}
                    [] t = "endpoints" -> {"endpoints.module", "endpoints.message_type"}
                    [] OTHER           -> {}

Phases == {"idle", "script", "legacy", "drop", "forget", "check", "alter",
           "version", "commit", "open"}

Idle == [pc |-> "idle", on |-> NoOpener, step |-> 1]

\* The database on which o works, with what o has not committed yet.
View(o) == IF lock[op[o].on] = o THEN txn[op[o].on] ELSE db[op[o].on]

CanWrite(o) == lock[op[o].on] \in {NoOpener, o}

\* A schema statement of o turns the database into d: it is committed with it,
\* unless o is in a transaction.
Execute(o, d) ==
  LET b == op[o].on IN
  /\ CanWrite(o)
  /\ txn' = [txn EXCEPT ![b] = d]
  /\ db' = IF lock[b] = o THEN db ELSE [db EXCEPT ![b] = d]
  /\ UNCHANGED lock

\* The same for an INSERT or a DELETE, which takes the write lock.
ExecuteInTransaction(o, d) ==
  LET b == op[o].on IN
  /\ CanWrite(o)
  /\ lock' = [lock EXCEPT ![b] = o]
  /\ txn' = [txn EXCEPT ![b] = d]
  /\ UNCHANGED db

Goto(o, pc) == op' = [op EXCEPT ![o].pc = pc]

----------------------------------------------------------------------------
(* Store.__enter__, for writing. *)

\* sqlite3.connect creates the file.
Open(o) ==
  /\ op[o].pc = "idle"
  /\ \E b \in Dbs :
       /\ op' = [op EXCEPT ![o] = [pc |-> "script", on |-> b, step |-> 1]]
       /\ db' = [db EXCEPT ![b].file = TRUE]
       /\ txn' = [txn EXCEPT ![b].file = TRUE]
  /\ UNCHANGED lock

\* The next CREATE TABLE IF NOT EXISTS of executescript that finds none.
CreateTable(o) ==
  LET d       == View(o)
      missing == {i \in 1..Len(Script) : Script[i] \notin d.tables}
  IN /\ op[o].pc = "script"
     /\ \E i \in missing :
          /\ \A j \in missing : i <= j
          /\ Execute(o, [d EXCEPT !.tables = @ \cup {Script[i]},
                                  !.columns = @ \cup CreatedWith(Script[i])])
     /\ UNCHANGED op

\* Mutant: the version is recorded as soon as the tables exist.
EndScriptVersioned(o) ==
  /\ op[o].pc = "script"
  /\ Tables \subseteq View(o).tables
  /\ Execute(o, [View(o) EXCEPT !.version = "current"])
  /\ Goto(o, "legacy")

EndScript(o) ==
  /\ op[o].pc = "script"
  /\ Tables \subseteq View(o).tables
  /\ Goto(o, "legacy")
  /\ UNCHANGED <<db, txn, lock>>

\* _migrate_legacy_embeddings reads the columns of findings ...
CheckLegacy(o) ==
  /\ op[o].pc = "legacy"
  /\ Goto(o, IF Legacy \in View(o).columns THEN "drop" ELSE "check")
  /\ UNCHANGED <<db, txn, lock>>

\* ... drops the column ...
DropLegacy(o) ==
  LET d == View(o) IN
  /\ op[o].pc = "drop"
  /\ Legacy \in d.columns
  /\ Execute(o, [d EXCEPT !.columns = @ \ {Legacy}])
  /\ Goto(o, "forget")

\* ... and opens a transaction, in which the rest of the migration runs: it
\* deletes the keys of the old embeddings and sets the version.
ForgetSignature(o) ==
  /\ op[o].pc = "forget"
  /\ ExecuteInTransaction(o, [View(o) EXCEPT !.version = "current"])
  /\ Goto(o, "check")

\* PRAGMA table_info tells which column is missing next ...
CheckColumns(o) ==
  LET missing == {i \in op[o].step..Len(Additions) : Additions[i] \notin View(o).columns}
  IN /\ op[o].pc = "check"
     /\ op' = IF missing = {} THEN [op EXCEPT ![o].pc = "version"]
              ELSE [op EXCEPT ![o].pc = "alter",
                              ![o].step = CHOOSE i \in missing : \A j \in missing : i <= j]
     /\ UNCHANGED <<db, txn, lock>>

\* ... and ALTER TABLE ADD COLUMN fails if another process has added it since.
AddColumn(o) ==
  LET d == View(o)
      c == Additions[op[o].step]
  IN /\ op[o].pc = "alter"
     /\ c \notin d.columns
     /\ Execute(o, [d EXCEPT !.columns = @ \cup {c}])
     /\ op' = [op EXCEPT ![o].pc = "check", ![o].step = @ + 1]

SetVersion(o) ==
  LET d == View(o) IN
  /\ op[o].pc = "version"
  /\ IF d.version = "current"
     THEN UNCHANGED <<db, txn, lock>>
     ELSE ExecuteInTransaction(o, [d EXCEPT !.version = "current"])
  /\ Goto(o, "commit")

CommitSchema(o) ==
  LET b == op[o].on IN
  /\ op[o].pc = "commit"
  /\ db' = IF lock[b] = o THEN [db EXCEPT ![b] = txn[b]] ELSE db
  /\ lock' = IF lock[b] = o THEN [lock EXCEPT ![b] = NoOpener] ELSE lock
  /\ Goto(o, "open")
  /\ UNCHANGED txn

\* What an index run publishes when it commits (the steps of the run are those
\* of Indexer): rows, and the signature of the inventory.
Publish(o, rows) ==
  LET b == op[o].on
      d == [db[b] EXCEPT !.rows = rows, !.inventory = "current"]
  IN /\ op[o].pc = "open"
     /\ lock[b] = NoOpener
     /\ db' = [db EXCEPT ![b] = d]
     /\ txn' = [txn EXCEPT ![b] = d]
     /\ op' = [op EXCEPT ![o] = Idle]
     /\ UNCHANGED lock

\* An exception or the death of the process: the open transaction is rolled
\* back, the statements before it stay.  An empty or half-made database is
\* left behind for the next opener.
Abort(o) ==
  LET b == op[o].on IN
  /\ op[o].pc # "idle"
  /\ txn' = IF lock[b] = o THEN [txn EXCEPT ![b] = db[b]] ELSE txn
  /\ lock' = IF lock[b] = o THEN [lock EXCEPT ![b] = NoOpener] ELSE lock
  /\ op' = [op EXCEPT ![o] = Idle]
  /\ UNCHANGED db

\* Mutant: only the lock is given up on.
RejectedByLock(o) ==
  /\ op[o].pc \in {"script", "drop", "forget", "alter", "version", "open"}
  /\ ~CanWrite(o)
  /\ Abort(o)

\* A schema statement that no longer applies, or waits too long for the lock,
\* raises sqlite3.OperationalError.
Rejected(o) ==
  /\ op[o].pc # "idle"
  /\ \/ op[o].pc = "drop"  /\ Legacy \notin View(o).columns
     \/ op[o].pc = "alter" /\ Additions[op[o].step] \in View(o).columns
     \/ op[o].pc \in {"script", "drop", "forget", "alter", "version", "open"}
        /\ ~CanWrite(o)
  /\ Abort(o)

Migrate(o) ==
  \/ CreateTable(o) \/ EndScript(o) \/ CheckLegacy(o) \/ DropLegacy(o)
  \/ ForgetSignature(o) \/ CheckColumns(o) \/ AddColumn(o) \/ SetVersion(o)
  \/ CommitSchema(o)

----------------------------------------------------------------------------

StoreTypeOK ==
  /\ db \in [Dbs -> Databases]
  /\ txn \in [Dbs -> Databases]
  /\ lock \in [Dbs -> Openers \cup {NoOpener}]
  /\ op \in [Openers -> [pc : Phases, on : Dbs \cup {NoOpener}, step : Nat]]

Complete(d) == /\ Added \subseteq d.columns
               /\ Legacy \notin d.columns
               /\ Tables \subseteq d.tables

\* A database that says its schema is current has every table and column of the
\* current release, and none of release 1.  A read-only reader looks at nothing
\* else (store.py:124-135), and never at a database half way through a
\* migration that another process is running, or died in.
AcceptedMeansComplete == \A b \in Dbs : db[b].version = "current" => Complete(db[b])
=============================================================================
