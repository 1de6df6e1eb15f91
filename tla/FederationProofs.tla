-------------------------- MODULE FederationProofs --------------------------
(***************************************************************************)
(* What a federation may rely on, whatever the number of databases, of     *)
(* processes that open them and of services, proved of Federation.         *)
(*                                                                         *)
(* The argument about a database is that its tables and columns only grow, *)
(* but for the column of release 1, which never comes back (Extends): what *)
(* a process has seen stays true, and when it sets the version it has seen *)
(* everything that the version promises (Reached).                         *)
(***************************************************************************)
EXTENDS Federation, TLAPS

\* d has what c has, of the current release.
Extends(c, d) ==
  /\ c.tables \subseteq d.tables
  /\ c.columns \ {Legacy} \subseteq d.columns
  /\ Legacy \in d.columns => Legacy \in c.columns

LEMMA ExtendsItself == ASSUME NEW c PROVE Extends(c, c)
  BY DEF Extends

LEMMA ExtendsMore ==
  ASSUME NEW c, NEW d, NEW e, Extends(c, d), Extends(d, e)
  PROVE  Extends(c, e)
  BY DEF Extends

LEMMA AddedColumns ==
  /\ Len(Additions) = 4 /\ Legacy \notin Added
  /\ \A i \in 1..4 : Additions[i] \in Added
  /\ \A c \in Added : \E i \in 1..4 : Additions[i] = c
  BY DEF Added, Additions, Legacy

LEMMA CompleteStays ==
  ASSUME NEW c, NEW d, Extends(c, d), Complete(c)
  PROVE  Complete(d)
  BY AddedColumns DEF Extends, Complete

\* The database b as o sees it; View(o) is the one it works on.
ViewOf(o, b) == IF lock[b] = o THEN txn[b] ELSE db[b]

LEMMA ViewIs == \A o : View(o) = ViewOf(o, op[o].on)
  BY DEF View, ViewOf

-----------------------------------------------------------------------------
\* A lock belongs to a process that is in the transaction of its migration,
\* and what is pending extends what is committed.
LockOwned ==
  \A b \in Dbs : lock[b] # NoOpener =>
    /\ op[lock[b]].on = b
    /\ op[lock[b]].pc \in {"check", "alter", "version", "commit"}

Pending ==
  \A b \in Dbs : /\ lock[b] = NoOpener => txn[b] = db[b]
                 /\ Extends(db[b], txn[b])
                 /\ txn[b].inventory = db[b].inventory

\* What a process that has come to this point has seen in the database d.
Seen(o, d) ==
  /\ op[o].pc \notin {"idle", "script"} => Tables \subseteq d.tables
  /\ op[o].pc \notin {"idle", "script", "legacy", "drop"} => Legacy \notin d.columns
  /\ op[o].pc \in {"check", "alter"} =>
       \A i \in 1..4 : i < op[o].step => Additions[i] \in d.columns
  /\ op[o].pc \in {"version", "commit", "open"} => Added \subseteq d.columns

Reached(o) ==
  /\ op[o].pc # "idle" => op[o].on \in Dbs
  /\ op[o].pc = "alter" => op[o].step \in 1..4
  /\ op[o].pc = "check" => op[o].step \in 1..5
  /\ op[o].pc \in {"script", "legacy", "drop", "forget"} => op[o].step = 1
  /\ Seen(o, View(o))

StoreInv ==
  /\ StoreTypeOK
  /\ LockOwned
  /\ Pending
  /\ \A o \in Openers : Reached(o)
  /\ AcceptedMeansComplete

LEMMA ViewTyped ==
  ASSUME StoreTypeOK, NEW o \in Openers, NEW b \in Dbs
  PROVE  ViewOf(o, b) \in Databases
  BY DEF StoreTypeOK, ViewOf

\* What has been seen stays true of a database that has more.
LEMMA SeenStays ==
  ASSUME NEW o, NEW c, NEW d, Seen(o, c), Extends(c, d)
  PROVE  Seen(o, d)
  BY AddedColumns DEF Seen, Extends, Additions, Added, Legacy

\* The effect of any step on the databases, as every process sees them.
Grows == \A b \in Dbs : /\ Extends(db[b], db'[b])
                        /\ db'[b].inventory \in {db[b].inventory, "current"}
GrowsFor(o) == \A b \in Dbs : Extends(ViewOf(o, b), ViewOf(o, b)')

LEMMA ReachedStays ==
  ASSUME NEW o \in Openers, Reached(o), op'[o] = op[o], GrowsFor(o)
  PROVE  Reached(o)'
<1>1. CASE op[o].pc = "idle"
  BY <1>1 DEF Reached, Seen
<1>2. CASE op[o].pc # "idle"
  <2>1. Extends(View(o), View(o)')
    BY <1>2, ViewIs DEF Reached, GrowsFor, ViewOf, View
  <2>2. Seen(o, View(o)')
    BY <2>1, SeenStays DEF Reached
  <2>3. Seen(o, View(o))'
    BY <2>2 DEF Seen
  <2> QED BY <2>3 DEF Reached
<1> QED BY <1>1, <1>2

-----------------------------------------------------------------------------
(* The ways in which a step changes the databases. *)

\* What every kind of step of p is shown to do: what is pending stays within
\* the lock, and no process but p sees less than before.
KeepsStore(p) ==
  /\ db' \in [Dbs -> Databases] /\ txn' \in [Dbs -> Databases]
  /\ lock' \in [Dbs -> Openers \cup {NoOpener}]
  /\ Pending' /\ AcceptedMeansComplete' /\ Grows
  /\ \A o \in Openers \ {p} : GrowsFor(o)
  /\ \A b \in Dbs, o \in Openers \ {p} : lock'[b] = o <=> lock[b] = o

\* A statement that is committed with itself, or with the transaction of p.
LEMMA ExecuteKeeps ==
  ASSUME StoreInv, NEW p \in Openers, op[p].pc # "idle", NEW d \in Databases,
         Extends(View(p), d), d.version = View(p).version,
         d.inventory = View(p).inventory, Execute(p, d),
         op'[p].on = op[p].on
  PROVE  KeepsStore(p) /\ View(p)' = d /\ lock' = lock
<1> DEFINE b == op[p].on
<1>1. b \in Dbs /\ View(p) = ViewOf(p, b)
  BY ViewIs DEF StoreInv, Reached
<1>2. /\ lock' = lock /\ lock[b] \in {NoOpener, p}
      /\ txn' = [txn EXCEPT ![b] = d]
      /\ db' = IF lock[b] = p THEN db ELSE [db EXCEPT ![b] = d]
  BY DEF Execute, CanWrite
<1>3. NoOpener \notin Openers
  BY OpenersAssumption
<1>4. db \in [Dbs -> Databases] /\ txn \in [Dbs -> Databases]
  BY DEF StoreInv, StoreTypeOK
<1> HIDE DEF b
<1>5. CASE lock[b] = p
  <2>1. db' = db /\ txn'[b] = d /\ View(p) = txn[b] /\ \A c \in Dbs \ {b} : txn'[c] = txn[c]
    BY <1>1, <1>2, <1>4, <1>5 DEF ViewOf
  <2>2. Extends(db[b], d) /\ d.inventory = db[b].inventory
    BY <1>1, <2>1, ExtendsMore DEF StoreInv, Pending
  <2>3. Pending'
    BY <1>1, <1>2, <1>3, <1>5, <2>1, <2>2 DEF StoreInv, Pending
  <2>4. Grows /\ \A o \in Openers \ {p} : GrowsFor(o)
    BY <1>2, <1>5, <2>1, ExtendsItself DEF Grows, GrowsFor, ViewOf
  <2>5. AcceptedMeansComplete'
    BY <2>1 DEF StoreInv, AcceptedMeansComplete
  <2> QED
    BY <1>1, <1>2, <1>4, <1>5, <2>1, <2>3, <2>4, <2>5
       DEF KeepsStore, StoreInv, StoreTypeOK, View, b
<1>6. CASE lock[b] # p
  <2>1. /\ lock[b] = NoOpener /\ View(p) = db[b] /\ txn[b] = db[b]
        /\ db'[b] = d /\ txn'[b] = d
        /\ \A c \in Dbs \ {b} : db'[c] = db[c] /\ txn'[c] = txn[c]
    BY <1>1, <1>2, <1>4, <1>6 DEF ViewOf, StoreInv, Pending
  <2>2. Pending'
    BY <1>2, <2>1, ExtendsItself DEF StoreInv, Pending
  <2>3. Grows /\ \A o \in Openers : GrowsFor(o)
    BY <1>2, <2>1, ExtendsItself DEF Grows, GrowsFor, ViewOf
  <2>4. AcceptedMeansComplete'
    BY <1>1, <2>1, CompleteStays DEF StoreInv, AcceptedMeansComplete
  <2> QED
    BY <1>1, <1>2, <1>4, <2>1, <2>2, <2>3, <2>4
       DEF KeepsStore, StoreInv, StoreTypeOK, View, b
<1> QED BY <1>5, <1>6

\* A statement that opens a transaction, or goes on with that of p.
LEMMA TransactionKeeps ==
  ASSUME StoreInv, NEW p \in Openers, op[p].pc # "idle", NEW d \in Databases,
         Extends(View(p), d), d.inventory = View(p).inventory,
         ExecuteInTransaction(p, d), op'[p].on = op[p].on
  PROVE  /\ KeepsStore(p) /\ View(p)' = d
         /\ lock' = [lock EXCEPT ![op[p].on] = p]
<1> DEFINE b == op[p].on
<1>1. b \in Dbs /\ View(p) = ViewOf(p, b)
  BY ViewIs DEF StoreInv, Reached
<1>2. /\ lock' = [lock EXCEPT ![b] = p] /\ lock[b] \in {NoOpener, p}
      /\ txn' = [txn EXCEPT ![b] = d] /\ db' = db
  BY DEF ExecuteInTransaction, CanWrite
<1>3. NoOpener \notin Openers
  BY OpenersAssumption
<1>4. /\ db \in [Dbs -> Databases] /\ txn \in [Dbs -> Databases]
      /\ lock \in [Dbs -> Openers \cup {NoOpener}]
  BY DEF StoreInv, StoreTypeOK
<1> HIDE DEF b
<1>5. /\ lock'[b] = p /\ txn'[b] = d
      /\ \A c \in Dbs \ {b} : lock'[c] = lock[c] /\ txn'[c] = txn[c]
  BY <1>1, <1>2, <1>4
<1>6. Extends(db[b], d) /\ d.inventory = db[b].inventory
  BY <1>1, ExtendsMore DEF StoreInv, Pending, ViewOf
<1>7. Pending'
  BY <1>1, <1>2, <1>3, <1>5, <1>6 DEF StoreInv, Pending
<1>8. Grows
  BY <1>2, ExtendsItself DEF Grows
<1>9. ASSUME NEW o \in Openers \ {p} PROVE GrowsFor(o)
  BY <1>2, <1>3, <1>5, ExtendsItself DEF GrowsFor, ViewOf
<1>10. AcceptedMeansComplete'
  BY <1>2 DEF StoreInv, AcceptedMeansComplete
<1>11. \A c \in Dbs, o \in Openers \ {p} : lock'[c] = o <=> lock[c] = o
  BY <1>2, <1>3, <1>5
<1> QED
  BY <1>1, <1>2, <1>4, <1>5, <1>7, <1>8, <1>9, <1>10, <1>11 DEF KeepsStore, View, b

LEMMA NothingKeeps ==
  ASSUME StoreInv, NEW p \in Openers, UNCHANGED <<db, txn, lock>>
  PROVE  KeepsStore(p) /\ (op'[p].on = op[p].on => View(p)' = View(p))
<1>1. db' = db /\ txn' = txn /\ lock' = lock
  OBVIOUS
<1>2. Pending' /\ AcceptedMeansComplete'
  BY <1>1 DEF StoreInv, Pending, AcceptedMeansComplete
<1>3. Grows /\ \A o \in Openers : GrowsFor(o)
  BY <1>1, ExtendsItself DEF Grows, GrowsFor, ViewOf
<1> QED
  BY <1>1, <1>2, <1>3 DEF KeepsStore, StoreInv, StoreTypeOK, View

\* The owner of the lock of a database works on it: p owns no other lock.
LEMMA OwnsOne ==
  ASSUME StoreInv, NEW p \in Openers, NEW b \in Dbs, lock[b] = p
  PROVE  op[p].on = b /\ op[p].pc \in {"check", "alter", "version", "commit"}
  BY OpenersAssumption DEF StoreInv, LockOwned

LEMMA CommitKeeps ==
  ASSUME StoreInv, NEW p \in Openers, CommitSchema(p)
  PROVE  KeepsStore(p) /\ View(p)' = View(p) /\ \A b \in Dbs : lock'[b] # p
<1> DEFINE b == op[p].on
<1>1. /\ b \in Dbs /\ op[p].pc = "commit" /\ op'[p].on = b
      /\ txn' = txn
      /\ db' = IF lock[b] = p THEN [db EXCEPT ![b] = txn[b]] ELSE db
      /\ lock' = IF lock[b] = p THEN [lock EXCEPT ![b] = NoOpener] ELSE lock
  BY DEF CommitSchema, Goto, StoreInv, StoreTypeOK, Reached
<1>2. NoOpener \notin Openers /\ \A c \in Dbs \ {b} : lock[c] # p
  BY OpenersAssumption, OwnsOne
<1>3. /\ db \in [Dbs -> Databases] /\ txn \in [Dbs -> Databases]
      /\ lock \in [Dbs -> Openers \cup {NoOpener}]
  BY DEF StoreInv, StoreTypeOK
<1>4. Seen(p, View(p)) /\ View(p) = ViewOf(p, b)
  BY ViewIs DEF StoreInv, Reached
<1> HIDE DEF b
<1>5. CASE lock[b] = p
  <2>1. /\ db'[b] = txn[b] /\ lock'[b] = NoOpener /\ View(p) = txn[b]
        /\ \A c \in Dbs \ {b} : db'[c] = db[c] /\ lock'[c] = lock[c]
    BY <1>1, <1>3, <1>4, <1>5 DEF ViewOf
  <2>2. Complete(txn[b])
    BY <1>1, <1>4, <2>1 DEF Seen, Complete
  <2>3. Pending'
    BY <1>1, <2>1, ExtendsItself DEF StoreInv, Pending
  <2>4. AcceptedMeansComplete'
    BY <2>1, <2>2 DEF StoreInv, AcceptedMeansComplete
  <2>5. Extends(db[b], txn[b]) /\ txn[b].inventory = db[b].inventory
    BY <1>1 DEF StoreInv, Pending
  <2>6. Grows
    BY <2>1, <2>5, ExtendsItself DEF Grows
  <2>7. ASSUME NEW o \in Openers \ {p} PROVE GrowsFor(o)
    BY <1>1, <1>2, <1>5, <2>1, <2>5, ExtendsItself DEF GrowsFor, ViewOf
  <2>8. \A c \in Dbs, o \in Openers \ {p} : lock'[c] = o <=> lock[c] = o
    BY <1>2, <1>5, <2>1
  <2>9. /\ db' \in [Dbs -> Databases] /\ txn' \in [Dbs -> Databases]
        /\ lock' \in [Dbs -> Openers \cup {NoOpener}]
    BY <1>1, <1>3, <1>5
  <2>10. View(p)' = View(p) /\ \A c \in Dbs : lock'[c] # p
    BY <1>1, <1>2, <2>1 DEF View, b
  <2> QED
    BY <2>3, <2>4, <2>6, <2>7, <2>8, <2>9, <2>10 DEF KeepsStore
<1>6. CASE lock[b] # p
  <2>1. UNCHANGED <<db, txn, lock>> /\ \A c \in Dbs : lock[c] # p
    BY <1>1, <1>2, <1>6
  <2> QED
    BY <1>1, <2>1, NothingKeeps DEF b
<1> QED BY <1>5, <1>6

\* A death takes what is pending with it.
LEMMA AbortKeeps ==
  ASSUME StoreInv, NEW p \in Openers, Abort(p)
  PROVE  KeepsStore(p) /\ \A b \in Dbs : lock'[b] # p
<1> DEFINE b == op[p].on
<1>1. /\ b \in Dbs /\ db' = db
      /\ txn' = IF lock[b] = p THEN [txn EXCEPT ![b] = db[b]] ELSE txn
      /\ lock' = IF lock[b] = p THEN [lock EXCEPT ![b] = NoOpener] ELSE lock
  BY DEF Abort, StoreInv, Reached
<1>2. NoOpener \notin Openers /\ \A c \in Dbs \ {b} : lock[c] # p
  BY OpenersAssumption, OwnsOne
<1>3. /\ db \in [Dbs -> Databases] /\ txn \in [Dbs -> Databases]
      /\ lock \in [Dbs -> Openers \cup {NoOpener}]
  BY DEF StoreInv, StoreTypeOK
<1> HIDE DEF b
<1>4. CASE lock[b] = p
  <2>1. /\ txn'[b] = db[b] /\ lock'[b] = NoOpener
        /\ \A c \in Dbs \ {b} : txn'[c] = txn[c] /\ lock'[c] = lock[c]
    BY <1>1, <1>3, <1>4
  <2>2. Pending' /\ AcceptedMeansComplete' /\ Grows
    BY <1>1, <2>1, ExtendsItself DEF StoreInv, Pending, AcceptedMeansComplete, Grows
  <2>3. ASSUME NEW o \in Openers \ {p} PROVE GrowsFor(o)
    BY <1>1, <1>2, <1>4, <2>1, ExtendsItself DEF GrowsFor, ViewOf
  <2>4. /\ \A c \in Dbs, o \in Openers \ {p} : lock'[c] = o <=> lock[c] = o
        /\ \A c \in Dbs : lock'[c] # p
    BY <1>2, <1>4, <2>1
  <2>5. /\ db' \in [Dbs -> Databases] /\ txn' \in [Dbs -> Databases]
        /\ lock' \in [Dbs -> Openers \cup {NoOpener}]
    BY <1>1, <1>3, <1>4
  <2> QED
    BY <2>2, <2>3, <2>4, <2>5 DEF KeepsStore
<1>5. CASE lock[b] # p
  BY <1>1, <1>2, <1>5, NothingKeeps
<1> QED BY <1>4, <1>5

LEMMA NewRows ==
  ASSUME NEW c \in Databases, NEW rows \in SUBSET Rows
  PROVE  LET d == [c EXCEPT !.rows = rows, !.inventory = "current"]
         IN  /\ d \in Databases /\ d.tables = c.tables /\ d.columns = c.columns
             /\ d.version = c.version /\ d.inventory = "current"
  BY DEF Databases, Inventories

LEMMA NewFile ==
  ASSUME NEW c \in Databases
  PROVE  LET d == [c EXCEPT !.file = TRUE]
         IN  /\ d \in Databases /\ d.tables = c.tables /\ d.columns = c.columns
             /\ d.version = c.version /\ d.inventory = c.inventory
  BY DEF Databases

\* A run publishes when nobody has the lock, and leaves the schema alone.
LEMMA PublishKeeps ==
  ASSUME StoreInv, NEW p \in Openers, NEW rows \in SUBSET Rows, Publish(p, rows)
  PROVE  KeepsStore(p) /\ \A b \in Dbs : lock'[b] # p
<1> DEFINE b == op[p].on
           d == [db[b] EXCEPT !.rows = rows, !.inventory = "current"]
<1>1. /\ b \in Dbs /\ lock[b] = NoOpener /\ lock' = lock
      /\ db' = [db EXCEPT ![b] = d] /\ txn' = [txn EXCEPT ![b] = d]
  BY DEF Publish, StoreInv, Reached
<1>2. NoOpener \notin Openers /\ \A c \in Dbs : lock[c] # p
  BY <1>1, OpenersAssumption, OwnsOne
<1>3. /\ db \in [Dbs -> Databases] /\ txn \in [Dbs -> Databases]
      /\ lock \in [Dbs -> Openers \cup {NoOpener}]
  BY DEF StoreInv, StoreTypeOK
<1>4. /\ d \in Databases /\ d.tables = db[b].tables /\ d.columns = db[b].columns
      /\ d.version = db[b].version /\ d.inventory = "current"
  <2>1. db[b] \in Databases
    BY <1>1, <1>3
  <2> QED BY <2>1, NewRows
<1> HIDE DEF b, d
<1>5. /\ db'[b] = d /\ txn'[b] = d
      /\ \A c \in Dbs \ {b} : db'[c] = db[c] /\ txn'[c] = txn[c]
  BY <1>1, <1>3
<1>6. Extends(db[b], d) /\ (Complete(db[b]) => Complete(d))
  BY <1>4 DEF Extends, Complete
<1>7. Pending'
  BY <1>1, <1>5, ExtendsItself DEF StoreInv, Pending
<1>8. AcceptedMeansComplete'
  BY <1>1, <1>4, <1>5, <1>6 DEF StoreInv, AcceptedMeansComplete
<1>9. Grows
  BY <1>4, <1>5, <1>6, ExtendsItself DEF Grows
<1>10. ASSUME NEW o \in Openers PROVE GrowsFor(o)
  BY <1>1, <1>2, <1>5, <1>6, ExtendsItself, OpenersAssumption DEF GrowsFor, ViewOf
<1>11. db' \in [Dbs -> Databases] /\ txn' \in [Dbs -> Databases]
  BY <1>1, <1>3, <1>4
<1> QED
  BY <1>1, <1>2, <1>3, <1>7, <1>8, <1>9, <1>10, <1>11 DEF KeepsStore

LEMMA OpenKeeps ==
  ASSUME StoreInv, NEW p \in Openers, Open(p)
  PROVE  KeepsStore(p) /\ \A b \in Dbs : lock'[b] # p
<1>1. PICK b \in Dbs : /\ db' = [db EXCEPT ![b].file = TRUE]
                       /\ txn' = [txn EXCEPT ![b].file = TRUE]
  BY DEF Open
<1>2. op[p].pc = "idle" /\ lock' = lock
  BY DEF Open
<1>3. NoOpener \notin Openers /\ \A c \in Dbs : lock[c] # p
  BY <1>2, OpenersAssumption, OwnsOne
<1>4. /\ db \in [Dbs -> Databases] /\ txn \in [Dbs -> Databases]
      /\ lock \in [Dbs -> Openers \cup {NoOpener}]
  BY DEF StoreInv, StoreTypeOK
<1> DEFINE Same(c, d) == /\ d.tables = c.tables /\ d.columns = c.columns
                         /\ d.version = c.version /\ d.inventory = c.inventory
<1>5. \A d \in Databases : [d EXCEPT !.file = TRUE] \in Databases /\ Same(d, [d EXCEPT !.file = TRUE])
  BY NewFile
<1>6. /\ db'[b] = [db[b] EXCEPT !.file = TRUE] /\ txn'[b] = [txn[b] EXCEPT !.file = TRUE]
      /\ \A c \in Dbs \ {b} : db'[c] = db[c] /\ txn'[c] = txn[c]
  BY <1>1, <1>4
<1>7. ASSUME NEW c \in Dbs PROVE Same(db[c], db'[c]) /\ Same(txn[c], txn'[c])
  <2>1. db[c] \in Databases /\ txn[c] \in Databases
    BY <1>4
  <2>2. CASE c = b
    BY <1>5, <1>6, <2>1, <2>2
  <2>3. CASE c # b
    BY <1>6, <2>3
  <2> QED BY <2>2, <2>3
<1>8. ASSUME NEW c \in Dbs
      PROVE  /\ lock'[c] = NoOpener => txn'[c] = db'[c]
             /\ Extends(db'[c], txn'[c]) /\ txn'[c].inventory = db'[c].inventory
  <2>1. /\ lock[c] = NoOpener => txn[c] = db[c]
        /\ Extends(db[c], txn[c]) /\ txn[c].inventory = db[c].inventory
    BY DEF StoreInv, Pending
  <2>2. lock'[c] = NoOpener => txn'[c] = db'[c]
    BY <1>2, <1>6, <2>1
  <2> QED BY <1>7, <2>1, <2>2 DEF Extends
<1>9. AcceptedMeansComplete'
  BY <1>7 DEF StoreInv, AcceptedMeansComplete, Complete
<1>10. Grows
  BY <1>7 DEF Grows, Extends
<1>11. ASSUME NEW o \in Openers PROVE GrowsFor(o)
  BY <1>2, <1>7 DEF GrowsFor, ViewOf, Extends
<1>12. db' \in [Dbs -> Databases] /\ txn' \in [Dbs -> Databases]
  BY <1>1, <1>4, <1>5
<1> QED
  BY <1>2, <1>3, <1>4, <1>8, <1>9, <1>10, <1>11, <1>12 DEF KeepsStore, Pending

-----------------------------------------------------------------------------
(* The invariant of the databases. *)

InTransaction == {"check", "alter", "version", "commit"}

LEMMA InvStays ==
  ASSUME StoreInv, NEW p \in Openers, KeepsStore(p), Reached(p)',
         op' \in [Openers -> [pc : Phases, on : Dbs \cup {NoOpener}, step : Nat]],
         \A o \in Openers \ {p} : op'[o] = op[o],
         \A b \in Dbs : lock'[b] = p => op'[p].on = b /\ op'[p].pc \in InTransaction
  PROVE  StoreInv' /\ Grows
<1>1. StoreTypeOK'
  BY DEF KeepsStore, StoreTypeOK
<1>2. ASSUME NEW b \in Dbs, lock'[b] # NoOpener
      PROVE  op'[lock'[b]].on = b /\ op'[lock'[b]].pc \in InTransaction
  <2>1. CASE lock'[b] = p
    BY <2>1
  <2>2. CASE lock'[b] # p
    <3> DEFINE q == lock'[b]
    <3>1. q \in Openers \ {p} /\ lock[b] = q
      BY <1>2, <2>2 DEF KeepsStore
    <3>2. op'[q] = op[q] /\ op[q].on = b /\ op[q].pc \in InTransaction
      BY <3>1, OwnsOne DEF InTransaction
    <3> QED BY <3>2
  <2> QED BY <2>1, <2>2
<1>3. LockOwned'
  BY <1>2 DEF LockOwned, InTransaction
<1>4. ASSUME NEW o \in Openers PROVE Reached(o)'
  <2>1. CASE o # p
    BY <2>1, ReachedStays DEF StoreInv, KeepsStore
  <2> QED BY <2>1
<1> QED
  BY <1>1, <1>3, <1>4 DEF KeepsStore, StoreInv

\* The same for a step that takes p from one point of its migration to another.
LEMMA ProgressStays ==
  ASSUME StoreInv, NEW p \in Openers, KeepsStore(p), op[p].pc # "idle",
         NEW pc \in Phases, NEW step \in Nat,
         op' = [op EXCEPT ![p].pc = pc, ![p].step = step],
         \A b \in Dbs : lock'[b] = p => b = op[p].on /\ pc \in InTransaction,
         pc = "alter" => step \in 1..4,
         pc = "check" => step \in 1..5,
         pc \in {"script", "legacy", "drop", "forget"} => step = 1,
         op'[p].on = op[p].on => Seen(p, View(p))'
  PROVE  StoreInv' /\ Grows
<1>1. op[p] \in [pc : Phases, on : Dbs \cup {NoOpener}, step : Nat] /\ op[p].on \in Dbs
  BY DEF StoreInv, StoreTypeOK, Reached
<1>2. /\ op' \in [Openers -> [pc : Phases, on : Dbs \cup {NoOpener}, step : Nat]]
      /\ op'[p].pc = pc /\ op'[p].step = step /\ op'[p].on = op[p].on
      /\ \A o \in Openers \ {p} : op'[o] = op[o]
  BY <1>1 DEF StoreInv, StoreTypeOK
<1>3. Reached(p)'
  BY <1>1, <1>2 DEF Reached
<1> QED
  BY <1>2, <1>3, InvStays DEF InTransaction

\* What is known before a step of p.
LEMMA Before ==
  ASSUME StoreInv, NEW p \in Openers, op[p].pc # "idle"
  PROVE  /\ View(p) \in Databases /\ Seen(p, View(p)) /\ op[p].on \in Dbs
         /\ op[p] \in [pc : Phases, on : Dbs \cup {NoOpener}, step : Nat]
         /\ op \in [Openers -> [pc : Phases, on : Dbs \cup {NoOpener}, step : Nat]]
         /\ op[p].pc = "alter" => op[p].step \in 1..4
         /\ op[p].pc = "check" => op[p].step \in 1..5
         /\ op[p].pc \in {"script", "legacy", "drop", "forget"} => op[p].step = 1
  BY ViewTyped, ViewIs DEF StoreInv, StoreTypeOK, Reached

LEMMA GotoIs ==
  ASSUME StoreInv, NEW p \in Openers, NEW pc, Goto(p, pc)
  PROVE  op' = [op EXCEPT ![p].pc = pc, ![p].step = op[p].step]
<1>1. op \in [Openers -> [pc : Phases, on : Dbs \cup {NoOpener}, step : Nat]]
  BY DEF StoreInv, StoreTypeOK
<1>2. op[p] \in [pc : Phases, on : Dbs \cup {NoOpener}, step : Nat]
  BY <1>1
<1>3. [op[p] EXCEPT !.pc = pc] = [op[p] EXCEPT !.pc = pc, !.step = op[p].step]
  BY <1>2
<1> QED BY <1>1, <1>3 DEF Goto

LEMMA CreateTableStays ==
  ASSUME StoreInv, NEW p \in Openers, CreateTable(p)
  PROVE  StoreInv' /\ Grows
<1>1. PICK i \in 1..Len(Script) :
        Execute(p, [View(p) EXCEPT !.tables = @ \cup {Script[i]},
                                   !.columns = @ \cup CreatedWith(Script[i])])
  BY DEF CreateTable
<1> DEFINE d == [View(p) EXCEPT !.tables = @ \cup {Script[i]},
                                !.columns = @ \cup CreatedWith(Script[i])]
<1>2. op[p].pc = "script" /\ op' = op /\ op[p].step = 1
  BY Before DEF CreateTable
<1>3. View(p) \in Databases
  BY <1>2, Before
<1>4. Script[i] \in Tables /\ CreatedWith(Script[i]) \subseteq Columns \ {Legacy}
  BY DEF Tables, Columns, Added, Additions, CreatedWith, Legacy
<1>5. /\ d \in Databases /\ Extends(View(p), d)
      /\ d.version = View(p).version /\ d.inventory = View(p).inventory
  BY <1>3, <1>4 DEF Databases, Extends
<1> HIDE DEF d
<1>6. Execute(p, d)
  BY <1>1 DEF d
<1>7. KeepsStore(p) /\ lock' = lock
  BY <1>2, <1>5, <1>6, ExecuteKeeps
<1>8. Reached(p)'
  BY <1>2, Before DEF Reached, Seen
<1>9. \A b \in Dbs : lock'[b] # p
  BY <1>2, <1>7, OwnsOne
<1>10. op' \in [Openers -> [pc : Phases, on : Dbs \cup {NoOpener}, step : Nat]]
  BY <1>2, Before
<1> QED BY <1>2, <1>7, <1>8, <1>9, <1>10, InvStays

LEMMA Least ==
  ASSUME NEW S \in SUBSET (1..4), S # {}
  PROVE  \E i \in S : \A j \in S : i <= j
<1>1. CASE 1 \in S
  BY <1>1
<1>2. CASE 1 \notin S /\ 2 \in S
  BY <1>2
<1>3. CASE 1 \notin S /\ 2 \notin S /\ 3 \in S
  BY <1>3
<1>4. CASE 1 \notin S /\ 2 \notin S /\ 3 \notin S
  <2>1. \A i \in S : i = 4
    BY <1>4
  <2>2. 4 \in S
    BY <2>1
  <2> QED BY <2>1, <2>2
<1> QED BY <1>1, <1>2, <1>3, <1>4

\* The steps that read the schema and write nothing.
LEMMA EndScriptStays ==
  ASSUME StoreInv, NEW p \in Openers, EndScript(p)
  PROVE  StoreInv' /\ Grows
<1>1. /\ op[p].pc = "script" /\ op[p].step = 1 /\ Tables \subseteq View(p).tables
      /\ op' = [op EXCEPT ![p].pc = "legacy", ![p].step = 1]
  BY Before, GotoIs DEF EndScript
<1>2. KeepsStore(p) /\ (op'[p].on = op[p].on => View(p)' = View(p)) /\ lock' = lock
  BY NothingKeeps DEF EndScript
<1>3. \A b \in Dbs : lock'[b] # p
  BY <1>1, <1>2, OwnsOne
<1>4. op'[p].pc = "legacy"
  BY <1>1, Before
<1>5. op'[p].on = op[p].on => Seen(p, View(p))'
  BY <1>1, <1>2, <1>4 DEF Seen
<1>6. "legacy" \in Phases
  BY DEF Phases
<1> QED BY <1>1, <1>2, <1>3, <1>5, <1>6, ProgressStays

LEMMA CheckLegacyStays ==
  ASSUME StoreInv, NEW p \in Openers, CheckLegacy(p)
  PROVE  StoreInv' /\ Grows
<1> DEFINE pc == IF Legacy \in View(p).columns THEN "drop" ELSE "check"
<1>1. /\ op[p].pc = "legacy" /\ op[p].step = 1 /\ Seen(p, View(p))
      /\ op' = [op EXCEPT ![p].pc = pc, ![p].step = 1]
  BY Before, GotoIs DEF CheckLegacy
<1>2. KeepsStore(p) /\ (op'[p].on = op[p].on => View(p)' = View(p)) /\ lock' = lock
  BY NothingKeeps DEF CheckLegacy
<1>3. \A b \in Dbs : lock'[b] # p
  BY <1>1, <1>2, OwnsOne
<1>4. op'[p].pc = pc /\ op'[p].step = 1
  BY <1>1, Before
<1>5. op'[p].on = op[p].on => Seen(p, View(p))'
  BY <1>1, <1>2, <1>4 DEF Seen
<1>6. pc \in Phases /\ pc # "alter" /\ 1 \in Nat /\ 1 \in 1..5
  BY DEF Phases
<1>7. \A b \in Dbs : lock'[b] = p => b = op[p].on /\ pc \in InTransaction
  BY <1>3
<1> HIDE DEF pc
<1> QED BY <1>1, <1>2, <1>5, <1>6, <1>7, ProgressStays

LEMMA CheckColumnsStays ==
  ASSUME StoreInv, NEW p \in Openers, CheckColumns(p)
  PROVE  StoreInv' /\ Grows
<1> DEFINE missing == {i \in op[p].step..Len(Additions) : Additions[i] \notin View(p).columns}
           least == CHOOSE i \in missing : \A j \in missing : i <= j
<1>1. /\ op[p].pc = "check" /\ Seen(p, View(p)) /\ op[p].step \in 1..5
      /\ \A i \in 1..4 : i < op[p].step => Additions[i] \in View(p).columns
  BY Before DEF CheckColumns, Seen
<1>2. KeepsStore(p) /\ (op'[p].on = op[p].on => View(p)' = View(p)) /\ lock' = lock
  BY NothingKeeps DEF CheckColumns
<1>3. \A b \in Dbs : lock'[b] = p => b = op[p].on
  BY <1>2, OwnsOne
<1>4. {"alter", "version"} \subseteq Phases \cap InTransaction
  BY DEF Phases, InTransaction
<1>5. op' = IF missing = {} THEN [op EXCEPT ![p].pc = "version"]
            ELSE [op EXCEPT ![p].pc = "alter", ![p].step = least]
  BY DEF CheckColumns
<1>6. missing \in SUBSET (1..4) /\ \A i \in 1..4 : i >= op[p].step =>
        i \in missing \/ Additions[i] \in View(p).columns
  BY <1>1, AddedColumns
<1> HIDE DEF missing
<1>7. CASE missing = {}
  <2>1. op' = [op EXCEPT ![p].pc = "version", ![p].step = op[p].step]
    <3>1. Goto(p, "version")
      BY <1>5, <1>7 DEF Goto
    <3> QED BY <3>1, GotoIs
  <2>2. Added \subseteq View(p).columns
    <3>1. \A i \in 1..4 : Additions[i] \in View(p).columns
      BY <1>1, <1>6, <1>7
    <3> QED BY <3>1, AddedColumns
  <2>3. op'[p].pc = "version"
    BY <1>1, <2>1, Before
  <2>4. op'[p].on = op[p].on => Seen(p, View(p))'
    BY <1>1, <1>2, <2>2, <2>3 DEF Seen
  <2>5. op[p].step \in Nat
    BY <1>1
  <2> QED BY <1>1, <1>2, <1>3, <1>4, <2>1, <2>4, <2>5, ProgressStays
<1>8. CASE missing # {}
  <2>1. \E i \in missing : \A j \in missing : i <= j
    BY <1>6, <1>8, Least
  <2>2. least \in missing /\ \A j \in missing : least <= j
    BY <2>1
  <2> HIDE DEF least
  <2>3. op' = [op EXCEPT ![p].pc = "alter", ![p].step = least]
    BY <1>5, <1>8
  <2>4. least \in 1..4 /\ least \in Nat
    BY <1>6, <2>2
  <2>5. \A i \in 1..4 : i < least => Additions[i] \in View(p).columns
    BY <1>1, <1>6, <2>2, <2>4
  <2>6. op'[p].pc = "alter" /\ op'[p].step = least
    BY <1>1, <2>3, Before
  <2>7. op'[p].on = op[p].on => Seen(p, View(p))'
    BY <1>1, <1>2, <2>5, <2>6 DEF Seen
  <2> QED BY <1>1, <1>2, <1>3, <1>4, <2>3, <2>4, <2>7, ProgressStays
<1> QED BY <1>7, <1>8

\* The steps that write.
LEMMA DropLegacyStays ==
  ASSUME StoreInv, NEW p \in Openers, DropLegacy(p)
  PROVE  StoreInv' /\ Grows
<1> DEFINE d == [View(p) EXCEPT !.columns = @ \ {Legacy}]
<1>1. /\ op[p].pc = "drop" /\ op[p].step = 1 /\ Execute(p, d)
      /\ View(p) \in Databases /\ Seen(p, View(p))
      /\ op' = [op EXCEPT ![p].pc = "forget", ![p].step = 1]
  BY Before, GotoIs DEF DropLegacy
<1>2. /\ d \in Databases /\ Extends(View(p), d) /\ d.tables = View(p).tables
      /\ d.version = View(p).version /\ d.inventory = View(p).inventory
      /\ Legacy \notin d.columns
  BY <1>1 DEF Databases, Extends
<1> HIDE DEF d
<1>3. op'[p].pc = "forget" /\ op'[p].on = op[p].on
  BY <1>1, Before
<1>4. KeepsStore(p) /\ View(p)' = d /\ lock' = lock
  BY <1>1, <1>2, <1>3, ExecuteKeeps
<1>5. \A b \in Dbs : lock'[b] # p
  BY <1>1, <1>4, OwnsOne
<1>6. Seen(p, View(p))'
  BY <1>1, <1>2, <1>3, <1>4 DEF Seen
<1>7. "forget" \in Phases /\ 1 \in Nat
  BY DEF Phases
<1> QED BY <1>1, <1>4, <1>5, <1>6, <1>7, ProgressStays

LEMMA ForgetSignatureStays ==
  ASSUME StoreInv, NEW p \in Openers, ForgetSignature(p)
  PROVE  StoreInv' /\ Grows
<1> DEFINE d == [View(p) EXCEPT !.version = "current"]
<1>1. /\ op[p].pc = "forget" /\ op[p].step = 1 /\ ExecuteInTransaction(p, d)
      /\ View(p) \in Databases /\ Seen(p, View(p)) /\ op[p].on \in Dbs
      /\ op' = [op EXCEPT ![p].pc = "check", ![p].step = 1]
  BY Before, GotoIs DEF ForgetSignature
<1>2. /\ d \in Databases /\ Extends(View(p), d) /\ d.tables = View(p).tables
      /\ d.columns = View(p).columns /\ d.inventory = View(p).inventory
  BY <1>1 DEF Databases, Extends, Versions
<1> HIDE DEF d
<1>3. op'[p].pc = "check" /\ op'[p].on = op[p].on /\ op'[p].step = 1
  BY <1>1, Before
<1>4. KeepsStore(p) /\ View(p)' = d /\ lock' = [lock EXCEPT ![op[p].on] = p]
  BY <1>1, <1>2, <1>3, TransactionKeeps
<1>5. \A b \in Dbs : lock'[b] = p => b = op[p].on
  BY <1>1, <1>4, OwnsOne DEF StoreInv, StoreTypeOK
<1>6. Seen(p, View(p))'
  BY <1>1, <1>2, <1>3, <1>4 DEF Seen
<1>7. "check" \in Phases \cap InTransaction /\ 1 \in Nat /\ 1 \in 1..5
  BY DEF Phases, InTransaction
<1> QED BY <1>1, <1>4, <1>5, <1>6, <1>7, ProgressStays

LEMMA AddColumnStays ==
  ASSUME StoreInv, NEW p \in Openers, AddColumn(p)
  PROVE  StoreInv' /\ Grows
<1> DEFINE c == Additions[op[p].step]
           d == [View(p) EXCEPT !.columns = @ \cup {c}]
           next == op[p].step + 1
<1>1. /\ op[p].pc = "alter" /\ op[p].step \in 1..4 /\ Execute(p, d)
      /\ View(p) \in Databases /\ Seen(p, View(p))
      /\ op' = [op EXCEPT ![p].pc = "check", ![p].step = next]
  BY Before DEF AddColumn
<1>2. c \in Added /\ c # Legacy /\ c \in Columns
  BY <1>1, AddedColumns DEF Columns
<1> HIDE DEF c
<1>3. /\ d \in Databases /\ Extends(View(p), d) /\ d.tables = View(p).tables
      /\ d.columns = View(p).columns \cup {c}
      /\ d.version = View(p).version /\ d.inventory = View(p).inventory
  BY <1>1, <1>2 DEF Databases, Extends
<1> HIDE DEF d
<1>4. /\ op'[p].pc = "check" /\ op'[p].on = op[p].on
      /\ op'[p].step = op[p].step + 1 /\ op[p].step + 1 \in 1..5
  BY <1>1, Before
<1>5. KeepsStore(p) /\ View(p)' = d /\ lock' = lock
  BY <1>1, <1>3, <1>4, ExecuteKeeps
<1>6. \A b \in Dbs : lock'[b] = p => b = op[p].on
  BY <1>5, OwnsOne
<1>7. \A i \in 1..4 : i < op'[p].step => Additions[i] \in d.columns
  BY <1>1, <1>3, <1>4 DEF Seen, c
<1>8. Seen(p, View(p))'
  BY <1>1, <1>2, <1>3, <1>4, <1>5, <1>7 DEF Seen
<1>9. "check" \in Phases \cap InTransaction /\ next \in Nat /\ next \in 1..5
  BY <1>4 DEF Phases, InTransaction
<1> HIDE DEF next
<1> QED BY <1>1, <1>5, <1>6, <1>8, <1>9, ProgressStays

LEMMA SetVersionStays ==
  ASSUME StoreInv, NEW p \in Openers, SetVersion(p)
  PROVE  StoreInv' /\ Grows
<1> DEFINE d == [View(p) EXCEPT !.version = "current"]
<1>1. /\ op[p].pc = "version" /\ op[p].step \in Nat
      /\ View(p) \in Databases /\ Seen(p, View(p)) /\ op[p].on \in Dbs
      /\ op' = [op EXCEPT ![p].pc = "commit", ![p].step = op[p].step]
  BY Before, GotoIs DEF SetVersion
<1>2. /\ d \in Databases /\ Extends(View(p), d) /\ d.tables = View(p).tables
      /\ d.columns = View(p).columns /\ d.inventory = View(p).inventory
  BY <1>1 DEF Databases, Extends, Versions
<1>3. op'[p].pc = "commit" /\ op'[p].on = op[p].on
  BY <1>1, Before
<1>4. /\ KeepsStore(p) /\ View(p)'.tables = View(p).tables
      /\ View(p)'.columns = View(p).columns
      /\ \A b \in Dbs : lock'[b] = p => b = op[p].on
  <2>1. CASE UNCHANGED <<db, txn, lock>>
    BY <1>3, <2>1, NothingKeeps, OwnsOne
  <2>2. CASE ExecuteInTransaction(p, d)
    <3> HIDE DEF d
    <3>1. KeepsStore(p) /\ View(p)' = d /\ lock' = [lock EXCEPT ![op[p].on] = p]
      BY <1>1, <1>2, <1>3, <2>2, TransactionKeeps
    <3>2. \A b \in Dbs : lock'[b] = p => b = op[p].on
      BY <1>1, <3>1, OwnsOne DEF StoreInv, StoreTypeOK
    <3> QED BY <1>2, <3>1, <3>2
  <2> QED BY <2>1, <2>2 DEF SetVersion
<1>5. Seen(p, View(p))'
  BY <1>1, <1>3, <1>4 DEF Seen
<1>6. "commit" \in Phases \cap InTransaction
  BY DEF Phases, InTransaction
<1> QED BY <1>1, <1>4, <1>5, <1>6, ProgressStays

LEMMA CommitSchemaStays ==
  ASSUME StoreInv, NEW p \in Openers, CommitSchema(p)
  PROVE  StoreInv' /\ Grows
<1>1. /\ op[p].pc = "commit" /\ op[p].step \in Nat /\ Seen(p, View(p))
      /\ op' = [op EXCEPT ![p].pc = "open", ![p].step = op[p].step]
  BY Before, GotoIs DEF CommitSchema
<1>2. KeepsStore(p) /\ View(p)' = View(p) /\ \A b \in Dbs : lock'[b] # p
  BY CommitKeeps
<1>3. op'[p].pc = "open"
  BY <1>1, Before
<1>4. Seen(p, View(p))'
  BY <1>1, <1>2, <1>3 DEF Seen
<1>5. "open" \in Phases /\ op[p].pc # "idle"
  BY <1>1 DEF Phases
<1>6. \A b \in Dbs : lock'[b] = p => b = op[p].on /\ "open" \in InTransaction
  BY <1>2
<1>7. KeepsStore(p)
  BY <1>2
<1> QED BY <1>1, <1>4, <1>5, <1>6, <1>7, ProgressStays

\* A process that goes away, and one that comes.
LEMMA IdleStays ==
  ASSUME StoreInv, NEW p \in Openers, op' = [op EXCEPT ![p] = Idle],
         KeepsStore(p), \A b \in Dbs : lock'[b] # p
  PROVE  StoreInv' /\ Grows
<1>1. Idle \in [pc : Phases, on : Dbs \cup {NoOpener}, step : Nat] /\ Idle.pc = "idle"
  BY DEF Idle, Phases
<1>2. op' \in [Openers -> [pc : Phases, on : Dbs \cup {NoOpener}, step : Nat]]
  BY <1>1 DEF StoreInv, StoreTypeOK
<1>3. op'[p] = Idle /\ \A o \in Openers \ {p} : op'[o] = op[o]
  BY DEF StoreInv, StoreTypeOK
<1>4. Reached(p)'
  BY <1>1, <1>3 DEF Reached, Seen
<1> QED BY <1>2, <1>3, <1>4, InvStays

LEMMA AbortStays ==
  ASSUME StoreInv, NEW p \in Openers, Abort(p)
  PROVE  StoreInv' /\ Grows
<1>1. op' = [op EXCEPT ![p] = Idle]
  BY DEF Abort
<1> QED BY <1>1, AbortKeeps, IdleStays

LEMMA PublishStays ==
  ASSUME StoreInv, NEW p \in Openers, NEW rows \in SUBSET Rows, Publish(p, rows)
  PROVE  StoreInv' /\ Grows
<1>1. op' = [op EXCEPT ![p] = Idle]
  BY DEF Publish
<1> QED BY <1>1, PublishKeeps, IdleStays

LEMMA OpenStays ==
  ASSUME StoreInv, NEW p \in Openers, Open(p)
  PROVE  StoreInv' /\ Grows
<1>1. PICK b \in Dbs : op' = [op EXCEPT ![p] = [pc |-> "script", on |-> b, step |-> 1]]
  BY DEF Open
<1>2. [pc |-> "script", on |-> b, step |-> 1] \in [pc : Phases, on : Dbs \cup {NoOpener}, step : Nat]
  BY DEF Phases
<1>3. op' \in [Openers -> [pc : Phases, on : Dbs \cup {NoOpener}, step : Nat]]
  BY <1>1, <1>2 DEF StoreInv, StoreTypeOK
<1>4. /\ op'[p] = [pc |-> "script", on |-> b, step |-> 1]
      /\ \A o \in Openers \ {p} : op'[o] = op[o]
  BY <1>1 DEF StoreInv, StoreTypeOK
<1>5. Reached(p)'
  BY <1>4 DEF Reached, Seen
<1> QED BY <1>3, <1>4, <1>5, OpenKeeps, InvStays

LEMMA MigrateStays ==
  ASSUME StoreInv, NEW p \in Openers, Migrate(p) \/ Rejected(p)
  PROVE  StoreInv' /\ Grows
  BY CreateTableStays, EndScriptStays, CheckLegacyStays, DropLegacyStays,
     ForgetSignatureStays, CheckColumnsStays, AddColumnStays, SetVersionStays,
     CommitSchemaStays, AbortStays
     DEF Migrate, Rejected

\* A database that nobody has opened is removed.
LEMMA RemoveStays ==
  ASSUME StoreInv, NEW b \in Dbs, RemoveDatabase(b)
  PROVE  StoreInv'
<1>1. /\ \A o \in Openers : op[o].pc # "idle" => op[o].on # b
      /\ db' = [db EXCEPT ![b] = NoDatabase] /\ txn' = [txn EXCEPT ![b] = NoDatabase]
      /\ lock' = lock /\ op' = op
  BY DEF RemoveDatabase
<1>2. /\ db \in [Dbs -> Databases] /\ txn \in [Dbs -> Databases]
      /\ lock \in [Dbs -> Openers \cup {NoOpener}]
  BY DEF StoreInv, StoreTypeOK
<1>3. lock[b] = NoOpener
  <2>1. \A o \in Openers : lock[b] # o
    BY <1>1, OwnsOne
  <2> QED BY <1>2, <2>1
<1>4. NoDatabase \in Databases /\ NoDatabase.version # "current"
  BY DEF NoDatabase, Databases, Versions, Inventories
<1>5. /\ db'[b] = NoDatabase /\ txn'[b] = NoDatabase
      /\ \A c \in Dbs \ {b} : db'[c] = db[c] /\ txn'[c] = txn[c]
  BY <1>1, <1>2
<1>6. StoreTypeOK'
  BY <1>1, <1>2, <1>4 DEF StoreInv, StoreTypeOK
<1>7. LockOwned' /\ Pending'
  BY <1>1, <1>3, <1>5, ExtendsItself DEF StoreInv, LockOwned, Pending
<1>8. AcceptedMeansComplete'
  BY <1>4, <1>5 DEF StoreInv, AcceptedMeansComplete
<1>9. ASSUME NEW o \in Openers PROVE Reached(o)'
  <2>1. CASE op[o].pc = "idle"
    BY <1>1, <2>1 DEF Reached, Seen
  <2>2. CASE op[o].pc # "idle"
    <3>1. op[o].on \in Dbs \ {b} /\ Reached(o)
      BY <1>1, <2>2 DEF StoreInv, Reached
    <3>2. View(o)' = View(o)
      BY <1>1, <1>5, <3>1 DEF View
    <3> QED BY <1>1, <3>1, <3>2 DEF Reached, Seen
  <2> QED BY <2>1, <2>2
<1> QED BY <1>6, <1>7, <1>8, <1>9 DEF StoreInv

LEMMA UntouchedStays ==
  ASSUME StoreInv, UNCHANGED storeVars
  PROVE  StoreInv'
<1>1. db' = db /\ txn' = txn /\ lock' = lock /\ op' = op
  BY DEF storeVars
<1>2. \A o : View(o)' = View(o)
  BY <1>1 DEF View
<1> QED
  BY <1>1, <1>2 DEF StoreInv, StoreTypeOK, LockOwned, Pending, Reached, Seen,
     AcceptedMeansComplete

\* What past releases left is well formed, and complete if it is of this one.
LEMMA LeftFits ==
  ASSUME NEW tables \in SUBSET Tables, NEW columns \in SUBSET Columns,
         NEW version \in Versions, NEW inventory \in Inventories,
         NEW d \in Left(tables, columns, version, inventory)
  PROVE  /\ d \in Databases /\ d.tables = tables /\ d.columns = columns
         /\ d.version = version
  BY DEF Left, Databases

LEMMA ReleasesFit ==
  ASSUME NEW d \in Releases
  PROVE  d \in Databases /\ (d.version = "current" => Complete(d))
<1>1. /\ {"meta", "findings"} \subseteq Tables /\ Tables \ {"modules"} \subseteq Tables
      /\ {Legacy} \subseteq Columns /\ Added \subseteq Columns /\ {} \subseteq Columns
      /\ {"findings.module", "endpoints.module"} \subseteq Columns
      /\ Added \ {"modules.rest_controllers"} \subseteq Columns
  BY DEF Tables, Script, Columns, Added, Additions
<1>2. /\ "old" \in Versions /\ "current" \in Versions
      /\ "never" \in Inventories /\ "unsigned" \in Inventories /\ "old" \in Inventories
  BY DEF Versions, Inventories
<1>3. CASE d \in Left({"meta", "findings"}, {Legacy}, "old", "never")
  BY <1>1, <1>2, <1>3, LeftFits
<1>4. CASE d \in Left(Tables \ {"modules"}, {}, "old", "unsigned")
  BY <1>1, <1>2, <1>4, LeftFits
<1>5. CASE d \in Left(Tables \ {"modules"}, {"findings.module", "endpoints.module"}, "old", "old")
  BY <1>1, <1>2, <1>5, LeftFits
<1>6. CASE d \in Left(Tables, Added \ {"modules.rest_controllers"}, "old", "old")
  BY <1>1, <1>2, <1>6, LeftFits
<1>7. CASE d \in Left(Tables, Added, "current", "old")
  <2>1. d \in Databases /\ d.tables = Tables /\ d.columns = Added
    BY <1>1, <1>2, <1>7, LeftFits
  <2> QED BY <2>1, AddedColumns DEF Complete
<1> QED BY <1>3, <1>4, <1>5, <1>6, <1>7 DEF Releases

LEMMA StartsWell ==
  ASSUME Init PROVE StoreInv
<1>1. db \in [Dbs -> {NoDatabase} \cup Releases] /\ txn = db
      /\ lock = [b \in Dbs |-> NoOpener] /\ op = [o \in Openers |-> Idle]
  BY InitialAssumption DEF Init
<1>2. /\ NoDatabase \in Databases /\ NoDatabase.version = "none"
      /\ Releases \subseteq Databases
      /\ \A d \in Releases : d.version = "current" => Complete(d)
  BY ReleasesFit DEF NoDatabase, Databases, Versions, Inventories
<1>3. \A d \in {NoDatabase} \cup Releases : d.version = "current" => Complete(d)
  BY <1>2
<1>4. Idle \in [pc : Phases, on : Dbs \cup {NoOpener}, step : Nat] /\ Idle.pc = "idle"
  BY DEF Idle, Phases
<1>5. StoreTypeOK
  BY <1>1, <1>2, <1>4 DEF StoreTypeOK
<1>6. LockOwned /\ Pending
  BY <1>1, ExtendsItself DEF LockOwned, Pending
<1>7. AcceptedMeansComplete
  BY <1>1, <1>3 DEF AcceptedMeansComplete
<1>8. \A o \in Openers : Reached(o)
  BY <1>1, <1>4 DEF Reached, Seen
<1> QED BY <1>5, <1>6, <1>7, <1>8 DEF StoreInv

-----------------------------------------------------------------------------
(* The names of the modules, and what the server has cached of them. *)

NamesInv ==
  /\ name \in [Services -> Nat] /\ cache \in [Services -> Nat] /\ known \in [Services -> Nat]
  /\ \A s \in Services : /\ name[s] <= MaxName[s]
                         /\ known[s] <= name[s]
                         /\ cache[s] # 0 => cache[s] >= known[s]

LEMMA RowsFit ==
  ASSUME NamesInv, NEW b PROVE RowsOf(b) \in SUBSET Rows
<1>1. ASSUME NEW s \in Services, name[s] # 0 PROVE <<s, name[s]>> \in Rows
  <2>1. name[s] \in 1..MaxName[s]
    BY <1>1, NamesAssumption DEF NamesInv
  <2> QED BY <2>1, NamesAssumption
<1> QED BY <1>1 DEF RowsOf

\* What the server publishes is what any process would.
LEMMA ServerRows ==
  ASSUME NamesInv
  PROVE  {<<s, CachesCleared[s]>> : s \in {t \in Gradle : CachesCleared[t] # 0}}
         \cup {r \in RowsOf(Root) : r[1] \notin Gradle} \in SUBSET Rows
<1>1. \A s \in Gradle : s \in Services /\ CachesCleared[s] = name[s]
  BY DirectoriesAssumption DEF CachesCleared
<1>2. ASSUME NEW s \in Gradle, CachesCleared[s] # 0
      PROVE  <<s, CachesCleared[s]>> \in Rows
  <2>1. name[s] \in 1..MaxName[s] /\ s \in Services
    BY <1>1, <1>2, NamesAssumption DEF NamesInv
  <2> QED BY <1>1, <2>1, NamesAssumption
<1> QED BY <1>2, RowsFit

LEMMA NamesKept ==
  ASSUME NamesInv, UNCHANGED world
  PROVE  NamesInv'
  BY DEF NamesInv, world

LEMMA NameModuleNames ==
  ASSUME NamesInv, NEW s \in Services, NameModule(s)
  PROVE  NamesInv'
<1>1. /\ name' = [name EXCEPT ![s] = name[s] + 1] /\ cache' = cache /\ known' = known
      /\ name[s] < MaxName[s] /\ name[s] \in Nat /\ MaxName[s] \in Nat
  BY NamesAssumption DEF NameModule, NamesInv
<1>2. name' \in [Services -> Nat]
  BY <1>1 DEF NamesInv
<1>3. ASSUME NEW t \in Services
      PROVE  name'[t] <= MaxName[t] /\ known[t] <= name'[t]
  <2>1. name[t] \in Nat /\ known[t] \in Nat /\ name[t] <= MaxName[t] /\ known[t] <= name[t]
    BY DEF NamesInv
  <2>2. name'[t] = IF t = s THEN name[s] + 1 ELSE name[t]
    BY <1>1 DEF NamesInv
  <2> QED BY <1>1, <2>1, <2>2
<1> QED BY <1>1, <1>2, <1>3 DEF NamesInv

LEMMA IndexFromServerNames ==
  ASSUME NamesInv, IndexFromServer
  PROVE  NamesInv'
<1>1. name' = name /\ known' = name /\ cache' = CachesCleared
  BY DEF IndexFromServer
<1>2. ASSUME NEW s \in Services PROVE cache'[s] \in {0, name[s]}
  BY <1>1 DEF CachesCleared
<1>3. cache' \in [Services -> Nat]
  BY <1>1, <1>2 DEF CachesCleared, NamesInv
<1> QED BY <1>1, <1>2, <1>3 DEF NamesInv

LEMMA DiscoverNames ==
  ASSUME NamesInv, Discover
  PROVE  NamesInv'
<1>1. /\ name' = name /\ known' = known
      /\ cache' = [s \in Services |-> IF s \in Gradle \cap {t \in Services : name[t] # 0}
                                      THEN DiscoveredName(s) ELSE cache[s]]
  BY DEF Discover
<1>2. ASSUME NEW s \in Services PROVE cache'[s] \in {cache[s]} \cup (IF cache[s] = 0 THEN {name[s]} ELSE {})
  BY <1>1 DEF DiscoveredName
<1>3. cache' \in [Services -> Nat]
  BY <1>1 DEF DiscoveredName, NamesInv
<1>4. ASSUME NEW s \in Services, cache'[s] # 0 PROVE cache'[s] >= known[s]
  BY <1>2, <1>4 DEF NamesInv
<1> QED BY <1>1, <1>3, <1>4 DEF NamesInv

-----------------------------------------------------------------------------
(* The tool call. *)

\* A database is read only while it is complete; what the loop of
\* load_federation has gone past is accounted for; a service that is about to
\* be said stale was read from an inventory that was not current.
CallInv ==
  /\ call \in Calls
  /\ OnlyALockFailsACall
  /\ call.pc \in {"open"} \cup Reading =>
       call.next \in 1..Len(Order) /\ call.root[Now] \in Dbs
  /\ call.pc \in Reading => Complete(db[call.root[Now]])
  /\ call.pc \in {"signature", "indexed"} => Now \in call.loaded
  /\ call.pc = "signature" =>
       (db[call.root[Now]].inventory # "current" => Now \in call.old)
  /\ call.pc = "indexed" => (call.signature # "current" => Now \in call.old)
  /\ call.pc = "done" => call.next > Len(Order)
  /\ \A i \in 1..Len(Order) :
       i < call.next /\ call.name[Order[i]] # 0 => Order[i] \in call.loaded \cup call.warned
  /\ StaleWarningIsTrue

LEMMA CallKept ==
  ASSUME StoreInv, CallInv, Grows, call' = call
  PROVE  CallInv'
<1>1. Now' = Now
  BY DEF Now
<1>2. ASSUME call.pc \in Reading
      PROVE  /\ Complete(db'[call.root[Now]])
             /\ db'[call.root[Now]].inventory \in {db[call.root[Now]].inventory, "current"}
  <2> DEFINE b == call.root[Now]
  <2>1. b \in Dbs /\ Complete(db[b])
    BY <1>2 DEF CallInv
  <2>2. Extends(db[b], db'[b]) /\ db'[b].inventory \in {db[b].inventory, "current"}
    BY <2>1 DEF Grows
  <2> HIDE DEF b
  <2>3. Complete(db'[b])
    BY <2>1, <2>2, CompleteStays
  <2> QED BY <2>2, <2>3 DEF b
<1>3. OnlyALockFailsACall' /\ StaleWarningIsTrue'
  BY DEF CallInv, OnlyALockFailsACall, StaleWarningIsTrue, Reading
<1>4. (call.pc \in Reading => Complete(db[call.root[Now]]))'
  BY <1>1, <1>2 DEF Complete, Reading
<1>5. (call.pc = "signature" =>
         (db[call.root[Now]].inventory # "current" => Now \in call.old))'
  BY <1>1, <1>2 DEF CallInv, Reading
<1> QED BY <1>1, <1>3, <1>4, <1>5 DEF CallInv, Reading

LEMMA NowIs ==
  ASSUME CallInv, call.next \in 1..Len(Order)
  PROVE  Now \in Services /\ Now = Order[call.next]
  BY OrderAssumption DEF Now

LEMMA CallTyped ==
  ASSUME CallInv
  PROVE  /\ call.next \in Nat \ {0} /\ call.name \in [Services -> Nat]
         /\ call.root \in [Services -> Dbs \cup {NoRoot}]
         /\ call.found \in [Services -> SUBSET Rows]
         /\ call.loaded \subseteq Services /\ call.warned \subseteq Services
         /\ call.stale \subseteq call.old /\ call.old \subseteq Services
         /\ Len(Order) \in Nat
<1>1. call \in Calls /\ StaleWarningIsTrue
  BY DEF CallInv
<1>2. call.stale \subseteq call.old
  BY <1>1 DEF StaleWarningIsTrue
<1> QED BY <1>1, <1>2, OrderAssumption DEF Calls

LEMMA NextServiceKeeps ==
  ASSUME CallInv, NextService
  PROVE  CallInv'
<1>1. /\ call.pc = "next" /\ call.next \in 1..Len(Order) /\ db' = db
      /\ call' = IF call.root[Now] # NoRoot THEN [call EXCEPT !.pc = "open"]
                 ELSE [call EXCEPT !.next = @ + 1,
                         !.warned = IF call.name[Now] = 0 THEN @ ELSE @ \cup {Now}]
  BY CallTyped DEF NextService, storeVars
<1>2. Now \in Services /\ Now = Order[call.next]
  BY <1>1, NowIs
<1>3. CASE call.root[Now] # NoRoot
  <2>1. call' = [call EXCEPT !.pc = "open"]
    BY <1>1, <1>3
  <2>2. Now' = Now /\ call.root[Now] \in Dbs
    BY <1>2, <1>3, <2>1, CallTyped DEF Now, CallInv, Calls
  <2>3. /\ call'.pc = "open" /\ call'.next = call.next /\ call'.name = call.name
        /\ call'.root = call.root /\ call'.loaded = call.loaded
        /\ call'.warned = call.warned /\ call'.stale = call.stale /\ call'.old = call.old
        /\ call' \in Calls
    BY <2>1 DEF CallInv, Calls
  <2> QED
    BY <1>1, <2>2, <2>3 DEF CallInv, OnlyALockFailsACall, StaleWarningIsTrue, Reading
<1>4. CASE call.root[Now] = NoRoot
  <2> DEFINE warned == IF call.name[Now] = 0 THEN call.warned ELSE call.warned \cup {Now}
  <2>1. call' = [call EXCEPT !.next = @ + 1, !.warned = warned]
    BY <1>1, <1>4
  <2>2. warned \in SUBSET Services /\ call.next + 1 \in Nat \ {0}
    BY <1>2, CallTyped
  <2>3. call.warned \subseteq warned /\ (call.name[Now] # 0 => Now \in warned)
    OBVIOUS
  <2> HIDE DEF warned
  <2>4. /\ call'.pc = "next" /\ call'.next = call.next + 1 /\ call'.name = call.name
        /\ call'.loaded = call.loaded
        /\ call'.warned = warned /\ call'.stale = call.stale /\ call'.old = call.old
        /\ call' \in Calls
    BY <1>1, <2>1, <2>2 DEF CallInv, Calls
  <2>5. ASSUME NEW i \in 1..Len(Order), i < call'.next, call'.name[Order[i]] # 0
        PROVE  Order[i] \in call'.loaded \cup call'.warned
    <3>1. i < call.next \/ i = call.next
      BY <1>1, <2>4, <2>5
    <3> QED BY <1>2, <2>3, <2>4, <2>5, <3>1 DEF CallInv
  <2> QED
    BY <2>4, <2>5 DEF CallInv, OnlyALockFailsACall, StaleWarningIsTrue, Reading
<1> QED BY <1>3, <1>4

LEMMA OpenReadOnlyKeeps ==
  ASSUME StoreInv, CallInv, OpenReadOnly
  PROVE  CallInv'
<1>1. /\ call.pc = "open" /\ call.next \in 1..Len(Order) /\ db' = db
      /\ call.root[Now] \in Dbs
  BY DEF OpenReadOnly, CallInv, storeVars
<1>2. Now \in Services /\ Now = Order[call.next]
  BY <1>1, NowIs
<1>3. CASE Accepted(db[call.root[Now]]) /\ call' = Onward(call)
  <2>1. call' = [call EXCEPT !.pc = "modules"]
    BY <1>1, <1>3 DEF Onward, After
  <2>2. Complete(db[call.root[Now]])
    BY <1>1, <1>3 DEF Accepted, StoreInv, AcceptedMeansComplete
  <2>3. /\ call'.pc = "modules" /\ call'.next = call.next /\ call'.name = call.name
        /\ call'.root = call.root /\ call'.loaded = call.loaded
        /\ call'.warned = call.warned /\ call'.stale = call.stale /\ call'.old = call.old
        /\ call' \in Calls
    BY <2>1 DEF CallInv, Calls, Reading
  <2>4. Now' = Now
    BY <2>3 DEF Now
  <2>5. Complete(db[call.root[Now]])'
    BY <1>1, <2>2, <2>3, <2>4 DEF Complete
  <2> QED
    BY <1>1, <2>3, <2>4, <2>5 DEF CallInv, OnlyALockFailsACall, StaleWarningIsTrue, Reading
<1>4. CASE call' = Skipped
  <2>1. call' = [call EXCEPT !.pc = "next", !.next = @ + 1, !.warned = @ \cup {Now}]
    BY <1>4 DEF Skipped
  <2>2. call.warned \cup {Now} \in SUBSET Services /\ call.next + 1 \in Nat \ {0}
    BY <1>2, CallTyped
  <2>3. /\ call'.pc = "next" /\ call'.next = call.next + 1 /\ call'.name = call.name
        /\ call'.loaded = call.loaded /\ call'.warned = call.warned \cup {Now}
        /\ call'.stale = call.stale /\ call'.old = call.old
        /\ call' \in Calls
    BY <2>1, <2>2 DEF CallInv, Calls
  <2>4. ASSUME NEW i \in 1..Len(Order), i < call'.next, call'.name[Order[i]] # 0
        PROVE  Order[i] \in call'.loaded \cup call'.warned
    <3>1. i < call.next \/ i = call.next
      BY <1>1, <2>3, <2>4
    <3> QED BY <1>2, <2>3, <2>4, <3>1 DEF CallInv
  <2> QED
    BY <2>3, <2>4 DEF CallInv, OnlyALockFailsACall, StaleWarningIsTrue, Reading
<1> QED BY <1>3, <1>4 DEF OpenReadOnly

\* What a SELECT asks for is there.
LEMMA CompleteIsReadable ==
  ASSUME NEW d, Complete(d), NEW t \in Tables
  PROVE  Readable(t, d)
<1>1. ColumnsRead(t) \subseteq Added
  BY AddedColumns DEF ColumnsRead, Additions, Added
<1> QED BY <1>1 DEF Complete, Readable

\* So a SELECT is never what fails a call.
LEMMA SelectSucceeds ==
  ASSUME CallInv, call.pc \in Reading, NEW t \in Tables, NEW c, Select(t, c)
  PROVE  call' = Onward(c) /\ db' = db
<1>1. Readable(t, db[call.root[Now]])
  BY CompleteIsReadable DEF CallInv
<1> QED BY <1>1 DEF Select, storeVars

LEMMA TablesAre == Tables = {"meta", "findings", "endpoints", "modules"}
<1>1. Len(Script) = 4 /\ DOMAIN Script = 1..4
  BY DEF Script
<1>2. Script[1] = "meta" /\ Script[2] = "findings" /\ Script[3] = "endpoints"
      /\ Script[4] = "modules"
  BY DEF Script
<1> QED BY <1>1, <1>2 DEF Tables

\* The reads whose rows the properties do not tell apart.
LEMMA ReadFirstKeeps ==
  ASSUME CallInv, ReadModules \/ ReadDependencies \/ ReadFindings
  PROVE  CallInv'
<1> DEFINE phase == After[call.pc]
<1>1. /\ call.pc \in {"modules", "dependencies", "findings"} /\ db' = db
      /\ call' = Onward(call)
  BY SelectSucceeds, TablesAre DEF ReadModules, ReadDependencies, ReadFindings, Reading
<1>2. phase \in {"dependencies", "findings", "endpoints"}
  BY <1>1 DEF After
<1>3. call' = [call EXCEPT !.pc = phase]
  BY <1>1, <1>2 DEF Onward
<1>4. call.next \in 1..Len(Order) /\ call.root[Now] \in Dbs /\ Complete(db[call.root[Now]])
  BY <1>1 DEF CallInv, Reading
<1> HIDE DEF phase
<1>5. /\ call'.pc = phase /\ call'.next = call.next /\ call'.name = call.name
      /\ call'.root = call.root /\ call'.loaded = call.loaded
      /\ call'.warned = call.warned /\ call'.stale = call.stale /\ call'.old = call.old
      /\ call' \in Calls
  BY <1>2, <1>3 DEF CallInv, Calls, Reading
<1>6. Now' = Now
  BY <1>5 DEF Now
<1>7. Complete(db[call.root[Now]])'
  BY <1>1, <1>4, <1>5, <1>6 DEF Complete
<1> QED
  BY <1>2, <1>4, <1>5, <1>6, <1>7 DEF CallInv, OnlyALockFailsACall, StaleWarningIsTrue, Reading

LEMMA ReadEndpointsKeeps ==
  ASSUME StoreInv, CallInv, ReadEndpoints
  PROVE  CallInv'
<1> DEFINE d == db[call.root[Now]]
           s == Now
           old == IF d.inventory = "current" THEN call.old ELSE call.old \cup {s}
           read == [call EXCEPT !.loaded = @ \cup {s}, !.found[s] = RowsFor(s, d), !.old = old]
<1>1. /\ call.pc = "endpoints" /\ call.next \in 1..Len(Order)
      /\ call.root[Now] \in Dbs /\ Complete(d)
  BY DEF ReadEndpoints, CallInv, Reading
<1>2. s \in Services
  BY <1>1, NowIs
<1>3. Select("endpoints", read)
  BY DEF ReadEndpoints
<1>4. call' = Onward(read) /\ db' = db
  <2> HIDE DEF read
  <2> QED BY <1>1, <1>3, SelectSucceeds, TablesAre DEF Reading
<1>5. read.pc = "endpoints"
  BY <1>1 DEF CallInv, Calls
<1>6. call' = [read EXCEPT !.pc = "signature"]
  <2> HIDE DEF read
  <2> QED BY <1>4, <1>5 DEF Onward, After
<1>7. /\ RowsFor(s, d) \in SUBSET Rows /\ call.loaded \cup {s} \in SUBSET Services
      /\ old \in SUBSET Services /\ call.old \subseteq old
      /\ d.inventory # "current" => s \in old
  <2>1. d \in Databases
    BY <1>1 DEF StoreInv, StoreTypeOK
  <2>2. d.rows \in SUBSET Rows
    BY <2>1 DEF Databases
  <2> QED BY <1>2, <2>2, CallTyped DEF RowsFor
<1>8. [call.found EXCEPT ![s] = RowsFor(s, d)] \in [Services -> SUBSET Rows]
  BY <1>2, <1>7, CallTyped
<1> HIDE DEF old
<1>9. /\ call'.pc = "signature" /\ call'.next = call.next /\ call'.name = call.name
      /\ call'.root = call.root /\ call'.loaded = call.loaded \cup {s}
      /\ call'.warned = call.warned /\ call'.stale = call.stale /\ call'.old = old
  BY <1>6 DEF CallInv, Calls
<1>10. call' \in Calls
  BY <1>6, <1>7, <1>8 DEF CallInv, Calls, Reading
<1>11. Now' = Now
  BY <1>9 DEF Now
<1>12. Complete(db[call.root[Now]])'
  BY <1>1, <1>4, <1>9, <1>11 DEF Complete
<1> QED
  BY <1>1, <1>4, <1>7, <1>9, <1>10, <1>11, <1>12
     DEF CallInv, OnlyALockFailsACall, StaleWarningIsTrue, Reading

LEMMA ReadSignatureKeeps ==
  ASSUME StoreInv, CallInv, ReadSignature
  PROVE  CallInv'
<1> DEFINE i == db[call.root[Now]].inventory
           sign == Signature(i)
           read == [call EXCEPT !.signature = sign]
<1>1. /\ call.pc = "signature" /\ call.next \in 1..Len(Order) /\ call.root[Now] \in Dbs
      /\ Complete(db[call.root[Now]]) /\ Now \in call.loaded
      /\ i # "current" => Now \in call.old
  BY DEF ReadSignature, CallInv, Reading
<1>2. sign \in {"none", "old", "current"} /\ (sign # "current" => Now \in call.old)
  <2>1. i \in Inventories
    BY <1>1 DEF StoreInv, StoreTypeOK, Databases
  <2> QED BY <1>1, <2>1 DEF Signature, Inventories
<1>3. Select("meta", read)
  BY DEF ReadSignature
<1> HIDE DEF sign
<1>4. call' = Onward(read) /\ db' = db
  <2> HIDE DEF read
  <2> QED BY <1>1, <1>3, SelectSucceeds, TablesAre DEF Reading
<1>5. read.pc = "signature"
  BY <1>1 DEF CallInv, Calls
<1>6. call' = [read EXCEPT !.pc = "indexed"]
  <2> HIDE DEF read
  <2> QED BY <1>4, <1>5 DEF Onward, After
<1>7. /\ call'.pc = "indexed" /\ call'.next = call.next /\ call'.name = call.name
      /\ call'.root = call.root /\ call'.loaded = call.loaded /\ call'.signature = sign
      /\ call'.warned = call.warned /\ call'.stale = call.stale /\ call'.old = call.old
      /\ call' \in Calls
  BY <1>2, <1>6 DEF CallInv, Calls, Reading
<1>8. Now' = Now
  BY <1>7 DEF Now
<1>9. Complete(db[call.root[Now]])'
  BY <1>1, <1>4, <1>7, <1>8 DEF Complete
<1> QED
  BY <1>1, <1>2, <1>7, <1>8, <1>9 DEF CallInv, OnlyALockFailsACall, StaleWarningIsTrue, Reading

LEMMA ReadIndexedKeeps ==
  ASSUME StoreInv, CallInv, ReadIndexed
  PROVE  CallInv'
<1> DEFINE s == Now
           outdated == \/ call.signature = "old"
                       \/ call.signature = "none" /\ db[call.root[Now]].inventory # "never"
           stale == IF outdated THEN call.stale \cup {s} ELSE call.stale
           read == [call EXCEPT !.signature = "none", !.stale = stale]
<1>1. /\ call.pc = "indexed" /\ call.next \in 1..Len(Order)
      /\ s \in call.loaded /\ (call.signature # "current" => s \in call.old)
  BY DEF ReadIndexed, CallInv, Reading
<1>2. s \in Services /\ s = Order[call.next]
  BY <1>1, NowIs
<1>3. stale \subseteq call.old /\ stale \in SUBSET Services /\ call.next + 1 \in Nat \ {0}
  BY <1>1, CallTyped
<1>4. Select("meta", read)
  BY DEF ReadIndexed
<1> HIDE DEF stale
<1>5. call' = Onward(read)
  <2> HIDE DEF read
  <2> QED BY <1>1, <1>4, SelectSucceeds, TablesAre DEF Reading
<1>6. read.pc = "indexed"
  BY <1>1 DEF CallInv, Calls
<1>7. call' = [read EXCEPT !.pc = "next", !.next = @ + 1]
  <2> HIDE DEF read
  <2> QED BY <1>5, <1>6 DEF Onward, After
<1>8. /\ call'.pc = "next" /\ call'.next = call.next + 1 /\ call'.name = call.name
      /\ call'.loaded = call.loaded /\ call'.warned = call.warned
      /\ call'.stale = stale /\ call'.old = call.old
      /\ call' \in Calls
  BY <1>3, <1>7 DEF CallInv, Calls
<1>9. ASSUME NEW i \in 1..Len(Order), i < call'.next, call'.name[Order[i]] # 0
      PROVE  Order[i] \in call'.loaded \cup call'.warned
  <2>1. i < call.next \/ i = call.next
    BY <1>1, <1>8, <1>9
  <2> QED BY <1>1, <1>2, <1>8, <1>9, <2>1 DEF CallInv
<1> QED
  BY <1>3, <1>8, <1>9 DEF CallInv, OnlyALockFailsACall, StaleWarningIsTrue, Reading

\* A call that has been locked out promises nothing.
LEMMA LockedOutKeeps ==
  ASSUME LockedOut
  PROVE  CallInv'
<1>1. call' = [NoCall EXCEPT !.pc = "locked"]
  BY DEF LockedOut
<1> DEFINE none == [s \in Services |-> {}]
           zero == [s \in Services |-> 0]
           noroot == [s \in Services |-> NoRoot]
<1>2. call' = [pc |-> "locked", next |-> 1, name |-> zero, root |-> noroot, loaded |-> {},
               found |-> none, signature |-> "none", warned |-> {}, stale |-> {}, old |-> {}]
  BY <1>1 DEF NoCall
<1>3. /\ none \in [Services -> SUBSET Rows] /\ zero \in [Services -> Nat]
      /\ noroot \in [Services -> Dbs \cup {NoRoot}]
  OBVIOUS
<1> HIDE DEF none, zero, noroot
<1>4. call' \in Calls /\ call'.pc = "locked" /\ call'.next = 1 /\ call'.stale = {}
  BY <1>2, <1>3 DEF Calls, Ended
<1>5. \A i \in 1..Len(Order) : ~ (i < call'.next)
  BY <1>4, OrderAssumption
<1> QED
  BY <1>4, <1>5 DEF CallInv, OnlyALockFailsACall, StaleWarningIsTrue, Reading

LEMMA FinishKeeps ==
  ASSUME CallInv, Finish
  PROVE  CallInv'
<1> DEFINE more == {s \in Microservices : call.name[s] # 0 /\ s \notin call.loaded}
<1>1. /\ call.next > Len(Order) /\ call' = [call EXCEPT !.pc = "done", !.warned = @ \cup more]
  BY DEF Finish
<1>2. call.warned \cup more \in SUBSET Services
  BY DirectoriesAssumption, CallTyped
<1> HIDE DEF more
<1>3. /\ call'.pc = "done" /\ call'.next = call.next /\ call'.name = call.name
      /\ call'.loaded = call.loaded /\ call'.warned = call.warned \cup more
      /\ call'.stale = call.stale /\ call'.old = call.old
      /\ call' \in Calls
  BY <1>1, <1>2 DEF CallInv, Calls, Ended
<1> QED
  BY <1>1, <1>3 DEF CallInv, OnlyALockFailsACall, StaleWarningIsTrue, Reading

LEMMA DiscoverKeeps ==
  ASSUME NamesInv, Discover
  PROVE  CallInv'
<1> DEFINE here == {s \in Services : name[s] # 0}
           names == [s \in Services |-> IF s \in here THEN DiscoveredName(s) ELSE 0]
           roots == [s \in Services |-> IF s \in here /\ Indexed(s) THEN IndexRoot(s) ELSE NoRoot]
<1>1. call' = [NoCall EXCEPT !.pc = "next", !.name = names, !.root = roots]
  BY DEF Discover
<1>2. names \in [Services -> Nat]
  BY DEF NamesInv, DiscoveredName
<1>3. roots \in [Services -> Dbs \cup {NoRoot}]
  BY DirectoriesAssumption DEF IndexRoot, OwnDatabase
<1> HIDE DEF names, roots
<1>4. /\ call'.pc = "next" /\ call'.next = 1 /\ call'.stale = {} /\ call'.old = {}
      /\ call' \in Calls
  <2> DEFINE none == [s \in Services |-> {}]
  <2>1. none \in [Services -> SUBSET Rows]
    OBVIOUS
  <2>2. call' = [pc |-> "next", next |-> 1, name |-> names, root |-> roots,
                 loaded |-> {}, found |-> none, signature |-> "none", warned |-> {},
                 stale |-> {}, old |-> {}]
    BY <1>1 DEF NoCall
  <2> HIDE DEF none
  <2> QED BY <1>2, <1>3, <2>1, <2>2 DEF Calls
<1>5. \A i \in 1..Len(Order) : ~ (i < call'.next)
  BY <1>4, OrderAssumption
<1> QED
  BY <1>4, <1>5 DEF CallInv, OnlyALockFailsACall, StaleWarningIsTrue, Reading

LEMMA RemoveKeepsCall ==
  ASSUME StoreInv, CallInv, NEW b \in Dbs, RemoveDatabase(b)
  PROVE  CallInv'
<1>1. /\ call' = call /\ db' = [db EXCEPT ![b] = NoDatabase]
      /\ call.pc \in Reading => call.root[Now] # b
  BY DEF RemoveDatabase
<1>2. Now' = Now
  BY <1>1 DEF Now
<1>3. call.pc \in Reading => db'[call.root[Now]] = db[call.root[Now]]
  BY <1>1 DEF StoreInv, StoreTypeOK, CallInv
<1>4. call.pc \in Reading => Complete(db[call.root[Now]])'
  BY <1>1, <1>2, <1>3 DEF CallInv, Complete
<1> QED
  BY <1>1, <1>2, <1>3, <1>4 DEF CallInv, OnlyALockFailsACall, StaleWarningIsTrue, Reading

-----------------------------------------------------------------------------
(* The invariant of the federation. *)

Inv == /\ StoreInv
       /\ NamesInv
       /\ CallInv
       /\ calls \in 0..MaxCalls
       /\ opens \in 0..MaxOpens

LEMMA InvInit == ASSUME Init PROVE Inv
<1>1. NamesInv
  <2>1. \A n \in {m \in [Services -> Nat] : \A s \in Services : m[s] <= MaxName[s]} :
          n \in [Services -> Nat] /\ \A s \in Services : n[s] <= MaxName[s]
    OBVIOUS
  <2>2. name \in [Services -> Nat] /\ \A s \in Services : name[s] <= MaxName[s]
    BY <2>1, InitialAssumption DEF Init
  <2> QED BY <2>2 DEF Init, NamesInv
<1>2. CallInv
  <2>1. call = NoCall
    BY DEF Init
  <2>2. /\ call.pc = "idle" /\ call.next = 1 /\ call.stale = {} /\ call.old = {}
        /\ call \in Calls
    BY <2>1 DEF NoCall, Calls
  <2>3. \A i \in 1..Len(Order) : ~ (i < call.next)
    BY <2>2, OrderAssumption
  <2> QED
    BY <2>2, <2>3 DEF CallInv, OnlyALockFailsACall, StaleWarningIsTrue, Reading
<1>3. calls \in 0..MaxCalls /\ opens \in 0..MaxOpens
  BY BoundsAssumption DEF Init
<1> QED BY <1>1, <1>2, <1>3, StartsWell DEF Inv

LEMMA CallStepKeeps ==
  ASSUME Inv, CallStep
  PROVE  Inv'
<1>1. UNCHANGED storeVars /\ UNCHANGED world /\ UNCHANGED <<calls, opens>>
  BY DEF CallStep, NextService, OpenReadOnly, ReadModules, ReadDependencies,
     ReadFindings, ReadEndpoints, ReadSignature, ReadIndexed, Select, LockedOut, Finish
<1>2. StoreInv' /\ NamesInv' /\ calls' \in 0..MaxCalls /\ opens' \in 0..MaxOpens
  BY <1>1, UntouchedStays, NamesKept DEF Inv
<1>3. CallInv'
  BY NextServiceKeeps, OpenReadOnlyKeeps, ReadFirstKeeps, ReadEndpointsKeeps,
     ReadSignatureKeeps, ReadIndexedKeeps, LockedOutKeeps, FinishKeeps
     DEF CallStep, Inv
<1> QED BY <1>2, <1>3 DEF Inv

LEMMA InvNext == ASSUME Inv, [Next]_vars PROVE Inv'
<1>1. StoreInv /\ NamesInv /\ CallInv
  BY DEF Inv
<1>2. ASSUME NEW s \in Services, NameModule(s) PROVE Inv'
  <2>1. UNCHANGED storeVars /\ call' = call /\ db' = db /\ UNCHANGED <<calls, opens>>
    BY <1>2 DEF NameModule, storeVars
  <2>2. StoreInv' /\ NamesInv'
    BY <1>1, <1>2, <2>1, UntouchedStays, NameModuleNames
  <2>3. Grows
    BY <2>1, ExtendsItself DEF Grows
  <2> QED BY <1>1, <2>1, <2>2, <2>3, CallKept DEF Inv
<1>3. ASSUME NEW b \in Dbs, RemoveDatabase(b) PROVE Inv'
  <2>1. UNCHANGED world /\ UNCHANGED <<calls, opens>>
    BY <1>3 DEF RemoveDatabase
  <2> QED BY <1>1, <1>3, <2>1, RemoveStays, RemoveKeepsCall, NamesKept DEF Inv
<1>4. ASSUME NEW o \in Openers, OpenDatabase(o) PROVE Inv'
  <2>1. /\ Open(o) /\ UNCHANGED world /\ call' = call /\ calls' = calls
        /\ opens < MaxOpens /\ opens' = opens + 1
    BY <1>4 DEF OpenDatabase
  <2>2. StoreInv' /\ Grows /\ NamesInv'
    BY <1>1, <2>1, OpenStays, NamesKept
  <2>3. opens' \in 0..MaxOpens
    BY <2>1, BoundsAssumption DEF Inv
  <2> QED BY <1>1, <2>1, <2>2, <2>3, CallKept DEF Inv
<1>5. ASSUME NEW o \in Openers, OpenerStep(o) \/ OpenerDies(o) \/ IndexFromCli(o) PROVE Inv'
  <2>1. UNCHANGED world /\ call' = call /\ UNCHANGED <<calls, opens>>
    BY <1>5 DEF OpenerStep, OpenerDies, IndexFromCli
  <2>2. StoreInv' /\ Grows
    <3>1. CASE OpenerStep(o)
      BY <1>1, <3>1, MigrateStays DEF OpenerStep
    <3>2. CASE OpenerDies(o)
      BY <1>1, <3>2, AbortStays DEF OpenerDies
    <3>3. CASE IndexFromCli(o)
      BY <1>1, <3>3, RowsFit, PublishStays DEF IndexFromCli
    <3> QED BY <1>5, <3>1, <3>2, <3>3
  <2> QED BY <1>1, <2>1, <2>2, CallKept, NamesKept DEF Inv
<1>6. CASE IndexFromServer
  <2>1. call' = call /\ UNCHANGED <<calls, opens>>
    BY <1>6 DEF IndexFromServer
  <2>2. StoreInv' /\ Grows
    BY <1>1, <1>6, ServerRows, ServerAssumption, PublishStays DEF IndexFromServer
  <2> QED BY <1>1, <1>6, <2>1, <2>2, CallKept, IndexFromServerNames DEF Inv
<1>7. CASE Discover
  <2>1. UNCHANGED storeVars /\ calls < MaxCalls /\ calls' = calls + 1 /\ opens' = opens
    BY <1>7 DEF Discover
  <2>2. calls' \in 0..MaxCalls
    BY <2>1, BoundsAssumption DEF Inv
  <2> QED BY <1>1, <1>7, <2>1, <2>2, UntouchedStays, DiscoverNames, DiscoverKeeps DEF Inv
<1>8. CASE CallStep
  BY <1>8, CallStepKeeps
<1>9. CASE UNCHANGED vars
  <2>1. UNCHANGED storeVars /\ UNCHANGED world /\ call' = call /\ db' = db
        /\ UNCHANGED <<calls, opens>>
    BY <1>9 DEF vars, storeVars, world
  <2>2. Grows
    BY <2>1, ExtendsItself DEF Grows
  <2> QED BY <1>1, <2>1, <2>2, UntouchedStays, NamesKept, CallKept DEF Inv
<1> QED
  BY <1>2, <1>3, <1>4, <1>5, <1>6, <1>7, <1>8, <1>9 DEF Next

\* The invariant holds in every state.
THEOREM InvAlways == Spec => []Inv
  BY InvInit, InvNext, PTL DEF Spec

-----------------------------------------------------------------------------
(* What the runs check on a small instance. *)

\* Type correctness, of the databases, the processes and the call.
THEOREM TypeCorrect == Spec => []TypeOK
<1>1. Inv => TypeOK
  BY DEF Inv, StoreInv, NamesInv, CallInv, TypeOK
<1> QED BY <1>1, InvAlways, PTL

\* The version of a database is a promise about its tables and columns that no
\* interleaving of openers, and no death of one, breaks.
THEOREM VersionKeepsItsPromise == Spec => []AcceptedMeansComplete
<1>1. Inv => AcceptedMeansComplete
  BY DEF Inv, StoreInv
<1> QED BY <1>1, InvAlways, PTL

\* A database that is being migrated, or was left half migrated, never makes a
\* tool call fail, whichever of its SELECTs a migration comes between.
THEOREM CallsSurvive == Spec => []OnlyALockFailsACall
<1>1. Inv => OnlyALockFailsACall
  BY DEF Inv, CallInv
<1> QED BY <1>1, InvAlways, PTL

\* What the loop has gone past is accounted for, and in the end it has gone
\* past every service.
THEOREM TellsTheTruth == Spec => []FederationTellsTheTruth
<1>1. ASSUME Inv, call.pc = "done", NEW s \in Services, call.name[s] # 0
      PROVE  s \in call.loaded \cup call.warned
  <2>1. PICK i \in 1..Len(Order) : Order[i] = s
    BY OrderAssumption
  <2>2. call.next > Len(Order) /\ call.next \in Nat /\ Len(Order) \in Nat
    BY <1>1, CallTyped DEF Inv, CallInv
  <2>3. i < call.next
    BY <2>2
  <2> QED BY <1>1, <2>1, <2>3 DEF Inv, CallInv
<1>2. Inv => FederationTellsTheTruth
  BY <1>1 DEF FederationTellsTheTruth, LoadedOrWarned, Inv, CallInv
<1> QED BY <1>2, InvAlways, PTL

\* After a reindex the caches of the server never go back.
THEOREM NamesNeverGoBack == Spec => []NamesAsRecentAsReindex
<1>1. Inv => NamesAsRecentAsReindex
  BY DEF Inv, NamesInv, NamesAsRecentAsReindex
<1> QED BY <1>1, InvAlways, PTL
=============================================================================
