----------------------------- MODULE Federation -----------------------------
(***************************************************************************)
(* The MCP server federates a directory of services (workspace.py): a tool *)
(* call discovers the modules, tells which are indexed and where, and      *)
(* reads their databases one at a time, read-only, one SELECT after the    *)
(* other and without a transaction, while other processes open, migrate    *)
(* and index the same databases, and while modules are created and renamed. *)
(*                                                                         *)
(* The name of a module is a revision number: a name given up is never     *)
(* used again by another module.  A row is the service it comes from and   *)
(* the name its index run attributed it to.                                *)
(***************************************************************************)
EXTENDS SchemaMigration

CONSTANTS
  Services,       \* module directories that aggregate nothing
  Microservices,  \* those that start an application
  Gradle,         \* those whose name gradle.py caches
  Root,           \* the directory the server federates and may index
  Server,         \* the opener that is the MCP server
  Order,          \* the services, sorted by path
  MaxName,        \* MaxName[s]: bound on the names module s goes through
  Initial,        \* the databases and module names a behaviour may start from
  MaxCalls,       \* bound on the tool calls
  MaxOpens        \* bound on the times a database is opened for writing

ASSUME DirectoriesAssumption == /\ Dbs \subseteq Services \cup {Root}
                                /\ Root \in Dbs
                                /\ Microservices \subseteq Services
                                /\ Gradle \subseteq Services
ASSUME InitialAssumption ==
  Initial \subseteq [db   : [Dbs -> {NoDatabase} \cup Releases],
                     name : {n \in [Services -> Nat] : \A s \in Services : n[s] <= MaxName[s]}]
ASSUME ServerAssumption == Server \in Openers
ASSUME NamesAssumption == /\ MaxName \in [Services -> Nat]
                          /\ Rows = UNION {{s} \X (1..MaxName[s]) : s \in Services}
ASSUME OrderAssumption == /\ Order \in Seq(Services)
                          /\ \A s \in Services : \E i \in 1..Len(Order) : Order[i] = s
ASSUME BoundsAssumption == {MaxCalls, MaxOpens} \subseteq Nat

VARIABLES
  name,     \* name[s]: the name of module s on disk, 0 before it exists
  cache,    \* cache[s]: what _gradle_artifact_name has cached, 0 if nothing
  known,    \* known[s]: the name the last reindex_findings of the server read
  call,     \* the tool call: local variables of load_federation
  calls,    \* how many calls have been made
  opens     \* how many times a database was opened for writing

vars == <<storeVars, name, cache, known, call, calls, opens>>
world == <<name, cache, known>>

NoRoot == "nowhere"

\* name, root: DiscoveredService; next: how far the loop over Order is;
\* loaded: the keys of findings_by_service; found: what endpoints_by_module holds;
\* signature: the one just read; warned: the services a warning names; stale:
\* those said to be stale; old: those whose endpoints came from an inventory that
\* was not current.
NoCall == [pc |-> "idle", next |-> 1,
           name |-> [s \in Services |-> 0], root |-> [s \in Services |-> NoRoot],
           loaded |-> {}, found |-> [s \in Services |-> {}], signature |-> "none",
           warned |-> {}, stale |-> {}, old |-> {}]

Init ==
  /\ \E start \in Initial : db = start.db /\ name = start.name
  /\ txn = db
  /\ lock = [b \in Dbs |-> NoOpener]
  /\ op = [o \in Openers |-> Idle]
  /\ cache = [s \in Services |-> 0]
  /\ known = [s \in Services |-> 0]
  /\ call = NoCall
  /\ calls = 0
  /\ opens = 0

\* The service the loop of load_federation is at.
Now == Order[call.next]

\* Between the opening of a database for reading and its closing.
Reading == {"modules", "dependencies", "findings", "endpoints", "signature", "indexed"}

\* A call that has returned, or that an exception has ended.
Ended == {"done", "locked", "failed"}

----------------------------------------------------------------------------
(* The world. *)

\* A module is created, or given another artifact name.
NameModule(s) ==
  /\ name[s] < MaxName[s]
  /\ name' = [name EXCEPT ![s] = @ + 1]
  /\ UNCHANGED <<storeVars, cache, known, call, calls, opens>>

\* A user removes .cccr while nobody has the database open.
RemoveDatabase(b) ==
  /\ db[b].file
  /\ \A o \in Openers : op[o].pc # "idle" => op[o].on # b
  /\ call.pc \in Reading => call.root[Now] # b
  /\ db' = [db EXCEPT ![b] = NoDatabase]
  /\ txn' = [txn EXCEPT ![b] = NoDatabase]
  /\ UNCHANGED <<lock, op, world, call, calls, opens>>

----------------------------------------------------------------------------
(* Index runs. *)

\* The rows a run in directory b stores: those of every module under b, under
\* the names they have now.
RowsOf(b) == {<<s, name[s]>> : s \in {t \in Services : name[t] # 0 /\ b \in {t, Root}}}

\* A CLI process starts with empty caches.
IndexFromCli(o) == o # Server /\ Publish(o, RowsOf(op[o].on))
                   /\ UNCHANGED <<world, call, calls, opens>>

\* Mutant: the gradle caches are left out.
CachesUncleared == [s \in Services |-> IF cache[s] = 0 THEN name[s] ELSE cache[s]]

\* clear_analysis_caches at the start of the run, then the run fills them again.
CachesCleared == [s \in Services |-> IF s \in Gradle THEN name[s] ELSE 0]


\* reindex_findings: the server works at Root and answers one call at a time.
IndexFromServer ==
  /\ op[Server].on = Root
  /\ Publish(Server, {<<s, CachesCleared[s]>> : s \in {t \in Gradle : CachesCleared[t] # 0}}
                     \cup {r \in RowsOf(Root) : r[1] \notin Gradle})
  /\ cache' = CachesCleared
  /\ known' = name
  /\ UNCHANGED <<name, call, calls, opens>>

OpenDatabase(o) ==
  /\ Open(o)
  /\ o = Server => call.pc \in Ended \cup {"idle"} /\ op'[o].on = Root
  /\ opens < MaxOpens
  /\ opens' = opens + 1
  /\ UNCHANGED <<world, call, calls>>

OpenerStep(o) == (Migrate(o) \/ Rejected(o)) /\ UNCHANGED <<world, call, calls, opens>>

OpenerDies(o) == Abort(o) /\ UNCHANGED <<world, call, calls, opens>>

----------------------------------------------------------------------------
(* discover_maven_services and load_federation. *)

\* _service_index_state: the database of the module itself, else that of Root.
OwnDatabase(s)  == s \in Dbs /\ db[s].file
Indexed(s) == OwnDatabase(s) \/ (db[Root].file /\ s # Root)
IndexRoot(s)    == IF OwnDatabase(s) \/ s = Root THEN s ELSE Root

\* discover_modules reads the build files, but for the names gradle.py has
\* cached: only an index run clears that cache.
DiscoveredName(s) == IF s \in Gradle /\ cache[s] # 0 THEN cache[s] ELSE name[s]

Discover ==
  LET here == {s \in Services : name[s] # 0} IN
  /\ call.pc \in Ended \cup {"idle"}
  /\ op[Server].pc = "idle"
  /\ calls < MaxCalls
  /\ calls' = calls + 1
  /\ cache' = [s \in Services |-> IF s \in Gradle \cap here THEN DiscoveredName(s) ELSE cache[s]]
  /\ call' = [NoCall EXCEPT
       !.pc = "next",
       !.name = [s \in Services |-> IF s \in here THEN DiscoveredName(s) ELSE 0],
       !.root = [s \in Services |-> IF s \in here /\ Indexed(s) THEN IndexRoot(s) ELSE NoRoot]]
  /\ UNCHANGED <<storeVars, name, known, opens>>

\* The next service; a module that was not discovered is not in the list, and
\* one that is not indexed is warned about and skipped.
NextService ==
  /\ call.pc = "next"
  /\ call.next <= Len(Order)
  /\ call' = IF call.root[Now] # NoRoot THEN [call EXCEPT !.pc = "open"]
             ELSE [call EXCEPT !.next = @ + 1,
                     !.warned = IF call.name[Now] = 0 THEN @ ELSE @ \cup {Now}]
  /\ UNCHANGED <<storeVars, world, calls, opens>>

\* Mutant: any version is good enough.
VersionUnchecked(d) == d.file /\ "meta" \in d.tables

\* The file exists, and its version is that of this release.  The file may have
\* gone since it was discovered.
Accepted(d) == d.file /\ "meta" \in d.tables /\ d.version = "current"

\* A writer keeps readers out while it commits, or spills a large transaction: a
\* reader that waits longer than the busy timeout gets "database is locked".
MayBeLocked(b) == \E o \in Openers : op[o].pc # "idle" /\ op[o].on = b

\* The next service, without this one, which a warning names.
Skipped == [call EXCEPT !.pc = "next", !.next = @ + 1, !.warned = @ \cup {Now}]

\* Mutant: the freshness is read first.
AfterFreshness == [open |-> "signature", signature |-> "indexed", indexed |-> "modules",
                   modules |-> "dependencies", dependencies |-> "findings",
                   findings |-> "endpoints", endpoints |-> "next"]

\* The order of the reads of one service.
After == [open |-> "modules", modules |-> "dependencies", dependencies |-> "findings",
          findings |-> "endpoints", endpoints |-> "signature", signature |-> "indexed",
          indexed |-> "next"]

\* The call c at its next read, or at the next service.
Onward(c) == IF After[c.pc] = "next" THEN [c EXCEPT !.pc = "next", !.next = @ + 1]
             ELSE [c EXCEPT !.pc = After[c.pc]]

\* Store(readonly=True): a StoreError is caught and becomes a warning, and the
\* read of the version makes one of "database is locked".
OpenReadOnly ==
  /\ call.pc = "open"
  /\ \/ Accepted(db[call.root[Now]]) /\ call' = Onward(call)
     \/ /\ ~Accepted(db[call.root[Now]]) \/ MayBeLocked(call.root[Now])
        /\ call' = Skipped
  /\ UNCHANGED <<storeVars, world, calls, opens>>

\* The columns a SELECT on table t, or the objects made of its rows, ask for.
ColumnsRead(t) == CASE t = "findings"  -> {"findings.module"}
                    [] t = "endpoints" -> {"endpoints.module", "endpoints.message_type"}
                    [] t = "modules"   -> {"modules.rest_controllers"}
                    [] OTHER           -> {}

Readable(t, d) == t \in d.tables /\ ColumnsRead(t) \subseteq d.columns

\* A SELECT on table t that makes of the call c; the exception that a missing
\* table or column raises is caught by nobody.
Select(t, c) ==
  /\ call' = IF Readable(t, db[call.root[Now]]) THEN Onward(c)
             ELSE [NoCall EXCEPT !.pc = "failed"]
  /\ UNCHANGED <<storeVars, world, calls, opens>>

\* all_modules, all_module_dependencies (the script creates its table after that
\* of modules) and all_findings: read into variables the properties do not tell
\* apart.
ReadModules      == call.pc = "modules"      /\ Select("modules", call)
ReadDependencies == call.pc = "dependencies" /\ Select("modules", call)
ReadFindings     == call.pc = "findings"     /\ Select("findings", call)

\* The rows of a database of the module's own, or those Root attributes to the
\* name of the module.
RowsFor(s, d) == IF call.root[s] = s THEN d.rows
                 ELSE {r \in d.rows : r[2] = call.name[s] /\ r[1] = s}

\* all_endpoints, and what the federation keeps of the service.
ReadEndpoints ==
  LET d == db[call.root[Now]] IN
  /\ call.pc = "endpoints"
  /\ Select("endpoints",
       [call EXCEPT !.loaded = @ \cup {Now}, !.found[Now] = RowsFor(Now, d),
                    !.old = IF d.inventory = "current" THEN @ ELSE @ \cup {Now}])

\* get_meta("endpoint_inventory_signature")
Signature(i) == IF i \in {"never", "unsigned"} THEN "none" ELSE i

ReadSignature ==
  /\ call.pc = "signature"
  /\ Select("meta", [call EXCEPT !.signature = Signature(db[call.root[Now]].inventory)])

\* get_meta("endpoint_inventory_indexed"), and endpoint_inventory_warning: without
\* a signature nor an indexing there is nothing to warn about.
ReadIndexed ==
  LET indexed == db[call.root[Now]].inventory # "never"
      stale   == call.signature = "old" \/ (call.signature = "none" /\ indexed)
  IN /\ call.pc = "indexed"
     /\ Select("meta", [call EXCEPT !.signature = "none",
                                    !.stale = IF stale THEN @ \cup {Now} ELSE @])

\* "database is locked" in any of them is an OperationalError, not a StoreError:
\* it ends the call.
LockedOut ==
  /\ call.pc \in Reading
  /\ MayBeLocked(call.root[Now])
  /\ call' = [NoCall EXCEPT !.pc = "locked"]
  /\ UNCHANGED <<storeVars, world, calls, opens>>

\* dependency_federation_warning names the microservices without an inventory.
Finish ==
  /\ call.pc = "next"
  /\ call.next > Len(Order)
  /\ call' = [call EXCEPT !.pc = "done",
       !.warned = @ \cup {s \in Microservices : call.name[s] # 0 /\ s \notin call.loaded}]
  /\ UNCHANGED <<storeVars, world, calls, opens>>

CallStep ==
  \/ NextService \/ OpenReadOnly \/ ReadModules \/ ReadDependencies \/ ReadFindings
  \/ ReadEndpoints \/ ReadSignature \/ ReadIndexed \/ LockedOut \/ Finish

Next ==
  \/ \E s \in Services : NameModule(s)
  \/ \E b \in Dbs : RemoveDatabase(b)
  \/ \E o \in Openers : OpenDatabase(o) \/ OpenerStep(o) \/ OpenerDies(o) \/ IndexFromCli(o)
  \/ IndexFromServer
  \/ Discover
  \/ CallStep

Spec == Init /\ [][Next]_vars

\* A process that has opened a database goes on, and so does a tool call.
FairSpec == /\ Spec
            /\ WF_vars(CallStep)
            /\ \A o \in Openers : WF_vars(OpenerStep(o))
            /\ \A o \in Openers : WF_vars(IndexFromCli(o))
            /\ WF_vars(IndexFromServer)

----------------------------------------------------------------------------

Calls == [pc : {"idle", "next", "open"} \cup Reading \cup Ended,
          next : Nat \ {0}, name : [Services -> Nat], root : [Services -> Dbs \cup {NoRoot}],
          loaded : SUBSET Services, found : [Services -> SUBSET Rows],
          signature : {"none", "old", "current"},
          warned : SUBSET Services, stale : SUBSET Services, old : SUBSET Services]

TypeOK ==
  /\ StoreTypeOK
  /\ name \in [Services -> Nat]
  /\ cache \in [Services -> Nat]
  /\ known \in [Services -> Nat]
  /\ call \in Calls
  /\ calls \in 0..MaxCalls
  /\ opens \in 0..MaxOpens

\* A database being created, migrated, or left half migrated by a process that
\* died never makes a federation fail: it is refused with a warning, and one that
\* was accepted keeps the tables and columns that the four SELECTs ask for, one
\* after the other.  "Never a global failure because of one bad module"
\* (ADR.md:847-849) is left with one exception, a database that stays locked
\* while it is read (workspace.py:145-170).
OnlyALockFailsACall == call.pc # "failed"

\* No service disappears from a federation in silence: each one is loaded, or a
\* warning names it, whatever happened to its database since it was discovered
\* (workspace.py:137-170).
LoadedOrWarned ==
  call.pc = "done" => \A s \in Services : call.name[s] # 0 => s \in call.loaded \cup call.warned

\* A service said to have a stale inventory was read from a stale inventory: a
\* run that commits while the database is read raises no false alarm
\* (workspace.py:161-168).
StaleWarningIsTrue == call.stale \subseteq call.old

\* What a federation says of the services is the truth: none is missing from it
\* in silence, and none is said to be stale that was read after its last run.
FederationTellsTheTruth == LoadedOrWarned /\ StaleWarningIsTrue

\* After reindex_findings the server names a module as that run did, or newer:
\* its caches never answer with what they held before (scanner.py:3449-3469,
\* gradle.py:92).
NamesAsRecentAsReindex ==
  \A s \in Services : cache[s] # 0 => cache[s] >= known[s]

\* Whatever the other processes do to the databases, a tool call ends, and so
\* does every process that opened one.
EverybodyEnds ==
  /\ call.pc = "next" ~> call.pc \in Ended
  /\ \A o \in Openers : op[o].pc # "idle" ~> op[o].pc = "idle"

=============================================================================
