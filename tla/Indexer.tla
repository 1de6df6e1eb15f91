------------------------------ MODULE Indexer ------------------------------
(***************************************************************************)
(* index_repo (indexer.py) run by several processes, the CLI (`cccr        *)
(* index`) and the long-lived MCP server (reindex_findings), against one   *)
(* SQLite database, while files, rule files and the configuration change.  *)
(*                                                                         *)
(* Each run is a sequence of steps, cut where the code reads something a   *)
(* concurrent change can invalidate: the configuration, the signatures,    *)
(* the file hashes, the file contents (read again by Semgrep, by the local *)
(* inference and by the chunker), and where it takes the write lock.       *)
(*                                                                         *)
(* A revision stands for a content and for its hash: the model assumes     *)
(* that a file is not restored to an earlier content while a run reads it. *)
(***************************************************************************)
EXTENDS Store

CONSTANTS
  Procs,       \* the processes that may index
  Servers,     \* those that are MCP servers; the others are CLI invocations
  CliOptions,  \* the option records a CLI invocation may be given
  Publishes,   \* Publishes[f]: the OpenAPI contracts that f, a pom.xml, may name
  Unlisted,    \* the paths no listing contains: excluded, or sources of tests
  MaxRev,      \* bound on the revisions of one file
  MaxConf,     \* bound on the revisions of .cccr/config.yml
  MaxRules,    \* bound on the revisions of the rule files
  NoProc       \* owner of a free write lock

Options == [engine : Engines, strategy : Strategies,
            semgrep : BOOLEAN, findings : BOOLEAN, full : BOOLEAN]

\* index_cmd removes "semgrep" from the disabled set when --semgrep is given
\* and rejects --topic-strategy with the cocoindex engine.
ASSUME OptionsAssumption ==
  /\ CliOptions \subseteq Options
  /\ \A o \in CliOptions : /\ o.findings => o.semgrep
                           /\ o.engine = "cocoindex" => o.strategy = "default"
ASSUME ProcsAssumption  == Servers \subseteq Procs /\ NoProc \notin Procs
\* A pom.xml is one of the files the join of strategy1 depends on.
ASSUME PublishesAssumption ==
  /\ Publishes \in [Files -> SUBSET Files]
  /\ \A f \in Files : Publishes[f] # {} => f \in JoinFiles
ASSUME UnlistedAssumption == Unlisted \subseteq Files \ JoinFiles
ASSUME BoundsAssumption == MaxRev \in Nat /\ MaxConf \in Nat /\ MaxRules \in Nat

VARIABLES
  rev,      \* rev[f]: how many states (contents or absences) path f went through
  present,  \* the paths that exist on disk
  inputs,   \* the current revisions of config.yml and of the rule files
  db,       \* the committed database
  txn,      \* the database as the owner of the write lock sees it
  lock,     \* the process holding SQLite's RESERVED lock
  run       \* run[p]: the local variables of the run of process p

world == <<rev, present, inputs>>
vars  == <<rev, present, inputs, db, txn, lock, run>>

Phases == {"idle", "signature", "list", "purge", "scan", "infer", "write",
           "chunks", "commit"}

NoOptions == [engine |-> "manual", strategy |-> "default",
              semgrep |-> FALSE, findings |-> FALSE, full |-> FALSE]

\* seen: current_hashes; raw: Semgrep's output; local: the endpoints inferred
\* for the changed paths; published: those inferred for contracts.
Runs == [pc : Phases, opt : Options, conf : Nat, sig : InputRevs,
         seen : [Files -> Nat], changed : SUBSET Files, deleted : SUBSET Files,
         raw : [Files -> RawRows], local : [Files -> EndpointRows],
         published : [Files -> SUBSET Nat]]

Idle == [pc |-> "idle", opt |-> NoOptions, conf |-> 0, sig |-> NoInputs,
         seen |-> [f \in Files |-> 0], changed |-> {}, deleted |-> {},
         raw |-> [f \in Files |-> NoRaw],
         local |-> [f \in Files |-> NoEndpoint],
         published |-> NothingPublished]

Init ==
  /\ rev = [f \in Files |-> 1]
  /\ present \in SUBSET Files
  /\ inputs = [conf |-> 1, rules |-> 1]
  /\ db = EmptyDb
  /\ txn = db
  /\ lock = NoProc
  /\ run = [p \in Procs |-> Idle]

----------------------------------------------------------------------------
(* The repository changes under the indexer's feet. *)

WriteFile(f) ==
  /\ rev[f] < MaxRev
  /\ rev' = [rev EXCEPT ![f] = @ + 1]
  /\ present' = present \cup {f}
  /\ UNCHANGED <<inputs, db, txn, lock, run>>

DeleteFile(f) ==
  /\ f \in present
  /\ rev[f] < MaxRev
  /\ rev' = [rev EXCEPT ![f] = @ + 1]
  /\ present' = present \ {f}
  /\ UNCHANGED <<inputs, db, txn, lock, run>>

ChangeRules ==
  /\ inputs.rules < MaxRules
  /\ inputs' = [inputs EXCEPT !.rules = @ + 1]
  /\ UNCHANGED <<rev, present, db, txn, lock, run>>

ChangeConfig ==
  /\ inputs.conf < MaxConf
  /\ inputs' = [inputs EXCEPT !.conf = @ + 1]
  /\ UNCHANGED <<rev, present, db, txn, lock, run>>

----------------------------------------------------------------------------
(* One run of index_repo. *)

\* reindex_findings: default arguments, engine chosen by the stored meta.
ServerOptions ==
  [engine |-> IF db.engine = "cocoindex" THEN "cocoindex" ELSE "manual",
   strategy |-> "default", semgrep |-> TRUE, findings |-> TRUE, full |-> FALSE]

OptionsOf(p) == IF p \in Servers THEN {ServerOptions} ELSE CliOptions

\* index_cmd / reindex_findings load config.yml before they open the store.
Start(p) ==
  /\ run[p].pc = "idle"
  /\ \E o \in OptionsOf(p) :
       run' = [run EXCEPT ![p] = [Idle EXCEPT !.pc = "signature", !.opt = o,
                                              !.conf = inputs.conf]]
  /\ UNCHANGED <<world, db, txn, lock>>

\* Mutants: one of the three comparisons is forgotten.
ForcesFullButInputs(o, sig)   == o.full \/ db.strategy # o.strategy
ForcesFullButStrategy(o, sig) == o.full \/ db.inputs # sig

\* Every input whose fingerprint is compared with the stored one, and the
\* full rescan a difference forces.
ForcesFull(o, sig) == o.full \/ db.strategy # o.strategy \/ db.inputs # sig

ReadSignatures(p) ==
  /\ run[p].pc = "signature"
  /\ run' = [run EXCEPT ![p].pc = "list",
                        ![p].sig = inputs,
                        ![p].opt.full = ForcesFull(run[p].opt, inputs)]
  /\ UNCHANGED <<world, db, txn, lock>>

\* _list_repo_files: the hash of every path that exists and is not excluded.
HashesOnDisk == [f \in Files |-> IF f \in present \ Unlisted THEN rev[f] ELSE 0]

\* Mutants: a deletion, or a modification, goes unnoticed.
DeletedFromIgnored(prev, seen) == {}
DeltaFromNewOnly(prev, seen)   == {f \in Files : seen[f] # 0 /\ prev[f] = 0}

DeletedFrom(prev, seen) == {f \in Files : prev[f] # 0 /\ seen[f] = 0}
DeltaFrom(prev, seen)   == {f \in Files : seen[f] # 0 /\ prev[f] # seen[f]}
Listed(seen)            == {f \in Files : seen[f] # 0}

\* Mutant: the delta alone is rescanned, as under the default strategy.
JoinTouchedIgnored(o, S) == FALSE

\* _strategy1_requires_full_reindex: the change touches the cross-module join.
JoinTouched(o, S) == o.strategy = "strategy1" /\ S \cap JoinFiles # {}

ChangedFrom(o, prev, seen) ==
  IF o.full \/ JoinTouched(o, DeltaFrom(prev, seen) \cup DeletedFrom(prev, seen))
  THEN Listed(seen) ELSE DeltaFrom(prev, seen)

\* Where the run goes once the deleted files are out of the way.
AfterPurge(o, changed) == IF changed = {} THEN "write"
                          ELSE IF o.semgrep THEN "scan" ELSE "infer"

ListFiles(p) ==
  LET o       == run[p].opt
      deleted == DeletedFrom(db.hash, HashesOnDisk)
      changed == ChangedFrom(o, db.hash, HashesOnDisk)
  IN /\ run[p].pc = "list"
     /\ run' = [run EXCEPT ![p] =
          [run[p] EXCEPT
             !.pc = IF deleted # {} THEN "purge" ELSE AfterPurge(o, changed),
             !.opt = [o EXCEPT !.full = FALSE],
             !.seen = HashesOnDisk,
             !.changed = changed,
             !.deleted = deleted]]
     /\ UNCHANGED <<world, db, txn, lock>>

\* The first statement that writes opens the transaction and takes the lock.
CanWrite(p) == lock \in {NoProc, p}

PurgeDeleted(p) ==
  /\ run[p].pc = "purge"
  /\ CanWrite(p)
  /\ lock' = p
  /\ txn' = RemoveFiles(txn, run[p].deleted)
  /\ run' = [run EXCEPT ![p].pc = AfterPurge(run[p].opt, run[p].changed),
                        ![p].deleted = {}]
  /\ UNCHANGED <<world, db>>

\* invoke_semgrep_raw reads the files and the rule files as they are now, but
\* applies the configuration the run loaded when it started.
Scan(p) ==
  /\ run[p].pc = "scan"
  /\ run' = [run EXCEPT
       ![p].pc = "infer",
       ![p].raw = [f \in Files |->
          IF f \in run[p].changed
          THEN [rev |-> rev[f], conf |-> run[p].conf, rules |-> inputs.rules]
          ELSE NoRaw]]
  /\ UNCHANGED <<world, db, txn, lock>>

Contracts  == UNION {Publishes[f] : f \in Files}
NamedBy(S) == UNION {Publishes[f] : f \in S}

\* The endpoints of the changed paths, read again with the files they are
\* resolved against.
Inferred(r) ==
  [f \in Files |->
     IF f \in r.changed
     THEN [rev |-> rev[f], join |-> [j \in JoinFiles |-> rev[j]],
           raw |-> r.raw[f], strategy |-> r.opt.strategy]
     ELSE NoEndpoint]

\* The operations of the contracts of S, in the delta or not, as they are now.
OperationsOf(S) == [f \in Files |-> IF f \in S \cap present THEN {rev[f]} ELSE {}]

\* The local inference.  A changed pom.xml adds the operations of the contracts
\* it names, provided its module has controllers.
Infer(p) ==
  /\ run[p].pc = "infer"
  /\ \E named \in SUBSET NamedBy(run[p].changed) :
       run' = [run EXCEPT ![p].pc = "write",
                          ![p].local = Inferred(run[p]),
                          ![p].published = OperationsOf(named)]
  /\ UNCHANGED <<world, db, txn, lock>>

\* Mutant: the hash that is stored is taken when the results are written.
ResultsHashedLate(d, r) ==
  LET d1 == IF r.opt.findings THEN ReplaceFindings(d, r.changed, r.raw) ELSE d
      d2 == ReplaceEndpoints(d1, r.changed, r.local, r.published)
      d3 == SetFileHashes(d2, r.changed, HashesOnDisk)
  IN [d3 EXCEPT !.strategy = r.opt.strategy, !.inputs = r.sig]

\* Mutant: the engine is recorded as the strategy.
ResultsMetaSwapped(d, r) ==
  LET d1 == IF r.opt.findings THEN ReplaceFindings(d, r.changed, r.raw) ELSE d
      d2 == ReplaceEndpoints(d1, r.changed, r.local, r.published)
      d3 == SetFileHashes(d2, r.changed, r.seen)
  IN [d3 EXCEPT !.strategy = r.opt.engine, !.inputs = r.sig]

\* Findings are replaced only when they were asked for; endpoints, hashes and
\* signatures always are.
Results(d, r) ==
  LET d1 == IF r.opt.findings THEN ReplaceFindings(d, r.changed, r.raw) ELSE d
      d2 == ReplaceEndpoints(d1, r.changed, r.local, r.published)
      d3 == SetFileHashes(d2, r.changed, r.seen)
  IN [d3 EXCEPT !.strategy = r.opt.strategy, !.inputs = r.sig]

WriteResults(p) ==
  /\ run[p].pc = "write"
  /\ CanWrite(p)
  /\ lock' = p
  /\ txn' = Results(txn, run[p])
  /\ run' = [run EXCEPT ![p].pc = IF run[p].opt.engine = "cocoindex"
                                  THEN "chunks" ELSE "commit"]
  /\ UNCHANGED <<world, db>>

\* Mutant: files that have chunks already are left alone.
ChunkPathsMissing(d, r) == {f \in Listed(r.seen) : d.chunk[f] = 0}

\* The changed files, or every listed file when nothing changed and no chunk
\* was ever indexed.
ChunkPaths(d, r) == IF r.changed = {} /\ NoChunk(d) THEN Listed(r.seen) ELSE r.changed

\* _chunk_code_file reads each file again; a file that is gone has no chunk.
IndexChunks(p) ==
  /\ run[p].pc = "chunks"
  /\ txn' = ReplaceCodeChunks(txn, ChunkPaths(txn, run[p]), HashesOnDisk)
  /\ run' = [run EXCEPT ![p].pc = "commit"]
  /\ UNCHANGED <<world, db, lock>>

\* set_meta("index_engine"), then Store.__exit__ without an exception.
Commit(p) ==
  /\ run[p].pc = "commit"
  /\ db' = [txn EXCEPT !.engine = run[p].opt.engine]
  /\ txn' = db'
  /\ lock' = NoProc
  /\ run' = [run EXCEPT ![p] = Idle]
  /\ UNCHANGED world

\* Mutant: __exit__ commits whatever happened.
RollbackCommitting(p) ==
  /\ run' = [run EXCEPT ![p] = Idle]
  /\ lock' = IF lock = p THEN NoProc ELSE lock
  /\ db' = IF lock = p THEN txn ELSE db
  /\ UNCHANGED <<world, txn>>

\* Store.__exit__ with an exception, or the death of the process: whatever the
\* transaction wrote is rolled back, and the lock it held is free again.
Rollback(p) ==
  /\ run' = [run EXCEPT ![p] = Idle]
  /\ lock' = IF lock = p THEN NoProc ELSE lock
  /\ txn' = IF lock = p THEN db ELSE txn
  /\ UNCHANGED <<world, db>>

\* SemgrepError, EmbeddingError, any other exception, or a crash.
Fail(p) == run[p].pc # "idle" /\ Rollback(p)

\* Mutant: a connection without a busy timeout's end.
LockTimeoutNever(p) ==
  /\ run[p].pc \in {"purge", "write"}
  /\ ~CanWrite(p)
  /\ UNCHANGED vars

\* sqlite3's busy timeout expires while another process holds the lock.
LockTimeout(p) ==
  /\ run[p].pc \in {"purge", "write"}
  /\ ~CanWrite(p)
  /\ Rollback(p)

Step(p) ==
  \/ ReadSignatures(p) \/ ListFiles(p) \/ PurgeDeleted(p) \/ Scan(p) \/ Infer(p)
  \/ WriteResults(p) \/ IndexChunks(p) \/ Commit(p) \/ LockTimeout(p)

Next ==
  \/ \E f \in Files : WriteFile(f) \/ DeleteFile(f)
  \/ ChangeRules
  \/ ChangeConfig
  \/ \E p \in Procs : Start(p) \/ Step(p) \/ Fail(p)

Spec == Init /\ [][Next]_vars

\* A run that has started keeps going: nothing in index_repo waits forever.
FairSpec == Spec /\ \A p \in Procs : WF_vars(Step(p))

----------------------------------------------------------------------------
(* What the index promises. *)

TypeOK ==
  /\ rev \in [Files -> Nat]
  /\ present \in SUBSET Files
  /\ inputs \in InputRevs
  /\ db \in Databases
  /\ txn \in Databases
  /\ lock \in Procs \cup {NoProc}
  /\ run \in [Procs -> Runs]

\* The incremental delta trusts the stored hash of a path.
Current(f) == f \in present /\ db.hash[f] = rev[f]

\* A file the next run will skip as unchanged has endpoints of its own computed
\* from the content it has now.  The code hashes before it scans (indexer.py:394,
\* 474), so a file edited in between is scanned again; whatever the other
\* processes do, a stored hash never vouches for older rows.
HashMeansIndexed == \A f \in Files : Current(f) => db.endpoint[f].rev = rev[f]

\* The same for the operations a pom.xml has stored under the path of a contract,
\* as long as runs do not overlap: a contract whose hash is current shows those
\* of no other content, whichever of the two files was edited, and scanned, when
\* (scanner.py:1378-1393, store.py:607-614).
ContractsMatchHash ==
  \A f \in Files : Current(f) => db.published[f] \subseteq {rev[f]}

\* The same for findings, when every run indexes them.
FindingsMatchHash == \A f \in Files : Current(f) => db.finding[f].rev = rev[f]

\* The same for code chunks, when every run uses the cocoindex engine.
ChunksMatchHash == \A f \in Files : Current(f) => db.chunk[f] = rev[f]

\* A path without a stored hash has no rows of its own: the only purge a path ever
\* gets is the one of remove_files, and a path that is not in the files table never
\* gets it again, so a row left behind would be served forever (indexer.py:413,
\* 453).  The rows a pom.xml stores for a contract are such rows: see
\* DeletedFilesArePurged.
NoGhostRows ==
  \A f \in Files : db.hash[f] = 0 => /\ db.finding[f] = NoRaw
                                     /\ db.endpoint[f] = NoEndpoint

\* "A file deleted from disk must not leave behind ghost endpoints" (ADR.md:673):
\* a run that has nothing to scan leaves no row of a file that is gone.
DeletedFilesArePurged ==
  [][\A p \in Procs : Commit(p) /\ run[p].changed = {} =>
        \A f \in Files \ present : run[p].seen[f] = 0 =>
           /\ db'.finding[f] = NoRaw
           /\ db'.endpoint[f] = NoEndpoint
           /\ db'.published[f] = {}]_vars

\* The same for code chunks, whose backfill writes paths that were not changed
\* (indexer.py:555-556).
NoGhostChunks == \A f \in Files : db.hash[f] = 0 => db.chunk[f] = 0

\* The stored signature never vouches for rule files newer than the ones a row
\* was scanned with: it is computed before the scan, and a different one forces
\* a full rescan (indexer.py:389-391).
RulesSound ==
  \A f \in Files : db.hash[f] # 0 =>
    /\ db.endpoint[f].raw.rev # 0 => db.endpoint[f].raw.rules >= db.inputs.rules
    /\ db.finding[f].rev # 0      => db.finding[f].rules >= db.inputs.rules

\* Every endpoint of the index was extracted under the strategy the index
\* records (indexer.py:387-388).
StrategyUniform ==
  \A f \in Files : db.hash[f] # 0 => db.endpoint[f].strategy = db.strategy

\* Under strategy1 a file resolved against a join file is up to date with it as
\* soon as the stored hashes say nothing is left to index.
NothingToIndex ==
  \A f \in Files \ Unlisted : IF f \in present THEN Current(f) ELSE db.hash[f] = 0
JoinSound ==
  db.strategy = "strategy1" /\ NothingToIndex =>
    \A f \in present \ Unlisted : \A j \in JoinFiles \cap present :
      db.endpoint[f].join[j] = rev[j]

\* Only a run that got through every phase, and holds the lock, changes what
\* other connections read; a failed, killed or timed out run publishes nothing.
OnlyCompletedRunsPublish ==
  [][db' # db => \E p \in Procs : run[p].pc = "commit" /\ lock = p]_vars

\* With no other indexer running, what a run publishes is the whole of what it
\* listed: no path of the listing is missing and no other path is left.
CommitPublishesListing ==
  [][\A p \in Procs : Commit(p) => db'.hash = run[p].seen]_vars

\* reindex_findings exists to check that a finding is gone after a patch: once
\* it has committed, a file that has not moved since has its findings.
ReindexRefreshesFindings ==
  [][\A p \in Servers : Commit(p) =>
        \A f \in Files : f \in present /\ db'.hash[f] = rev[f] =>
                           db'.finding[f].rev = rev[f]]_vars

\* Every run ends, whoever holds the lock.
RunTerminates == \A p \in Procs : run[p].pc # "idle" ~> run[p].pc = "idle"

\* The index of a repository that stops changing converges, provided runs keep
\* completing: failures may be as many as they like.
Fresh ==
  \A f \in Files \ Unlisted :
    IF f \in present THEN Current(f) /\ db.endpoint[f].rev = rev[f] ELSE db.hash[f] = 0
EventuallyFresh ==
  ([]<><<\E p \in Procs : Commit(p)>>_run) => <>[]Fresh

\* A run with --engine cocoindex leaves a code chunk index of the repository:
\* when it commits, a file that has not moved has its chunks.
CocoindexIndexesEveryFile ==
  [][\A p \in Procs :
        Commit(p) /\ run[p].opt.engine = "cocoindex" =>
          \A f \in Files : f \in present /\ db'.hash[f] = rev[f] =>
                             db'.chunk[f] = rev[f]]_vars

----------------------------------------------------------------------------
(* The indexer implements the abstract index of IndexSpec: what a reader    *)
(* sees of a path is its stored hash, the content its endpoints were        *)
(* extracted from, and the contents whose operations a pom.xml stored.      *)

IndexOf(d) == [f \in Files |-> [hash |-> d.hash[f], facts |-> d.endpoint[f].rev,
                                published |-> d.published[f]]]

Abstract == INSTANCE IndexSpec WITH index <- IndexOf(db)

\* Every step of the indexer is a step of IndexSpec or leaves it alone.
ImplementsIndexSpec == Abstract!Spec

----------------------------------------------------------------------------
(* The inductive invariant behind the properties above. *)

\* Only contents a contract has had are published for it.
OnceContents(f) == {n \in 1..rev[f] : f \in Contracts}
PublishedOK(d)  == \A f \in Files : d.published[f] \subseteq OnceContents(f)

\* A database in which a path is either absent or has a hash no newer than its
\* endpoints, and rows of its own only if it has a hash.
Consistent(d) ==
  \A f \in Files :
    \/ d.hash[f] = 0 /\ d.finding[f] = NoRaw /\ d.endpoint[f] = NoEndpoint
    \/ d.hash[f] \in 1..d.endpoint[f].rev /\ d.endpoint[f].rev <= rev[f]

\* What a run has read is no newer than the repository, in reading order.
RunOK(r) ==
  /\ \A f \in Files : r.seen[f] <= rev[f]
  /\ \A f \in r.changed : r.seen[f] # 0
  /\ r.pc = "write" => \A f \in r.changed : /\ r.seen[f] <= r.local[f].rev
                                            /\ r.local[f].rev <= rev[f]

\* The lock belongs to a run that has written; without an owner there is no
\* uncommitted data.
LockOK ==
  /\ lock = NoProc => txn = db
  /\ \A p \in Procs : lock = p => run[p].pc \in {"scan", "infer", "write", "chunks", "commit"}
  /\ \A p \in Procs : run[p].pc \in {"chunks", "commit"} => lock = p

IndexInv ==
  /\ \A f \in Files : rev[f] # 0
  /\ Consistent(db)
  /\ Consistent(txn)
  /\ PublishedOK(db)
  /\ PublishedOK(txn)
  /\ \A p \in Procs : RunOK(run[p]) /\ PublishedOK(run[p])
  /\ LockOK
=============================================================================
