--------------------------- MODULE IndexerProofs ---------------------------
(***************************************************************************)
(* What holds of Indexer for any number of processes, files and revisions. *)
(***************************************************************************)
EXTENDS Indexer, TLAPS

\* The rows and databases the code starts from are well typed.
LEMMA EmptyTypes ==
  /\ NoRaw \in RawRows
  /\ NoInputs \in InputRevs
  /\ NothingPublished \in [Files -> SUBSET Nat]
  /\ NoEndpoint \in EndpointRows
  /\ EmptyDb \in Databases
<1>1. /\ NoRaw \in RawRows /\ NoInputs \in InputRevs
      /\ NothingPublished \in [Files -> SUBSET Nat]
  BY DEF NoRaw, RawRows, NoInputs, InputRevs, NothingPublished
<1>2. NoEndpoint \in EndpointRows
  BY <1>1 DEF NoEndpoint, EndpointRows, NoJoin, NoName
<1>3. EmptyDb \in Databases
  BY <1>1, <1>2 DEF EmptyDb, Databases, NoName
<1>4. QED
  BY <1>1, <1>2, <1>3

LEMMA IdleType == Idle \in Runs
<1>1. NoOptions \in Options
  BY DEF NoOptions, Options, Engines, Strategies
<1>2. QED
  BY <1>1, EmptyTypes DEF Idle, Runs, Phases

\* The operations of Store keep a database well typed.
LEMMA RemoveFilesType ==
  ASSUME NEW d \in Databases, NEW S \in SUBSET Files
  PROVE  RemoveFiles(d, S) \in Databases
<1>1. /\ Purge(d.hash, S, 0) \in [Files -> Nat]
      /\ Purge(d.chunk, S, 0) \in [Files -> Nat]
      /\ Purge(d.finding, S, NoRaw) \in [Files -> RawRows]
      /\ Purge(d.endpoint, S, NoEndpoint) \in [Files -> EndpointRows]
      /\ Purge(d.published, S, {}) \in [Files -> SUBSET Nat]
  BY EmptyTypes DEF Purge, Databases
<1>2. QED
  BY <1>1 DEF Databases, RemoveFiles

LEMMA ReplaceRevsType ==
  ASSUME NEW d \in Databases, NEW S \in SUBSET Files, NEW revs \in [Files -> Nat]
  PROVE  /\ ReplaceCodeChunks(d, S, revs) \in Databases
         /\ SetFileHashes(d, S, revs) \in Databases
<1>1. /\ Replace(d.chunk, S, revs) \in [Files -> Nat]
      /\ Replace(d.hash, S, revs) \in [Files -> Nat]
  BY DEF Replace, Databases
<1>2. QED
  BY <1>1 DEF Databases, ReplaceCodeChunks, SetFileHashes

LEMMA ReplaceFindingsType ==
  ASSUME NEW d \in Databases, NEW S \in SUBSET Files, NEW raw \in [Files -> RawRows]
  PROVE  ReplaceFindings(d, S, raw) \in Databases
<1>1. Replace(d.finding, S, raw) \in [Files -> RawRows]
  BY DEF Replace, Databases
<1>2. QED
  BY <1>1 DEF Databases, ReplaceFindings

LEMMA ReplaceEndpointsType ==
  ASSUME NEW d \in Databases, NEW S \in SUBSET Files,
         NEW local \in [Files -> EndpointRows], NEW contracts \in [Files -> SUBSET Nat]
  PROVE  ReplaceEndpoints(d, S, local, contracts) \in Databases
<1>1. Replace(d.endpoint, S, local) \in [Files -> EndpointRows]
  BY DEF Replace, Databases
<1>2. [f \in Files |-> Purge(d.published, S, {})[f] \cup contracts[f]]
        \in [Files -> SUBSET Nat]
  BY DEF Purge, Databases
<1>3. QED
  BY <1>1, <1>2 DEF Databases, ReplaceEndpoints

LEMMA ResultsType ==
  ASSUME NEW d \in Databases, NEW r \in Runs
  PROVE  Results(d, r) \in Databases
<1> DEFINE d1 == IF r.opt.findings THEN ReplaceFindings(d, r.changed, r.raw) ELSE d
           d2 == ReplaceEndpoints(d1, r.changed, r.local, r.published)
           d3 == SetFileHashes(d2, r.changed, r.seen)
<1>0. /\ r.changed \in SUBSET Files /\ r.raw \in [Files -> RawRows]
      /\ r.local \in [Files -> EndpointRows] /\ r.seen \in [Files -> Nat]
      /\ r.sig \in InputRevs /\ r.opt.strategy \in Strategies
      /\ r.published \in [Files -> SUBSET Nat]
  BY DEF Runs, Options
<1>1. d1 \in Databases
  BY <1>0, ReplaceFindingsType
<1>2. d2 \in Databases
  <2> HIDE DEF d1
  <2>1. QED BY <1>0, <1>1, ReplaceEndpointsType
<1>3. d3 \in Databases
  <2> HIDE DEF d2
  <2>1. QED BY <1>0, <1>2, ReplaceRevsType
<1>4. [d3 EXCEPT !.strategy = r.opt.strategy, !.inputs = r.sig] \in Databases
  <2> HIDE DEF d3
  <2>1. QED BY <1>0, <1>3 DEF Databases
<1>5. QED
  BY <1>4 DEF Results

----------------------------------------------------------------------------
(* Type correctness. *)

LEMMA InitType == Init => TypeOK
<1> SUFFICES ASSUME Init PROVE TypeOK
  OBVIOUS
<1>1. rev \in [Files -> Nat] /\ inputs \in InputRevs
  BY DEF Init, InputRevs
<1>2. db \in Databases /\ txn \in Databases
  BY EmptyTypes DEF Init
<1>3. run \in [Procs -> Runs]
  BY IdleType DEF Init
<1>4. QED
  BY <1>1, <1>2, <1>3 DEF Init, TypeOK

\* Every step of a run leaves its local variables well typed.
LEMMA RunTypes ==
  ASSUME TypeOK, NEW p \in Procs, Step(p) \/ Start(p) \/ Fail(p)
  PROVE  run' \in [Procs -> Runs]
<1> USE DEF TypeOK
<1>0. run[p] \in Runs /\ Idle \in Runs
  BY IdleType
<1>h. HashesOnDisk \in [Files -> Nat]
  BY DEF HashesOnDisk
<1>1. CASE Start(p)
  <2>1. PICK o \in OptionsOf(p) :
          run' = [run EXCEPT ![p] = [Idle EXCEPT !.pc = "signature", !.opt = o,
                                                 !.conf = inputs.conf]]
    BY <1>1 DEF Start
  <2>2. o \in Options
    <3>1. ServerOptions \in Options
      BY DEF ServerOptions, Options, Engines, Strategies
    <3>2. CliOptions \subseteq Options
      BY OptionsAssumption
    <3>3. QED BY <3>1, <3>2 DEF OptionsOf
  <2>3. inputs.conf \in Nat
    BY DEF InputRevs
  <2>4. [Idle EXCEPT !.pc = "signature", !.opt = o, !.conf = inputs.conf] \in Runs
    BY <1>0, <2>2, <2>3 DEF Runs, Phases
  <2>5. QED BY <2>1, <2>4
<1>2. CASE ReadSignatures(p)
  <2> DEFINE o == [run[p].opt EXCEPT !.full = ForcesFull(run[p].opt, inputs)]
  <2>1. o \in Options
    BY <1>0 DEF Runs, Options, ForcesFull
  <2>2. [run[p] EXCEPT !.pc = "list", !.sig = inputs, !.opt = o] \in Runs
    BY <1>0, <2>1 DEF Runs, Phases
  <2>3. QED BY <1>2, <2>2 DEF ReadSignatures
<1>3. CASE ListFiles(p)
  <2> DEFINE changed == ChangedFrom(run[p].opt, db.hash, HashesOnDisk)
             deleted == DeletedFrom(db.hash, HashesOnDisk)
             pc == IF deleted # {} THEN "purge" ELSE AfterPurge(run[p].opt, changed)
             o == [run[p].opt EXCEPT !.full = FALSE]
  <2>1. changed \in SUBSET Files /\ deleted \in SUBSET Files
    BY DEF ChangedFrom, DeletedFrom, Listed, DeltaFrom
  <2>2. pc \in Phases
    BY DEF AfterPurge, Phases
  <2>3. o \in Options
    BY <1>0 DEF Runs, Options
  <2>4. run' = [run EXCEPT ![p] = [run[p] EXCEPT !.pc = pc, !.opt = o,
                                     !.seen = HashesOnDisk, !.changed = changed,
                                     !.deleted = deleted]]
    BY <1>3 DEF ListFiles
  <2>5. [run[p] EXCEPT !.pc = pc, !.opt = o, !.seen = HashesOnDisk,
                       !.changed = changed, !.deleted = deleted] \in Runs
    <3> HIDE DEF pc, o, changed, deleted
    <3>1. QED BY <1>0, <1>h, <2>1, <2>2, <2>3 DEF Runs
  <2>6. QED BY <2>4, <2>5
<1>4. CASE PurgeDeleted(p)
  <2>1. AfterPurge(run[p].opt, run[p].changed) \in Phases
    BY DEF AfterPurge, Phases
  <2>2. QED BY <1>0, <1>4, <2>1 DEF PurgeDeleted, Runs
<1>5. CASE Scan(p)
  <2> DEFINE raw == [f \in Files |->
                IF f \in run[p].changed
                THEN [rev |-> rev[f], conf |-> run[p].conf, rules |-> inputs.rules]
                ELSE NoRaw]
  <2>1. raw \in [Files -> RawRows]
    BY <1>0, EmptyTypes DEF Runs, RawRows, InputRevs
  <2>2. QED BY <1>0, <1>5, <2>1 DEF Scan, Runs, Phases
<1>6. CASE Infer(p)
  <2>1. Inferred(run[p]) \in [Files -> EndpointRows]
    BY <1>0, EmptyTypes, JoinFilesAssumption DEF Inferred, Runs, Options, EndpointRows
  <2>2. \A S : OperationsOf(S) \in [Files -> SUBSET Nat]
    BY DEF OperationsOf
  <2>3. PICK named \in SUBSET NamedBy(run[p].changed) :
          run' = [run EXCEPT ![p] = [run[p] EXCEPT !.pc = "write",
                                       !.local = Inferred(run[p]),
                                       !.published = OperationsOf(named)]]
    BY <1>6 DEF Infer
  <2>4. [run[p] EXCEPT !.pc = "write", !.local = Inferred(run[p]),
                       !.published = OperationsOf(named)] \in Runs
    BY <1>0, <2>1, <2>2 DEF Runs, Phases
  <2>5. QED BY <2>3, <2>4
<1>7. CASE WriteResults(p)
  BY <1>0, <1>7 DEF WriteResults, Runs, Phases
<1>8. CASE IndexChunks(p)
  BY <1>0, <1>8 DEF IndexChunks, Runs, Phases
<1>9. CASE Commit(p) \/ LockTimeout(p) \/ Fail(p)
  BY <1>0, <1>9 DEF Commit, LockTimeout, Fail, Rollback
<1>10. QED
  BY <1>1, <1>2, <1>3, <1>4, <1>5, <1>6, <1>7, <1>8, <1>9 DEF Step

\* Every step of a run leaves the databases and the lock well typed.
LEMMA DatabaseTypes ==
  ASSUME TypeOK, NEW p \in Procs, Step(p) \/ Start(p) \/ Fail(p)
  PROVE  db' \in Databases /\ txn' \in Databases /\ lock' \in Procs \cup {NoProc}
<1> USE DEF TypeOK
<1>0. run[p] \in Runs
  OBVIOUS
<1>1. CASE Start(p) \/ ReadSignatures(p) \/ ListFiles(p) \/ Scan(p) \/ Infer(p)
  BY <1>1 DEF Start, ReadSignatures, ListFiles, Scan, Infer
<1>2. CASE PurgeDeleted(p)
  <2>1. run[p].deleted \in SUBSET Files
    BY <1>0 DEF Runs
  <2>2. RemoveFiles(txn, run[p].deleted) \in Databases
    BY <2>1, RemoveFilesType
  <2>3. QED BY <1>2, <2>2 DEF PurgeDeleted
<1>3. CASE WriteResults(p)
  BY <1>0, <1>3, ResultsType DEF WriteResults
<1>4. CASE IndexChunks(p)
  <2>1. HashesOnDisk \in [Files -> Nat]
    BY DEF HashesOnDisk
  <2>2. ChunkPaths(txn, run[p]) \in SUBSET Files
    BY <1>0 DEF ChunkPaths, Listed, Runs
  <2>3. ReplaceCodeChunks(txn, ChunkPaths(txn, run[p]), HashesOnDisk) \in Databases
    BY <2>1, <2>2, ReplaceRevsType
  <2>4. QED BY <1>4, <2>3 DEF IndexChunks
<1>5. CASE Commit(p)
  <2>1. run[p].opt.engine \in Engines
    BY <1>0 DEF Runs, Options
  <2>2. [txn EXCEPT !.engine = run[p].opt.engine] \in Databases
    BY <2>1 DEF Databases
  <2>3. QED BY <1>5, <2>2 DEF Commit
<1>6. CASE LockTimeout(p) \/ Fail(p)
  BY <1>6 DEF LockTimeout, Fail, Rollback
<1>7. QED
  BY <1>1, <1>2, <1>3, <1>4, <1>5, <1>6 DEF Step

LEMMA NextType == TypeOK /\ [Next]_vars => TypeOK'
<1> SUFFICES ASSUME TypeOK, [Next]_vars PROVE TypeOK'
  OBVIOUS
<1> USE DEF TypeOK
<1>1. ASSUME NEW f \in Files, WriteFile(f) \/ DeleteFile(f)
      PROVE  TypeOK'
  BY <1>1 DEF WriteFile, DeleteFile
<1>2. CASE ChangeRules \/ ChangeConfig
  <2>1. inputs' \in InputRevs
    BY <1>2 DEF ChangeRules, ChangeConfig, InputRevs
  <2>2. QED BY <1>2, <2>1 DEF ChangeRules, ChangeConfig
<1>3. ASSUME NEW p \in Procs, Step(p) \/ Start(p) \/ Fail(p)
      PROVE  TypeOK'
  <2>1. UNCHANGED world
    BY <1>3 DEF Start, Step, Fail, ReadSignatures, ListFiles, PurgeDeleted, Scan, Infer,
                WriteResults, IndexChunks, Commit, LockTimeout, Rollback
  <2>2. QED BY <1>3, <2>1, RunTypes, DatabaseTypes DEF world
<1>4. CASE UNCHANGED vars
  BY <1>4 DEF vars
<1>5. QED
  BY <1>1, <1>2, <1>3, <1>4 DEF Next

\* Every variable of the indexer keeps its type, for any set of processes,
\* files and options.
THEOREM TypeCorrect == Spec => []TypeOK
<1>1. QED
  BY InitType, NextType, PTL DEF Spec

----------------------------------------------------------------------------
(* The inductive invariant of the index.                                     *)

LEMMA InitIndexInv == Init => IndexInv
<1> SUFFICES ASSUME Init PROVE IndexInv
  OBVIOUS
<1>1. Consistent(db) /\ Consistent(txn) /\ \A f \in Files : rev[f] # 0
  BY DEF Init, Consistent, EmptyDb
<1>p. /\ PublishedOK(db) /\ PublishedOK(txn)
      /\ \A p \in Procs : PublishedOK(run[p])
  BY DEF Init, PublishedOK, EmptyDb, Idle, NothingPublished
<1>2. \A p \in Procs : RunOK(run[p])
  BY DEF Init, RunOK, Idle
<1>3. LockOK
  BY ProcsAssumption DEF Init, LockOK, Idle
<1>4. QED
  BY <1>1, <1>p, <1>2, <1>3 DEF IndexInv

\* A step of one run leaves the repository and the other runs alone.
LEMMA RunFrame ==
  ASSUME TypeOK, NEW p \in Procs, Step(p) \/ Start(p) \/ Fail(p)
  PROVE  UNCHANGED world /\ \A q \in Procs \ {p} : run'[q] = run[q]
BY DEF TypeOK, Start, Step, Fail, ReadSignatures, ListFiles, PurgeDeleted, Scan, Infer,
       WriteResults, IndexChunks, Commit, LockTimeout, Rollback

\* A run that starts or ends has read nothing.
LEMMA RunEnds ==
  ASSUME TypeOK, NEW p \in Procs, Start(p) \/ Commit(p) \/ LockTimeout(p) \/ Fail(p)
  PROVE  /\ run'[p].pc \in {"idle", "signature"}
         /\ run'[p].changed = {}
         /\ \A f \in Files : run'[p].seen[f] = 0
         /\ run'[p].published = NothingPublished
<1>0. run \in [Procs -> Runs]
  BY DEF TypeOK
<1>1. CASE Start(p)
  <2>1. PICK o \in OptionsOf(p) :
          run' = [run EXCEPT ![p] = [Idle EXCEPT !.pc = "signature", !.opt = o,
                                                 !.conf = inputs.conf]]
    BY <1>1 DEF Start
  <2>2. run'[p] = [Idle EXCEPT !.pc = "signature", !.opt = o, !.conf = inputs.conf]
    BY <1>0, <2>1
  <2>3. QED BY <2>2 DEF Idle
<1>2. CASE Commit(p) \/ LockTimeout(p) \/ Fail(p)
  <2>1. run'[p] = Idle
    BY <1>0, <1>2 DEF Commit, LockTimeout, Fail, Rollback
  <2>2. QED BY <2>1 DEF Idle
<1>3. QED BY <1>1, <1>2

\* After listing, a run purges or goes on; it holds no new lock.
LEMMA ListsOrPurges ==
  ASSUME TypeOK, NEW p \in Procs, ListFiles(p)
  PROVE  run'[p].pc \in {"purge", "scan", "infer", "write"}
<1> DEFINE pc == IF DeletedFrom(db.hash, HashesOnDisk) # {} THEN "purge"
                 ELSE AfterPurge(run[p].opt,
                                 ChangedFrom(run[p].opt, db.hash, HashesOnDisk))
           o  == [run[p].opt EXCEPT !.full = FALSE]
           changed == ChangedFrom(run[p].opt, db.hash, HashesOnDisk)
           deleted == DeletedFrom(db.hash, HashesOnDisk)
<1>1. pc \in {"purge", "scan", "infer", "write"}
  BY DEF AfterPurge
<1>2. run' = [run EXCEPT ![p] = [run[p] EXCEPT !.pc = pc, !.opt = o,
                                   !.seen = HashesOnDisk, !.changed = changed,
                                   !.deleted = deleted]]
  BY DEF ListFiles
<1>3. run \in [Procs -> Runs] /\ run[p] \in Runs
  BY DEF TypeOK
<1>4. run'[p].pc = pc
  <2> HIDE DEF pc, o, changed, deleted
  <2>1. QED BY <1>2, <1>3 DEF Runs
<1>5. QED BY <1>1, <1>4

\* What a run has read stays no newer than the repository.
LEMMA RunStep ==
  ASSUME TypeOK, IndexInv, NEW p \in Procs, Step(p) \/ Start(p) \/ Fail(p)
  PROVE  RunOK(run[p])'
<1> USE DEF RunOK
<1>0. /\ rev' = rev /\ rev \in [Files -> Nat] /\ run[p] \in Runs /\ RunOK(run[p])
      /\ run \in [Procs -> Runs]
  BY RunFrame DEF TypeOK, world, IndexInv
<1>1. CASE Start(p) \/ Commit(p) \/ LockTimeout(p) \/ Fail(p)
  <2>1. /\ \A f \in Files : run'[p].seen[f] = 0
        /\ run'[p].changed = {} /\ run'[p].pc # "write"
    BY <1>1, RunEnds
  <2>2. QED BY <1>0, <2>1
<1>2. CASE ReadSignatures(p)
  <2>1. /\ run'[p].seen = run[p].seen /\ run'[p].changed = run[p].changed
        /\ run'[p].pc = "list"
    BY <1>0, <1>2 DEF ReadSignatures, Runs
  <2>2. QED BY <1>0, <2>1
<1>3. CASE ListFiles(p)
  <2> DEFINE changed == ChangedFrom(run[p].opt, db.hash, HashesOnDisk)
  <2>1. /\ run'[p].seen = HashesOnDisk /\ run'[p].changed = changed
        /\ run'[p].pc = "write" => changed = {}
    BY <1>0, <1>3 DEF ListFiles, Runs, AfterPurge
  <2>2. \A f \in Files : HashesOnDisk[f] <= rev[f]
    BY <1>0 DEF HashesOnDisk
  <2>3. \A f \in changed : HashesOnDisk[f] # 0
    BY DEF ChangedFrom, Listed, DeltaFrom
  <2>4. QED
    <3> HIDE DEF changed
    <3>1. QED BY <1>0, <2>1, <2>2, <2>3
<1>4. CASE PurgeDeleted(p)
  <2>1. /\ run'[p].seen = run[p].seen /\ run'[p].changed = run[p].changed
        /\ run'[p].pc = "write" => run[p].changed = {}
    BY <1>0, <1>4 DEF PurgeDeleted, Runs, AfterPurge
  <2>2. QED BY <1>0, <2>1
<1>5. CASE Scan(p)
  <2>1. /\ run'[p].seen = run[p].seen /\ run'[p].changed = run[p].changed
        /\ run'[p].pc = "infer"
    BY <1>0, <1>5 DEF Scan, Runs
  <2>2. QED BY <1>0, <2>1
<1>6. CASE Infer(p)
  <2>1. /\ run'[p].seen = run[p].seen /\ run'[p].changed = run[p].changed
        /\ run'[p].local = Inferred(run[p])
    BY <1>0, <1>6 DEF Infer, Runs
  <2>2. run[p].changed \subseteq Files
    BY <1>0 DEF Runs
  <2>3. \A f \in run[p].changed : Inferred(run[p])[f].rev = rev[f]
    BY <2>2 DEF Inferred
  <2>4. QED BY <1>0, <2>1, <2>2, <2>3
<1>7. CASE WriteResults(p) \/ IndexChunks(p)
  <2>1. /\ run'[p].seen = run[p].seen /\ run'[p].changed = run[p].changed
        /\ run'[p].pc # "write"
    BY <1>0, <1>7 DEF WriteResults, IndexChunks, Runs
  <2>2. QED BY <1>0, <2>1
<1>8. QED
  BY <1>1, <1>2, <1>3, <1>4, <1>5, <1>6, <1>7 DEF Step

\* A run publishes what the contracts hold as it reads them.
LEMMA RunPublishes ==
  ASSUME TypeOK, IndexInv, NEW p \in Procs, Step(p) \/ Start(p) \/ Fail(p)
  PROVE  PublishedOK(run[p])'
<1>0. /\ rev' = rev /\ rev \in [Files -> Nat] /\ run[p] \in Runs /\ PublishedOK(run[p])
      /\ run \in [Procs -> Runs] /\ \A f \in Files : rev[f] # 0
  BY RunFrame DEF TypeOK, world, IndexInv
<1>1. CASE Start(p) \/ Commit(p) \/ LockTimeout(p) \/ Fail(p)
  BY <1>1, RunEnds DEF PublishedOK, NothingPublished
<1>2. CASE Infer(p)
  <2>1. PICK named \in SUBSET NamedBy(run[p].changed) :
          run'[p].published = OperationsOf(named)
    BY <1>0, <1>2 DEF Infer, Runs
  <2>2. named \subseteq Contracts
    BY <1>0, <2>1 DEF NamedBy, Contracts, Runs
  <2>3. \A f \in Files : rev[f] \in 1..rev[f]
    BY <1>0
  <2>4. QED BY <1>0, <2>1, <2>2, <2>3 DEF PublishedOK, OnceContents, OperationsOf
<1>3. CASE \/ ReadSignatures(p) \/ ListFiles(p) \/ PurgeDeleted(p) \/ Scan(p)
           \/ WriteResults(p) \/ IndexChunks(p)
  <2>1. run'[p].published = run[p].published
    <3>1. CASE ListFiles(p)
      BY <1>0, <3>1 DEF ListFiles, Runs
    <3>2. CASE Scan(p)
      BY <1>0, <3>2 DEF Scan, Runs
    <3>3. CASE ReadSignatures(p) \/ PurgeDeleted(p) \/ WriteResults(p) \/ IndexChunks(p)
      BY <1>0, <3>3 DEF ReadSignatures, PurgeDeleted, WriteResults, IndexChunks, Runs
    <3>4. QED BY <1>3, <3>1, <3>2, <3>3
  <2>2. QED BY <1>0, <2>1 DEF PublishedOK, OnceContents
<1>4. QED
  BY <1>1, <1>2, <1>3 DEF Step

\* remove_files leaves no row behind for the paths it is given.
LEMMA RemoveFilesConsistent ==
  ASSUME TypeOK, NEW d \in Databases, Consistent(d), NEW S \in SUBSET Files
  PROVE  Consistent(RemoveFiles(d, S))
<1> DEFINE e == RemoveFiles(d, S)
<1>1. \A f \in Files :
        /\ f \in S => /\ e.hash[f] = 0 /\ e.finding[f] = NoRaw
                      /\ e.endpoint[f] = NoEndpoint
        /\ f \notin S => /\ e.hash[f] = d.hash[f] /\ e.finding[f] = d.finding[f]
                         /\ e.endpoint[f] = d.endpoint[f]
  BY DEF RemoveFiles, Purge, Databases
<1>2. QED
  <2> HIDE DEF e
  <2>1. Consistent(e)
    BY <1>1 DEF Consistent
  <2>2. QED BY <2>1 DEF e

\* Writing the results of a run that read in order keeps every stored hash no
\* newer than the endpoints stored with it.
LEMMA ResultsConsistent ==
  ASSUME TypeOK, NEW d \in Databases, Consistent(d), NEW r \in Runs, RunOK(r),
         r.pc = "write"
  PROVE  Consistent(Results(d, r))
<1> DEFINE e == Results(d, r)
<1>0. /\ r.changed \in SUBSET Files /\ r.seen \in [Files -> Nat]
      /\ r.local \in [Files -> EndpointRows] /\ rev \in [Files -> Nat]
  BY DEF Runs, TypeOK
<1>1. \A f \in Files :
        /\ f \in r.changed => e.hash[f] = r.seen[f] /\ e.endpoint[f] = r.local[f]
        /\ f \notin r.changed => /\ e.hash[f] = d.hash[f] /\ e.finding[f] = d.finding[f]
                                 /\ e.endpoint[f] = d.endpoint[f]
  BY DEF Results, SetFileHashes, ReplaceEndpoints, ReplaceFindings, Replace, Databases
<1>2. ASSUME NEW f \in r.changed
      PROVE  e.hash[f] \in 1..e.endpoint[f].rev /\ e.endpoint[f].rev <= rev[f]
  <2>1. /\ r.seen[f] # 0 /\ r.seen[f] <= r.local[f].rev /\ r.local[f].rev <= rev[f]
        /\ r.seen[f] \in Nat /\ r.local[f].rev \in Nat /\ f \in Files
    BY <1>0 DEF RunOK, EndpointRows
  <2>2. QED
    <3> HIDE DEF e
    <3>1. QED BY <1>1, <2>1
<1>3. QED
  <2> HIDE DEF e
  <2>1. Consistent(e)
    BY <1>1, <1>2 DEF Consistent
  <2>2. QED BY <2>1 DEF e

\* The committed and the uncommitted database stay consistent.
LEMMA DatabaseStep ==
  ASSUME TypeOK, IndexInv, NEW p \in Procs, Step(p) \/ Start(p) \/ Fail(p)
  PROVE  Consistent(db)' /\ Consistent(txn)'
<1>0. /\ rev' = rev /\ db \in Databases /\ txn \in Databases /\ run[p] \in Runs
      /\ Consistent(db) /\ Consistent(txn) /\ RunOK(run[p])
  BY RunFrame DEF TypeOK, world, IndexInv
<1>1. CASE Start(p) \/ ReadSignatures(p) \/ ListFiles(p) \/ Scan(p) \/ Infer(p)
  BY <1>0, <1>1 DEF Start, ReadSignatures, ListFiles, Scan, Infer, Consistent
<1>2. CASE PurgeDeleted(p)
  <2>1. Consistent(RemoveFiles(txn, run[p].deleted))
    BY <1>0, RemoveFilesConsistent DEF Runs
  <2>2. db' = db /\ txn' = RemoveFiles(txn, run[p].deleted)
    BY <1>2 DEF PurgeDeleted
  <2>3. QED BY <1>0, <2>1, <2>2 DEF Consistent
<1>3. CASE WriteResults(p)
  <2>1. Consistent(Results(txn, run[p]))
    BY <1>0, <1>3, ResultsConsistent DEF WriteResults
  <2>2. db' = db /\ txn' = Results(txn, run[p])
    BY <1>3 DEF WriteResults
  <2>3. QED BY <1>0, <2>1, <2>2 DEF Consistent
<1>4. CASE IndexChunks(p)
  <2>1. /\ db' = db /\ txn'.hash = txn.hash /\ txn'.finding = txn.finding
        /\ txn'.endpoint = txn.endpoint
    BY <1>0, <1>4 DEF IndexChunks, ReplaceCodeChunks, Databases
  <2>2. QED BY <1>0, <2>1 DEF Consistent
<1>5. CASE Commit(p)
  <2>1. /\ db'.hash = txn.hash /\ db'.finding = txn.finding
        /\ db'.endpoint = txn.endpoint /\ txn' = db'
    BY <1>0, <1>5 DEF Commit, Databases
  <2>2. QED BY <1>0, <2>1 DEF Consistent
<1>6. CASE LockTimeout(p) \/ Fail(p)
  <2>1. db' = db /\ (txn' = db \/ txn' = txn)
    BY <1>6 DEF LockTimeout, Fail, Rollback
  <2>2. QED BY <1>0, <2>1 DEF Consistent
<1>7. QED
  BY <1>1, <1>2, <1>3, <1>4, <1>5, <1>6 DEF Step

\* What is stored for a contract stays within the contents it has had.
LEMMA DatabasePublishes ==
  ASSUME TypeOK, IndexInv, NEW p \in Procs, Step(p) \/ Start(p) \/ Fail(p)
  PROVE  PublishedOK(db)' /\ PublishedOK(txn)'
<1>0. /\ rev' = rev /\ db \in Databases /\ txn \in Databases /\ run[p] \in Runs
      /\ PublishedOK(db) /\ PublishedOK(txn) /\ PublishedOK(run[p])
  BY RunFrame DEF TypeOK, world, IndexInv
<1>1. ASSUME \A f \in Files : /\ db'.published[f] = db.published[f] \/ db'.published[f] = txn.published[f]
                              /\ txn'.published[f] \subseteq
                                   db.published[f] \cup txn.published[f] \cup run[p].published[f]
      PROVE  PublishedOK(db)' /\ PublishedOK(txn)'
  BY <1>0, <1>1 DEF PublishedOK, OnceContents
<1>2. CASE WriteResults(p)
  <2>1. db' = db /\ txn' = Results(txn, run[p])
    BY <1>2 DEF WriteResults
  <2>2. \A f \in Files : Results(txn, run[p]).published[f] \subseteq
                          txn.published[f] \cup run[p].published[f]
    BY <1>0 DEF Results, SetFileHashes, ReplaceEndpoints, ReplaceFindings, Replace, Purge,
                Databases
  <2>3. QED BY <1>1, <2>1, <2>2
<1>3. CASE PurgeDeleted(p)
  <2>1. db' = db /\ txn' = RemoveFiles(txn, run[p].deleted)
    BY <1>3 DEF PurgeDeleted
  <2>2. \A f \in Files : RemoveFiles(txn, run[p].deleted).published[f]
                            \subseteq txn.published[f]
    BY <1>0 DEF RemoveFiles, Purge, Databases
  <2>3. QED BY <1>1, <2>1, <2>2
<1>4. CASE Commit(p) \/ IndexChunks(p)
  <2>1. txn'.published = txn.published /\ db'.published \in {db.published, txn.published}
    BY <1>0, <1>4 DEF Commit, IndexChunks, ReplaceCodeChunks, Databases
  <2>2. QED BY <1>1, <2>1
<1>5. CASE \/ Start(p) \/ ReadSignatures(p) \/ ListFiles(p) \/ Scan(p) \/ Infer(p)
           \/ LockTimeout(p) \/ Fail(p)
  <2>1. db' = db /\ (txn' = db \/ txn' = txn)
    BY <1>5 DEF Start, ReadSignatures, ListFiles, Scan, Infer, LockTimeout, Fail, Rollback
  <2>2. QED BY <1>1, <2>1
<1>6. QED
  BY <1>2, <1>3, <1>4, <1>5 DEF Step

\* The write lock belongs to at most one run, which is past its first write.
LEMMA LockStep ==
  ASSUME TypeOK, IndexInv, NEW p \in Procs, Step(p) \/ Start(p) \/ Fail(p)
  PROVE  LockOK'
<1> USE DEF LockOK
<1>0. /\ LockOK /\ run \in [Procs -> Runs] /\ lock \in Procs \cup {NoProc}
      /\ NoProc \notin Procs
      /\ \A q \in Procs \ {p} : run'[q] = run[q]
  BY RunFrame, ProcsAssumption DEF TypeOK, IndexInv
<1>1. CASE Start(p) \/ ReadSignatures(p) \/ ListFiles(p) \/ Scan(p) \/ Infer(p)
  <2>1. UNCHANGED <<db, txn, lock>>
    BY <1>1 DEF Start, ReadSignatures, ListFiles, Scan, Infer
  <2>2. run'[p].pc \in {"idle", "signature", "list", "purge", "scan", "infer", "write"}
    <3>1. CASE Start(p)
      BY <3>1, RunEnds
    <3>2. CASE ReadSignatures(p) \/ Scan(p) \/ Infer(p)
      BY <1>0, <3>2 DEF ReadSignatures, Scan, Infer, Runs
    <3>3. CASE ListFiles(p)
      BY <3>3, ListsOrPurges
    <3>4. QED BY <1>1, <3>1, <3>2, <3>3
  <2>3. lock = p => run'[p].pc \in {"infer", "write"}
    <3>1. lock = p => run[p].pc \in {"scan", "infer"}
      BY <1>0, <1>1 DEF Start, ReadSignatures, ListFiles, Scan, Infer
    <3>2. Scan(p) => run'[p].pc = "infer"
      BY <1>0 DEF Scan, Runs
    <3>3. Infer(p) => run'[p].pc = "write"
      BY <1>0 DEF Infer, Runs
    <3>4. run[p].pc \in {"scan", "infer"} => Scan(p) \/ Infer(p)
      BY <1>1 DEF Start, ReadSignatures, ListFiles
    <3>5. QED BY <3>1, <3>2, <3>3, <3>4
  <2>4. QED BY <1>0, <2>1, <2>2, <2>3
<1>2. CASE PurgeDeleted(p) \/ WriteResults(p)
  <2>1. lock' = p /\ lock \in {NoProc, p}
    BY <1>2 DEF PurgeDeleted, WriteResults, CanWrite
  <2>2. run'[p].pc \in {"scan", "infer", "write", "chunks", "commit"}
    BY <1>0, <1>2 DEF PurgeDeleted, WriteResults, AfterPurge, Runs
  <2>3. QED BY <1>0, <2>1, <2>2
<1>3. CASE IndexChunks(p)
  <2>1. lock' = lock /\ lock = p
    BY <1>0, <1>3 DEF IndexChunks
  <2>2. run'[p].pc = "commit"
    BY <1>0, <1>3 DEF IndexChunks, Runs
  <2>3. QED BY <1>0, <2>1, <2>2
<1>4. CASE Commit(p)
  <2>1. lock' = NoProc /\ lock = p /\ txn' = db' /\ run'[p].pc = "idle"
    BY <1>0, <1>4 DEF Commit, Idle
  <2>2. QED BY <1>0, <2>1
<1>5. CASE LockTimeout(p) \/ Fail(p)
  <2>1. /\ run'[p].pc = "idle" /\ db' = db
        /\ lock' = IF lock = p THEN NoProc ELSE lock
        /\ txn' = IF lock = p THEN db ELSE txn
    BY <1>0, <1>5 DEF LockTimeout, Fail, Rollback, Idle
  <2>2. QED BY <1>0, <2>1
<1>6. QED
  BY <1>1, <1>2, <1>3, <1>4, <1>5 DEF Step

LEMMA NextIndexInv == TypeOK /\ IndexInv /\ [Next]_vars => IndexInv'
<1> SUFFICES ASSUME TypeOK, IndexInv, [Next]_vars PROVE IndexInv'
  OBVIOUS
<1>1. ASSUME NEW f \in Files, WriteFile(f) \/ DeleteFile(f)
      PROVE  IndexInv'
  <2>1. /\ rev \in [Files -> Nat] /\ rev' \in [Files -> Nat]
        /\ \A g \in Files : rev[g] <= rev'[g]
        /\ UNCHANGED <<db, txn, lock, run>>
    BY <1>1 DEF TypeOK, WriteFile, DeleteFile
  <2>2. Consistent(db)' /\ Consistent(txn)'
    <3>1. ASSUME NEW d \in Databases, Consistent(d), NEW g \in Files,
                 d.hash[g] \in 1..d.endpoint[g].rev /\ d.endpoint[g].rev <= rev[g]
          PROVE  d.endpoint[g].rev <= rev'[g]
      <4>1. d.endpoint[g].rev \in Nat
        BY DEF Databases, EndpointRows
      <4>2. QED BY <2>1, <3>1, <4>1
    <3>2. QED BY <2>1, <3>1 DEF IndexInv, Consistent, TypeOK
  <2>3. ASSUME NEW p \in Procs PROVE RunOK(run[p])'
    <3>1. /\ run[p].seen \in [Files -> Nat] /\ run[p].local \in [Files -> EndpointRows]
          /\ run[p].changed \in SUBSET Files /\ RunOK(run[p])
      BY DEF TypeOK, Runs, IndexInv
    <3>2. \A g \in Files : run[p].local[g].rev \in Nat
      BY <3>1 DEF EndpointRows
    <3>3. QED BY <2>1, <3>1, <3>2 DEF RunOK
  <2>4. LockOK'
    BY <2>1 DEF IndexInv, LockOK
  <2>5. ASSUME NEW d, PublishedOK(d) PROVE \A g \in Files : d.published[g] \subseteq OnceContents(g)'
    BY <2>1, <2>5 DEF PublishedOK, OnceContents
  <2>6. PublishedOK(db)' /\ PublishedOK(txn)' /\ \A p \in Procs : PublishedOK(run[p])'
    BY <2>1, <2>5 DEF IndexInv, PublishedOK
  <2>7. \A g \in Files : rev'[g] # 0
    BY <2>1 DEF IndexInv
  <2>8. QED BY <2>2, <2>3, <2>4, <2>6, <2>7 DEF IndexInv
<1>2. CASE ChangeRules \/ ChangeConfig \/ UNCHANGED vars
  <2>1. UNCHANGED <<rev, db, txn, lock, run>>
    BY <1>2 DEF ChangeRules, ChangeConfig, vars
  <2>2. QED BY <2>1 DEF IndexInv, Consistent, RunOK, LockOK, PublishedOK, OnceContents
<1>3. ASSUME NEW p \in Procs, Step(p) \/ Start(p) \/ Fail(p)
      PROVE  IndexInv'
  <2>1. ASSUME NEW q \in Procs, q # p PROVE RunOK(run[q])' /\ PublishedOK(run[q])'
    <3>1. rev' = rev /\ run'[q] = run[q] /\ RunOK(run[q]) /\ PublishedOK(run[q])
      BY <1>3, <2>1, RunFrame DEF world, IndexInv
    <3>2. QED BY <3>1 DEF RunOK, PublishedOK, OnceContents
  <2>2. \A q \in Procs : RunOK(run[q])' /\ PublishedOK(run[q])'
    BY <1>3, <2>1, RunStep, RunPublishes
  <2>3. \A f \in Files : rev'[f] # 0
    BY <1>3, RunFrame DEF world, IndexInv
  <2>4. QED BY <1>3, <2>2, <2>3, DatabaseStep, DatabasePublishes, LockStep DEF IndexInv
<1>4. QED
  BY <1>1, <1>2, <1>3 DEF Next

\* The strengthening every safety theorem below rests on.
THEOREM IndexInvariant == Spec => []IndexInv
<1>1. QED
  BY InitIndexInv, NextIndexInv, TypeCorrect, PTL DEF Spec

----------------------------------------------------------------------------
(* What follows from it. *)

\* A file the incremental delta skips as unchanged has endpoints extracted from
\* the content it has now, whatever the other processes and failures do.
THEOREM HashMeansIndexedAlways == Spec => []HashMeansIndexed
<1>1. TypeOK /\ IndexInv => HashMeansIndexed
  <2> SUFFICES ASSUME TypeOK, IndexInv, NEW f \in Files, Current(f)
               PROVE  db.endpoint[f].rev = rev[f]
    BY DEF HashMeansIndexed
  <2>1. /\ db.hash[f] = rev[f] /\ rev[f] \in Nat /\ db.endpoint[f].rev \in Nat
    BY DEF TypeOK, Current, Databases, EndpointRows
  <2>2. CASE db.hash[f] = 0 /\ db.endpoint[f] = NoEndpoint
    BY <2>1, <2>2 DEF NoEndpoint
  <2>3. CASE db.hash[f] \in 1..db.endpoint[f].rev /\ db.endpoint[f].rev <= rev[f]
    BY <2>1, <2>3
  <2>4. QED BY <2>2, <2>3 DEF IndexInv, Consistent
<1>2. QED
  BY <1>1, TypeCorrect, IndexInvariant, PTL

\* No path keeps a finding or an endpoint once it has no stored hash: a row left
\* behind would never be purged again.
THEOREM NoGhostRowsEver == Spec => []NoGhostRows
<1>1. TypeOK /\ IndexInv => NoGhostRows
  BY DEF TypeOK, IndexInv, Consistent, NoGhostRows
<1>2. QED
  BY <1>1, TypeCorrect, IndexInvariant, PTL

\* Readers see the database change only by the commit of a run that holds the
\* write lock: a run that fails, is killed or times out publishes nothing.
THEOREM OnlyCompletedRunsEverPublish == Spec => OnlyCompletedRunsPublish
<1> DEFINE A == db' # db => \E p \in Procs : run[p].pc = "commit" /\ lock = p
<1>1. IndexInv /\ [Next]_vars => [A]_vars
  <2> SUFFICES ASSUME IndexInv, Next, db' # db
               PROVE  \E p \in Procs : run[p].pc = "commit" /\ lock = p
    BY DEF vars
  <2>1. PICK p \in Procs : Commit(p)
    BY DEF Next, WriteFile, DeleteFile, ChangeRules, ChangeConfig, Start, Step, Fail,
           ReadSignatures, ListFiles, PurgeDeleted, Scan, Infer, WriteResults,
           IndexChunks, LockTimeout, Rollback
  <2>2. run[p].pc = "commit"
    BY <2>1 DEF Commit
  <2>3. QED BY <2>2 DEF IndexInv, LockOK
<1>2. QED
  BY <1>1, IndexInvariant, PTL DEF Spec, OnlyCompletedRunsPublish

----------------------------------------------------------------------------
(* The indexer implements IndexSpec. *)

\* What readers see of a consistent database is an entry IndexSpec allows.
LEMMA ConsistentEntries ==
  ASSUME NEW r \in [Files -> Nat], NEW d \in Databases, NEW f \in Files,
         d.published[f] \subseteq {n \in 1..r[f] : f \in Contracts},
         \/ d.hash[f] = 0 /\ d.finding[f] = NoRaw /\ d.endpoint[f] = NoEndpoint
         \/ d.hash[f] \in 1..d.endpoint[f].rev /\ d.endpoint[f].rev <= r[f]
  PROVE  IndexOf(d)[f] \in Abstract!Entries(f, r[f])
<1>1. /\ d.hash[f] \in Nat /\ d.endpoint[f].rev \in Nat /\ r[f] \in Nat
      /\ IndexOf(d)[f] = [hash |-> d.hash[f], facts |-> d.endpoint[f].rev,
                          published |-> d.published[f]]
  BY DEF Databases, EndpointRows, IndexOf
<1>2. /\ d.published[f] \in SUBSET (1..r[f])
      /\ d.published[f] # {} => f \in Contracts
  OBVIOUS
<1>3. CASE d.hash[f] = 0 /\ d.endpoint[f] = NoEndpoint
  BY <1>1, <1>2, <1>3 DEF NoEndpoint, Abstract!Entries
<1>4. CASE d.hash[f] \in 1..d.endpoint[f].rev /\ d.endpoint[f].rev <= r[f]
  BY <1>1, <1>2, <1>4 DEF Abstract!Entries
<1>5. QED BY <1>3, <1>4

\* A change of the database is an indexing of IndexSpec.
LEMMA CommitPublishes ==
  ASSUME TypeOK, TypeOK', IndexInv', UNCHANGED rev
  PROVE  Abstract!Publish
<1>1. /\ db' \in Databases /\ rev' \in [Files -> Nat]
      /\ Consistent(db)' /\ PublishedOK(db)'
  BY DEF TypeOK, IndexInv
<1>2. DOMAIN IndexOf(db)' = Files
  BY DEF IndexOf
<1>3. ASSUME NEW f \in Files PROVE IndexOf(db')[f] \in Abstract!Entries(f, rev'[f])
  <2>1. db'.published[f] \subseteq {n \in 1..rev'[f] : f \in Contracts}
    BY <1>1 DEF PublishedOK, OnceContents
  <2>2. QED BY <1>1, <2>1, ConsistentEntries DEF Consistent
<1>4. IndexOf(db)' = IndexOf(db')
  BY DEF IndexOf
<1>5. QED BY <1>2, <1>3, <1>4 DEF Abstract!Publish

\* Every behaviour of the indexer is one of the abstract index: each commit takes
\* effect at once, and pairs a hash only with facts at least as recent.
THEOREM Implementation == Spec => ImplementsIndexSpec
<1>1. Init => Abstract!Init
  BY DEF Init, Abstract!Init, EmptyDb, NoEndpoint, NothingPublished, IndexOf
<1>2. TypeOK /\ TypeOK' /\ IndexInv' /\ [Next]_vars
        => [Abstract!Next]_<<rev, IndexOf(db)>>
  <2> SUFFICES ASSUME TypeOK, TypeOK', IndexInv', [Next]_vars
               PROVE  [Abstract!Next]_<<rev, IndexOf(db)>>
    OBVIOUS
  <2>1. ASSUME NEW f \in Files, WriteFile(f) \/ DeleteFile(f)
        PROVE  Abstract!Change(f)
    BY <2>1 DEF WriteFile, DeleteFile, Abstract!Change, IndexOf
  <2>2. CASE ChangeRules \/ ChangeConfig \/ UNCHANGED vars
    BY <2>2 DEF ChangeRules, ChangeConfig, vars, IndexOf
  <2>3. ASSUME NEW p \in Procs, Step(p) \/ Start(p) \/ Fail(p)
        PROVE  Abstract!Publish
    BY <2>3, RunFrame, CommitPublishes DEF world
  <2>4. QED BY <2>1, <2>2, <2>3 DEF Next, Abstract!Next
<1>3. QED
  BY <1>1, <1>2, TypeCorrect, IndexInvariant, PTL
     DEF Spec, ImplementsIndexSpec, Abstract!Spec
=============================================================================
