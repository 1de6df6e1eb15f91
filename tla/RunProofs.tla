----------------------------- MODULE RunProofs -----------------------------
(***************************************************************************)
(* What one step of a run of Indexer does, field by field, and the         *)
(* conditions on behaviours under which the properties that a run may      *)
(* break when it leaves findings or chunks alone do hold.                  *)
(*                                                                         *)
(* And the first of these: the stored hash of a path also vouches for its  *)
(* findings, when every run indexes them, and for its chunks, when every   *)
(* run uses the cocoindex engine, for any number of processes, whatever    *)
(* fails in between.                                                       *)
(***************************************************************************)
EXTENDS IndexerProofs

\* What the runs of a behaviour may have in common.
EveryRunIndexesFindings ==
  \A p \in Procs : run[p].pc # "idle" => run[p].opt.findings
EveryRunUsesCocoindex ==
  \A p \in Procs : run[p].pc # "idle" => run[p].opt.engine = "cocoindex"
RunsNeverOverlap ==
  \A p, q \in Procs : run[p].pc # "idle" /\ run[q].pc # "idle" => p = q

\* What a run decided before it writes is what it writes.
Carries(r, s) ==
  /\ s.opt = r.opt /\ s.sig = r.sig /\ s.seen = r.seen
  /\ s.changed = r.changed

----------------------------------------------------------------------------
(* The operations of Store, row by row. *)

\* remove_files clears every row of each path it is given, and no other.
LEMMA RemoveFilesEffect ==
  ASSUME NEW d \in Databases, NEW S \in SUBSET Files
  PROVE  /\ \A f \in S : /\ RemoveFiles(d, S).hash[f] = 0
                         /\ RemoveFiles(d, S).finding[f] = NoRaw
                         /\ RemoveFiles(d, S).endpoint[f] = NoEndpoint
                         /\ RemoveFiles(d, S).chunk[f] = 0
                         /\ RemoveFiles(d, S).published[f] = {}
         /\ \A f \in Files \ S : /\ RemoveFiles(d, S).hash[f] = d.hash[f]
                                 /\ RemoveFiles(d, S).finding[f] = d.finding[f]
                                 /\ RemoveFiles(d, S).endpoint[f] = d.endpoint[f]
                                 /\ RemoveFiles(d, S).chunk[f] = d.chunk[f]
                                 /\ RemoveFiles(d, S).published[f] = d.published[f]
         /\ RemoveFiles(d, S).strategy = d.strategy
         /\ RemoveFiles(d, S).inputs = d.inputs
BY DEF RemoveFiles, Purge, Databases

\* The results of a run replace the rows of the changed paths, findings only if
\* they were asked for, and the strategy and signature of the whole index.
LEMMA ResultsEffect ==
  ASSUME NEW d \in Databases, NEW r \in Runs
  PROVE  /\ \A f \in r.changed :
              /\ Results(d, r).hash[f] = r.seen[f]
              /\ Results(d, r).endpoint[f] = r.local[f]
              /\ Results(d, r).published[f] = r.published[f]
              /\ r.opt.findings => Results(d, r).finding[f] = r.raw[f]
         /\ \A f \in Files \ r.changed :
              /\ Results(d, r).hash[f] = d.hash[f]
              /\ Results(d, r).finding[f] = d.finding[f]
              /\ Results(d, r).endpoint[f] = d.endpoint[f]
              /\ Results(d, r).published[f] = d.published[f] \cup r.published[f]
         /\ Results(d, r).chunk = d.chunk
         /\ Results(d, r).strategy = r.opt.strategy
         /\ Results(d, r).inputs = r.sig
<1>1. r.changed \in SUBSET Files
  BY DEF Runs
<1>2. QED
  BY <1>1 DEF Results, SetFileHashes, ReplaceEndpoints, ReplaceFindings, Replace, Purge, Databases

\* Indexing chunks touches nothing but the chunks of the paths it is given.
LEMMA ChunksEffect ==
  ASSUME NEW d \in Databases, NEW S \in SUBSET Files, NEW revs \in [Files -> Nat]
  PROVE  /\ \A f \in S : ReplaceCodeChunks(d, S, revs).chunk[f] = revs[f]
         /\ \A f \in Files \ S : ReplaceCodeChunks(d, S, revs).chunk[f] = d.chunk[f]
         /\ ReplaceCodeChunks(d, S, revs).hash = d.hash
         /\ ReplaceCodeChunks(d, S, revs).finding = d.finding
         /\ ReplaceCodeChunks(d, S, revs).endpoint = d.endpoint
         /\ ReplaceCodeChunks(d, S, revs).published = d.published
         /\ ReplaceCodeChunks(d, S, revs).strategy = d.strategy
         /\ ReplaceCodeChunks(d, S, revs).inputs = d.inputs
BY DEF ReplaceCodeChunks, Replace, Databases

----------------------------------------------------------------------------
(* The steps of a run, field by field. *)

\* A run starts from nothing but its options and the configuration it loaded.
LEMMA StartEffect ==
  ASSUME TypeOK, NEW p \in Procs, Start(p)
  PROVE  /\ \E o \in OptionsOf(p) : run'[p] = [Idle EXCEPT !.pc = "signature", !.opt = o,
                                                            !.conf = inputs.conf]
         /\ run[p].pc = "idle"
         /\ run'[p].pc = "signature"
         /\ run'[p].opt \in OptionsOf(p)
         /\ run'[p].sig = NoInputs /\ run'[p].raw = [f \in Files |-> NoRaw]
         /\ run'[p].seen = [f \in Files |-> 0]
         /\ run'[p].published = NothingPublished
         /\ run'[p].changed = {} /\ run'[p].deleted = {}
         /\ UNCHANGED <<db, txn, lock>>
<1>1. PICK o \in OptionsOf(p) :
        run' = [run EXCEPT ![p] = [Idle EXCEPT !.pc = "signature", !.opt = o,
                                               !.conf = inputs.conf]]
  BY DEF Start
<1>2. run'[p] = [Idle EXCEPT !.pc = "signature", !.opt = o, !.conf = inputs.conf]
  BY <1>1 DEF TypeOK
<1>3. QED
  BY <1>2 DEF Start, Idle

\* A run that ends leaves the local variables of a process that never started one.
LEMMA EndEffect ==
  ASSUME TypeOK, NEW p \in Procs, Commit(p) \/ LockTimeout(p) \/ Fail(p)
  PROVE  /\ run[p].pc # "idle"
         /\ run'[p] = Idle
         /\ Idle.pc = "idle" /\ Idle.sig = NoInputs /\ Idle.changed = {}
         /\ Idle.deleted = {} /\ Idle.opt = NoOptions
         /\ Idle.raw = [f \in Files |-> NoRaw]
         /\ Idle.seen = [f \in Files |-> 0]
         /\ Idle.published = NothingPublished
BY DEF TypeOK, Commit, LockTimeout, Fail, Rollback, Idle

\* A run that fails or times out gives back what it held.
LEMMA RollbackEffect ==
  ASSUME NEW p \in Procs, LockTimeout(p) \/ Fail(p)
  PROVE  /\ db' = db
         /\ txn' = db \/ txn' = txn
         /\ lock # p => txn' = txn /\ lock' = lock
BY DEF LockTimeout, Fail, Rollback

\* What the owner of the lock has written becomes what everybody reads.
LEMMA CommitEffect ==
  ASSUME TypeOK, NEW p \in Procs, Commit(p)
  PROVE  /\ run[p].pc = "commit"
         /\ db'.hash = txn.hash /\ db'.finding = txn.finding
         /\ db'.endpoint = txn.endpoint /\ db'.chunk = txn.chunk
         /\ db'.published = txn.published
         /\ db'.strategy = txn.strategy /\ db'.inputs = txn.inputs
         /\ txn' = db'
BY DEF TypeOK, Commit, Databases

\* The comparisons with meta only decide whether everything is scanned again.
LEMMA SignaturesEffect ==
  ASSUME TypeOK, NEW p \in Procs, ReadSignatures(p)
  PROVE  /\ run[p].pc = "signature" /\ run'[p].pc = "list"
         /\ run'[p].sig = inputs
         /\ run'[p].opt.full = ForcesFull(run[p].opt, inputs)
         /\ run'[p].opt.engine = run[p].opt.engine
         /\ run'[p].opt.strategy = run[p].opt.strategy
         /\ run'[p].opt.semgrep = run[p].opt.semgrep
         /\ run'[p].opt.findings = run[p].opt.findings
         /\ run'[p].seen = run[p].seen /\ run'[p].raw = run[p].raw
         /\ run'[p].changed = run[p].changed /\ run'[p].deleted = run[p].deleted
         /\ run'[p].published = run[p].published
         /\ UNCHANGED <<db, txn, lock>>
<1> DEFINE o == [run[p].opt EXCEPT !.full = ForcesFull(run[p].opt, inputs)]
<1>1. run' = [run EXCEPT ![p] = [run[p] EXCEPT !.pc = "list", !.sig = inputs, !.opt = o]]
  BY DEF ReadSignatures
<1>2. run \in [Procs -> Runs] /\ run[p] \in Runs /\ run[p].opt \in Options
  BY DEF TypeOK, Runs
<1>3. /\ run'[p].opt = o /\ run'[p].pc = "list" /\ run'[p].sig = inputs
      /\ run'[p].seen = run[p].seen /\ run'[p].raw = run[p].raw
      /\ run'[p].changed = run[p].changed /\ run'[p].deleted = run[p].deleted
      /\ run'[p].published = run[p].published
  <2> HIDE DEF o
  <2>1. QED BY <1>1, <1>2 DEF Runs
<1>4. QED
  BY <1>2, <1>3 DEF ReadSignatures, Options

\* The listing fixes the delta of the run: later steps only read it.
LEMMA ListEffect ==
  ASSUME TypeOK, NEW p \in Procs, ListFiles(p)
  PROVE  /\ run[p].pc = "list"
         /\ run'[p].pc = IF DeletedFrom(db.hash, HashesOnDisk) # {} THEN "purge"
                         ELSE AfterPurge(run[p].opt,
                                         ChangedFrom(run[p].opt, db.hash, HashesOnDisk))
         /\ run'[p].seen = HashesOnDisk
         /\ run'[p].changed = ChangedFrom(run[p].opt, db.hash, HashesOnDisk)
         /\ run'[p].deleted = DeletedFrom(db.hash, HashesOnDisk)
         /\ run'[p].sig = run[p].sig /\ run'[p].raw = run[p].raw
         /\ run'[p].published = run[p].published
         /\ run'[p].opt.engine = run[p].opt.engine
         /\ run'[p].opt.strategy = run[p].opt.strategy
         /\ run'[p].opt.semgrep = run[p].opt.semgrep
         /\ run'[p].opt.findings = run[p].opt.findings
         /\ UNCHANGED <<db, txn, lock>>
<1> DEFINE changed == ChangedFrom(run[p].opt, db.hash, HashesOnDisk)
           deleted == DeletedFrom(db.hash, HashesOnDisk)
           pc == IF deleted # {} THEN "purge" ELSE AfterPurge(run[p].opt, changed)
           o  == [run[p].opt EXCEPT !.full = FALSE]
<1>1. run' = [run EXCEPT ![p] = [run[p] EXCEPT !.pc = pc, !.opt = o,
                                   !.seen = HashesOnDisk, !.changed = changed,
                                   !.deleted = deleted]]
  BY DEF ListFiles
<1>2. run \in [Procs -> Runs] /\ run[p] \in Runs /\ run[p].opt \in Options
  BY DEF TypeOK, Runs
<1>3. /\ run'[p].pc = pc /\ run'[p].opt = o /\ run'[p].seen = HashesOnDisk
      /\ run'[p].changed = changed /\ run'[p].deleted = deleted
      /\ run'[p].sig = run[p].sig /\ run'[p].raw = run[p].raw
      /\ run'[p].published = run[p].published
  <2> HIDE DEF pc, o, changed, deleted
  <2>1. QED BY <1>1, <1>2 DEF Runs
<1>4. /\ o.engine = run[p].opt.engine /\ o.strategy = run[p].opt.strategy
      /\ o.semgrep = run[p].opt.semgrep /\ o.findings = run[p].opt.findings
  BY <1>2 DEF Options
<1>5. run[p].pc = "list" /\ UNCHANGED <<db, txn, lock>>
  BY DEF ListFiles
<1>6. QED
  <2> HIDE DEF o
  <2>1. QED BY <1>3, <1>4, <1>5

\* The deleted paths lose their rows, and the run has the lock from there on.
LEMMA PurgeEffect ==
  ASSUME TypeOK, NEW p \in Procs, PurgeDeleted(p)
  PROVE  /\ run[p].pc = "purge"
         /\ run'[p].pc = AfterPurge(run[p].opt, run[p].changed)
         /\ Carries(run[p], run'[p])
         /\ run'[p].raw = run[p].raw /\ run'[p].deleted = {}
         /\ run'[p].published = run[p].published
         /\ db' = db /\ lock' = p /\ lock \in {NoProc, p}
         /\ txn' = RemoveFiles(txn, run[p].deleted)
BY DEF TypeOK, PurgeDeleted, CanWrite, Runs, Carries

\* Semgrep reads the changed paths and the rules as they are now.
LEMMA ScanEffect ==
  ASSUME TypeOK, NEW p \in Procs, Scan(p)
  PROVE  /\ run[p].pc = "scan" /\ run'[p].pc = "infer"
         /\ Carries(run[p], run'[p])
         /\ run'[p].deleted = run[p].deleted
         /\ run'[p].published = run[p].published
         /\ \A f \in run[p].changed : /\ run'[p].raw[f].rev = rev[f]
                                      /\ run'[p].raw[f].rules = inputs.rules
         /\ \A f \in Files \ run[p].changed : run'[p].raw[f] = NoRaw
         /\ UNCHANGED <<db, txn, lock>>
<1> DEFINE raw == [f \in Files |->
              IF f \in run[p].changed
              THEN [rev |-> rev[f], conf |-> run[p].conf, rules |-> inputs.rules]
              ELSE NoRaw]
<1>1. run[p].changed \subseteq Files
  BY DEF TypeOK, Runs
<1>2. /\ run'[p].raw = raw /\ Carries(run[p], run'[p])
      /\ run'[p].deleted = run[p].deleted /\ run'[p].published = run[p].published
  BY DEF TypeOK, Scan, Runs, Carries
<1>3. \A f \in run[p].changed : raw[f].rev = rev[f] /\ raw[f].rules = inputs.rules
  BY <1>1
<1>4. \A f \in Files \ run[p].changed : raw[f] = NoRaw
  OBVIOUS
<1>5. run[p].pc = "scan" /\ run'[p].pc = "infer" /\ UNCHANGED <<db, txn, lock>>
  BY DEF TypeOK, Scan, Runs
<1>6. QED
  <2> HIDE DEF raw
  <2>1. QED BY <1>2, <1>3, <1>4, <1>5

\* The local inference reads the changed paths, and all join files, once more.
LEMMA InferEffect ==
  ASSUME TypeOK, NEW p \in Procs, Infer(p)
  PROVE  /\ run[p].pc = "infer" /\ run'[p].pc = "write"
         /\ Carries(run[p], run'[p])
         /\ run'[p].raw = run[p].raw /\ run'[p].deleted = run[p].deleted
         /\ \A f \in run[p].changed :
              /\ run'[p].local[f].rev = rev[f]
              /\ run'[p].local[f].raw = run[p].raw[f]
              /\ run'[p].local[f].strategy = run[p].opt.strategy
              /\ \A j \in JoinFiles : run'[p].local[f].join[j] = rev[j]
         /\ \A f \in Files : run'[p].published[f] \subseteq {rev[f]}
         /\ UNCHANGED <<db, txn, lock>>
<1> DEFINE row(f) == [rev |-> rev[f], join |-> [j \in JoinFiles |-> rev[j]],
                      raw |-> run[p].raw[f], strategy |-> run[p].opt.strategy]
<1>1. run[p].changed \subseteq Files
  BY DEF TypeOK, Runs
<1>2. PICK named \in SUBSET NamedBy(run[p].changed) :
        run' = [run EXCEPT ![p].pc = "write", ![p].local = Inferred(run[p]),
                           ![p].published = OperationsOf(named)]
  BY DEF Infer
<1>3. /\ run[p].pc = "infer" /\ run'[p].pc = "write" /\ Carries(run[p], run'[p])
      /\ run'[p].raw = run[p].raw /\ run'[p].deleted = run[p].deleted
      /\ run'[p].local = Inferred(run[p])
      /\ run'[p].published = OperationsOf(named)
      /\ UNCHANGED <<db, txn, lock>>
  BY <1>2 DEF TypeOK, Infer, Runs, Carries
<1>4. \A f \in run[p].changed : Inferred(run[p])[f] = row(f)
  BY <1>1 DEF Inferred
<1>5. \A f \in run[p].changed :
        /\ row(f).rev = rev[f] /\ row(f).raw = run[p].raw[f]
        /\ row(f).strategy = run[p].opt.strategy
        /\ \A j \in JoinFiles : row(f).join[j] = rev[j]
  OBVIOUS
<1>6. \A f \in Files : OperationsOf(named)[f] \subseteq {rev[f]}
  BY DEF OperationsOf
<1>7. QED
  <2> HIDE DEF row
  <2>1. QED BY <1>3, <1>4, <1>5, <1>6

\* The results of the run are written under the lock, and seen by nobody else.
LEMMA WriteEffect ==
  ASSUME TypeOK, NEW p \in Procs, WriteResults(p)
  PROVE  /\ run[p].pc = "write"
         /\ run'[p].pc = IF run[p].opt.engine = "cocoindex" THEN "chunks" ELSE "commit"
         /\ Carries(run[p], run'[p])
         /\ run'[p].raw = run[p].raw /\ run'[p].deleted = run[p].deleted
         /\ run'[p].published = run[p].published
         /\ db' = db /\ lock' = p /\ lock \in {NoProc, p}
         /\ txn' = Results(txn, run[p])
BY DEF TypeOK, WriteResults, CanWrite, Runs, Carries

\* The chunks of the paths that owe some are those of the tree as it is now.
LEMMA IndexChunksEffect ==
  ASSUME TypeOK, NEW p \in Procs, IndexChunks(p)
  PROVE  /\ run[p].pc = "chunks" /\ run'[p].pc = "commit"
         /\ Carries(run[p], run'[p])
         /\ run'[p].raw = run[p].raw /\ run'[p].deleted = run[p].deleted
         /\ run'[p].published = run[p].published
         /\ db' = db /\ lock' = lock
         /\ \A f \in ChunkPaths(txn, run[p]) : txn'.chunk[f] = HashesOnDisk[f]
         /\ \A f \in Files \ ChunkPaths(txn, run[p]) : txn'.chunk[f] = txn.chunk[f]
         /\ txn'.hash = txn.hash /\ txn'.finding = txn.finding
         /\ txn'.endpoint = txn.endpoint /\ txn'.published = txn.published
         /\ txn'.strategy = txn.strategy /\ txn'.inputs = txn.inputs
<1> DEFINE S == ChunkPaths(txn, run[p])
<1>1. S \in SUBSET Files /\ HashesOnDisk \in [Files -> Nat] /\ txn \in Databases
  BY DEF TypeOK, Runs, ChunkPaths, Listed, HashesOnDisk
<1>2. txn' = ReplaceCodeChunks(txn, S, HashesOnDisk)
  BY DEF IndexChunks
<1>3. /\ run[p].pc = "chunks" /\ run'[p].pc = "commit" /\ Carries(run[p], run'[p])
      /\ run'[p].raw = run[p].raw /\ run'[p].deleted = run[p].deleted
      /\ run'[p].published = run[p].published
      /\ db' = db /\ lock' = lock
  BY DEF TypeOK, IndexChunks, Runs, Carries
<1> HIDE DEF S
<1>4. /\ \A f \in S : txn'.chunk[f] = HashesOnDisk[f]
      /\ \A f \in Files \ S : txn'.chunk[f] = txn.chunk[f]
      /\ txn'.hash = txn.hash /\ txn'.finding = txn.finding
      /\ txn'.endpoint = txn.endpoint /\ txn'.published = txn.published
      /\ txn'.strategy = txn.strategy /\ txn'.inputs = txn.inputs
  BY <1>1, <1>2, ChunksEffect
<1>5. QED
  BY <1>3, <1>4 DEF S

\* A step that does not end a run keeps the options it was started with, but for
\* the full rescan the signatures may force.
LEMMA OptionsKept ==
  ASSUME TypeOK, NEW p \in Procs, Step(p) \/ Start(p) \/ Fail(p)
  PROVE  \/ run'[p].pc = "idle"
         \/ run'[p].opt \in OptionsOf(p)
         \/ /\ run[p].pc # "idle"
            /\ run'[p].opt.engine = run[p].opt.engine
            /\ run'[p].opt.strategy = run[p].opt.strategy
            /\ run'[p].opt.semgrep = run[p].opt.semgrep
            /\ run'[p].opt.findings = run[p].opt.findings
<1>1. CASE Start(p)
  BY <1>1, StartEffect
<1>2. CASE Commit(p) \/ LockTimeout(p) \/ Fail(p)
  BY <1>2, EndEffect
<1>3. CASE ReadSignatures(p) \/ ListFiles(p)
  BY <1>3, SignaturesEffect, ListEffect
<1>4. CASE PurgeDeleted(p) \/ Scan(p) \/ Infer(p) \/ WriteResults(p) \/ IndexChunks(p)
  BY <1>4, PurgeEffect, ScanEffect, InferEffect, WriteEffect, IndexChunksEffect DEF Carries
<1>5. QED
  BY <1>1, <1>2, <1>3, <1>4 DEF Step

\* Only a step of a run changes the local variables of a run, its own.
LEMMA RunsChange ==
  ASSUME TypeOK, [Next]_vars, NEW q \in Procs
  PROVE  run'[q] = run[q] \/ Step(q) \/ Start(q) \/ Fail(q)
<1>1. ASSUME NEW f \in Files, WriteFile(f) \/ DeleteFile(f)
      PROVE  run' = run
  BY <1>1 DEF WriteFile, DeleteFile
<1>2. CASE ChangeRules \/ ChangeConfig \/ UNCHANGED vars
  BY <1>2 DEF ChangeRules, ChangeConfig, vars
<1>3. ASSUME NEW p \in Procs, Step(p) \/ Start(p) \/ Fail(p), p # q
      PROVE  run'[q] = run[q]
  BY <1>3, RunFrame
<1>4. QED
  BY <1>1, <1>2, <1>3 DEF Next

----------------------------------------------------------------------------
(* What the options say of every behaviour. *)

\* When no invocation of the CLI leaves findings out, no run does: the server
\* never does (mcp_server.py, reindex_findings).
THEOREM FindingsByOptions ==
  ASSUME \A o \in CliOptions : o.findings
  PROVE  Spec => []EveryRunIndexesFindings
<1>1. Init => EveryRunIndexesFindings
  BY DEF Init, EveryRunIndexesFindings, Idle
<1>2. TypeOK /\ EveryRunIndexesFindings /\ [Next]_vars => EveryRunIndexesFindings'
  <2> SUFFICES ASSUME TypeOK, EveryRunIndexesFindings, [Next]_vars,
                      NEW q \in Procs, run'[q].pc # "idle"
               PROVE  run'[q].opt.findings
    BY DEF EveryRunIndexesFindings
  <2>1. CASE run'[q] = run[q]
    BY <2>1 DEF EveryRunIndexesFindings
  <2>2. CASE Step(q) \/ Start(q) \/ Fail(q)
    <3>1. \A o \in OptionsOf(q) : o.findings
      BY DEF OptionsOf, ServerOptions
    <3>2. QED BY <2>2, <3>1, OptionsKept DEF EveryRunIndexesFindings
  <2>3. QED BY <2>1, <2>2, RunsChange
<1>3. QED
  BY <1>1, <1>2, TypeCorrect, PTL DEF Spec

\* When only the CLI indexes, and always with --engine cocoindex, every run does.
\* The server takes the engine from the meta of the last run: its first run on a
\* new index is a manual one (mcp_server.py, reindex_findings).
THEOREM CocoindexByOptions ==
  ASSUME Servers = {}, \A o \in CliOptions : o.engine = "cocoindex"
  PROVE  Spec => []EveryRunUsesCocoindex
<1>1. Init => EveryRunUsesCocoindex
  BY DEF Init, EveryRunUsesCocoindex, Idle
<1>2. TypeOK /\ EveryRunUsesCocoindex /\ [Next]_vars => EveryRunUsesCocoindex'
  <2> SUFFICES ASSUME TypeOK, EveryRunUsesCocoindex, [Next]_vars,
                      NEW q \in Procs, run'[q].pc # "idle"
               PROVE  run'[q].opt.engine = "cocoindex"
    BY DEF EveryRunUsesCocoindex
  <2>1. CASE run'[q] = run[q]
    BY <2>1 DEF EveryRunUsesCocoindex
  <2>2. CASE Step(q) \/ Start(q) \/ Fail(q)
    <3>1. \A o \in OptionsOf(q) : o.engine = "cocoindex"
      BY DEF OptionsOf
    <3>2. QED BY <2>2, <3>1, OptionsKept DEF EveryRunUsesCocoindex
  <2>3. QED BY <2>1, <2>2, RunsChange
<1>3. QED
  BY <1>1, <1>2, TypeCorrect, PTL DEF Spec

\* A single process does not overlap with itself.
LEMMA OneProcessNeverOverlaps ==
  ASSUME \A p, q \in Procs : p = q
  PROVE  RunsNeverOverlap
BY DEF RunsNeverOverlap

----------------------------------------------------------------------------
(* Findings. *)

\* A stored hash is no newer than the findings stored for its path.
FindingBehindHash(d) ==
  \A f \in Files : d.hash[f] # 0 => /\ d.hash[f] <= d.finding[f].rev
                                    /\ d.finding[f].rev <= rev[f]

\* Findings ask for Semgrep, and Semgrep reads a file after it was hashed.
ScannedInOrder(r) ==
  /\ r.opt.findings => r.opt.semgrep
  /\ r.pc \in {"infer", "write"} =>
       \A f \in r.changed : r.seen[f] <= r.raw[f].rev /\ r.raw[f].rev <= rev[f]

FindingsInv ==
  /\ FindingBehindHash(db)
  /\ FindingBehindHash(txn)
  /\ \A p \in Procs : ScannedInOrder(run[p])

\* Without a hash there is nothing to vouch for.
LEMMA InitFindings == Init => FindingsInv
<1> SUFFICES ASSUME Init PROVE FindingsInv
  OBVIOUS
<1>1. FindingBehindHash(db) /\ FindingBehindHash(txn)
  BY DEF Init, FindingBehindHash, EmptyDb
<1>2. \A p \in Procs : ScannedInOrder(run[p])
  BY DEF Init, ScannedInOrder, Idle, NoOptions
<1>3. QED
  BY <1>1, <1>2 DEF FindingsInv

\* The code asks for Semgrep whenever it asks for findings (cli.py, index_cmd).
LEMMA FindingsAskForSemgrep ==
  ASSUME NEW p \in Procs, NEW o \in OptionsOf(p)
  PROVE  o.findings => o.semgrep
BY OptionsAssumption DEF OptionsOf, ServerOptions

\* A run that indexes findings scans every file it will write after its hash.
LEMMA ScannedStep ==
  ASSUME TypeOK, IndexInv, FindingsInv, EveryRunIndexesFindings,
         NEW p \in Procs, Step(p) \/ Start(p) \/ Fail(p)
  PROVE  ScannedInOrder(run[p])'
<1> USE DEF ScannedInOrder
<1>0. /\ rev' = rev /\ rev \in [Files -> Nat] /\ run[p] \in Runs
      /\ RunOK(run[p]) /\ ScannedInOrder(run[p])
      /\ run[p].changed \subseteq Files /\ run[p].seen \in [Files -> Nat]
  BY RunFrame DEF TypeOK, world, IndexInv, FindingsInv, Runs
<1>1. CASE Start(p)
  <2>1. run'[p].pc = "signature" /\ run'[p].opt \in OptionsOf(p)
    BY <1>1, StartEffect
  <2>2. QED BY <2>1, FindingsAskForSemgrep
<1>2. CASE Commit(p) \/ LockTimeout(p) \/ Fail(p)
  <2>1. run'[p] = Idle /\ Idle.pc = "idle" /\ Idle.opt = NoOptions
    BY <1>2, EndEffect
  <2>2. QED BY <2>1 DEF NoOptions
<1>3. CASE ReadSignatures(p)
  <2>1. /\ run'[p].pc = "list" /\ run'[p].opt.findings = run[p].opt.findings
        /\ run'[p].opt.semgrep = run[p].opt.semgrep
    BY <1>3, SignaturesEffect
  <2>2. QED BY <1>0, <2>1
<1>4. CASE ListFiles(p)
  <2>1. /\ run'[p].opt.findings = run[p].opt.findings
        /\ run'[p].opt.semgrep = run[p].opt.semgrep
        /\ \/ run'[p].pc = "purge"
           \/ run'[p].pc = AfterPurge(run[p].opt, run'[p].changed)
        /\ run[p].pc = "list"
    BY <1>4, ListEffect
  <2>2. run[p].opt.semgrep
    BY <1>0, <2>1 DEF EveryRunIndexesFindings
  <2>3. run'[p].pc \in {"infer", "write"} => run'[p].changed = {}
    BY <2>1, <2>2 DEF AfterPurge
  <2>4. QED BY <1>0, <2>1, <2>3
<1>5. CASE PurgeDeleted(p)
  <2>1. /\ run[p].pc = "purge" /\ Carries(run[p], run'[p])
        /\ run'[p].pc = AfterPurge(run[p].opt, run[p].changed)
    BY <1>5, PurgeEffect
  <2>2. run[p].opt.semgrep
    BY <1>0, <2>1 DEF EveryRunIndexesFindings
  <2>3. run'[p].pc \in {"infer", "write"} => run'[p].changed = {}
    BY <2>1, <2>2 DEF AfterPurge, Carries
  <2>4. QED BY <1>0, <2>1, <2>3 DEF Carries
<1>6. CASE Scan(p)
  <2>1. /\ Carries(run[p], run'[p])
        /\ \A f \in run[p].changed : run'[p].raw[f].rev = rev[f]
    BY <1>0, <1>6, ScanEffect
  <2>2. \A f \in run[p].changed : run[p].seen[f] <= rev[f]
    BY <1>0 DEF RunOK
  <2>3. QED BY <1>0, <2>1, <2>2 DEF Carries
<1>7. CASE Infer(p)
  <2>1. run[p].pc = "infer" /\ Carries(run[p], run'[p]) /\ run'[p].raw = run[p].raw
    BY <1>7, InferEffect
  <2>2. QED BY <1>0, <2>1 DEF Carries
<1>8. CASE WriteResults(p) \/ IndexChunks(p)
  <2>1. Carries(run[p], run'[p]) /\ run'[p].pc \in {"chunks", "commit"}
    BY <1>8, WriteEffect, IndexChunksEffect
  <2>2. QED BY <1>0, <2>1 DEF Carries
<1>9. QED
  BY <1>1, <1>2, <1>3, <1>4, <1>5, <1>6, <1>7, <1>8 DEF Step

\* Neither database ever gets a hash newer than the findings stored with it.
LEMMA FindingsStep ==
  ASSUME TypeOK, FindingsInv, EveryRunIndexesFindings,
         NEW p \in Procs, Step(p) \/ Start(p) \/ Fail(p)
  PROVE  FindingBehindHash(db)' /\ FindingBehindHash(txn)'
<1> USE DEF FindingBehindHash
<1>0. /\ rev' = rev /\ run[p] \in Runs /\ txn \in Databases
      /\ FindingBehindHash(db) /\ FindingBehindHash(txn) /\ ScannedInOrder(run[p])
      /\ run[p].changed \subseteq Files /\ run[p].deleted \in SUBSET Files
  BY RunFrame DEF TypeOK, world, FindingsInv, Runs
<1>1. CASE Start(p) \/ ReadSignatures(p) \/ ListFiles(p) \/ Scan(p) \/ Infer(p)
  <2>1. UNCHANGED <<db, txn>>
    BY <1>1 DEF Start, ReadSignatures, ListFiles, Scan, Infer
  <2>2. QED BY <1>0, <2>1
<1>2. CASE PurgeDeleted(p)
  <2>1. db' = db /\ txn' = RemoveFiles(txn, run[p].deleted)
    BY <1>2, PurgeEffect
  <2>2. \A f \in Files : \/ txn'.hash[f] = 0
                         \/ txn'.hash[f] = txn.hash[f] /\ txn'.finding[f] = txn.finding[f]
    BY <1>0, <2>1, RemoveFilesEffect
  <2>3. QED BY <1>0, <2>1, <2>2
<1>3. CASE WriteResults(p)
  <2>1. db' = db /\ txn' = Results(txn, run[p]) /\ run[p].pc = "write"
    BY <1>3, WriteEffect
  <2>2. run[p].opt.findings
    BY <2>1 DEF EveryRunIndexesFindings
  <2>3. /\ \A f \in run[p].changed : /\ txn'.hash[f] = run[p].seen[f]
                                     /\ txn'.finding[f] = run[p].raw[f]
        /\ \A f \in Files \ run[p].changed : /\ txn'.hash[f] = txn.hash[f]
                                             /\ txn'.finding[f] = txn.finding[f]
    BY <1>0, <2>1, <2>2, ResultsEffect
  <2>4. QED BY <1>0, <2>1, <2>3 DEF ScannedInOrder
<1>4. CASE IndexChunks(p)
  <2>1. db' = db /\ txn'.hash = txn.hash /\ txn'.finding = txn.finding
    BY <1>4, IndexChunksEffect
  <2>2. QED BY <1>0, <2>1
<1>5. CASE Commit(p)
  <2>1. db'.hash = txn.hash /\ db'.finding = txn.finding /\ txn' = db'
    BY <1>5, CommitEffect
  <2>2. QED BY <1>0, <2>1
<1>6. CASE LockTimeout(p) \/ Fail(p)
  <2>1. db' = db /\ (txn' = db \/ txn' = txn)
    BY <1>6, RollbackEffect
  <2>2. QED BY <1>0, <2>1
<1>7. QED
  BY <1>1, <1>2, <1>3, <1>4, <1>5, <1>6 DEF Step

\* Every step keeps the findings behind the hashes.
LEMMA NextFindings ==
  ASSUME TypeOK, IndexInv, FindingsInv, EveryRunIndexesFindings, [Next]_vars
  PROVE  FindingsInv'
<1>1. ASSUME NEW f \in Files, WriteFile(f) \/ DeleteFile(f)
      PROVE  FindingsInv'
  <2>1. /\ \A g \in Files : rev[g] \in Nat /\ rev'[g] \in Nat /\ rev[g] <= rev'[g]
        /\ UNCHANGED <<db, txn, run>>
    BY <1>1 DEF TypeOK, WriteFile, DeleteFile
  <2>2. ASSUME NEW d \in Databases, FindingBehindHash(d), NEW g \in Files, d.hash[g] # 0
        PROVE  d.hash[g] <= d.finding[g].rev /\ d.finding[g].rev <= rev'[g]
    <3>1. d.finding[g].rev \in Nat /\ d.finding[g].rev <= rev[g]
      BY <2>2 DEF Databases, RawRows, FindingBehindHash
    <3>2. QED BY <2>1, <2>2, <3>1 DEF FindingBehindHash
  <2>3. FindingBehindHash(db)' /\ FindingBehindHash(txn)'
    BY <2>1, <2>2 DEF FindingsInv, FindingBehindHash, TypeOK
  <2>4. ASSUME NEW p \in Procs PROVE ScannedInOrder(run[p])'
    <3>1. /\ run[p].changed \subseteq Files /\ ScannedInOrder(run[p])
          /\ \A g \in Files : run[p].raw[g].rev \in Nat
      BY DEF TypeOK, Runs, RawRows, FindingsInv
    <3>2. QED BY <2>1, <3>1 DEF ScannedInOrder
  <2>5. QED BY <2>3, <2>4 DEF FindingsInv
<1>2. CASE ChangeRules \/ ChangeConfig \/ UNCHANGED vars
  <2>1. UNCHANGED <<rev, db, txn, run>>
    BY <1>2 DEF ChangeRules, ChangeConfig, vars
  <2>2. QED BY <2>1 DEF FindingsInv, FindingBehindHash, ScannedInOrder
<1>3. ASSUME NEW p \in Procs, Step(p) \/ Start(p) \/ Fail(p)
      PROVE  FindingsInv'
  <2>1. ASSUME NEW q \in Procs, q # p PROVE ScannedInOrder(run[q])'
    <3>1. rev' = rev /\ run'[q] = run[q] /\ ScannedInOrder(run[q])
      BY <1>3, <2>1, RunFrame DEF world, FindingsInv
    <3>2. QED BY <3>1 DEF ScannedInOrder
  <2>2. \A q \in Procs : ScannedInOrder(run[q])'
    BY <1>3, <2>1, ScannedStep
  <2>3. QED BY <1>3, <2>2, FindingsStep DEF FindingsInv
<1>4. QED
  BY <1>1, <1>2, <1>3 DEF Next

\* As long as every run indexes findings, as the server's always do, a file the
\* next delta skips as unchanged has the findings of the content it has now,
\* however many runs overlap, fail or time out.
THEOREM FindingsAlwaysMatchHash ==
  Spec /\ []EveryRunIndexesFindings => []FindingsMatchHash
<1>1. TypeOK /\ IndexInv /\ FindingsInv => FindingsMatchHash
  <2> SUFFICES ASSUME TypeOK, IndexInv, FindingsInv, NEW f \in Files, Current(f)
               PROVE  db.finding[f].rev = rev[f]
    BY DEF FindingsMatchHash
  <2>1. db.hash[f] = rev[f] /\ rev[f] \in Nat /\ db.finding[f].rev \in Nat
    BY DEF TypeOK, Current, Databases, RawRows
  <2>2. db.hash[f] = 0 => db.finding[f] = NoRaw
    BY DEF IndexInv, Consistent
  <2>3. QED BY <2>1, <2>2 DEF FindingsInv, FindingBehindHash, NoRaw
<1>2. QED
  BY <1>1, InitFindings, NextFindings, TypeCorrect, IndexInvariant, PTL DEF Spec

\* Then reindex_findings keeps its promise, also when it overlaps with `cccr
\* index`: what it commits has the findings of every file that has not moved
\* since.  The counterexample TLC finds needs a run that leaves findings out.
THEOREM ReindexAlwaysRefreshesFindings ==
  Spec /\ []EveryRunIndexesFindings => ReindexRefreshesFindings
<1> DEFINE A == \A p \in Servers : Commit(p) =>
                  \A f \in Files : f \in present /\ db'.hash[f] = rev[f] =>
                                     db'.finding[f].rev = rev[f]
<1>1. FindingsMatchHash' => A
  BY DEF FindingsMatchHash, Current, Commit, world
<1>2. QED
  BY <1>1, FindingsAlwaysMatchHash, PTL DEF ReindexRefreshesFindings

----------------------------------------------------------------------------
(* Code chunks. *)

\* A path whose stored hash is its latest revision exists, and has the chunks of
\* that revision, unless it is one of S.
ChunkedBut(d, S) ==
  \A f \in Files \ S :
    d.hash[f] = rev[f] => f \in present \ Unlisted /\ d.chunk[f] = rev[f]

\* A file whose hash a run took has since been modified, or is still there.
StillThere(r) == \A f \in Files : r.seen[f] = rev[f] => f \in present \ Unlisted

\* Between its results and its chunks, a run owes the chunks of what it changed.
OwesChunks(r) ==
  r.pc = "chunks" => /\ ChunkedBut(txn, r.changed)
                     /\ \A f \in r.changed : txn.hash[f] = r.seen[f]

ChunksInv ==
  /\ \A f \in Files : rev[f] # 0
  /\ ChunkedBut(db, {})
  /\ (\A p \in Procs : run[p].pc # "chunks") => ChunkedBut(txn, {})
  /\ \A p \in Procs : StillThere(run[p]) /\ OwesChunks(run[p])

\* No path has a hash, so none owes chunks.
LEMMA InitChunks == Init => ChunksInv
<1> SUFFICES ASSUME Init PROVE ChunksInv
  OBVIOUS
<1>1. ChunkedBut(db, {}) /\ txn = db /\ \A f \in Files : rev[f] # 0
  BY DEF Init, ChunkedBut, EmptyDb
<1>2. \A p \in Procs : StillThere(run[p]) /\ OwesChunks(run[p])
  BY <1>1 DEF Init, StillThere, OwesChunks, Idle
<1>3. QED
  BY <1>1, <1>2 DEF ChunksInv

\* The hash of a path was taken of a file that existed.
LEMMA StillThereStep ==
  ASSUME TypeOK, ChunksInv, NEW p \in Procs, Step(p) \/ Start(p) \/ Fail(p)
  PROVE  StillThere(run[p])'
<1> USE DEF StillThere
<1>0. /\ rev' = rev /\ present' = present /\ StillThere(run[p])
      /\ \A f \in Files : rev[f] # 0
  BY RunFrame DEF TypeOK, world, ChunksInv
<1>1. CASE Start(p) \/ Commit(p) \/ LockTimeout(p) \/ Fail(p)
  BY <1>0, <1>1, RunEnds
<1>2. CASE ReadSignatures(p)
  BY <1>0, <1>2, SignaturesEffect
<1>3. CASE ListFiles(p)
  <2>1. run'[p].seen = HashesOnDisk
    BY <1>3, ListEffect
  <2>2. QED BY <1>0, <2>1 DEF HashesOnDisk
<1>4. CASE PurgeDeleted(p) \/ Scan(p) \/ Infer(p) \/ WriteResults(p) \/ IndexChunks(p)
  <2>1. run'[p].seen = run[p].seen
    BY <1>4, PurgeEffect, ScanEffect, InferEffect, WriteEffect, IndexChunksEffect DEF Carries
  <2>2. QED BY <1>0, <2>1
<1>5. QED
  BY <1>1, <1>2, <1>3, <1>4 DEF Step

\* The run that writes results owes the chunks of the changed files, which the
\* next step computes; no other run is between the two.
LEMMA ChunksStep ==
  ASSUME TypeOK, IndexInv, ChunksInv, EveryRunUsesCocoindex,
         NEW p \in Procs, Step(p) \/ Start(p) \/ Fail(p)
  PROVE  /\ ChunkedBut(db, {})'
         /\ (\A q \in Procs : run'[q].pc # "chunks") => ChunkedBut(txn, {})'
         /\ \A q \in Procs : OwesChunks(run[q])'
<1> USE DEF ChunkedBut, OwesChunks
<1>0. /\ rev' = rev /\ present' = present /\ run[p] \in Runs /\ txn \in Databases
      /\ run \in [Procs -> Runs]
      /\ ChunkedBut(db, {})
      /\ (\A q \in Procs : run[q].pc # "chunks") => ChunkedBut(txn, {})
      /\ \A q \in Procs : OwesChunks(run[q])
      /\ run[p].changed \subseteq Files /\ run[p].deleted \in SUBSET Files
      /\ \A f \in Files : rev[f] # 0
      /\ \A q \in Procs \ {p} : run'[q] = run[q]
  BY RunFrame DEF TypeOK, world, ChunksInv, Runs
<1>l. /\ \A q \in Procs : run[q].pc \in {"chunks", "commit"} => lock = q
      /\ lock = NoProc => txn = db
  BY DEF IndexInv, LockOK
<1>1. CASE Start(p) \/ ReadSignatures(p) \/ ListFiles(p) \/ Scan(p) \/ Infer(p)
  <2>1. UNCHANGED <<db, txn>>
    BY <1>1 DEF Start, ReadSignatures, ListFiles, Scan, Infer
  <2>2. run[p].pc # "chunks" /\ run'[p].pc # "chunks"
    <3>1. CASE Start(p) \/ ReadSignatures(p) \/ Scan(p) \/ Infer(p)
      BY <3>1, StartEffect, SignaturesEffect, ScanEffect, InferEffect
    <3>2. CASE ListFiles(p)
      BY <3>2, ListEffect, ListsOrPurges
    <3>3. QED BY <1>1, <3>1, <3>2
  <2>3. QED BY <1>0, <2>1, <2>2
<1>2. CASE PurgeDeleted(p)
  <2>1. /\ db' = db /\ lock \in {NoProc, p} /\ run[p].pc = "purge"
        /\ run'[p].pc = AfterPurge(run[p].opt, run[p].changed)
        /\ txn' = RemoveFiles(txn, run[p].deleted)
    BY <1>2, PurgeEffect
  <2>2. /\ \A q \in Procs : run[q].pc # "chunks"
        /\ \A q \in Procs : run'[q].pc # "chunks"
    <3>1. \A q \in Procs : run[q].pc # "chunks"
      BY <1>l, <2>1, ProcsAssumption
    <3>2. run'[p].pc # "chunks"
      BY <2>1 DEF AfterPurge
    <3>3. QED BY <1>0, <3>1, <3>2
  <2>3. \A f \in Files : \/ txn'.hash[f] = 0
                         \/ txn'.hash[f] = txn.hash[f] /\ txn'.chunk[f] = txn.chunk[f]
    BY <1>0, <2>1, RemoveFilesEffect
  <2>4. ChunkedBut(txn, {})'
    BY <1>0, <2>2, <2>3
  <2>5. QED BY <1>0, <2>1, <2>2, <2>4
<1>3. CASE WriteResults(p)
  <2>1. /\ db' = db /\ lock \in {NoProc, p} /\ run[p].pc = "write"
        /\ txn' = Results(txn, run[p]) /\ Carries(run[p], run'[p])
        /\ run'[p].pc = IF run[p].opt.engine = "cocoindex" THEN "chunks" ELSE "commit"
    BY <1>3, WriteEffect
  <2>2. run'[p].pc = "chunks"
    BY <2>1 DEF EveryRunUsesCocoindex
  <2>3. \A q \in Procs : run[q].pc # "chunks"
    BY <1>l, <2>1, ProcsAssumption
  <2>4. /\ \A f \in run[p].changed : txn'.hash[f] = run[p].seen[f]
        /\ \A f \in Files \ run[p].changed : txn'.hash[f] = txn.hash[f]
        /\ txn'.chunk = txn.chunk
    BY <1>0, <2>1, ResultsEffect
  <2>5. OwesChunks(run[p])'
    BY <1>0, <2>1, <2>3, <2>4 DEF Carries
  <2>6. QED BY <1>0, <2>1, <2>2, <2>3, <2>5
<1>4. CASE IndexChunks(p)
  <2>1. /\ db' = db /\ run[p].pc = "chunks" /\ run'[p].pc = "commit"
        /\ \A f \in ChunkPaths(txn, run[p]) : txn'.chunk[f] = HashesOnDisk[f]
        /\ \A f \in Files \ ChunkPaths(txn, run[p]) : txn'.chunk[f] = txn.chunk[f]
        /\ txn'.hash = txn.hash
    BY <1>4, IndexChunksEffect
  <2>2. \A q \in Procs : run'[q].pc # "chunks"
    BY <1>0, <1>l, <2>1
  <2>3. ASSUME NEW f \in Files, txn'.hash[f] = rev[f]
        PROVE  f \in present \ Unlisted /\ txn'.chunk[f] = rev[f]
    <3>1. f \in present \ Unlisted
      BY <1>0, <2>1, <2>3 DEF ChunksInv, StillThere
    <3>2. HashesOnDisk[f] = rev[f]
      BY <3>1 DEF HashesOnDisk
    <3>3. f \in run[p].changed => f \in ChunkPaths(txn, run[p])
      BY DEF ChunkPaths
    <3>4. QED BY <1>0, <2>1, <2>3, <3>1, <3>2, <3>3
  <2>4. QED BY <1>0, <2>1, <2>2, <2>3
<1>5. CASE Commit(p)
  <2>1. /\ db'.hash = txn.hash /\ db'.chunk = txn.chunk /\ txn' = db'
        /\ run[p].pc = "commit" /\ run'[p] = Idle /\ Idle.pc = "idle"
    BY <1>5, CommitEffect, EndEffect
  <2>2. \A q \in Procs : run[q].pc # "chunks" /\ run'[q].pc # "chunks"
    BY <1>0, <1>l, <2>1
  <2>3. QED BY <1>0, <2>1, <2>2
<1>6. CASE LockTimeout(p) \/ Fail(p)
  <2>1. /\ db' = db /\ (txn' = db \/ txn' = txn) /\ (lock # p => txn' = txn)
        /\ (lock = p => txn' = db)
        /\ run'[p] = Idle /\ Idle.pc = "idle"
    BY <1>6, RollbackEffect, EndEffect DEF LockTimeout, Fail, Rollback
  <2>2. CASE lock = p
    BY <1>0, <1>l, <2>1, <2>2
  <2>3. CASE lock # p
    <3>1. run[p].pc # "chunks" /\ txn' = txn
      BY <1>l, <2>1, <2>3
    <3>2. QED BY <1>0, <2>1, <3>1
  <2>4. QED BY <2>2, <2>3
<1>7. QED
  BY <1>1, <1>2, <1>3, <1>4, <1>5, <1>6 DEF Step

\* A change on disk makes every hash of the path an old one.
LEMMA ChangeKeepsChunks ==
  ASSUME TypeOK, IndexInv, ChunksInv, NEW f \in Files, WriteFile(f) \/ DeleteFile(f)
  PROVE  ChunksInv'
<1>1. /\ rev \in [Files -> Nat] /\ rev' = [rev EXCEPT ![f] = rev[f] + 1]
      /\ UNCHANGED <<db, txn, run>>
      /\ \A g \in Files \ {f} : g \in present' <=> g \in present
  BY DEF TypeOK, WriteFile, DeleteFile
<1>2. /\ \A g \in Files \ {f} : rev'[g] = rev[g]
      /\ rev'[f] = rev[f] + 1 /\ rev[f] \in Nat
  BY <1>1
<1>3. db.hash[f] # rev'[f] /\ txn.hash[f] # rev'[f]
  <2>1. ASSUME NEW d \in Databases, Consistent(d) PROVE d.hash[f] # rev[f] + 1
    <3>1. d.hash[f] \in Nat /\ d.endpoint[f].rev \in Nat
      BY DEF Databases, EndpointRows
    <3>2. QED BY <1>2, <2>1, <3>1 DEF Consistent
  <2>2. QED BY <1>2, <2>1 DEF TypeOK, IndexInv
<1>4. \A p \in Procs : run[p].seen[f] # rev'[f]
  <2> SUFFICES ASSUME NEW p \in Procs PROVE run[p].seen[f] # rev[f] + 1
    BY <1>2
  <2>1. run[p].seen[f] \in Nat /\ run[p].seen[f] <= rev[f]
    BY DEF TypeOK, Runs, IndexInv, RunOK
  <2>2. QED BY <1>2, <2>1
<1>5. \A g \in Files : rev'[g] # 0
  BY <1>2 DEF ChunksInv
<1>6. /\ ChunkedBut(db, {})'
      /\ (\A p \in Procs : run'[p].pc # "chunks") => ChunkedBut(txn, {})'
  BY <1>1, <1>2, <1>3 DEF ChunksInv, ChunkedBut
<1>7. ASSUME NEW p \in Procs PROVE StillThere(run[p])' /\ OwesChunks(run[p])'
  <2>1. StillThere(run[p])'
    BY <1>1, <1>2, <1>4 DEF ChunksInv, StillThere
  <2>2. OwesChunks(run[p])'
    BY <1>1, <1>2, <1>3 DEF ChunksInv, OwesChunks, ChunkedBut
  <2>3. QED BY <2>1, <2>2
<1>8. QED
  BY <1>5, <1>6, <1>7 DEF ChunksInv

\* Every step keeps the chunks that the hashes vouch for.
LEMMA NextChunks ==
  ASSUME TypeOK, IndexInv, ChunksInv, EveryRunUsesCocoindex, [Next]_vars
  PROVE  ChunksInv'
<1>1. ASSUME NEW f \in Files, WriteFile(f) \/ DeleteFile(f)
      PROVE  ChunksInv'
  BY <1>1, ChangeKeepsChunks
<1>2. CASE ChangeRules \/ ChangeConfig \/ UNCHANGED vars
  <2>1. UNCHANGED <<rev, present, db, txn, run>>
    BY <1>2 DEF ChangeRules, ChangeConfig, vars
  <2>2. QED BY <2>1 DEF ChunksInv, ChunkedBut, StillThere, OwesChunks
<1>3. ASSUME NEW p \in Procs, Step(p) \/ Start(p) \/ Fail(p)
      PROVE  ChunksInv'
  <2>1. /\ rev' = rev /\ present' = present
        /\ \A q \in Procs \ {p} : run'[q] = run[q]
    BY <1>3, RunFrame DEF world
  <2>2. \A q \in Procs : StillThere(run[q])'
    BY <1>3, <2>1, StillThereStep DEF ChunksInv, StillThere
  <2>3. QED BY <1>3, <2>1, <2>2, ChunksStep DEF ChunksInv
<1>4. QED
  BY <1>1, <1>2, <1>3 DEF Next

\* As long as every run uses the cocoindex engine, a file the next delta skips as
\* unchanged has the chunks of the content it has now, although the chunker reads
\* it again after its hash was taken, and may not find it.
THEOREM ChunksAlwaysMatchHash ==
  Spec /\ []EveryRunUsesCocoindex => []ChunksMatchHash
<1>1. ChunksInv => ChunksMatchHash
  BY DEF ChunksInv, ChunkedBut, ChunksMatchHash, Current
<1>2. QED
  BY <1>1, InitChunks, NextChunks, TypeCorrect, IndexInvariant, PTL DEF Spec

\* Then a run with --engine cocoindex leaves the chunks of the whole repository.
\* The counterexample TLC finds needs a manual run before it.
THEOREM CocoindexAlwaysIndexesEveryFile ==
  Spec /\ []EveryRunUsesCocoindex => CocoindexIndexesEveryFile
<1> DEFINE A == \A p \in Procs :
                  Commit(p) /\ run[p].opt.engine = "cocoindex" =>
                    \A f \in Files : f \in present /\ db'.hash[f] = rev[f] =>
                                       db'.chunk[f] = rev[f]
<1>1. ChunksMatchHash' => A
  BY DEF ChunksMatchHash, Current, Commit, world
<1>2. QED
  BY <1>1, ChunksAlwaysMatchHash, PTL DEF CocoindexIndexesEveryFile

-----------------------------------------------------------------------------
(* The same from the options alone. *)

\* Where every command line asks for findings, as `cccr index --semgrep` does, and
\* any number of them overlap with reindex_findings, which always does.
COROLLARY FindingsMatchByOptions ==
  ASSUME \A o \in CliOptions : o.findings
  PROVE  Spec => []FindingsMatchHash
BY FindingsByOptions, FindingsAlwaysMatchHash, PTL

\* Where there is no server and every command line asks for --engine cocoindex.
COROLLARY ChunksMatchByOptions ==
  ASSUME Servers = {}, \A o \in CliOptions : o.engine = "cocoindex"
  PROVE  Spec => []ChunksMatchHash
BY CocoindexByOptions, ChunksAlwaysMatchHash, PTL
=============================================================================
