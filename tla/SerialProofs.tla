---------------------------- MODULE SerialProofs ----------------------------
(***************************************************************************)
(* What the incremental delta preserves as long as no two runs overlap:    *)
(* the strategy, the rule files, the cross-module join and the chunks of   *)
(* the rows it leaves alone, for any alternation of CLI and server runs,   *)
(* of options, of edits and of failures.                                   *)
(***************************************************************************)
EXTENDS RunProofs

\* The conditions on the rows of one database.
Uniform(d) ==
  \A f \in Files : d.hash[f] # 0 => d.endpoint[f].strategy = d.strategy

NotBefore(row, sig) == row.rev # 0 => row.rules >= sig.rules

EndpointRules(d) ==
  \A f \in Files : d.hash[f] # 0 => NotBefore(d.endpoint[f].raw, d.inputs)

FindingRules(d) ==
  \A f \in Files : d.hash[f] # 0 => NotBefore(d.finding[f], d.inputs)

JoinNotAhead(d) ==
  \A f \in Files, j \in JoinFiles : d.endpoint[f].join[j] <= rev[j]

Joined(d) ==
  d.strategy = "strategy1" =>
    \A f \in Files, j \in JoinFiles :
      d.hash[f] # 0 /\ d.hash[j] # 0 => d.hash[j] <= d.endpoint[f].join[j]

ChunksHaveHash(d) == \A f \in Files : d.hash[f] = 0 => d.chunk[f] = 0

Sound(d) ==
  Uniform(d) /\ EndpointRules(d) /\ JoinNotAhead(d) /\ Joined(d) /\ ChunksHaveHash(d)

\* The conditions on a run, phase by phase.  It scans with rule files no older
\* than the signature it stores.
LookedUp(r) ==
  /\ r.sig.rules <= inputs.rules
  /\ \A f \in Files : NotBefore(r.raw[f], r.sig)
  /\ r.pc = "signature" => \A f \in Files : r.raw[f].rev = 0

\* It lists incrementally only under the strategy and inputs of the index.
Decided(r) ==
  r.pc = "list" => r.opt.full \/ (db.strategy = r.opt.strategy /\ db.inputs = r.sig)

\* It rescans every file, or what it leaves alone is still valid.
Everything(r) == \A f \in Files : r.seen[f] # 0 => f \in r.changed

Delta(r) ==
  r.pc \in {"purge", "scan", "infer", "write"} =>
    /\ \A f \in Files : f \notin r.changed /\ f \notin r.deleted => txn.hash[f] = r.seen[f]
    /\ \A f \in r.deleted : r.seen[f] = 0
    /\ r.pc # "purge" => r.deleted = {}
    /\ ~Everything(r) => txn.strategy = r.opt.strategy /\ txn.inputs = r.sig
    /\ ~Everything(r) /\ r.opt.strategy = "strategy1" =>
         \A j \in JoinFiles : j \notin r.changed /\ j \notin r.deleted

\* What it is about to write was computed under its own strategy and inputs, from
\* join files no older than it listed.
InferredSound(r) ==
  r.pc = "write" =>
    \A f \in r.changed :
      /\ r.local[f].strategy = r.opt.strategy
      /\ NotBefore(r.local[f].raw, r.sig)
      /\ \A j \in JoinFiles : r.seen[j] <= r.local[f].join[j] /\ r.local[f].join[j] <= rev[j]

\* What it has written is the whole of its listing.
Written(r) == r.pc \in {"chunks", "commit"} => \A f \in Files : txn.hash[f] = r.seen[f]

RunSerial(r) == LookedUp(r) /\ Decided(r) /\ Delta(r) /\ InferredSound(r) /\ Written(r)

SerialInv ==
  /\ \A f \in Files : rev[f] # 0
  /\ Sound(db)
  /\ Sound(txn)
  /\ \A p \in Procs : RunSerial(run[p])

----------------------------------------------------------------------------
(* The operators of the delta and of Store. *)

\* Every path the delta neither rescans nor removes has the hash it was listed
\* with, and a change to the join files of strategy1 rescans everything.
LEMMA DeltaCovers ==
  ASSUME NEW o, NEW prev, NEW seen, NEW changed, NEW deleted,
         changed = ChangedFrom(o, prev, seen), deleted = DeletedFrom(prev, seen)
  PROVE  /\ \A f \in Files : f \notin changed /\ f \notin deleted => prev[f] = seen[f]
         /\ \A f \in deleted : seen[f] = 0
         /\ \/ \A f \in Files : seen[f] # 0 => f \in changed
            \/ /\ ~o.full
               /\ o.strategy = "strategy1" =>
                    \A j \in JoinFiles : j \notin changed /\ j \notin deleted
<1>1. \A f \in Files : f \in deleted <=> prev[f] # 0 /\ seen[f] = 0
  BY DEF DeletedFrom
<1>2. CASE o.full \/ JoinTouched(o, DeltaFrom(prev, seen) \cup DeletedFrom(prev, seen))
  <2>1. changed = Listed(seen)
    BY <1>2 DEF ChangedFrom
  <2>2. \A f \in Files : f \in changed <=> seen[f] # 0
    BY <2>1 DEF Listed
  <2>3. deleted \subseteq Files
    BY DEF DeletedFrom
  <2>4. QED BY <1>1, <2>2, <2>3
<1>3. CASE ~o.full /\ ~JoinTouched(o, DeltaFrom(prev, seen) \cup DeletedFrom(prev, seen))
  <2>1. changed = DeltaFrom(prev, seen)
    BY <1>3 DEF ChangedFrom
  <2>2. \A f \in Files : f \in changed <=> seen[f] # 0 /\ prev[f] # seen[f]
    BY <2>1 DEF DeltaFrom
  <2>3. deleted \subseteq Files
    BY DEF DeletedFrom
  <2>4. o.strategy = "strategy1" => \A j \in JoinFiles : j \notin changed /\ j \notin deleted
    BY <1>3, <2>1 DEF JoinTouched
  <2>5. QED BY <1>1, <1>3, <2>2, <2>3, <2>4
<1>4. QED BY <1>2, <1>3

\* A sound database stays so when whole paths are removed from it.
LEMMA SoundRemoval ==
  ASSUME TypeOK, NEW d \in Databases, Sound(d), NEW S \in SUBSET Files
  PROVE  Sound(RemoveFiles(d, S))
<1> DEFINE e == RemoveFiles(d, S)
<1>1. /\ \A f \in S : /\ e.hash[f] = 0 /\ e.endpoint[f] = NoEndpoint /\ e.chunk[f] = 0
      /\ \A f \in Files \ S : /\ e.hash[f] = d.hash[f] /\ e.endpoint[f] = d.endpoint[f]
                              /\ e.chunk[f] = d.chunk[f]
      /\ e.strategy = d.strategy /\ e.inputs = d.inputs
  BY RemoveFilesEffect
<1> HIDE DEF e
<1>2. Uniform(e) /\ EndpointRules(e) /\ ChunksHaveHash(e)
  BY <1>1 DEF Sound, Uniform, EndpointRules, ChunksHaveHash
<1>3. JoinNotAhead(e)
  <2> SUFFICES ASSUME NEW f \in Files, NEW j \in JoinFiles
               PROVE  e.endpoint[f].join[j] <= rev[j]
    BY DEF JoinNotAhead
  <2>1. rev[j] \in Nat
    BY JoinFilesAssumption DEF TypeOK
  <2>2. NoEndpoint.join[j] = 0
    BY DEF NoEndpoint, NoJoin
  <2>3. CASE f \in S
    BY <1>1, <2>1, <2>2, <2>3
  <2>4. CASE f \notin S
    BY <1>1, <2>4 DEF Sound, JoinNotAhead
  <2>5. QED BY <2>3, <2>4
<1>4. Joined(e)
  BY <1>1, JoinFilesAssumption DEF Sound, Joined
<1>5. QED BY <1>2, <1>3, <1>4 DEF Sound, e

\* Writing the results of a delta that leaves only valid rows alone keeps the
\* whole index sound, under the strategy and the signature of the run.
LEMMA SoundResults ==
  ASSUME TypeOK, Sound(txn), NEW r \in Runs, RunOK(r), RunSerial(r), r.pc = "write"
  PROVE  /\ Sound(Results(txn, r))
         /\ \A f \in Files : Results(txn, r).hash[f] = r.seen[f]
<1> DEFINE e == Results(txn, r)
<1>0. r.changed \subseteq Files /\ txn \in Databases
  BY DEF Runs, TypeOK
<1>1. /\ \A f \in r.changed : e.hash[f] = r.seen[f] /\ e.endpoint[f] = r.local[f]
      /\ \A f \in Files \ r.changed : /\ e.hash[f] = txn.hash[f]
                                      /\ e.endpoint[f] = txn.endpoint[f]
      /\ e.chunk = txn.chunk
      /\ e.strategy = r.opt.strategy /\ e.inputs = r.sig
  BY <1>0, ResultsEffect
<1>2. /\ \A f \in Files : f \notin r.changed => txn.hash[f] = r.seen[f]
      /\ ~Everything(r) => txn.strategy = r.opt.strategy /\ txn.inputs = r.sig
      /\ ~Everything(r) /\ r.opt.strategy = "strategy1" =>
           \A j \in JoinFiles : j \notin r.changed
  BY DEF RunSerial, Delta
<1>3. /\ \A f \in r.changed : r.seen[f] # 0
      /\ \A f \in r.changed :
           /\ r.local[f].strategy = r.opt.strategy
           /\ NotBefore(r.local[f].raw, r.sig)
           /\ \A j \in JoinFiles : r.seen[j] <= r.local[f].join[j] /\ r.local[f].join[j] <= rev[j]
  BY DEF RunSerial, InferredSound, RunOK
<1> HIDE DEF e
<1>4. \A f \in Files : e.hash[f] = r.seen[f]
  BY <1>1, <1>2
\* A row that is left alone was valid under the strategy and inputs of the run.
<1>5. \A f \in Files \ r.changed : e.hash[f] # 0 =>
         /\ ~Everything(r)
         /\ txn.hash[f] # 0
         /\ e.endpoint[f] = txn.endpoint[f]
         /\ txn.strategy = e.strategy /\ txn.inputs = e.inputs
  BY <1>1, <1>2, <1>4 DEF Everything
<1>6. Uniform(e)
  BY <1>1, <1>3, <1>5 DEF Sound, Uniform
<1>7. EndpointRules(e)
  BY <1>1, <1>3, <1>5 DEF Sound, EndpointRules
<1>8. JoinNotAhead(e)
  BY <1>1, <1>3 DEF Sound, JoinNotAhead
<1>9. Joined(e)
  <2> SUFFICES ASSUME e.strategy = "strategy1", NEW f \in Files, NEW j \in JoinFiles,
                      e.hash[f] # 0, e.hash[j] # 0
               PROVE  e.hash[j] <= e.endpoint[f].join[j]
    BY DEF Joined
  <2>1. j \in Files
    BY JoinFilesAssumption
  <2>2. CASE f \in r.changed
    BY <1>1, <1>3, <1>4, <2>1, <2>2
  <2>3. CASE f \notin r.changed
    <3>1. j \notin r.changed
      BY <1>1, <1>2, <1>5, <2>3
    <3>2. e.hash[j] = txn.hash[j]
      BY <1>1, <2>1, <3>1
    <3>3. QED BY <1>5, <2>1, <2>3, <3>2 DEF Sound, Joined
  <2>4. QED BY <2>2, <2>3
<1>10. ChunksHaveHash(e)
  BY <1>1, <1>3 DEF Sound, ChunksHaveHash
<1>11. Sound(e)
  BY <1>6, <1>7, <1>8, <1>9, <1>10 DEF Sound
<1>12. QED BY <1>4, <1>11 DEF e

----------------------------------------------------------------------------
(* The invariant. *)

\* The empty database is sound, and no run has read anything.
LEMMA InitSerial == Init => SerialInv
<1> SUFFICES ASSUME Init PROVE SerialInv
  OBVIOUS
<1>1. \A f \in Files : rev[f] = 1
  BY DEF Init
<1>2. Sound(db) /\ txn = db
  <2>1. db = EmptyDb /\ txn = db
    BY DEF Init
  <2>2. Uniform(db) /\ EndpointRules(db) /\ Joined(db) /\ ChunksHaveHash(db)
    BY <2>1 DEF EmptyDb, Uniform, EndpointRules, Joined, ChunksHaveHash
  <2>3. JoinNotAhead(db)
    BY <1>1, <2>1, JoinFilesAssumption DEF EmptyDb, JoinNotAhead, NoEndpoint, NoJoin
  <2>4. QED BY <2>1, <2>2, <2>3 DEF Sound
<1>3. ASSUME NEW p \in Procs PROVE RunSerial(run[p])
  <2>1. run[p] = Idle /\ inputs.rules = 1
    BY DEF Init
  <2>2. QED
    BY <2>1 DEF RunSerial, LookedUp, Decided, Delta, InferredSound, Written, Idle, NoInputs,
                NotBefore, NoRaw
<1>4. QED BY <1>1, <1>2, <1>3 DEF SerialInv

\* While a run is active no other one holds the lock, nor has written.
LEMMA Alone ==
  ASSUME TypeOK, IndexInv, RunsNeverOverlap, NEW p \in Procs, run[p].pc # "idle"
  PROVE  /\ \A q \in Procs : q # p => run[q].pc = "idle"
         /\ lock \in {NoProc, p}
         /\ run[p].pc \in {"signature", "list", "purge"} => txn = db
<1>1. \A q \in Procs : q # p => run[q].pc = "idle"
  BY DEF RunsNeverOverlap
<1>2. lock \in {NoProc, p}
  BY <1>1 DEF IndexInv, LockOK, TypeOK
<1>3. run[p].pc \in {"signature", "list", "purge"} => txn = db
  BY <1>2 DEF IndexInv, LockOK
<1>4. QED BY <1>1, <1>2, <1>3

\* The local variables of a run stay sound from one of its steps to the next.
LEMMA RunSerialStep ==
  ASSUME TypeOK, IndexInv, SerialInv, RunsNeverOverlap,
         NEW p \in Procs, Step(p) \/ Start(p) \/ Fail(p)
  PROVE  RunSerial(run[p])'
<1> USE DEF RunSerial
<1>0. /\ rev' = rev /\ inputs' = inputs /\ run[p] \in Runs /\ run \in [Procs -> Runs]
      /\ RunSerial(run[p]) /\ RunOK(run[p])
      /\ run[p].changed \subseteq Files /\ run[p].deleted \in SUBSET Files
      /\ txn \in Databases /\ inputs.rules \in Nat /\ rev \in [Files -> Nat]
  BY RunFrame DEF TypeOK, world, SerialInv, IndexInv, Runs, InputRevs
<1>1. CASE Start(p) \/ Commit(p) \/ LockTimeout(p) \/ Fail(p)
  <2>1. /\ run'[p].pc \in {"idle", "signature"}
        /\ run'[p].sig = NoInputs /\ run'[p].raw = [f \in Files |-> NoRaw]
    BY <1>1, StartEffect, EndEffect
  <2>2. LookedUp(run[p])'
    BY <1>0, <2>1 DEF LookedUp, NotBefore, NoRaw, NoInputs
  <2>3. (Decided(run[p]) /\ Delta(run[p]) /\ InferredSound(run[p]) /\ Written(run[p]))'
    BY <2>1 DEF Decided, Delta, InferredSound, Written
  <2>4. QED BY <2>2, <2>3
<1>2. CASE ReadSignatures(p)
  <2>1. /\ run[p].pc = "signature" /\ run'[p].pc = "list" /\ run'[p].sig = inputs
        /\ run'[p].opt.full = ForcesFull(run[p].opt, inputs)
        /\ run'[p].opt.strategy = run[p].opt.strategy
        /\ run'[p].raw = run[p].raw /\ db' = db
    BY <1>2, SignaturesEffect
  <2>2. LookedUp(run[p])'
    BY <1>0, <2>1 DEF LookedUp, NotBefore
  <2>3. Decided(run[p])'
    BY <2>1 DEF Decided, ForcesFull
  <2>4. (Delta(run[p]) /\ InferredSound(run[p]) /\ Written(run[p]))'
    BY <2>1 DEF Delta, InferredSound, Written
  <2>5. QED BY <2>2, <2>3, <2>4
<1>3. CASE ListFiles(p)
  <2> DEFINE changed == ChangedFrom(run[p].opt, db.hash, HashesOnDisk)
             deleted == DeletedFrom(db.hash, HashesOnDisk)
  <2>1. /\ run[p].pc = "list"
        /\ run'[p].pc = IF deleted # {} THEN "purge" ELSE AfterPurge(run[p].opt, changed)
        /\ run'[p].seen = HashesOnDisk /\ run'[p].changed = changed
        /\ run'[p].deleted = deleted
        /\ run'[p].sig = run[p].sig /\ run'[p].raw = run[p].raw
        /\ run'[p].opt.strategy = run[p].opt.strategy
        /\ txn' = txn
    BY <1>3, ListEffect
  <2>2. /\ \A f \in Files : f \notin changed /\ f \notin deleted => db.hash[f] = HashesOnDisk[f]
        /\ \A f \in deleted : HashesOnDisk[f] = 0
        /\ \/ \A f \in Files : HashesOnDisk[f] # 0 => f \in changed
           \/ /\ ~run[p].opt.full
              /\ run[p].opt.strategy = "strategy1" =>
                   \A j \in JoinFiles : j \notin changed /\ j \notin deleted
    BY DeltaCovers
  <2>3. run'[p].pc = "write" => changed = {}
    BY <2>1 DEF AfterPurge
  <2>4. /\ run'[p].pc # "purge" => deleted = {}
        /\ run'[p].pc \in {"purge", "scan", "infer", "write"}
    BY <1>3, <2>1, ListsOrPurges
  <2>5. txn = db
    BY <2>1, Alone
  <2> HIDE DEF changed, deleted
  <2>6. LookedUp(run[p])'
    BY <1>0, <2>1, <2>4 DEF LookedUp
  <2>7. Delta(run[p])'
    <3>1. run[p].opt.full \/ (txn.strategy = run[p].opt.strategy /\ txn.inputs = run[p].sig)
      BY <1>0, <2>1, <2>5 DEF Decided
    <3>2. QED BY <2>1, <2>2, <2>4, <2>5, <3>1 DEF Delta, Everything
  <2>8. (Decided(run[p]) /\ InferredSound(run[p]) /\ Written(run[p]))'
    BY <2>1, <2>3, <2>4 DEF Decided, InferredSound, Written
  <2>9. QED BY <2>6, <2>7, <2>8
<1>4. CASE PurgeDeleted(p)
  <2>1. /\ run[p].pc = "purge" /\ Carries(run[p], run'[p])
        /\ run'[p].pc = AfterPurge(run[p].opt, run[p].changed)
        /\ run'[p].raw = run[p].raw /\ run'[p].deleted = {}
        /\ txn' = RemoveFiles(txn, run[p].deleted)
    BY <1>4, PurgeEffect
  <2>2. /\ \A f \in run[p].deleted : txn'.hash[f] = 0
        /\ \A f \in Files \ run[p].deleted : txn'.hash[f] = txn.hash[f]
        /\ txn'.strategy = txn.strategy /\ txn'.inputs = txn.inputs
    BY <1>0, <2>1, RemoveFilesEffect
  <2>3. /\ run'[p].pc \in {"scan", "infer", "write"}
        /\ run'[p].pc = "write" => run[p].changed = {}
    BY <2>1 DEF AfterPurge
  <2>4. LookedUp(run[p])'
    BY <1>0, <2>1, <2>3 DEF LookedUp, Carries
  <2>5. Delta(run[p])'
    BY <1>0, <2>1, <2>2 DEF Delta, Everything, Carries
  <2>6. (Decided(run[p]) /\ InferredSound(run[p]) /\ Written(run[p]))'
    BY <2>1, <2>3 DEF Decided, InferredSound, Written, Carries
  <2>7. QED BY <2>4, <2>5, <2>6
<1>5. CASE Scan(p)
  <2>1. /\ run[p].pc = "scan" /\ run'[p].pc = "infer" /\ Carries(run[p], run'[p])
        /\ run'[p].deleted = run[p].deleted
        /\ \A f \in run[p].changed : run'[p].raw[f].rules = inputs.rules
        /\ \A f \in Files \ run[p].changed : run'[p].raw[f] = NoRaw
        /\ txn' = txn
    BY <1>5, ScanEffect
  <2>2. LookedUp(run[p])'
    BY <1>0, <2>1 DEF LookedUp, NotBefore, NoRaw, Carries
  <2>3. Delta(run[p])'
    BY <1>0, <2>1 DEF Delta, Everything, Carries
  <2>4. (Decided(run[p]) /\ InferredSound(run[p]) /\ Written(run[p]))'
    BY <2>1 DEF Decided, InferredSound, Written
  <2>5. QED BY <2>2, <2>3, <2>4
<1>6. CASE Infer(p)
  <2>1. /\ run[p].pc = "infer" /\ run'[p].pc = "write" /\ Carries(run[p], run'[p])
        /\ run'[p].raw = run[p].raw /\ run'[p].deleted = run[p].deleted
        /\ txn' = txn
        /\ \A f \in run[p].changed :
             /\ run'[p].local[f].raw = run[p].raw[f]
             /\ run'[p].local[f].strategy = run[p].opt.strategy
             /\ \A j \in JoinFiles : run'[p].local[f].join[j] = rev[j]
    BY <1>6, InferEffect
  <2>2. LookedUp(run[p])'
    BY <1>0, <2>1 DEF LookedUp, Carries
  <2>3. Delta(run[p])'
    BY <1>0, <2>1 DEF Delta, Everything, Carries
  <2>4. InferredSound(run[p])'
    <3>1. \A f \in run[p].changed : NotBefore(run[p].raw[f], run[p].sig)
      BY <1>0 DEF LookedUp
    <3>2. \A j \in JoinFiles : run[p].seen[j] <= rev[j] /\ rev[j] <= rev[j]
      BY <1>0, JoinFilesAssumption DEF RunOK
    <3>3. QED BY <1>0, <2>1, <3>1, <3>2 DEF InferredSound, Carries
  <2>5. (Decided(run[p]) /\ Written(run[p]))'
    BY <2>1 DEF Decided, Written
  <2>6. QED BY <2>2, <2>3, <2>4, <2>5
<1>7. CASE WriteResults(p)
  <2>1. /\ run[p].pc = "write" /\ run'[p].pc \in {"chunks", "commit"}
        /\ Carries(run[p], run'[p]) /\ run'[p].raw = run[p].raw
        /\ txn' = Results(txn, run[p])
    BY <1>7, WriteEffect
  <2>2. LookedUp(run[p])'
    BY <1>0, <2>1 DEF LookedUp, Carries
  <2>3. Written(run[p])'
    BY <1>0, <2>1, SoundResults DEF SerialInv, Written, Carries
  <2>4. (Decided(run[p]) /\ Delta(run[p]) /\ InferredSound(run[p]))'
    BY <2>1 DEF Decided, Delta, InferredSound
  <2>5. QED BY <2>2, <2>3, <2>4
<1>8. CASE IndexChunks(p)
  <2>1. /\ run[p].pc = "chunks" /\ run'[p].pc = "commit"
        /\ Carries(run[p], run'[p]) /\ run'[p].raw = run[p].raw
        /\ txn'.hash = txn.hash
    BY <1>8, IndexChunksEffect
  <2>2. LookedUp(run[p])' /\ Written(run[p])'
    BY <1>0, <2>1 DEF LookedUp, Written, Carries
  <2>3. (Decided(run[p]) /\ Delta(run[p]) /\ InferredSound(run[p]))'
    BY <2>1 DEF Decided, Delta, InferredSound
  <2>4. QED BY <2>2, <2>3
<1>9. QED
  BY <1>1, <1>2, <1>3, <1>4, <1>5, <1>6, <1>7, <1>8 DEF Step

\* Neither database ever holds a row that its strategy or signature misstates.
LEMMA SoundStep ==
  ASSUME TypeOK, IndexInv, SerialInv, RunsNeverOverlap,
         NEW p \in Procs, Step(p) \/ Start(p) \/ Fail(p)
  PROVE  Sound(db)' /\ Sound(txn)'
<1>0. /\ rev' = rev /\ run[p] \in Runs /\ txn \in Databases /\ db \in Databases
      /\ Sound(db) /\ Sound(txn) /\ RunSerial(run[p]) /\ RunOK(run[p])
      /\ run[p].changed \subseteq Files /\ run[p].deleted \in SUBSET Files
  BY RunFrame DEF TypeOK, world, SerialInv, IndexInv, Runs
<1>1. CASE Start(p) \/ ReadSignatures(p) \/ ListFiles(p) \/ Scan(p) \/ Infer(p)
  <2>1. UNCHANGED <<db, txn>>
    BY <1>1 DEF Start, ReadSignatures, ListFiles, Scan, Infer
  <2>2. QED
    BY <1>0, <2>1 DEF Sound, Uniform, EndpointRules, JoinNotAhead, Joined, ChunksHaveHash
<1>2. CASE PurgeDeleted(p)
  <2>1. db' = db /\ txn' = RemoveFiles(txn, run[p].deleted)
    BY <1>2, PurgeEffect
  <2>2. Sound(RemoveFiles(txn, run[p].deleted))
    BY <1>0, SoundRemoval
  <2>3. QED
    BY <1>0, <2>1, <2>2 DEF Sound, Uniform, EndpointRules, JoinNotAhead, Joined, ChunksHaveHash
<1>3. CASE WriteResults(p)
  <2>1. db' = db /\ txn' = Results(txn, run[p]) /\ run[p].pc = "write"
    BY <1>3, WriteEffect
  <2>2. Sound(Results(txn, run[p]))
    BY <1>0, <2>1, SoundResults
  <2>3. QED
    BY <1>0, <2>1, <2>2 DEF Sound, Uniform, EndpointRules, JoinNotAhead, Joined, ChunksHaveHash
<1>4. CASE IndexChunks(p)
  <2>1. /\ db' = db /\ run[p].pc = "chunks"
        /\ \A f \in Files \ ChunkPaths(txn, run[p]) : txn'.chunk[f] = txn.chunk[f]
        /\ txn'.hash = txn.hash /\ txn'.endpoint = txn.endpoint
        /\ txn'.strategy = txn.strategy /\ txn'.inputs = txn.inputs
    BY <1>4, IndexChunksEffect
  <2>2. \A f \in ChunkPaths(txn, run[p]) : txn.hash[f] # 0
    BY <1>0, <2>1 DEF ChunkPaths, Listed, RunSerial, Written, RunOK
  <2>3. ChunksHaveHash(txn)'
    BY <1>0, <2>1, <2>2 DEF Sound, ChunksHaveHash
  <2>4. QED
    BY <1>0, <2>1, <2>3 DEF Sound, Uniform, EndpointRules, JoinNotAhead, Joined, ChunksHaveHash
<1>5. CASE Commit(p)
  <2>1. /\ db'.hash = txn.hash /\ db'.endpoint = txn.endpoint /\ db'.chunk = txn.chunk
        /\ db'.strategy = txn.strategy /\ db'.inputs = txn.inputs /\ txn' = db'
    BY <1>5, CommitEffect
  <2>2. QED
    BY <1>0, <2>1 DEF Sound, Uniform, EndpointRules, JoinNotAhead, Joined, ChunksHaveHash
<1>6. CASE LockTimeout(p) \/ Fail(p)
  <2>1. db' = db /\ (txn' = db \/ txn' = txn)
    BY <1>6, RollbackEffect
  <2>2. QED
    BY <1>0, <2>1 DEF Sound, Uniform, EndpointRules, JoinNotAhead, Joined, ChunksHaveHash
<1>7. QED
  BY <1>1, <1>2, <1>3, <1>4, <1>5, <1>6 DEF Step

\* A step of one run leaves what was established of the others: it is the only
\* one that is active, or it starts and has written nothing.
LEMMA OthersStaySerial ==
  ASSUME TypeOK, SerialInv, RunsNeverOverlap, NEW p \in Procs,
         Step(p) \/ Start(p) \/ Fail(p), NEW q \in Procs, q # p
  PROVE  RunSerial(run[q])'
<1>0. rev' = rev /\ inputs' = inputs /\ run'[q] = run[q] /\ RunSerial(run[q])
  BY RunFrame DEF world, SerialInv
<1>1. CASE Start(p)
  <2>1. UNCHANGED <<db, txn>>
    BY <1>1 DEF Start
  <2>2. QED
    BY <1>0, <2>1 DEF RunSerial, LookedUp, Decided, Delta, InferredSound, Written
<1>2. CASE Step(p) \/ Fail(p)
  <2>1. run[p].pc # "idle"
    BY <1>2 DEF Step, Fail, ReadSignatures, ListFiles, PurgeDeleted, Scan, Infer,
                WriteResults, IndexChunks, Commit, LockTimeout
  <2>2. run[q].pc = "idle"
    BY <2>1 DEF RunsNeverOverlap
  <2>3. QED
    BY <1>0, <2>2 DEF RunSerial, LookedUp, Decided, Delta, InferredSound, Written
<1>3. QED BY <1>1, <1>2

\* Edits and changes of the inputs only make what a run has read older.
LEMMA ChangeKeepsSerial ==
  ASSUME TypeOK, SerialInv, UNCHANGED <<db, txn, run>>,
         rev' \in [Files -> Nat], \A f \in Files : rev[f] <= rev'[f],
         inputs'.rules \in Nat, inputs.rules <= inputs'.rules
  PROVE  SerialInv'
<1>1. rev \in [Files -> Nat] /\ inputs.rules \in Nat
  BY DEF TypeOK, InputRevs
<1>2. \A f \in Files : rev'[f] # 0
  BY <1>1 DEF SerialInv
<1>3. ASSUME NEW d \in Databases, JoinNotAhead(d), NEW f \in Files, NEW j \in JoinFiles
      PROVE  d.endpoint[f].join[j] <= rev'[j]
  <2>1. /\ d.endpoint[f].join[j] \in Nat /\ d.endpoint[f].join[j] <= rev[j]
        /\ rev[j] \in Nat /\ rev'[j] \in Nat /\ rev[j] <= rev'[j]
    BY <1>1, <1>3, JoinFilesAssumption DEF Databases, EndpointRows, JoinNotAhead
  <2>2. QED BY <2>1
<1>4. Sound(db)' /\ Sound(txn)'
  BY <1>3 DEF TypeOK, SerialInv, Sound, Uniform, EndpointRules, JoinNotAhead, Joined,
              ChunksHaveHash
<1>5. ASSUME NEW p \in Procs PROVE RunSerial(run[p])'
  <2>1. /\ run[p] \in Runs /\ run[p].sig.rules \in Nat /\ run[p].changed \subseteq Files
        /\ RunSerial(run[p])
    BY DEF TypeOK, Runs, InputRevs, SerialInv
  <2>2. LookedUp(run[p])'
    BY <1>1, <2>1 DEF RunSerial, LookedUp
  <2>3. (Decided(run[p]) /\ Delta(run[p]) /\ Written(run[p]))'
    BY <2>1 DEF RunSerial, Decided, Delta, Written
  <2>4. InferredSound(run[p])'
    <3> SUFFICES ASSUME run[p].pc = "write", NEW f \in run[p].changed, NEW j \in JoinFiles
                 PROVE  run[p].local[f].join[j] <= rev'[j]
      BY <2>1 DEF RunSerial, InferredSound
    <3>1. /\ run[p].local[f].join[j] \in Nat /\ run[p].local[f].join[j] <= rev[j]
          /\ rev[j] \in Nat /\ rev'[j] \in Nat /\ rev[j] <= rev'[j]
      BY <1>1, <2>1, JoinFilesAssumption DEF Runs, EndpointRows, RunSerial, InferredSound
    <3>2. QED BY <3>1
  <2>5. QED BY <2>2, <2>3, <2>4 DEF RunSerial
<1>6. QED BY <1>2, <1>4, <1>5 DEF SerialInv

\* Every step keeps the invariant, as long as runs do not overlap.
LEMMA NextSerial ==
  ASSUME TypeOK, IndexInv, SerialInv, RunsNeverOverlap, [Next]_vars
  PROVE  SerialInv'
<1>0. rev \in [Files -> Nat] /\ inputs \in InputRevs /\ inputs.rules \in Nat
  BY DEF TypeOK, InputRevs
<1>1. ASSUME NEW f \in Files, WriteFile(f) \/ DeleteFile(f)
      PROVE  SerialInv'
  <2>1. /\ UNCHANGED <<db, txn, run, inputs>>
        /\ rev' \in [Files -> Nat] /\ \A g \in Files : rev[g] <= rev'[g]
    BY <1>0, <1>1 DEF WriteFile, DeleteFile
  <2>2. QED BY <1>0, <2>1, ChangeKeepsSerial
<1>2. CASE ChangeRules \/ ChangeConfig \/ UNCHANGED vars
  <2>1. /\ UNCHANGED <<db, txn, run, rev>>
        /\ inputs'.rules \in Nat /\ inputs.rules <= inputs'.rules
    BY <1>0, <1>2 DEF ChangeRules, ChangeConfig, vars, InputRevs
  <2>2. \A f \in Files : rev[f] <= rev'[f]
    BY <1>0, <2>1
  <2>3. QED BY <1>0, <2>1, <2>2, ChangeKeepsSerial
<1>3. ASSUME NEW p \in Procs, Step(p) \/ Start(p) \/ Fail(p)
      PROVE  SerialInv'
  <2>1. \A q \in Procs : RunSerial(run[q])'
    BY <1>3, RunSerialStep, OthersStaySerial
  <2>2. Sound(db)' /\ Sound(txn)'
    BY <1>3, SoundStep
  <2>3. \A f \in Files : rev'[f] # 0
    BY <1>3, RunFrame DEF world, SerialInv
  <2>4. QED BY <2>1, <2>2, <2>3 DEF SerialInv
<1>4. QED
  BY <1>1, <1>2, <1>3 DEF Next

\* The strengthening the theorems below rest on: the conditions on both databases
\* and what a run owes them, phase by phase.
THEOREM SerialInvariant == Spec /\ []RunsNeverOverlap => []SerialInv
<1>1. QED
  BY InitSerial, NextSerial, TypeCorrect, IndexInvariant, PTL DEF Spec

----------------------------------------------------------------------------
(* What follows from it. *)

\* Whatever strategies the runs ask for in turn, every endpoint of the index was
\* extracted under the one the index records.
THEOREM StrategyAlwaysUniform == Spec /\ []RunsNeverOverlap => []StrategyUniform
<1>1. SerialInv => StrategyUniform
  BY DEF SerialInv, Sound, Uniform, StrategyUniform
<1>2. QED
  BY <1>1, SerialInvariant, PTL

\* No chunk outlives the hash of its path, although the backfill writes paths
\* that were not changed.
THEOREM NoGhostChunksEver == Spec /\ []RunsNeverOverlap => []NoGhostChunks
<1>1. SerialInv => NoGhostChunks
  BY DEF SerialInv, Sound, ChunksHaveHash, NoGhostChunks
<1>2. QED
  BY <1>1, SerialInvariant, PTL

\* Under strategy1, once the stored hashes say that nothing is left to index, every
\* endpoint was resolved against the join files as they are: rescanning all when
\* one of them changes is enough.
THEOREM JoinAlwaysSound == Spec /\ []RunsNeverOverlap => []JoinSound
<1>1. TypeOK /\ SerialInv => JoinSound
  <2> SUFFICES ASSUME TypeOK, SerialInv, db.strategy = "strategy1", NothingToIndex,
                      NEW f \in present \ Unlisted, NEW j \in JoinFiles \cap present
               PROVE  db.endpoint[f].join[j] = rev[j]
    BY DEF JoinSound
  <2>1. f \in Files \ Unlisted /\ j \in Files \ Unlisted
    BY UnlistedAssumption DEF TypeOK
  <2>2. db.hash[f] # 0 /\ db.hash[j] # 0 /\ db.hash[j] = rev[j]
    BY <2>1 DEF NothingToIndex, Current, SerialInv
  <2>3. db.hash[j] <= db.endpoint[f].join[j] /\ db.endpoint[f].join[j] <= rev[j]
    BY <2>1, <2>2 DEF SerialInv, Sound, Joined, JoinNotAhead
  <2>4. db.endpoint[f].join[j] \in Nat /\ rev[j] \in Nat
    BY <2>1 DEF TypeOK, Databases, EndpointRows
  <2>5. QED BY <2>2, <2>3, <2>4
<1>2. QED
  BY <1>1, SerialInvariant, TypeCorrect, PTL

\* What a run publishes is the whole of what it listed, although it writes only
\* the delta.
THEOREM CommitAlwaysPublishesListing ==
  Spec /\ []RunsNeverOverlap => CommitPublishesListing
<1> DEFINE A == \A p \in Procs : Commit(p) => db'.hash = run[p].seen
<1>1. TypeOK /\ SerialInv => A
  <2> SUFFICES ASSUME TypeOK, SerialInv, NEW p \in Procs, Commit(p)
               PROVE  db'.hash = run[p].seen
    OBVIOUS
  <2>1. run[p].pc = "commit" /\ db'.hash = txn.hash
    BY CommitEffect
  <2>2. \A f \in Files : txn.hash[f] = run[p].seen[f]
    BY <2>1 DEF SerialInv, RunSerial, Written
  <2>3. txn.hash \in [Files -> Nat] /\ run[p].seen \in [Files -> Nat]
    BY DEF TypeOK, Databases, Runs
  <2>4. QED BY <2>1, <2>2, <2>3
<1>2. QED
  BY <1>1, SerialInvariant, TypeCorrect, PTL DEF CommitPublishesListing

FindingRulesInv == FindingRules(db) /\ FindingRules(txn)

\* A run that indexes findings writes those of its own scan, and leaves findings
\* alone only under the inputs they were scanned with.
LEMMA FindingRulesStep ==
  ASSUME TypeOK, IndexInv, SerialInv, FindingRulesInv, EveryRunIndexesFindings,
         NEW p \in Procs, Step(p) \/ Start(p) \/ Fail(p)
  PROVE  FindingRulesInv'
<1> USE DEF FindingRulesInv, FindingRules
<1>0. /\ run[p] \in Runs /\ txn \in Databases
      /\ RunSerial(run[p]) /\ RunOK(run[p]) /\ FindingRulesInv
      /\ run[p].changed \subseteq Files /\ run[p].deleted \in SUBSET Files
  BY DEF TypeOK, SerialInv, IndexInv, Runs
<1>1. CASE Start(p) \/ ReadSignatures(p) \/ ListFiles(p) \/ Scan(p) \/ Infer(p)
  <2>1. UNCHANGED <<db, txn>>
    BY <1>1 DEF Start, ReadSignatures, ListFiles, Scan, Infer
  <2>2. QED BY <1>0, <2>1
<1>2. CASE PurgeDeleted(p)
  <2>1. db' = db /\ txn' = RemoveFiles(txn, run[p].deleted)
    BY <1>2, PurgeEffect
  <2>2. /\ \A f \in Files : \/ txn'.hash[f] = 0
                            \/ /\ txn'.hash[f] = txn.hash[f]
                               /\ txn'.finding[f] = txn.finding[f]
        /\ txn'.inputs = txn.inputs
    BY <1>0, <2>1, RemoveFilesEffect
  <2>3. QED BY <1>0, <2>1, <2>2
<1>3. CASE WriteResults(p)
  <2>1. db' = db /\ txn' = Results(txn, run[p]) /\ run[p].pc = "write"
    BY <1>3, WriteEffect
  <2>2. run[p].opt.findings
    BY <2>1 DEF EveryRunIndexesFindings
  <2>3. /\ \A f \in run[p].changed : txn'.finding[f] = run[p].raw[f]
        /\ \A f \in Files \ run[p].changed : /\ txn'.hash[f] = txn.hash[f]
                                             /\ txn'.finding[f] = txn.finding[f]
        /\ txn'.inputs = run[p].sig
    BY <1>0, <2>1, <2>2, ResultsEffect
  <2>4. \A f \in Files : NotBefore(run[p].raw[f], run[p].sig)
    BY <1>0 DEF RunSerial, LookedUp
  <2>5. \A f \in Files \ run[p].changed : txn.hash[f] # 0 => txn.inputs = run[p].sig
    BY <1>0, <2>1 DEF RunSerial, Delta, Everything
  <2>6. QED BY <1>0, <2>1, <2>3, <2>4, <2>5
<1>4. CASE IndexChunks(p)
  <2>1. /\ db' = db /\ txn'.hash = txn.hash /\ txn'.finding = txn.finding
        /\ txn'.inputs = txn.inputs
    BY <1>4, IndexChunksEffect
  <2>2. QED BY <1>0, <2>1
<1>5. CASE Commit(p)
  <2>1. /\ db'.hash = txn.hash /\ db'.finding = txn.finding /\ db'.inputs = txn.inputs
        /\ txn' = db'
    BY <1>5, CommitEffect
  <2>2. QED BY <1>0, <2>1
<1>6. CASE LockTimeout(p) \/ Fail(p)
  <2>1. db' = db /\ (txn' = db \/ txn' = txn)
    BY <1>6, RollbackEffect
  <2>2. QED BY <1>0, <2>1
<1>7. QED
  BY <1>1, <1>2, <1>3, <1>4, <1>5, <1>6 DEF Step

\* A contract has stored operations no older than its hash, and a run those of
\* contents no older than it listed.
PublishedBehindHash(d) == \A f \in Files : \A n \in d.published[f] : d.hash[f] <= n

ReadInOrder(r) ==
  /\ r.pc \in {"idle", "signature", "list"} => \A f \in Files : r.published[f] = {}
  /\ \A f \in Files : \A n \in r.published[f] : r.seen[f] <= n

ContractInv ==
  /\ PublishedBehindHash(db) /\ PublishedBehindHash(txn)
  /\ \A p \in Procs : ReadInOrder(run[p])

\* Contracts are read by the local inference, after they were listed.
LEMMA ReadInOrderStep ==
  ASSUME TypeOK, IndexInv, ContractInv, NEW p \in Procs, Step(p) \/ Start(p) \/ Fail(p)
  PROVE  ReadInOrder(run[p])'
<1> USE DEF ReadInOrder
<1>0. /\ ReadInOrder(run[p]) /\ RunOK(run[p])
      /\ \A f \in Files : rev[f] \in Nat /\ run[p].seen[f] \in Nat
  BY DEF ContractInv, IndexInv, TypeOK, Runs
<1>1. CASE Start(p) \/ Commit(p) \/ LockTimeout(p) \/ Fail(p)
  BY <1>1, StartEffect, EndEffect DEF NothingPublished
<1>2. CASE ReadSignatures(p)
  BY <1>0, <1>2, SignaturesEffect
<1>3. CASE ListFiles(p)
  BY <1>0, <1>3, ListEffect
<1>4. CASE PurgeDeleted(p) \/ Scan(p) \/ WriteResults(p) \/ IndexChunks(p)
  <2>1. /\ run'[p].published = run[p].published /\ run'[p].seen = run[p].seen
        /\ run'[p].pc \notin {"idle", "signature", "list"}
    BY <1>4, PurgeEffect, ScanEffect, WriteEffect, IndexChunksEffect DEF Carries, AfterPurge
  <2>2. QED BY <1>0, <2>1
<1>5. CASE Infer(p)
  <2>1. /\ \A f \in Files : run'[p].published[f] \subseteq {rev[f]}
        /\ run'[p].seen = run[p].seen /\ run'[p].pc = "write"
    BY <1>5, InferEffect DEF Carries
  <2>2. QED BY <1>0, <2>1 DEF RunOK
<1>6. QED
  BY <1>1, <1>2, <1>3, <1>4, <1>5 DEF Step

\* Writing the operations of a contract without its hash, or its hash without the
\* operations, leaves the hash the older of the two.
LEMMA PublishedStep ==
  ASSUME TypeOK, IndexInv, SerialInv, ContractInv,
         NEW p \in Procs, Step(p) \/ Start(p) \/ Fail(p)
  PROVE  PublishedBehindHash(db)' /\ PublishedBehindHash(txn)'
<1> USE DEF PublishedBehindHash
<1>0. /\ run[p] \in Runs /\ txn \in Databases /\ RunSerial(run[p])
      /\ PublishedBehindHash(db) /\ PublishedBehindHash(txn) /\ ReadInOrder(run[p])
      /\ run[p].changed \subseteq Files /\ run[p].deleted \in SUBSET Files
  BY DEF TypeOK, SerialInv, ContractInv, Runs
<1>1. CASE Start(p) \/ ReadSignatures(p) \/ ListFiles(p) \/ Scan(p) \/ Infer(p)
  <2>1. UNCHANGED <<db, txn>>
    BY <1>1 DEF Start, ReadSignatures, ListFiles, Scan, Infer
  <2>2. QED BY <1>0, <2>1
<1>2. CASE PurgeDeleted(p)
  <2>1. db' = db /\ txn' = RemoveFiles(txn, run[p].deleted)
    BY <1>2, PurgeEffect
  <2>2. \A f \in Files : \/ txn'.published[f] = {}
                         \/ /\ txn'.published[f] = txn.published[f]
                            /\ txn'.hash[f] = txn.hash[f]
    BY <1>0, <2>1, RemoveFilesEffect
  <2>3. QED BY <1>0, <2>1, <2>2
<1>3. CASE WriteResults(p)
  <2>1. db' = db /\ txn' = Results(txn, run[p]) /\ run[p].pc = "write"
    BY <1>3, WriteEffect
  <2>2. \A f \in Files : txn'.published[f] = run[p].published[f]
                       \/ /\ txn'.published[f] = txn.published[f] \cup run[p].published[f]
                          /\ f \notin run[p].changed
    BY <1>0, <2>1, ResultsEffect
  <2>3. \A f \in Files : txn'.hash[f] = run[p].seen[f]
    BY <1>0, <2>1, SoundResults DEF SerialInv, IndexInv
  <2>4. \A f \in Files \ run[p].changed : txn.hash[f] = run[p].seen[f]
    BY <1>0, <2>1 DEF RunSerial, Delta
  <2>5. QED BY <1>0, <2>1, <2>2, <2>3, <2>4 DEF ReadInOrder
<1>4. CASE IndexChunks(p)
  <2>1. db' = db /\ txn'.hash = txn.hash /\ txn'.published = txn.published
    BY <1>4, IndexChunksEffect
  <2>2. QED BY <1>0, <2>1
<1>5. CASE Commit(p)
  <2>1. db'.hash = txn.hash /\ db'.published = txn.published /\ txn' = db'
    BY <1>5, CommitEffect
  <2>2. QED BY <1>0, <2>1
<1>6. CASE LockTimeout(p) \/ Fail(p)
  <2>1. db' = db /\ (txn' = db \/ txn' = txn)
    BY <1>6, RollbackEffect
  <2>2. QED BY <1>0, <2>1
<1>7. QED
  BY <1>1, <1>2, <1>3, <1>4, <1>5, <1>6 DEF Step

\* A contract with a current hash shows the operations of no other content,
\* although a pom.xml and the contract it names are edited, and scanned, apart.
THEOREM ContractsAlwaysMatchHash ==
  Spec /\ []RunsNeverOverlap => []ContractsMatchHash
<1>1. Init => ContractInv
  <2> SUFFICES ASSUME Init PROVE ContractInv
    OBVIOUS
  <2>1. db = EmptyDb /\ txn = db /\ \A p \in Procs : run[p] = Idle
    BY DEF Init
  <2>2. QED
    BY <2>1 DEF ContractInv, PublishedBehindHash, ReadInOrder, EmptyDb, Idle, NothingPublished
<1>2. TypeOK /\ IndexInv /\ SerialInv /\ ContractInv /\ [Next]_vars => ContractInv'
  <2> SUFFICES ASSUME TypeOK, IndexInv, SerialInv, ContractInv, [Next]_vars
               PROVE  ContractInv'
    OBVIOUS
  <2>1. CASE UNCHANGED <<db, txn, run>>
    BY <2>1 DEF ContractInv, PublishedBehindHash, ReadInOrder
  <2>2. ASSUME NEW f \in Files, WriteFile(f) \/ DeleteFile(f)
        PROVE  UNCHANGED <<db, txn, run>>
    BY <2>2 DEF WriteFile, DeleteFile
  <2>3. CASE ChangeRules \/ ChangeConfig \/ UNCHANGED vars
    BY <2>1, <2>3 DEF ChangeRules, ChangeConfig, vars
  <2>4. ASSUME NEW p \in Procs, Step(p) \/ Start(p) \/ Fail(p)
        PROVE  ContractInv'
    <3>1. \A q \in Procs \ {p} : run'[q] = run[q] /\ ReadInOrder(run[q])
      BY <2>4, RunFrame DEF ContractInv
    <3>2. \A q \in Procs : ReadInOrder(run[q])'
      BY <2>4, <3>1, ReadInOrderStep DEF ReadInOrder
    <3>3. QED BY <2>4, <3>2, PublishedStep DEF ContractInv
  <2>5. QED BY <2>1, <2>2, <2>3, <2>4 DEF Next
<1>3. TypeOK /\ IndexInv /\ ContractInv => ContractsMatchHash
  <2> SUFFICES ASSUME TypeOK, IndexInv, ContractInv, NEW f \in Files, Current(f),
                      NEW n \in db.published[f]
               PROVE  n = rev[f]
    BY DEF ContractsMatchHash
  <2>1. n \in 1..rev[f] /\ rev[f] \in Nat
    BY DEF IndexInv, PublishedOK, OnceContents, TypeOK
  <2>2. rev[f] <= n
    BY DEF ContractInv, PublishedBehindHash, Current
  <2>3. QED BY <2>1, <2>2
<1>4. QED
  BY <1>1, <1>2, <1>3, SerialInvariant, TypeCorrect, IndexInvariant, PTL DEF Spec

\* When every run indexes findings too, the stored signature never vouches for
\* rule files newer than those a finding or an endpoint was scanned with.
THEOREM RulesAlwaysSound ==
  Spec /\ []RunsNeverOverlap /\ []EveryRunIndexesFindings => []RulesSound
<1>1. Init => FindingRulesInv
  BY DEF Init, FindingRulesInv, FindingRules, EmptyDb
<1>2. TypeOK /\ IndexInv /\ SerialInv /\ EveryRunIndexesFindings /\ FindingRulesInv
        /\ [Next]_vars => FindingRulesInv'
  <2> SUFFICES ASSUME TypeOK, IndexInv, SerialInv, EveryRunIndexesFindings,
                      FindingRulesInv, [Next]_vars
               PROVE  FindingRulesInv'
    OBVIOUS
  <2>1. ASSUME NEW f \in Files, WriteFile(f) \/ DeleteFile(f)
        PROVE  UNCHANGED <<db, txn>>
    BY <2>1 DEF WriteFile, DeleteFile
  <2>2. CASE UNCHANGED <<db, txn>>
    BY <2>2 DEF FindingRulesInv, FindingRules
  <2>3. CASE ChangeRules \/ ChangeConfig \/ UNCHANGED vars
    BY <2>2, <2>3 DEF ChangeRules, ChangeConfig, vars
  <2>4. QED BY <2>1, <2>2, <2>3, FindingRulesStep DEF Next
<1>3. SerialInv /\ FindingRulesInv => RulesSound
  BY DEF SerialInv, Sound, EndpointRules, FindingRulesInv, FindingRules, NotBefore, RulesSound
<1>4. QED
  BY <1>1, <1>2, <1>3, SerialInvariant, TypeCorrect, IndexInvariant, PTL DEF Spec

\* With a single process, as when only the CLI indexes, the hypothesis is met.
THEOREM OneProcessSuffices ==
  ASSUME \A p, q \in Procs : p = q
  PROVE  Spec => [](StrategyUniform /\ NoGhostChunks /\ JoinSound /\ ContractsMatchHash)
<1>1. RunsNeverOverlap
  BY OneProcessNeverOverlaps
<1>2. QED
  BY <1>1, StrategyAlwaysUniform, NoGhostChunksEver, JoinAlwaysSound,
     ContractsAlwaysMatchHash, PTL

\* And the rule files are those of the signature, if that process asks for findings.
COROLLARY OneProcessWithFindingsSuffices ==
  ASSUME \A p, q \in Procs : p = q, \A o \in CliOptions : o.findings
  PROVE  Spec => []RulesSound
<1>1. RunsNeverOverlap
  BY OneProcessNeverOverlaps
<1>2. QED
  BY <1>1, FindingsByOptions, RulesAlwaysSound, PTL
=============================================================================
