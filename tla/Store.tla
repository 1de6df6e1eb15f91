------------------------------- MODULE Store -------------------------------
(***************************************************************************)
(* The contents of .cccr/findings.db and the operations of class Store     *)
(* (store.py) that the indexer composes into one transaction.              *)
(*                                                                         *)
(* Rows are abstracted to their PROVENANCE.  What a scan stores for a path *)
(* is determined by the content the path had and by the inputs of the scan *)
(* (configuration, rule files, strategy), so the rows of a path are        *)
(* modelled by the revision of the path and the revisions of the inputs    *)
(* they were computed from.  Revision 0 means "no row".  One kind of row is *)
(* stored for a path by the scan of ANOTHER one: the operations of an      *)
(* OpenAPI contract, by the scan of the pom.xml that names it.             *)
(***************************************************************************)
EXTENDS Naturals

CONSTANTS
  Files,      \* repository paths the indexer may list
  JoinFiles   \* the paths other paths' endpoints are resolved against

ASSUME JoinFilesAssumption == JoinFiles \subseteq Files

Strategies == {"default", "strategy1"}
Engines    == {"manual", "cocoindex"}
NoName     == "none"   \* a meta key that has never been set

\* The revisions of .cccr/config.yml and of the local rule files.  Their
\* pair stands for meta.analysis_inputs_signature.
InputRevs == [conf : Nat, rules : Nat]
NoInputs  == [conf |-> 0, rules |-> 0]

\* One Semgrep result for a path: the content and the inputs it comes from.
RawRows == [rev : Nat, conf : Nat, rules : Nat]
NoRaw   == [rev |-> 0, conf |-> 0, rules |-> 0]

NoJoin == [j \in JoinFiles |-> 0]

\* Endpoints of a path: the local inference (content rev, join) and the
\* part Semgrep found (raw), under one topic strategy.
EndpointRows == [rev : Nat, join : [JoinFiles -> Nat], raw : RawRows,
                 strategy : Strategies \cup {NoName}]
NoEndpoint   == [rev |-> 0, join |-> NoJoin, raw |-> NoRaw, strategy |-> NoName]

NothingPublished == [f \in Files |-> {}]

\* published[f]: the contents of an OpenAPI contract f whose operations the
\* scan of a pom.xml has stored under the path of the contract.
Databases == [hash     : [Files -> Nat],
              finding  : [Files -> RawRows],
              endpoint : [Files -> EndpointRows],
              published : [Files -> SUBSET Nat],
              chunk    : [Files -> Nat],
              inputs   : InputRevs,
              strategy : Strategies \cup {NoName},
              engine   : Engines \cup {NoName}]

\* A database whose schema has just been created.
EmptyDb == [hash     |-> [f \in Files |-> 0],
            finding  |-> [f \in Files |-> NoRaw],
            endpoint |-> [f \in Files |-> NoEndpoint],
            published |-> NothingPublished,
            chunk    |-> [f \in Files |-> 0],
            inputs   |-> NoInputs,
            strategy |-> NoName,
            engine   |-> NoName]

\* DELETE the rows of every path of S, then INSERT the new ones.
Replace(rows, S, new) == [f \in Files |-> IF f \in S THEN new[f] ELSE rows[f]]
Purge(rows, S, none)  == [f \in Files |-> IF f \in S THEN none ELSE rows[f]]

ReplaceFindings(d, S, new)   == [d EXCEPT !.finding  = Replace(d.finding, S, new)]
ReplaceCodeChunks(d, S, new) == [d EXCEPT !.chunk    = Replace(d.chunk, S, new)]
SetFileHashes(d, S, new)     == [d EXCEPT !.hash     = Replace(d.hash, S, new)]

\* Mutant: rows are only updated; those of an earlier content stay.
ReplaceEndpointsUpserting(d, S, new, contracts) ==
  [d EXCEPT !.endpoint  = Replace(d.endpoint, S, new),
            !.published = [f \in Files |-> d.published[f] \cup contracts[f]]]

\* replace_endpoints_for_files deletes the rows of the paths of S and inserts
\* every endpoint it is given, those of contracts that are not in S included.
ReplaceEndpoints(d, S, new, contracts) ==
  [d EXCEPT !.endpoint  = Replace(d.endpoint, S, new),
            !.published = [f \in Files |->
                             Purge(d.published, S, {})[f] \cup contracts[f]]]

\* Mutants of remove_files that forget one of its four tables.
RemoveFilesKeepingEndpoints(d, S) ==
  [d EXCEPT !.hash    = Purge(d.hash, S, 0),
            !.finding = Purge(d.finding, S, NoRaw),
            !.chunk   = Purge(d.chunk, S, 0)]
RemoveFilesKeepingChunks(d, S) ==
  [d EXCEPT !.hash     = Purge(d.hash, S, 0),
            !.finding  = Purge(d.finding, S, NoRaw),
            !.endpoint = Purge(d.endpoint, S, NoEndpoint),
            !.published = Purge(d.published, S, {})]

\* remove_files
RemoveFiles(d, S) ==
  [d EXCEPT !.hash     = Purge(d.hash, S, 0),
            !.finding  = Purge(d.finding, S, NoRaw),
            !.chunk    = Purge(d.chunk, S, 0),
            !.endpoint = Purge(d.endpoint, S, NoEndpoint),
            !.published = Purge(d.published, S, {})]

\* code_chunk_embedding_count() = 0: no chunk has ever been embedded.
NoChunk(d) == \A f \in Files : d.chunk[f] = 0
=============================================================================
