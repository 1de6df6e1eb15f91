----------------------------- MODULE Embeddings -----------------------------
(***************************************************************************)
(* The vectors of the index: the vec0 tables of Store, the meta keys that  *)
(* say whether a table exists and at which dimension, and the embedding    *)
(* phase of index_repo that keeps them in step with the rows.              *)
(*                                                                         *)
(* An indexing run is one step here: it is one transaction, a run that     *)
(* fails leaves no trace, and Indexer shows that runs take effect one      *)
(* after the other.  What a run replaces is any set of rows; which rows    *)
(* the delta picks is the subject of Indexer.                              *)
(***************************************************************************)
EXTENDS Naturals, FiniteSets

CONSTANTS
  Rows,      \* identities of findings, endpoints and code chunks
  Models,    \* values of config.embedding_model
  Dims,      \* the dimensions a model may have
  MaxSwaps,  \* bound on the models whose files are replaced in place
  NoModel    \* the signature of a database that was never embedded

ASSUME DimsAssumption  == Dims \subseteq Nat \ {0}
ASSUME ModelAssumption == NoModel \notin Models
ASSUME SwapsAssumption == MaxSwaps \in Nat

Kinds == {"finding", "endpoint", "chunk"}
Vectors == [id : Rows, model : Models, dim : Dims]

\* row: the rows of the three tables.  vec and table: the vec0 tables and their
\* declared dimension, 0 for a table that was never created.  dim: the
\* embedding_dim, endpoint_embedding_dim and code_embedding_dim of meta, 0 when
\* unset or empty.  sig: embedding_signature; codeSig: code_embedding_signature.
Indexes == [row : [Kinds -> SUBSET Rows], vec : [Kinds -> SUBSET Vectors],
            table : [Kinds -> Dims \cup {0}], dim : [Kinds -> Dims \cup {0}],
            sig : Models \cup {NoModel}, codeSig : Models \cup {NoModel}]

VARIABLES
  ix,     \* the database
  model,  \* config.embedding_model
  dimOf,  \* the dimension of the vectors each model computes
  swaps   \* how many times a model was replaced in place

vars == <<ix, model, dimOf, swaps>>

Init ==
  /\ ix = [row |-> [k \in Kinds |-> {}], vec |-> [k \in Kinds |-> {}],
           table |-> [k \in Kinds |-> 0], dim |-> [k \in Kinds |-> 0],
           sig |-> NoModel, codeSig |-> NoModel]
  /\ model \in Models
  /\ dimOf \in [Models -> Dims]
  /\ swaps = 0

----------------------------------------------------------------------------
(* Store: rows and vectors. *)

\* Mutant: the vectors of the deleted rows stay.
DeleteVectorsNever(d, k, ids) == d

\* _delete_embeddings and its two siblings: only if meta says there is a table.
DeleteVectors(d, k, ids) ==
  IF d.dim[k] = 0 THEN d
  ELSE [d EXCEPT !.vec[k] = {v \in @ : v.id \notin ids}]

\* replace_*_for_files and remove_files, for the rows of the files concerned.
ReplaceRows(d, k, old, new) ==
  [DeleteVectors(d, k, old) EXCEPT !.row[k] = (@ \ old) \cup new]

\* Mutant: an existing table is kept whatever its dimension.
EnsureTableOnce(d, k, n) ==
  IF d.dim[k] # 0 THEN d
  ELSE [d EXCEPT !.vec[k] = {}, !.table[k] = n, !.dim[k] = n]

\* _ensure_vec_table and its two siblings: a vec0 table cannot be altered.
EnsureTable(d, k, n) ==
  IF d.dim[k] = n THEN d
  ELSE [d EXCEPT !.vec[k] = {}, !.table[k] = n, !.dim[k] = n]

\* set_embedding and its two siblings, once for each row of ids.
SetVectors(d, k, ids) ==
  LET e == EnsureTable(d, k, dimOf[model])
  IN IF ids = {} THEN d
     ELSE [e EXCEPT !.vec[k] = {v \in @ : v.id \notin ids} \cup
                               {[id |-> i, model |-> model, dim |-> dimOf[model]] : i \in ids}]

\* iter_embeddings, iter_endpoint_embeddings.
Embedded(d, k) == IF d.dim[k] = 0 THEN {} ELSE {v.id : v \in d.vec[k]}

----------------------------------------------------------------------------
(* index_repo: the embedding phase. *)

\* Mutant: the signature of the chunks is not looked at.
EmbedChunksDelta(d, new) == [SetVectors(d, "chunk", new) EXCEPT !.codeSig = model]

EmbedChunks(d, new) ==
  IF d.codeSig # model
  THEN SetVectors([d EXCEPT !.codeSig = model], "chunk", d.row["chunk"])
  ELSE SetVectors(d, "chunk", new)

\* Mutant: the dimension is recorded under the key of the signature.
EmbedRowsKeysMixed(d, new) ==
  SetVectors(SetVectors([d EXCEPT !.sig = dimOf[model], !.dim["finding"] = 0],
                        "finding", d.row["finding"]),
             "endpoint", d.row["endpoint"])

\* Mutant: a new model embeds all the findings but only the new endpoints.
EmbedRowsFindingsOnly(d, new) ==
  IF d.sig # model
  THEN LET cleared == [d EXCEPT !.sig = model, !.dim["finding"] = 0]
       IN SetVectors(SetVectors(cleared, "finding", d.row["finding"]),
                     "endpoint", new["endpoint"])
  ELSE SetVectors(SetVectors(d, "finding", new["finding"] \ Embedded(d, "finding")),
                  "endpoint", new["endpoint"] \ Embedded(d, "endpoint"))

EmbedRows(d, new) ==
  IF d.sig # model
  THEN LET cleared == [d EXCEPT !.sig = model, !.dim["finding"] = 0]
       IN SetVectors(SetVectors(cleared, "finding", d.row["finding"]),
                     "endpoint", d.row["endpoint"])
  ELSE SetVectors(SetVectors(d, "finding", new["finding"] \ Embedded(d, "finding")),
                  "endpoint", new["endpoint"] \ Embedded(d, "endpoint"))

\* Mutant: the dimension check is dropped.
RejectsNothing(d, new) == FALSE

\* _embed_findings raises EmbeddingError: under an unchanged signature, a new
\* finding whose vector has not the recorded dimension.
Rejects(d, new) ==
  /\ d.sig = model
  /\ new["finding"] \ Embedded(d, "finding") # {}
  /\ d.dim["finding"] \notin {0, dimOf[model]}

\* The rows once every write that precedes the embedding phase is done.
Replaced(d, old, new) ==
  LET d1 == ReplaceRows(d, "finding", old["finding"], new["finding"])
      d2 == ReplaceRows(d1, "endpoint", old["endpoint"], new["endpoint"])
  IN ReplaceRows(d2, "chunk", old["chunk"], new["chunk"])

\* A run replaces the rows old of some files by the rows new; the manual engine
\* deletes the chunks of deleted files and writes none.
IndexRun(chunks, old, new) ==
  LET d == Replaced(ix, old, new)
      e == IF chunks THEN EmbedChunks(d, new["chunk"]) ELSE d
  IN /\ \A k \in Kinds : old[k] \subseteq ix.row[k]
     /\ \A k \in Kinds : new[k] \cap (ix.row[k] \ old[k]) = {}
     /\ ~chunks => new["chunk"] = {}
     /\ ~Rejects(e, new)
     /\ ix' = EmbedRows(e, new)
     /\ UNCHANGED <<model, dimOf, swaps>>

\* config.yml names another model.
ChooseModel ==
  /\ \E m \in Models \ {model} : model' = m
  /\ UNCHANGED <<ix, dimOf, swaps>>

\* The files behind a model's name change: a local directory is replaced.
SwapModel ==
  /\ swaps < MaxSwaps
  /\ \E m \in Models, n \in Dims : dimOf' = [dimOf EXCEPT ![m] = n]
  /\ swaps' = swaps + 1
  /\ UNCHANGED <<ix, model>>

Next ==
  \/ \E chunks \in BOOLEAN, old, new \in [Kinds -> SUBSET Rows] : IndexRun(chunks, old, new)
  \/ ChooseModel
  \/ SwapModel

Spec == Init /\ [][Next]_vars

----------------------------------------------------------------------------
TypeOK ==
  /\ ix \in Indexes
  /\ model \in Models
  /\ dimOf \in [Models -> Dims]
  /\ swaps \in 0..MaxSwaps

Ids(k) == {v.id : v \in ix.vec[k]}

\* No vector outlives its row, although deletions are skipped whenever the
\* recorded dimension is empty, as it is after a change of model
\* (store.py:727-752, indexer.py:588).
NoOrphanVectors == \A k \in Kinds : Ids(k) \subseteq ix.row[k]

\* The dimension in meta is the one of the table, for the three tables: it
\* doubles as "does the table exist" (store.py:690-693).
DimensionMatchesTable ==
  \A k \in Kinds : /\ ix.dim[k] \in {0, ix.table[k]}
                   /\ \A v \in ix.vec[k] : v.dim = ix.table[k]

\* Every finding has a vector, even when a model is replaced in place: the run
\* that would lose vectors is rejected (indexer.py:231-236).
FindingsEmbedded == ix.row["finding"] \subseteq Ids("finding")

\* As long as a model name stands for one model, every endpoint has a vector
\* too, and every chunk once a signature is recorded for them.
EndpointsEmbedded ==
  swaps = 0 => /\ ix.row["endpoint"] \subseteq Ids("endpoint")
               /\ ix.row["chunk"] \subseteq Ids("chunk")

\* No table mixes the vectors of two models, however engines, empty tables and
\* changes of model back and forth alternate (indexer.py:570-589).
OneModelPerTable ==
  /\ \A v \in ix.vec["finding"] \cup ix.vec["endpoint"] : v.model = ix.sig
  /\ \A v \in ix.vec["chunk"] : v.model = ix.codeSig

\* resolve_topic_by_similarity has no result when no endpoint is embedded: even
\* then knn_search_endpoints hands the query vector to the table that meta says
\* exists, which must have its dimension once the configured model is indexed
\* (flow.py:104-108, store.py:805-815).
EmptyIndexAnswersNothing ==
  ix.sig = model /\ ix.vec["endpoint"] = {} => ix.dim["endpoint"] \in {0, dimOf[model]}

\* The error of a rejected run asks for a complete re-embedding: a --full run,
\* which replaces the rows of every file, must be able to provide it.
FullRunAccepted ==
  \A new \in [Kinds -> SUBSET Rows] : ~Rejects(Replaced(ix, ix.row, new), new)

----------------------------------------------------------------------------
(* The inductive invariant behind the first three properties. *)

\* The vectors of one kind fit its rows and its table, and a table that meta
\* does not know of is empty.
Fits(d, k) ==
  /\ \A v \in d.vec[k] : v.id \in d.row[k] /\ v.dim = d.table[k]
  /\ d.dim[k] \in {0, d.table[k]}
  /\ d.dim[k] = 0 => d.vec[k] = {}

HasVector(d, k, i) == \E v \in d.vec[k] : v.id = i

VectorsInv ==
  /\ \A k \in Kinds : Fits(ix, k)
  /\ \A i \in ix.row["finding"] : HasVector(ix, "finding", i)
=============================================================================
