--------------------------- MODULE EmbeddingsProofs ---------------------------
(***************************************************************************)
(* What holds of Embeddings for any rows, models and dimensions.           *)
(***************************************************************************)
EXTENDS Embeddings, TLAPS

\* The rows and vectors of the kinds other than k, the tables and the
\* signatures are those of d.
SameElsewhere(d, e, k) ==
  \A j \in Kinds \ {k} : /\ e.row[j] = d.row[j] /\ e.vec[j] = d.vec[j]
                         /\ e.table[j] = d.table[j] /\ e.dim[j] = d.dim[j]

\* What replacing the rows of one kind does to a database whose vectors fit.
LEMMA ReplaceRowsEffect ==
  ASSUME NEW d \in Indexes, NEW k \in Kinds, Fits(d, k),
         NEW old, NEW new \in SUBSET Rows
  PROVE  /\ ReplaceRows(d, k, old, new) \in Indexes
         /\ SameElsewhere(d, ReplaceRows(d, k, old, new), k)
         /\ ReplaceRows(d, k, old, new).row[k] = (d.row[k] \ old) \cup new
         /\ ReplaceRows(d, k, old, new).vec[k] = {v \in d.vec[k] : v.id \notin old}
         /\ ReplaceRows(d, k, old, new).table[k] = d.table[k]
         /\ ReplaceRows(d, k, old, new).dim[k] = d.dim[k]
         /\ ReplaceRows(d, k, old, new).sig = d.sig
         /\ ReplaceRows(d, k, old, new).codeSig = d.codeSig
<1> DEFINE e1 == DeleteVectors(d, k, old)
           e  == ReplaceRows(d, k, old, new)
<1>1. /\ e1 \in Indexes
      /\ e1.vec[k] = {v \in d.vec[k] : v.id \notin old}
      /\ \A j \in Kinds \ {k} : e1.vec[j] = d.vec[j]
      /\ e1.row = d.row /\ e1.table = d.table /\ e1.dim = d.dim
      /\ e1.sig = d.sig /\ e1.codeSig = d.codeSig
  <2>1. CASE d.dim[k] = 0
    <3>1. e1 = d /\ d.vec[k] = {}
      BY <2>1 DEF DeleteVectors, Fits
    <3>2. QED BY <3>1
  <2>2. CASE d.dim[k] # 0
    <3>1. e1 = [d EXCEPT !.vec[k] = {v \in @ : v.id \notin old}]
      BY <2>2 DEF DeleteVectors
    <3>2. QED BY <3>1 DEF Indexes
  <2>3. QED BY <2>1, <2>2
<1>2. e = [e1 EXCEPT !.row[k] = (@ \ old) \cup new]
  BY DEF ReplaceRows
<1>3. QED
  <2> HIDE DEF e1
  <2>1. /\ e \in Indexes
        /\ e.row[k] = (e1.row[k] \ old) \cup new
        /\ \A j \in Kinds \ {k} : e.row[j] = e1.row[j]
        /\ e.vec = e1.vec /\ e.table = e1.table /\ e.dim = e1.dim
        /\ e.sig = e1.sig /\ e.codeSig = e1.codeSig
    <3> HIDE DEF e
    <3>1. QED BY <1>1, <1>2 DEF Indexes
  <2>2. QED BY <1>1, <2>1 DEF SameElsewhere

\* Replacing rows keeps the vectors of every kind fitting.
LEMMA ReplaceRowsFits ==
  ASSUME NEW d \in Indexes, NEW k \in Kinds, \A j \in Kinds : Fits(d, j),
         NEW old, NEW new \in SUBSET Rows
  PROVE  \A j \in Kinds : Fits(ReplaceRows(d, k, old, new), j)
<1> DEFINE e == ReplaceRows(d, k, old, new)
<1>0. Fits(d, k)
  OBVIOUS
<1>1. /\ e \in Indexes
      /\ SameElsewhere(d, e, k)
      /\ e.row[k] = (d.row[k] \ old) \cup new
      /\ e.vec[k] = {v \in d.vec[k] : v.id \notin old}
      /\ e.table[k] = d.table[k]
      /\ e.dim[k] = d.dim[k]
      /\ e.sig = d.sig
      /\ e.codeSig = d.codeSig
  BY <1>0, ReplaceRowsEffect
<1>2. QED
  <2> HIDE DEF e
  <2>1. Fits(e, k)
    BY <1>1 DEF Fits
  <2>2. \A j \in Kinds \ {k} : Fits(e, j)
    BY <1>1 DEF Fits, SameElsewhere
  <2>3. QED BY <2>1, <2>2 DEF e

\* What storing the vectors of some rows of a kind does.
LEMMA SetVectorsEffect ==
  ASSUME TypeOK, NEW d \in Indexes, NEW k \in Kinds, NEW ids \in SUBSET Rows
  PROVE  /\ SetVectors(d, k, ids) \in Indexes
         /\ SetVectors(d, k, ids).row = d.row
         /\ SetVectors(d, k, ids).sig = d.sig
         /\ SetVectors(d, k, ids).codeSig = d.codeSig
         /\ SameElsewhere(d, SetVectors(d, k, ids), k)
         /\ ids = {} => SetVectors(d, k, ids) = d
         /\ ids # {} =>
              /\ SetVectors(d, k, ids).dim[k] = dimOf[model]
              /\ SetVectors(d, k, ids).table[k] =
                   (IF d.dim[k] = dimOf[model] THEN d.table[k] ELSE dimOf[model])
              /\ SetVectors(d, k, ids).vec[k] =
                   {v \in (IF d.dim[k] = dimOf[model] THEN d.vec[k] ELSE {}) : v.id \notin ids}
                   \cup {[id |-> i, model |-> model, dim |-> dimOf[model]] : i \in ids}
<1> DEFINE n   == dimOf[model]
           e1  == EnsureTable(d, k, n)
           new == {[id |-> i, model |-> model, dim |-> n] : i \in ids}
           vs  == {v \in e1.vec[k] : v.id \notin ids} \cup new
           e   == SetVectors(d, k, ids)
<1>0. n \in Dims /\ model \in Models /\ new \in SUBSET Vectors
  BY DEF TypeOK, Vectors
<1>1. /\ e1 \in Indexes /\ e1.row = d.row /\ e1.sig = d.sig /\ e1.codeSig = d.codeSig
      /\ SameElsewhere(d, e1, k)
      /\ e1.dim[k] = n
      /\ e1.table[k] = (IF d.dim[k] = n THEN d.table[k] ELSE n)
      /\ e1.vec[k] = (IF d.dim[k] = n THEN d.vec[k] ELSE {})
  <2> HIDE DEF n, new
  <2>1. CASE d.dim[k] = n
    BY <2>1 DEF EnsureTable, SameElsewhere
  <2>2. CASE d.dim[k] # n
    <3>1. e1 = [d EXCEPT !.vec[k] = {}, !.table[k] = n, !.dim[k] = n]
      BY <2>2 DEF EnsureTable
    <3> HIDE DEF e1
    <3>2. QED BY <1>0, <2>2, <3>1 DEF Indexes, SameElsewhere
  <2>3. QED BY <2>1, <2>2
<1>2. CASE ids = {}
  <2>1. e = d
    BY <1>2 DEF SetVectors
  <2>2. QED BY <1>2, <2>1 DEF SameElsewhere
<1>3. CASE ids # {}
  <2>1. e = [e1 EXCEPT !.vec[k] = vs]
    BY <1>3 DEF SetVectors
  <2>2. vs \in SUBSET Vectors
    <3> HIDE DEF e1, new
    <3>1. QED BY <1>0, <1>1 DEF Indexes
  <2>3. /\ e \in Indexes /\ e.row = e1.row /\ e.table = e1.table /\ e.dim = e1.dim
        /\ e.sig = e1.sig /\ e.codeSig = e1.codeSig
        /\ e.vec[k] = vs /\ \A j \in Kinds \ {k} : e.vec[j] = e1.vec[j]
    <3> HIDE DEF e, e1, vs
    <3>1. QED BY <1>1, <2>1, <2>2 DEF Indexes
  <2>4. QED
    <3> HIDE DEF e1, e, n
    <3>1. SameElsewhere(d, e, k)
      BY <1>1, <2>3 DEF SameElsewhere
    <3>2. QED BY <1>1, <1>3, <2>3, <3>1 DEF e, n
<1>4. QED BY <1>2, <1>3

\* Storing vectors for rows that exist leaves the vectors of the kind fitting,
\* gives each of those rows a vector, and loses none if the table has the
\* model's dimension.  A table that meta forgot may hold vectors before, as
\* after a change of model, provided there is a row to embed.
LEMMA SetVectorsFits ==
  ASSUME TypeOK, NEW d \in Indexes, NEW k \in Kinds, NEW ids \in SUBSET d.row[k],
         \A v \in d.vec[k] : v.id \in d.row[k] /\ v.dim = d.table[k],
         d.dim[k] \in {0, d.table[k]},
         d.dim[k] = 0 /\ ids = {} => d.vec[k] = {}
  PROVE  /\ Fits(SetVectors(d, k, ids), k)
         /\ \A i \in ids : HasVector(SetVectors(d, k, ids), k, i)
         /\ ids = {} \/ d.dim[k] = dimOf[model] =>
              \A i \in d.row[k] : HasVector(d, k, i) => HasVector(SetVectors(d, k, ids), k, i)
<1> DEFINE n   == dimOf[model]
           e   == SetVectors(d, k, ids)
           new == {[id |-> i, model |-> model, dim |-> n] : i \in ids}
<1>0. n # 0 /\ ids \in SUBSET Rows
  BY DimsAssumption DEF TypeOK, Indexes
<1>1. CASE ids = {}
  <2>1. e = d
    BY <1>1 DEF SetVectors
  <2>2. Fits(e, k)
    BY <1>1, <2>1 DEF Fits
  <2>3. QED BY <1>1, <2>1, <2>2
<1>2. CASE ids # {}
  <2>1. /\ e.row = d.row
        /\ e.dim[k] = n
        /\ e.table[k] = (IF d.dim[k] = n THEN d.table[k] ELSE n)
        /\ e.vec[k] = {v \in (IF d.dim[k] = n THEN d.vec[k] ELSE {}) : v.id \notin ids} \cup new
    BY <1>0, <1>2, SetVectorsEffect
  <2> HIDE DEF e
  <2>2. e.table[k] = n
    <3> HIDE DEF n
    <3>1. QED BY <1>0, <2>1
  <2>3. \A v \in new : v.id \in d.row[k] /\ v.dim = n
    OBVIOUS
  <2>4. Fits(e, k)
    <3> HIDE DEF n, new
    <3>1. \A v \in e.vec[k] : v.id \in e.row[k] /\ v.dim = e.table[k]
      BY <1>0, <2>1, <2>2, <2>3
    <3>2. QED BY <1>0, <2>1, <2>2, <3>1 DEF Fits
  <2>5. \A i \in ids : HasVector(e, k, i)
    <3> SUFFICES ASSUME NEW i \in ids PROVE HasVector(e, k, i)
      OBVIOUS
    <3>1. [id |-> i, model |-> model, dim |-> n] \in e.vec[k]
      BY <2>1
    <3>2. QED BY <3>1 DEF HasVector
  <2>6. ASSUME d.dim[k] = n, NEW i \in d.row[k], HasVector(d, k, i)
        PROVE  HasVector(e, k, i)
    <3>1. CASE i \in ids
      BY <2>5, <3>1
    <3>2. CASE i \notin ids
      <4>1. PICK v \in d.vec[k] : v.id = i
        BY <2>6 DEF HasVector
      <4>2. v \in e.vec[k]
        BY <2>1, <2>6, <3>2, <4>1
      <4>3. QED BY <4>1, <4>2 DEF HasVector
    <3>3. QED BY <3>1, <3>2
  <2>7. QED BY <1>2, <2>4, <2>5, <2>6 DEF e
<1>3. QED BY <1>1, <1>2

\* A step on the vectors of one kind leaves those of another alone.
LEMMA OtherKinds ==
  ASSUME NEW d, NEW e, NEW k \in Kinds, SameElsewhere(d, e, k), NEW j \in Kinds \ {k}
  PROVE  /\ e.row[j] = d.row[j] /\ e.dim[j] = d.dim[j]
         /\ Fits(d, j) => Fits(e, j)
         /\ \A i : HasVector(d, j, i) => HasVector(e, j, i)
BY DEF SameElsewhere, Fits, HasVector

\* A row that is not among the replaced ones keeps its vector.
LEMMA ReplaceRowsKeeps ==
  ASSUME NEW d \in Indexes, NEW k \in Kinds, Fits(d, k), NEW old, NEW new \in SUBSET Rows,
         NEW i, i \notin old, HasVector(d, k, i)
  PROVE  HasVector(ReplaceRows(d, k, old, new), k, i)
<1> DEFINE e == ReplaceRows(d, k, old, new)
<1>1. e.vec[k] = {v \in d.vec[k] : v.id \notin old}
  BY ReplaceRowsEffect
<1>2. PICK v \in d.vec[k] : v.id = i
  BY DEF HasVector
<1>3. v \in e.vec[k]
  BY <1>1, <1>2
<1>4. QED BY <1>2, <1>3 DEF HasVector

\* What the writes before the embedding phase make of a database that fits.
LEMMA ReplacedEffect ==
  ASSUME TypeOK, VectorsInv, NEW old, NEW new \in [Kinds -> SUBSET Rows]
  PROVE  /\ Replaced(ix, old, new) \in Indexes
         /\ \A k \in Kinds : Fits(Replaced(ix, old, new), k)
         /\ \A k \in Kinds : Replaced(ix, old, new).row[k] = (ix.row[k] \ old[k]) \cup new[k]
         /\ \A i \in ix.row["finding"] \ old["finding"] :
              HasVector(Replaced(ix, old, new), "finding", i)
<1> DEFINE d1 == ReplaceRows(ix, "finding", old["finding"], new["finding"])
           d2 == ReplaceRows(d1, "endpoint", old["endpoint"], new["endpoint"])
           d3 == ReplaceRows(d2, "chunk", old["chunk"], new["chunk"])
<1>0. /\ \A k \in Kinds : new[k] \in SUBSET Rows
      /\ "finding" \in Kinds /\ "endpoint" \in Kinds /\ "chunk" \in Kinds
      /\ ix \in Indexes /\ \A k \in Kinds : Fits(ix, k)
      /\ \A i \in ix.row["finding"] : HasVector(ix, "finding", i)
  BY DEF TypeOK, VectorsInv, Kinds
<1>1. /\ d1 \in Indexes /\ \A k \in Kinds : Fits(d1, k)
      /\ SameElsewhere(ix, d1, "finding")
      /\ d1.row["finding"] = (ix.row["finding"] \ old["finding"]) \cup new["finding"]
  BY <1>0, ReplaceRowsEffect, ReplaceRowsFits
<1>2. \A i \in ix.row["finding"] \ old["finding"] : HasVector(d1, "finding", i)
  BY <1>0, ReplaceRowsKeeps
<1> HIDE DEF d1
<1>3. /\ d2 \in Indexes /\ \A k \in Kinds : Fits(d2, k)
      /\ SameElsewhere(d1, d2, "endpoint")
      /\ d2.row["endpoint"] = (d1.row["endpoint"] \ old["endpoint"]) \cup new["endpoint"]
  BY <1>0, <1>1, ReplaceRowsEffect, ReplaceRowsFits
<1> HIDE DEF d2
<1>4. /\ d3 \in Indexes /\ \A k \in Kinds : Fits(d3, k)
      /\ SameElsewhere(d2, d3, "chunk")
      /\ d3.row["chunk"] = (d2.row["chunk"] \ old["chunk"]) \cup new["chunk"]
  BY <1>0, <1>3, ReplaceRowsEffect, ReplaceRowsFits
<1> HIDE DEF d3
<1>5. Replaced(ix, old, new) = d3
  BY DEF Replaced, d1, d2, d3
<1>6. \A k \in Kinds : d3.row[k] = (ix.row[k] \ old[k]) \cup new[k]
  BY <1>1, <1>3, <1>4 DEF SameElsewhere, Kinds
<1>7. \A i \in ix.row["finding"] \ old["finding"] : HasVector(d3, "finding", i)
  <2> SUFFICES ASSUME NEW i \in ix.row["finding"] \ old["finding"]
               PROVE  HasVector(d3, "finding", i)
    OBVIOUS
  <2>1. "finding" \in Kinds \ {"endpoint"} /\ "finding" \in Kinds \ {"chunk"}
    BY DEF Kinds
  <2>2. HasVector(d2, "finding", i)
    BY <1>0, <1>2, <1>3, <2>1, OtherKinds
  <2>3. QED BY <1>0, <1>4, <2>1, <2>2, OtherKinds
<1>8. QED BY <1>4, <1>5, <1>6, <1>7

\* Storing vectors for existing rows of a database that fits.
LEMMA SetVectorsKeeps ==
  ASSUME TypeOK, NEW d \in Indexes, \A j \in Kinds : Fits(d, j), NEW k \in Kinds,
         NEW ids \in SUBSET d.row[k]
  PROVE  /\ SetVectors(d, k, ids) \in Indexes
         /\ SetVectors(d, k, ids).row = d.row
         /\ SameElsewhere(d, SetVectors(d, k, ids), k)
         /\ SetVectors(d, k, ids).sig = d.sig
         /\ \A j \in Kinds : Fits(SetVectors(d, k, ids), j)
<1> DEFINE e == SetVectors(d, k, ids)
<1>1. ids \in SUBSET Rows
  BY DEF Indexes
<1>2. e \in Indexes /\ e.row = d.row /\ SameElsewhere(d, e, k) /\ e.sig = d.sig
  BY <1>1, SetVectorsEffect
<1>3. Fits(d, k)
  OBVIOUS
<1>4. Fits(e, k)
  <2>1. /\ \A v \in d.vec[k] : v.id \in d.row[k] /\ v.dim = d.table[k]
        /\ d.dim[k] \in {0, d.table[k]}
        /\ d.dim[k] = 0 /\ ids = {} => d.vec[k] = {}
    BY <1>3 DEF Fits
  <2>2. QED BY <2>1, SetVectorsFits
<1>5. \A j \in Kinds \ {k} : Fits(e, j)
  BY <1>2, OtherKinds
<1>6. QED BY <1>2, <1>4, <1>5

\* The embedding of the chunks, by either engine.
LEMMA EmbedChunksKeeps ==
  ASSUME TypeOK, NEW d \in Indexes, \A j \in Kinds : Fits(d, j),
         NEW ids \in SUBSET d.row["chunk"]
  PROVE  /\ EmbedChunks(d, ids) \in Indexes
         /\ EmbedChunks(d, ids).row = d.row
         /\ \A j \in Kinds : Fits(EmbedChunks(d, ids), j)
         /\ \A i : HasVector(d, "finding", i) => HasVector(EmbedChunks(d, ids), "finding", i)
<1> DEFINE e  == EmbedChunks(d, ids)
           c  == [d EXCEPT !.codeSig = model]
<1>0. "chunk" \in Kinds /\ "finding" \in Kinds \ {"chunk"} /\ model \in Models
  BY DEF Kinds, TypeOK
<1>1. /\ c \in Indexes
      /\ c.row = d.row /\ c.vec = d.vec /\ c.table = d.table /\ c.dim = d.dim
  BY <1>0 DEF Indexes
<1>2. (\A j \in Kinds : Fits(c, j)) /\ \A i : HasVector(d, "finding", i) => HasVector(c, "finding", i)
  <2> HIDE DEF c
  <2>1. QED BY <1>1 DEF Fits, HasVector
<1>3. CASE d.codeSig # model
  <2>1. e = SetVectors(c, "chunk", c.row["chunk"])
    BY <1>1, <1>3 DEF EmbedChunks
  <2> HIDE DEF c
  <2>2. /\ e \in Indexes /\ e.row = c.row /\ SameElsewhere(c, e, "chunk")
        /\ \A j \in Kinds : Fits(e, j)
    BY <1>0, <1>1, <1>2, <2>1, SetVectorsKeeps
  <2> HIDE DEF e
  <2>3. \A i : HasVector(c, "finding", i) => HasVector(e, "finding", i)
    BY <1>0, <2>2, OtherKinds
  <2>4. QED BY <1>1, <1>2, <2>2, <2>3 DEF e
<1>4. CASE d.codeSig = model
  <2>1. e = SetVectors(d, "chunk", ids)
    BY <1>4 DEF EmbedChunks
  <2>2. /\ e \in Indexes /\ e.row = d.row /\ SameElsewhere(d, e, "chunk")
        /\ \A j \in Kinds : Fits(e, j)
    BY <1>0, <2>1, SetVectorsKeeps
  <2> HIDE DEF e
  <2>3. \A i : HasVector(d, "finding", i) => HasVector(e, "finding", i)
    BY <1>0, <2>2, OtherKinds
  <2>4. QED BY <2>2, <2>3 DEF e
<1>5. QED BY <1>3, <1>4

\* The embedding of findings and endpoints, under a new signature or not: when
\* the run is not rejected, every finding ends up with a vector.
LEMMA EmbedRowsKeeps ==
  ASSUME TypeOK, NEW d \in Indexes, \A j \in Kinds : Fits(d, j),
         NEW new, \A k \in Kinds : new[k] \subseteq d.row[k],
         \A i \in d.row["finding"] \ new["finding"] : HasVector(d, "finding", i),
         ~Rejects(d, new)
  PROVE  /\ EmbedRows(d, new) \in Indexes
         /\ \A j \in Kinds : Fits(EmbedRows(d, new), j)
         /\ \A i \in EmbedRows(d, new).row["finding"] :
              HasVector(EmbedRows(d, new), "finding", i)
<1> DEFINE f == "finding"
           e == EmbedRows(d, new)
<1>0. /\ f \in Kinds /\ "endpoint" \in Kinds /\ f \in Kinds \ {"endpoint"}
      /\ model \in Models /\ d.row \in [Kinds -> SUBSET Rows]
  BY DEF Kinds, TypeOK, Indexes
<1>1. ASSUME NEW g \in Indexes, \A j \in Kinds : Fits(g, j),
             \A i \in g.row[f] : HasVector(g, f, i),
             NEW ids \in SUBSET g.row["endpoint"], e = SetVectors(g, "endpoint", ids)
      PROVE  /\ e \in Indexes
             /\ \A j \in Kinds : Fits(e, j)
             /\ \A i \in e.row[f] : HasVector(e, f, i)
  <2> HIDE DEF e
  <2>1. /\ e \in Indexes /\ e.row = g.row /\ SameElsewhere(g, e, "endpoint")
        /\ \A j \in Kinds : Fits(e, j)
    BY <1>0, <1>1, SetVectorsKeeps
  <2>2. \A i : HasVector(g, f, i) => HasVector(e, f, i)
    BY <1>0, <2>1, OtherKinds
  <2>3. QED BY <1>1, <2>1, <2>2
<1>2. CASE d.sig # model
  <2> DEFINE c == [d EXCEPT !.sig = model, !.dim["finding"] = 0]
             g == SetVectors(c, f, c.row[f])
  <2>1. /\ c \in Indexes
        /\ c.row = d.row /\ c.vec = d.vec /\ c.table = d.table
        /\ c.dim[f] = 0 /\ \A j \in Kinds \ {f} : c.dim[j] = d.dim[j]
    BY <1>0 DEF Indexes
  <2>2. e = SetVectors(g, "endpoint", g.row["endpoint"])
    <3>1. g.row = d.row
      <4> HIDE DEF c
      <4>1. c.row[f] \in SUBSET Rows
        BY <1>0, <2>1
      <4>2. QED BY <1>0, <2>1, <4>1, SetVectorsEffect
    <3>2. QED BY <1>2, <2>1, <3>1 DEF EmbedRows
  <2> HIDE DEF c
  <2>3. c.row[f] \in SUBSET Rows
    BY <1>0, <2>1
  <2>4. g \in Indexes /\ g.row = c.row /\ SameElsewhere(c, g, f)
    BY <1>0, <2>1, <2>3, SetVectorsEffect
  <2>5. /\ \A v \in c.vec[f] : v.id \in c.row[f] /\ v.dim = c.table[f]
        /\ c.dim[f] \in {0, c.table[f]}
        /\ c.dim[f] = 0 /\ c.row[f] = {} => c.vec[f] = {}
    <3>1. Fits(d, f)
      BY <1>0
    <3>2. QED BY <2>1, <3>1 DEF Fits
  <2>6. Fits(g, f) /\ \A i \in c.row[f] : HasVector(g, f, i)
    BY <1>0, <2>1, <2>5, SetVectorsFits
  <2>7. \A j \in Kinds \ {f} : Fits(g, j)
    <3>1. \A j \in Kinds \ {f} : Fits(c, j)
      BY <2>1 DEF Fits
    <3> HIDE DEF g
    <3>2. QED BY <1>0, <2>4, <3>1, OtherKinds
  <2> HIDE DEF g, e
  <2>8. g.row["endpoint"] \in SUBSET g.row["endpoint"]
    OBVIOUS
  <2>9. (\A j \in Kinds : Fits(g, j)) /\ \A i \in g.row[f] : HasVector(g, f, i)
    BY <2>4, <2>6, <2>7
  <2>10. QED BY <1>1, <2>2, <2>4, <2>8, <2>9 DEF e
<1>3. CASE d.sig = model
  <2> DEFINE ids == new[f] \ Embedded(d, f)
             g   == SetVectors(d, f, ids)
             eps == new["endpoint"] \ Embedded(d, "endpoint")
  <2>1. e = SetVectors(g, "endpoint", eps)
    BY <1>3 DEF EmbedRows
  <2>2. ids \in SUBSET d.row[f] /\ eps \in SUBSET d.row["endpoint"]
    <3>1. new[f] \subseteq d.row[f] /\ new["endpoint"] \subseteq d.row["endpoint"]
      BY <1>0
    <3>2. QED BY <3>1
  <2>3. \A i \in new[f] \ ids : HasVector(d, f, i)
    BY DEF Embedded, HasVector
  <2>4. Fits(d, f)
    BY <1>0
  <2>5. d.dim[f] \in {0, dimOf[model]} \/ ids = {}
    BY <1>3 DEF Rejects
  <2> HIDE DEF ids, eps
  <2>6. g \in Indexes /\ g.row = d.row /\ \A j \in Kinds : Fits(g, j)
    BY <1>0, <2>2, SetVectorsKeeps
  <2>7. /\ \A i \in ids : HasVector(g, f, i)
        /\ ids = {} \/ d.dim[f] = dimOf[model] =>
             \A i \in d.row[f] : HasVector(d, f, i) => HasVector(g, f, i)
    <3>1. /\ \A v \in d.vec[f] : v.id \in d.row[f] /\ v.dim = d.table[f]
          /\ d.dim[f] \in {0, d.table[f]}
          /\ d.dim[f] = 0 /\ ids = {} => d.vec[f] = {}
      BY <2>4 DEF Fits
    <3>2. QED BY <1>0, <2>2, <3>1, SetVectorsFits
  <2>8. \A i \in d.row[f] \ ids : HasVector(d, f, i)
    BY <2>3
  <2>9. \A i \in g.row[f] : HasVector(g, f, i)
    <3> HIDE DEF g
    <3>1. CASE ids = {} \/ d.dim[f] = dimOf[model]
      BY <2>6, <2>7, <2>8, <3>1
    <3>2. CASE ids # {} /\ d.dim[f] = 0
      <4>1. d.vec[f] = {}
        BY <2>4, <3>2 DEF Fits
      <4>2. d.row[f] \ ids = {}
        BY <2>8, <4>1 DEF HasVector
      <4>3. QED BY <2>6, <2>7, <4>2
    <3>3. QED BY <2>5, <3>1, <3>2
  <2> HIDE DEF g, e
  <2>10. eps \in SUBSET g.row["endpoint"]
    BY <2>2, <2>6
  <2>11. QED BY <1>1, <2>1, <2>6, <2>9, <2>10 DEF e
<1>4. QED BY <1>2, <1>3

----------------------------------------------------------------------------
\* A run that is not rejected keeps the invariant, for any rows it replaces.
LEMMA IndexRunKeeps ==
  ASSUME TypeOK, VectorsInv, NEW chunks \in BOOLEAN,
         NEW old \in [Kinds -> SUBSET Rows], NEW new \in [Kinds -> SUBSET Rows],
         IndexRun(chunks, old, new)
  PROVE  TypeOK' /\ VectorsInv'
<1> DEFINE d == Replaced(ix, old, new)
           e == IF chunks THEN EmbedChunks(d, new["chunk"]) ELSE d
<1>0. /\ "finding" \in Kinds /\ "chunk" \in Kinds
      /\ \A k \in Kinds : new[k] \in SUBSET Rows
  BY DEF Kinds
<1>1. /\ d \in Indexes /\ \A k \in Kinds : Fits(d, k)
      /\ \A k \in Kinds : d.row[k] = (ix.row[k] \ old[k]) \cup new[k]
      /\ \A i \in ix.row["finding"] \ old["finding"] : HasVector(d, "finding", i)
  BY ReplacedEffect
<1>2. ~Rejects(e, new) /\ ix' = EmbedRows(e, new) /\ UNCHANGED <<model, dimOf, swaps>>
  BY DEF IndexRun
<1> HIDE DEF d
<1>3. /\ \A k \in Kinds : new[k] \subseteq d.row[k]
      /\ \A i \in d.row["finding"] \ new["finding"] : HasVector(d, "finding", i)
  BY <1>0, <1>1
<1>4. /\ e \in Indexes /\ \A k \in Kinds : Fits(e, k)
      /\ e.row = d.row
      /\ \A i : HasVector(d, "finding", i) => HasVector(e, "finding", i)
  <2>1. CASE chunks
    <3>1. new["chunk"] \in SUBSET d.row["chunk"]
      BY <1>0, <1>3
    <3>2. QED BY <1>1, <2>1, <3>1, EmbedChunksKeeps
  <2>2. CASE ~chunks
    BY <1>1, <2>2
  <2>3. QED BY <2>1, <2>2
<1> HIDE DEF e
<1>5. /\ ix' \in Indexes /\ \A k \in Kinds : Fits(ix', k)
      /\ \A i \in ix'.row["finding"] : HasVector(ix', "finding", i)
  <2>1. /\ \A k \in Kinds : new[k] \subseteq e.row[k]
        /\ \A i \in e.row["finding"] \ new["finding"] : HasVector(e, "finding", i)
    BY <1>3, <1>4
  <2>2. QED BY <1>2, <1>4, <2>1, EmbedRowsKeeps
<1>6. QED BY <1>2, <1>5 DEF TypeOK, VectorsInv

\* Every step keeps the types and the vectors that fit their tables.
LEMMA VectorsInductive ==
  ASSUME TypeOK, VectorsInv, [Next]_vars
  PROVE  TypeOK' /\ VectorsInv'
<1>1. ASSUME NEW chunks \in BOOLEAN, NEW old \in [Kinds -> SUBSET Rows],
             NEW new \in [Kinds -> SUBSET Rows], IndexRun(chunks, old, new)
      PROVE  TypeOK' /\ VectorsInv'
  BY <1>1, IndexRunKeeps
<1>2. ASSUME ChooseModel PROVE TypeOK' /\ VectorsInv'
  BY <1>2 DEF ChooseModel, TypeOK, VectorsInv
<1>3. ASSUME SwapModel PROVE TypeOK' /\ VectorsInv'
  BY <1>3, SwapsAssumption DEF SwapModel, TypeOK, VectorsInv
<1>4. ASSUME UNCHANGED vars PROVE TypeOK' /\ VectorsInv'
  BY <1>4 DEF vars, TypeOK, VectorsInv
<1>5. QED BY <1>1, <1>2, <1>3, <1>4 DEF Next

\* An empty index has no vector.
LEMMA VectorsInitially == Init => TypeOK /\ VectorsInv
<1> SUFFICES ASSUME Init PROVE TypeOK /\ VectorsInv
  OBVIOUS
<1>1. ix \in Indexes
  BY DEF Init, Indexes
<1>2. TypeOK
  BY <1>1, SwapsAssumption DEF Init, TypeOK
<1>3. VectorsInv
  BY DEF Init, VectorsInv, Fits, Kinds
<1>4. QED BY <1>2, <1>3

\* Whatever is indexed, in whatever order and under whatever models, the vectors
\* fit their rows and their tables and every finding has one (indexer.py:196-260,
\* 555-620, store.py:690-830).
THEOREM VectorsInvariant == Spec => [](TypeOK /\ VectorsInv)
<1>1. Init => TypeOK /\ VectorsInv
  BY VectorsInitially
<1>2. TypeOK /\ VectorsInv /\ [Next]_vars => (TypeOK /\ VectorsInv)'
  BY VectorsInductive
<1>3. QED BY <1>1, <1>2, PTL DEF Spec

\* Hence no vector outlives its row, although deletions are skipped whenever the
\* recorded dimension is empty (store.py:727-752).
THEOREM NoOrphanVectorsEver == Spec => []NoOrphanVectors
<1>1. VectorsInv => NoOrphanVectors
  BY DEF VectorsInv, NoOrphanVectors, Fits, Ids
<1>2. QED BY <1>1, VectorsInvariant, PTL

\* The dimension meta records, 0 aside, is that of the table and of each of its
\* vectors (store.py:690-725).
THEOREM DimensionAlwaysMatchesTable == Spec => []DimensionMatchesTable
<1>1. VectorsInv => DimensionMatchesTable
  BY DEF VectorsInv, DimensionMatchesTable, Fits
<1>2. QED BY <1>1, VectorsInvariant, PTL

\* Every finding has a vector, models replaced in place included: rejecting the
\* run is enough (indexer.py:231-236).
THEOREM FindingsAlwaysEmbedded == Spec => []FindingsEmbedded
<1>1. VectorsInv => FindingsEmbedded
  BY DEF VectorsInv, FindingsEmbedded, HasVector, Ids
<1>2. QED BY <1>1, VectorsInvariant, PTL

\* Every variable keeps its type, for any rows, models and dimensions.
THEOREM TypeCorrect == Spec => []TypeOK
<1>1. QED BY VectorsInvariant, PTL

----------------------------------------------------------------------------
(* One model per table, and a vector for every endpoint and chunk as long as *)
(* a model name stands for one model.                                        *)

\* The vectors of a kind come from model m, and have its dimension while no model
\* was replaced in place.
Holds(d, k, m) ==
  \A v \in d.vec[k] : v.model = m /\ (swaps = 0 => v.dim = dimOf[m])

\* Until then, every row of the kind but those of S has a vector.
Complete(d, k, S) == swaps = 0 => \A i \in d.row[k] \ S : HasVector(d, k, i)

ModelsInv ==
  /\ Holds(ix, "finding", ix.sig)
  /\ Holds(ix, "endpoint", ix.sig)
  /\ Holds(ix, "chunk", ix.codeSig)
  /\ Complete(ix, "endpoint", {})
  /\ Complete(ix, "chunk", {})

\* Embedding every row of a kind under a new signature leaves no vector of
\* another model, although a table of the same dimension is not dropped.
LEMMA EmbedEveryRow ==
  ASSUME TypeOK, NEW d \in Indexes, NEW k \in Kinds,
         \A v \in d.vec[k] : v.id \in d.row[k]
  PROVE  /\ Holds(SetVectors(d, k, d.row[k]), k, model)
         /\ Complete(SetVectors(d, k, d.row[k]), k, {})
<1> DEFINE n   == dimOf[model]
           ids == d.row[k]
           new == {[id |-> i, model |-> model, dim |-> n] : i \in ids}
           e   == SetVectors(d, k, ids)
<1>0. ids \in SUBSET Rows
  BY DEF Indexes
<1>1. CASE ids = {}
  <2>1. e = d /\ d.vec[k] = {} /\ d.row[k] = {}
    BY <1>1 DEF SetVectors
  <2>2. QED BY <2>1 DEF Holds, Complete
<1>2. CASE ids # {}
  <2>1. /\ e.row = d.row
        /\ e.vec[k] = {v \in (IF d.dim[k] = n THEN d.vec[k] ELSE {}) : v.id \notin ids} \cup new
    BY <1>0, <1>2, SetVectorsEffect
  <2>2. e.vec[k] = new
    BY <2>1
  <2>3. \A v \in new : v.model = model /\ v.dim = n
    OBVIOUS
  <2>4. ASSUME NEW i \in ids PROVE HasVector(e, k, i)
    <3>1. [id |-> i, model |-> model, dim |-> n] \in e.vec[k]
      BY <2>2
    <3> HIDE DEF e
    <3>2. QED BY <3>1 DEF HasVector
  <2> HIDE DEF e, new
  <2>5. Holds(e, k, model)
    BY <2>2, <2>3 DEF Holds
  <2>6. Complete(e, k, {})
    BY <2>1, <2>4 DEF Complete
  <2>7. QED BY <2>5, <2>6 DEF e
<1>3. QED BY <1>1, <1>2

\* Embedding the new rows of a kind under the signature it already has loses no
\* vector: the table is only dropped for another dimension, and a model that was
\* not replaced has one dimension.
LEMMA EmbedNewRows ==
  ASSUME TypeOK, NEW d \in Indexes, NEW k \in Kinds, Fits(d, k),
         NEW ids \in SUBSET d.row[k], Holds(d, k, model), Complete(d, k, ids)
  PROVE  /\ Holds(SetVectors(d, k, ids), k, model)
         /\ Complete(SetVectors(d, k, ids), k, {})
<1> DEFINE n   == dimOf[model]
           new == {[id |-> i, model |-> model, dim |-> n] : i \in ids}
           e   == SetVectors(d, k, ids)
<1>0. ids \in SUBSET Rows
  BY DEF Indexes
<1>1. e.row = d.row
  BY <1>0, SetVectorsEffect
<1>2. Holds(e, k, model)
  <2>1. CASE ids = {}
    <3>1. e = d
      BY <2>1 DEF SetVectors
    <3>2. QED BY <3>1
  <2>2. CASE ids # {}
    <3>1. e.vec[k] = {v \in (IF d.dim[k] = n THEN d.vec[k] ELSE {}) : v.id \notin ids} \cup new
      BY <1>0, <2>2, SetVectorsEffect
    <3>2. \A v \in new : v.model = model /\ v.dim = n
      OBVIOUS
    <3>3. \A v \in e.vec[k] : v \in d.vec[k] \/ v \in new
      BY <3>1
    <3> HIDE DEF e, new
    <3>4. QED BY <3>2, <3>3 DEF Holds
  <2>3. QED BY <2>1, <2>2
<1>3. Complete(e, k, {})
  <2> SUFFICES ASSUME swaps = 0 PROVE \A i \in e.row[k] : HasVector(e, k, i)
    BY DEF Complete
  <2>1. /\ \A v \in d.vec[k] : v.id \in d.row[k] /\ v.dim = d.table[k]
        /\ d.dim[k] \in {0, d.table[k]}
        /\ d.dim[k] = 0 /\ ids = {} => d.vec[k] = {}
    BY DEF Fits
  <2>2. /\ \A i \in ids : HasVector(e, k, i)
        /\ ids = {} \/ d.dim[k] = n =>
             \A i \in d.row[k] : HasVector(d, k, i) => HasVector(e, k, i)
    BY <2>1, SetVectorsFits
  <2>3. \A i \in d.row[k] \ ids : HasVector(d, k, i)
    BY DEF Complete
  <2>4. d.vec[k] # {} => d.dim[k] = n
    BY DEF Fits, Holds
  <2>5. (\E i \in d.row[k] : HasVector(d, k, i)) => d.vec[k] # {}
    BY DEF HasVector
  <2> HIDE DEF e
  <2>6. QED BY <1>1, <2>2, <2>3, <2>4, <2>5
<1>4. QED BY <1>2, <1>3

\* A step on the vectors of one kind leaves what is known of another.
LEMMA OtherModels ==
  ASSUME NEW d, NEW e, NEW k \in Kinds, SameElsewhere(d, e, k), NEW j \in Kinds \ {k},
         NEW m, NEW S
  PROVE  /\ Holds(d, j, m) => Holds(e, j, m)
         /\ Complete(d, j, S) => Complete(e, j, S)
BY DEF SameElsewhere, Holds, Complete, HasVector

\* What the writes before the embedding phase leave of the vectors.
LEMMA ReplacedVectors ==
  ASSUME TypeOK, VectorsInv, NEW old, NEW new \in [Kinds -> SUBSET Rows]
  PROVE  /\ \A k \in Kinds : Replaced(ix, old, new).vec[k] = {v \in ix.vec[k] : v.id \notin old[k]}
         /\ Replaced(ix, old, new).sig = ix.sig
         /\ Replaced(ix, old, new).codeSig = ix.codeSig
<1> DEFINE d1 == ReplaceRows(ix, "finding", old["finding"], new["finding"])
           d2 == ReplaceRows(d1, "endpoint", old["endpoint"], new["endpoint"])
           d3 == ReplaceRows(d2, "chunk", old["chunk"], new["chunk"])
<1>0. /\ \A k \in Kinds : new[k] \in SUBSET Rows
      /\ "finding" \in Kinds /\ "endpoint" \in Kinds /\ "chunk" \in Kinds
      /\ ix \in Indexes /\ \A k \in Kinds : Fits(ix, k)
  BY DEF TypeOK, VectorsInv, Kinds
<1>1. /\ d1 \in Indexes /\ \A k \in Kinds : Fits(d1, k)
      /\ SameElsewhere(ix, d1, "finding")
      /\ d1.vec["finding"] = {v \in ix.vec["finding"] : v.id \notin old["finding"]}
      /\ d1.sig = ix.sig /\ d1.codeSig = ix.codeSig
  BY <1>0, ReplaceRowsEffect, ReplaceRowsFits
<1> HIDE DEF d1
<1>2. /\ d2 \in Indexes /\ \A k \in Kinds : Fits(d2, k)
      /\ SameElsewhere(d1, d2, "endpoint")
      /\ d2.vec["endpoint"] = {v \in d1.vec["endpoint"] : v.id \notin old["endpoint"]}
      /\ d2.sig = d1.sig /\ d2.codeSig = d1.codeSig
  BY <1>0, <1>1, ReplaceRowsEffect, ReplaceRowsFits
<1> HIDE DEF d2
<1>3. /\ SameElsewhere(d2, d3, "chunk")
      /\ d3.vec["chunk"] = {v \in d2.vec["chunk"] : v.id \notin old["chunk"]}
      /\ d3.sig = d2.sig /\ d3.codeSig = d2.codeSig
  BY <1>0, <1>2, ReplaceRowsEffect
<1> HIDE DEF d3
<1>4. \A k \in Kinds : d3.vec[k] = {v \in ix.vec[k] : v.id \notin old[k]}
  BY <1>1, <1>2, <1>3 DEF SameElsewhere, Kinds
<1>5. Replaced(ix, old, new) = d3
  BY DEF Replaced, d1, d2, d3
<1>6. QED BY <1>1, <1>2, <1>3, <1>4, <1>5

\* The rows a run is about to embed are all that lacks a vector.
LEMMA ReplacedModels ==
  ASSUME TypeOK, VectorsInv, ModelsInv, NEW old, NEW new \in [Kinds -> SUBSET Rows]
  PROVE  LET d == Replaced(ix, old, new)
         IN /\ Holds(d, "finding", d.sig)
            /\ Holds(d, "endpoint", d.sig)
            /\ Holds(d, "chunk", d.codeSig)
            /\ Complete(d, "endpoint", new["endpoint"])
            /\ Complete(d, "chunk", new["chunk"])
<1> DEFINE d == Replaced(ix, old, new)
<1>1. "finding" \in Kinds /\ "endpoint" \in Kinds /\ "chunk" \in Kinds
  BY DEF Kinds
<1>2. /\ \A k \in Kinds : d.vec[k] = {v \in ix.vec[k] : v.id \notin old[k]}
      /\ d.sig = ix.sig /\ d.codeSig = ix.codeSig
      /\ \A k \in Kinds : d.row[k] = (ix.row[k] \ old[k]) \cup new[k]
  BY ReplacedVectors, ReplacedEffect
<1> HIDE DEF d
<1>3. /\ Holds(d, "finding", d.sig) /\ Holds(d, "endpoint", d.sig)
      /\ Holds(d, "chunk", d.codeSig)
  BY <1>1, <1>2 DEF ModelsInv, Holds
<1>4. ASSUME NEW k \in Kinds, Complete(ix, k, {})
      PROVE  Complete(d, k, new[k])
  <2> SUFFICES ASSUME swaps = 0, NEW i \in d.row[k] \ new[k] PROVE HasVector(d, k, i)
    BY DEF Complete
  <2>1. i \in ix.row[k] /\ i \notin old[k]
    BY <1>2
  <2>2. PICK v \in ix.vec[k] : v.id = i
    BY <1>4, <2>1 DEF Complete, HasVector
  <2>3. v \in d.vec[k]
    BY <1>2, <2>1, <2>2
  <2>4. QED BY <2>2, <2>3 DEF HasVector
<1>5. Complete(d, "endpoint", new["endpoint"]) /\ Complete(d, "chunk", new["chunk"])
  BY <1>1, <1>4 DEF ModelsInv
<1>6. QED BY <1>3, <1>5 DEF d

\* Embedding the chunks, all of them or the new ones, touches nothing else.
LEMMA EmbedChunksModels ==
  ASSUME TypeOK, NEW d \in Indexes, \A j \in Kinds : Fits(d, j),
         NEW ids \in SUBSET d.row["chunk"], NEW S,
         Holds(d, "finding", d.sig), Holds(d, "endpoint", d.sig), Holds(d, "chunk", d.codeSig),
         Complete(d, "endpoint", S), Complete(d, "chunk", ids)
  PROVE  LET e == EmbedChunks(d, ids)
         IN /\ Holds(e, "finding", e.sig)
            /\ Holds(e, "endpoint", e.sig)
            /\ Holds(e, "chunk", e.codeSig)
            /\ Complete(e, "endpoint", S)
            /\ Complete(e, "chunk", {})
<1> DEFINE e == EmbedChunks(d, ids)
           c == [d EXCEPT !.codeSig = model]
<1>0. /\ "chunk" \in Kinds /\ "finding" \in Kinds \ {"chunk"}
      /\ "endpoint" \in Kinds \ {"chunk"} /\ model \in Models
      /\ Fits(d, "chunk") /\ d.row \in [Kinds -> SUBSET Rows]
  BY DEF Kinds, TypeOK, Indexes
<1>1. CASE d.codeSig # model
  <2>1. /\ c \in Indexes /\ c.codeSig = model /\ c.sig = d.sig
        /\ c.row = d.row /\ c.vec = d.vec
    BY <1>0 DEF Indexes
  <2>2. e = SetVectors(c, "chunk", c.row["chunk"])
    BY <1>1, <2>1 DEF EmbedChunks
  <2> HIDE DEF c
  <2>3. c.row["chunk"] \in SUBSET Rows
    BY <1>0, <2>1
  <2>4. SameElsewhere(c, e, "chunk") /\ e.sig = c.sig /\ e.codeSig = c.codeSig
    BY <1>0, <2>1, <2>2, <2>3, SetVectorsEffect
  <2>5. Holds(e, "chunk", model) /\ Complete(e, "chunk", {})
    BY <1>0, <2>1, <2>2, EmbedEveryRow DEF Fits
  <2> HIDE DEF e
  <2>6. /\ Holds(c, "finding", d.sig) /\ Holds(c, "endpoint", d.sig)
        /\ Complete(c, "endpoint", S)
    BY <2>1 DEF Holds, Complete, HasVector
  <2>7. /\ Holds(e, "finding", d.sig) /\ Holds(e, "endpoint", d.sig)
        /\ Complete(e, "endpoint", S)
    BY <1>0, <2>4, <2>6, OtherModels
  <2>8. QED BY <2>1, <2>4, <2>5, <2>7 DEF e
<1>2. CASE d.codeSig = model
  <2>1. e = SetVectors(d, "chunk", ids)
    BY <1>2 DEF EmbedChunks
  <2>2. ids \in SUBSET Rows
    BY <1>0
  <2>3. SameElsewhere(d, e, "chunk") /\ e.sig = d.sig /\ e.codeSig = d.codeSig
    BY <1>0, <2>1, <2>2, SetVectorsEffect
  <2>4. Holds(e, "chunk", model) /\ Complete(e, "chunk", {})
    BY <1>0, <1>2, <2>1, EmbedNewRows
  <2> HIDE DEF e
  <2>5. /\ Holds(e, "finding", d.sig) /\ Holds(e, "endpoint", d.sig)
        /\ Complete(e, "endpoint", S)
    BY <1>0, <2>3, OtherModels
  <2>6. QED BY <1>2, <2>3, <2>4, <2>5 DEF e
<1>3. QED BY <1>1, <1>2

\* Embedding findings and endpoints, all of them or the new ones.
LEMMA EmbedRowsModels ==
  ASSUME TypeOK, NEW d \in Indexes, \A j \in Kinds : Fits(d, j),
         NEW new, \A k \in Kinds : new[k] \subseteq d.row[k],
         Holds(d, "finding", d.sig), Holds(d, "endpoint", d.sig), Holds(d, "chunk", d.codeSig),
         Complete(d, "finding", new["finding"]),
         Complete(d, "endpoint", new["endpoint"]), Complete(d, "chunk", {})
  PROVE  LET e == EmbedRows(d, new)
         IN /\ Holds(e, "finding", e.sig)
            /\ Holds(e, "endpoint", e.sig)
            /\ Holds(e, "chunk", e.codeSig)
            /\ Complete(e, "endpoint", {})
            /\ Complete(e, "chunk", {})
<1> DEFINE f == "finding"
           p == "endpoint"
           e == EmbedRows(d, new)
<1>0. /\ f \in Kinds /\ p \in Kinds /\ f \in Kinds \ {p} /\ p \in Kinds \ {f}
      /\ "chunk" \in Kinds \ {f} /\ "chunk" \in Kinds \ {p}
      /\ model \in Models /\ d.row \in [Kinds -> SUBSET Rows]
      /\ Fits(d, f) /\ Fits(d, p)
  BY DEF Kinds, TypeOK, Indexes
<1>1. CASE d.sig # model
  <2> DEFINE c == [d EXCEPT !.sig = model, !.dim["finding"] = 0]
             g == SetVectors(c, f, c.row[f])
  <2>1. /\ c \in Indexes /\ c.sig = model /\ c.codeSig = d.codeSig
        /\ c.row = d.row /\ c.vec = d.vec
    BY <1>0 DEF Indexes
  <2>2. /\ Holds(c, "chunk", d.codeSig) /\ Complete(c, "chunk", {})
        /\ \A v \in c.vec[f] : v.id \in c.row[f]
        /\ \A v \in c.vec[p] : v.id \in c.row[p]
    <3> HIDE DEF c
    <3>1. QED BY <1>0, <2>1 DEF Holds, Complete, HasVector, Fits
  <2> HIDE DEF c
  <2>3. c.row[f] \in SUBSET Rows
    BY <1>0, <2>1
  <2>4. /\ g \in Indexes /\ g.row = c.row /\ SameElsewhere(c, g, f)
        /\ g.sig = c.sig /\ g.codeSig = c.codeSig
    BY <1>0, <2>1, <2>3, SetVectorsEffect
  <2>5. Holds(g, f, model)
    BY <1>0, <2>1, <2>2, EmbedEveryRow
  <2> HIDE DEF g
  <2>6. e = SetVectors(g, p, g.row[p])
    BY <1>1, <2>1, <2>4 DEF EmbedRows, c, g
  <2>7. Holds(g, "chunk", d.codeSig) /\ Complete(g, "chunk", {})
    BY <1>0, <2>2, <2>4, OtherModels
  <2>8. \A v \in g.vec[p] : v.id \in g.row[p]
    BY <1>0, <2>2, <2>4 DEF SameElsewhere
  <2>9. g.row[p] \in SUBSET Rows
    BY <1>0, <2>1, <2>4
  <2>10. SameElsewhere(g, e, p) /\ e.sig = g.sig /\ e.codeSig = g.codeSig
    BY <1>0, <2>4, <2>6, <2>9, SetVectorsEffect
  <2>11. Holds(e, p, model) /\ Complete(e, p, {})
    BY <1>0, <2>4, <2>6, <2>8, EmbedEveryRow
  <2> HIDE DEF e
  <2>12. Holds(e, f, model) /\ Holds(e, "chunk", d.codeSig) /\ Complete(e, "chunk", {})
    BY <1>0, <2>5, <2>7, <2>10, OtherModels
  <2>13. QED BY <2>1, <2>4, <2>10, <2>11, <2>12 DEF e
<1>2. CASE d.sig = model
  <2> DEFINE ids == new[f] \ Embedded(d, f)
             eps == new[p] \ Embedded(d, p)
             g   == SetVectors(d, f, ids)
  <2>1. e = SetVectors(g, p, eps)
    BY <1>2 DEF EmbedRows
  <2>2. /\ ids \in SUBSET d.row[f] /\ eps \in SUBSET d.row[p]
        /\ ids \in SUBSET Rows /\ eps \in SUBSET Rows
    <3>1. new[f] \subseteq d.row[f] /\ new[p] \subseteq d.row[p]
      BY <1>0
    <3>2. QED BY <1>0, <3>1
  <2>3. Complete(d, f, ids) /\ Complete(d, p, eps)
    BY DEF Complete, Embedded, HasVector
  <2> HIDE DEF ids, eps
  <2>4. /\ g \in Indexes /\ g.row = d.row /\ SameElsewhere(d, g, f)
        /\ g.sig = d.sig /\ g.codeSig = d.codeSig
    BY <1>0, <2>2, SetVectorsEffect
  <2>5. \A j \in Kinds : Fits(g, j)
    BY <1>0, <2>2, SetVectorsKeeps
  <2>6. Holds(g, f, model)
    BY <1>0, <1>2, <2>2, <2>3, EmbedNewRows
  <2> HIDE DEF g
  <2>7. /\ Holds(g, p, model) /\ Complete(g, p, eps)
        /\ Holds(g, "chunk", d.codeSig) /\ Complete(g, "chunk", {})
    BY <1>0, <1>2, <2>3, <2>4, OtherModels
  <2>8. SameElsewhere(g, e, p) /\ e.sig = g.sig /\ e.codeSig = g.codeSig
    BY <1>0, <2>1, <2>2, <2>4, SetVectorsEffect
  <2>9. Holds(e, p, model) /\ Complete(e, p, {})
    BY <1>0, <2>1, <2>2, <2>4, <2>5, <2>7, EmbedNewRows
  <2> HIDE DEF e
  <2>10. Holds(e, f, model) /\ Holds(e, "chunk", d.codeSig) /\ Complete(e, "chunk", {})
    BY <1>0, <2>6, <2>7, <2>8, OtherModels
  <2>11. QED BY <1>2, <2>4, <2>8, <2>9, <2>10 DEF e
<1>3. QED BY <1>1, <1>2

\* A run that commits leaves the vectors of one model beside each signature.
LEMMA IndexRunModels ==
  ASSUME TypeOK, VectorsInv, ModelsInv, NEW chunks \in BOOLEAN,
         NEW old \in [Kinds -> SUBSET Rows], NEW new \in [Kinds -> SUBSET Rows],
         IndexRun(chunks, old, new)
  PROVE  ModelsInv'
<1> DEFINE d == Replaced(ix, old, new)
           e == IF chunks THEN EmbedChunks(d, new["chunk"]) ELSE d
<1>0. /\ "finding" \in Kinds /\ "chunk" \in Kinds
      /\ \A k \in Kinds : new[k] \in SUBSET Rows
  BY DEF Kinds
<1>1. /\ ix' = EmbedRows(e, new) /\ UNCHANGED <<model, dimOf, swaps>>
      /\ ~chunks => new["chunk"] = {}
  BY DEF IndexRun
<1>2. /\ d \in Indexes /\ \A k \in Kinds : Fits(d, k)
      /\ \A k \in Kinds : d.row[k] = (ix.row[k] \ old[k]) \cup new[k]
      /\ \A i \in ix.row["finding"] \ old["finding"] : HasVector(d, "finding", i)
  BY ReplacedEffect
<1>3. /\ Holds(d, "finding", d.sig) /\ Holds(d, "endpoint", d.sig)
      /\ Holds(d, "chunk", d.codeSig)
      /\ Complete(d, "endpoint", new["endpoint"]) /\ Complete(d, "chunk", new["chunk"])
  BY ReplacedModels
<1> HIDE DEF d
<1>4. \A k \in Kinds : new[k] \subseteq d.row[k]
  BY <1>0, <1>2
<1>5. Complete(d, "finding", new["finding"])
  BY <1>0, <1>2 DEF Complete
<1>6. /\ e \in Indexes /\ (\A k \in Kinds : Fits(e, k)) /\ e.row = d.row
      /\ Holds(e, "finding", e.sig) /\ Holds(e, "endpoint", e.sig)
      /\ Holds(e, "chunk", e.codeSig)
      /\ Complete(e, "finding", new["finding"])
      /\ Complete(e, "endpoint", new["endpoint"]) /\ Complete(e, "chunk", {})
  <2>1. CASE chunks
    <3>1. new["chunk"] \in SUBSET d.row["chunk"]
      BY <1>0, <1>4
    <3>2. e = EmbedChunks(d, new["chunk"])
      BY <2>1
    <3> HIDE DEF e
    <3>3. /\ e \in Indexes /\ e.row = d.row /\ \A k \in Kinds : Fits(e, k)
          /\ \A i : HasVector(d, "finding", i) => HasVector(e, "finding", i)
      BY <1>2, <3>1, <3>2, EmbedChunksKeeps
    <3>4. /\ Holds(e, "finding", e.sig) /\ Holds(e, "endpoint", e.sig)
          /\ Holds(e, "chunk", e.codeSig)
          /\ Complete(e, "endpoint", new["endpoint"]) /\ Complete(e, "chunk", {})
      BY <1>2, <1>3, <3>1, <3>2, EmbedChunksModels
    <3>5. Complete(e, "finding", new["finding"])
      BY <1>5, <3>3 DEF Complete
    <3>6. QED BY <3>3, <3>4, <3>5
  <2>2. CASE ~chunks
    BY <1>1, <1>2, <1>3, <1>5, <2>2
  <2>3. QED BY <2>1, <2>2
<1> HIDE DEF e
<1>7. /\ Holds(ix', "finding", ix'.sig) /\ Holds(ix', "endpoint", ix'.sig)
      /\ Holds(ix', "chunk", ix'.codeSig)
      /\ Complete(ix', "endpoint", {}) /\ Complete(ix', "chunk", {})
  BY <1>1, <1>4, <1>6, EmbedRowsModels
<1>8. QED BY <1>1, <1>7 DEF ModelsInv, Holds, Complete

\* Every step keeps the vectors of one model for each recorded signature.
LEMMA ModelsInductive ==
  ASSUME TypeOK, VectorsInv, ModelsInv, [Next]_vars
  PROVE  ModelsInv'
<1>1. ASSUME NEW chunks \in BOOLEAN, NEW old \in [Kinds -> SUBSET Rows],
             NEW new \in [Kinds -> SUBSET Rows], IndexRun(chunks, old, new)
      PROVE  ModelsInv'
  BY <1>1, IndexRunModels
<1>2. CASE ChooseModel \/ UNCHANGED vars
  <2>1. UNCHANGED <<ix, dimOf, swaps>>
    BY <1>2 DEF ChooseModel, vars
  <2>2. QED BY <2>1 DEF ModelsInv, Holds, Complete
<1>3. CASE SwapModel
  <2>1. ix' = ix /\ swaps' # 0
    BY <1>3, SwapsAssumption DEF SwapModel, TypeOK
  <2>2. QED BY <2>1 DEF ModelsInv, Holds, Complete
<1>4. QED BY <1>1, <1>2, <1>3 DEF Next

\* Every vector comes from the model its table's signature names, and until a model
\* is replaced in place every endpoint and every chunk has one.
THEOREM ModelsInvariant == Spec => []ModelsInv
<1>1. Init => ModelsInv
  BY DEF Init, ModelsInv, Holds, Complete, Kinds
<1>2. QED BY <1>1, ModelsInductive, VectorsInvariant, PTL DEF Spec

\* No table ever mixes the vectors of two models, however engines, empty tables and
\* changes of model alternate (indexer.py:570-589).
THEOREM OneModelPerTableAlways == Spec => []OneModelPerTable
<1>1. ModelsInv => OneModelPerTable
  BY DEF ModelsInv, Holds, OneModelPerTable
<1>2. QED BY <1>1, ModelsInvariant, PTL

\* As long as a model name stands for one model, no endpoint and no chunk lacks a
\* vector, although only the new ones are embedded (indexer.py:575-620).
THEOREM EndpointsAlwaysEmbedded == Spec => []EndpointsEmbedded
<1>1. ModelsInv => EndpointsEmbedded
  BY DEF ModelsInv, Complete, HasVector, EndpointsEmbedded, Ids
<1>2. QED BY <1>1, ModelsInvariant, PTL
=============================================================================
