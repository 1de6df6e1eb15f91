---------------------------- MODULE MCEmbeddings ----------------------------
(* The instances of Embeddings that TLC checks.  Rows and models are only    *)
(* compared for equality, so permuting them is a symmetry.                   *)
EXTENDS Embeddings, TLC

Symmetry == Permutations(Rows) \cup Permutations(Models)
=============================================================================
