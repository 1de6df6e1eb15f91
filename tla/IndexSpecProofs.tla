--------------------------- MODULE IndexSpecProofs ---------------------------
(***************************************************************************)
(* What a reader may conclude from IndexSpec, and so, by the refinement    *)
(* proved in IndexerProofs, from the database the indexer maintains.       *)
(***************************************************************************)
EXTENDS IndexSpec, TLAPS

\* Every entry is one that could have been published at the present revision.
EntriesInv ==
  /\ rev \in [Files -> Nat \ {0}]
  /\ \A f \in Files : index[f] \in Entries(f, rev[f])

LEMMA EntriesInitially == Init => EntriesInv
BY DEF Init, EntriesInv, Entries

\* What may be published at one revision may still be at a later one.
LEMMA EntriesGrow ==
  ASSUME NEW f, NEW r \in Nat, NEW e \in Entries(f, r)
  PROVE  e \in Entries(f, r + 1)
<1>1. 0..r \subseteq 0..(r + 1) /\ SUBSET (1..r) \subseteq SUBSET (1..(r + 1))
  OBVIOUS
<1>2. QED BY <1>1 DEF Entries

LEMMA EntriesInductive ==
  ASSUME EntriesInv, [Next]_<<rev, index>>
  PROVE  EntriesInv'
<1>1. ASSUME NEW f \in Files, Change(f) PROVE EntriesInv'
  <2>1. rev' = [rev EXCEPT ![f] = @ + 1] /\ index' = index
    BY <1>1 DEF Change
  <2>2. rev' \in [Files -> Nat \ {0}]
    BY <2>1 DEF EntriesInv
  <2>3. ASSUME NEW g \in Files PROVE index'[g] \in Entries(g, rev'[g])
    <3>1. rev[g] \in Nat /\ index[g] \in Entries(g, rev[g])
      BY DEF EntriesInv
    <3>2. index[g] \in Entries(g, rev[g] + 1)
      BY <3>1, EntriesGrow
    <3>3. rev'[g] = rev[g] \/ rev'[g] = rev[g] + 1
      BY <2>1, <3>1 DEF EntriesInv
    <3>4. QED BY <2>1, <3>1, <3>2, <3>3
  <2>4. QED BY <2>2, <2>3 DEF EntriesInv
<1>2. ASSUME Publish PROVE EntriesInv'
  <2>1. /\ rev' = rev
        /\ \A f \in Files : index'[f] = index[f] \/ index'[f] \in Entries(f, rev[f])
    BY <1>2 DEF Publish
  <2>2. QED BY <2>1 DEF EntriesInv
<1>3. ASSUME UNCHANGED <<rev, index>> PROVE EntriesInv'
  BY <1>3 DEF EntriesInv
<1>4. QED BY <1>1, <1>2, <1>3 DEF Next

\* A file whose stored hash is the one of its present content has facts of that
\* content: this is what lets the delta skip it (indexer.py:414-425).
THEOREM AlwaysTrustworthy == Spec => []Trustworthy
<1>1. EntriesInv => Trustworthy
  <2> SUFFICES ASSUME EntriesInv, NEW f \in Files, index[f].hash = rev[f]
               PROVE  index[f].facts = rev[f]
    BY DEF Trustworthy
  <2>1. rev[f] \in Nat \ {0} /\ index[f] \in Entries(f, rev[f])
    BY DEF EntriesInv
  <2>2. QED BY <2>1 DEF Entries
<1>2. QED BY <1>1, EntriesInitially, EntriesInductive, PTL DEF Spec
=============================================================================
