----------------------------- MODULE IndexSpec -----------------------------
(***************************************************************************)
(* What the index promises its readers, without saying how it is built:    *)
(* for every file, either nothing, or a content identifier together with   *)
(* facts extracted from that content or from a later one.  A reader never  *)
(* sees a half-applied indexing, and a file whose identifier is still the  *)
(* current one has current facts.  A contract may also show operations     *)
(* published for it by another file, of any of the contents it has had:    *)
(* those, its identifier does not vouch for.                               *)
(***************************************************************************)
EXTENDS Naturals

CONSTANTS
  Files,
  Contracts   \* the files other files may publish operations of

VARIABLES
  rev,    \* the revision of each file
  index   \* what a reader of the index sees

\* The entries an indexer may publish for file f at revision r.
Entries(f, r) ==
  {e \in [hash : 0..r, facts : 0..r, published : SUBSET (1..r)] :
     /\ e.hash = 0 => e.facts = 0
     /\ e.hash <= e.facts
     /\ e.published # {} => f \in Contracts}

Init ==
  /\ rev = [f \in Files |-> 1]
  /\ index = [f \in Files |-> [hash |-> 0, facts |-> 0, published |-> {}]]

\* A file is written or deleted.
Change(f) ==
  /\ rev' = [rev EXCEPT ![f] = @ + 1]
  /\ UNCHANGED index

\* An indexing takes effect, at once for all the files it is about.
Publish ==
  /\ DOMAIN index' = Files
  /\ \A f \in Files : index'[f] = index[f] \/ index'[f] \in Entries(f, rev[f])
  /\ UNCHANGED rev

Next == (\E f \in Files : Change(f)) \/ Publish

Spec == Init /\ [][Next]_<<rev, index>>

\* A file whose identifier is current has current facts.
Trustworthy == \A f \in Files : index[f].hash = rev[f] => index[f].facts = rev[f]
=============================================================================
