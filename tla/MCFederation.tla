---------------------------- MODULE MCFederation ----------------------------
(* Instances of Federation for TLC. *)
EXTENDS Federation

CONSTANTS orders, billing

MCOrder   == <<billing, orders>>
MCMaxName == [s \in Services |-> IF s = orders THEN 2 ELSE 1]
MCRows    == UNION {{s} \X (1..MCMaxName[s]) : s \in Services}

\* Root has a database of release 1, or of one in between; orders has one of
\* its own; either may be removed. billing is created later.
MCInitial ==
  {[db |-> [b \in Dbs |-> IF b = Root THEN r ELSE o],
    name |-> [s \in Services |-> IF s = orders THEN 1 ELSE 0]] :
      r \in {d \in Releases : Legacy \in d.columns \/ d.inventory = "unsigned"},
      o \in {d \in Releases : d.version = "current"}}
=============================================================================
